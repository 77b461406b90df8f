----------------------------- MODULE SshdChecks ------------------------------
(***************************************************************************)
(* sshd_config: the collector that follows its includes, and the SSHD      *)
(* checks over the directives.                                             *)
(*                                                                         *)
(* A file is a sequence of [keyword, value] lines.  An Include's value is  *)
(* the sequence of its patterns, a Match's the criterion, an algorithm     *)
(* list's [mode, items]; any other is a word.  The keyword "" stands for one*)
(* that has no argument.                                                   *)
(***************************************************************************)
EXTENDS Values
LOCAL INSTANCE SequencesExt

CONSTANTS
  MaxIncludeDepth,
  Durations   \* the time values that are no numerals: a function to sequences of [n, unit]

DefaultConfigPath == "/etc/ssh/sshd_config"

MaxAuthTriesLimit == 4
IdleTimeoutLimit  == 900
LoginGraceLimit   == 60

\* one name for each clause that calls a name weak
WeakCipher == {"none", "3des-cbc", "arcfour", "blowfish-cbc", "des", "aes128-cbc"}
WeakMAC    == {"none", "hmac-md5", "hmac-sha1", "umac-64@openssh.com", "hmac-sha2-96"}
WeakKex    == {"none", "diffie-hellman-group1-sha1", "rsa1024-sha256", "group14-sha1"}

------------------------------------------------------------------------------
(* The collector.  st is the parser; its context is looked at before each  *)
(* included file, and a file it does not get to is an include it did not   *)
(* resolve.                                                                *)

ExpandInclude(host, scan, parse, patterns, depth, st) ==
  LET unresolved(s, what) == [s EXCEPT !.unresolvedIncludes = @ \cup {what}]
      open(s, file) ==
        CASE file \in s.seen -> s
          [] file \notin s.seen /\ s.left = 0 -> unresolved(s, file)
          [] OTHER -> LET t == [s EXCEPT !.left = @ - 1]
                      IN  IF ReadFile(host, scan, file) # "present" \/ Truncated(host, scan, file)
                          THEN unresolved(t, file)
                          ELSE parse[depth + 1, file, t]
      expand(s, pattern) ==
        LET matches == Glob(host, scan, pattern)
        IN  IF matches = << >> THEN unresolved(s, pattern) ELSE FoldLeft(open, s, matches)
  IN  IF depth >= MaxIncludeDepth THEN unresolved(st, patterns[1])
      ELSE FoldLeft(expand, st, patterns)

\* a Match of an included file ends with that file
ParseFile(host, scan, parse, depth, file, st) ==
  LET text == host.files[file]
      line(s, n) ==
        LET d == text[n]
        IN CASE d.keyword = "Include" -> ExpandInclude(host, scan, parse, d.value, depth, s)
             [] d.keyword = "Match" -> [s EXCEPT !.match = IF d.value = "all" THEN "" ELSE d.value]
             [] d.keyword = "" -> [s EXCEPT !.syntaxErrors = TRUE]
             [] OTHER -> [s EXCEPT !.met = Append(@, [file |-> file, line |-> n, inMatch |-> s.match # ""])]
      parsed == FoldLeft(line, [st EXCEPT !.seen = @ \cup {file}], [n \in DOMAIN text |-> n])
  IN  [parsed EXCEPT !.match = st.match]

\* the parser after the main file and all it includes; st.met says where it met the directives
ParsedSshd(host, scan, start) ==
  LET files  == DOMAIN host.files
      states == [met : Seq([file : files, line : Nat, inMatch : BOOLEAN]), match : STRING,
                 unresolvedIncludes : SUBSET STRING, syntaxErrors : BOOLEAN, seen : SUBSET files,
                 left : 0..scan.reach]
      parse[depth \in 0..MaxIncludeDepth, f \in files, st \in states] ==
        ParseFile(host, scan, parse, depth, f, st)
  IN  parse[0, DefaultConfigPath, start]

CollectSshd(host, scan) ==
  LET read  == ReadFile(host, scan, DefaultConfigPath)
      start == [met |-> << >>, unresolvedIncludes |-> {}, syntaxErrors |-> FALSE,
                seen |-> {}, match |-> "", left |-> scan.reach]
      said(m) == host.files[m.file][m.line]
      fact(st) == [error |-> "", installed |-> read = "present",
                   unresolvedIncludes |-> st.unresolvedIncludes, syntaxErrors |-> st.syntaxErrors,
                   directives |-> [n \in DOMAIN st.met |->
                                     [keyword |-> said(st.met[n]).keyword, value |-> said(st.met[n]).value,
                                      inMatch |-> st.met[n].inMatch]]]
  IN CASE read = "absent" -> fact(start)
       [] read = "denied" -> Missing("permission")
       [] read \in {"irregular", "binary"} -> Missing("parse")
       [] read = "error" -> Missing("internal")
       [] read = "present" -> IF Truncated(host, scan, DefaultConfigPath) THEN Missing("truncated")
                              ELSE fact(ParsedSshd(host, scan, start))

------------------------------------------------------------------------------
(* Accessors and the shared shape of the checks.                           *)

AtGlobal(c, keyword) == {n \in DOMAIN c.directives : /\ ~c.directives[n].inMatch
                                                     /\ c.directives[n].keyword = keyword}

\* the first occurrence outside a Match block is the one in force
Effective(c, keyword) ==
  LET at == AtGlobal(c, keyword) IN c.directives[CHOOSE n \in at : \A k \in at : n <= k].value

\* the values that Match blocks give the keyword
InMatch(c, keyword) ==
  LET at == {n \in DOMAIN c.directives : /\ c.directives[n].inMatch
                                         /\ c.directives[n].keyword = keyword}
  IN  {c.directives[n].value : n \in at}

\* why no verdict can be given for these keywords, or "" if one can
Obstacle(c, keywords) ==
  CASE c.syntaxErrors -> ReasonParse
    [] ~c.syntaxErrors /\ c.unresolvedIncludes # {} /\ (\E k \in keywords : AtGlobal(c, k) = {}) ->
         ReasonAmbiguousState
    [] OTHER -> ""

\* onAbsent and onValue: the verdict without and with an effective value
Evaluate(c, keyword, onAbsent, onValue) ==
  LET why == Obstacle(c, {keyword})
  IN CASE ~c.installed -> NotApplicable
       [] c.installed /\ why # "" -> CannotTell(why, {keyword})
       [] OTHER -> IF AtGlobal(c, keyword) = {} THEN onAbsent ELSE onValue

\* a sound global value still fails if some Match block loosens it
PassUnlessLoosened(keyword, loosened) ==
  IF loosened # {} THEN Fails({keyword}) ELSE Passes

BoolSpec(c, keyword, secure, default) ==
  LET opposite    == IF secure = "yes" THEN "no" ELSE "yes"
      v           == Effective(c, keyword)
      pass        == PassUnlessLoosened(keyword, InMatch(c, keyword) \cap {opposite})
      onValue     == CASE v = secure   -> pass
                       [] v = opposite -> Fails({keyword})
                       [] OTHER        -> CannotTell(ReasonParse, {keyword})
  IN  Evaluate(c, keyword, IF default = secure THEN pass ELSE Fails({keyword}), onValue)

TimeParses(v) == v \in DOMAIN Durations \/ (IsNumeral(v) /\ Number(v) >= 0)

ParseTimeSeconds(v) ==
  IF IsNumeral(v) THEN Number(v)
  ELSE FoldLeft(LAMBDA total, part : Wrap(total + part.n * part.unit), 0, Durations[v])

\* the setting is a plain number or a time, and acceptable in a range
IntSpec(c, keyword, default, syntax, acceptable) ==
  LET parses(v)   == IF syntax = "time" THEN TimeParses(v) ELSE IsNumeral(v)
      parse(v)    == IF syntax = "time" THEN ParseTimeSeconds(v) ELSE Number(v)
      insecure(v) == parses(v) /\ parse(v) \notin acceptable
      pass        == PassUnlessLoosened(keyword, {v \in InMatch(c, keyword) : insecure(v)})
      v           == Effective(c, keyword)
      onValue     == CASE ~parses(v)  -> CannotTell(ReasonParse, {keyword})
                       [] insecure(v) -> Fails({keyword})
                       [] OTHER       -> pass
  IN  Evaluate(c, keyword, IF default \in acceptable THEN pass ELSE Fails({keyword}), onValue)

(* A list that edits the built-in default only tells what it adds.         *)
AlgSpec(c, keyword, weak) ==
  LET list    == Effective(c, keyword)
      onValue ==
        CASE list.items = {} -> CannotTell(ReasonParse, {keyword})
          [] list.items # {} /\ list.mode # "-" /\ list.items \cap weak # {} -> Fails({keyword})
          [] list.items # {} /\ list.mode = "" /\ list.items \cap weak = {} -> Passes
          [] OTHER -> CannotTell(ReasonAmbiguousState, {keyword})
  IN  Evaluate(c, keyword, CannotTell(ReasonAmbiguousState, {keyword}), onValue)

------------------------------------------------------------------------------

SSHD_0002(c) ==
  LET keyword == "PermitRootLogin"
      permits == {"yes", "prohibit-password", "without-password", "forced-commands-only"}
      v       == Effective(c, keyword)
      onValue == CASE v = "no"      -> PassUnlessLoosened(keyword, InMatch(c, keyword) \cap permits)
                   [] v \in permits -> Fails({keyword})
                   [] OTHER         -> CannotTell(ReasonParse, {keyword})
  IN  Evaluate(c, keyword, Fails({"PermitRootLogin"}), onValue)

SSHD_0003(c) == BoolSpec(c, "PasswordAuthentication", "no", "yes")
SSHD_0004(c) == BoolSpec(c, "PermitEmptyPasswords", "no", "no")
SSHD_0005(c) == BoolSpec(c, "X11Forwarding", "no", "no")

SSHD_0006(c) ==
  IntSpec(c, "MaxAuthTries", 6, "number", 1..MaxAuthTriesLimit)

(* Two directives make one timeout, and their product wraps around.        *)
SSHD_0007(c) ==
  LET keywords    == {"ClientAliveInterval", "ClientAliveCountMax"}
      default     == [ClientAliveInterval |-> 0, ClientAliveCountMax |-> 3]
      isSet(k)    == AtGlobal(c, k) # {}
      garbled     == {k \in keywords : isSet(k) /\ ~IsNumeral(Effective(c, k))}
      value(k)    == IF isSet(k) THEN Number(Effective(c, k)) ELSE default[k]
      interval    == value("ClientAliveInterval")
      count       == value("ClientAliveCountMax")
      tooLong(a, b)    == a <= 0 \/ Wrap(a * b) > IdleTimeoutLimit
      loosens(k, with) == \E v \in InMatch(c, k) : IsNumeral(v) /\ tooLong(Number(v), with)
      why         == Obstacle(c, keywords)
  IN CASE ~c.installed -> NotApplicable
       [] c.installed /\ why # "" -> CannotTell(why, {})
       [] c.installed /\ why = "" /\ garbled # {} -> CannotTell(ReasonParse, garbled)
       [] OTHER ->
            CASE interval <= 0 -> Fails({"ClientAliveInterval"})
              [] interval > 0 /\ count <= 0 -> Fails({"ClientAliveCountMax"})
              [] interval > 0 /\ count > 0 /\ Wrap(interval * count) > IdleTimeoutLimit ->
                   Fails({"ClientAliveInterval"})
              [] OTHER ->
                   IF \/ loosens("ClientAliveInterval", count)
                      \/ loosens("ClientAliveCountMax", interval)
                   THEN Fails({"ClientAliveInterval"}) ELSE Passes

SSHD_0008(c) ==
  LET keyword      == "AllowTcpForwarding"
      unrestricted == {"yes", "all"}
      v            == Effective(c, keyword)
      onValue      == CASE v \in {"no", "local", "remote"} ->
                             PassUnlessLoosened(keyword, InMatch(c, keyword) \cap unrestricted)
                        [] v \in unrestricted -> Fails({keyword})
                        [] OTHER -> CannotTell(ReasonParse, {keyword})
  IN  Evaluate(c, keyword, Fails({keyword}), onValue)

SSHD_0009(c) ==
  LET keyword      == "LogLevel"
      insufficient == {"QUIET", "FATAL", "ERROR", "DEBUG", "DEBUG1", "DEBUG2", "DEBUG3"}
      pass         == PassUnlessLoosened(keyword, InMatch(c, keyword) \cap insufficient)
      v            == Effective(c, keyword)
      onValue      == CASE v \in {"INFO", "VERBOSE"} -> pass
                        [] v \in insufficient -> Fails({keyword})
                        [] OTHER -> CannotTell(ReasonParse, {keyword})
  IN  Evaluate(c, keyword, pass, onValue)

SSHD_0010(c) == AlgSpec(c, "Ciphers", WeakCipher)
SSHD_0011(c) == AlgSpec(c, "MACs", WeakMAC)
SSHD_0012(c) == AlgSpec(c, "KexAlgorithms", WeakKex)
SSHD_0013(c) == BoolSpec(c, "IgnoreRhosts", "yes", "yes")
SSHD_0014(c) == BoolSpec(c, "HostbasedAuthentication", "no", "no")
SSHD_0015(c) == BoolSpec(c, "PermitUserEnvironment", "no", "no")

SSHD_0016(c) ==
  IntSpec(c, "LoginGraceTime", 120, "time", 1..LoginGraceLimit)

SSHD_0017(c) ==
  LET keyword == "Banner"
      onValue == IF Effective(c, keyword) = "none" THEN Fails({keyword})
                 ELSE PassUnlessLoosened(keyword, InMatch(c, keyword) \cap {"none"})
  IN  Evaluate(c, keyword, Fails({keyword}), onValue)

SSHD_0018(c) == BoolSpec(c, "AllowAgentForwarding", "no", "yes")
SSHD_0019(c) == BoolSpec(c, "StrictModes", "yes", "yes")
SSHD_0020(c) == BoolSpec(c, "UsePAM", "yes", "no")

SshdVerdicts(c) ==
  LET R(oc) == Require(c, oc)
  IN  [SSHD_0002 |-> R(SSHD_0002(c)), SSHD_0003 |-> R(SSHD_0003(c)), SSHD_0004 |-> R(SSHD_0004(c)),
       SSHD_0005 |-> R(SSHD_0005(c)), SSHD_0006 |-> R(SSHD_0006(c)), SSHD_0007 |-> R(SSHD_0007(c)),
       SSHD_0008 |-> R(SSHD_0008(c)), SSHD_0009 |-> R(SSHD_0009(c)), SSHD_0010 |-> R(SSHD_0010(c)),
       SSHD_0011 |-> R(SSHD_0011(c)), SSHD_0012 |-> R(SSHD_0012(c)), SSHD_0013 |-> R(SSHD_0013(c)),
       SSHD_0014 |-> R(SSHD_0014(c)), SSHD_0015 |-> R(SSHD_0015(c)), SSHD_0016 |-> R(SSHD_0016(c)),
       SSHD_0017 |-> R(SSHD_0017(c)), SSHD_0018 |-> R(SSHD_0018(c)), SSHD_0019 |-> R(SSHD_0019(c)),
       SSHD_0020 |-> R(SSHD_0020(c))]
==============================================================================
