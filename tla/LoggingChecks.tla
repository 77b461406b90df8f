---------------------------- MODULE LoggingChecks ----------------------------
(***************************************************************************)
(* rsyslog and journald: the collector of both configurations and the      *)
(* LOGGING checks over them.                                               *)
(*                                                                         *)
(* An rsyslog file is a sequence of statements: [kind |-> "include",       *)
(* pattern], [kind |-> "mode", open] for a file creation mode that can be  *)
(* parsed, in any of the syntaxes (open: it grants more than 0640),        *)
(* [kind |-> "forward", target, protocol] for a rule or an action that     *)
(* ships elsewhere, and [kind |-> "other"].  A journald file is a sequence *)
(* of settings with their section; host.journalDir is "present" or         *)
(* "absent".  Nothing here looks at whether a read was cut short.          *)
(***************************************************************************)
EXTENDS Outcomes
LOCAL INSTANCE SequencesExt

CONSTANT MaxIncludeDepth

RsyslogPath     == "/etc/rsyslog.conf"
JournaldPath    == "/etc/systemd/journald.conf"
JournaldDropIns == "/etc/systemd/journald.conf.d/*.conf"
JournalDir      == "/var/log/journal"

------------------------------------------------------------------------------
(* rsyslog.  st is the parser: what it has kept, the includes it could not *)
(* follow, the files it has seen and the lines left before the context     *)
(* ends.  Running out of lines does not stop the files an include already  *)
(* matched from being opened.                                              *)

Follow(host, scan, parse, pattern, depth, st) ==
  LET matches == Glob(host, scan, pattern)
      open(s, file) ==
        IF file \in s.seen THEN s
        ELSE LET t == [s EXCEPT !.seen = @ \cup {file}]
             IN  IF ReadFile(host, scan, file) # "present"
                 THEN [t EXCEPT !.unresolved = @ \cup {file}]
                 ELSE parse[depth + 1, file, t]
  IN CASE pattern = "" -> st
       [] pattern # "" /\ depth >= MaxIncludeDepth -> [st EXCEPT !.unresolved = @ \cup {pattern}]
       [] OTHER -> IF matches = << >> THEN [st EXCEPT !.unresolved = @ \cup {pattern}]
                   ELSE FoldLeft(open, st, matches)

ParseRsyslog(host, scan, parse, depth, file, st) ==
  LET line(s, stmt) ==
        LET t == [s EXCEPT !.left = @ - 1]
        IN CASE s.left = 0 -> s
             [] s.left > 0 /\ stmt.kind = "include" -> Follow(host, scan, parse, stmt.pattern, depth, t)
             [] OTHER -> [t EXCEPT !.kept = @ \cup {stmt}]
  IN  FoldLeft(line, st, Text(host, scan, file))

\* the parser after the main file and all it includes
ParsedRsyslog(host, scan, start) ==
  LET files  == DOMAIN host.files
      states == [kept : SUBSET UNION {Elements(host.files[f]) : f \in files}, unresolved : SUBSET STRING,
                 seen : SUBSET STRING, left : 0..scan.reach]
      parse[depth \in 0..MaxIncludeDepth, f \in files, st \in states] ==
        ParseRsyslog(host, scan, parse, depth, f, st)
  IN  parse[0, RsyslogPath, start]

CollectRsyslog(host, scan) ==
  LET read  == ReadFile(host, scan, RsyslogPath)
      start == [kept |-> {}, unresolved |-> {}, seen |-> {RsyslogPath}, left |-> scan.reach]
      fact(installed, st) == [error |-> "", installed |-> installed, kept |-> st.kept,
                              unresolvedIncludes |-> st.unresolved, left |-> st.left]
  IN CASE read = "binary" -> Missing("parse")
       [] read = "denied" -> Missing("permission")
       [] read \in {"irregular", "error"} -> Missing("internal")
       [] read = "absent"  -> fact(FALSE, start)
       [] read = "present" -> fact(TRUE, ParsedRsyslog(host, scan, start))

------------------------------------------------------------------------------
(* journald: the main file, then the drop-ins in their order.              *)

CollectJournald(host, scan) ==
  LET files  == <<JournaldPath>> \o Glob(host, scan, JournaldDropIns)
      state(n) == ReadFile(host, scan, files[n])
      parsed == {n \in DOMAIN files : state(n) = "present"}
      settings[n \in 0..Len(files)] ==
        IF n = 0 THEN << >>
        ELSE settings[n - 1] \o (IF n \in parsed THEN Text(host, scan, files[n]) ELSE << >>)
      dir    == CASE JournalDir \in scan.denied \cup scan.broken -> "unknown"
                  [] OTHER -> host.journalDir
  IN  IF state(1) = "denied" THEN Missing("permission")
      ELSE [error |-> "", settings |-> settings[Len(files)], persistentDir |-> dir,
            installed |-> parsed # {} \/ dir = "present",
            unresolvedIncludes |-> {files[n] : n \in {k \in DOMAIN files :
                                                        state(k) \notin {"present", "absent"}}}]

CollectLogging(host, scan) ==
  LET rsyslog == CollectRsyslog(host, scan)
      ended   == scan.reach = 0 \/ (rsyslog.error = "" /\ rsyslog.left = 0)
  IN  [rsyslog  |-> rsyslog,
       journald |-> IF ended THEN Missing("absent") ELSE CollectJournald(host, scan)]

------------------------------------------------------------------------------
(* Accessors.                                                              *)

FileCreateModes(r)    == {s \in r.kept : s.kind = "mode"}
RemoteDestinations(r) == {s \in r.kept : s.kind = "forward"}
Reliable(d)           == d.protocol \in {"tcp", "relp"}

SettingsOf(j, key) == {n \in DOMAIN j.settings : /\ j.settings[n].section = "journal"
                                                 /\ j.settings[n].key = key}

\* a later setting overrides an earlier one
Effective(j, key) ==
  LET at == SettingsOf(j, key) IN j.settings[CHOOSE n \in at : \A k \in at : n >= k].value

Configured(j, key) == SettingsOf(j, key) # {}

StoresPersistently(j) ==
  LET mode == IF Configured(j, "Storage") THEN Effective(j, "Storage") ELSE "auto"
  IN CASE mode = "persistent" -> "yes"
       [] mode \in {"volatile", "none"} -> "no"
       [] mode = "auto" /\ j.persistentDir = "present" -> "yes"
       [] mode = "auto" /\ j.persistentDir = "absent" -> "no"
       [] OTHER -> "unknown"

BoolValue(v) == CASE v \in {"yes", "true", "on", "1"}  -> "yes"
                  [] v \in {"no", "false", "off", "0"} -> "no"
                  [] OTHER -> "unknown"

------------------------------------------------------------------------------

UnresolvedRsyslog(r, oc) ==
  IF oc.result = "PASS" /\ r.unresolvedIncludes # {}
  THEN CannotTell(ReasonAmbiguousState, oc.subject) ELSE oc

\* mutant: what the files that could be read do not say is not said
UnlessPassing(r, oc) == UnresolvedRsyslog(r, oc)

\* what is missing may be in the file that could not be read
UnlessUnresolved(r, oc) ==
  IF r.unresolvedIncludes # {} THEN CannotTell(ReasonAmbiguousState, oc.subject) ELSE oc

LOGGING_0001(r) ==
  LET modes   == FileCreateModes(r)
      subject == {"FileCreateMode"}
  IN CASE ~r.installed -> NotApplicable
       [] r.installed /\ modes = {} -> UnlessUnresolved(r, Fails(subject))
       [] \E m \in modes : m.open -> Fails(subject)
       [] OTHER -> UnresolvedRsyslog(r, PassesFor(subject))

LOGGING_0002(r) ==
  CASE ~r.installed -> NotApplicable
    [] r.installed /\ RemoteDestinations(r) = {} -> UnlessUnresolved(r, Fails({"remote logging"}))
    [] OTHER -> Passes

LOGGING_0003(j) ==
  LET stored  == StoresPersistently(j)
      unknown == /\ Configured(j, "Storage")
                 /\ Effective(j, "Storage") \notin {"persistent", "volatile", "auto", "none"}
  IN CASE ~j.installed -> NotApplicable
       [] j.installed /\ stored = "unknown" ->
            CannotTell(IF unknown THEN ReasonParse ELSE ReasonAmbiguousState, {"Storage"})
       [] j.installed /\ stored = "no" -> Fails({"Storage"})
       [] OTHER -> Passes

LOGGING_0004(j, r) ==
  CASE ~r.installed \/ ~j.installed -> NotApplicable
    [] r.installed /\ j.installed /\ ~Configured(j, "ForwardToSyslog") -> Fails({"ForwardToSyslog"})
    [] OTHER -> LET on == BoolValue(Effective(j, "ForwardToSyslog"))
                IN CASE on = "unknown" -> CannotTell(ReasonParse, {"ForwardToSyslog"})
                     [] on = "no"      -> Fails({"ForwardToSyslog"})
                     [] on = "yes"     -> Passes

LOGGING_0005(r) ==
  LET dests == RemoteDestinations(r)
      unreliable == {d \in dests : ~Reliable(d)}
  IN CASE ~r.installed -> NotApplicable
       [] r.installed /\ dests = {} -> UnlessUnresolved(r, NotApplicable)
       [] unreliable # {} -> Fails({d.target : d \in unreliable})
       [] OTHER -> Passes

LoggingVerdicts(l) ==
  LET R(oc) == Require(l.rsyslog, oc)
      J(oc) == Require(l.journald, oc)
  IN  [LOGGING_0001 |-> R(LOGGING_0001(l.rsyslog)),
       LOGGING_0002 |-> R(LOGGING_0002(l.rsyslog)),
       LOGGING_0003 |-> J(LOGGING_0003(l.journald)),
       LOGGING_0004 |-> J(R(LOGGING_0004(l.journald, l.rsyslog))),
       LOGGING_0005 |-> R(LOGGING_0005(l.rsyslog))]
==============================================================================
