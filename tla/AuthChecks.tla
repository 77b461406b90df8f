------------------------------ MODULE AuthChecks -----------------------------
(***************************************************************************)
(* PAM: the collector that flattens each service's stack, following its    *)
(* includes, and the AUTH checks over the stacks.                          *)
(*                                                                         *)
(* A file of /etc/pam.d is a sequence of statements.  A rule carries its   *)
(* type, whether its control is one that fails the stack, the module and   *)
(* the arguments the checks look at; an include its scope ("" for @include)*)
(* and the target's path ("" if it names none).  Statements that are       *)
(* neither are skipped by the parser and left out.  host.pamDir is         *)
(* "present" or "absent".                                                  *)
(***************************************************************************)
EXTENDS LoginDefs, SequencesExt

CONSTANTS
  Services,         \* the service names in the order they are read
  MaxIncludeDepth,
  PathOf            \* PathOf[s]: the file of a service, links resolved

PAMDir        == "/etc/pam.d"
PwQualityPath == "/etc/security/pwquality.conf"

MinPasswordLength == 14
MinRemembered     == 5

QualityModules == {"pam_pwquality.so", "pam_cracklib.so"}
LockoutModules == {"pam_faillock.so", "pam_tally2.so", "pam_tally.so"}
HistoryModules == {"pam_pwhistory.so", "pam_unix.so"}
CreditKeys     == {"dcredit", "ucredit", "lcredit", "ocredit"}
StrongHashes   == {"yescrypt", "gost_yescrypt", "sha512", "blowfish"}
WeakHashes     == {"md5", "bigcrypt", "sha256"}

------------------------------------------------------------------------------
(* The collector.  Reading a service is a sequence of events: the rules it *)
(* keeps and the includes it could not follow, in the order it meets them; *)
(* the context is looked at before each service and each statement, so a   *)
(* scan that is cut short has a prefix of them.                            *)

Unresolved(why) == [kind |-> "unresolved", reason |-> why]

Scopes == {"", "auth", "account", "password", "session"}   \* a rule's type; "" outside an include

\* deeper: what the files one include further down add, see Stack; left: how many further there may be
Follow(host, scan, deeper, target, scope, left, seen) ==
  IF target = "" \/ left = 0 THEN <<Unresolved("other")>>
  ELSE LET read == ReadFile(host, scan, target)
       IN CASE read = "denied" -> <<Unresolved("permission")>>
            [] read \notin {"denied", "present"} -> <<Unresolved("other")>>
            [] read = "present" /\ target \in seen -> <<Unresolved("other")>>
            [] OTHER -> deeper[<<target, scope, seen \cup {target}>>]

\* an @include is followed without the scope it is met in
Parse(host, scan, deeper, left, file, scope, seen) ==
  LET text == Text(host, scan, file)
      statement(st) ==
        CASE st.kind = "@include" -> Follow(host, scan, deeper, st.target, "", left, seen)
          [] st.kind = "include" ->
               Follow(host, scan, deeper, st.target, IF scope # "" THEN scope ELSE st.type, left, seen)
          [] st.kind = "rule" /\ scope # "" /\ st.type # scope -> << >>
          [] OTHER -> <<[kind |-> "rule", type |-> st.type, enforcing |-> st.enforcing,
                         module |-> st.module, args |-> st.args, file |-> file]>>
  IN  FlattenSeq([n \in DOMAIN text |-> statement(text[n])])

StackFiles(host) == DOMAIN host.files \ {LoginDefsPath, PwQualityPath}

\* the events of a service's file and of the files it includes
Stack(host, scan, file) ==
  LET files == StackFiles(host)
      parse[left \in 0..MaxIncludeDepth] ==
        [x \in files \X Scopes \X SUBSET files |->
           Parse(host, scan, IF left = 0 THEN << >> ELSE parse[left - 1], left, x[1], x[2], x[3])]
  IN  parse[MaxIncludeDepth][<<file, "", {file}>>]

ReadService(host, scan, s) ==
  LET read == ReadFile(host, scan, PathOf[s])
  IN CASE read = "present" -> [state |-> "present",
                               events |-> Stack(host, scan, PathOf[s])]
       [] read \in {"absent", "denied"} -> [state |-> read, events |-> << >>]
       [] OTHER -> [state |-> "error", events |-> << >>]

ReadSettings(host, scan, path) ==
  IF ReadFile(host, scan, path) = "present" THEN Text(host, scan, path) ELSE << >>

Sums(costs) == LET sum[n \in 0..Len(costs)] == IF n = 0 THEN 0 ELSE sum[n - 1] + costs[n] IN sum

\* scan.reach counts services and events
CutAfter(svcs, reach) ==
  LET spent  == Sums([n \in DOMAIN svcs |-> 1 + Len(svcs[n].events)])
      opened == {n \in DOMAIN svcs : spent[n - 1] < reach}
  IN  [n \in opened |-> [svcs[n] EXCEPT !.events = Upto(@, reach - spent[n - 1] - 1)]]

CollectPAM(host, scan) ==
  LET dir  == CASE PAMDir \in scan.denied -> "denied"
                [] PAMDir \in scan.broken \ scan.denied -> "error"
                [] OTHER -> host.pamDir
      svcs == [n \in DOMAIN Services |-> ReadService(host, scan, Services[n])]
      kept == CutAfter(svcs, scan.reach)
      whole == DOMAIN kept = DOMAIN svcs /\ \A n \in DOMAIN svcs : kept[n] = svcs[n]
      base == [error |-> "", installed |-> dir # "absent", dirState |-> dir, services |-> << >>,
               pwQuality |-> << >>]
  IN  IF dir # "present" THEN base
      ELSE [base EXCEPT !.services = [n \in DOMAIN kept |-> kept[n]],
                        !.pwQuality = IF whole THEN ReadSettings(host, scan, PwQualityPath) ELSE << >>]

CollectAuth(host, scan) ==
  [pam |-> CollectPAM(host, scan), loginDefs |-> ReadLoginDefs(host, scan)]

------------------------------------------------------------------------------
(* Accessors.  A stack is named by its service.                            *)

Read(p)        == {Services[n] : n \in {k \in DOMAIN p.services : p.services[k].state = "present"}}
EventsOf(p, s) == p.services[CHOOSE n \in DOMAIN Services : Services[n] = s].events

Layout(p) ==
  CASE ~p.installed -> "none"
    [] p.installed /\ Read(p) \cap {"system-auth", "password-auth"} # {} -> "redhat"
    [] p.installed /\ Read(p) \cap {"system-auth", "password-auth"} = {}
         /\ Read(p) \cap {"common-password", "common-auth"} # {} -> "debian"
    [] OTHER -> "unrecognised"

Primary(p, type) ==
  Read(p) \cap CASE Layout(p) = "redhat" -> {"system-auth", "password-auth"}
                 [] Layout(p) = "debian" -> {"common-" \o type}
                 [] OTHER -> {}

\* in stack then file order
Find(p, stacks, type, modules) ==
  LET wanted(e) == e.kind = "rule" /\ e.type = type /\ e.module \in modules
      upto[n \in 0..Len(Services)] ==
        CASE n = 0 -> << >>
          [] n > 0 /\ Services[n] \in stacks ->
               upto[n - 1] \o SelectSeq(EventsOf(p, Services[n]), wanted)
          [] OTHER -> upto[n - 1]
  IN  upto[Len(Services)]

Some(lines, P(_)) == \E l \in Elements(lines) : P(l)
Modules(lines)    == {l.module : l \in Elements(lines)}
Enforcing(l)      == l.enforcing

UnresolvedIncludes(p, stacks) ==
  UNION {{e \in Elements(EventsOf(p, s)) : e.kind = "unresolved"} : s \in stacks}

UnknownIfIncomplete(p, stacks, oc) ==
  LET bad == UnresolvedIncludes(p, stacks)
  IN  IF bad = {} THEN oc
      ELSE CannotTell(IF \A e \in bad : e.reason = "permission"
                      THEN ReasonPermission ELSE ReasonAmbiguousState, oc.subject)

NoStack(p) ==
  CannotTell(IF p.dirState = "denied" THEN ReasonPermission ELSE ReasonAmbiguousState, {PAMDir})

(* A module argument outranks the settings file.  Among several lines the  *)
(* first with the key decides, and in the file the last setting of it; the *)
(* result is the set of that one value, or none.                           *)
EffectiveInt(lines, file, key) ==
  LET args == SelectSeq(lines, LAMBDA l : key \in DOMAIN l.args)
      sets == SelectSeq(file, LAMBDA s : s.key = key)
  IN CASE args # << >> -> {args[1].args[key]}
       [] args = << >> /\ sets # << >> -> {sets[Len(sets)].value}
       [] OTHER -> {}

------------------------------------------------------------------------------

AUTH_0001(p) ==
  LET stacks == Primary(p, "password")
      found  == Find(p, stacks, "password", QualityModules)
  IN CASE ~p.installed -> NotApplicable
       [] p.installed /\ stacks = {} -> NoStack(p)
       [] Some(found, Enforcing) -> Passes
       [] found # << >> /\ ~Some(found, Enforcing) -> Fails(Modules(found))
       [] OTHER -> UnknownIfIncomplete(p, stacks, Fails({"pam_pwquality.so"}))

\* minclass decides when it is positive, the credits otherwise
Variety(lines, file) ==
  LET minclass == {n \in EffectiveInt(lines, file, "minclass") : n > 0}
      credits  == UNION {EffectiveInt(lines, file, k) : k \in CreditKeys}
  IN CASE minclass # {} -> IF \E n \in minclass : n >= 4 THEN "required" ELSE "nothing"
       [] minclass = {} /\ credits = {} -> "unset"
       [] OTHER -> IF \E n \in credits : n < 0 THEN "required" ELSE "nothing"

AUTH_0002(p) ==
  LET stacks  == Primary(p, "password")
      lines   == Find(p, stacks, "password", QualityModules)
      minlen  == EffectiveInt(lines, p.pwQuality, "minlen")
      variety == Variety(lines, p.pwQuality)
      subject == Modules(lines)
  IN CASE ~p.installed -> NotApplicable
       [] p.installed /\ stacks = {} -> NoStack(p)
       [] p.installed /\ stacks # {} /\ lines = << >> -> UnknownIfIncomplete(p, stacks, NotApplicable)
       [] lines # << >> /\ ((\E n \in minlen : n < MinPasswordLength) \/ variety = "nothing") ->
            Fails(subject)
       [] lines # << >> /\ (\A n \in minlen : n >= MinPasswordLength) /\ variety # "nothing"
            /\ (minlen = {} \/ variety = "unset") -> CannotTell(ReasonFactMissing, subject)
       [] OTHER -> UnknownIfIncomplete(p, stacks, PassesFor(subject))

AUTH_0003(p) ==
  LET stacks == Primary(p, "auth")
      lines  == Find(p, stacks, "auth", LockoutModules)
  IN CASE ~p.installed -> NotApplicable
       [] p.installed /\ stacks = {} -> NoStack(p)
       [] lines # << >> -> PassesFor(Modules(lines))
       [] OTHER -> UnknownIfIncomplete(p, stacks, Fails({"pam_faillock.so"}))

\* the rules that let an empty password in, in whichever stack they are
Offenders(p) ==
  {l \in Elements(Find(p, Read(p), "auth", {"pam_unix.so"})) : "nullok" \in DOMAIN l.args}

AUTH_0004(p) ==
  CASE ~p.installed -> NotApplicable
    [] p.installed /\ Read(p) = {} -> NoStack(p)
    [] p.installed /\ Read(p) # {} /\ Offenders(p) # {} -> Fails({"pam_unix.so"})
    [] OTHER -> UnknownIfIncomplete(p, Read(p), PassesFor({"pam_unix.so"}))

(* pam_unix.so without an algorithm falls back to login.defs.              *)
FromLoginDefs(l) ==
  CASE l.error # "" \/ l.state # "present" -> CannotTell(ReasonFactMissing, {"pam_unix.so"})
    [] l.error = "" /\ l.state = "present" /\ Sets(l, "ENCRYPT_METHOD") = {} ->
         CannotTell(ReasonFactMissing, {"pam_unix.so"})
    [] OTHER ->
         LET method == Effective(l, "ENCRYPT_METHOD")
         IN CASE method \in StrongHashes -> PassesFor({"ENCRYPT_METHOD"})
              [] method \in WeakHashes \cup {"des", "crypt"} -> Fails({"ENCRYPT_METHOD"})
              [] OTHER -> CannotTell(ReasonParse, {"ENCRYPT_METHOD"})

AUTH_0005(p, l) ==
  LET stacks   == Primary(p, "password")
      lines    == Elements(Find(p, stacks, "password", {"pam_unix.so"}))
      strong   == {x \in lines : DOMAIN x.args \cap StrongHashes # {}}
      weak     == {x \in lines \ strong : DOMAIN x.args \cap WeakHashes # {}}
      subject  == {"pam_unix.so"}
  IN CASE ~p.installed -> NotApplicable
       [] p.installed /\ stacks = {} -> NoStack(p)
       [] p.installed /\ stacks # {} /\ lines = {} ->
            UnknownIfIncomplete(p, stacks, CannotTell(ReasonFactMissing, subject))
       [] weak # {} -> Fails(subject)
       [] weak = {} /\ strong # {} -> PassesFor(subject)
       [] OTHER -> FromLoginDefs(l)

AUTH_0006(p) ==
  LET stacks == Primary(p, "password")
      lines  == {l \in Elements(Find(p, stacks, "password", HistoryModules)) :
                   "remember" \in DOMAIN l.args}
      subject == {"pam_pwhistory.so"}
  IN CASE ~p.installed -> NotApplicable
       [] p.installed /\ stacks = {} -> NoStack(p)
       [] \E l \in lines : l.args["remember"] >= MinRemembered -> PassesFor(subject)
       [] lines # {} /\ ~\E l \in lines : l.args["remember"] >= MinRemembered -> Fails(subject)
       [] OTHER -> UnknownIfIncomplete(p, stacks, Fails(subject))

AuthVerdicts(a) ==
  [AUTH_0001 |-> AUTH_0001(a.pam), AUTH_0002 |-> AUTH_0002(a.pam),
   AUTH_0003 |-> AUTH_0003(a.pam), AUTH_0004 |-> AUTH_0004(a.pam),
   AUTH_0005 |-> AUTH_0005(a.pam, a.loginDefs), AUTH_0006 |-> AUTH_0006(a.pam),
   USERS_0012 |-> USERS_0012(a.loginDefs)]
==============================================================================
