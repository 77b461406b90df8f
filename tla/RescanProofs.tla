---------------------------- MODULE RescanProofs -----------------------------
(***************************************************************************)
(* Theorems about Rescan and Remediation, for every host of the families,  *)
(* every scan of it and every way the runs of a script can end.            *)
(***************************************************************************)
EXTENDS Remediation, FiniteSetTheorems, WellFoundedInduction, TLAPS

------------------------------------------------------------------------------
(* Which verdicts ask for privileges, family by family.                    *)

(* A verdict that does not ask for more privileges.                        *)
Blameless(oc) == oc.reason # Cron!ReasonPermission

(* No path of the cron collector was refused.                              *)
CronSeen(c) == \A p \in DOMAIN c.paths : c.paths[p].state \in {"error", "absent", "observed"}

(* Nothing refused, every path CollectCron looks at is absent, observed or *)
(* fails (cron.go).                                                        *)
LEMMA CronSees ==
  ASSUME NEW h, NEW s, s.denied = {}
  PROVE  CronSeen(Cron!CollectCron(h, s))
  <1>1. \A p : Cron!CronStat(h, s, p).state \in {"error", "absent", "observed"}
    BY DEF Cron!CronStat
  <1>2. QED BY <1>1 DEF Cron!CollectCron, CronSeen

(* Then no CRON check asks for privileges.                                 *)
LEMMA CronBlames ==
  ASSUME NEW c, CronSeen(c)
  PROVE  LET v == Cron!CronVerdicts(c) IN \A n \in DOMAIN v : Blameless(v[n])
  <1> USE DEF Cron!Outcome, Cron!CannotTell, Cron!Passes, Cron!Fails, Cron!NotApplicable,
          Blameless, Cron!ReasonPermission, Cron!ReasonAmbiguousState, Cron!ReasonFactMissing
  <1>1. \A S \in SUBSET DOMAIN c.paths :
           Blameless(Cron!UnknownIfUnreadable(c, S, Cron!Passes))
    BY DEF CronSeen, Cron!UnknownIfUnreadable, Cron!Unreadable
  <1>2. Blameless(Cron!CRON_0001(c))
    BY <1>1 DEF CronSeen, Cron!CRON_0001, Cron!CronReason
  <1>3. Blameless(Cron!CRON_0003(c))
    BY DEF CronSeen, Cron!CRON_0003, Cron!CronReason
  <1>4. \A S, V : S \subseteq DOMAIN c.paths => Blameless(Cron!EveryPresent(c, S, V))
    BY <1>1 DEF Cron!EveryPresent
  <1>5. /\ Blameless(Cron!CRON_0002(c))
        /\ Blameless(Cron!CRON_0004(c))
        /\ Blameless(Cron!CRON_0005(c))
    BY <1>4 DEF Cron!CRON_0002, Cron!CRON_0004, Cron!CRON_0005, Cron!CronSelect
  <1>6. QED BY <1>2, <1>3, <1>5 DEF Cron!CronVerdicts

(* What is no text file is a special file or a binary one.                 *)
OddOf(h) == \A p \in DOMAIN h.odd : h.odd[p] \in {"irregular", "binary"}

(* What a read can come to where nothing is refused.                       *)
Reads == {"error", "present", "absent", "irregular", "binary"}

(* A read by the firewall collector is one of these.                       *)
LEMMA NetworkReads ==
  ASSUME NEW h, NEW s, OddOf(h), s.denied = {}, NEW p
  PROVE  Network!ReadFile(h, s, p) \in Reads
  BY DEF OddOf, Reads, Network!ReadFile, Network!InodeAt

(* Nothing refused, no NETWORK check asks for privileges.                  *)
LEMMA NetworkBlames ==
  ASSUME NEW h, NEW s, OddOf(h), s.denied = {}
  PROVE  LET v == Network!NetworkVerdicts(Network!CollectFirewall(h, s))
         IN  \A n \in DOMAIN v : Blameless(v[n])
  <1> USE DEF Network!Outcome, Network!CannotTell, Network!Passes, Network!Fails,
          Network!NotApplicable,
          Blameless, Cron!ReasonPermission, Network!ReasonPermission,
          Network!ReasonAmbiguousState, Network!ReasonParse
  <1> DEFINE f == Network!CollectFirewall(h, s)
  <1>1. \A c : Network!ReadSource(h, s, c).state # "denied"
    BY NetworkReads DEF Reads, Network!ReadSource
  <1>2. \A x \in f.sources : x.state # "denied"
    BY <1>1 DEF Network!CollectFirewall
  <1> HIDE DEF f
  <1>3. \A oc : Blameless(oc) =>
                 Blameless(Network!UnknownIfUnreadable(f, oc))
    BY <1>2 DEF Network!UnknownIfUnreadable, Network!Unreadable
  <1>4. Blameless(Network!NETWORK_0001(f))
    BY <1>3 DEF Network!NETWORK_0001
  <1>5. Blameless(Network!NETWORK_0002(f))
    BY <1>3 DEF Network!NETWORK_0002
  <1>6. Blameless(Network!NETWORK_0003(f))
    BY <1>3 DEF Network!NETWORK_0003
  <1>7. QED BY <1>4, <1>5, <1>6 DEF Network!NetworkVerdicts, f

(* Nothing refused, no MEMORY check asks for privileges: following links   *)
(* to an ELF image ends in one of the states PlainState names, and none of *)
(* them is a refusal.                                                      *)
LEMMA MemoryBlames ==
  ASSUME NEW h, NEW s, \A p \in DOMAIN h.odd : h.odd[p] \in DOMAIN Memory!PlainState, s.denied = {}
  PROVE  LET v == Memory!MemoryVerdicts(Memory!CollectMemory(h, s))
         IN  \A n \in DOMAIN v : Blameless(v[n])
  <1> USE DEF Memory!Outcome, Memory!CannotTell, Memory!Passes, Memory!Fails, Memory!NotApplicable,
          Blameless, Cron!ReasonPermission, Memory!ReasonPermission, Memory!ReasonAmbiguousState,
          Memory!ReasonTruncated
  <1> DEFINE m == Memory!CollectMemory(h, s)
  <1>0. \A p \in DOMAIN h.odd : Memory!PlainState[h.odd[p]] # "denied"
    <2>1. \A k \in DOMAIN Memory!PlainState : Memory!PlainState[k] # "denied"
      BY DEF Memory!PlainState
    <2>2. QED BY <2>1
  <1>1. \A p : Memory!Inspect(h, s, p).state # "denied"
    <2> SUFFICES ASSUME NEW p PROVE Memory!Inspect(h, s, p).state # "denied"
      OBVIOUS
    <2> DEFINE hops == Memory!Hops(h, p)
               ends == {n \in 0..(MaxSymlinkHops - 1) : \/ hops[n] \in s.denied \cup s.broken
                                                        \/ hops[n] \notin DOMAIN h.links}
               end == hops[CHOOSE n \in ends : \A k \in ends : n <= k]
    <2>1. Memory!Inspect(h, s, p) =
            CASE ends = {} -> Memory!Unusable("error")
              [] ends # {} /\ end \in s.denied -> Memory!Unusable("denied")
              [] ends # {} /\ end \in s.broken \ s.denied -> Memory!Unusable("error")
              [] OTHER -> CASE end \in DOMAIN h.odd    -> Memory!Unusable(Memory!PlainState[h.odd[end]])
                            [] end \in DOMAIN h.images -> [state |-> "observed", image |-> h.images[end]]
                            [] OTHER -> Memory!Unusable("absent")
      BY DEF Memory!Inspect
    <2> HIDE DEF end, ends
    <2>2. QED BY <1>0, <2>1 DEF Memory!Unusable
  <1>2. \A n \in DOMAIN m.binaries : m.binaries[n].state # "denied"
    BY <1>1 DEF Memory!CollectMemory
  <1> HIDE DEF m
  <1>3. \A d : Blameless(Memory!Evaluate(m, d))
    BY <1>2 DEF Memory!Evaluate, Memory!Unreadable
  <1>4. /\ Blameless(Memory!MEMORY_0001(m))
        /\ Blameless(Memory!MEMORY_0002(m))
        /\ Blameless(Memory!MEMORY_0003(m))
        /\ Blameless(Memory!MEMORY_0004(m))
    BY <1>3 DEF Memory!MEMORY_0001, Memory!MEMORY_0002, Memory!MEMORY_0003, Memory!MEMORY_0004
  <1>5. QED BY <1>4 DEF Memory!MemoryVerdicts, m

(* The same for the account files.                                         *)
LEMMA UsersReads ==
  ASSUME NEW h, NEW s, OddOf(h), s.denied = {}, NEW p
  PROVE  Users!ReadFile(h, s, p) \in Reads
  BY DEF OddOf, Reads, Users!ReadFile, Users!InodeAt

(* Nothing refused, no USERS check asks for privileges, whatever fails to  *)
(* read or to parse.                                                       *)
LEMMA UsersBlames ==
  ASSUME NEW h, NEW s, OddOf(h), s.denied = {}
  PROVE  LET v == Users!UsersVerdicts(Users!CollectUsers(h, s))
         IN  \A n \in DOMAIN v : Blameless(v[n])
  <1> USE DEF Blameless, Cron!ReasonPermission, Users!Outcome, Users!CannotTell, Users!Passes,
          Users!PassesFor, Users!Fails, Users!NotApplicable, Users!NotApplicableFor,
          Users!ReasonPermission, Users!ReasonAmbiguousState, Users!ReasonParse,
          Users!ReasonTruncated, Users!ReasonFactMissing
  <1> DEFINE u == Users!CollectUsers(h, s)
  <1>1. /\ u.passwd.error # "permission"
        /\ u.shadow.error # "permission"
        /\ u.group.error # "permission"
    <2>1. \A path : Users!CollectDatabase(h, s, path).error # "permission"
      <3>1. \A path : Users!ReadDatabase(h, s, path) # "permission"
        BY UsersReads DEF Reads, Users!ReadDatabase
      <3>2. \A path : Users!ParseLines(h, s, path).error = ""
        BY DEF Users!ParseLines
      <3>3. QED BY <3>1, <3>2 DEF Users!CollectDatabase, Users!Missing
    <2>2. QED BY <2>1 DEF Users!CollectUsers, Users!Missing
  <1>2. \A f, oc : f.error # "permission" /\ Blameless(oc) =>
                    Blameless(Users!Require(f, oc))
    BY DEF Users!Require, Users!ReasonFor
  <1>3. \A p, g, oc : Blameless(oc) =>
          /\ Blameless(Users!UnknownIfIncomplete(p, oc))
          /\ Blameless(Users!UnknownIfShadowIncomplete(p, g, oc))
          /\ Blameless(Users!UnknownIfGroupIncomplete(g, oc))
    BY DEF Users!UnknownIfIncomplete, Users!UnknownIfShadowIncomplete,
       Users!UnknownIfGroupIncomplete
  <1>4. \A p, g : Blameless(Users!USERS_0001(p))
    BY <1>3 DEF Users!USERS_0001
  <1>5. \A p, g : Blameless(Users!USERS_0002(p))
    BY <1>3 DEF Users!USERS_0002
  <1>6. \A p, g : Blameless(Users!USERS_0003(g, p))
    BY <1>3 DEF Users!USERS_0003
  <1>7. \A p, g : Blameless(Users!USERS_0004(g, p))
    BY <1>3 DEF Users!USERS_0004
  <1>8. \A p, g : Blameless(Users!USERS_0005(p))
    BY <1>3 DEF Users!USERS_0005
  <1>9. \A p, g : Blameless(Users!USERS_0006(p))
    BY <1>3 DEF Users!USERS_0006
  <1>10. \A p, g : Blameless(Users!USERS_0007(p, g))
    <2> SUFFICES ASSUME NEW p, NEW g PROVE Blameless(Users!USERS_0007(p, g))
      OBVIOUS
    <2> DEFINE ok == Users!UnknownIfIncomplete(p, Users!UnknownIfGroupIncomplete(g, Users!Passes))
    <2>1. Blameless(ok)
      BY <1>3
    <2> HIDE DEF ok
    <2>2. QED BY <2>1 DEF Users!USERS_0007, ok
  <1>11. \A p, g : Blameless(Users!USERS_0008(g))
    BY <1>3 DEF Users!USERS_0008
  <1>12. \A p, g : Blameless(Users!USERS_0009(g, p))
    BY <1>3 DEF Users!USERS_0009
  <1>13. \A p, g : Blameless(Users!USERS_0010(g, p))
    BY <1>3 DEF Users!USERS_0010
  <1> HIDE DEF u
  <1>14. QED
    BY <1>1, <1>2, <1>4, <1>5, <1>6, <1>7, <1>8, <1>9, <1>10, <1>11, <1>12, <1>13
       DEF Users!UsersVerdicts, u

(* The same for what the filesystem checks read.                           *)
LEMMA FilesysReads ==
  ASSUME NEW h, NEW s, OddOf(h), s.denied = {}, NEW p
  PROVE  Filesys!ReadFile(h, s, p) \in Reads
  BY DEF OddOf, Reads, Filesys!ReadFile, Filesys!InodeAt

(* Nothing refused, no FILESYS check asks for privileges.                  *)
LEMMA FilesysBlames ==
  ASSUME NEW h, NEW s, OddOf(h), s.denied = {}
  PROVE  LET v == Filesys!FilesysVerdicts(Filesys!CollectFilesys(h, s))
         IN  \A n \in DOMAIN v : Blameless(v[n])
  <1> USE DEF Blameless, Cron!ReasonPermission, Filesys!Outcome, Filesys!CannotTell, Filesys!Passes,
          Filesys!PassesFor, Filesys!Fails, Filesys!NotApplicable, Filesys!NotApplicableFor,
          Filesys!ReasonPermission, Filesys!ReasonAmbiguousState, Filesys!ReasonParse,
          Filesys!ReasonTruncated, Filesys!ReasonFactMissing
  <1> DEFINE w == Filesys!CollectFilesys(h, s)
  <1>1. /\ w.users.passwd.error # "permission"
        /\ w.users.group.error # "permission"
        /\ w.users.nsswitch.error # "permission"
    <2>1. \A path : Filesys!CollectDatabase(h, s, path).error # "permission"
      <3>1. \A path : Filesys!ReadDatabase(h, s, path) # "permission"
        BY FilesysReads DEF Reads, Filesys!ReadDatabase
      <3>2. \A path : Filesys!ParseLines(h, s, path).error = ""
        BY DEF Filesys!ParseLines
      <3>3. QED BY <3>1, <3>2 DEF Filesys!CollectDatabase, Filesys!Missing
    <2>2. Filesys!CollectNSSwitch(h, s).error = ""
      BY DEF Filesys!CollectNSSwitch
    <2>3. QED BY <2>1, <2>2 DEF Filesys!CollectFilesys, Filesys!CollectUsers, Filesys!Missing
  <1>2. \A f, oc : f.error # "permission" /\ Blameless(oc) => Blameless(Filesys!Require(f, oc))
    BY DEF Filesys!Require, Filesys!ReasonFor
  <1> HIDE DEF w
  <1>3. \A oc, facts : Blameless(oc) => Blameless(Filesys!MustBeComplete(oc, facts))
    BY DEF Filesys!MustBeComplete
  <1>4. \A bad, facts : Blameless(Filesys!NoneMayBe(bad, facts))
    BY <1>3 DEF Filesys!NoneMayBe
  <1>5. \A m, point, required : Blameless(Filesys!EvalMount(m, point, required))
    BY DEF Filesys!EvalMount
  <1>6. Blameless(Filesys!FILESYS_0010(w))
    BY <1>3 DEF Filesys!FILESYS_0010
  <1>7. /\ Blameless(Filesys!FILESYS_0001(w))
        /\ Blameless(Filesys!FILESYS_0002(w))
        /\ Blameless(Filesys!FILESYS_0003(w))
        /\ Blameless(Filesys!FILESYS_0004(w))
        /\ Blameless(Filesys!FILESYS_0005(w))
        /\ Blameless(Filesys!FILESYS_0006(w))
        /\ Blameless(Filesys!FILESYS_0007(w))
        /\ Blameless(Filesys!FILESYS_0008(w))
        /\ Blameless(Filesys!FILESYS_0009(w))
    BY <1>4, <1>5 DEF Filesys!FILESYS_0001, Filesys!FILESYS_0002, Filesys!FILESYS_0003,
       Filesys!FILESYS_0004, Filesys!FILESYS_0005, Filesys!FILESYS_0006, Filesys!FILESYS_0007,
       Filesys!FILESYS_0008, Filesys!FILESYS_0009
  <1>8. QED BY <1>1, <1>2, <1>6, <1>7 DEF Filesys!FilesysVerdicts, w

(* The same for sshd_config and what it includes.                          *)
LEMMA SshdReads ==
  ASSUME NEW h, NEW s, OddOf(h), s.denied = {}, NEW p
  PROVE  Sshd!ReadFile(h, s, p) \in Reads
  BY DEF OddOf, Reads, Sshd!ReadFile, Sshd!InodeAt

(* Nothing refused, no SSHD check asks for privileges: an include that     *)
(* could not be followed is blamed on what it really was.                  *)
LEMMA SshdBlames ==
  ASSUME NEW h, NEW s, OddOf(h), s.denied = {}
  PROVE  LET v == Sshd!SshdVerdicts(Sshd!CollectSshd(h, s))
         IN  \A n \in DOMAIN v : Blameless(v[n])
  <1> USE DEF Blameless, Cron!ReasonPermission, Sshd!Outcome, Sshd!CannotTell, Sshd!Passes,
          Sshd!PassesFor,
          Sshd!Fails, Sshd!NotApplicable, Sshd!NotApplicableFor, Sshd!ReasonPermission,
          Sshd!ReasonAmbiguousState, Sshd!ReasonParse, Sshd!ReasonTruncated, Sshd!ReasonFactMissing
  <1> DEFINE c == Sshd!CollectSshd(h, s)
  <1>1. c.error # "permission"
    BY SshdReads DEF Reads, Sshd!CollectSshd, Sshd!Missing
  <1>2. \A f, oc : f.error # "permission" /\ Blameless(oc) => Blameless(Sshd!Require(f, oc))
    BY DEF Sshd!Require, Sshd!ReasonFor
  <1> HIDE DEF c
  <1>3. \A k : Sshd!Obstacle(c, k) # Cron!ReasonPermission
    BY DEF Sshd!Obstacle
  <1>4. \A k, a, b : Blameless(a) /\ Blameless(b) => Blameless(Sshd!Evaluate(c, k, a, b))
    BY <1>3 DEF Sshd!Evaluate
  <1>5. \A k, l : Blameless(Sshd!PassUnlessLoosened(k, l))
    BY DEF Sshd!PassUnlessLoosened
  <1>6. \A k, secure, default : Blameless(Sshd!BoolSpec(c, k, secure, default))
    BY <1>4, <1>5 DEF Sshd!BoolSpec
  <1>7. \A k, default, syntax, acceptable : Blameless(Sshd!IntSpec(c, k, default, syntax, acceptable))
    <2> SUFFICES ASSUME NEW k, NEW default, NEW syntax, NEW acceptable
                 PROVE  Blameless(Sshd!IntSpec(c, k, default, syntax, acceptable))
      OBVIOUS
    <2> DEFINE parses(x)   == IF syntax = "time" THEN Sshd!TimeParses(x) ELSE Sshd!IsNumeral(x)
               parse(x)    == IF syntax = "time" THEN Sshd!ParseTimeSeconds(x) ELSE Sshd!Number(x)
               insecure(x) == parses(x) /\ parse(x) \notin acceptable
               pass == Sshd!PassUnlessLoosened(k, {x \in Sshd!InMatch(c, k) : insecure(x)})
               v    == Sshd!Effective(c, k)
               onValue == CASE ~parses(v)  -> Sshd!CannotTell(Sshd!ReasonParse, {k})
                            [] insecure(v) -> Sshd!Fails({k})
                            [] OTHER       -> pass
               onAbsent == IF default \in acceptable THEN pass ELSE Sshd!Fails({k})
    <2>1. Blameless(pass)
      BY <1>5
    <2>2. Sshd!IntSpec(c, k, default, syntax, acceptable) = Sshd!Evaluate(c, k, onAbsent, onValue)
      BY DEF Sshd!IntSpec
    <2> HIDE DEF parses, insecure, pass
    <2>3. Blameless(onAbsent) /\ Blameless(onValue)
      BY <2>1
    <2>4. QED BY <1>4, <2>2, <2>3
  <1>8. \A k, weak : Blameless(Sshd!AlgSpec(c, k, weak))
    BY <1>4 DEF Sshd!AlgSpec
  <1>9. Blameless(Sshd!SSHD_0002(c))
    BY <1>3, <1>4, <1>5 DEF Sshd!SSHD_0002
  <1>10. Blameless(Sshd!SSHD_0007(c))
    BY <1>3, <1>4, <1>5 DEF Sshd!SSHD_0007
  <1>11. Blameless(Sshd!SSHD_0008(c))
    BY <1>3, <1>4, <1>5 DEF Sshd!SSHD_0008
  <1>12. Blameless(Sshd!SSHD_0009(c))
    BY <1>3, <1>4, <1>5 DEF Sshd!SSHD_0009
  <1>13. Blameless(Sshd!SSHD_0017(c))
    BY <1>3, <1>4, <1>5 DEF Sshd!SSHD_0017
  <1>14. /\ Blameless(Sshd!SSHD_0003(c))
         /\ Blameless(Sshd!SSHD_0004(c))
         /\ Blameless(Sshd!SSHD_0005(c))
         /\ Blameless(Sshd!SSHD_0006(c))
         /\ Blameless(Sshd!SSHD_0010(c))
         /\ Blameless(Sshd!SSHD_0011(c))
         /\ Blameless(Sshd!SSHD_0012(c))
         /\ Blameless(Sshd!SSHD_0013(c))
         /\ Blameless(Sshd!SSHD_0014(c))
         /\ Blameless(Sshd!SSHD_0015(c))
         /\ Blameless(Sshd!SSHD_0016(c))
         /\ Blameless(Sshd!SSHD_0018(c))
         /\ Blameless(Sshd!SSHD_0019(c))
         /\ Blameless(Sshd!SSHD_0020(c))
    BY <1>6, <1>7, <1>8 DEF Sshd!SSHD_0003, Sshd!SSHD_0004, Sshd!SSHD_0005, Sshd!SSHD_0006,
       Sshd!SSHD_0010, Sshd!SSHD_0011, Sshd!SSHD_0012, Sshd!SSHD_0013, Sshd!SSHD_0014,
       Sshd!SSHD_0015, Sshd!SSHD_0016, Sshd!SSHD_0018, Sshd!SSHD_0019, Sshd!SSHD_0020
  <1>15. QED
    BY <1>1, <1>2, <1>9, <1>10, <1>11, <1>12, <1>13, <1>14 DEF Sshd!SshdVerdicts, c

(* The same for journald's and rsyslog's configuration.                    *)
LEMMA LoggingReads ==
  ASSUME NEW h, NEW s, OddOf(h), s.denied = {}, NEW p
  PROVE  Logging!ReadFile(h, s, p) \in Reads
  BY DEF OddOf, Reads, Logging!ReadFile, Logging!InodeAt

(* Nothing refused, no LOGGING check asks for privileges.                  *)
LEMMA LoggingBlames ==
  ASSUME NEW h, NEW s, OddOf(h), s.denied = {}
  PROVE  LET v == Logging!LoggingVerdicts(Logging!CollectLogging(h, s))
         IN  \A n \in DOMAIN v : Blameless(v[n])
  <1> USE DEF Blameless, Cron!ReasonPermission, Logging!Outcome, Logging!CannotTell, Logging!Passes,
          Logging!PassesFor, Logging!Fails, Logging!NotApplicable, Logging!NotApplicableFor,
          Logging!ReasonPermission, Logging!ReasonAmbiguousState, Logging!ReasonParse,
          Logging!ReasonTruncated, Logging!ReasonFactMissing
  <1> DEFINE l == Logging!CollectLogging(h, s)
  <1>1. l.rsyslog.error # "permission" /\ l.journald.error # "permission"
    <2>1. Logging!CollectRsyslog(h, s).error # "permission"
      BY LoggingReads DEF Reads, Logging!CollectRsyslog, Logging!Missing
    <2>2. Logging!CollectJournald(h, s).error # "permission"
      BY LoggingReads DEF Reads, Logging!CollectJournald, Logging!Missing
    <2>3. QED BY <2>1, <2>2 DEF Logging!CollectLogging, Logging!Missing
  <1>2. \A f, oc : f.error # "permission" /\ Blameless(oc) => Blameless(Logging!Require(f, oc))
    BY DEF Logging!Require, Logging!ReasonFor
  <1>3. \A r, oc : Blameless(oc) => /\ Blameless(Logging!UnresolvedRsyslog(r, oc))
                                   /\ Blameless(Logging!UnlessUnresolved(r, oc))
    BY DEF Logging!UnresolvedRsyslog, Logging!UnlessUnresolved
  <1>4. \A j : Logging!BoolValue(j) \in {"yes", "no", "unknown"}
    BY DEF Logging!BoolValue
  <1>5. \A r : Blameless(Logging!LOGGING_0001(r))
    BY <1>3 DEF Logging!LOGGING_0001
  <1>6. \A r : Blameless(Logging!LOGGING_0002(r))
    BY <1>3 DEF Logging!LOGGING_0002
  <1>7. \A j : Blameless(Logging!LOGGING_0003(j))
    BY DEF Logging!LOGGING_0003
  <1>8. \A j, r : Blameless(Logging!LOGGING_0004(j, r))
    BY <1>4 DEF Logging!LOGGING_0004
  <1>9. \A r : Blameless(Logging!LOGGING_0005(r))
    BY <1>3 DEF Logging!LOGGING_0005
  <1> HIDE DEF l
  <1>10. QED BY <1>1, <1>2, <1>5, <1>6, <1>7, <1>8, <1>9 DEF Logging!LoggingVerdicts, l

(* The same for daemon.json and docker's units.                            *)
LEMMA ContainersReads ==
  ASSUME NEW h, NEW s, OddOf(h), s.denied = {}, NEW p
  PROVE  Containers!ReadFile(h, s, p) \in Reads
  BY DEF OddOf, Reads, Containers!ReadFile, Containers!InodeAt

(* A unit is assembled from the roots, its fragment and its drop-ins       *)
(* (units.go); nothing refused, no part of it is "denied".                 *)
LEMMA ContainersUnits ==
  ASSUME NEW h, NEW s, OddOf(h), s.denied = {}, NEW name, NEW section, NEW directives
  PROVE  LET asm == Containers!Assemble(h, s, name, section, directives)
         IN  asm.state # "denied" /\ \A f \in asm.fragments : f.state # "denied"
  <1>1. \A p : Containers!ReadFragment(h, s, p) # "denied"
    BY ContainersReads DEF Reads, Containers!ReadFragment
  <1>2. \A d : Containers!RefusedAs(s, d) # "denied"
    BY DEF Containers!RefusedAs
  <1>3. \A f \in Containers!FindUnit(h, s, name).refused : f.state # "denied"
    <2> DEFINE there == {k \in DOMAIN Containers!Roots : /\ ~Containers!Closed(s, Containers!Roots[k])
                                               /\ Containers!Exists(h, Containers!Join(Containers!Roots[k], name))}
               first == IF there = {} THEN Len(Containers!Roots) + 1 ELSE Containers!Smallest(there)
               shut  == {j \in 1..(first - 1) : Containers!Closed(s, Containers!Roots[j])}
    <2>1. Containers!FindUnit(h, s, name).refused =
            {[path |-> Containers!Join(Containers!Roots[k], name),
              state |-> Containers!RefusedAs(s, Containers!Roots[k])] : k \in shut}
      BY DEF Containers!FindUnit
    <2> HIDE DEF shut
    <2>2. QED BY <1>2, <2>1
  <1>4. \A f \in Containers!DropInGaps(h, s, name) : f.state # "denied"
    BY <1>2 DEF Containers!DropInGaps
  <1> DEFINE unit    == Containers!FindUnit(h, s, name)
             state   == Containers!ReadFragment(h, s, unit.path)
             dropins == Containers!DropIns(h, s, name)
             read    == {[path |-> dropins[n], state |-> Containers!ReadFragment(h, s, dropins[n])] :
                           n \in DOMAIN dropins}
             asm     == Containers!Assemble(h, s, name, section, directives)
             own     == unit.refused \cup {[path |-> unit.path, state |-> state]}
  <1>5. /\ asm.state \in {"absent", state}
        /\ asm.fragments \in {unit.refused, own, own \cup Containers!DropInGaps(h, s, name) \cup read}
    BY DEF Containers!Assemble
  <1>6. \A f \in read : f.state # "denied"
    BY <1>1
  <1>7. state # "denied"
    BY <1>1
  <1> HIDE DEF unit, state, read, asm
  <1>8. \A f \in own : f.state # "denied"
    BY <1>3, <1>7 DEF unit
  <1>9. \A f \in asm.fragments : f.state # "denied"
    BY <1>3, <1>4, <1>5, <1>6, <1>8 DEF unit
  <1>10. QED BY <1>5, <1>7, <1>9 DEF asm

(* The same for the systemd collectors.                                    *)
LEMMA SystemdReads ==
  ASSUME NEW h, NEW s, OddOf(h), s.denied = {}, NEW p
  PROVE  Systemd!ReadFile(h, s, p) \in Reads
  BY DEF OddOf, Reads, Systemd!ReadFile, Systemd!InodeAt

(* And for the units of the sandboxing targets.                            *)
LEMMA SystemdUnits ==
  ASSUME NEW h, NEW s, OddOf(h), s.denied = {}, NEW name, NEW section, NEW directives
  PROVE  LET asm == Systemd!Assemble(h, s, name, section, directives)
         IN  asm.state # "denied" /\ \A f \in asm.fragments : f.state # "denied"
  <1>1. \A p : Systemd!ReadFragment(h, s, p) # "denied"
    BY SystemdReads DEF Reads, Systemd!ReadFragment
  <1>2. \A d : Systemd!RefusedAs(s, d) # "denied"
    BY DEF Systemd!RefusedAs
  <1>3. \A f \in Systemd!FindUnit(h, s, name).refused : f.state # "denied"
    <2> DEFINE there == {k \in DOMAIN Systemd!Roots : /\ ~Systemd!Closed(s, Systemd!Roots[k])
                                               /\ Systemd!Exists(h, Systemd!Join(Systemd!Roots[k], name))}
               first == IF there = {} THEN Len(Systemd!Roots) + 1 ELSE Systemd!Smallest(there)
               shut  == {j \in 1..(first - 1) : Systemd!Closed(s, Systemd!Roots[j])}
    <2>1. Systemd!FindUnit(h, s, name).refused =
            {[path |-> Systemd!Join(Systemd!Roots[k], name),
              state |-> Systemd!RefusedAs(s, Systemd!Roots[k])] : k \in shut}
      BY DEF Systemd!FindUnit
    <2> HIDE DEF shut
    <2>2. QED BY <1>2, <2>1
  <1>4. \A f \in Systemd!DropInGaps(h, s, name) : f.state # "denied"
    BY <1>2 DEF Systemd!DropInGaps
  <1> DEFINE unit    == Systemd!FindUnit(h, s, name)
             state   == Systemd!ReadFragment(h, s, unit.path)
             dropins == Systemd!DropIns(h, s, name)
             read    == {[path |-> dropins[n], state |-> Systemd!ReadFragment(h, s, dropins[n])] :
                           n \in DOMAIN dropins}
             asm     == Systemd!Assemble(h, s, name, section, directives)
             own     == unit.refused \cup {[path |-> unit.path, state |-> state]}
  <1>5. /\ asm.state \in {"absent", state}
        /\ asm.fragments \in {unit.refused, own, own \cup Systemd!DropInGaps(h, s, name) \cup read}
    BY DEF Systemd!Assemble
  <1>6. \A f \in read : f.state # "denied"
    BY <1>1
  <1>7. state # "denied"
    BY <1>1
  <1> HIDE DEF unit, state, read, asm
  <1>8. \A f \in own : f.state # "denied"
    BY <1>3, <1>7 DEF unit
  <1>9. \A f \in asm.fragments : f.state # "denied"
    BY <1>3, <1>4, <1>5, <1>6, <1>8 DEF unit
  <1>10. QED BY <1>5, <1>7, <1>9 DEF asm

(* Nothing refused, no CONTAINERS check asks for privileges.               *)
LEMMA ContainersBlames ==
  ASSUME NEW h, NEW s, OddOf(h), s.denied = {}
  PROVE  LET v == Containers!ContainersVerdicts(Containers!CollectContainers(h, s))
         IN  \A n \in DOMAIN v : Blameless(v[n])
  <1> USE DEF Blameless, Cron!ReasonPermission, Containers!Outcome, Containers!CannotTell,
          Containers!Passes,
          Containers!PassesFor, Containers!Fails, Containers!NotApplicable,
          Containers!NotApplicableFor, Containers!ReasonPermission,
          Containers!ReasonAmbiguousState, Containers!ReasonParse, Containers!ReasonTruncated,
          Containers!ReasonFactMissing
  <1> DEFINE d == Containers!CollectDocker(h, s)
             u == Containers!CollectDockerService(h, s)
  <1>1. d.state # "denied"
    <2>1. Containers!ReadConfig(h, s) # "denied"
      BY ContainersReads DEF Reads, Containers!ReadConfig
    <2>2. QED BY <2>1 DEF Containers!CollectDocker
  <1>2. u.state # "denied" /\ \A f \in u.fragments : f.state # "denied"
    BY ContainersUnits DEF Containers!CollectDockerService, Containers!ServiceOf
  <1>3. Containers!CollectContainers(h, s) = [docker |-> d, service |-> u]
    BY DEF Containers!CollectContainers
  <1> HIDE DEF d, u
  <1>4. Containers!UnitReason(u) # Cron!ReasonPermission
    BY <1>2 DEF Containers!UnitReason, Containers!IncompleteUnit, Containers!IncompleteFragments
  <1>5. \A oc : Blameless(oc) => /\ Blameless(Containers!Applicable(d, oc))
                                /\ Blameless(Containers!ServiceApplicable(u, oc))
    BY <1>1, <1>2 DEF Containers!Applicable, Containers!ServiceApplicable
  <1>6. \A b : Blameless(Containers!PassOrFail(b))
    BY DEF Containers!PassOrFail
  <1>7. /\ Blameless(Containers!CONTAINERS_0001(d, u))
        /\ Blameless(Containers!CONTAINERS_0002(d))
        /\ Blameless(Containers!CONTAINERS_0003(d))
        /\ Blameless(Containers!CONTAINERS_0004(d))
        /\ Blameless(Containers!CONTAINERS_0005(d))
    BY <1>5, <1>6 DEF Containers!CONTAINERS_0001, Containers!CONTAINERS_0002,
       Containers!CONTAINERS_0003,
       Containers!CONTAINERS_0004, Containers!CONTAINERS_0005
  <1>8. Blameless(Containers!CONTAINERS_0006(u, d))
    BY <1>4, <1>5 DEF Containers!CONTAINERS_0006
  <1>9. Blameless(Containers!CONTAINERS_0007(d, u))
    BY <1>5, <1>6 DEF Containers!CONTAINERS_0007
  <1>10. Blameless(Containers!CONTAINERS_0008(d, u))
    BY <1>4, <1>5, <1>6 DEF Containers!CONTAINERS_0008
  <1>11. QED BY <1>3, <1>7, <1>8, <1>9, <1>10 DEF Containers!ContainersVerdicts

(* Nothing refused, no SERVICES check asks for privileges, SERVICES-0004   *)
(* and SERVICES-0011 apart: these two do not look at the cause.            *)
LEMMA ServicesBlames ==
  ASSUME NEW h, NEW s, OddOf(h), s.denied = {}
  PROVE  LET v == Systemd!ServicesVerdicts(Systemd!CollectSystemd(h, s))
         IN  \A n \in DOMAIN v \ BlameUnsure : Blameless(v[n])
  <1> USE DEF Blameless, Cron!ReasonPermission, Systemd!Outcome, Systemd!CannotTell, Systemd!Passes,
          Systemd!PassesFor, Systemd!Fails, Systemd!NotApplicable, Systemd!NotApplicableFor,
          Systemd!ReasonPermission, Systemd!ReasonAmbiguousState, Systemd!ReasonParse,
          Systemd!ReasonTruncated, Systemd!ReasonFactMissing
  <1> DEFINE e == Systemd!CollectServices(h, s)
             b == Systemd!CollectSandbox(h, s)
             a == Systemd!CollectAppArmor(h, s)
  <1>1. \A d \in e.dirs : d.state # "denied"
    <2>1. \A d : Systemd!ScanDir(h, s, d).state # "denied"
      BY DEF Systemd!ScanDir, Systemd!RefusedAs
    <2>2. \A d \in e.dirs : \E p : d = Systemd!ScanDir(h, s, p)
      BY DEF Systemd!CollectServices
    <2>3. QED BY <2>1, <2>2
  <1>2. \A n \in DOMAIN b.services : /\ b.services[n].state # "denied"
                                     /\ \A f \in b.services[n].fragments : f.state # "denied"
    <2>1. \A name : LET x == Systemd!ReadSandbox(h, s, name)
                    IN  x.state # "denied" /\ \A f \in x.fragments : f.state # "denied"
      BY SystemdUnits DEF Systemd!ReadSandbox, Systemd!SandboxOf
    <2>2. QED BY <2>1 DEF Systemd!CollectSandbox
  <1>3. a.state # "denied" /\ a.profiles # "denied"
    BY SystemdReads DEF Reads, Systemd!CollectAppArmor
  <1>4. Systemd!CollectSystemd(h, s) = [services |-> e, sandbox |-> b, apparmor |-> a]
    BY DEF Systemd!CollectSystemd
  <1> HIDE DEF e, b, a
  <1>5. \A oc : Blameless(oc) => /\ Blameless(Systemd!UnknownIfIncomplete(e, oc))
                                /\ Blameless(Systemd!OnSystemd(e, oc))
    BY <1>1 DEF Systemd!UnknownIfIncomplete, Systemd!OnSystemd, Systemd!Incomplete
  <1>6. /\ Blameless(Systemd!SERVICES_0001(e))
        /\ Blameless(Systemd!SERVICES_0002(e))
    BY <1>5 DEF Systemd!SERVICES_0001, Systemd!SERVICES_0002, Systemd!NoneEnabled
  <1>7. Blameless(Systemd!SERVICES_0003(e))
    BY <1>5 DEF Systemd!SERVICES_0003
  <1>8. Blameless(Systemd!SERVICES_0005(e))
    BY <1>5 DEF Systemd!SERVICES_0005
  <1>9. Systemd!WhyUnread(b) # Cron!ReasonPermission
    BY <1>2 DEF Systemd!WhyUnread, Systemd!UnitsIn
  <1>10. \A exempt, satisfied : Blameless(Systemd!Partition(b, exempt, satisfied, Systemd!WhyUnread(b)))
    BY <1>9 DEF Systemd!Partition
  <1>11. /\ Blameless(Systemd!SERVICES_0006(b))
         /\ Blameless(Systemd!SERVICES_0007(b))
         /\ Blameless(Systemd!SERVICES_0008(b))
    BY <1>10 DEF Systemd!SERVICES_0006, Systemd!SERVICES_0007, Systemd!SERVICES_0008
  <1>12. Blameless(Systemd!SERVICES_0010(a))
    BY <1>3 DEF Systemd!SERVICES_0010
  <1>13. QED
    BY <1>4, <1>6, <1>7, <1>8, <1>11, <1>12 DEF Systemd!ServicesVerdicts, BlameUnsure

(* The same for sysctl.d and /proc/sys.                                    *)
LEMMA KernelReads ==
  ASSUME NEW h, NEW s, OddOf(h), s.denied = {}, NEW p
  PROVE  Kernel!ReadFile(h, s, p) \in Reads
  BY DEF OddOf, Reads, Kernel!ReadFile, Kernel!InodeAt

(* Nothing refused, no KERNEL check asks for privileges, KERNEL-0008 and   *)
(* KERNEL-0015 apart.                                                      *)
LEMMA KernelBlames ==
  ASSUME NEW h, NEW s, OddOf(h), s.denied = {}
  PROVE  LET v == Kernel!KernelVerdicts(Kernel!CollectSysctl(h, s))
         IN  \A n \in DOMAIN v \ BlameUnsure : Blameless(v[n])
  <1> USE DEF Blameless, Cron!ReasonPermission, Kernel!Outcome, Kernel!CannotTell, Kernel!Passes,
          Kernel!PassesFor, Kernel!Fails, Kernel!NotApplicable, Kernel!NotApplicableFor,
          Kernel!ReasonPermission, Kernel!ReasonAmbiguousState, Kernel!ReasonParse,
          Kernel!ReasonTruncated, Kernel!ReasonFactMissing
  <1> DEFINE sc == Kernel!CollectSysctl(h, s)
  <1>1. \A k \in DOMAIN sc.running : sc.running[k].state \in {"error", "absent", "observed"}
    <2>1. \A k : Kernel!ReadRunning(h, s, k).state \in {"error", "absent", "observed"}
      BY DEF Kernel!ReadRunning
    <2>2. QED BY <2>1 DEF Kernel!CollectSysctl
  <1>2. "permission" \notin Kernel!Elements(sc.unreadable)
    <2>1. \A f : Kernel!ReadConfigFile(h, s, f).unreadable # "permission"
      <3> SUFFICES ASSUME NEW f PROVE Kernel!ReadConfigFile(h, s, f).unreadable # "permission"
        OBVIOUS
      <3> DEFINE read == IF Kernel!Resolved(h, f.file) \in DOMAIN h.links THEN "link"
                         ELSE Kernel!ReadFile(h, s, Kernel!Resolved(h, f.file))
      <3>1. read \in Reads \cup {"link"}
        BY KernelReads
      <3>2. QED BY <3>1 DEF Reads, Kernel!ReadConfigFile
    <2>2. \A n \in DOMAIN sc.unreadable : \E f : sc.unreadable[n] = Kernel!ReadConfigFile(h, s, f).unreadable
      BY DEF Kernel!CollectSysctl
    <2>3. QED BY <2>1, <2>2 DEF Kernel!Elements
  <1> HIDE DEF sc
  <1>3. Kernel!UnknownReasonFor(sc.unreadable) # Cron!ReasonPermission
    BY <1>2 DEF Kernel!UnknownReasonFor
  <1>4. \A k, oc : Blameless(oc) => Blameless(Kernel!RunningFor(sc, k, oc))
    BY <1>1 DEF Kernel!RunningFor
  <1>5. \A k, acceptable : Blameless(Kernel!IntCheck(sc, k, acceptable))
    BY <1>4 DEF Kernel!IntCheck
  <1>6. \A keys, oc : Blameless(oc) => Blameless(Kernel!PersistenceGate(sc, keys, oc))
    BY <1>3 DEF Kernel!PersistenceGate
  <1>7. \A k, v : v \in {"pass", "fail", "unclear"} => Blameless(Kernel!Persistent(sc, k, v))
    BY <1>6 DEF Kernel!Persistent
  <1>8. \A keys, met : Blameless(Kernel!CheckRequirements(sc, keys, met))
    BY <1>6 DEF Kernel!CheckRequirements
  <1>9. \A b \in BOOLEAN : Kernel!PassIf(b) \in {"pass", "fail", "unclear"}
    BY DEF Kernel!PassIf
  <1>10. /\ Blameless(Kernel!KERNEL_0001(sc))
         /\ Blameless(Kernel!KERNEL_0002(sc))
         /\ Blameless(Kernel!KERNEL_0003(sc))
         /\ Blameless(Kernel!KERNEL_0004(sc))
         /\ Blameless(Kernel!KERNEL_0005(sc))
         /\ Blameless(Kernel!KERNEL_0006(sc))
         /\ Blameless(Kernel!KERNEL_0009(sc))
         /\ Blameless(Kernel!KERNEL_0010(sc))
         /\ Blameless(Kernel!KERNEL_0011(sc))
         /\ Blameless(Kernel!KERNEL_0012(sc))
         /\ Blameless(Kernel!KERNEL_0013(sc))
         /\ Blameless(Kernel!KERNEL_0016(sc))
    BY <1>5 DEF Kernel!KERNEL_0001, Kernel!KERNEL_0002, Kernel!KERNEL_0003, Kernel!KERNEL_0004,
       Kernel!KERNEL_0005, Kernel!KERNEL_0006, Kernel!KERNEL_0009, Kernel!KERNEL_0010,
       Kernel!KERNEL_0011, Kernel!KERNEL_0012, Kernel!KERNEL_0013, Kernel!KERNEL_0016
  <1>11. /\ Blameless(Kernel!KERNEL_0018(sc))
    BY <1>7 DEF Kernel!KERNEL_0018, Kernel!PassIf
  <1>12. /\ Blameless(Kernel!KERNEL_0019(sc))
    BY <1>7 DEF Kernel!KERNEL_0019, Kernel!PassIf
  <1>13. /\ Blameless(Kernel!KERNEL_0020(sc))
    BY <1>7 DEF Kernel!KERNEL_0020, Kernel!PassIf
  <1>14. /\ Blameless(Kernel!KERNEL_0021(sc))
    BY <1>7 DEF Kernel!KERNEL_0021, Kernel!PassIf
  <1>15. /\ Blameless(Kernel!KERNEL_0022(sc))
    BY <1>7 DEF Kernel!KERNEL_0022, Kernel!PassIf
  <1>16. /\ Blameless(Kernel!KERNEL_0023(sc))
    BY <1>7 DEF Kernel!KERNEL_0023, Kernel!PassIf
  <1>17. /\ Blameless(Kernel!KERNEL_0028(sc))
    BY <1>7 DEF Kernel!KERNEL_0028, Kernel!PassIf
  <1>18. /\ Blameless(Kernel!KERNEL_0029(sc))
    BY <1>7 DEF Kernel!KERNEL_0029, Kernel!PassIf
  <1>19. /\ Blameless(Kernel!KERNEL_0030(sc))
         /\ Blameless(Kernel!KERNEL_0031(sc))
    BY <1>7 DEF Kernel!KERNEL_0030, Kernel!KERNEL_0031, Kernel!LinkProtection, Kernel!PassIf
  <1>20. /\ Blameless(Kernel!KERNEL_0017(sc))
         /\ Blameless(Kernel!KERNEL_0024(sc))
         /\ Blameless(Kernel!KERNEL_0025(sc))
         /\ Blameless(Kernel!KERNEL_0026(sc))
         /\ Blameless(Kernel!KERNEL_0027(sc))
    BY <1>8 DEF Kernel!KERNEL_0017, Kernel!KERNEL_0024, Kernel!KERNEL_0025, Kernel!KERNEL_0026,
       Kernel!KERNEL_0027
  <1>21. /\ Blameless(Kernel!KERNEL_0007(sc))
    BY <1>3 DEF Kernel!KERNEL_0007
  <1>22. /\ Blameless(Kernel!KERNEL_0014(sc))
    BY <1>4 DEF Kernel!KERNEL_0014
  <1>23. QED
    BY <1>10, <1>11, <1>12, <1>13, <1>14, <1>15, <1>16, <1>17, <1>18, <1>19, <1>20, <1>21,
       <1>22 DEF Kernel!KernelVerdicts, BlameUnsure, sc

------------------------------------------------------------------------------
(* Induction, recursion and flattening.                                    *)

(* A set of naturals that is not empty has a least element.                *)
LEMMA LeastExists ==
  ASSUME NEW S, S \subseteq Nat, S # {}
  PROVE  \E p \in S : \A q \in S : p <= q
  <1>1. PICK p \in S : \A q \in S : ~(<<q, p>> \in OpToRel(<, Nat))
    BY NatLessThanWellFounded, WFMin
  <1>2. \A q \in S : ~(q < p)
    BY <1>1 DEF OpToRel
  <1>3. QED BY <1>2

(* Induction along an interval: what holds at its start and passes from    *)
(* each number to the next holds throughout.                               *)
LEMMA Climb ==
  ASSUME NEW a \in Nat, NEW n \in Nat, NEW P, a \in P,
         \A k \in a..n : k # a /\ k - 1 \in P => k \in P
  PROVE  a..n \subseteq P
  <1> DEFINE Out == (a..n) \ P
  <1> SUFFICES ASSUME Out # {} PROVE FALSE
    OBVIOUS
  <1>1. Out \subseteq Nat
    OBVIOUS
  <1>2. PICK p \in Out : \A q \in Out : p <= q
    <2> HIDE DEF Out
    <2>1. QED BY <1>1, LeastExists
  <1>3. p \in a..n /\ p # a /\ p - 1 \in a..n
    OBVIOUS
  <1>4. p - 1 \in P
    BY <1>2, <1>3
  <1>5. QED BY <1>3, <1>4

(* f starts at base and goes on by step.                                   *)
Recurs(f, a, n, base, step) ==
  f[a] = base /\ \A k \in a..n : k # a => f[k] = step[k][f[k - 1]]

(* A function that is defined by primitive recursion over an interval      *)
(* exists.                                                                 *)
LEMMA RecursionExists ==
  ASSUME NEW a \in Nat, NEW n \in Nat, a <= n, NEW T, NEW base \in T,
         NEW step \in [a..n -> [T -> T]]
  PROVE  \E f \in [a..n -> T] : Recurs(f, a, n, base, step)
  <1> DEFINE Good(f, m) == /\ f[a] = base
                           /\ \A k \in a..m : k # a => f[k] = step[k][f[k - 1]]
             P == {m \in a..n : \E f \in [a..m -> T] : Good(f, m)}
  <1>1. a \in P
    <2> DEFINE f == [i \in a..a |-> base]
    <2>1. f \in [a..a -> T] /\ Good(f, a)
      OBVIOUS
    <2> HIDE DEF f, Good
    <2>2. QED BY <2>1
  <1>2. ASSUME NEW k \in a..n, k # a, k - 1 \in P PROVE k \in P
    <2>1. PICK f \in [a..(k - 1) -> T] : Good(f, k - 1)
      <3> HIDE DEF Good
      <3>1. QED BY <1>2
    <2> DEFINE g == [i \in a..k |-> IF i = k THEN step[k][f[k - 1]] ELSE f[i]]
    <2>0. k \in Nat /\ k - 1 \in Nat /\ k - 1 \in a..(k - 1) /\ a \in a..k
      BY <1>2
    <2>2. f[k - 1] \in T /\ step[k][f[k - 1]] \in T
      BY <2>0, <2>1
    <2>3. g \in [a..k -> T]
      BY <2>1, <2>2
    <2>4. g[a] = base
      BY <1>2, <2>0, <2>1
    <2>5. \A i \in a..k : i # a => g[i] = step[i][g[i - 1]]
      <3> SUFFICES ASSUME NEW i \in a..k, i # a PROVE g[i] = step[i][g[i - 1]]
        OBVIOUS
      <3>1. i - 1 \in a..k /\ i - 1 # k /\ i - 1 \in a..(k - 1)
        BY <2>0
      <3>2. g[i - 1] = f[i - 1]
        BY <3>1
      <3>3. CASE i = k
        BY <3>2, <3>3
      <3>4. CASE i # k
        <4>1. i \in a..(k - 1)
          BY <2>0, <3>4
        <4>2. g[i] = f[i]
          BY <3>4
        <4>3. QED BY <2>1, <3>2, <4>1, <4>2
      <3>5. QED BY <3>3, <3>4
    <2> HIDE DEF g
    <2>6. \E f2 \in [a..k -> T] : Good(f2, k)
      BY <2>3, <2>4, <2>5
    <2> HIDE DEF Good
    <2>7. QED BY <2>6
  <1> HIDE DEF P
  <1>3. a..n \subseteq P
    BY <1>1, <1>2, Climb
  <1>4. n \in P
    BY <1>3
  <1>5. PICK f \in [a..n -> T] : Good(f, n)
    <2> HIDE DEF Good
    <2>1. QED BY <1>4 DEF P
  <1>6. QED BY <1>5 DEF Recurs

(* Flattening stays within any set of sequences that has the empty one and *)
(* is closed under concatenation.                                          *)
LEMMA FlattenStays ==
  ASSUME NEW T, << >> \in T, \A x, y \in T : x \o y \in T,
         NEW n \in Nat, NEW seqs \in [1..n -> T]
  PROVE  FlattenSeq(seqs) \in T
  <1>1. seqs \in Seq(T) /\ Len(seqs) = n
    OBVIOUS
  <1>2. CASE n = 0
    <2>1. seqs = << >>
      BY <1>1, <1>2
    <2>2. QED BY <1>1, <1>2, <2>1 DEF FlattenSeq
  <1>3. CASE n # 0
    <2> DEFINE flatten == CHOOSE f : f = [i \in 1..Len(seqs) |->
                                            IF i = 1 THEN seqs[i] ELSE f[i - 1] \o seqs[i]]
               step == [k \in 1..n |-> [x \in T |-> x \o seqs[k]]]
    <2>1. FlattenSeq(seqs) = flatten[n]
      BY <1>1, <1>3 DEF FlattenSeq
    <2>2. step \in [1..n -> [T -> T]]
      OBVIOUS
    <2>3. \E f \in [1..n -> T] : Recurs(f, 1, n, seqs[1], step)
      <3>1. 1 \in Nat /\ n \in Nat /\ 1 <= n /\ seqs[1] \in T
        BY <1>3
      <3> HIDE DEF step
      <3>2. QED BY <2>2, <3>1, RecursionExists
    <2>4. PICK g \in [1..n -> T] : /\ g[1] = seqs[1]
                                   /\ \A k \in 1..n : k # 1 => g[k] = step[k][g[k - 1]]
      BY <2>3 DEF Recurs
    <2>5. g = [i \in 1..Len(seqs) |-> IF i = 1 THEN seqs[i] ELSE g[i - 1] \o seqs[i]]
      <3>1. ASSUME NEW k \in 1..n, k # 1 PROVE g[k] = g[k - 1] \o seqs[k]
        <4>1. k - 1 \in 1..n
          BY <3>1
        <4>2. g[k - 1] \in T
          BY <4>1
        <4>3. step[k][g[k - 1]] = g[k - 1] \o seqs[k]
          BY <4>2
        <4>4. QED BY <2>4, <3>1, <4>3
      <3>2. \A i \in 1..n : g[i] = IF i = 1 THEN seqs[i] ELSE g[i - 1] \o seqs[i]
        BY <2>4, <3>1
      <3>3. QED BY <1>1, <3>2
    <2>6. flatten = [i \in 1..Len(seqs) |-> IF i = 1 THEN seqs[i] ELSE flatten[i - 1] \o seqs[i]]
      BY <2>5
    <2> DEFINE P == {i \in 1..n : flatten[i] \in T}
    <2> HIDE DEF flatten
    <2>7. 1 \in P
      BY <1>1, <1>3, <2>6
    <2>8. ASSUME NEW k \in 1..n, k # 1, k - 1 \in P PROVE k \in P
      <3>1. flatten[k] = flatten[k - 1] \o seqs[k]
        BY <1>1, <2>6, <2>8
      <3>2. flatten[k - 1] \in T /\ seqs[k] \in T
        BY <2>8
      <3>3. flatten[k] \in T
        BY <3>1, <3>2
      <3>4. QED BY <3>3
    <2> HIDE DEF P
    <2>9. 1..n \subseteq P
      BY <2>7, <2>8, Climb
    <2>10. QED BY <1>3, <2>1, <2>9 DEF P
  <1>4. QED BY <1>2, <1>3

------------------------------------------------------------------------------
(* PAM stacks, which include files to a depth.                             *)

(* A read by the PAM and login.defs collectors, and that a file that can   *)
(* be read is there.                                                       *)
LEMMA AuthReads ==
  ASSUME NEW h, NEW s, OddOf(h), s.denied = {}, NEW p
  PROVE  /\ Auth!ReadFile(h, s, p) \in Reads
         /\ Auth!ReadFile(h, s, p) = "present" => p \in DOMAIN h.files
  BY DEF OddOf, Reads, Auth!ReadFile, Auth!InodeAt

(* What Parse makes of a rule l of file f.                                 *)
Rule(l, f) == [kind |-> "rule", type |-> l.type, enforcing |-> l.enforcing, module |-> l.module,
               args |-> l.args, file |-> f]

(* The events a PAM stack can consist of where nothing is refused: rules   *)
(* of its files, and includes that were not followed for another reason    *)
(* than a refusal.                                                         *)
Events(h) ==
  {Auth!Unresolved("other")}
    \cup UNION {{Rule(l, f) : l \in Cron!Elements(h.files[f])} : f \in Auth!StackFiles(h)}

(* Where Parse can be: a file, the scope of the include it came through,   *)
(* and the files on the way to it.                                         *)
Places(h) == Auth!StackFiles(h) \X Auth!Scopes \X SUBSET Auth!StackFiles(h)

(* The hosts of the auth family are of this kind.                          *)
LEMMA AuthOdd ==
  ASSUME NEW h, WellFormed("auth", h)
  PROVE  OddOf(h)
  BY DEF WellFormed, OddKinds, OddOf

(* The lines a capped read returns are lines of the file.                  *)
LEMMA TextOf ==
  ASSUME NEW h, WellFormed("auth", h), NEW s, s.cap \in Nat, NEW f \in Auth!StackFiles(h)
  PROVE  /\ \E m \in Nat : DOMAIN Auth!Text(h, s, f) = 1..m
         /\ \A n \in DOMAIN Auth!Text(h, s, f) : Auth!Text(h, s, f)[n] \in Cron!Elements(h.files[f])
  <1> DEFINE q == h.files[f]
             S == Cron!Elements(q)
             m == IF s.cap < Len(q) THEN s.cap ELSE Len(q)
  <1>1. q \in Seq(S)
    BY DEF WellFormed
  <1>2. Auth!Text(h, s, f) = SubSeq(q, 1, m)
    BY DEF Auth!Text, Auth!Upto
  <1> HIDE DEF q, S
  <1>3. Len(q) \in Nat /\ m \in Nat /\ m <= Len(q)
    BY <1>1
  <1> HIDE DEF m
  <1>4. DOMAIN SubSeq(q, 1, m) = 1..m /\ \A n \in 1..m : SubSeq(q, 1, m)[n] \in S
    BY <1>1, <1>3
  <1>5. QED BY <1>2, <1>3, <1>4 DEF S, q

(* Following an include yields such events if parsing one level deeper     *)
(* does (pam.go).                                                          *)
LEMMA FollowStays ==
  ASSUME NEW h, WellFormed("auth", h), NEW s, s.denied = {},
         NEW left \in 0..MaxIncludeDepth, NEW deeper,
         left # 0 => deeper \in [Places(h) -> Seq(Events(h))],
         NEW target, target \notin {Auth!LoginDefsPath, Auth!PwQualityPath},
         NEW scope \in Auth!Scopes, NEW seen \in SUBSET Auth!StackFiles(h)
  PROVE  Auth!Follow(h, s, deeper, target, scope, left, seen) \in Seq(Events(h))
  <1>1. <<Auth!Unresolved("other")>> \in Seq(Events(h))
    BY DEF Events
  <1>2. Auth!ReadFile(h, s, target) \in Reads
    BY AuthOdd, AuthReads
  <1>3. ASSUME left # 0, Auth!ReadFile(h, s, target) = "present"
        PROVE  deeper[<<target, scope, seen \cup {target}>>] \in Seq(Events(h))
    <2>1. target \in Auth!StackFiles(h)
      BY <1>3, AuthOdd, AuthReads DEF Auth!StackFiles
    <2>2. <<target, scope, seen \cup {target}>> \in Places(h)
      BY <2>1 DEF Places
    <2>3. QED BY <1>3, <2>2
  <1>4. QED BY <1>1, <1>2, <1>3 DEF Reads, Auth!Follow

(* Parsing a file yields such events if parsing one level deeper does.     *)
LEMMA ParseStays ==
  ASSUME NEW h, WellFormed("auth", h), NEW s, s.denied = {}, s.cap \in Nat,
         NEW left \in 0..MaxIncludeDepth, NEW deeper,
         left # 0 => deeper \in [Places(h) -> Seq(Events(h))],
         NEW file \in Auth!StackFiles(h), NEW scope \in Auth!Scopes,
         NEW seen \in SUBSET Auth!StackFiles(h)
  PROVE  Auth!Parse(h, s, deeper, left, file, scope, seen) \in Seq(Events(h))
  <1> DEFINE text == Auth!Text(h, s, file)
             T == Seq(Events(h))
             statement(st) ==
               CASE st.kind = "@include" -> Auth!Follow(h, s, deeper, st.target, "", left, seen)
                 [] st.kind = "include" ->
                      Auth!Follow(h, s, deeper, st.target, IF scope # "" THEN scope ELSE st.type, left, seen)
                 [] st.kind = "rule" /\ scope # "" /\ st.type # scope -> << >>
                 [] OTHER -> <<Rule(st, file)>>
             seqs == [n \in DOMAIN text |-> statement(text[n])]
  <1>1. Auth!Parse(h, s, deeper, left, file, scope, seen) = Auth!FlattenSeq(seqs)
    BY DEF Auth!Parse, Rule
  <1>2. Auth!FlattenSeq(seqs) = FlattenSeq(seqs)
    <2> HIDE DEF seqs
    <2>1. QED BY DEF Auth!FlattenSeq, FlattenSeq
  <1>3. ASSUME NEW st \in Cron!Elements(h.files[file]) PROVE statement(st) \in T
    <2>1. CASE st.kind = "@include"
      <3>1. st.target \notin {Auth!LoginDefsPath, Auth!PwQualityPath}
        BY <2>1 DEF WellFormed
      <3>2. "" \in Auth!Scopes
        BY DEF Auth!Scopes
      <3>3. QED BY <2>1, <3>1, <3>2, FollowStays
    <2>2. CASE st.kind = "include"
      <3>1. st.target \notin {Auth!LoginDefsPath, Auth!PwQualityPath} /\ st.type \in Auth!Scopes
        BY <2>2 DEF WellFormed
      <3> DEFINE inner == IF scope # "" THEN scope ELSE st.type
      <3>2. inner \in Auth!Scopes
        BY <3>1
      <3> HIDE DEF inner
      <3>3. Auth!Follow(h, s, deeper, st.target, inner, left, seen) \in T
        BY <3>1, <3>2, FollowStays
      <3>4. QED BY <2>2, <3>3 DEF inner
    <2>3. Rule(st, file) \in Events(h)
      BY DEF Events
    <2>4. CASE st.kind \notin {"@include", "include"}
      <3>1. <<Rule(st, file)>> \in T /\ << >> \in T
        BY <2>3
      <3> HIDE DEF T
      <3>2. statement(st) = << >> \/ statement(st) = <<Rule(st, file)>>
        BY <2>4
      <3>3. QED BY <3>1, <3>2
    <2>5. QED BY <2>1, <2>2, <2>4
  <1>4. PICK m \in Nat : DOMAIN text = 1..m
    BY TextOf
  <1>5. \A n \in DOMAIN text : text[n] \in Cron!Elements(h.files[file])
    BY TextOf
  <1>6. seqs \in [1..m -> T]
    <2> HIDE DEF statement, text, T
    <2>1. QED BY <1>3, <1>4, <1>5
  <1>7. << >> \in T /\ \A x, y \in T : x \o y \in T
    OBVIOUS
  <1> HIDE DEF seqs, T
  <1>8. FlattenSeq(seqs) \in T
    BY <1>6, <1>7, FlattenStays
  <1>9. QED BY <1>1, <1>2, <1>8 DEF T

(* So does a whole stack, however its files include each other: by         *)
(* induction on the depth that is left.                                    *)
LEMMA StackStays ==
  ASSUME NEW h, WellFormed("auth", h), NEW s, s.denied = {}, s.cap \in Nat,
         NEW file \in Auth!StackFiles(h)
  PROVE  Auth!Stack(h, s, file) \in Seq(Events(h))
  <1> DEFINE M == MaxIncludeDepth
             X == Places(h)
             T == [X -> Seq(Events(h))]
             parse == CHOOSE p : p = [left \in 0..M |->
                        [x \in X |-> Auth!Parse(h, s, IF left = 0 THEN << >> ELSE p[left - 1], left,
                                                x[1], x[2], x[3])]]
             level(left, deeper) == [x \in X |-> Auth!Parse(h, s, deeper, left, x[1], x[2], x[3])]
             step == [left \in 0..M |-> [deeper \in T |-> level(left, deeper)]]
  <1>1. M \in Nat
    BY BoundsAssumption
  <1>2. Auth!Stack(h, s, file) = parse[M][<<file, "", {file}>>]
    BY DEF Auth!Stack, Places
  <1>3. ASSUME NEW left \in 0..M, NEW deeper, left # 0 => deeper \in T
        PROVE  level(left, deeper) \in T
    <2>1. ASSUME NEW x \in X PROVE Auth!Parse(h, s, deeper, left, x[1], x[2], x[3]) \in Seq(Events(h))
      <3>1. x[1] \in Auth!StackFiles(h) /\ x[2] \in Auth!Scopes /\ x[3] \in SUBSET Auth!StackFiles(h)
        BY DEF Places
      <3>2. QED BY <1>3, <3>1, ParseStays
    <2> HIDE DEF X
    <2>2. QED BY <2>1
  <1> HIDE DEF level
  <1>4. step \in [0..M -> [T -> T]]
    <2> HIDE DEF T
    <2>1. QED BY <1>3
  <1>5. level(0, << >>) \in T
    <2>1. 0 \in 0..M
      BY <1>1
    <2>2. QED BY <1>3, <2>1
  <1>6. PICK g \in [0..M -> T] : Recurs(g, 0, M, level(0, << >>), step)
    <2>1. 0 \in Nat /\ 0 <= M
      BY <1>1
    <2> HIDE DEF T, step, M
    <2>2. QED BY <1>1, <1>4, <1>5, <2>1, RecursionExists
  <1>7. \A left \in 0..M : g[left] = level(left, IF left = 0 THEN << >> ELSE g[left - 1])
    <2> SUFFICES ASSUME NEW left \in 0..M
                 PROVE  g[left] = level(left, IF left = 0 THEN << >> ELSE g[left - 1])
      OBVIOUS
    <2>1. CASE left = 0
      BY <1>6, <2>1 DEF Recurs
    <2>2. CASE left # 0
      <3>1. left - 1 \in 0..M
        BY <1>1, <2>2
      <3>2. g[left - 1] \in T
        BY <1>6, <3>1
      <3> HIDE DEF T
      <3>3. step[left][g[left - 1]] = level(left, g[left - 1])
        BY <3>2
      <3>4. QED BY <1>6, <2>2, <3>3 DEF Recurs
    <2>3. QED BY <2>1, <2>2
  <1>8. g = [left \in 0..M |-> level(left, IF left = 0 THEN << >> ELSE g[left - 1])]
    <2> HIDE DEF T
    <2>1. QED BY <1>6, <1>7
  <1>9. parse = [left \in 0..M |-> level(left, IF left = 0 THEN << >> ELSE parse[left - 1])]
    BY <1>8 DEF level
  <1> DEFINE P == {left \in 0..M : parse[left] \in T}
  <1> HIDE DEF parse, T
  <1>10. 0 \in P
    <2>1. 0 \in 0..M
      BY <1>1
    <2>2. parse[0] = level(0, << >>)
      BY <1>9, <2>1
    <2>3. QED BY <1>5, <2>1, <2>2
  <1>11. ASSUME NEW left \in 0..M, left # 0, left - 1 \in P PROVE left \in P
    <2>1. parse[left] = level(left, parse[left - 1])
      BY <1>9, <1>11
    <2>2. QED BY <1>3, <1>11, <2>1
  <1>12. parse[M] \in T
    <2> HIDE DEF P
    <2>1. 0 \in Nat
      OBVIOUS
    <2>2. 0..M \subseteq P
      BY <1>1, <1>10, <1>11, <2>1, Climb
    <2>3. M \in P
      BY <1>1, <2>2
    <2>4. QED BY <2>3 DEF P
  <1>13. <<file, "", {file}>> \in X
    BY DEF Places, Auth!Scopes
  <1>14. QED BY <1>2, <1>12, <1>13 DEF T

(* What the services before a service have cost is a number.               *)
LEMMA SumsAreNat ==
  ASSUME NEW n \in Nat, NEW costs \in [1..n -> Nat]
  PROVE  \A k \in 0..n : Auth!Sums(costs)[k] \in Nat
  <1> DEFINE sum == CHOOSE f : f = [k \in 0..Len(costs) |-> IF k = 0 THEN 0 ELSE f[k - 1] + costs[k]]
             step == [k \in 0..n |-> [x \in Nat |-> x + (IF k = 0 THEN 0 ELSE costs[k])]]
             P == {k \in 0..n : sum[k] \in Nat}
  <1>1. Auth!Sums(costs) = sum
    BY DEF Auth!Sums
  <1>2. Len(costs) = n
    OBVIOUS
  <1>3. step \in [0..n -> [Nat -> Nat]]
    OBVIOUS
  <1>4. PICK g \in [0..n -> Nat] : Recurs(g, 0, n, 0, step)
    <2>1. 0 \in Nat /\ 0 <= n
      OBVIOUS
    <2> HIDE DEF step
    <2>2. QED BY <1>3, <2>1, RecursionExists
  <1>5. \A k \in 0..n : g[k] = IF k = 0 THEN 0 ELSE g[k - 1] + costs[k]
    <2> SUFFICES ASSUME NEW k \in 0..n, k # 0 PROVE g[k] = g[k - 1] + costs[k]
      BY <1>4 DEF Recurs
    <2>1. k - 1 \in 0..n
      OBVIOUS
    <2>2. g[k - 1] \in Nat
      BY <2>1
    <2>3. step[k][g[k - 1]] = g[k - 1] + costs[k]
      BY <2>2
    <2>4. QED BY <1>4, <2>3 DEF Recurs
  <1>6. g = [k \in 0..Len(costs) |-> IF k = 0 THEN 0 ELSE g[k - 1] + costs[k]]
    BY <1>2, <1>4, <1>5
  <1>7. sum = [k \in 0..Len(costs) |-> IF k = 0 THEN 0 ELSE sum[k - 1] + costs[k]]
    BY <1>6
  <1> HIDE DEF sum
  <1>8. 0 \in P
    BY <1>2, <1>7
  <1>9. ASSUME NEW k \in 0..n, k # 0, k - 1 \in P PROVE k \in P
    <2>1. sum[k] = sum[k - 1] + costs[k]
      BY <1>2, <1>7, <1>9
    <2>2. costs[k] \in Nat
      BY <1>9
    <2>3. QED BY <1>9, <2>1, <2>2
  <1> HIDE DEF P
  <1>10. 0..n \subseteq P
    <2>1. 0 \in Nat
      OBVIOUS
    <2>2. QED BY <1>8, <1>9, <2>1, Climb
  <1>11. QED BY <1>1, <1>10 DEF P

(* What the collector keeps of a service when its reach ends is a          *)
(* beginning of its stack.                                                 *)
LEMMA ServiceEvents ==
  ASSUME NEW h, WellFormed("auth", h), NEW s, s.denied = {}, s.cap \in Nat, s.reach \in Nat,
         NEW n \in DOMAIN Auth!CollectPAM(h, s).services
  PROVE  /\ n \in DOMAIN Services
         /\ Auth!Elements(Auth!CollectPAM(h, s).services[n].events) \subseteq Events(h)
  <1> DEFINE svcs   == [k \in DOMAIN Services |-> Auth!ReadService(h, s, Services[k])]
             costs  == [k \in DOMAIN svcs |-> 1 + Len(svcs[k].events)]
             spent  == Auth!Sums(costs)
             opened == {k \in DOMAIN svcs : spent[k - 1] < s.reach}
             kept   == Auth!CutAfter(svcs, s.reach)
  <1>1. n \in DOMAIN kept /\ Auth!CollectPAM(h, s).services[n] = kept[n]
    BY DEF Auth!CollectPAM
  <1>2. \A k \in DOMAIN Services : svcs[k].events \in Seq(Events(h)) /\ "events" \in DOMAIN svcs[k]
    <2> SUFFICES ASSUME NEW k \in DOMAIN Services
                 PROVE  /\ Auth!ReadService(h, s, Services[k]).events \in Seq(Events(h))
                        /\ "events" \in DOMAIN Auth!ReadService(h, s, Services[k])
      OBVIOUS
    <2> DEFINE path == PathOf[Services[k]]
    <2>1. Auth!ReadFile(h, s, path) = "present" => path \in Auth!StackFiles(h)
      BY AuthOdd, AuthReads, ServicesAssumption DEF Auth!StackFiles
    <2>2. Auth!ReadFile(h, s, path) = "present" => Auth!Stack(h, s, path) \in Seq(Events(h))
      BY <2>1, StackStays
    <2>3. QED BY <2>2 DEF Auth!ReadService
  <1>3. kept = [k \in opened |-> [svcs[k] EXCEPT !.events = Auth!Upto(@, s.reach - spent[k - 1] - 1)]]
    BY DEF Auth!CutAfter
  <1> HIDE DEF svcs
  <1>4. DOMAIN svcs = DOMAIN Services
    BY DEF svcs
  <1>5. n \in DOMAIN Services /\ spent[n - 1] < s.reach
    BY <1>1, <1>3, <1>4
  <1> DEFINE k == s.reach - spent[n - 1] - 1
             q == svcs[n].events
  <1>6. k \in Nat
    <2>1. PICK len \in Nat : DOMAIN Services = 1..len
      BY ServicesAssumption
    <2>2. costs \in [1..len -> Nat]
      BY <1>2, <1>4, <2>1
    <2> HIDE DEF costs
    <2>3. \A j \in 0..len : spent[j] \in Nat
      BY <2>2, SumsAreNat
    <2>4. n - 1 \in 0..len
      BY <1>5, <2>1
    <2>5. spent[n - 1] \in Nat
      BY <2>3, <2>4
    <2> HIDE DEF spent
    <2>6. QED BY <1>5, <2>5
  <1>7. kept[n].events = Auth!Upto(q, k)
    <2> HIDE DEF kept, spent, q
    <2>1. kept[n] = [svcs[n] EXCEPT !.events = Auth!Upto(@, k)]
      BY <1>1, <1>3
    <2>2. QED BY <1>2, <1>5, <2>1 DEF q
  <1>8. q \in Seq(Events(h))
    BY <1>2, <1>5
  <1> HIDE DEF q, k, kept
  <1>9. Auth!Elements(Auth!Upto(q, k)) \subseteq Events(h)
    <2> DEFINE m == IF k < Len(q) THEN k ELSE Len(q)
    <2>1. Auth!Upto(q, k) = SubSeq(q, 1, m)
      BY DEF Auth!Upto
    <2>2. m \in Nat /\ m <= Len(q)
      BY <1>6, <1>8
    <2> HIDE DEF m
    <2>3. DOMAIN SubSeq(q, 1, m) = 1..m /\ \A j \in 1..m : SubSeq(q, 1, m)[j] \in Events(h)
      BY <1>8, <2>2
    <2>4. QED BY <2>1, <2>3 DEF Auth!Elements
  <1>10. QED BY <1>1, <1>5, <1>7, <1>9

(* Nothing refused, no AUTH check asks for privileges: neither the stack   *)
(* of a service nor the directory is reported as denied.                   *)
LEMMA AuthBlames ==
  ASSUME NEW h, WellFormed("auth", h), NEW s, s.denied = {}, s.cap \in Nat, s.reach \in Nat
  PROVE  LET v == Auth!AuthVerdicts(Auth!CollectAuth(h, s))
         IN  \A n \in DOMAIN v : Blameless(v[n])
  <1> USE DEF Blameless, Cron!ReasonPermission, Auth!Outcome, Auth!CannotTell, Auth!Passes,
          Auth!PassesFor,
          Auth!Fails, Auth!NotApplicable, Auth!NotApplicableFor, Auth!ReasonPermission,
          Auth!ReasonAmbiguousState, Auth!ReasonParse, Auth!ReasonTruncated, Auth!ReasonFactMissing
  <1> DEFINE p == Auth!CollectPAM(h, s)
             l == Auth!ReadLoginDefs(h, s)
  <1>1. Auth!CollectAuth(h, s) = [pam |-> p, loginDefs |-> l]
    BY DEF Auth!CollectAuth
  <1>2. p.dirState # "denied"
    BY DEF Auth!CollectPAM, WellFormed
  <1>3. l.state \in {"present", "absent", "error"}
    BY AuthOdd, AuthReads DEF Reads, Auth!ReadLoginDefs
  <1>4. \A n \in DOMAIN p.services : /\ n \in DOMAIN Services
                                     /\ Auth!Elements(p.services[n].events) \subseteq Events(h)
    BY ServiceEvents
  <1>5. \A e \in Events(h) : e.kind = "unresolved" => e.reason = "other"
    <2>1. \A e \in Events(h) : e = Auth!Unresolved("other") \/ \E x, f : e = Rule(x, f)
      BY DEF Events
    <2>2. \A x, f : Rule(x, f).kind = "rule"
      BY DEF Rule
    <2>3. Auth!Unresolved("other").reason = "other"
      BY DEF Auth!Unresolved
    <2>4. QED BY <2>1, <2>2, <2>3
  <1> HIDE DEF p, l
  <1>6. \A x \in Auth!Read(p) : Auth!Elements(Auth!EventsOf(p, x)) \subseteq Events(h)
    <2> SUFFICES ASSUME NEW x \in Auth!Read(p)
                 PROVE  Auth!Elements(Auth!EventsOf(p, x)) \subseteq Events(h)
      OBVIOUS
    <2>1. PICK n \in DOMAIN p.services : Services[n] = x
      BY DEF Auth!Read
    <2>2. \A k \in DOMAIN Services : Services[k] = x => k = n
      BY <1>4, <2>1, ServicesAssumption
    <2>3. (CHOOSE k \in DOMAIN Services : Services[k] = x) = n
      BY <1>4, <2>1, <2>2
    <2>4. Auth!EventsOf(p, x) = p.services[n].events
      BY <2>3 DEF Auth!EventsOf
    <2>5. QED BY <1>4, <2>4
  <1>7. \A stacks, oc : stacks \subseteq Auth!Read(p) /\ Blameless(oc) =>
                         Blameless(Auth!UnknownIfIncomplete(p, stacks, oc))
    <2> SUFFICES ASSUME NEW stacks, NEW oc, stacks \subseteq Auth!Read(p), Blameless(oc)
                 PROVE  Blameless(Auth!UnknownIfIncomplete(p, stacks, oc))
      OBVIOUS
    <2>1. \A e \in Auth!UnresolvedIncludes(p, stacks) : e.reason = "other"
      BY <1>5, <1>6 DEF Auth!UnresolvedIncludes
    <2>2. QED BY <2>1 DEF Auth!UnknownIfIncomplete
  <1>8. \A type : Auth!Primary(p, type) \subseteq Auth!Read(p)
    BY DEF Auth!Primary
  <1>9. Blameless(Auth!NoStack(p))
    BY <1>2 DEF Auth!NoStack
  <1>10. Blameless(Auth!AUTH_0001(p))
    BY <1>7, <1>8, <1>9 DEF Auth!AUTH_0001
  <1>11. Blameless(Auth!AUTH_0002(p))
    BY <1>7, <1>8, <1>9 DEF Auth!AUTH_0002
  <1>12. Blameless(Auth!AUTH_0003(p))
    BY <1>7, <1>8, <1>9 DEF Auth!AUTH_0003
  <1>13. Blameless(Auth!AUTH_0004(p))
    BY <1>7, <1>9 DEF Auth!AUTH_0004
  <1>14. Blameless(Auth!FromLoginDefs(l))
    BY DEF Auth!FromLoginDefs
  <1>15. Blameless(Auth!AUTH_0005(p, l))
    BY <1>7, <1>8, <1>9, <1>14 DEF Auth!AUTH_0005
  <1>16. Blameless(Auth!AUTH_0006(p))
    BY <1>7, <1>8, <1>9 DEF Auth!AUTH_0006
  <1>17. Blameless(Auth!USERS_0012(l))
    BY <1>3 DEF Auth!USERS_0012
  <1>18. QED BY <1>1, <1>10, <1>11, <1>12, <1>13, <1>15, <1>16, <1>17 DEF Auth!AuthVerdicts

------------------------------------------------------------------------------
(* All families.                                                           *)

(* All families: nothing refused, only the checks of BlameUnsure can ask   *)
(* for privileges.                                                         *)
LEMMA VerdictsBlame ==
  ASSUME NEW f \in Families, NEW h, WellFormed(f, h), NEW s, s.cap \in Nat, s.reach \in Nat,
         s.denied = {}
  PROVE  LET v == VerdictsOf(f, h, s)
         IN  \A n \in DOMAIN v \ BlameUnsure : Blameless(v[n])
  <1>0. f \notin {"cron", "memory"} => OddOf(h)
    BY DEF WellFormed, OddKinds, OddOf
  <1>1. CASE f = "cron"
    BY <1>1, CronSees, CronBlames DEF VerdictsOf
  <1>2. CASE f = "auth"
    BY <1>2, AuthBlames DEF VerdictsOf
  <1>3. CASE f = "memory"
    <2>1. \A p \in DOMAIN h.odd : h.odd[p] \in DOMAIN Memory!PlainState
      BY <1>3 DEF WellFormed, OddKinds
    <2>2. QED BY <1>3, <2>1, MemoryBlames DEF VerdictsOf
  <1>4. CASE f = "users"
    BY <1>4, <1>0, UsersBlames DEF VerdictsOf
  <1>5. CASE f = "logging"
    BY <1>5, <1>0, LoggingBlames DEF VerdictsOf
  <1>6. CASE f = "network"
    BY <1>6, <1>0, NetworkBlames DEF VerdictsOf
  <1>7. CASE f = "filesys"
    BY <1>7, <1>0, FilesysBlames DEF VerdictsOf
  <1>8. CASE f = "sshd"
    BY <1>8, <1>0, SshdBlames DEF VerdictsOf
  <1>9. CASE f = "kernel"
    BY <1>9, <1>0, KernelBlames DEF VerdictsOf
  <1>10. CASE f = "services"
    BY <1>10, <1>0, ServicesBlames DEF VerdictsOf
  <1>11. CASE f = "containers"
    BY <1>11, <1>0, ContainersBlames DEF VerdictsOf
  <1>12. QED
    BY <1>1, <1>2, <1>3, <1>4, <1>5, <1>6, <1>7, <1>8, <1>9, <1>10, <1>11 DEF Families

------------------------------------------------------------------------------
(* Scripts: what is written has been copied.                               *)

(* The range of a sequence is finite.                                      *)
LEMMA RangeFinite ==
  ASSUME NEW n \in Nat, NEW f
  PROVE  IsFiniteSet({f[k] : k \in 1..n})
  <1> DEFINE P == {m \in 0..n : IsFiniteSet({f[k] : k \in 1..m})}
  <1>1. 0 \in P
    <2>1. {f[k] : k \in 1..0} = {}
      OBVIOUS
    <2>2. QED BY <2>1, FS_EmptySet
  <1>2. ASSUME NEW m \in 0..n, m # 0, m - 1 \in P PROVE m \in P
    <2>1. {f[k] : k \in 1..m} = {f[k] : k \in 1..(m - 1)} \cup {f[m]}
      <3>1. 1..m = 1..(m - 1) \cup {m}
        BY <1>2
      <3>2. QED BY <3>1
    <2> DEFINE S == {f[k] : k \in 1..(m - 1)}
    <2>2. IsFiniteSet(S)
      BY <1>2
    <2> HIDE DEF S
    <2>3. IsFiniteSet(S \cup {f[m]})
      BY <2>2, FS_AddElement
    <2>4. QED BY <1>2, <2>1, <2>3 DEF S
  <1> HIDE DEF P
  <1>3. 0..n \subseteq P
    <2>1. 0 \in Nat
      OBVIOUS
    <2>2. QED BY <1>1, <1>2, <2>1, Climb
  <1>4. n \in P
    BY <1>3
  <1>5. QED BY <1>4 DEF P

(* A finite set as a sequence.                                             *)
LEMMA SetToSeqOf ==
  ASSUME NEW S, IsFiniteSet(S)
  PROVE  SetToSeq(S) \in [1..Cardinality(S) -> S] /\ Cardinality(S) \in Nat
  <1>1. Cardinality(S) \in Nat /\ ExistsBijection(1..Cardinality(S), S)
    BY FS_CardinalityType
  <1>2. \E f \in [1..Cardinality(S) -> S] : IsInjective(f)
    BY <1>1 DEF ExistsBijection, Bijection, Injection
  <1>3. QED BY <1>1, <1>2 DEF SetToSeq

(* Commands that copy a file, and commands that write one which has to     *)
(* have been copied.                                                       *)
Copying     == {"backup", "backup if present"}
Overwriting == {"sed nullok", "logindefs_set", "json_set"}

(* Each of the latter comes right after a copy of the same file.           *)
Paired(q) == \A i \in DOMAIN q : q[i].op \in Overwriting =>
                                   /\ i # 1
                                   /\ q[i - 1].op \in Copying
                                   /\ q[i - 1].path = q[i].path

(* Such sequences of the commands C.                                       *)
PairedSeqs(C) == {q \in Seq(C) : Paired(q)}

(* Concatenation does not part a copy from its write.                      *)
LEMMA PairedCloses ==
  ASSUME NEW C
  PROVE  /\ << >> \in PairedSeqs(C)
         /\ \A x, y \in PairedSeqs(C) : x \o y \in PairedSeqs(C)
  <1>1. << >> \in PairedSeqs(C)
    BY DEF PairedSeqs, Paired
  <1>2. ASSUME NEW x \in PairedSeqs(C), NEW y \in PairedSeqs(C) PROVE x \o y \in PairedSeqs(C)
    <2> DEFINE z == x \o y
    <2>1. x \in Seq(C) /\ y \in Seq(C) /\ z \in Seq(C) /\ Len(z) = Len(x) + Len(y)
      BY DEF PairedSeqs
    <2>2. \A i \in 1..Len(x) : z[i] = x[i]
      BY <2>1
    <2>3. \A i \in 1..Len(y) : z[Len(x) + i] = y[i]
      BY <2>1
    <2>4. Len(x) \in Nat /\ Len(y) \in Nat
      BY <2>1
    <2>5. DOMAIN x = 1..Len(x) /\ DOMAIN y = 1..Len(y) /\ DOMAIN z = 1..(Len(x) + Len(y))
      BY <2>1
    <2> HIDE DEF z
    <2>6. ASSUME NEW i \in DOMAIN z, z[i].op \in Overwriting
          PROVE  i # 1 /\ z[i - 1].op \in Copying /\ z[i - 1].path = z[i].path
      <3>1. CASE i <= Len(x)
        <4>1. i \in DOMAIN x /\ x[i] = z[i]
          BY <2>2, <2>4, <2>5, <3>1
        <4>2. i # 1 /\ x[i - 1].op \in Copying /\ x[i - 1].path = x[i].path
          BY <2>6, <4>1 DEF PairedSeqs, Paired
        <4>3. i - 1 \in 1..Len(x)
          BY <2>4, <2>5, <4>1, <4>2
        <4>4. z[i - 1] = x[i - 1]
          BY <2>2, <4>3
        <4>5. QED BY <4>1, <4>2, <4>4
      <3>2. CASE ~(i <= Len(x))
        <4> DEFINE j == i - Len(x)
        <4>1. j \in Nat /\ j \in 1..Len(y) /\ i = Len(x) + j
          BY <2>4, <2>5, <3>2
        <4> HIDE DEF j
        <4>2. y[j] = z[i]
          BY <2>3, <4>1
        <4>3. j # 1 /\ y[j - 1].op \in Copying /\ y[j - 1].path = y[j].path
          BY <2>5, <2>6, <4>1, <4>2 DEF PairedSeqs, Paired
        <4>4. j - 1 \in 1..Len(y) /\ Len(x) + (j - 1) = i - 1
          BY <2>4, <4>1, <4>3
        <4>5. z[i - 1] = y[j - 1]
          BY <2>3, <4>4
        <4>6. i # 1
          BY <2>4, <4>1, <4>3
        <4>7. QED BY <4>2, <4>3, <4>5, <4>6
      <3>3. QED BY <3>1, <3>2
    <2>7. QED BY <2>1, <2>6 DEF PairedSeqs, Paired, z
  <1>3. QED BY <1>1, <1>2

(* A command that needs no copy is such a sequence.                        *)
LEMMA PlainPaired ==
  ASSUME NEW C, NEW x \in C, x.op \notin Overwriting
  PROVE  <<x>> \in PairedSeqs(C)
  BY DEF PairedSeqs, Paired

(* The registry has eighteen fixes.                                        *)
LEMMA FixableDomain == DOMAIN Fixable = 1..18
  BY DEF Fixable

(* A script of fixes of which each is paired is paired (Script in the      *)
(* order of the registry, `sysctl --system` at its end).                   *)
LEMMA ScriptPaired ==
  ASSUME NEW C, NEW actions, \A c \in actions : Build(c) \in PairedSeqs(C),
         actions \cap DOMAIN SysctlPairs # {} => Cmd("sysctl --system", "", "") \in C
  PROVE  Script(actions) \in PairedSeqs(C)
  <1> DEFINE T == PairedSeqs(C)
             seqs == [n \in DOMAIN Fixable |-> IF Fixable[n] \in actions THEN Build(Fixable[n]) ELSE << >>]
             last == IF actions \cap DOMAIN SysctlPairs # {}
                     THEN <<Cmd("sysctl --system", "", "")>> ELSE << >>
  <1>1. << >> \in T /\ \A x, y \in T : x \o y \in T
    BY PairedCloses
  <1>2. last \in T
    <2>1. Cmd("sysctl --system", "", "").op \notin Overwriting
      BY DEF Cmd, Overwriting
    <2> HIDE DEF T
    <2>2. QED BY <1>1, <2>1, PlainPaired DEF T
  <1>3. Script(actions) = FlattenSeq(seqs) \o last
    BY DEF Script, ForEach
  <1>4. DOMAIN Fixable = 1..18
    BY FixableDomain
  <1> HIDE DEF T
  <1>5. seqs \in [1..18 -> T]
    BY <1>1, <1>4 DEF T
  <1> HIDE DEF seqs, last
  <1>6. FlattenSeq(seqs) \in T
    <2>1. 18 \in Nat
      OBVIOUS
    <2>2. QED BY <1>1, <1>5, <2>1, FlattenStays
  <1>7. QED BY <1>1, <1>2, <1>3, <1>6 DEF T

(* The paths a fix takes from its evidence are a sequence, and the ones    *)
(* that are to lose nullok are files of the host (PathsFrom).              *)
LEMMA CitedPaths ==
  ASSUME NEW c,
         c = "AUTH_0004" => IsFiniteSet(DOMAIN host.files),
         c \in {"FILESYS_0003", "FILESYS_0004"} => host.order \in Seq(Cron!Elements(host.order)),
         c \notin {"AUTH_0004", "FILESYS_0003", "FILESYS_0004"} => IsFiniteSet(verdicts[c].subject)
  PROVE  \E n \in Nat : /\ DOMAIN PathsFrom(c) = 1..n
                        /\ c = "AUTH_0004" => \A k \in 1..n : PathsFrom(c)[k] \in DOMAIN host.files
  <1>1. CASE c = "AUTH_0004"
    <2> DEFINE S == {p \in DOMAIN host.files :
                       \E l \in Auth!Offenders(Auth!CollectPAM(host, scan)) : l.file = p}
    <2>1. IsFiniteSet(S) /\ S \subseteq DOMAIN host.files
      BY <1>1, FS_Subset
    <2>2. PathsFrom(c) = SetToSeq(S)
      BY <1>1 DEF PathsFrom
    <2> HIDE DEF S
    <2>3. SetToSeq(S) \in [1..Cardinality(S) -> S] /\ Cardinality(S) \in Nat
      BY <2>1, SetToSeqOf
    <2>4. QED BY <2>1, <2>2, <2>3
  <1>2. CASE c \in {"FILESYS_0003", "FILESYS_0004"}
    <2> DEFINE q == host.order
               T == Seq(Cron!Elements(q))
               seqs == [n \in DOMAIN q |-> IF q[n] \in verdicts[c].subject THEN <<q[n]>> ELSE << >>]
               r == FlattenSeq(seqs)
    <2>1. PathsFrom(c) = Cron!Upto(r, MaxEvidenceRows)
      BY <1>2 DEF PathsFrom, ForEach
    <2>2. q \in Seq(Cron!Elements(q))
      BY <1>2
    <2>3. \A n \in DOMAIN q : q[n] \in Cron!Elements(q)
      BY DEF Cron!Elements
    <2> HIDE DEF q
    <2>4. seqs \in [1..Len(q) -> T] /\ Len(q) \in Nat
      BY <2>2, <2>3
    <2>5. << >> \in T /\ \A x, y \in T : x \o y \in T
      OBVIOUS
    <2> HIDE DEF seqs, T
    <2>6. r \in T
      BY <2>4, <2>5, FlattenStays
    <2>7. r \in Seq(Cron!Elements(q))
      BY <2>6 DEF T
    <2> HIDE DEF r
    <2> DEFINE m == IF MaxEvidenceRows < Len(r) THEN MaxEvidenceRows ELSE Len(r)
    <2>8. m \in Nat /\ m <= Len(r)
      BY <2>7, RowsAssumption
    <2>9. PathsFrom(c) = SubSeq(r, 1, m)
      BY <2>1 DEF Cron!Upto
    <2> HIDE DEF m
    <2>10. DOMAIN SubSeq(r, 1, m) = 1..m
      BY <2>7, <2>8
    <2>11. QED BY <1>2, <2>8, <2>9, <2>10
  <1>3. CASE c \notin {"AUTH_0004", "FILESYS_0003", "FILESYS_0004"}
    <2> DEFINE S == verdicts[c].subject
    <2>1. PathsFrom(c) = SetToSeq(S) /\ IsFiniteSet(S)
      BY <1>3 DEF PathsFrom
    <2> HIDE DEF S
    <2>2. SetToSeq(S) \in [1..Cardinality(S) -> S] /\ Cardinality(S) \in Nat
      BY <2>1, SetToSeqOf
    <2>3. QED BY <1>3, <2>1, <2>2
  <1>4. QED BY <1>1, <1>2, <1>3

------------------------------------------------------------------------------
(* The fixes of each family.                                               *)

(* The fixes that rewrite a file and keep a copy, and the others.          *)
Mending == {"AUTH_0004", "AUTH_0005", "CONTAINERS_0001", "USERS_0012"}

Changing == {"CRON_0001", "CRON_0002", "FILESYS_0003", "FILESYS_0004", "KERNEL_0004", "KERNEL_0016",
  "KERNEL_0026", "KERNEL_0030", "NETWORK_0001", "NETWORK_0002", "SERVICES_0006", "SERVICES_0007",
  "SERVICES_0008", "SERVICES_0010"}

(* Every fix is one of them.                                               *)
LEMMA FixableChecks == Cron!Elements(Fixable) \subseteq Mending \cup Changing
  <1>1. \A n \in 1..18 : Fixable[n] \in Mending \cup Changing
    BY DEF Fixable, Mending, Changing
  <1>2. QED BY <1>1, FixableDomain DEF Cron!Elements

(* The fixes for findings of a family.                                     *)
FixesOf(f) == CASE f = "auth"       -> Mending \ {"CONTAINERS_0001"}
                [] f = "containers" -> {"CONTAINERS_0001"}
                [] OTHER            -> Changing

(* A scan of a family reports only its own checks.                         *)
LEMMA FamilyFixes ==
  ASSUME NEW f \in Families, NEW h, NEW s
  PROVE  DOMAIN VerdictsOf(f, h, s) \cap Cron!Elements(Fixable) \subseteq FixesOf(f)
  <1> DEFINE D == DOMAIN VerdictsOf(f, h, s)
  <1>1. CASE f = "auth"
    <2>1. D \cap (Mending \cup Changing) \subseteq FixesOf(f)
      BY <1>1 DEF VerdictsOf, Auth!AuthVerdicts, Mending, Changing, FixesOf
    <2>2. QED BY <2>1, FixableChecks
  <1>2. CASE f = "containers"
    <2>1. D \cap (Mending \cup Changing) \subseteq FixesOf(f)
      BY <1>2 DEF VerdictsOf, Containers!ContainersVerdicts, Mending, Changing, FixesOf
    <2>2. QED BY <2>1, FixableChecks
  <1>3. CASE f \notin {"auth", "containers"}
    <2>1. D \cap Mending = {}
      <3>1. CASE f = "cron"
        BY <3>1 DEF VerdictsOf, Cron!CronVerdicts, Mending
      <3>2. CASE f = "users"
        BY <3>2 DEF VerdictsOf, Users!UsersVerdicts, Mending
      <3>3. CASE f = "logging"
        BY <3>3 DEF VerdictsOf, Logging!LoggingVerdicts, Mending
      <3>4. CASE f = "network"
        BY <3>4 DEF VerdictsOf, Network!NetworkVerdicts, Mending
      <3>5. CASE f = "memory"
        BY <3>5 DEF VerdictsOf, Memory!MemoryVerdicts, Mending
      <3>6. CASE f = "filesys"
        BY <3>6 DEF VerdictsOf, Filesys!FilesysVerdicts, Mending
      <3>7. CASE f = "sshd"
        BY <3>7 DEF VerdictsOf, Sshd!SshdVerdicts, Mending
      <3>8. CASE f = "kernel"
        BY <3>8 DEF VerdictsOf, Kernel!KernelVerdicts, Mending
      <3>9. CASE f = "services"
        BY <3>9 DEF VerdictsOf, Systemd!ServicesVerdicts, Mending
      <3>10. QED
        BY <1>3, <3>1, <3>2, <3>3, <3>4, <3>5, <3>6, <3>7, <3>8, <3>9 DEF Families
    <2>2. QED BY <1>3, <2>1, FixableChecks DEF FixesOf
  <1>4. QED BY <1>1, <1>2, <1>3

(* The fixes that go through all a finding cites.                          *)
Listed == {"CRON_0001", "CRON_0002", "SERVICES_0006", "SERVICES_0007", "SERVICES_0008"}

(* What these findings cite is finite: it is one of the drop-in            *)
(* directories or sandboxing targets.                                      *)
LEMMA SubjectsFinite ==
  ASSUME NEW f \in Families, NEW h, NEW s
  PROVE  LET v == VerdictsOf(f, h, s)
         IN  \A c \in DOMAIN v \cap Listed : IsFiniteSet(v[c].subject)
  <1> DEFINE v == VerdictsOf(f, h, s)
  <1>1. CASE f = "cron"
    <2> DEFINE k == Cron!CollectCron(h, s)
    <2>1. v = Cron!CronVerdicts(k)
      BY <1>1 DEF VerdictsOf
    <2> HIDE DEF k
    <2>2. IsFiniteSet({}) /\ IsFiniteSet({Cron!CrontabPath})
      BY FS_EmptySet, FS_Singleton
    <2>3. IsFiniteSet(Cron!CRON_0001(k).subject)
      <3>1. Cron!CRON_0001(k).subject \in {{}, {Cron!CrontabPath}}
        BY DEF Cron!CRON_0001, Cron!Outcome, Cron!CannotTell, Cron!Passes, Cron!Fails,
           Cron!NotApplicable, Cron!UnknownIfUnreadable
      <3>2. QED BY <2>2, <3>1
    <2>4. IsFiniteSet(Cron!CRON_0002(k).subject)
      <3>0. \A considered, violators :
               Cron!EveryPresent(k, considered, violators).subject \subseteq considered
        BY DEF Cron!EveryPresent, Cron!CronObserved, Cron!Outcome, Cron!CannotTell, Cron!Passes,
           Cron!Fails, Cron!NotApplicable, Cron!UnknownIfUnreadable
      <3>1. Cron!CRON_0002(k).subject \subseteq Cron!DropIns
        BY <3>0 DEF Cron!CRON_0002, Cron!CronSelect, Cron!Outcome, Cron!NotApplicable
      <3>2. PICK n \in Nat : DOMAIN DropInDirs = 1..n
        BY ListsAssumption
      <3>3. IsFiniteSet({DropInDirs[i] : i \in 1..n})
        BY RangeFinite
      <3>4. IsFiniteSet(Cron!DropIns)
        BY <3>2, <3>3 DEF Cron!DropIns
      <3>5. QED BY <3>1, <3>4, FS_Subset
    <2>5. QED BY <2>1, <2>3, <2>4 DEF Cron!CronVerdicts, Listed
  <1>2. CASE f = "services"
    <2> DEFINE k == Systemd!CollectSystemd(h, s)
    <2>1. v = Systemd!ServicesVerdicts(k)
      BY <1>2 DEF VerdictsOf
    <2> DEFINE b == k.sandbox
    <2>0. DOMAIN b.services = DOMAIN SandboxTargets
      BY DEF Systemd!CollectSystemd, Systemd!CollectSandbox
    <2> HIDE DEF k, b
    <2>2. \A exempt, satisfied, why : IsFiniteSet(Systemd!Partition(b, exempt, satisfied, why).subject)
      <3> SUFFICES ASSUME NEW exempt, NEW satisfied, NEW why
                   PROVE  IsFiniteSet(Systemd!Partition(b, exempt, satisfied, why).subject)
        OBVIOUS
      <3> DEFINE N == {SandboxTargets[i] : i \in DOMAIN SandboxTargets}
      <3>1. Systemd!Partition(b, exempt, satisfied, why).subject \subseteq N
        BY <2>0 DEF Systemd!Partition, Systemd!UnitsIn, Systemd!Outcome, Systemd!CannotTell,
           Systemd!Passes,
           Systemd!Fails, Systemd!NotApplicable
      <3>2. PICK n \in Nat : DOMAIN SandboxTargets = 1..n
        BY ListsAssumption
      <3>3. IsFiniteSet({SandboxTargets[i] : i \in 1..n})
        BY RangeFinite
      <3>4. IsFiniteSet(N)
        BY <3>2, <3>3
      <3> HIDE DEF N
      <3>5. QED BY <3>1, <3>4, FS_Subset
    <2>3. /\ IsFiniteSet(Systemd!SERVICES_0006(b).subject)
          /\ IsFiniteSet(Systemd!SERVICES_0007(b).subject)
          /\ IsFiniteSet(Systemd!SERVICES_0008(b).subject)
      BY <2>2 DEF Systemd!SERVICES_0006, Systemd!SERVICES_0007, Systemd!SERVICES_0008
    <2>4. QED BY <2>1, <2>3 DEF Systemd!ServicesVerdicts, Listed, b
  <1>3. CASE f \notin {"cron", "services"}
    <2>1. DOMAIN v \cap Listed = {}
      <3>1. CASE f = "users"
        BY <3>1 DEF VerdictsOf, Users!UsersVerdicts, Listed
      <3>2. CASE f = "logging"
        BY <3>2 DEF VerdictsOf, Logging!LoggingVerdicts, Listed
      <3>3. CASE f = "network"
        BY <3>3 DEF VerdictsOf, Network!NetworkVerdicts, Listed
      <3>4. CASE f = "memory"
        BY <3>4 DEF VerdictsOf, Memory!MemoryVerdicts, Listed
      <3>5. CASE f = "filesys"
        BY <3>5 DEF VerdictsOf, Filesys!FilesysVerdicts, Listed
      <3>6. CASE f = "sshd"
        BY <3>6 DEF VerdictsOf, Sshd!SshdVerdicts, Listed
      <3>7. CASE f = "kernel"
        BY <3>7 DEF VerdictsOf, Kernel!KernelVerdicts, Listed
      <3>8. CASE f = "auth"
        BY <3>8 DEF VerdictsOf, Auth!AuthVerdicts, Listed
      <3>9. CASE f = "containers"
        BY <3>9 DEF VerdictsOf, Containers!ContainersVerdicts, Listed
      <3>10. QED
        BY <1>3, <3>1, <3>2, <3>3, <3>4, <3>5, <3>6, <3>7, <3>8, <3>9 DEF Families
    <2>2. QED BY <2>1
  <1>4. QED BY <1>1, <1>2, <1>3

------------------------------------------------------------------------------
(* Fixes without copies.                                                   *)

(* Commands of which none copies or needs a copy.                          *)
Plainly(q) ==
  /\ q \in Seq(Cron!Elements(q))
  /\ \A x \in Cron!Elements(q) : x.op \notin Copying \cup Overwriting

(* Sequences of such commands are plain.                                   *)
LEMMA PlainOver ==
  ASSUME NEW C, \A x \in C : x.op \notin Copying \cup Overwriting, NEW q \in Seq(C)
  PROVE  Plainly(q)
  <1>1. \A i \in 1..Len(q) : q[i] \in C
    OBVIOUS
  <1>2. Cron!Elements(q) = {q[i] : i \in 1..Len(q)}
    BY DEF Cron!Elements
  <1>3. Len(q) \in Nat /\ q = [i \in 1..Len(q) |-> q[i]]
    OBVIOUS
  <1>4. q \in Seq({q[i] : i \in 1..Len(q)})
    BY <1>3
  <1>5. QED BY <1>1, <1>2, <1>4 DEF Plainly

(* Flattening, listing and joining keep that.                              *)
LEMMA FlattenPlain ==
  ASSUME NEW n \in Nat, NEW seqs, seqs = [k \in 1..n |-> seqs[k]], \A k \in 1..n : Plainly(seqs[k])
  PROVE  Plainly(FlattenSeq(seqs))
  <1> DEFINE C == UNION {Cron!Elements(seqs[k]) : k \in 1..n}
             T == Seq(C)
  <1>1. \A x \in C : x.op \notin Copying \cup Overwriting
    BY DEF Plainly
  <1>2. \A k \in 1..n : seqs[k] \in T
    <2> SUFFICES ASSUME NEW k \in 1..n PROVE seqs[k] \in T
      OBVIOUS
    <2>1. seqs[k] \in Seq(Cron!Elements(seqs[k])) /\ Cron!Elements(seqs[k]) \subseteq C
      BY DEF Plainly
    <2> HIDE DEF C
    <2>2. QED BY <2>1
  <1> HIDE DEF C
  <1>3. << >> \in T /\ \A x, y \in T : x \o y \in T
    OBVIOUS
  <1> HIDE DEF T
  <1>4. seqs \in [1..n -> T]
    BY <1>2
  <1>5. FlattenSeq(seqs) \in T
    BY <1>3, <1>4, FlattenStays
  <1>6. QED BY <1>1, <1>5, PlainOver DEF T

(* A list of plain commands.                                               *)
LEMMA PlainMap ==
  ASSUME NEW m \in Nat, NEW q, q = [k \in 1..m |-> q[k]],
         \A k \in 1..m : q[k].op \notin Copying \cup Overwriting
  PROVE  Plainly(q)
  <1> DEFINE C == {q[k] : k \in 1..m}
  <1>1. \A x \in C : x.op \notin Copying \cup Overwriting
    OBVIOUS
  <1>2. q \in Seq(C)
    OBVIOUS
  <1> HIDE DEF C
  <1>3. QED BY <1>1, <1>2, PlainOver

(* One list after another.                                                 *)
LEMMA PlainJoin ==
  ASSUME NEW x, NEW y, Plainly(x), Plainly(y)
  PROVE  Plainly(x \o y)
  <1> DEFINE C == Cron!Elements(x) \cup Cron!Elements(y)
  <1>1. \A z \in C : z.op \notin Copying \cup Overwriting
    BY DEF Plainly
  <1>2. x \in Seq(C) /\ y \in Seq(C)
    <2>1. x \in Seq(Cron!Elements(x)) /\ y \in Seq(Cron!Elements(y))
      BY DEF Plainly
    <2>2. Cron!Elements(x) \subseteq C /\ Cron!Elements(y) \subseteq C
      OBVIOUS
    <2> HIDE DEF C
    <2>3. QED BY <2>1, <2>2
  <1> HIDE DEF C
  <1>3. x \o y \in Seq(C)
    BY <1>2
  <1>4. QED BY <1>1, <1>3, PlainOver

(* A single command.                                                       *)
LEMMA PlainOne ==
  ASSUME NEW x, x.op \notin Copying \cup Overwriting
  PROVE  Plainly(<<x>>)
  <1>1. <<x>> \in Seq({x})
    OBVIOUS
  <1>2. QED BY <1>1, PlainOver

(* A single command by its name.                                           *)
LEMMA PlainCommand ==
  ASSUME NEW op, op \notin Copying \cup Overwriting, NEW path, NEW arg
  PROVE  Plainly(<<Cmd(op, path, arg)>>)
  <1>1. Cmd(op, path, arg).op = op
    BY DEF Cmd
  <1>2. QED BY <1>1, PlainOne

(* The commands that are plain.                                            *)
LEMMA PlainOps ==
  {"chown root", "chmod owner", "chmod o-w", "chmod a+t", "sysctl -w", "sysctl_set", "dropin",
   "need", "ufw default deny", "ufw enable", "aa-enforce", "sysctl --system"}
    \cap (Copying \cup Overwriting) = {}
  BY DEF Copying, Overwriting

(* One plain command for each sysctl setting.                              *)
LEMMA SysctlPlain ==
  ASSUME NEW pairs, NEW m \in Nat, DOMAIN pairs = 1..m, NEW op,
         op \notin Copying \cup Overwriting, NEW path
  PROVE  Plainly([n \in DOMAIN pairs |-> Cmd(op, path, pairs[n])])
  <1> DEFINE q == [n \in DOMAIN pairs |-> Cmd(op, path, pairs[n])]
  <1>1. \A k \in 1..m : q[k].op \notin Copying \cup Overwriting
    BY DEF Cmd
  <1>2. q = [k \in 1..m |-> q[k]]
    OBVIOUS
  <1> HIDE DEF q
  <1>3. Plainly(q)
    BY <1>1, <1>2, PlainMap
  <1>4. QED BY <1>3 DEF q

(* One plain command for each path.                                        *)
LEMMA CommandFor ==
  ASSUME NEW paths, NEW n \in Nat, DOMAIN paths = 1..n,
         NEW op, op \notin Copying \cup Overwriting
  PROVE  Plainly(FlattenSeq([k \in DOMAIN paths |-> <<Cmd(op, paths[k], "")>>]))
  <1> DEFINE seqs == [k \in DOMAIN paths |-> <<Cmd(op, paths[k], "")>>]
  <1>1. \A k \in 1..n : seqs[k] = <<Cmd(op, paths[k], "")>>
    OBVIOUS
  <1>2. seqs = [k \in 1..n |-> seqs[k]]
    OBVIOUS
  <1> HIDE DEF seqs
  <1>3. \A k \in 1..n : Plainly(seqs[k])
    BY <1>1, PlainCommand
  <1>4. Plainly(FlattenSeq(seqs))
    BY <1>2, <1>3, FlattenPlain
  <1>5. QED BY <1>4 DEF seqs

(* Tuples as concatenations.                                               *)
LEMMA JoinOnes ==
  ASSUME NEW x, NEW y, NEW z
  PROVE  <<x>> \o <<y>> = <<x, y>> /\ (<<x>> \o <<y>>) \o <<z>> = <<x, y, z>>
  <1>1. <<x>> \in Seq({x, y, z}) /\ <<y>> \in Seq({x, y, z}) /\ <<z>> \in Seq({x, y, z})
    OBVIOUS
  <1>2. <<x, y>> \in Seq({x, y, z}) /\ <<x, y, z>> \in Seq({x, y, z})
    OBVIOUS
  <1>3. <<x>> \o <<y>> = <<x, y>>
    <2> DEFINE q == <<x>> \o <<y>>
    <2>1. q \in Seq({x, y, z}) /\ Len(q) = 2
      BY <1>1
    <2>2. q[1] = x /\ q[2] = y
      BY <1>1
    <2> HIDE DEF q
    <2>3. q = <<x, y>>
      BY <2>1, <2>2
    <2>4. QED BY <2>3 DEF q
  <1>4. <<x, y>> \o <<z>> = <<x, y, z>>
    <2> DEFINE q == <<x, y>> \o <<z>>
    <2>1. q \in Seq({x, y, z}) /\ Len(q) = 3
      BY <1>1, <1>2
    <2>2. q[1] = x /\ q[2] = y /\ q[3] = z
      BY <1>1, <1>2
    <2> HIDE DEF q
    <2>3. q = <<x, y, z>>
      BY <2>1, <2>2
    <2>4. QED BY <2>3 DEF q
  <1>5. QED BY <1>3, <1>4

(* Owner and mode of each path (cronFix).                                  *)
LEMMA CommandsFor ==
  ASSUME NEW paths, NEW n \in Nat, DOMAIN paths = 1..n
  PROVE  Plainly(FlattenSeq([k \in DOMAIN paths |->
                   <<Cmd("chown root", paths[k], ""), Cmd("chmod owner", paths[k], "")>>]))
  <1> DEFINE seqs == [k \in DOMAIN paths |->
                        <<Cmd("chown root", paths[k], ""), Cmd("chmod owner", paths[k], "")>>]
  <1>1. \A k \in 1..n : seqs[k] = <<Cmd("chown root", paths[k], "")>> \o <<Cmd("chmod owner", paths[k], "")>>
    BY JoinOnes
  <1>2. seqs = [k \in 1..n |-> seqs[k]]
    OBVIOUS
  <1> HIDE DEF seqs
  <1>3. \A k \in 1..n : /\ Plainly(<<Cmd("chown root", paths[k], "")>>)
                        /\ Plainly(<<Cmd("chmod owner", paths[k], "")>>)
    BY PlainOps, PlainCommand
  <1>4. \A k \in 1..n : Plainly(seqs[k])
    BY <1>1, <1>3, PlainJoin
  <1>5. Plainly(FlattenSeq(seqs))
    BY <1>2, <1>4, FlattenPlain
  <1>6. QED BY <1>5 DEF seqs

(* A drop-in for each unit (sandboxFix).                                   *)
LEMMA DropInsFor ==
  ASSUME NEW paths, NEW n \in Nat, DOMAIN paths = 1..n, NEW c
  PROVE  Plainly(FlattenSeq([k \in DOMAIN paths |->
                   <<Cmd("dropin", DropInOf(paths[k], c), [unit |-> paths[k], check |-> c])>>]))
  <1> DEFINE seqs == [k \in DOMAIN paths |->
                        <<Cmd("dropin", DropInOf(paths[k], c), [unit |-> paths[k], check |-> c])>>]
  <1>1. \A k \in 1..n : seqs[k] = <<Cmd("dropin", DropInOf(paths[k], c), [unit |-> paths[k], check |-> c])>>
    OBVIOUS
  <1>2. seqs = [k \in 1..n |-> seqs[k]]
    OBVIOUS
  <1> HIDE DEF seqs
  <1>3. \A k \in 1..n : Plainly(seqs[k])
    BY <1>1, PlainOps, PlainCommand
  <1>4. Plainly(FlattenSeq(seqs))
    BY <1>2, <1>3, FlattenPlain
  <1>5. QED BY <1>4 DEF seqs

(* What Build dispatches to.                                               *)
LEMMA Builds ==
  /\ Build("AUTH_0004") = PamNullokFix("AUTH_0004")
  /\ Build("AUTH_0005") = LoginDefsFix("ENCRYPT_METHOD", "sha512")
  /\ Build("USERS_0012") = LoginDefsFix("PASS_MIN_DAYS", "1")
  /\ Build("CONTAINERS_0001") = DockerJSONFix
  /\ \A c \in {"CRON_0001", "CRON_0002"} : Build(c) = CronFix(c)
  /\ Build("FILESYS_0003") = ModeFix("FILESYS_0003", "chmod o-w")
  /\ Build("FILESYS_0004") = ModeFix("FILESYS_0004", "chmod a+t")
  /\ \A c \in {"KERNEL_0004", "KERNEL_0016", "KERNEL_0026", "KERNEL_0030"} : Build(c) = SysctlFix(c)
  /\ \A c \in {"NETWORK_0001", "NETWORK_0002"} : Build(c) = UfwFix(c)
  /\ \A c \in {"SERVICES_0006", "SERVICES_0007", "SERVICES_0008"} : Build(c) = SandboxFix(c)
  /\ Build("SERVICES_0010") = AppArmorFix
  <1>1. DOMAIN SysctlPairs = {"KERNEL_0004", "KERNEL_0016", "KERNEL_0026", "KERNEL_0030"}
    BY DEF SysctlPairs
  <1>2. DOMAIN Sandboxing = {"SERVICES_0006", "SERVICES_0007", "SERVICES_0008"}
    BY DEF Sandboxing
  <1>3. QED BY <1>1, <1>2 DEF Build

(* The fixes that keep no copy neither make one nor use a command that     *)
(* needs one.                                                              *)
LEMMA PlainBuild ==
  ASSUME NEW c \in Changing,
         c \in {"FILESYS_0003", "FILESYS_0004"} => host.order \in Seq(Cron!Elements(host.order)),
         c \in Listed => IsFiniteSet(verdicts[c].subject)
  PROVE  Plainly(Build(c))
  <1>0. c \in Listed \cup {"FILESYS_0003", "FILESYS_0004"} => \E n \in Nat : DOMAIN PathsFrom(c) = 1..n
    BY CitedPaths DEF Listed
  <1>1. CASE c \in {"CRON_0001", "CRON_0002"}
    <2>1. PICK n \in Nat : DOMAIN PathsFrom(c) = 1..n
      BY <1>0, <1>1 DEF Listed
    <2>2. Plainly(CronFix(c))
      BY <2>1, CommandsFor DEF CronFix, ForEach
    <2>3. QED BY <1>1, <2>2, Builds
  <1>2. CASE c \in {"FILESYS_0003", "FILESYS_0004"}
    <2>1. PICK n \in Nat : DOMAIN PathsFrom(c) = 1..n
      BY <1>0, <1>2
    <2>2. Plainly(ModeFix(c, "chmod o-w")) /\ Plainly(ModeFix(c, "chmod a+t"))
      BY <2>1, PlainOps, CommandFor DEF ModeFix, ForEach
    <2>3. QED BY <1>2, <2>2, Builds
  <1>3. CASE c \in {"SERVICES_0006", "SERVICES_0007", "SERVICES_0008"}
    <2>1. PICK n \in Nat : DOMAIN PathsFrom(c) = 1..n
      BY <1>0, <1>3 DEF Listed
    <2>2. Plainly(SandboxFix(c))
      BY <2>1, DropInsFor DEF SandboxFix, ForEach
    <2>3. QED BY <1>3, <2>2, Builds
  <1>4. CASE c \in {"KERNEL_0004", "KERNEL_0016", "KERNEL_0026", "KERNEL_0030"}
    <2>1. \E m \in Nat : DOMAIN SysctlPairs[c] = 1..m
      <3>1. DOMAIN SysctlPairs[c] = 1..1 \/ DOMAIN SysctlPairs[c] = 1..2
        <4>1. DOMAIN SysctlPairs["KERNEL_0004"] = 1..1
          BY DEF SysctlPairs
        <4>2. DOMAIN SysctlPairs["KERNEL_0016"] = 1..1
          BY DEF SysctlPairs
        <4>3. DOMAIN SysctlPairs["KERNEL_0026"] = 1..2
          BY DEF SysctlPairs
        <4>4. DOMAIN SysctlPairs["KERNEL_0030"] = 1..1
          BY DEF SysctlPairs
        <4>5. QED BY <1>4, <4>1, <4>2, <4>3, <4>4
      <3>2. QED BY <3>1
    <2>2. Plainly(SysctlFix(c))
      BY <2>1, PlainOps, SysctlPlain, PlainJoin DEF SysctlFix
    <2>3. QED BY <1>4, <2>2, Builds
  <1>5. CASE c \in {"NETWORK_0001", "NETWORK_0002"}
    <2> DEFINE a == <<Cmd("need", "", "ufw")>>
               b == <<Cmd("ufw default deny", Network!UFWDefaultPath, "")>>
               d == <<Cmd("ufw enable", UFWConfPath, "")>>
    <2>1. Plainly(a) /\ Plainly(b) /\ Plainly(d)
      BY PlainOps, PlainCommand
    <2>2. UfwFix(c) = << >> \/ UfwFix(c) = (a \o b) \o d
      BY JoinOnes DEF UfwFix
    <2>3. Plainly(<< >>)
      <3>1. << >> \in Seq({}) /\ \A x \in {} : x.op \notin Copying \cup Overwriting
        OBVIOUS
      <3>2. QED BY <3>1, PlainOver
    <2> HIDE DEF a, b, d
    <2>4. Plainly(UfwFix(c))
      BY <2>1, <2>2, <2>3, PlainJoin
    <2>5. QED BY <1>5, <2>4, Builds
  <1>6. CASE c = "SERVICES_0010"
    <2>1. Plainly(AppArmorFix)
      BY PlainOps, PlainCommand DEF AppArmorFix
    <2>2. QED BY <1>6, <2>1, Builds
  <1>7. QED BY <1>1, <1>2, <1>3, <1>4, <1>5, <1>6 DEF Changing

------------------------------------------------------------------------------
(* Fixes with copies.                                                      *)

(* What the commands of a script for a family can be: in a script for      *)
(* auth, the files to lose nullok are there and only login.defs is set     *)
(* line by line.                                                           *)
Fits(f, h, x) ==
  CASE f = "auth" ->
         /\ x.op \in {"backup", "sed nullok", "logindefs_set"}
         /\ x.op = "sed nullok" => x.path \in DOMAIN h.files
         /\ x.op = "logindefs_set" => x.path = Auth!LoginDefsPath
    [] f = "containers" -> x.op \in {"need", "backup if present", "json_set"}
    [] OTHER -> x.op \notin Copying \cup Overwriting

(* A copy and a write of the same file.                                    *)
LEMMA BackedUp ==
  ASSUME NEW C, NEW a \in C, NEW b \in C, a.op \in Copying, a.path = b.path
  PROVE  <<a, b>> \in PairedSeqs(C)
  <1>1. a.op \notin Overwriting
    BY DEF Copying, Overwriting
  <1>2. QED BY <1>1 DEF PairedSeqs, Paired

(* The commands of the auth fixes.                                         *)
LoginDefsCommand(key, value) ==
  Cmd("logindefs_set", Auth!LoginDefsPath, [key |-> key, value |-> value])

AuthCommands(h) ==
  {Cmd("backup", p, "") : p \in DOMAIN h.files \cup {Auth!LoginDefsPath}}
    \cup {Cmd("sed nullok", p, "") : p \in DOMAIN h.files}
    \cup {LoginDefsCommand("ENCRYPT_METHOD", "sha512"), LoginDefsCommand("PASS_MIN_DAYS", "1")}

(* The parts of a command.                                                 *)
LEMMA CommandFields ==
  \A op, path, arg : Cmd(op, path, arg).op = op /\ Cmd(op, path, arg).path = path
  BY DEF Cmd

(* These fit.                                                              *)
LEMMA AuthCommandsFit ==
  ASSUME NEW h, NEW x \in AuthCommands(h)
  PROVE  Fits("auth", h, x)
  <1>1. \/ x.op = "backup"
        \/ x.op = "sed nullok" /\ x.path \in DOMAIN h.files
        \/ x.op = "logindefs_set" /\ x.path = Auth!LoginDefsPath
    <2>1. CASE x \in {Cmd("backup", p, "") : p \in DOMAIN h.files \cup {Auth!LoginDefsPath}}
      <3>1. PICK p \in DOMAIN h.files \cup {Auth!LoginDefsPath} : x = Cmd("backup", p, "")
        BY <2>1, Zenon
      <3>2. x.op = "backup" /\ x.path = p
        BY <3>1, CommandFields, Zenon
      <3>3. QED BY <3>2
    <2>2. CASE x \in {Cmd("sed nullok", p, "") : p \in DOMAIN h.files}
      <3>1. PICK p \in DOMAIN h.files : x = Cmd("sed nullok", p, "")
        BY <2>2, Zenon
      <3>2. x.op = "sed nullok" /\ x.path = p
        BY <3>1, CommandFields, Zenon
      <3>3. QED BY <3>2
    <2>3. CASE x \in {LoginDefsCommand("ENCRYPT_METHOD", "sha512"),
                      LoginDefsCommand("PASS_MIN_DAYS", "1")}
      <3>1. \A key, value : /\ LoginDefsCommand(key, value).op = "logindefs_set"
                            /\ LoginDefsCommand(key, value).path = Auth!LoginDefsPath
        BY DEF LoginDefsCommand, Cmd
      <3>2. QED BY <2>3, <3>1
    <2>4. QED BY <2>1, <2>2, <2>3 DEF AuthCommands
  <1>2. QED BY <1>1 DEF Fits

(* pamNullokFix copies each file and edits it.                             *)
LEMMA NullokPaired ==
  ASSUME NEW h, NEW paths, NEW n \in Nat, DOMAIN paths = 1..n,
         \A k \in 1..n : paths[k] \in DOMAIN h.files
  PROVE  FlattenSeq([k \in DOMAIN paths |->
                        <<Cmd("backup", paths[k], ""), Cmd("sed nullok", paths[k], "")>>])
           \in PairedSeqs(AuthCommands(h))
  <1> DEFINE seqs == [k \in DOMAIN paths |->
                        <<Cmd("backup", paths[k], ""), Cmd("sed nullok", paths[k], "")>>]
             T == PairedSeqs(AuthCommands(h))
  <1>1. ASSUME NEW k \in 1..n
        PROVE  <<Cmd("backup", paths[k], ""), Cmd("sed nullok", paths[k], "")>> \in T
    <2>1. /\ Cmd("backup", paths[k], "") \in AuthCommands(h)
          /\ Cmd("sed nullok", paths[k], "") \in AuthCommands(h)
      BY DEF AuthCommands
    <2>2. /\ Cmd("backup", paths[k], "").op \in Copying
          /\ Cmd("backup", paths[k], "").path = Cmd("sed nullok", paths[k], "").path
      BY DEF Cmd, Copying
    <2>3. QED BY <2>1, <2>2, BackedUp
  <1>2. << >> \in T /\ \A x, y \in T : x \o y \in T
    BY PairedCloses
  <1> HIDE DEF T
  <1>3. seqs \in [1..n -> T]
    BY <1>1
  <1> HIDE DEF seqs
  <1>4. FlattenSeq(seqs) \in T
    BY <1>2, <1>3, FlattenStays
  <1>5. QED BY <1>4 DEF seqs, T

(* Each auth fix copies what it writes first.                              *)
LEMMA AuthBuild ==
  ASSUME NEW c \in FixesOf("auth"), IsFiniteSet(DOMAIN host.files)
  PROVE  Build(c) \in PairedSeqs(AuthCommands(host))
  <1>1. CASE c = "AUTH_0004"
    <2>1. PICK n \in Nat : /\ DOMAIN PathsFrom(c) = 1..n
                           /\ \A k \in 1..n : PathsFrom(c)[k] \in DOMAIN host.files
      BY <1>1, CitedPaths
    <2>2. PamNullokFix(c) \in PairedSeqs(AuthCommands(host))
      BY <2>1, NullokPaired DEF PamNullokFix, ForEach
    <2>3. QED BY <1>1, <2>2, Builds
  <1>2. ASSUME NEW key, NEW value, LoginDefsCommand(key, value) \in AuthCommands(host)
        PROVE  LoginDefsFix(key, value) \in PairedSeqs(AuthCommands(host))
    <2> DEFINE a == Cmd("backup", Auth!LoginDefsPath, "")
    <2>1. a \in AuthCommands(host)
      BY DEF AuthCommands
    <2>2. a.op \in Copying /\ a.path = LoginDefsCommand(key, value).path
      BY DEF Cmd, Copying, LoginDefsCommand
    <2>3. LoginDefsFix(key, value) = <<a, LoginDefsCommand(key, value)>>
      BY DEF LoginDefsFix, LoginDefsCommand
    <2> HIDE DEF a
    <2>4. QED BY <1>2, <2>1, <2>2, <2>3, BackedUp
  <1>3. /\ LoginDefsCommand("ENCRYPT_METHOD", "sha512") \in AuthCommands(host)
        /\ LoginDefsCommand("PASS_MIN_DAYS", "1") \in AuthCommands(host)
    BY DEF AuthCommands
  <1>4. c \in {"AUTH_0004", "AUTH_0005", "USERS_0012"}
    BY DEF FixesOf, Mending
  <1>5. QED BY <1>1, <1>2, <1>3, <1>4, Builds

(* The commands of the fix of daemon.json.                                 *)
DockerCommands ==
  {Cmd("need", "", "python3"), Cmd("backup if present", Containers!DaemonConfigPath, ""),
   Cmd("json_set", Containers!DaemonConfigPath, "default")}

(* It copies daemon.json, where there is one, before it writes it.         *)
LEMMA DockerBuild ==
  /\ Build("CONTAINERS_0001") \in PairedSeqs(DockerCommands)
  /\ \A h : \A x \in DockerCommands : Fits("containers", h, x)
  <1> DEFINE a == Cmd("need", "", "python3")
             b == Cmd("backup if present", Containers!DaemonConfigPath, "")
             d == Cmd("json_set", Containers!DaemonConfigPath, "default")
             C == DockerCommands
  <1>1. a \in C /\ b \in C /\ d \in C
    BY DEF DockerCommands
  <1>2. a.op \notin Overwriting /\ b.op \in Copying /\ b.path = d.path
    BY DEF Cmd, Copying, Overwriting
  <1>3. \A h : \A x \in DockerCommands : Fits("containers", h, x)
    <2>1. \A x \in DockerCommands : x.op \in {"need", "backup if present", "json_set"}
      <3>1. a.op = "need" /\ b.op = "backup if present" /\ d.op = "json_set"
        BY DEF Cmd
      <3>2. DockerCommands = {a, b, d}
        BY DEF DockerCommands
      <3> HIDE DEF a, b, d
      <3>3. QED BY <3>1, <3>2
    <2>2. QED BY <2>1 DEF Fits
  <1>4. DockerJSONFix = <<a, b, d>>
    BY DEF DockerJSONFix
  <1> HIDE DEF a, b, d, C
  <1>5. <<a>> \in PairedSeqs(C) /\ <<b, d>> \in PairedSeqs(C)
    BY <1>1, <1>2, PlainPaired, BackedUp
  <1>6. <<a, b, d>> = <<a>> \o <<b, d>>
    <2> DEFINE q == <<a>> \o <<b, d>>
    <2>1. q \in Seq({a, b, d}) /\ Len(q) = 3
      OBVIOUS
    <2>2. q[1] = a /\ q[2] = b /\ q[3] = d
      OBVIOUS
    <2> HIDE DEF q
    <2>3. q = <<a, b, d>>
      BY <2>1, <2>2
    <2>4. QED BY <2>3 DEF q
  <1>7. <<a, b, d>> \in PairedSeqs(C)
    BY <1>5, <1>6, PairedCloses
  <1>8. QED BY <1>3, <1>4, <1>7, Builds DEF C
(* Only a scan of the filesystem cites inodes in the order of a walk.      *)
LEMMA WalkedChecks ==
  ASSUME NEW f \in Families, NEW h, NEW s, f # "filesys"
  PROVE  DOMAIN VerdictsOf(f, h, s) \cap {"FILESYS_0003", "FILESYS_0004"} = {}
  <1>1. CASE f = "cron"
    BY <1>1 DEF VerdictsOf, Cron!CronVerdicts
  <1>2. CASE f = "users"
    BY <1>2 DEF VerdictsOf, Users!UsersVerdicts
  <1>3. CASE f = "logging"
    BY <1>3 DEF VerdictsOf, Logging!LoggingVerdicts
  <1>4. CASE f = "network"
    BY <1>4 DEF VerdictsOf, Network!NetworkVerdicts
  <1>5. CASE f = "memory"
    BY <1>5 DEF VerdictsOf, Memory!MemoryVerdicts
  <1>6. CASE f = "sshd"
    BY <1>6 DEF VerdictsOf, Sshd!SshdVerdicts
  <1>7. CASE f = "kernel"
    BY <1>7 DEF VerdictsOf, Kernel!KernelVerdicts
  <1>8. CASE f = "services"
    BY <1>8 DEF VerdictsOf, Systemd!ServicesVerdicts
  <1>9. CASE f = "auth"
    BY <1>9 DEF VerdictsOf, Auth!AuthVerdicts
  <1>10. CASE f = "containers"
    BY <1>10 DEF VerdictsOf, Containers!ContainersVerdicts
  <1>11. QED BY <1>1, <1>2, <1>3, <1>4, <1>5, <1>6, <1>7, <1>8, <1>9, <1>10 DEF Families

(* What a scan of a family has reported: its own checks, with finite       *)
(* evidence.                                                               *)
Reported(f, v) ==
  /\ DOMAIN v \cap Cron!Elements(Fixable) \subseteq FixesOf(f)
  /\ f # "filesys" => DOMAIN v \cap {"FILESYS_0003", "FILESYS_0004"} = {}
  /\ \A c \in DOMAIN v \cap Listed : IsFiniteSet(v[c].subject)

(* Every scan does.                                                        *)
LEMMA ReportedBy ==
  ASSUME NEW f \in Families, NEW h, NEW s
  PROVE  Reported(f, VerdictsOf(f, h, s))
  BY FamilyFixes, WalkedChecks, SubjectsFinite DEF Reported

(* What every script is: paired, of commands that fit the host.            *)
Written(f, h, q) ==
  /\ q \in Seq(Cron!Elements(q))
  /\ Paired(q)
  /\ \A i \in DOMAIN q : Fits(f, h, q[i])

(* From a set of commands to sequences of them.                            *)
LEMMA WrittenOver ==
  ASSUME NEW f, NEW h, NEW C, \A x \in C : Fits(f, h, x), NEW q \in PairedSeqs(C)
  PROVE  Written(f, h, q)
  <1>1. q \in Seq(C) /\ Paired(q)
    BY DEF PairedSeqs
  <1>2. Len(q) \in Nat /\ q = [i \in 1..Len(q) |-> q[i]] /\ \A i \in 1..Len(q) : q[i] \in C
    BY <1>1
  <1>3. q \in Seq({q[i] : i \in 1..Len(q)})
    BY <1>2
  <1>4. Cron!Elements(q) = {q[i] : i \in 1..Len(q)}
    BY <1>2 DEF Cron!Elements
  <1>5. DOMAIN q = 1..Len(q)
    BY <1>2
  <1>6. QED BY <1>1, <1>2, <1>3, <1>4, <1>5 DEF Written

(* Plain sequences are paired.                                             *)
LEMMA PlainInto ==
  ASSUME NEW q, Plainly(q), NEW C, Cron!Elements(q) \subseteq C
  PROVE  q \in PairedSeqs(C)
  <1>1. q \in Seq(Cron!Elements(q)) /\ \A x \in Cron!Elements(q) : x.op \notin Overwriting
    BY DEF Plainly
  <1>2. q \in Seq(C)
    BY <1>1
  <1>3. \A i \in DOMAIN q : q[i] \in Cron!Elements(q)
    BY DEF Cron!Elements
  <1>4. QED BY <1>1, <1>2, <1>3 DEF PairedSeqs, Paired

(* Generate and Script write such a script for whatever is accepted.       *)
LEMMA ScriptWritten ==
  ASSUME family \in Families, WellFormed(family, host), Reported(family, verdicts), NEW accepted
  PROVE  Written(family, host, Script(Generate(accepted)))
  <1> DEFINE G == Generate(accepted)
  <1>1. G \subseteq DOMAIN verdicts /\ G \subseteq FixesOf(family)
    BY DEF Generate, Failing, Reported
  <1>2. DOMAIN SysctlPairs = {"KERNEL_0004", "KERNEL_0016", "KERNEL_0026", "KERNEL_0030"}
    BY DEF SysctlPairs
  <1> HIDE DEF G
  <1>3. CASE family = "auth"
    <2>1. G \subseteq FixesOf("auth")
      BY <1>1, <1>3
    <2>2. IsFiniteSet(DOMAIN host.files)
      BY <1>3 DEF WellFormed
    <2>3. \A c \in G : Build(c) \in PairedSeqs(AuthCommands(host))
      BY <2>1, <2>2, AuthBuild
    <2>4. G \cap DOMAIN SysctlPairs = {}
      BY <1>2, <2>1 DEF FixesOf, Mending
    <2>5. Script(G) \in PairedSeqs(AuthCommands(host))
      BY <2>3, <2>4, ScriptPaired, Zenon
    <2>6. QED BY <1>3, <2>5, AuthCommandsFit, WrittenOver DEF G
  <1>4. CASE family = "containers"
    <2>1. G \subseteq {"CONTAINERS_0001"}
      BY <1>1, <1>4 DEF FixesOf
    <2>2. \A c \in G : Build(c) \in PairedSeqs(DockerCommands)
      BY <2>1, DockerBuild
    <2>3. G \cap DOMAIN SysctlPairs = {}
      BY <1>2, <2>1
    <2>4. Script(G) \in PairedSeqs(DockerCommands)
      BY <2>2, <2>3, ScriptPaired, Zenon
    <2>5. QED BY <1>4, <2>4, DockerBuild, WrittenOver DEF G
  <1>5. CASE family \notin {"auth", "containers"}
    <2> DEFINE all == (UNION {Cron!Elements(Build(c)) : c \in G}) \cup {Cmd("sysctl --system", "", "")}
               C == {x \in all : x.op \notin Copying \cup Overwriting}
    <2>1. G \subseteq Changing
      BY <1>1, <1>5 DEF FixesOf
    <2>2. \A c \in G : Plainly(Build(c))
      <3> SUFFICES ASSUME NEW c \in G PROVE Plainly(Build(c))
        OBVIOUS
      <3>1. c \in {"FILESYS_0003", "FILESYS_0004"} => host.order \in Seq(Cron!Elements(host.order))
        BY <1>1 DEF Reported, WellFormed
      <3>2. c \in Listed => IsFiniteSet(verdicts[c].subject)
        BY <1>1 DEF Reported
      <3>3. QED BY <2>1, <3>1, <3>2, PlainBuild
    <2>3. \A c \in G : Build(c) \in PairedSeqs(C)
      <3> SUFFICES ASSUME NEW c \in G PROVE Build(c) \in PairedSeqs(C)
        OBVIOUS
      <3>1. Plainly(Build(c))
        BY <2>2
      <3>2. Cron!Elements(Build(c)) \subseteq all
        BY Zenon
      <3> HIDE DEF all
      <3>3. Cron!Elements(Build(c)) \subseteq C
        BY <3>1, <3>2 DEF Plainly
      <3> HIDE DEF C
      <3>4. QED BY <3>1, <3>3, PlainInto
    <2>4. Cmd("sysctl --system", "", "") \in C
      <3>1. Cmd("sysctl --system", "", "").op = "sysctl --system"
        BY CommandFields, Zenon
      <3>2. "sysctl --system" \notin Copying \cup Overwriting
        BY PlainOps
      <3>3. QED BY <3>1, <3>2, Zenon
    <2>5. \A x \in C : Fits(family, host, x)
      <3>1. \A x : x.op \notin Copying \cup Overwriting => Fits(family, host, x)
        BY <1>5 DEF Fits
      <3> HIDE DEF all
      <3>2. QED BY <3>1
    <2> HIDE DEF C
    <2>6. Script(G) \in PairedSeqs(C)
      BY <2>3, <2>4, ScriptPaired, Zenon
    <2>7. QED BY <2>5, <2>6, WrittenOver DEF G
  <1>6. QED BY <1>3, <1>4, <1>5

------------------------------------------------------------------------------
(* What commands leave alone.                                              *)

(* g is h apart from what commands change.                                 *)
Kept(h, g) ==
  /\ DOMAIN g = DOMAIN h
  /\ \A k \in DOMAIN h \ {"files", "inodes", "running", "dirs"} : g[k] = h[k]

(* What writing a file leaves alone.                                       *)
LEMMA WriteKeeps ==
  ASSUME NEW h, NEW p, NEW lines
  PROVE  /\ Kept(h, Write(h, p, lines))
         /\ "files" \in DOMAIN h =>
              /\ DOMAIN Write(h, p, lines).files = DOMAIN h.files \cup {p}
              /\ Write(h, p, lines).files[p] = lines
              /\ \A q \in DOMAIN h.files \ {p} : Write(h, p, lines).files[q] = h.files[q]
  <1> DEFINE files == [q \in DOMAIN h.files \cup {p} |-> IF q = p THEN lines ELSE h.files[q]]
  <1>1. /\ DOMAIN files = DOMAIN h.files \cup {p} /\ files[p] = lines
        /\ \A q \in DOMAIN h.files \ {p} : files[q] = h.files[q]
    OBVIOUS
  <1>2. Write(h, p, lines) = [h EXCEPT !.files = files]
    BY DEF Write
  <1> HIDE DEF files
  <1>3. Kept(h, [h EXCEPT !.files = files])
    BY DEF Kept
  <1>4. "files" \in DOMAIN h => [h EXCEPT !.files = files].files = files
    OBVIOUS
  <1>5. QED BY <1>1, <1>2, <1>3, <1>4

(* A command changes files, inodes, running values and directories only.   *)
LEMMA EffectKeeps ==
  ASSUME NEW cmd, NEW h
  PROVE  Kept(h, Effect(cmd, h))
  <1>0. \A x : /\ Kept(h, [h EXCEPT !.files = x]) /\ Kept(h, [h EXCEPT !.inodes = x])
               /\ Kept(h, [h EXCEPT !.running = x])
    BY DEF Kept
  <1>1. Kept(h, h)
    BY DEF Kept
  <1>2. \A p, lines : Kept(h, Write(h, p, lines))
    BY WriteKeeps
  <1>3. \A p, lines, x : Kept(h, [Write(h, p, lines) EXCEPT !.dirs = x])
    BY <1>2 DEF Kept
  <1>4. CASE cmd.op = "chown root"
    BY <1>0, <1>1, <1>4 DEF Effect, ChangeInode
  <1>5. CASE cmd.op = "chmod owner"
    BY <1>0, <1>1, <1>5 DEF Effect, ChangeInode
  <1>6. CASE cmd.op = "chmod o-w"
    BY <1>0, <1>6 DEF Effect
  <1>7. CASE cmd.op = "chmod a+t"
    BY <1>0, <1>7 DEF Effect
  <1>8. CASE cmd.op = "sed nullok"
    BY <1>2, <1>8 DEF Effect
  <1>9. CASE cmd.op = "logindefs_set"
    BY <1>2, <1>9 DEF Effect
  <1>10. CASE cmd.op = "sysctl -w"
    BY <1>0, <1>10 DEF Effect
  <1>11. CASE cmd.op = "sysctl_set"
    BY <1>3, <1>11 DEF Effect, SysctlSet
  <1>12. CASE cmd.op = "sysctl --system"
    BY <1>0, <1>12 DEF Effect, SysctlSystem
  <1>13. CASE cmd.op = "json_set"
    BY <1>2, <1>13 DEF Effect
  <1>14. CASE cmd.op = "dropin"
    BY <1>3, <1>14 DEF Effect, WriteDropIn
  <1>15. CASE cmd.op = "aa-enforce"
    BY <1>1, <1>2, <1>15 DEF Effect
  <1>16. CASE cmd.op = "ufw default deny"
    BY <1>2, <1>16 DEF Effect
  <1>17. CASE cmd.op = "ufw enable"
    BY <1>2, <1>17 DEF Effect
  <1>18. CASE cmd.op \notin {"chown root", "chmod owner", "chmod o-w", "chmod a+t", "sed nullok",
              "logindefs_set", "sysctl -w", "sysctl_set", "sysctl --system", "json_set", "dropin",
              "aa-enforce", "ufw default deny", "ufw enable"}
    BY <1>1, <1>18 DEF Effect
  <1>19. QED
    BY <1>4, <1>5, <1>6, <1>7, <1>8, <1>9, <1>10, <1>11, <1>12, <1>13, <1>14, <1>15, <1>16, <1>17,
       <1>18

(* A copy changes nothing else, and the commands that need a copy write    *)
(* one file, the one they name.                                            *)
LEMMA EffectWrites ==
  ASSUME NEW cmd, NEW h
  PROVE  /\ cmd.op \in Copying \cup {"need"} => Effect(cmd, h) = h
         /\ cmd.op \in Overwriting => \E lines : Effect(cmd, h) = Write(h, cmd.path, lines)
  <1>1. cmd.op \in Copying \cup {"need"} => Effect(cmd, h) = h
    BY DEF Effect, Copying
  <1>2. CASE cmd.op = "sed nullok"
    BY <1>2 DEF Effect, Copying
  <1>3. CASE cmd.op = "logindefs_set"
    BY <1>3 DEF Effect, Copying
  <1>4. CASE cmd.op = "json_set"
    BY <1>4 DEF Effect, Copying
  <1>5. QED BY <1>1, <1>2, <1>3, <1>4 DEF Overwriting

(* Nothing WellFormed looks at can change, apart from files.               *)
LEMMA KeptWell ==
  ASSUME NEW f \in Families \ {"auth", "containers"}, NEW h, NEW g, Kept(h, g), WellFormed(f, h)
  PROVE  WellFormed(f, g)
  <1>1. "odd" \in DOMAIN h => "odd" \in DOMAIN g /\ g.odd = h.odd
    BY DEF Kept
  <1>2. "order" \in DOMAIN h => "order" \in DOMAIN g /\ g.order = h.order
    BY DEF Kept
  <1>3. QED BY <1>1, <1>2 DEF WellFormed

(* Nor does writing a file break it, if what is written to a file of       *)
(* /etc/pam.d is well-formed.                                              *)
LEMMA WriteWell ==
  ASSUME NEW f \in Families, NEW h, WellFormed(f, h), NEW p, NEW lines,
         f = "auth" /\ p \notin {Auth!LoginDefsPath, Auth!PwQualityPath} =>
            /\ lines \in Seq(Cron!Elements(lines))
            /\ \A l \in Cron!Elements(lines) :
                 /\ "kind" \in DOMAIN l
                 /\ l.kind = "include" => l.type \in Auth!Scopes
                 /\ l.kind \in {"@include", "include"} =>
                      l.target \notin {Auth!LoginDefsPath, Auth!PwQualityPath}
  PROVE  WellFormed(f, Write(h, p, lines))
  <1> DEFINE g == Write(h, p, lines)
  <1>1. Kept(h, g)
    BY WriteKeeps
  <1>2. CASE f \notin {"auth", "containers"}
    BY <1>1, <1>2, KeptWell
  <1>3. CASE f \in {"auth", "containers"}
    <2>1. "files" \in DOMAIN h /\ IsFiniteSet(DOMAIN h.files)
      BY <1>3 DEF WellFormed
    <2>2. /\ DOMAIN g.files = DOMAIN h.files \cup {p} /\ g.files[p] = lines
          /\ \A q \in DOMAIN h.files \ {p} : g.files[q] = h.files[q]
      BY <2>1, WriteKeeps
    <2> HIDE DEF g
    <2>3. "files" \in DOMAIN g /\ IsFiniteSet(DOMAIN g.files)
      BY <1>1, <2>1, <2>2, FS_AddElement DEF Kept
    <2>4. "odd" \in DOMAIN h /\ "odd" \in DOMAIN g /\ g.odd = h.odd
      BY <1>1, <1>3 DEF Kept, WellFormed
    <2>5. CASE f = "containers"
      BY <2>3, <2>4, <2>5 DEF g, WellFormed
    <2>6. CASE f = "auth"
      <3>1. "pamDir" \in DOMAIN h /\ "pamDir" \in DOMAIN g /\ g.pamDir = h.pamDir
        BY <1>1, <2>6 DEF Kept, WellFormed
      <3>2. ASSUME NEW q \in Auth!StackFiles(g)
            PROVE  /\ g.files[q] \in Seq(Cron!Elements(g.files[q]))
                   /\ \A l \in Cron!Elements(g.files[q]) :
                        /\ "kind" \in DOMAIN l
                        /\ l.kind = "include" => l.type \in Auth!Scopes
                        /\ l.kind \in {"@include", "include"} =>
                             l.target \notin {Auth!LoginDefsPath, Auth!PwQualityPath}
        <4>1. q \notin {Auth!LoginDefsPath, Auth!PwQualityPath} /\ q \in DOMAIN g.files
          BY DEF Auth!StackFiles
        <4>2. CASE q = p
          BY <2>2, <2>6, <4>1, <4>2
        <4>3. CASE q # p
          <5>1. q \in Auth!StackFiles(h) /\ g.files[q] = h.files[q]
            BY <2>2, <4>3 DEF Auth!StackFiles
          <5>2. QED BY <2>6, <5>1 DEF WellFormed
        <4>4. QED BY <4>2, <4>3
      <3>3. /\ \A x \in DOMAIN g.odd : g.odd[x] \in OddKinds(f)
            /\ g.pamDir \in {"present", "absent"}
        BY <2>4, <2>6, <3>1 DEF WellFormed
      <3>4. WellFormed(f, g)
        BY <2>3, <2>4, <2>6, <3>1, <3>2, <3>3 DEF WellFormed
      <3>5. QED BY <3>4 DEF g
    <2>7. QED BY <1>3, <2>5, <2>6
  <1>4. QED BY <1>2, <1>3

(* Taking nullok out of a file leaves its includes as they are (the sed of *)
(* pamNullokFix).                                                          *)
LEMMA NullokGone ==
  ASSUME NEW q, q \in Seq(Cron!Elements(q)), \A l \in Cron!Elements(q) : "kind" \in DOMAIN l
  PROVE  LET r == [n \in DOMAIN q |-> WithoutNullok(q[n])]
         IN  /\ r \in Seq(Cron!Elements(r))
             /\ \A l \in Cron!Elements(r) :
                  "kind" \in DOMAIN l /\ (l \in Cron!Elements(q) \/ l.kind = "rule")
  <1> DEFINE r == [n \in DOMAIN q |-> WithoutNullok(q[n])]
  <1>1. DOMAIN q = 1..Len(q) /\ Len(q) \in Nat /\ \A n \in DOMAIN q : q[n] \in Cron!Elements(q)
    BY DEF Cron!Elements
  <1>2. /\ DOMAIN r = 1..Len(q) /\ r = [n \in 1..Len(q) |-> r[n]]
        /\ \A n \in 1..Len(q) : r[n] = WithoutNullok(q[n])
    BY <1>1
  <1>3. \A l : "kind" \in DOMAIN l =>
          /\ "kind" \in DOMAIN WithoutNullok(l)
          /\ WithoutNullok(l) = l \/ WithoutNullok(l).kind = "rule"
    BY DEF WithoutNullok
  <1> HIDE DEF r
  <1>4. r \in Seq({r[n] : n \in 1..Len(q)})
    BY <1>1, <1>2
  <1>5. Cron!Elements(r) = {r[n] : n \in 1..Len(q)}
    BY <1>2 DEF Cron!Elements
  <1>6. QED BY <1>1, <1>2, <1>3, <1>4, <1>5 DEF r

(* A script leaves a host of the family, and so does a write that fails.   *)
LEMMA EffectWell ==
  ASSUME NEW f \in Families, NEW h, WellFormed(f, h), NEW cmd, Fits(f, h, cmd)
  PROVE  /\ WellFormed(f, Effect(cmd, h))
         /\ Overwrites(cmd, h) => WellFormed(f, Write(Effect(cmd, h), cmd.path, << >>))
  <1>1. WellFormed(f, Effect(cmd, h))
    <2>1. CASE f \notin {"auth", "containers"}
      BY <2>1, EffectKeeps, KeptWell
    <2>2. CASE f = "containers"
      <3>1. cmd.op \in Copying \cup {"need"} \cup Overwriting
        BY <2>2 DEF Fits, Copying, Overwriting
      <3>2. QED BY <2>2, <3>1, EffectWrites, WriteWell
    <2>3. CASE f = "auth"
      <3>1. CASE cmd.op = "backup"
        BY <3>1, EffectWrites DEF Copying
      <3>2. CASE cmd.op = "logindefs_set"
        <4>1. cmd.path = Auth!LoginDefsPath
          BY <2>3, <3>2 DEF Fits
        <4>2. PICK lines : Effect(cmd, h) = Write(h, cmd.path, lines)
          BY <3>2, EffectWrites DEF Overwriting
        <4>3. QED BY <4>1, <4>2, WriteWell
      <3>3. CASE cmd.op = "sed nullok"
        <4> DEFINE p == cmd.path
                   q == h.files[p]
                   r == [n \in DOMAIN q |-> WithoutNullok(q[n])]
        <4>1. Effect(cmd, h) = Write(h, p, r)
          BY <3>3 DEF Effect
        <4>2. p \in DOMAIN h.files
          BY <2>3, <3>3 DEF Fits
        <4>3. CASE p \in {Auth!LoginDefsPath, Auth!PwQualityPath}
          <5> HIDE DEF r
          <5>1. QED BY <4>1, <4>3, WriteWell
        <4>4. CASE p \in Auth!StackFiles(h)
          <5>1. /\ q \in Seq(Cron!Elements(q))
                /\ \A l \in Cron!Elements(q) :
                     /\ "kind" \in DOMAIN l
                     /\ l.kind = "include" => l.type \in Auth!Scopes
                     /\ l.kind \in {"@include", "include"} =>
                          l.target \notin {Auth!LoginDefsPath, Auth!PwQualityPath}
            BY <2>3, <4>4 DEF WellFormed
          <5> HIDE DEF q
          <5>2. /\ r \in Seq(Cron!Elements(r))
                /\ \A l \in Cron!Elements(r) :
                     "kind" \in DOMAIN l /\ (l \in Cron!Elements(q) \/ l.kind = "rule")
            BY <5>1, NullokGone
          <5> HIDE DEF r, p
          <5>3. \A l \in Cron!Elements(r) :
                     /\ "kind" \in DOMAIN l
                     /\ l.kind = "include" => l.type \in Auth!Scopes
                     /\ l.kind \in {"@include", "include"} =>
                          l.target \notin {Auth!LoginDefsPath, Auth!PwQualityPath}
            BY <5>1, <5>2
          <5>4. QED BY <4>1, <5>2, <5>3, WriteWell
        <4>5. QED BY <4>2, <4>3, <4>4 DEF Auth!StackFiles
      <3>4. QED BY <2>3, <3>1, <3>2, <3>3 DEF Fits
    <2>4. QED BY <2>1, <2>2, <2>3
  <1>2. ASSUME Overwrites(cmd, h) PROVE WellFormed(f, Write(Effect(cmd, h), cmd.path, << >>))
    <2>1. f = "auth" => cmd.path = Auth!LoginDefsPath
      BY <1>2 DEF Fits, Overwrites
    <2>2. QED BY <1>1, <2>1, WriteWell
  <1>3. QED BY <1>1, <1>2

------------------------------------------------------------------------------
(* The inductive invariant.                                                *)

(* What there is to know of a scan.                                        *)
ScanFields == {"denied", "broken", "garbled", "reach", "cap"}

(* Host, scan and verdicts belong together: the first half of the          *)
(* inductive invariant, and enough for Rescan alone.                       *)
Watching(f, h, s, v) ==
  /\ f \in Families /\ f \in DOMAIN Hosts
  /\ WellFormed(f, h)
  /\ DOMAIN s = ScanFields /\ s.cap \in Nat /\ s.reach \in Nat
  /\ Reported(f, v)
  /\ \A c \in DOMAIN v \ BlameUnsure : v[c].reason = Cron!ReasonPermission => s.denied # {}

(* A scan of a host of the family establishes it.                          *)
LEMMA ScansWatch ==
  ASSUME NEW f \in Families, f \in DOMAIN Hosts, NEW h, WellFormed(f, h),
         NEW s, DOMAIN s = ScanFields, s.cap \in Nat, s.reach \in Nat
  PROVE  Watching(f, h, s, VerdictsOf(f, h, s))
  <1> DEFINE v == VerdictsOf(f, h, s)
  <1>1. s.denied = {} => \A c \in DOMAIN v \ BlameUnsure : Blameless(v[c])
    BY VerdictsBlame
  <1>2. Reported(f, v)
    BY ReportedBy
  <1> HIDE DEF v
  <1>3. Watching(f, h, s, v)
    BY <1>1, <1>2 DEF Watching, Blameless
  <1>4. QED BY <1>3 DEF v

(* The first scan does, whatever was in its way.                           *)
LEMMA InitWatches ==
  ASSUME Init
  PROVE  Watching(family, host, scan, verdicts) /\ OwnFiles(family, host)
  <1>1. /\ family \in Families /\ family \in DOMAIN Hosts
        /\ WellFormed(family, host) /\ OwnFiles(family, host)
    BY HostsAssumption DEF Init
  <1>2. MaxReach[family] \in Nat /\ MaxCap \in Nat
    BY <1>1, BoundsAssumption
  <1>3. \A s \in Poorest(family) : DOMAIN s = ScanFields /\ s.cap \in Nat /\ s.reach \in Nat
    <2> DEFINE F == Full(family)
    <2>1. DOMAIN F = ScanFields /\ F.cap \in Nat /\ F.reach \in Nat
      BY <1>2 DEF Full, ScanFields
    <2> HIDE DEF F
    <2>2. /\ \A D, B : LET s == [F EXCEPT !.denied = D, !.broken = B]
                       IN  DOMAIN s = ScanFields /\ s.cap \in Nat /\ s.reach \in Nat
          /\ \A G : LET s == [F EXCEPT !.garbled = G]
                    IN  DOMAIN s = ScanFields /\ s.cap \in Nat /\ s.reach \in Nat
          /\ LET s == [F EXCEPT !.reach = 0]
             IN  DOMAIN s = ScanFields /\ s.cap \in Nat /\ s.reach \in Nat
          /\ LET s == [F EXCEPT !.cap = 0]
             IN  DOMAIN s = ScanFields /\ s.cap \in Nat /\ s.reach \in Nat
      BY <2>1 DEF ScanFields
    <2> SUFFICES ASSUME NEW s \in Poorest(family)
                 PROVE  DOMAIN s = ScanFields /\ s.cap \in Nat /\ s.reach \in Nat
      OBVIOUS
    <2> DEFINE K == kSubset(MaxRefused, Items[family])
               U == UNION {{[F EXCEPT !.denied = D, !.broken = S \ D] : D \in SUBSET S} : S \in K}
    <2>3. Poorest(family) = U \cup {[F EXCEPT !.garbled = Garbled[family]], [F EXCEPT !.reach = 0],
                                    [F EXCEPT !.cap = 0]}
      BY DEF Poorest, F
    <2> HIDE DEF K
    <2>4. CASE s \in U
      <3>1. PICK S \in K : s \in {[F EXCEPT !.denied = D, !.broken = S \ D] : D \in SUBSET S}
        BY <2>4
      <3>2. PICK D \in SUBSET S : s = [F EXCEPT !.denied = D, !.broken = S \ D]
        BY <3>1
      <3>3. QED BY <2>2, <3>2
    <2> HIDE DEF U
    <2>5. QED BY <2>2, <2>3, <2>4
  <1>4. DOMAIN scan = ScanFields /\ scan.cap \in Nat /\ scan.reach \in Nat
    BY <1>3 DEF Init
  <1>5. verdicts = VerdictsOf(family, host, scan)
    BY DEF Init
  <1>6. QED BY <1>1, <1>4, <1>5, ScansWatch

(* Every better scan does again.                                           *)
LEMMA NextWatches ==
  ASSUME Watching(family, host, scan, verdicts), Next
  PROVE  Watching(family, host, scan, verdicts)'
  <1>1. family' = family /\ host' = host /\ verdicts' = VerdictsOf(family, host, scan')
    BY DEF Next, ScanAgain
  <1>2. DOMAIN scan = ScanFields /\ scan.cap \in Nat /\ scan.reach \in Nat
    BY DEF Watching
  <1>3. DOMAIN scan' = ScanFields /\ scan'.cap \in Nat /\ scan'.reach \in Nat
    <2>1. CASE GrantAccess
      BY <1>2, <2>1 DEF GrantAccess, ScanFields
    <2>2. CASE Repair
      BY <1>2, <2>2 DEF Repair, ScanFields
    <2>3. CASE Correct
      BY <1>2, <2>3 DEF Correct, ScanFields
    <2>4. CASE ExtendDeadline
      BY <1>2, <2>4 DEF ExtendDeadline, ScanFields
    <2>5. CASE RaiseCap
      BY <1>2, <2>5 DEF RaiseCap, ScanFields
    <2>6. QED BY <2>1, <2>2, <2>3, <2>4, <2>5 DEF Next
  <1>4. family \in Families /\ family \in DOMAIN Hosts /\ WellFormed(family, host)
    BY DEF Watching
  <1>5. Watching(family, host, scan', VerdictsOf(family, host, scan'))
    BY <1>3, <1>4, ScansWatch
  <1>6. QED BY <1>1, <1>5

(* What a backup command makes of the backups (backup in the script): it   *)
(* adds at most one, of what the file holds now.                           *)
LEMMA BackingUp ==
  ASSUME NEW cmd, NEW h
  PROVE  LET b == BackUp(cmd, h)
         IN  /\ DOMAIN backups \subseteq DOMAIN b
             /\ \A p \in DOMAIN backups : b[p] = backups[p]
             /\ \A p \in DOMAIN b \ DOMAIN backups : /\ p = cmd.path /\ p \in DOMAIN h.files
                                                     /\ b[p] = h.files[p]
             /\ cmd.op \notin Copying => b = backups
             /\ cmd.op \in Copying /\ cmd.path \in DOMAIN h.files => cmd.path \in DOMAIN b
  BY DEF BackUp, Copying

(* Where the originals are: a file of the host that has no backup is as it *)
(* was, behind a copy in the script there is a backup, and nothing but the *)
(* two families whose fixes keep copies has any.                           *)
Saved ==
  /\ OwnFiles(family, original)
  /\ family \in {"auth", "containers"} =>
       /\ \A p \in FilesOf(original) :
            /\ p \in DOMAIN host.files
            /\ p \notin DOMAIN backups => host.files[p] = original.files[p]
       /\ at > 1 /\ script[at - 1].op \in Copying /\ script[at - 1].path \in FilesOf(original)
            => script[at - 1].path \in DOMAIN backups
  /\ family \notin {"auth", "containers"} => DOMAIN backups = {}
  /\ OriginalsKept

(* The inductive invariant.                                                *)
Delivery ==
  /\ Watching(family, host, scan, verdicts)
  /\ Written(family, host, script)
  /\ at \in Nat
  /\ script = << >> => at = 0
  /\ Saved

(* It holds before any script is made.                                     *)
LEMMA DeliveryInit == RInit => Delivery
  <1> SUFFICES ASSUME RInit PROVE Delivery
    OBVIOUS
  <1>1. Watching(family, host, scan, verdicts) /\ OwnFiles(family, host)
    BY InitWatches DEF RInit
  <1>2. script = << >> /\ at = 0 /\ original = host /\ torn = {}
    BY DEF RInit
  <1>3. PICK older \in {{}, Keepable} : backups = [p \in older |-> << >>] /\ stunted = older
    BY DEF RInit
  <1>4. /\ DOMAIN backups = stunted
        /\ family \notin {"auth", "containers"} => DOMAIN backups = {}
    BY <1>3 DEF Keepable
  <1>5. Written(family, host, << >>)
    BY DEF Written, Paired, Cron!Elements
  <1>6. OriginalsKept
    BY <1>2, <1>4 DEF OriginalsKept
  <1>7. family \in {"auth", "containers"} => FilesOf(original) = DOMAIN host.files
    BY <1>1, <1>2 DEF Watching, WellFormed, FilesOf
  <1>8. Saved
    BY <1>1, <1>2, <1>4, <1>6, <1>7 DEF Saved
  <1>9. QED BY <1>1, <1>2, <1>5, <1>8 DEF Delivery

------------------------------------------------------------------------------
(* Its preservation.                                                       *)

(* What depends on the host's shape only.                                  *)
LEMMA StillWatching ==
  ASSUME NEW f, NEW h, NEW g, NEW s, NEW v, Watching(f, h, s, v), WellFormed(f, g)
  PROVE  Watching(f, g, s, v)
  BY DEF Watching

(* Files are never removed, so commands keep fitting.                      *)
LEMMA StillWritten ==
  ASSUME NEW f, NEW h, NEW g, NEW q, Written(f, h, q),
         f = "auth" => DOMAIN h.files \subseteq DOMAIN g.files
  PROVE  Written(f, g, q)
  <1>1. \A x : Fits(f, h, x) => Fits(f, g, x)
    BY DEF Fits
  <1>2. QED BY <1>1 DEF Written

(* What the command the shell is at can rely on.                           *)
LEMMA CommandHere ==
  ASSUME Delivery, InScript
  PROVE  /\ family \in Families /\ WellFormed(family, host)
         /\ Fits(family, host, script[at])
         /\ at \in Nat /\ at > 0
         /\ script[at].op \in Overwriting => /\ at > 1 /\ script[at - 1].op \in Copying
                                             /\ script[at - 1].path = script[at].path
  <1>1. family \in Families /\ WellFormed(family, host) /\ at \in DOMAIN script
    BY DEF Delivery, Watching, InScript
  <1>2. Fits(family, host, script[at])
    BY <1>1 DEF Delivery, Written
  <1>3. at \in Nat /\ at > 0
    BY <1>1 DEF Delivery, Written
  <1>4. script[at].op \in Overwriting => /\ at # 1 /\ script[at - 1].op \in Copying
                                         /\ script[at - 1].path = script[at].path
    BY <1>1 DEF Delivery, Written, Paired
  <1>5. QED BY <1>1, <1>2, <1>3, <1>4

(* The hosts of these families have files.                                 *)
LEMMA FilesThere ==
  ASSUME NEW f \in {"auth", "containers"}, NEW h, WellFormed(f, h)
  PROVE  "files" \in DOMAIN h
  BY DEF WellFormed

(* The command leaves every file that has no backup as it was.             *)
LEMMA OriginalsStay ==
  ASSUME Delivery, InScript, family \in {"auth", "containers"}
  PROVE  LET g == Effect(script[at], host)
         IN  /\ DOMAIN host.files \subseteq DOMAIN g.files
             /\ \A p \in FilesOf(original) :
                  p \notin DOMAIN backups => p \in DOMAIN g.files /\ g.files[p] = original.files[p]
             /\ \A p \in FilesOf(original) : p \in DOMAIN g.files
             /\ script[at].op \in Overwriting /\ script[at].path \in FilesOf(original) =>
                  script[at].path \in DOMAIN backups
  <1> DEFINE cmd == script[at]
             g == Effect(cmd, host)
  <1>1. /\ family \in Families /\ WellFormed(family, host) /\ Fits(family, host, cmd)
        /\ cmd.op \in Overwriting => /\ at > 1 /\ script[at - 1].op \in Copying
                                     /\ script[at - 1].path = cmd.path
    BY CommandHere
  <1>2. /\ \A p \in FilesOf(original) : /\ p \in DOMAIN host.files
                                        /\ p \notin DOMAIN backups => host.files[p] = original.files[p]
        /\ at > 1 /\ script[at - 1].op \in Copying /\ script[at - 1].path \in FilesOf(original)
             => script[at - 1].path \in DOMAIN backups
    BY DEF Delivery, Saved
  <1>3. cmd.op \in Overwriting /\ cmd.path \in FilesOf(original) => cmd.path \in DOMAIN backups
    BY <1>1, <1>2
  <1>4. cmd.op \in Overwriting \cup Copying \cup {"need"}
    BY <1>1 DEF Fits, Overwriting, Copying
  <1>5. "files" \in DOMAIN host
    BY <1>1, FilesThere
  <1> HIDE DEF cmd
  <1>6. CASE cmd.op \in Overwriting
    <2>1. PICK lines : g = Write(host, cmd.path, lines)
      BY <1>6, EffectWrites
    <2>2. /\ DOMAIN g.files = DOMAIN host.files \cup {cmd.path}
          /\ \A q \in DOMAIN host.files \ {cmd.path} : g.files[q] = host.files[q]
      BY <1>5, <2>1, WriteKeeps
    <2> HIDE DEF g
    <2>3. /\ DOMAIN host.files \subseteq DOMAIN g.files
          /\ \A p \in FilesOf(original) : p \in DOMAIN g.files
      BY <1>2, <2>2
    <2>4. ASSUME NEW p \in FilesOf(original), p \notin DOMAIN backups
          PROVE  g.files[p] = original.files[p]
      <3>1. p # cmd.path
        BY <1>3, <1>6, <2>4
      <3>2. QED BY <1>2, <2>2, <2>4, <3>1
    <2>5. QED BY <1>3, <2>3, <2>4 DEF g, cmd
  <1>7. CASE cmd.op \in Copying \cup {"need"}
    <2>1. g = host
      BY <1>7, EffectWrites
    <2> HIDE DEF g
    <2>2. QED BY <1>2, <1>3, <2>1 DEF g, cmd
  <1>8. QED BY <1>4, <1>6, <1>7

(* A command that works keeps the invariant.                               *)
LEMMA StepDelivers ==
  ASSUME Delivery, Step
  PROVE  Delivery'
  <1> DEFINE cmd == script[at]
             g == Effect(cmd, host)
             b == BackUp(cmd, host)
  <1>0. InScript
    BY DEF Step
  <1>1. /\ host' = g /\ backups' = b /\ at' = at + 1
        /\ family' = family /\ scan' = scan /\ verdicts' = verdicts /\ original' = original
        /\ script' = script /\ torn' = torn /\ stunted' = stunted
    BY DEF Step
  <1>2. /\ family \in Families /\ WellFormed(family, host) /\ Fits(family, host, cmd)
        /\ at \in Nat /\ at > 0
    BY <1>0, CommandHere
  <1>3. WellFormed(family, g)
    BY <1>2, EffectWell
  <1>4. Watching(family, g, scan, verdicts)
    BY <1>3, StillWatching DEF Delivery
  <1>5. family \in {"auth", "containers"} =>
             /\ DOMAIN host.files \subseteq DOMAIN g.files
             /\ \A p \in FilesOf(original) :
                  p \notin DOMAIN backups => p \in DOMAIN g.files /\ g.files[p] = original.files[p]
             /\ \A p \in FilesOf(original) : p \in DOMAIN g.files
    BY <1>0, OriginalsStay
  <1>6. Written(family, g, script)
    BY <1>5, StillWritten DEF Delivery
  <1>7. /\ DOMAIN backups \subseteq DOMAIN b
        /\ \A p \in DOMAIN backups : b[p] = backups[p]
        /\ \A p \in DOMAIN b \ DOMAIN backups : /\ p = cmd.path /\ p \in DOMAIN host.files
                                                /\ b[p] = host.files[p]
        /\ cmd.op \notin Copying => b = backups
        /\ cmd.op \in Copying /\ cmd.path \in DOMAIN host.files => cmd.path \in DOMAIN b
    BY BackingUp
  <1>8. (at + 1) - 1 = at /\ at + 1 \in Nat /\ script # << >>
    BY <1>0, <1>2 DEF InScript
  <1>9. family \notin {"auth", "containers"} => cmd.op \notin Copying
    BY <1>2 DEF Fits
  <1>10. /\ OwnFiles(family, original)
         /\ family \in {"auth", "containers"} =>
              \A p \in FilesOf(original) :
                 /\ p \in DOMAIN host.files
                 /\ p \notin DOMAIN backups => host.files[p] = original.files[p]
         /\ family \notin {"auth", "containers"} => DOMAIN backups = {}
         /\ OriginalsKept
    BY DEF Delivery, Saved
  <1> HIDE DEF cmd, g, b
  <1>11. ASSUME NEW p \in DOMAIN b \ stunted, p \in FilesOf(original) PROVE b[p] = original.files[p]
    <2>1. CASE p \in DOMAIN backups
      BY <1>7, <1>10, <1>11, <2>1 DEF OriginalsKept
    <2>2. CASE p \notin DOMAIN backups
      <3>1. b[p] = host.files[p] /\ cmd.op \in Copying
        BY <1>7, <1>11, <2>2
      <3>2. QED BY <1>9, <1>10, <1>11, <2>2, <3>1
    <2>3. QED BY <2>1, <2>2
  <1>12. \A p \in (torn \cap InPlace) \ {DropIn} : p \in FilesOf(original) => p \in DOMAIN b
    BY <1>7, <1>10 DEF OriginalsKept
  <1>13. OriginalsKept'
    BY <1>1, <1>11, <1>12 DEF OriginalsKept, InPlace
  <1>14. family \in {"auth", "containers"} =>
           /\ \A p \in FilesOf(original) : /\ p \in DOMAIN g.files
                                           /\ p \notin DOMAIN b => g.files[p] = original.files[p]
           /\ cmd.op \in Copying /\ cmd.path \in FilesOf(original) => cmd.path \in DOMAIN b
    BY <1>5, <1>7, <1>10
  <1>15. family \notin {"auth", "containers"} => DOMAIN b = {}
    BY <1>7, <1>9, <1>10
  <1>16. Saved'
    BY <1>1, <1>8, <1>10, <1>13, <1>14, <1>15 DEF Saved, cmd
  <1>17. QED BY <1>1, <1>4, <1>6, <1>8, <1>16 DEF Delivery

(* So does one that leaves its file empty: the copy came before it.        *)
LEMMA WriteFailsDelivers ==
  ASSUME Delivery, WriteFails
  PROVE  Delivery'
  <1> DEFINE cmd == script[at]
             e == Effect(cmd, host)
             g == Write(e, cmd.path, << >>)
  <1>0. InScript /\ Overwrites(cmd, host)
    BY DEF WriteFails
  <1>1. /\ host' = g /\ torn' = torn \cup {cmd.path} /\ at' = 0
        /\ family' = family /\ scan' = scan /\ verdicts' = verdicts /\ original' = original
        /\ script' = script /\ backups' = backups /\ stunted' = stunted
    BY DEF WriteFails
  <1>2. family \in Families /\ WellFormed(family, host) /\ Fits(family, host, cmd)
    BY <1>0, CommandHere
  <1>3. WellFormed(family, e) /\ WellFormed(family, g)
    BY <1>0, <1>2, EffectWell
  <1>4. Watching(family, g, scan, verdicts)
    BY <1>3, StillWatching DEF Delivery
  <1>5. family \in {"auth", "containers"} =>
             /\ DOMAIN host.files \subseteq DOMAIN e.files
             /\ \A p \in FilesOf(original) :
                  p \notin DOMAIN backups => p \in DOMAIN e.files /\ e.files[p] = original.files[p]
             /\ \A p \in FilesOf(original) : p \in DOMAIN e.files
             /\ cmd.op \in Overwriting /\ cmd.path \in FilesOf(original) => cmd.path \in DOMAIN backups
    BY <1>0, OriginalsStay
  <1>6. family \in {"auth", "containers"} => cmd.op \in Overwriting
    BY <1>0, <1>2 DEF Fits, Overwrites, Overwriting
  <1>7. family \in {"auth", "containers"} =>
             /\ DOMAIN g.files = DOMAIN e.files \cup {cmd.path}
             /\ \A p \in DOMAIN e.files \ {cmd.path} : g.files[p] = e.files[p]
    BY <1>3, FilesThere, WriteKeeps
  <1>8. /\ OwnFiles(family, original)
        /\ family \notin {"auth", "containers"} => DOMAIN backups = {}
        /\ OriginalsKept
    BY DEF Delivery, Saved
  <1> HIDE DEF cmd, e, g
  <1>9. Written(family, g, script)
    BY <1>5, <1>7, StillWritten DEF Delivery
  <1>10. family \in {"auth", "containers"} =>
           \A p \in FilesOf(original) : /\ p \in DOMAIN g.files
                                        /\ p \notin DOMAIN backups => g.files[p] = original.files[p]
    BY <1>5, <1>6, <1>7
  <1>11. \A p \in ((torn \cup {cmd.path}) \cap InPlace) \ {DropIn} :
            p \in FilesOf(original) => p \in DOMAIN backups
    <2> SUFFICES ASSUME NEW p \in ((torn \cup {cmd.path}) \cap InPlace) \ {DropIn},
                        p \in FilesOf(original)
                 PROVE  p \in DOMAIN backups
      OBVIOUS
    <2>1. family \in {"auth", "containers"}
      BY <1>8 DEF OwnFiles, InPlace
    <2>2. QED BY <1>5, <1>6, <1>8, <2>1 DEF OriginalsKept
  <1>12. OriginalsKept'
    BY <1>1, <1>8, <1>11 DEF OriginalsKept, InPlace
  <1>13. ~(0 > 1) /\ 0 \in Nat
    OBVIOUS
  <1>14. Saved'
    BY <1>1, <1>8, <1>10, <1>12, <1>13 DEF Saved
  <1>15. QED BY <1>1, <1>4, <1>9, <1>13, <1>14 DEF Delivery

(* And a copy that is cut short: the file itself is still the original     *)
(* then.                                                                   *)
LEMMA BackupFailsDelivers ==
  ASSUME Delivery, BackupFails
  PROVE  Delivery'
  <1> DEFINE cmd == script[at]
             c == BackUp(cmd, host)
             b == [c EXCEPT ![cmd.path] = << >>]
  <1>0. InScript /\ c # backups
    BY DEF BackupFails
  <1>1. /\ backups' = b /\ stunted' = stunted \cup {cmd.path} /\ at' = 0
        /\ family' = family /\ host' = host /\ scan' = scan /\ verdicts' = verdicts
        /\ original' = original /\ script' = script /\ torn' = torn
    BY DEF BackupFails, vars
  <1>2. family \in Families /\ Fits(family, host, cmd)
    BY <1>0, CommandHere
  <1>3. /\ DOMAIN backups \subseteq DOMAIN c
        /\ \A p \in DOMAIN backups : c[p] = backups[p]
        /\ \A p \in DOMAIN c \ DOMAIN backups : p = cmd.path
        /\ cmd.op \notin Copying => c = backups
    BY BackingUp
  <1>4. family \in {"auth", "containers"}
    BY <1>0, <1>2, <1>3 DEF Fits
  <1> HIDE DEF c
  <1>5. DOMAIN b = DOMAIN c /\ \A p \in DOMAIN c \ {cmd.path} : b[p] = c[p]
    OBVIOUS
  <1> HIDE DEF b, cmd
  <1>6. OriginalsKept /\ Saved
    BY DEF Delivery, Saved
  <1>7. \A p \in DOMAIN b \ (stunted \cup {cmd.path}) : p \in FilesOf(original) => b[p] = original.files[p]
    BY <1>3, <1>5, <1>6 DEF OriginalsKept
  <1>8. \A p \in (torn \cap InPlace) \ {DropIn} : p \in FilesOf(original) => p \in DOMAIN b
    BY <1>3, <1>5, <1>6 DEF OriginalsKept
  <1>9. OriginalsKept'
    BY <1>1, <1>7, <1>8 DEF OriginalsKept, InPlace
  <1>10. ~(0 > 1) /\ 0 \in Nat
    OBVIOUS
  <1>11. \A p \in FilesOf(original) : /\ p \in DOMAIN host.files
                                      /\ p \notin DOMAIN b => host.files[p] = original.files[p]
    BY <1>3, <1>4, <1>5, <1>6 DEF Saved
  <1>12. OwnFiles(family, original)
    BY <1>6 DEF Saved
  <1>13. Saved'
    BY <1>1, <1>4, <1>9, <1>10, <1>11, <1>12 DEF Saved
  <1>14. QED BY <1>1, <1>10, <1>13 DEF Delivery

(* What does not touch the host or its backups; the shell may be anywhere  *)
(* before the second command.                                              *)
LEMMA SavedStays ==
  ASSUME Saved, UNCHANGED <<family, host, original, backups, torn, stunted>>,
         \/ UNCHANGED <<script, at>>
         \/ at' \in {0, 1}
  PROVE  Saved'
  <1>1. OriginalsKept'
    BY DEF Saved, OriginalsKept, InPlace
  <1>2. ~(0 > 1) /\ ~(1 > 1)
    OBVIOUS
  <1>3. QED BY <1>1, <1>2 DEF Saved

(* Every action keeps the invariant: better scans, the making of a script, *)
(* its start and end, an abort, an interrupt, and the two writes that      *)
(* fail.                                                                   *)
LEMMA DeliveryNext == Delivery /\ [RNext]_<<vars, remediation>> => Delivery'
  <1> SUFFICES ASSUME Delivery, [RNext]_<<vars, remediation>> PROVE Delivery'
    OBVIOUS
  <1>0. /\ Watching(family, host, scan, verdicts) /\ Written(family, host, script)
        /\ at \in Nat /\ (script = << >> => at = 0) /\ Saved
    BY DEF Delivery
  <1>1. CASE Rescanned
    <2>1. /\ family' = family /\ host' = host
          /\ UNCHANGED <<original, script, at, backups, torn, stunted>>
      BY <1>1 DEF Rescanned, Next, ScanAgain
    <2>2. Watching(family, host, scan, verdicts)'
      BY <1>0, <1>1, NextWatches DEF Rescanned
    <2>3. Saved'
      BY <1>0, <2>1, SavedStays
    <2>4. QED BY <1>0, <2>1, <2>2, <2>3 DEF Delivery
  <1>2. CASE Propose
    <2>1. PICK accepted : script' = Script(Generate(accepted))
      BY <1>2 DEF Propose
    <2>2. at = 0 /\ UNCHANGED <<family, host, scan, verdicts, original, at, backups, torn, stunted>>
      BY <1>0, <1>2 DEF Propose, vars
    <2>3. Written(family, host, script')
      BY <1>0, <2>1, ScriptWritten DEF Watching
    <2>4. Saved'
      BY <1>0, <2>2, SavedStays
    <2>5. QED BY <1>0, <2>2, <2>3, <2>4 DEF Delivery
  <1>3. CASE StartScript
    <2>1. /\ at' = 1 /\ script # << >>
          /\ UNCHANGED <<family, host, scan, verdicts, original, script, backups, torn, stunted>>
      BY <1>3 DEF StartScript, vars
    <2>2. Saved'
      BY <1>0, <2>1, SavedStays
    <2>3. QED BY <1>0, <2>1, <2>2 DEF Delivery
  <1>4. CASE Step
    BY <1>4, StepDelivers
  <1>5. CASE Abort \/ Interrupt
    <2>1. at' = 0 /\ UNCHANGED <<family, host, scan, verdicts, original, script, backups, torn, stunted>>
      BY <1>5 DEF Abort, Interrupt, vars
    <2>2. Saved'
      BY <1>0, <2>1, SavedStays
    <2>3. QED BY <1>0, <2>1, <2>2 DEF Delivery
  <1>6. CASE WriteFails
    BY <1>6, WriteFailsDelivers
  <1>7. CASE BackupFails
    BY <1>7, BackupFailsDelivers
  <1>8. CASE ScanAfter
    <2>1. /\ at' = 0 /\ verdicts' = VerdictsOf(family, host, scan)
          /\ UNCHANGED <<family, host, scan, original, script, backups, torn, stunted>>
      BY <1>8 DEF ScanAfter
    <2>2. Watching(family, host, scan, VerdictsOf(family, host, scan))
      BY <1>0, ScansWatch DEF Watching
    <2>3. Saved'
      BY <1>0, <2>1, SavedStays
    <2>4. QED BY <1>0, <2>1, <2>2, <2>3 DEF Delivery
  <1>9. CASE UNCHANGED <<vars, remediation>>
    <2>1. UNCHANGED <<family, host, scan, verdicts, original, script, at, backups, torn, stunted>>
      BY <1>9 DEF vars, remediation
    <2>2. Saved'
      BY <1>0, <2>1, SavedStays
    <2>3. QED BY <1>0, <2>1, <2>2 DEF Delivery
  <1>10. QED
    BY <1>1, <1>2, <1>3, <1>4, <1>5, <1>6, <1>7, <1>8, <1>9 DEF RNext

------------------------------------------------------------------------------
(* The theorems.                                                           *)

(* The inductive invariant holds on every host, for every scan and however *)
(* often the script is started, interrupted or hit by a full disk.         *)
THEOREM DeliveryInvariant == RSpec => []Delivery
  <1>1. QED BY DeliveryInit, DeliveryNext, PTL DEF RSpec

(* An UNKNOWN that asks for more privileges (ReasonPermission) is one that *)
(* more privileges can help, BlameUnsure apart: for every host of the      *)
(* eleven families, for every scan of it, and after every run of the       *)
(* script on it.                                                           *)
THEOREM Blame == RSpec => []PrivilegesBlamedTruly
  <1>1. Delivery => PrivilegesBlamedTruly
    BY DEF Delivery, Watching, PrivilegesBlamedTruly
  <1>2. QED BY <1>1, DeliveryInvariant, PTL

(* The same for the scans alone.                                           *)
THEOREM RescanBlame == Spec => []PrivilegesBlamedTruly
  <1> DEFINE I == Watching(family, host, scan, verdicts)
  <1>1. Init => I
    BY InitWatches
  <1>2. I /\ [Next]_vars => I'
    <2>1. I /\ Next => I'
      BY NextWatches
    <2>2. I /\ UNCHANGED vars => I'
      BY DEF vars
    <2>3. QED BY <2>1, <2>2
  <1>3. I => PrivilegesBlamedTruly
    BY DEF Watching, PrivilegesBlamedTruly
  <1> HIDE DEF I
  <1>4. QED BY <1>1, <1>2, <1>3, PTL DEF Spec

(* What a file held before the first run of the script is in its backup,   *)
(* or still in the file, whatever becomes of the runs (backup, and the     *)
(* helpers that write in place, in the script scan --fix generates).       *)
THEOREM Originals == RSpec => []OriginalsKept
  <1>1. Delivery => OriginalsKept
    BY DEF Delivery, Saved
  <1>2. QED BY <1>1, DeliveryInvariant, PTL
=============================================================================
