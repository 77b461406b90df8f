-------------------------------- MODULE Rescan --------------------------------
(***************************************************************************)
(* One host, scanned again and again by someone who sees more each time:   *)
(* from the collectors' reads to the checks' verdicts, family by family.   *)
(*                                                                         *)
(* A scan may be refused paths, meet files that fail to read or lines that *)
(* do not parse, be cut short by its deadline or have its reads capped.  A *)
(* check that cannot tell because of that has to say so: verdicts is what  *)
(* the scan reports, truth what a scan with nothing in its way would.      *)
(***************************************************************************)
EXTENDS Integers, Sequences, FiniteSetsExt

CONSTANTS
  Hosts,          \* Hosts[f]: the hosts to scan for a family of checks, under some index
  Items,          \* Items[f]: what of such a host a scan may be refused
  Garbled,        \* Garbled[f]: the <<path, line>> pairs that may fail to parse
  MaxReach,       \* MaxReach[f]: how many steps the longest scan takes
  MaxCap,         \* how many lines or entries the largest read holds
  MaxRefused,     \* how many of the items are refused, or fail to read, at once
  \* of the families
  DropInDirs, Services, PathOf, MaxIncludeDepth, Candidates, Targets, MaxSymlinkHops,
  Numerals, HalfWord, Durations, KeyOrder, Masks, CoreDumps, DropInNames, WantsDirs, SandboxTargets

VARIABLES family, host, scan, verdicts, truth

vars == <<family, host, scan, verdicts, truth>>

------------------------------------------------------------------------------

Cron       == INSTANCE CronChecks
Users      == INSTANCE UsersChecks
Auth       == INSTANCE AuthChecks
Logging    == INSTANCE LoggingChecks
Network    == INSTANCE NetworkChecks
Memory     == INSTANCE MemoryChecks
Filesys    == INSTANCE FilesysChecks
Sshd       == INSTANCE SshdChecks
Kernel     == INSTANCE KernelChecks
Systemd    == INSTANCE ServicesChecks
Containers == INSTANCE ContainersChecks

Families == {"cron", "users", "auth", "logging", "network", "memory", "filesys", "sshd", "kernel",
             "services", "containers"}

\* what a path can be that is no text file
OddKinds(f) == IF f = "memory" THEN DOMAIN Memory!PlainState ELSE {"irregular", "binary"}

(* The hosts of a family: every path is one of the things a path can be; a *)
(* statement of a PAM file that includes another gives one of the types and*)
(* names a file of /etc/pam.d; the walk meets inodes in an order.          *)
WellFormed(f, h) ==
  /\ f # "cron" => "odd" \in DOMAIN h /\ \A p \in DOMAIN h.odd : h.odd[p] \in OddKinds(f)
  /\ f = "filesys" => "order" \in DOMAIN h /\ h.order \in Seq(Cron!Elements(h.order))
  /\ f \in {"auth", "containers"} => "files" \in DOMAIN h /\ IsFiniteSet(DOMAIN h.files)
  /\ f = "auth" =>
       /\ "pamDir" \in DOMAIN h /\ h.pamDir \in {"present", "absent"}
       /\ \A p \in Auth!StackFiles(h) :
            /\ h.files[p] \in Seq(Cron!Elements(h.files[p]))
            /\ \A l \in Cron!Elements(h.files[p]) :
                 /\ "kind" \in DOMAIN l
                 /\ l.kind = "include" => l.type \in Auth!Scopes
                 /\ l.kind \in {"@include", "include"} =>
                      l.target \notin {Auth!LoginDefsPath, Auth!PwQualityPath}

FilesOf(h) == IF "files" \in DOMAIN h THEN DOMAIN h.files ELSE {}

\* a host holds the files its family's collectors look for, and no others
OwnFiles(f, h) ==
  /\ Auth!LoginDefsPath \in FilesOf(h) => f = "auth"
  /\ Containers!DaemonConfigPath \in FilesOf(h) => f = "containers"

ASSUME HostsAssumption ==
  \A f \in DOMAIN Hosts : /\ f \in Families
                          /\ \A i \in DOMAIN Hosts[f] : /\ WellFormed(f, Hosts[f][i])
                                                        /\ OwnFiles(f, Hosts[f][i])

ASSUME BoundsAssumption ==
  /\ MaxCap \in Nat /\ MaxIncludeDepth \in Nat
  /\ \A f \in DOMAIN Hosts : MaxReach[f] \in Nat

\* PAM services have a name and a file of their own
ASSUME ServicesAssumption ==
  /\ Services \in Seq(STRING)
  /\ \A m, n \in DOMAIN Services : Services[m] = Services[n] => m = n
  /\ \A n \in DOMAIN Services : PathOf[Services[n]] \notin {Auth!LoginDefsPath, Auth!PwQualityPath}

ASSUME ListsAssumption == DropInDirs \in Seq(STRING) /\ SandboxTargets \in Seq(STRING)

\* collect and check
VerdictsOf(f, h, s) ==
  CASE f = "cron"       -> Cron!CronVerdicts(Cron!CollectCron(h, s))
    [] f = "users"      -> Users!UsersVerdicts(Users!CollectUsers(h, s))
    [] f = "auth"       -> Auth!AuthVerdicts(Auth!CollectAuth(h, s))
    [] f = "logging"    -> Logging!LoggingVerdicts(Logging!CollectLogging(h, s))
    [] f = "network"    -> Network!NetworkVerdicts(Network!CollectFirewall(h, s))
    [] f = "memory"     -> Memory!MemoryVerdicts(Memory!CollectMemory(h, s))
    [] f = "filesys"    -> Filesys!FilesysVerdicts(Filesys!CollectFilesys(h, s))
    [] f = "sshd"       -> Sshd!SshdVerdicts(Sshd!CollectSshd(h, s))
    [] f = "kernel"     -> Kernel!KernelVerdicts(Kernel!CollectSysctl(h, s))
    [] f = "services"   -> Systemd!ServicesVerdicts(Systemd!CollectSystemd(h, s))
    [] f = "containers" -> Containers!ContainersVerdicts(Containers!CollectContainers(h, s))

Full(f) == [denied |-> {}, broken |-> {}, garbled |-> {}, reach |-> MaxReach[f], cap |-> MaxCap]

\* the scans that see least, one kind of gap at a time
Poorest(f) ==
  (UNION {{[Full(f) EXCEPT !.denied = D, !.broken = S \ D] : D \in SUBSET S} :
            S \in kSubset(MaxRefused, Items[f])})
    \cup {[Full(f) EXCEPT !.garbled = Garbled[f]], [Full(f) EXCEPT !.reach = 0], [Full(f) EXCEPT !.cap = 0]}

Init ==
  /\ family \in DOMAIN Hosts
  /\ \E i \in DOMAIN Hosts[family] : host = Hosts[family][i]
  /\ truth = VerdictsOf(family, host, Full(family))
  /\ scan \in Poorest(family)
  /\ verdicts = VerdictsOf(family, host, scan)

(* Each of these lets the next scan see a little more.                     *)
GrantAccess    == \E p \in scan.denied : scan' = [scan EXCEPT !.denied = @ \ {p}]
Repair         == \E p \in scan.broken : scan' = [scan EXCEPT !.broken = @ \ {p}]
Correct        == \E l \in scan.garbled : scan' = [scan EXCEPT !.garbled = @ \ {l}]
ExtendDeadline == scan.reach < MaxReach[family] /\ scan' = [scan EXCEPT !.reach = @ + 1]
RaiseCap       == scan.cap < MaxCap /\ scan' = [scan EXCEPT !.cap = @ + 1]

ScanAgain ==
  /\ verdicts' = VerdictsOf(family, host, scan')
  /\ UNCHANGED <<family, host, truth>>

Next == (GrantAccess \/ Repair \/ Correct \/ ExtendDeadline \/ RaiseCap) /\ ScanAgain

Spec == Init /\ [][Next]_vars

------------------------------------------------------------------------------
(* Where the catalog does not keep its rule.  Each table says, for one kind*)
(* of gap, which checks can give a verdict that a better scan takes back;  *)
(* the README says for each why.  What is not in a table is what the       *)
(* properties below claim.                                                 *)

GapKinds == {"denied", "broken", "garbled", "cut", "capped"}

Gaps == {k \in GapKinds : CASE k = "denied"  -> scan.denied # {}
                            [] k = "broken"  -> scan.broken # {}
                            [] k = "garbled" -> scan.garbled # {}
                            [] k = "cut"     -> scan.reach < MaxReach[family]
                            [] k = "capped"  -> scan.cap < MaxCap}

\* the checks of the boot-time configuration, those of them about interfaces, every check of the
\* PAM stacks, of sshd_config, of the daemon, of the units' sandboxes and of what is enabled
Persistence == {"KERNEL_0017", "KERNEL_0018", "KERNEL_0019", "KERNEL_0020", "KERNEL_0021",
  "KERNEL_0022", "KERNEL_0023", "KERNEL_0024", "KERNEL_0025", "KERNEL_0026", "KERNEL_0027",
  "KERNEL_0028", "KERNEL_0029", "KERNEL_0030", "KERNEL_0031"}
OfPatterns == {"KERNEL_0024", "KERNEL_0025", "KERNEL_0026", "KERNEL_0027"}
OfPam == {"AUTH_0001", "AUTH_0002", "AUTH_0003", "AUTH_0004", "AUTH_0005", "AUTH_0006"}
OfSshd == {"SSHD_0002", "SSHD_0003", "SSHD_0004", "SSHD_0005", "SSHD_0006", "SSHD_0007",
  "SSHD_0008", "SSHD_0009", "SSHD_0010", "SSHD_0011", "SSHD_0012", "SSHD_0013", "SSHD_0014",
  "SSHD_0015", "SSHD_0016", "SSHD_0017", "SSHD_0018", "SSHD_0019", "SSHD_0020"}
OfDocker == {"CONTAINERS_0001", "CONTAINERS_0002", "CONTAINERS_0003", "CONTAINERS_0004",
  "CONTAINERS_0005", "CONTAINERS_0006", "CONTAINERS_0007", "CONTAINERS_0008"}
OfSandbox    == {"SERVICES_0006", "SERVICES_0007", "SERVICES_0008", "SERVICES_0011"}
OfEnablement == {"SERVICES_0001", "SERVICES_0002", "SERVICES_0003", "SERVICES_0004", "SERVICES_0005"}

FalsePasses ==
  LET refused == OfSshd \cup OfPatterns \cup OfPam \cup {"CONTAINERS_0001", "CONTAINERS_0006",
        "CONTAINERS_0007", "CONTAINERS_0008", "KERNEL_0007", "KERNEL_0008", "LOGGING_0003",
        "LOGGING_0004", "LOGGING_0005", "NETWORK_0002"}
  IN  [denied  |-> refused,
       broken  |-> refused,
       garbled |-> {},
       cut     |-> OfSshd \cup Persistence \cup OfEnablement
                     \cup {"AUTH_0002", "AUTH_0004", "AUTH_0005", "CRON_0002", "CRON_0004",
                           "CRON_0005", "KERNEL_0007", "KERNEL_0008", "KERNEL_0015", "LOGGING_0001",
                           "LOGGING_0005", "NETWORK_0002", "NETWORK_0003"},
       capped  |-> OfSshd \cup Persistence
                     \cup {"AUTH_0002", "AUTH_0004", "AUTH_0005", "CONTAINERS_0001",
                           "CONTAINERS_0006", "CONTAINERS_0007", "KERNEL_0007", "LOGGING_0001",
                           "LOGGING_0003", "LOGGING_0004", "LOGGING_0005", "NETWORK_0001"}]

FalseFails ==
  LET refused == OfSshd \cup Persistence \cup OfSandbox \cup (OfPam \ {"AUTH_0004"})
        \cup {"CONTAINERS_0001", "CONTAINERS_0006", "CONTAINERS_0007", "CONTAINERS_0008",
              "KERNEL_0007", "KERNEL_0008", "LOGGING_0003", "LOGGING_0004", "SERVICES_0001",
              "SERVICES_0002", "SERVICES_0003"}
  IN  [denied  |-> refused,
       broken  |-> refused,
       garbled |-> {"CONTAINERS_0006", "USERS_0007"},
       cut     |-> OfSshd \cup Persistence \cup (OfPam \ {"AUTH_0004"})
                     \cup {"KERNEL_0007", "KERNEL_0008", "LOGGING_0001", "LOGGING_0002",
                           "NETWORK_0001", "SERVICES_0001", "SERVICES_0002", "SERVICES_0003"},
       capped  |-> OfSshd \cup Persistence \cup OfSandbox \cup (OfPam \ {"AUTH_0004"})
                     \cup {"CONTAINERS_0001", "CONTAINERS_0006", "CONTAINERS_0007", "KERNEL_0007",
                           "LOGGING_0001", "LOGGING_0002", "LOGGING_0003", "LOGGING_0004",
                           "NETWORK_0001", "NETWORK_0002", "NETWORK_0003", "SERVICES_0001",
                           "SERVICES_0002", "SERVICES_0003", "SERVICES_0010", "USERS_0012"}]

FalseDismissals ==
  LET denied == OfDocker \cup OfSandbox \cup Persistence
                  \cup {"AUTH_0002", "KERNEL_0007", "KERNEL_0015", "LOGGING_0003", "LOGGING_0004",
                        "SERVICES_0010"}
  IN  [denied  |-> denied,
       broken  |-> denied \cup OfEnablement \cup {"CRON_0001", "CRON_0002", "CRON_0003",
                     "CRON_0004", "CRON_0005", "KERNEL_0008"},
       garbled |-> {"USERS_0002", "USERS_0004", "USERS_0009", "USERS_0010"},
       cut     |-> OfEnablement \cup Persistence \cup {"AUTH_0002", "CRON_0001", "CRON_0002",
                     "CRON_0003", "CRON_0004", "CRON_0005", "KERNEL_0007", "KERNEL_0008",
                     "KERNEL_0015", "LOGGING_0005", "NETWORK_0002", "NETWORK_0003"},
       capped  |-> Persistence \cup {"AUTH_0002", "KERNEL_0007", "LOGGING_0005", "NETWORK_0002",
                     "NETWORK_0003"}]

\* a check says r, and a scan with nothing in its way would say one of T
TakenBack(r, T) == {c \in DOMAIN verdicts : verdicts[c].result = r /\ truth[c].result \in T}

Excused(table) == UNION {table[k] : k \in Gaps}

------------------------------------------------------------------------------

(* Apart from the checks of the first table, a PASS given from behind a    *)
(* gap is never a FAIL once the gap is closed: what a collector could not  *)
(* see reaches the check as an UNKNOWN, whichever of the collectors'       *)
(* states, unresolved lists and truncation flags has to carry it there.    *)
NoFalsePass == TakenBack("PASS", {"FAIL"}) \subseteq Excused(FalsePasses)

(* Apart from the checks of the second table, a FAIL never becomes a PASS  *)
(* once the gap is closed: nothing unread can unmake it.                   *)
NoFalseFail == TakenBack("FAIL", {"PASS"}) \subseteq Excused(FalseFails)

(* Apart from the checks of the third table, a check is never dismissed as *)
(* NOT_APPLICABLE because its subject could not be found: a better scan    *)
(* dismisses it too.                                                       *)
NoFalseDismissal ==
  TakenBack("NOT_APPLICABLE", {"PASS", "FAIL", "UNKNOWN"}) \subseteq Excused(FalseDismissals)

\* KERNEL-0008 and KERNEL-0015 ask for privileges where values are no numbers or fail to read,
\* SERVICES-0004 where a link's target fails to read, SERVICES-0011 for every unit it cannot judge
BlameUnsure == {"KERNEL_0008", "KERNEL_0015", "SERVICES_0004", "SERVICES_0011"}

(* Apart from these, an UNKNOWN that asks for more privileges is one that  *)
(* more privileges can help: some path was refused.                        *)
PrivilegesBlamedTruly ==
  \A c \in DOMAIN verdicts \ BlameUnsure :
     verdicts[c].reason = Cron!ReasonPermission => scan.denied # {}

(* The rule of CONTRIBUTING.md without any exception: a check that cannot  *)
(* verify something never reports PASS.                                    *)
NoUnverifiedPass == TakenBack("PASS", {"FAIL"}) = {}
==============================================================================
