---------------------------- MODULE ServicesChecks ---------------------------
(***************************************************************************)
(* systemd: which units are enabled, how the audited ones are sandboxed,   *)
(* and whether AppArmor confines anything; the three collectors and the    *)
(* SERVICES checks over their facts.                                       *)
(*                                                                         *)
(* The hosts are those of module Units; host.faulty are the paths that     *)
(* someone other than root owns or may write.                              *)
(***************************************************************************)
EXTENDS Units

CONSTANTS
  WantsDirs,        \* the names of the .wants and .requires directories
  SandboxTargets    \* the audited units, in the collector's order

CleartextUnits == {"telnet.socket", "telnet.service", "telnetd.socket", "telnetd.service",
  "inetutils-telnetd.socket", "inetutils-telnetd.service", "rsh.socket", "rsh.service",
  "rlogin.socket", "rlogin.service", "rexec.socket", "rexec.service", "rshd.socket",
  "rlogind.socket", "rexecd.socket", "vsftpd.service", "proftpd.service", "pure-ftpd.service",
  "ftp.service", "tftp.socket", "tftp.service", "tftpd.service", "tftpd-hpa.service"}
DiscoveryUnits == {"avahi-daemon.service", "avahi-daemon.socket", "cups-browsed.service",
  "rpcbind.service", "rpcbind.socket"}
TimeSyncUnits == {"systemd-timesyncd.service", "chronyd.service", "chrony.service",
  "ntpd.service", "ntp.service", "ntpsec.service", "openntpd.service", "timemaster.service"}

------------------------------------------------------------------------------
(* Enablement.  The roots in the order of their precedence, and of the two *)
(* vendor directories the one whose path sorts first.                      *)

OriginRank == <<0, 1, 3, 2>>

ScanDir(host, scan, dir) ==
  LET read == ~Closed(scan, dir) /\ dir \in DOMAIN host.dirs
  IN  [path      |-> dir,
       state     |-> CASE Closed(scan, dir) -> RefusedAs(scan, dir)
                       [] read -> "read"
                       [] OTHER -> "absent",
       truncated |-> read /\ ListingCut(host, scan, dir),
       faulty    |-> dir \in host.faulty]

EntriesOf(host, scan, dir) ==
  IF ScanDir(host, scan, dir).state = "read" THEN Elements(Listing(host, scan, dir)) ELSE {}

\* a link's target may be there, be gone, or be out of sight
DestState(host, scan, p) ==
  LET to == host.links[p]
  IN CASE p \notin DOMAIN host.links -> "present"
       [] p \in DOMAIN host.links /\ to \in scan.denied \cup scan.broken -> "unknown"
       [] OTHER -> IF Exists(host, to) THEN "present" ELSE "dangling"

(* The legacy root may be the vendor root under another name.  A scan that *)
(* is cut short puts the roots it got to.                                  *)
CollectServices(host, scan) ==
  LET alias(k)  == \E j \in 1..(k - 1) :
                     /\ {Roots[j], Roots[k]} \subseteq DOMAIN host.dirs
                     /\ host.dirs[Roots[j]].ino = host.dirs[Roots[k]].ino
      reached   == {k \in DOMAIN Roots : k <= scan.reach /\ ~alias(k)}
      entries(k) == EntriesOf(host, scan, Roots[k])
      wants     == UNION {{Join(Roots[k], e) : e \in entries(k) \cap WantsDirs} : k \in reached}
      dirs      == {ScanDir(host, scan, Roots[k]) : k \in reached}
      isUnit(p) == p \notin DOMAIN host.dirs
      unit(k, e) == LET p == Join(Roots[k], e)
                    IN  [name |-> e, path |-> p, rank |-> OriginRank[k],
                         symlink |-> p \in DOMAIN host.links,
                         masked  |-> p \in DOMAIN host.links /\ host.links[p] = "/dev/null",
                         faulty  |-> p \in host.faulty]
  IN  [error   |-> "",
       dirs    |-> dirs \cup {ScanDir(host, scan, w) : w \in wants},
       units   |-> UNION {{unit(k, e) : e \in {x \in entries(k) : isUnit(Join(Roots[k], x))}} :
                             k \in reached},
       links   |-> UNION {{[unit |-> e, path |-> Join(w, e), dest |-> DestState(host, scan, Join(w, e))] :
                              e \in EntriesOf(host, scan, w)} : w \in wants},
       systemd |-> \E d \in dirs : d.state \in {"read", "denied"}]

UnitFiles(s, name) == {u \in s.units : u.name = name}
LinksTo(s, name)   == {l \in s.links : l.unit = name}

MaskedIn(s, name) ==
  \E u \in UnitFiles(s, name) : u.masked /\ \A v \in UnitFiles(s, name) : u.rank <= v.rank

Status(s, name) == CASE MaskedIn(s, name) -> "masked"
                     [] ~MaskedIn(s, name) /\ LinksTo(s, name) # {} -> "enabled"
                     [] OTHER -> IF UnitFiles(s, name) # {} THEN "not-enabled" ELSE "absent"

AnyEnabled(s, names) == {n \in names : Status(s, n) = "enabled"}

Incomplete(s) == {d \in s.dirs : d.state \in {"denied", "error"} \/ d.truncated}

UnknownIfIncomplete(s, oc) ==
  IF Incomplete(s) = {} THEN oc
  ELSE CannotTell(IF \E d \in Incomplete(s) : d.state = "error" \/ d.truncated
                  THEN ReasonAmbiguousState ELSE ReasonPermission, oc.subject)

OnSystemd(s, oc) == IF s.systemd THEN oc ELSE NotApplicable

NoneEnabled(s, names) ==
  OnSystemd(s, IF AnyEnabled(s, names) # {} THEN Fails(AnyEnabled(s, names))
               ELSE UnknownIfIncomplete(s, Passes))

SERVICES_0001(s) == NoneEnabled(s, CleartextUnits)

SERVICES_0002(s) == NoneEnabled(s, DiscoveryUnits)

SERVICES_0003(s) ==
  LET enabled == AnyEnabled(s, TimeSyncUnits)
  IN  OnSystemd(s, CASE enabled = {} -> UnknownIfIncomplete(s, Fails({"systemd-timesyncd.service"}))
                     [] Cardinality(enabled) > 1 -> Fails(enabled)
                     [] OTHER -> UnknownIfIncomplete(s, PassesFor(enabled)))

SERVICES_0004(s) ==
  LET having(state) == {l.unit : l \in {x \in s.links : x.dest = state}}
  IN  OnSystemd(s, CASE having("dangling") # {} -> Fails(having("dangling"))
                     [] having("dangling") = {} /\ having("unknown") # {} ->
                          CannotTell(ReasonPermission, having("unknown"))
                     [] OTHER -> UnknownIfIncomplete(s, Passes))

SERVICES_0005(s) ==
  LET bad == {d.path : d \in {x \in s.dirs : x.state = "read" /\ x.faulty}}
               \cup {u.path : u \in {x \in s.units : ~x.symlink /\ x.faulty}}
  IN  OnSystemd(s, IF bad # {} THEN Fails(bad) ELSE UnknownIfIncomplete(s, Passes))

------------------------------------------------------------------------------
(* Sandboxing of the audited units.                                        *)

TrueWords  == {"1", "yes", "y", "true", "t", "on"}
FalseWords == {"0", "no", "n", "false", "f", "off"}

ValidProtectSystem == TrueWords \cup FalseWords \cup {"full", "strict"}
ValidProtectHome   == TrueWords \cup FalseWords \cup {"read-only", "tmpfs"}

SandboxOf(asm) ==
  LET setting(d, valid) == IF asm.state = "present" THEN LastValid(asm, d, valid) ELSE ""
  IN  [state |-> asm.state, fragments |-> asm.fragments,
       noNewPrivileges |-> setting("NoNewPrivileges", TrueWords \cup FalseWords),
       protectSystem   |-> setting("ProtectSystem", ValidProtectSystem),
       protectHome     |-> setting("ProtectHome", ValidProtectHome)]

ReadSandbox(host, scan, name) ==
  SandboxOf(Assemble(host, scan, name, "Service",
                     {"NoNewPrivileges", "ProtectSystem", "ProtectHome"}))

\* a unit the scan does not get to is one it could not read
CollectSandbox(host, scan) ==
  LET notReached == [state |-> "error", fragments |-> {}, noNewPrivileges |-> "",
                     protectSystem |-> "", protectHome |-> ""]
  IN  [error    |-> "",
       systemd  |-> \E k \in DOMAIN Roots : Roots[k] \in DOMAIN host.dirs \ scan.broken,
       services |-> [n \in DOMAIN SandboxTargets |->
                       IF n > scan.reach THEN notReached
                       ELSE ReadSandbox(host, scan, SandboxTargets[n])]]

UnitsIn(h, P(_)) == {n \in DOMAIN h.services : P(h.services[n])}

Installed(s)  == s.state # "absent"
Judgeable(s)  == s.state = "present"
Unreadable(s) == /\ s.state \notin {"absent", "masked"}
                 /\ s.state # "present" \/ IncompleteFragments(s.fragments) # {}

Protected(s)     == s.protectSystem \notin FalseWords \cup {""}
HomeProtected(s) == s.protectHome \notin FalseWords \cup {""}

StrictlySandboxed(s) == s.protectSystem = "strict" /\ HomeProtected(s)

WhyUnread(h) ==
  IF \E n \in UnitsIn(h, Unreadable) :
       LET s == h.services[n] IN s.state = "denied" \/ \E f \in s.fragments : f.state = "denied"
  THEN ReasonPermission ELSE ReasonAmbiguousState

(* An exempt unit that does not meet the rule is neither a pass nor a fail;*)
(* a failure outranks the units that could not be read.                    *)
Partition(h, exempt, satisfied, why) ==
  LET passed == UnitsIn(h, Judgeable) \cap satisfied
      failed == {n \in UnitsIn(h, Judgeable) \ passed : SandboxTargets[n] \notin exempt}
      unread == UnitsIn(h, Unreadable)
      names(S) == {SandboxTargets[n] : n \in S}
  IN CASE ~h.systemd \/ UnitsIn(h, Installed) = {} -> NotApplicable
       [] h.systemd /\ failed # {} -> Fails(names(failed))
       [] h.systemd /\ failed = {} /\ unread # {} ->
            CannotTell(why, names(unread))
       [] OTHER -> IF passed = {} THEN NotApplicable ELSE Passes

SERVICES_0006(h) ==
  Partition(h, {"cron.service", "dbus.service"},
            UnitsIn(h, LAMBDA s : s.noNewPrivileges \in TrueWords), WhyUnread(h))

SERVICES_0007(h) == Partition(h, {"cron.service"}, UnitsIn(h, Protected), WhyUnread(h))

SERVICES_0008(h) == Partition(h, {"cron.service"}, UnitsIn(h, HomeProtected), WhyUnread(h))

SERVICES_0011(h) ==
  Partition(h, {"cron.service"}, UnitsIn(h, StrictlySandboxed), ReasonPermission)

------------------------------------------------------------------------------
(* AppArmor.  The module's parameter file holds one word, the profile list *)
(* one line per profile: its mode, or "" for a line that is none.          *)

EnabledPath  == "/sys/module/apparmor/parameters/enabled"
ProfilesPath == "/sys/kernel/security/apparmor/profiles"
ProfileDir   == "/etc/apparmor.d"

CollectAppArmor(host, scan) ==
  LET enabled  == ReadFile(host, scan, EnabledPath)
      word     == host.files[EnabledPath][1]
      profiles == ReadFile(host, scan, ProfilesPath)
  IN  [error    |-> "",
       state    |-> CASE enabled \in {"absent", "denied"} -> enabled
                      [] enabled = "present" /\ word \in {"Y", "y", "1"} -> "enabled"
                      [] enabled = "present" /\ word \in {"N", "n", "0"} -> "disabled"
                      [] OTHER -> "error",
       profiles |-> CASE profiles \in {"absent", "denied"} -> profiles
                      [] profiles = "present" -> "enabled"
                      [] OTHER -> "error",
       confined |-> /\ profiles = "present"
                    /\ Elements(Text(host, scan, ProfilesPath)) \cap {"enforce", "kill"} # {},
       dir      |-> CASE Closed(scan, ProfileDir) -> RefusedAs(scan, ProfileDir)
                      [] OTHER -> IF ProfileDir \in DOMAIN host.dirs THEN "present" ELSE "absent"]

SERVICES_0010(a) ==
  LET subject == {"apparmor"}
  IN CASE a.state = "absent" /\ a.dir # "present" -> NotApplicableFor(subject)
       [] a.state = "denied"   -> CannotTell(ReasonPermission, subject)
       [] a.state = "error"    -> CannotTell(ReasonParse, subject)
       [] a.state = "disabled" -> Fails(subject)
       [] OTHER -> CASE a.profiles = "denied" -> CannotTell(ReasonPermission, subject)
                     [] a.profiles = "absent" -> CannotTell(ReasonFactMissing, subject)
                     [] a.profiles = "error"  -> CannotTell(ReasonParse, subject)
                     [] OTHER -> IF a.confined THEN PassesFor(subject) ELSE Fails(subject)

------------------------------------------------------------------------------

CollectSystemd(host, scan) ==
  [services |-> CollectServices(host, scan), sandbox |-> CollectSandbox(host, scan),
   apparmor |-> CollectAppArmor(host, scan)]

ServicesVerdicts(f) ==
  [SERVICES_0001 |-> SERVICES_0001(f.services), SERVICES_0002 |-> SERVICES_0002(f.services),
   SERVICES_0003 |-> SERVICES_0003(f.services), SERVICES_0004 |-> SERVICES_0004(f.services),
   SERVICES_0005 |-> SERVICES_0005(f.services), SERVICES_0006 |-> SERVICES_0006(f.sandbox),
   SERVICES_0007 |-> SERVICES_0007(f.sandbox), SERVICES_0008 |-> SERVICES_0008(f.sandbox),
   SERVICES_0010 |-> SERVICES_0010(f.apparmor), SERVICES_0011 |-> SERVICES_0011(f.sandbox)]
==============================================================================
