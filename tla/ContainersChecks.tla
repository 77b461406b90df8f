--------------------------- MODULE ContainersChecks --------------------------
(***************************************************************************)
(* The Docker daemon: its configuration file and the command line its unit *)
(* starts it with, and the CONTAINERS checks over both.                    *)
(*                                                                         *)
(* daemon.json is a file of one line, the document: a record of settings,  *)
(* "" or {} for one that is not written; a document that is no JSON is one *)
(* in scan.garbled.  A socket is "tcp", "local" or "other".  An ExecStart's*)
(* value is a sequence of [flag, value] arguments, the flag "$" for one    *)
(* whose value comes from the environment.  What the collector redacts is  *)
(* never looked at.                                                        *)
(***************************************************************************)
EXTENDS Units

DaemonConfigPath == "/etc/docker/daemon.json"
DaemonBinaries   == {"/usr/bin/dockerd", "/usr/local/bin/dockerd", "/usr/sbin/dockerd"}
DockerUnit       == "docker.service"

------------------------------------------------------------------------------

NoDocument == [usernsRemap |-> "", icc |-> "", noNewPrivileges |-> "", liveRestore |-> "",
               experimental |-> "", tlsVerify |-> "", logDriver |-> "", maxSize |-> FALSE,
               hosts |-> {}]

ReadConfig(host, scan) ==
  LET read == ReadFile(host, scan, DaemonConfigPath)
  IN CASE read \in {"absent", "denied", "error"} -> read
       [] read = "irregular" -> "not_regular"
       [] read = "binary" -> "malformed"
       [] read = "present" /\ Truncated(host, scan, DaemonConfigPath) -> "truncated"
       [] read = "present" /\ ~Truncated(host, scan, DaemonConfigPath)
            /\ <<DaemonConfigPath, 1>> \in scan.garbled -> "malformed"
       [] OTHER -> "present"

\* a binary that cannot be looked at counts as one that is not there
FindDaemon(host, scan) ==
  \E p \in DaemonBinaries \ (scan.denied \cup scan.broken) :
     InodeAt(host, p) = "present" \/ p \in DOMAIN host.links

CollectDocker(host, scan) ==
  LET state == IF scan.reach = 0 THEN "error" ELSE ReadConfig(host, scan)
  IN  [error |-> "", installed |-> FindDaemon(host, scan), state |-> state,
       doc   |-> IF state = "present" THEN host.files[DaemonConfigPath][1] ELSE NoDocument]

\* the arguments of all the commands, in order
ServiceOf(unit) ==
  LET execs == List(unit, "ExecStart")
      args[n \in 0..Len(execs)] == IF n = 0 THEN << >> ELSE args[n - 1] \o execs[n].value
  IN  [error |-> "", state |-> unit.state, fragments |-> unit.fragments, args |-> args[Len(execs)]]

CollectDockerService(host, scan) ==
  IF scan.reach = 0 THEN [error |-> "", state |-> "error", fragments |-> {}, args |-> << >>]
  ELSE ServiceOf(Assemble(host, scan, DockerUnit, "Service", {"ExecStart"}))

------------------------------------------------------------------------------
(* Readings of the command line.                                           *)

StringFlags(u, flag) == SelectSeq(u.args, LAMBDA a : a.flag = flag)

\* the last one given, or ""
StringFlag(u, flag) ==
  LET all == StringFlags(u, flag) IN IF all = << >> THEN "" ELSE all[Len(all)].value

UnitHosts(u)       == {a.value : a \in Elements(StringFlags(u, "host"))}
Ambiguities(u)     == StringFlags(u, "$") # << >>
IncompleteUnit(u)  == IncompleteFragments(u.fragments)

UnreadFragments(u) ==
  CASE u.state \in {"absent", "masked"} -> {}
    [] u.state = "present" -> {f.path : f \in IncompleteUnit(u)}
    [] OTHER -> {DockerUnit}

TlsVerified(u, d) ==
  \/ StringFlag(u, "tlsverify") \notin {"", "false", "0", "f", "no", "off"}
  \/ d.state = "present" /\ d.doc.tlsVerify = "true"

UnitReason(u) ==
  IF u.state = "denied" \/ (\E f \in IncompleteUnit(u) : f.state = "denied")
  THEN ReasonPermission ELSE ReasonAmbiguousState

------------------------------------------------------------------------------

Applicable(d, oc) ==
  CASE ~d.installed -> NotApplicable
    [] d.installed /\ d.state \in {"present", "absent"} -> oc
    [] d.installed /\ d.state = "denied"    -> CannotTell(ReasonPermission, {DaemonConfigPath})
    [] d.installed /\ d.state = "malformed" -> CannotTell(ReasonParse, {DaemonConfigPath})
    [] d.installed /\ d.state = "truncated" -> CannotTell(ReasonTruncated, {DaemonConfigPath})
    [] OTHER -> CannotTell(ReasonAmbiguousState, {DaemonConfigPath})

ServiceApplicable(u, oc) ==
  CASE u.state = "present" -> oc
    [] u.state \in {"absent", "masked"} -> NotApplicable
    [] u.state = "denied"    -> CannotTell(ReasonPermission, {DockerUnit})
    [] u.state = "truncated" -> CannotTell(ReasonTruncated, {DockerUnit})
    [] OTHER -> CannotTell(ReasonAmbiguousState, {DockerUnit})

PassOrFail(b) == IF b THEN PassesFor({DaemonConfigPath}) ELSE Fails({DaemonConfigPath})

CONTAINERS_0001(d, u) ==
  Applicable(d, PassOrFail(d.doc.usernsRemap # "" \/ StringFlag(u, "userns-remap") # ""))

CONTAINERS_0002(d) == Applicable(d, PassOrFail(d.doc.noNewPrivileges = "true"))

CONTAINERS_0003(d) == Applicable(d, PassOrFail(d.doc.icc = "false"))

CONTAINERS_0004(d) == Applicable(d, PassOrFail(d.doc.liveRestore = "true"))

CONTAINERS_0005(d) == Applicable(d, PassOrFail(d.doc.experimental # "true"))

CONTAINERS_0006(u, d) ==
  LET gaps == IncompleteUnit(u) # {} \/ Ambiguities(u) \/ "other" \in UnitHosts(u)
  IN  ServiceApplicable(u,
        CASE "tcp" \in UnitHosts(u) ->
               IF TlsVerified(u, d) THEN PassesFor({DockerUnit}) ELSE Fails({DockerUnit})
          [] "tcp" \notin UnitHosts(u) /\ gaps -> CannotTell(UnitReason(u), {DockerUnit})
          [] OTHER -> PassesFor({DockerUnit}))

CONTAINERS_0007(d, u) ==
  Applicable(d,
    CASE "tcp" \in d.doc.hosts -> PassOrFail(TlsVerified(u, d))
      [] "tcp" \notin d.doc.hosts /\ "other" \in d.doc.hosts ->
           CannotTell(ReasonAmbiguousState, {DaemonConfigPath})
      [] OTHER -> PassesFor({DaemonConfigPath}))

(* The file's log driver outranks the command line's, and where the command*)
(* line matters all of it must have been read.                             *)
UnitMayHide(u) == UnreadFragments(u) # {} \/ Ambiguities(u)

RotatingDrivers == {"local", "journald", "syslog"}
ShippingDrivers == {"awslogs", "fluentd", "gcplogs", "gelf", "splunk"}

CONTAINERS_0008(d, u) ==
  LET flag    == StringFlag(u, "log-driver")
      driver  == CASE d.doc.logDriver # "" -> d.doc.logDriver
                   [] d.doc.logDriver = "" /\ flag # "" -> flag
                   [] OTHER -> "json-file"
      bounded == \E a \in Elements(StringFlags(u, "log-opt")) : a.value = "max-size"
      hidden  == CannotTell(UnitReason(u), {DaemonConfigPath})
      onDriver ==
        CASE driver = "none" -> PassOrFail(FALSE)
          [] driver = "json-file" ->
               CASE d.doc.maxSize -> PassOrFail(TRUE)
                 [] ~d.doc.maxSize /\ UnitMayHide(u) -> hidden
                 [] OTHER -> PassOrFail(bounded)
          [] driver \in RotatingDrivers \cup ShippingDrivers -> PassOrFail(TRUE)
          [] OTHER -> CannotTell(ReasonAmbiguousState, {DaemonConfigPath})
  IN  Applicable(d, IF d.doc.logDriver = "" /\ UnitMayHide(u) THEN hidden ELSE onDriver)

CollectContainers(host, scan) ==
  [docker |-> CollectDocker(host, scan), service |-> CollectDockerService(host, scan)]

ContainersVerdicts(f) ==
  LET d == f.docker
      u == f.service
  IN  [CONTAINERS_0001 |-> CONTAINERS_0001(d, u), CONTAINERS_0002 |-> CONTAINERS_0002(d),
       CONTAINERS_0003 |-> CONTAINERS_0003(d), CONTAINERS_0004 |-> CONTAINERS_0004(d),
       CONTAINERS_0005 |-> CONTAINERS_0005(d), CONTAINERS_0006 |-> CONTAINERS_0006(u, d),
       CONTAINERS_0007 |-> CONTAINERS_0007(d, u), CONTAINERS_0008 |-> CONTAINERS_0008(d, u)]
==============================================================================
