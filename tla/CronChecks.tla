------------------------------ MODULE CronChecks -----------------------------
(***************************************************************************)
(* Who may write the cron schedule: the collector of the cron paths'       *)
(* metadata and the five CRON checks over it.                              *)
(*                                                                         *)
(* Owner and mode are abstracted to what the checks tell apart: owned by   *)
(* root, writable and readable by anyone else.                             *)
(***************************************************************************)
EXTENDS Outcomes

CONSTANT DropInDirs   \* the drop-in directories, in the collector's order

CrontabPath == "/etc/crontab"
AllowPath   == "/etc/cron.allow"
DenyPath    == "/etc/cron.deny"

DropIns == {DropInDirs[k] : k \in DOMAIN DropInDirs}

CronPaths == <<CrontabPath>> \o DropInDirs \o <<AllowPath, DenyPath>>

------------------------------------------------------------------------------
(* The collector.                                                          *)

\* an inode of a host; a path with none is not in DOMAIN host.inodes
CronInode == [isDir : BOOLEAN, isSymlink : BOOLEAN, rootOwned : BOOLEAN,
              writable : BOOLEAN, readable : BOOLEAN]

CronStat(host, scan, p) ==
  CASE p \in scan.denied -> [state |-> "denied"]
    [] p \in scan.broken \ scan.denied -> [state |-> "error"]
    [] p \notin scan.denied \cup scan.broken /\ p \notin DOMAIN host.inodes -> [state |-> "absent"]
    [] OTHER -> [state |-> "observed", inode |-> host.inodes[p]]

\* mutant: a path that was refused counts as absent
CronInstalledSeen(paths) == \E p \in DOMAIN paths : paths[p].state = "observed"

\* a path that was refused counts as present
CronInstalled(paths) == \E p \in DOMAIN paths : paths[p].state \in {"observed", "denied"}

(* Collect stops where the context ends, and puts what it has.             *)
CollectCron(host, scan) ==
  LET probed == {CronPaths[k] : k \in {n \in DOMAIN CronPaths : n <= scan.reach}}
      paths  == [p \in probed |-> CronStat(host, scan, p)]
  IN  [error |-> "", paths |-> paths, installed |-> CronInstalled(paths)]

------------------------------------------------------------------------------
(* Accessors of the fact, and the helpers the checks share.                *)

CronSelect(c, S)   == S \cap DOMAIN c.paths
CronObserved(c, S) == {p \in S : c.paths[p].state = "observed"}
Unreadable(c, S)   == {p \in S : c.paths[p].state \in {"denied", "error"}}

\* mutant: whatever could not be read needed more privileges
CronReasonAlways(path) == ReasonPermission

CronReason(path) ==
  IF path.state = "denied" THEN ReasonPermission ELSE ReasonAmbiguousState

CronFaulty(inode) == ~inode.rootOwned \/ inode.writable

\* mutant: only a path that fails to read stands in the way of a pass
UnknownIfBroken(c, considered, pass) ==
  IF \A p \in considered : c.paths[p].state # "error" THEN pass
  ELSE CannotTell(ReasonAmbiguousState, {})

UnknownIfUnreadable(c, considered, pass) ==
  IF Unreadable(c, considered) = {} THEN pass
  ELSE CannotTell(IF \E p \in considered : c.paths[p].state = "error"
                  THEN ReasonAmbiguousState ELSE ReasonPermission, {})

(* A rule over those of the paths that exist: violators break it.          *)
EveryPresent(c, considered, violators) ==
  LET present == CronObserved(c, considered)
      bad     == present \cap violators
  IN CASE present = {} /\ Unreadable(c, considered) = {} -> NotApplicable
       [] bad # {} -> Fails(bad)
       [] OTHER    -> UnknownIfUnreadable(c, considered, Passes)

------------------------------------------------------------------------------

CRON_0001(c) ==
  CASE ~c.installed -> NotApplicable
    [] c.installed /\ CrontabPath \notin DOMAIN c.paths -> CannotTell(ReasonFactMissing, {})
    [] OTHER ->
         LET p == c.paths[CrontabPath]
         IN CASE p.state = "absent" -> NotApplicable
              [] p.state \in {"denied", "error"} -> CannotTell(CronReason(p), {CrontabPath})
              [] p.state = "observed" /\ p.inode.isSymlink ->
                   CannotTell(ReasonAmbiguousState, {CrontabPath})
              [] p.state = "observed" /\ ~p.inode.isSymlink /\ CronFaulty(p.inode) ->
                   Fails({CrontabPath})
              [] OTHER -> UnknownIfUnreadable(c, {CrontabPath}, Passes)

CRON_0002(c) ==
  LET dirs      == CronSelect(c, DropIns)
      bad(i)    == ~i.isDir \/ CronFaulty(i)
      violators == {p \in CronObserved(c, dirs) : bad(c.paths[p].inode)}
  IN  IF ~c.installed THEN NotApplicable ELSE EveryPresent(c, dirs, violators)

(* An allow list that exists decides alone; without one the deny list only *)
(* changes what the failure says.                                          *)
CRON_0003(c) ==
  CASE ~c.installed -> NotApplicable
    [] c.installed /\ ~({AllowPath, DenyPath} \subseteq DOMAIN c.paths) ->
         CannotTell(ReasonFactMissing, {})
    [] OTHER ->
         LET allow == c.paths[AllowPath]
         IN CASE allow.state \in {"denied", "error"} -> CannotTell(CronReason(allow), {AllowPath})
              [] allow.state = "observed" -> Passes
              [] allow.state = "absent"   -> Fails({AllowPath})

CRON_0004(c) ==
  LET lists     == CronSelect(c, {AllowPath, DenyPath})
      violators == {p \in CronObserved(c, lists) : CronFaulty(c.paths[p].inode)}
  IN  IF ~c.installed THEN NotApplicable ELSE EveryPresent(c, lists, violators)

CRON_0005(c) ==
  LET paths     == CronSelect(c, {CrontabPath} \cup DropIns)
      violators == {p \in CronObserved(c, paths) : c.paths[p].inode.readable}
  IN  IF ~c.installed THEN NotApplicable ELSE EveryPresent(c, paths, violators)

CronVerdicts(c) ==
  [CRON_0001 |-> CRON_0001(c), CRON_0002 |-> CRON_0002(c), CRON_0003 |-> CRON_0003(c),
   CRON_0004 |-> CRON_0004(c), CRON_0005 |-> CRON_0005(c)]
==============================================================================
