---------------------------- MODULE FilesysChecks ----------------------------
(***************************************************************************)
(* What the one filesystem walk found: the interests and tallies the       *)
(* catalog registers with it, and the FILESYS checks over them.            *)
(*                                                                         *)
(* The walk itself is module Walker.  Here it is what Walker promises: the *)
(* rows are inodes of the host, and a walk that did not see all of them is *)
(* marked truncated.  host.order is the sequence of paths a walk visits;   *)
(* host.inodes[p] has the inode's type, its bits, its owners, the          *)
(* directories above it, and the trees it is in that the checks tell apart.*)
(***************************************************************************)
EXTENDS UsersChecks

MountInfoPath == "/proc/self/mountinfo"

------------------------------------------------------------------------------
(* The interests, as predicates of an inode.                               *)

suid(i)               == i.type = "file" /\ i.suid
sgid(i)               == i.type = "file" /\ i.sgid
world_writable(i)     == i.type \notin {"dir", "link"} /\ i.worldWritable
world_writable_dir(i) == i.type = "dir" /\ i.worldWritable
device_outside_dev(i) == i.type = "device" /\ ~i.inDev

(* The walk goes no deeper than a directory it may not list, and stops     *)
(* where the budget ends.                                                  *)
Visited(host, scan) ==
  {p \in Elements(Upto(host.order, scan.reach)) : host.inodes[p].above \cap scan.denied = {}}

WalkIsWhole(host, scan) ==
  /\ scan.reach >= Len(host.order)
  /\ \A p \in Visited(host, scan) : host.inodes[p].type = "dir" => p \notin scan.denied

\* interesting: the paths whose inode the interest matches
Matches(host, scan, interesting) ==
  [error |-> "", complete |-> WalkIsWhole(host, scan),
   rows  |-> [p \in Visited(host, scan) \cap interesting |-> host.inodes[p]]]

(* The mount table: a later line for the same point shadows the earlier.   *)
CollectMounts(host, scan) ==
  LET known == ReadFile(host, scan, MountInfoPath) = "present" /\ ~Truncated(host, scan, MountInfoPath)
      table == host.files[MountInfoPath]
      point(n) == table[n].point
      last == {n \in DOMAIN table : \A k \in DOMAIN table : point(k) = point(n) => k <= n}
  IN  [error |-> "", known |-> known, entries |-> IF known THEN {table[n] : n \in last} ELSE {}]

CollectFilesys(host, scan) ==
  LET those(interest(_)) == {p \in DOMAIN host.inodes : interest(host.inodes[p])}
  IN  [suid     |-> Matches(host, scan, those(suid)),
       sgid     |-> Matches(host, scan, those(sgid)),
       files    |-> Matches(host, scan, those(world_writable)),
       dirs     |-> Matches(host, scan, those(world_writable_dir)),
       devices  |-> Matches(host, scan, those(device_outside_dev)),
       owners   |-> [error |-> "", complete |-> WalkIsWhole(host, scan),
                     uids |-> {host.inodes[p].uid : p \in Visited(host, scan)},
                     gids |-> {host.inodes[p].gid : p \in Visited(host, scan)}],
       mounts   |-> CollectMounts(host, scan),
       users    |-> CollectUsers(host, scan)]

------------------------------------------------------------------------------

RowsWith(m, P(_)) == {p \in DOMAIN m.rows : P(m.rows[p])}

MustBeComplete(oc, facts) ==
  IF \A m \in facts : m.complete THEN oc ELSE CannotTell(ReasonTruncated, oc.subject)

NoneMayBe(bad, facts) == IF bad # {} THEN Fails(bad) ELSE MustBeComplete(Passes, facts)

Writable(i) == i.groupWritable \/ i.worldWritable

FILESYS_0001(w) ==
  NoneMayBe(RowsWith(w.suid, Writable) \cup RowsWith(w.sgid, Writable),
            {w.suid, w.sgid})

FILESYS_0002(w) ==
  NoneMayBe(RowsWith(w.suid, LAMBDA i : ~i.inBinDirs) \cup RowsWith(w.sgid, LAMBDA i : ~i.inBinDirs),
            {w.suid, w.sgid})

FILESYS_0003(w) == NoneMayBe(DOMAIN w.files.rows, {w.files})

FILESYS_0004(w) == NoneMayBe(RowsWith(w.dirs, LAMBDA i : ~i.sticky), {w.dirs})

FILESYS_0005(w) == NoneMayBe(RowsWith(w.dirs, LAMBDA i : i.inSystemDirs), {w.dirs})

FILESYS_0006(w) == NoneMayBe(DOMAIN w.devices.rows, {w.devices})

EvalMount(m, point, required) ==
  LET at == {e \in m.entries : e.point = point}
  IN CASE ~m.known -> CannotTell(ReasonTruncated, {point})
       [] m.known /\ at = {} -> Fails({point})
       [] OTHER -> IF \A e \in at : required \subseteq e.options
                   THEN PassesFor({point}) ELSE Fails({point})

FILESYS_0007(w) == EvalMount(w.mounts, "/tmp", {"nodev", "nosuid", "noexec"})
FILESYS_0008(w) == EvalMount(w.mounts, "/dev/shm", {"nodev", "nosuid", "noexec"})
FILESYS_0009(w) == EvalMount(w.mounts, "/home", {"nodev", "nosuid"})

\* a stray identity only counts where the local file is the whole database
NotAuthoritative(nss, db, d) ==
  ~LocalFilesAuthoritative(nss, db) \/ d.compat # {} \/ d.malformed # {}

FILESYS_0010(w) ==
  LET u        == w.users
      strayUID == w.owners.uids \ {u.passwd.entries[n].uid : n \in DOMAIN u.passwd.entries}
      strayGID == w.owners.gids \ {u.group.entries[n].gid : n \in DOMAIN u.group.entries}
  IN CASE strayUID = {} /\ strayGID = {} -> MustBeComplete(Passes, {w.owners})
       [] \/ strayUID # {} /\ NotAuthoritative(u.nsswitch, "passwd", u.passwd)
          \/ strayGID # {} /\ NotAuthoritative(u.nsswitch, "group", u.group) ->
            CannotTell(ReasonAmbiguousState, {NSSwitchPath})
       [] OTHER -> Fails({"unowned"})

FilesysVerdicts(w) ==
  [FILESYS_0001 |-> FILESYS_0001(w), FILESYS_0002 |-> FILESYS_0002(w),
   FILESYS_0003 |-> FILESYS_0003(w), FILESYS_0004 |-> FILESYS_0004(w),
   FILESYS_0005 |-> FILESYS_0005(w), FILESYS_0006 |-> FILESYS_0006(w),
   FILESYS_0007 |-> FILESYS_0007(w), FILESYS_0008 |-> FILESYS_0008(w),
   FILESYS_0009 |-> FILESYS_0009(w),
   FILESYS_0010 |-> Require(w.users.passwd, Require(w.users.group,
                      Require(w.users.nsswitch, FILESYS_0010(w))))]
==============================================================================
