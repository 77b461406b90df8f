----------------------------- MODULE Remediation -----------------------------
(***************************************************************************)
(* The script `scan --fix` proposes, and what becomes of a host on which   *)
(* the operator runs it, interrupts it, and runs it again.                 *)
(*                                                                         *)
(* plumbline writes the script and runs nothing.  Generate turns failed    *)
(* checks into commands from what their evidence cites; the commands are   *)
(* the shell helpers of the script itself and a few programs of the host.  *)
(* `set -e` ends a run at the first command that fails.  Notes, quoting and*)
(* commands that change nothing a check looks at (daemon-reload, enabling a*)
(* unit, outgoing policy, messages) are left out.                          *)
(***************************************************************************)
EXTENDS Rescan, SequencesExt

CONSTANTS
  MaxEvidenceRows,   \* how many inodes a finding cites
  SysctlOrder,       \* the sysctl.d files there can be, by name, as they are loaded
  MaxStarts          \* how often the operator starts the script

ASSUME RowsAssumption == MaxEvidenceRows \in Nat

VARIABLES
  original, found,   \* the host the script was made for and what its scan had found
  planned, script,   \* the checks it is to fix, and its commands
  at,                \* the command the shell is at, or 0 if it is not running
  starts, complete,  \* how often it was started, and whether the last run got to its end
  backups,           \* backups[p]: what FILE.bak holds
  torn,              \* the files a failed write has left empty at some time
  stunted,           \* the files whose FILE.bak is not the original: a failed copy, or older than the script
  missing            \* the programs the host does not have

remediation == <<original, found, planned, script, at, starts, complete, backups, torn, stunted,
                 missing>>

------------------------------------------------------------------------------
(* From findings to commands.                                              *)

DropIn      == "/etc/sysctl.d/99-plumbline-hardening.conf"
UFWConfPath == "/etc/ufw/ufw.conf"

Cmd(op, path, arg) == [op |-> op, path |-> path, arg |-> arg]

ForEach(items, commands(_)) == FlattenSeq([n \in DOMAIN items |-> commands(items[n])])

(* What the evidence of a failed check cites; rows of the walk are capped. *)
PathsFrom(c) ==
  CASE c = "AUTH_0004" ->
         SetToSeq({p \in DOMAIN host.files :
                     \E l \in Auth!Offenders(Auth!CollectPAM(host, scan)) : l.file = p})
    [] c \in {"FILESYS_0003", "FILESYS_0004"} ->
         Cron!Upto(ForEach(host.order, LAMBDA p : IF p \in verdicts[c].subject THEN <<p>> ELSE << >>),
                   MaxEvidenceRows)
    [] OTHER -> SetToSeq(verdicts[c].subject)

ModeFix(c, op) == ForEach(PathsFrom(c), LAMBDA p : <<Cmd(op, p, "")>>)

CronFix(c) == ForEach(PathsFrom(c), LAMBDA p : <<Cmd("chown root", p, ""), Cmd("chmod owner", p, "")>>)

PamNullokFix(c) == ForEach(PathsFrom(c), LAMBDA p : <<Cmd("backup", p, ""), Cmd("sed nullok", p, "")>>)

SysctlPairs ==
  [KERNEL_0004 |-> <<[key |-> <<"", "dmesg_restrict">>, value |-> "1"]>>,
   KERNEL_0016 |-> <<[key |-> <<"", "tcp_syncookies">>, value |-> "1"]>>,
   KERNEL_0026 |-> <<[key |-> <<"all", "accept_ra">>, value |-> "0"],
                     [key |-> <<"default", "accept_ra">>, value |-> "0"]>>,
   KERNEL_0030 |-> <<[key |-> <<"", "protected_hardlinks">>, value |-> "1"]>>]

\* live first, then persistently
SysctlFix(c) ==
  LET pairs == SysctlPairs[c]
  IN  [n \in DOMAIN pairs |-> Cmd("sysctl -w", "", pairs[n])]
        \o [n \in DOMAIN pairs |-> Cmd("sysctl_set", DropIn, pairs[n])]

LoginDefsFix(key, value) ==
  <<Cmd("backup", Auth!LoginDefsPath, ""),
    Cmd("logindefs_set", Auth!LoginDefsPath, [key |-> key, value |-> value])>>

DockerJSONFix ==
  <<Cmd("need", "", "python3"), Cmd("backup if present", Containers!DaemonConfigPath, ""),
    Cmd("json_set", Containers!DaemonConfigPath, "default")>>

Sandboxing ==
  [SERVICES_0006 |-> [file |-> "50-plumbline-nonewprivileges.conf", name |-> "NoNewPrivileges", value |-> "yes"],
   SERVICES_0007 |-> [file |-> "50-plumbline-protectsystem.conf", name |-> "ProtectSystem", value |-> "full"],
   SERVICES_0008 |-> [file |-> "50-plumbline-protecthome.conf", name |-> "ProtectHome", value |-> "yes"]]

UnitDropIns(unit)  == Systemd!Join(Systemd!AdminDir, unit \o ".d")
DropInOf(unit, c)  == Systemd!Join(UnitDropIns(unit), Sandboxing[c].file)
SandboxFix(c)      == ForEach(PathsFrom(c), LAMBDA unit : <<Cmd("dropin", DropInOf(unit, c), [unit |-> unit, check |-> c])>>)

AppArmorFix == <<Cmd("aa-enforce", "", "")>>

\* a firewall other than ufw among the cited files that exist; every candidate is cited where none is active
OtherFirewall(c) ==
  \E s \in Network!CollectFirewall(host, scan).sources :
     /\ c = "NETWORK_0001" \/ s.path \in verdicts[c].subject
     /\ s.state # "absent"
     /\ s.kind # "ufw"

UfwFix(c) ==
  IF OtherFirewall(c) THEN << >>
  ELSE <<Cmd("need", "", "ufw"), Cmd("ufw default deny", Network!UFWDefaultPath, ""),
         Cmd("ufw enable", UFWConfPath, "")>>

(* The registry, in the order of the script.                               *)
Fixable == <<"AUTH_0004", "AUTH_0005", "CONTAINERS_0001", "CRON_0001", "CRON_0002", "FILESYS_0003",
  "FILESYS_0004", "KERNEL_0004", "KERNEL_0016", "KERNEL_0026", "KERNEL_0030", "NETWORK_0001",
  "NETWORK_0002", "SERVICES_0006", "SERVICES_0007", "SERVICES_0008", "SERVICES_0010", "USERS_0012">>

\* a fix that declines has no commands
Build(c) ==
  CASE c = "AUTH_0004"       -> PamNullokFix(c)
    [] c = "AUTH_0005"       -> LoginDefsFix("ENCRYPT_METHOD", "sha512")
    [] c = "CONTAINERS_0001" -> DockerJSONFix
    [] c \in {"CRON_0001", "CRON_0002"} -> CronFix(c)
    [] c = "FILESYS_0003"    -> ModeFix(c, "chmod o-w")
    [] c = "FILESYS_0004"    -> ModeFix(c, "chmod a+t")
    [] c \in DOMAIN SysctlPairs -> SysctlFix(c)
    [] c \in {"NETWORK_0001", "NETWORK_0002"} -> UfwFix(c)
    [] c \in DOMAIN Sandboxing -> SandboxFix(c)
    [] c = "SERVICES_0010"   -> AppArmorFix
    [] c = "USERS_0012"      -> LoginDefsFix("PASS_MIN_DAYS", "1")

Failing(v) == {c \in DOMAIN v : v[c].result = "FAIL"}
Passing(v) == {c \in DOMAIN v : v[c].result = "PASS"}

(* Only what failed and is not accepted is fixed.                          *)
Generate(accepted) ==
  {c \in Cron!Elements(Fixable) \cap (Failing(verdicts) \ accepted) : Build(c) # << >>}

Script(actions) ==
  ForEach(Fixable, LAMBDA c : IF c \in actions THEN Build(c) ELSE << >>)
    \o IF actions \cap DOMAIN SysctlPairs # {} THEN <<Cmd("sysctl --system", "", "")>> ELSE << >>

------------------------------------------------------------------------------
(* What the commands do.                                                   *)

Content(h, p) == IF p \in DOMAIN h.files THEN h.files[p] ELSE << >>

Write(h, p, lines) ==
  [h EXCEPT !.files = [q \in DOMAIN h.files \cup {p} |-> IF q = p THEN lines ELSE h.files[q]]]

\* the first of the matching lines becomes the new one, later ones go, and without any it is appended
Rewritten(lines, matching, new) ==
  IF matching = {} THEN Append(lines, new)
  ELSE FlattenSeq([n \in DOMAIN lines |->
         CASE n = Min(matching) -> <<new>>
           [] n # Min(matching) /\ n \in matching -> << >>
           [] OTHER -> <<lines[n]>>])

\* Merge, and the helper that is the same in shell: an exclusion has no "=" and is no setting
Merge(lines, pair) ==
  Rewritten(lines, {n \in DOMAIN lines : lines[n].kind = "set" /\ lines[n].key = pair.key},
            [kind |-> "set", key |-> pair.key, value |-> pair.value])

\* mutant: the setting is added at the end, where the first one in the file hides it
LoginDefsAppended(lines, pair) == Append(lines, pair)

\* later settings of the key are commented out
LoginDefsSet(lines, pair) ==
  Rewritten(lines, {n \in DOMAIN lines : lines[n].key = pair.key}, pair)

SysctlSet(h, pair) ==
  LET old == h.dirs
  IN  [Write(h, DropIn, Merge(Content(h, DropIn), pair))
         EXCEPT !.dirs = [n \in DOMAIN old |->
           IF old[n].dir # "/etc/sysctl.d" THEN old[n]
           ELSE [old[n] EXCEPT !.files = SelectSeq(SysctlOrder,
                  LAMBDA f : f = DropIn \/ f \in Cron!Elements(old[n].files))]]]

(* `sysctl --system` loads every file again, by name and not by directory; *)
(* a value the kernel does not take is left as it was.                     *)
SysctlSystem(h) ==
  LET files == SelectSeq(SysctlOrder, LAMBDA f : \E n \in DOMAIN h.dirs : f \in Cron!Elements(h.dirs[n].files))
      sc    == [lines |-> ForEach(files, LAMBDA f : Content(h, Kernel!Resolved(h, f)))
                            \o Content(h, Kernel!MainConfigFile)]
      takes(v) == Kernel!IsNumeral(v) \/ v \in DOMAIN CoreDumps
  IN  [h EXCEPT !.running = [k \in DOMAIN h.running |->
         IF Kernel!IsConfigured(sc, k) /\ takes(Kernel!EffectiveConfigured(sc, k))
         THEN Kernel!EffectiveConfigured(sc, k) ELSE h.running[k]]]

WriteDropIn(h, p, unit, s) ==
  LET dir == UnitDropIns(unit)
      old(d) == IF d \in DOMAIN h.dirs THEN h.dirs[d] ELSE [ino |-> 1000, entries |-> << >>]
      with(d, e) == IF e \in Cron!Elements(old(d).entries) THEN old(d)
                    ELSE [old(d) EXCEPT !.entries = Append(@, e)]
  IN  [Write(h, p, <<[section |-> "Service", name |-> s.name, reset |-> FALSE, value |-> s.value]>>)
         EXCEPT !.dirs = [d \in DOMAIN h.dirs \cup {Systemd!AdminDir, dir} |->
           CASE d = dir -> with(d, s.file)
             [] d = Systemd!AdminDir -> with(d, unit \o ".d")
             [] OTHER -> h.dirs[d]]]

WithoutNullok(l) ==
  IF l.kind = "rule" /\ l.module = "pam_unix.so"
  THEN [l EXCEPT !.args = [a \in DOMAIN l.args \ {"nullok"} |-> l.args[a]]] ELSE l

\* chown and chmod follow a link, to an inode the collectors do not look at
ChangeInode(h, p, change(_)) ==
  IF h.inodes[p].isSymlink THEN h ELSE [h EXCEPT !.inodes[p] = change(@)]

Effect(cmd, h) ==
  LET p == cmd.path
  IN CASE cmd.op = "chown root"  -> ChangeInode(h, p, LAMBDA i : [i EXCEPT !.rootOwned = TRUE])
       [] cmd.op = "chmod owner" -> ChangeInode(h, p, LAMBDA i : [i EXCEPT !.writable = FALSE, !.readable = FALSE])
       [] cmd.op = "chmod o-w"   -> [h EXCEPT !.inodes[p].worldWritable = FALSE]
       [] cmd.op = "chmod a+t"   -> [h EXCEPT !.inodes[p].sticky = TRUE]
       [] cmd.op = "sed nullok"  -> Write(h, p, [n \in DOMAIN h.files[p] |-> WithoutNullok(h.files[p][n])])
       [] cmd.op = "logindefs_set" -> Write(h, p, LoginDefsSet(Content(h, p), cmd.arg))
       [] cmd.op = "sysctl -w"     -> [h EXCEPT !.running[cmd.arg.key] = cmd.arg.value]
       [] cmd.op = "sysctl_set"    -> SysctlSet(h, cmd.arg)
       [] cmd.op = "sysctl --system" -> SysctlSystem(h)
       [] cmd.op = "json_set" ->
            LET doc == IF Content(h, p) = << >> THEN Containers!NoDocument ELSE h.files[p][1]
            IN  Write(h, p, <<[doc EXCEPT !.usernsRemap = cmd.arg]>>)
       [] cmd.op = "dropin" -> WriteDropIn(h, p, cmd.arg.unit, Sandboxing[cmd.arg.check])
       [] cmd.op = "aa-enforce" /\ "aa-enforce" \notin missing /\ Systemd!ProfilesPath \in DOMAIN h.files ->
            Write(h, Systemd!ProfilesPath,
                  [n \in DOMAIN h.files[Systemd!ProfilesPath] |->
                     IF h.files[Systemd!ProfilesPath][n] = "complain" THEN "enforce"
                     ELSE h.files[Systemd!ProfilesPath][n]])
       [] cmd.op = "ufw default deny" ->
            Write(h, p, <<[says |-> "policy", word |-> "drop"]>>
                          \o SelectSeq(Content(h, p), LAMBDA l : l.says # "policy"))
       [] cmd.op = "ufw enable" ->
            Write(h, p, <<[says |-> "enabled", word |-> "yes"]>>
                          \o SelectSeq(Content(h, p), LAMBDA l : l.says # "enabled"))
       [] OTHER -> h

\* what makes a command fail
Works(cmd, h) ==
  CASE cmd.op = "need"      -> cmd.arg \notin missing
    [] cmd.op = "backup"    -> cmd.path \in DOMAIN h.files
    [] cmd.op = "sysctl -w" -> cmd.arg.key \in DOMAIN h.running
    [] cmd.op = "sysctl_set" -> \E n \in DOMAIN h.dirs : h.dirs[n].dir = "/etc/sysctl.d"
    [] OTHER -> TRUE

\* mutant: every run makes a backup of what it finds
BackUpAgain(cmd, h) ==
  IF cmd.op \in {"backup", "backup if present"} /\ cmd.path \in DOMAIN h.files
  THEN [p \in DOMAIN backups \cup {cmd.path} |-> IF p = cmd.path THEN h.files[p] ELSE backups[p]]
  ELSE backups

\* once, so that it stays the original
BackUp(cmd, h) ==
  IF cmd.op \in {"backup", "backup if present"} /\ cmd.path \in DOMAIN h.files \ DOMAIN backups
  THEN [p \in DOMAIN backups \cup {cmd.path} |-> IF p = cmd.path THEN h.files[p] ELSE backups[p]]
  ELSE backups

\* the helpers that write a file in place; a key that is already right in daemon.json is not written
Overwrites(cmd, h) ==
  \/ cmd.op \in {"logindefs_set", "sysctl_set", "dropin"}
  \/ cmd.op = "json_set" /\ Effect(cmd, h) # h

------------------------------------------------------------------------------
(* The operator.                                                           *)

\* the files that may have a FILE.bak of an older date
Keepable == IF family \in {"auth", "containers"} THEN FilesOf(host) ELSE {}

RInit ==
  /\ Init
  /\ original = host /\ found = verdicts
  /\ planned = {} /\ script = << >> /\ at = 0 /\ starts = 0 /\ complete = FALSE
  /\ \E older \in {{}, Keepable} : backups = [p \in older |-> << >>] /\ stunted = older
  /\ torn = {} /\ missing = {}

\* the programs a host may be without
Absentable ==
  CASE family = "containers" -> {"python3"}
    [] family = "services"   -> {"aa-enforce"}
    [] family = "network" /\ UFWConfPath \notin DOMAIN host.files -> {"ufw"}
    [] OTHER -> {}

(* A scan with nothing in its way, and at most one risk accepted.          *)
Propose ==
  /\ Gaps = {} /\ script = << >>
  /\ \E accepted \in {{}} \cup {{c} : c \in Failing(verdicts)}, absent \in {{}, Absentable} :
       /\ Generate(accepted) # {}
       /\ planned' = Generate(accepted)
       /\ script'  = Script(Generate(accepted))
       /\ missing' = absent
  /\ UNCHANGED <<vars, original, found, at, starts, complete, backups, torn, stunted>>

StartScript ==
  /\ script # << >> /\ at = 0 /\ starts < MaxStarts
  /\ at' = 1 /\ starts' = starts + 1 /\ complete' = FALSE
  /\ UNCHANGED <<vars, original, found, planned, script, backups, torn, stunted, missing>>

InScript == at \in DOMAIN script

Step ==
  /\ InScript /\ Works(script[at], host)
  /\ host' = Effect(script[at], host)
  /\ backups' = BackUp(script[at], host)
  /\ at' = at + 1
  /\ UNCHANGED <<family, scan, verdicts, truth, original, found, planned, script, starts, complete,
                 torn, stunted, missing>>

Abort ==
  /\ InScript /\ ~Works(script[at], host)
  /\ at' = 0
  /\ UNCHANGED <<vars, original, found, planned, script, starts, complete, backups, torn, stunted,
                 missing>>

Interrupt ==
  /\ InScript
  /\ at' = 0
  /\ UNCHANGED <<vars, original, found, planned, script, starts, complete, backups, torn, stunted,
                 missing>>

(* The disk is full, or the script is killed, as the shell writes a file   *)
(* back: it has been cut to nothing by then, and the script ends.          *)
WriteFails ==
  /\ InScript /\ Works(script[at], host) /\ Overwrites(script[at], host)
  /\ host' = Write(Effect(script[at], host), script[at].path, << >>)
  /\ torn' = torn \cup {script[at].path}
  /\ at' = 0
  /\ UNCHANGED <<family, scan, verdicts, truth, original, found, planned, script, starts, complete,
                 backups, stunted, missing>>

\* the same for the copy: it is there from then on, and it is empty
BackupFails ==
  /\ InScript /\ Works(script[at], host) /\ BackUp(script[at], host) # backups
  /\ backups' = [BackUp(script[at], host) EXCEPT ![script[at].path] = << >>]
  /\ stunted' = stunted \cup {script[at].path}
  /\ at' = 0
  /\ UNCHANGED <<vars, original, found, planned, script, starts, complete, torn, missing>>

ScanAfter ==
  /\ script # << >> /\ at = Len(script) + 1
  /\ at' = 0 /\ complete' = TRUE
  /\ verdicts' = VerdictsOf(family, host, scan)
  /\ truth' = verdicts'
  /\ UNCHANGED <<family, host, scan, original, found, planned, script, starts, backups, torn,
                 stunted, missing>>

(* original and found follow the scan until a script is made from it.      *)
Rescanned == Next /\ found' = verdicts' /\ UNCHANGED <<original, planned, script, at, starts,
                                                        complete, backups, torn, stunted, missing>>

RNext ==
  \/ Rescanned
  \/ Propose \/ StartScript \/ Step \/ Abort \/ Interrupt \/ WriteFails \/ BackupFails \/ ScanAfter

RSpec == RInit /\ [][RNext]_<<vars, remediation>>

------------------------------------------------------------------------------

(* Where a complete run does not do what it was made for.                  *)

After(names, x) == {names[n] : n \in {k \in DOMAIN names : \E j \in 1..(k - 1) : names[j] = x}}

\* a sysctl.d file that sorts after the drop-in, or sysctl.conf, has the last word on a key
Overridden(c) ==
  LET lines == UNION {Cron!Elements(Content(original, Kernel!Resolved(original, f))) :
                        f \in After(SysctlOrder, DropIn) \cup {Kernel!MainConfigFile}}
  IN  \E n \in DOMAIN SysctlPairs[c] : \E l \in lines : l.kind = "set" /\ l.key = SysctlPairs[c][n].key

\* so does a drop-in of the unit that sorts after plumbline's
Overruled(c) ==
  \E unit \in found[c].subject, root \in Cron!Elements(Systemd!Roots),
     name \in After(DropInNames, Sandboxing[c].file) :
       \E l \in Cron!Elements(Content(original, Systemd!Join(Systemd!Join(root, unit \o ".d"), name))) :
          l.name = Sandboxing[c].name

Undelivered(c) ==
  CASE c = "AUTH_0005" -> found[c].subject = {"pam_unix.so"}   \* its argument decides, not login.defs
    [] c = "CRON_0002" -> \E p \in found[c].subject : ~original.inodes[p].isDir
    [] c \in {"FILESYS_0003", "FILESYS_0004"} -> Cardinality(found[c].subject) > MaxEvidenceRows
    [] c \in DOMAIN SysctlPairs -> Overridden(c)
    [] c \in DOMAIN Sandboxing  -> Overruled(c)
    [] c = "SERVICES_0010" -> "aa-enforce" \in missing \/ original.files[Systemd!EnabledPath] # <<"Y">>
    [] OTHER -> FALSE

InPlace == {DropIn, Auth!LoginDefsPath, Containers!DaemonConfigPath}

\* checks of running values the next boot would have failed too, and of lines a torn file has lost
Lost ==
  {c \in Passing(found) :
     \/ torn \cap InPlace # {}
     \/ family = "kernel" /\ VerdictsOf(family, SysctlSystem(original), scan)[c].result # "PASS"}

\* the host after one run from the beginning to the end
Straight ==
  LET run[n \in 0..Len(script)] == IF n = 0 THEN original ELSE Effect(script[n], run[n - 1])
  IN  run[Len(script)]

(* Once the script has run to its end, however often it was interrupted,   *)
(* aborted by `set -e` or hit by a full disk before, the next scan fails   *)
(* none of the checks it was made for (Generate) and no check that passed; *)
(* the exceptions are named above.  UNKNOWN is possible: the drop-in can   *)
(* contradict another directory's file.  Two runs are one: unless a write  *)
(* failed half-way, the host is as one run without a break leaves it.      *)
ScriptDelivers ==
  complete =>
    /\ \A c \in planned : verdicts[c].result = "FAIL" => Undelivered(c)
    /\ \A c \in Passing(found) : verdicts[c].result = "FAIL" => c \in Lost
    /\ torn \cap InPlace = {} => host = Straight

(* Whatever becomes of a run, and however often the script is started over,*)
(* what a file held before the first run is in its backup: a later run does*)
(* not replace the backup by what an earlier one left, and a write that    *)
(* fails half-way and leaves the file empty comes after the backup.  The   *)
(* drop-in for sysctl has no backup, and a copy that was cut short, or was *)
(* there before the script, is kept as it is.                              *)
OriginalsKept ==
  /\ \A p \in DOMAIN backups \ stunted : p \in FilesOf(original) => backups[p] = original.files[p]
  /\ \A p \in (torn \cap InPlace) \ {DropIn} : p \in FilesOf(original) => p \in DOMAIN backups
==============================================================================
