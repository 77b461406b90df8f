----------------------------- MODULE KernelChecks ----------------------------
(***************************************************************************)
(* Kernel parameters: the collector of the running values under /proc/sys  *)
(* and of the sysctl configuration, and the KERNEL checks over both.       *)
(*                                                                         *)
(* A key is a pair of an interface and a leaf; the interface is "" for the *)
(* keys that have none and "*" for a pattern over all of them.  A line of a*)
(* configuration file is [kind, key, value], its kind "set" or "exclude"   *)
(* (a "-key" without a value); the others are skipped by the parser.       *)
(* host.running[key] is a running value, host.interfaces the interfaces,   *)
(* and host.dirs the configuration directories in the collector's order,   *)
(* as [dir, ino, files] with the .conf files in lexical order.  A failure's*)
(* severity, which drops when the running kernel already complies, is left *)
(* out.                                                                    *)
(***************************************************************************)
EXTENDS Values

CONSTANTS
  KeyOrder,    \* every key there can be, in the order they are read
  Masks,       \* the numerals of any base, which only sysrq's reader takes: a function to values
  CoreDumps    \* where a core pattern leads: "pipe", "relative", "shared" or "private"

MainConfigFile    == "/etc/sysctl.conf"
InterfaceConfDir  == "/proc/sys/net/ipv4/conf"
MaxConfigLinkHops == 4

Key(leaf) == <<"", leaf>>

PerInterfaceLeaves == {"accept_redirects", "accept_source_route", "rp_filter", "send_redirects"}

------------------------------------------------------------------------------
(* The collector.                                                          *)

\* the file of /proc/sys that holds a key
KeyPath(key) == key[1] \o "/" \o key[2]

ReadRunning(host, scan, key) ==
  CASE KeyPath(key) \in scan.denied -> [state |-> "denied"]
    [] KeyPath(key) \in scan.broken \ scan.denied -> [state |-> "error"]
    [] KeyPath(key) \notin scan.denied \cup scan.broken /\ key \notin DOMAIN host.running ->
         [state |-> "absent"]
    [] OTHER -> [state |-> "observed", value |-> host.running[key]]

\* an interface directory that cannot be listed in full leaves no interface to ask about
EnumerateInterfaces(host, scan) ==
  IF \/ InterfaceConfDir \in scan.denied \cup scan.broken
     \/ Cardinality(host.interfaces) > scan.cap
  THEN {} ELSE host.interfaces

ProbedKeys(host, scan) ==
  SelectSeq(KeyOrder, LAMBDA k : k[2] \in PerInterfaceLeaves =>
                                   k[1] \in EnumerateInterfaces(host, scan))

(* A directory reached under two names is read once; one that cannot be    *)
(* listed is skipped, and of a listing that was cut, which nothing says,   *)
(* what was kept is used.                                                  *)
ConfigFileList(host, scan) ==
  LET dirs  == host.dirs
      first(n) == \A k \in 1..(n - 1) : dirs[k].ino # dirs[n].ino
      kept(n)  == Upto(dirs[n].files, scan.cap)
      list[n \in 0..Len(dirs)] ==
        CASE n = 0 -> << >>
          [] n > 0 /\ (~first(n) \/ dirs[n].dir \in scan.denied \cup scan.broken) -> list[n - 1]
          [] OTHER -> list[n - 1] \o [f \in DOMAIN kept(n) |->
                                        [dir |-> dirs[n].dir, file |-> kept(n)[f]]]
  IN  list[Len(dirs)]

\* where a configuration file is, its links followed for a few hops
Resolved(host, file) ==
  LET hop[n \in 0..MaxConfigLinkHops] ==
        IF n = 0 THEN file
        ELSE IF hop[n - 1] \in DOMAIN host.links THEN host.links[hop[n - 1]] ELSE hop[n - 1]
  IN  hop[MaxConfigLinkHops]

\* what reading one file adds: its lines, or the kind of the failure, or nothing
ReadConfigFile(host, scan, f) ==
  LET target == Resolved(host, f.file)
      read   == IF target \in DOMAIN host.links THEN "link" ELSE ReadFile(host, scan, target)
      gone   == [read |-> FALSE, lines |-> << >>, unreadable |-> ""]
  IN CASE read = "absent" -> gone
       [] read = "denied" -> [gone EXCEPT !.unreadable = "permission"]
       [] read \in {"error", "irregular", "link"} -> [gone EXCEPT !.unreadable = "internal"]
       [] read = "binary" -> [gone EXCEPT !.unreadable = "parse"]
       [] read = "present" ->
            IF Truncated(host, scan, target) THEN [gone EXCEPT !.unreadable = "truncated"]
            ELSE [gone EXCEPT !.read = TRUE,
                              !.lines = [n \in DOMAIN host.files[target] |->
                                           [kind  |-> host.files[target][n].kind,
                                            key   |-> host.files[target][n].key,
                                            value |-> host.files[target][n].value,
                                            dir   |-> f.dir]]]

(* The context is looked at before each key and each file of a directory;  *)
(* /etc/sysctl.conf, which counts as a directory of its own, is read anyway.*)
CollectSysctl(host, scan) ==
  LET keys   == ProbedKeys(host, scan)
      probed == Elements(Upto(keys, scan.reach))
      rest   == IF scan.reach > Len(keys) THEN scan.reach - Len(keys) ELSE 0
      files  == Upto(ConfigFileList(host, scan), rest)
                  \o <<[dir |-> MainConfigFile, file |-> MainConfigFile]>>
      reads  == [n \in DOMAIN files |-> ReadConfigFile(host, scan, files[n])]
      lines[n \in 0..Len(files)] == IF n = 0 THEN << >> ELSE lines[n - 1] \o reads[n].lines
  IN  [error      |-> "",
       running    |-> [k \in probed |-> ReadRunning(host, scan, k)],
       lines      |-> lines[Len(files)],
       anyFile    |-> \E n \in DOMAIN reads : reads[n].read,
       unreadable |-> [n \in {k \in DOMAIN reads : reads[k].unreadable # ""} |-> reads[n].unreadable]]

------------------------------------------------------------------------------
(* Accessors of the fact.                                                  *)

IsGlob(key)               == key[1] = "*"
GlobMatches(pattern, key) == IsGlob(pattern) /\ key[1] # "" /\ pattern[2] = key[2]

Literal(sc, key)      == SelectSeq(sc.lines, LAMBDA l : l.kind = "set" /\ l.key = key)
ExcludedFrom(sc, key) == /\ Literal(sc, key) = << >>
                         /\ \E l \in Elements(sc.lines) : l.kind = "exclude" /\ l.key = key

(* A literal line outranks a pattern wherever the two stand, and an        *)
(* exclusion takes the key out of every pattern.                           *)
SettingsFor(sc, key) ==
  CASE Literal(sc, key) # << >> -> Literal(sc, key)
    [] ExcludedFrom(sc, key)    -> << >>
    [] OTHER -> SelectSeq(sc.lines, LAMBDA l : l.kind = "set" /\ GlobMatches(l.key, key))

IsConfigured(sc, key)        == SettingsFor(sc, key) # << >>
EffectiveConfigured(sc, key) == LET all == SettingsFor(sc, key) IN all[Len(all)].value

DirectoryWinners(sc, key) ==
  LET all == SettingsFor(sc, key)
  IN  {all[n] : n \in {k \in DOMAIN all : \A j \in (k + 1)..Len(all) : all[j].dir # all[k].dir}}

\* two directories whose last words on a key differ: the loaders may disagree
ConfiguredConflict(sc, key) ==
  \E v, w \in DirectoryWinners(sc, key) : v.value # w.value

Observed(sc, key) == key \in DOMAIN sc.running /\ sc.running[key].state = "observed"
IsInt(sc, key)    == Observed(sc, key) /\ IsNumeral(sc.running[key].value)
IntValue(sc, key) == Number(sc.running[key].value)

RunningMatching(sc, leaf) == {k \in DOMAIN sc.running : k[1] # "" /\ k[2] = leaf}
Interfaces(sc, leaf) == {k \in RunningMatching(sc, leaf) : k[1] \notin {"all", "default", "lo"}}

AllRead(sc) == DOMAIN sc.unreadable = {}

\* any file refused outranks how the others failed, and the first of them how the rest did
UnknownReasonFor(kinds) ==
  LET first == kinds[CHOOSE n \in DOMAIN kinds : \A k \in DOMAIN kinds : n <= k]
  IN CASE "permission" \in Elements(kinds) -> ReasonPermission
       [] "permission" \notin Elements(kinds) /\ first = "truncated" -> ReasonTruncated
       [] "permission" \notin Elements(kinds) /\ first = "parse" -> ReasonParse
       [] OTHER -> ReasonAmbiguousState

------------------------------------------------------------------------------
(* What the checks share.                                                  *)

\* onValue: the verdict on a value that was observed
RunningFor(sc, key, onValue) ==
  IF key \notin DOMAIN sc.running THEN CannotTell("internal_error", {key})
  ELSE LET r == sc.running[key]
       IN CASE r.state = "absent"   -> NotApplicableFor({key})
            [] r.state = "denied"   -> CannotTell(ReasonPermission, {key})
            [] r.state = "error"    -> CannotTell(ReasonAmbiguousState, {key})
            [] r.state = "observed" -> onValue

IntCheck(sc, key, acceptable) ==
  LET v == sc.running[key].value
  IN  RunningFor(sc, key, CASE ~IsNumeral(v) -> CannotTell(ReasonParse, {key})
                            [] IsNumeral(v) /\ Number(v) \in acceptable -> PassesFor({key})
                            [] OTHER -> Fails({key}))

PersistenceGate(sc, keys, oc) ==
  LET absent(k) == k \in DOMAIN sc.running /\ sc.running[k].state = "absent"
  IN CASE \A k \in keys : absent(k) -> NotApplicable
       [] (\E k \in keys : ~absent(k)) /\ ~sc.anyFile /\ AllRead(sc) -> NotApplicable
       [] (\E k \in keys : ~absent(k)) /\ ~AllRead(sc) ->
            CannotTell(UnknownReasonFor(sc.unreadable), {})
       [] OTHER -> IF \E k \in keys : ConfiguredConflict(sc, k)
                   THEN CannotTell(ReasonAmbiguousState, {k \in keys : ConfiguredConflict(sc, k)})
                   ELSE oc

\* one parameter written to the configuration: its value is a "pass", a "fail" or "unclear"
Persistent(sc, key, verdict) ==
  PersistenceGate(sc, {key},
    IF ~IsConfigured(sc, key) THEN Fails({key})
    ELSE CASE verdict = "pass" -> PassesFor({key})
           [] verdict = "fail" -> Fails({key})
           [] verdict = "unclear" -> CannotTell(ReasonAmbiguousState, {key}))

Configured(sc, leaf) == EffectiveConfigured(sc, Key(leaf))

PassIf(b) == IF b THEN "pass" ELSE "fail"

\* several parameters, every one of which must be written with an accepted value
CheckRequirements(sc, keys, met) ==
  PersistenceGate(sc, keys, IF keys \subseteq met THEN Passes ELSE Fails(keys \ met))

AllAndDefault(leaves) == {"all", "default"} \X leaves

SetToZero(sc, keys) ==
  LET zero(v) == IsNumeral(v) /\ Number(v) = 0
  IN  {k \in keys : IsConfigured(sc, k) /\ zero(EffectiveConfigured(sc, k))}

------------------------------------------------------------------------------
(* The running kernel.                                                     *)

AtLeast1 == Nat \ {0}

KERNEL_0001(sc) == IntCheck(sc, Key("randomize_va_space"), {2})
KERNEL_0002(sc) == IntCheck(sc, Key("kptr_restrict"), AtLeast1)
KERNEL_0003(sc) == IntCheck(sc, Key("ptrace_scope"), AtLeast1)
KERNEL_0004(sc) == IntCheck(sc, Key("dmesg_restrict"), AtLeast1)
KERNEL_0005(sc) == IntCheck(sc, Key("suid_dumpable"), {0, 2})
KERNEL_0006(sc) == IntCheck(sc, Key("unprivileged_bpf_disabled"), {1, 2})

(* The running value of every key that the configuration sets.             *)
KERNEL_0007(sc) ==
  LET set        == {k \in DOMAIN sc.running : IsConfigured(sc, k)}
      ambiguous  == {k \in set : ConfiguredConflict(sc, k)}
      configured == {k \in set \ ambiguous : Observed(sc, k)}
      drifted    == {k \in configured : sc.running[k].value # EffectiveConfigured(sc, k)}
  IN CASE drifted # {} -> Fails(drifted)
       [] drifted = {} /\ ~AllRead(sc) -> CannotTell(UnknownReasonFor(sc.unreadable), {})
       [] drifted = {} /\ AllRead(sc) /\ ambiguous # {} ->
            CannotTell(ReasonAmbiguousState, ambiguous)
       [] OTHER -> IF configured = {} THEN NotApplicable ELSE Passes

(* The stricter of the interface's value and that of "all" applies.        *)
KERNEL_0008(sc) ==
  LET all        == <<"all", "rp_filter">>
      ifaces     == Interfaces(sc, "rp_filter")
      considered == {k \in ifaces : IsInt(sc, k)}
      denied     == {k \in ifaces : \/ sc.running[k].state = "denied"
                                    \/ Observed(sc, k) /\ ~IsInt(sc, k)}
      raised     == IsInt(sc, all) /\ IntValue(sc, all) > 0
      unfiltered == {k \in considered : IntValue(sc, k) = 0 /\ ~raised}
  IN CASE RunningMatching(sc, "rp_filter") = {} -> CannotTell(ReasonFactMissing, {})
       [] unfiltered # {} -> Fails(unfiltered)
       [] unfiltered = {} /\ considered # {} -> Passes
       [] OTHER -> IF denied # {} THEN CannotTell(ReasonPermission, denied) ELSE NotApplicable

KERNEL_0009(sc) == IntCheck(sc, Key("protected_symlinks"), AtLeast1)
KERNEL_0010(sc) == IntCheck(sc, Key("protected_hardlinks"), AtLeast1)
KERNEL_0011(sc) == IntCheck(sc, Key("protected_fifos"), AtLeast1)
KERNEL_0012(sc) == IntCheck(sc, Key("protected_regular"), AtLeast1)
KERNEL_0013(sc) == IntCheck(sc, Key("perf_event_paranoid"), Nat \ {0, 1})

KERNEL_0014(sc) ==
  LET key == Key("core_pattern")
      v   == sc.running[key].value
  IN  RunningFor(sc, key, CASE v = "" -> CannotTell(ReasonAmbiguousState, {key})
                            [] v # "" /\ CoreDumps[v] \in {"pipe", "private"} -> PassesFor({key})
                            [] OTHER -> Fails({key}))

(* Here "all" and the interface must both be non-zero.                     *)
KERNEL_0015(sc) ==
  LET all        == <<"all", "accept_source_route">>
      ifaces     == Interfaces(sc, "accept_source_route")
      allKnown   == IsInt(sc, all)
      considered == {k \in ifaces : IsInt(sc, k)}
      raised     == {k \in considered : IntValue(sc, k) # 0}
      accepting  == IF allKnown THEN raised ELSE {}
      unreadable == (ifaces \ considered) \cup (raised \ accepting)
  IN CASE RunningMatching(sc, "accept_source_route") = {} -> CannotTell(ReasonFactMissing, {})
       [] allKnown /\ IntValue(sc, all) = 0 -> Passes
       [] ~(allKnown /\ IntValue(sc, all) = 0) /\ accepting # {} -> Fails(accepting)
       [] ~(allKnown /\ IntValue(sc, all) = 0) /\ accepting = {} /\ unreadable # {} ->
            CannotTell(ReasonPermission, unreadable)
       [] OTHER -> IF considered = {} THEN NotApplicable ELSE Passes

KERNEL_0016(sc) == IntCheck(sc, Key("tcp_syncookies"), AtLeast1)

------------------------------------------------------------------------------
(* What the configuration will make of the next boot.                      *)

KERNEL_0017(sc) ==
  LET accepted(k) == IF k = Key("bpf_jit_harden") THEN {"2"} ELSE {"1", "2"}
      keys        == {Key("unprivileged_bpf_disabled"), Key("bpf_jit_harden")}
      met(k)      == IsConfigured(sc, k) /\ EffectiveConfigured(sc, k) \in accepted(k)
  IN  CheckRequirements(sc, keys, {k \in keys : met(k)})

KERNEL_0018(sc) ==
  LET v == Configured(sc, "kptr_restrict")
  IN  Persistent(sc, Key("kptr_restrict"), PassIf(v \in {"1", "2"}))

KERNEL_0019(sc) ==
  LET v == Configured(sc, "dmesg_restrict")
  IN  Persistent(sc, Key("dmesg_restrict"), PassIf(v = "1"))

KERNEL_0020(sc) ==
  LET v == Configured(sc, "ptrace_scope")
  IN  Persistent(sc, Key("ptrace_scope"), CASE v \in {"1", "2", "3"} -> "pass"
                                            [] v = "0" -> "fail"
                                            [] OTHER -> "unclear")

KERNEL_0021(sc) ==
  LET v == Configured(sc, "sysrq")
  IN  Persistent(sc, Key("sysrq"), IF v \in DOMAIN Masks THEN PassIf(Masks[v] = 0) ELSE "unclear")

KERNEL_0022(sc) ==
  LET v == Configured(sc, "perf_event_paranoid")
  IN  Persistent(sc, Key("perf_event_paranoid"),
                 IF IsNumeral(v) THEN PassIf(Number(v) >= 2) ELSE "unclear")

KERNEL_0023(sc) ==
  LET v == Configured(sc, "tcp_syncookies")
  IN  Persistent(sc, Key("tcp_syncookies"),
                 IF IsNumeral(v) /\ Number(v) >= 0 THEN PassIf(Number(v) >= 1) ELSE "unclear")

(* "all" may be withheld from a pattern, if the pattern covers every       *)
(* interface there is.                                                     *)
RpFilterPatternCovers(sc) ==
  LET on(v)  == IsNumeral(v) /\ Number(v) >= 1
      ifaces == {k \in RunningMatching(sc, "rp_filter") : k[1] \notin {"all", "default"}}
      pattern == Literal(sc, <<"*", "rp_filter">>)
  IN  IF ifaces # {}
      THEN \A k \in ifaces : IsConfigured(sc, k) /\ on(EffectiveConfigured(sc, k))
      ELSE pattern # << >> /\ on(pattern[Len(pattern)].value)

KERNEL_0024(sc) ==
  LET all    == <<"all", "rp_filter">>
      keys   == AllAndDefault({"rp_filter"})
      met(k) == IF IsConfigured(sc, k)
                THEN LET v == EffectiveConfigured(sc, k) IN IsNumeral(v) /\ Number(v) \in {1, 2}
                ELSE k = all /\ ExcludedFrom(sc, k) /\ RpFilterPatternCovers(sc)
  IN  CheckRequirements(sc, keys, {k \in keys : met(k)})

KERNEL_0025(sc) ==
  LET keys == AllAndDefault({"accept_source_route", "accept_redirects"})
  IN  CheckRequirements(sc, keys, SetToZero(sc, keys))

KERNEL_0026(sc) ==
  LET keys == AllAndDefault({"accept_ra"}) IN CheckRequirements(sc, keys, SetToZero(sc, keys))

KERNEL_0027(sc) ==
  LET keys == AllAndDefault({"send_redirects"}) IN CheckRequirements(sc, keys, SetToZero(sc, keys))

KERNEL_0028(sc) ==
  LET v == Configured(sc, "tcp_rfc1337")
  IN  Persistent(sc, Key("tcp_rfc1337"), IF IsNumeral(v) THEN PassIf(Number(v) = 1) ELSE "unclear")

KERNEL_0029(sc) ==
  LET v == Configured(sc, "suid_dumpable")
  IN  Persistent(sc, Key("suid_dumpable"),
                 IF IsNumeral(v) /\ Number(v) \in 0..2 THEN PassIf(Number(v) # 1) ELSE "unclear")

LinkProtection(sc, leaf) ==
  LET v == Configured(sc, leaf)
  IN  Persistent(sc, Key(leaf), IF IsNumeral(v) THEN PassIf(Number(v) >= 1) ELSE "unclear")

KERNEL_0030(sc) == LinkProtection(sc, "protected_hardlinks")
KERNEL_0031(sc) == LinkProtection(sc, "protected_symlinks")

KernelVerdicts(sc) ==
  [KERNEL_0001 |-> KERNEL_0001(sc), KERNEL_0002 |-> KERNEL_0002(sc), KERNEL_0003 |-> KERNEL_0003(sc),
   KERNEL_0004 |-> KERNEL_0004(sc), KERNEL_0005 |-> KERNEL_0005(sc), KERNEL_0006 |-> KERNEL_0006(sc),
   KERNEL_0007 |-> KERNEL_0007(sc), KERNEL_0008 |-> KERNEL_0008(sc), KERNEL_0009 |-> KERNEL_0009(sc),
   KERNEL_0010 |-> KERNEL_0010(sc), KERNEL_0011 |-> KERNEL_0011(sc), KERNEL_0012 |-> KERNEL_0012(sc),
   KERNEL_0013 |-> KERNEL_0013(sc), KERNEL_0014 |-> KERNEL_0014(sc), KERNEL_0015 |-> KERNEL_0015(sc),
   KERNEL_0016 |-> KERNEL_0016(sc), KERNEL_0017 |-> KERNEL_0017(sc), KERNEL_0018 |-> KERNEL_0018(sc),
   KERNEL_0019 |-> KERNEL_0019(sc), KERNEL_0020 |-> KERNEL_0020(sc), KERNEL_0021 |-> KERNEL_0021(sc),
   KERNEL_0022 |-> KERNEL_0022(sc), KERNEL_0023 |-> KERNEL_0023(sc), KERNEL_0024 |-> KERNEL_0024(sc),
   KERNEL_0025 |-> KERNEL_0025(sc), KERNEL_0026 |-> KERNEL_0026(sc), KERNEL_0027 |-> KERNEL_0027(sc),
   KERNEL_0028 |-> KERNEL_0028(sc), KERNEL_0029 |-> KERNEL_0029(sc), KERNEL_0030 |-> KERNEL_0030(sc),
   KERNEL_0031 |-> KERNEL_0031(sc)]
==============================================================================
