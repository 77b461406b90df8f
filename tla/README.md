# Plumbline in TLA+

Plumbline is a Linux hardening scanner. It collects facts about a host with a
set of concurrent collectors, keeps them with the files they were read from in
a portable evidence bundle, evaluates a catalog of 112 checks over the facts,
and turns the findings into a report and an exit code. Its promise is that it
never guesses: what could not be observed becomes an `UNKNOWN` with a reason,
and never a `PASS`. That promise is kept or broken in two places. One is the
machinery around the parsers: who may write a fact and when, what survives a
timeout, when a partial observation calls itself complete, in which order
acceptances, scores and gates are applied. The other is each collector and each
check: whether a refused file, a broken link or a read that was cut short still
shows in the verdict. This project models both, and the remediation scripts
plumbline proposes, checks them with TLC, and proves the safety properties of
the machinery with TLAPS: for every registry, host, catalog and set of limits,
where a run has a small instance of each.

`PROJECT.json` maps every definition to the lines it models.

## The system

The state of a scan passes through these parts. Paths are under `src/internal`.

| Part | State it keeps | Operations | Module |
|---|---|---|---|
| collector runner, `collect/runner.go` | a goroutine, a worker and a private fact set for each collector; closed channels; the one-place slot for expensive collectors; the run's fact set | `Run`, `runOne`, `record`, `mergeInto`, `observe` | `Runner`, `FactSet`, `Collection` |
| registry, `collect/collect.go` | collectors by ID with their dependency lists | `Register`, `findCycle`, `Order`, `MissingDependencies` | `Registry` |
| evidence recorder and store, `collect/evidence.go`, `bundle/evidence.go` | blobs by digest, truncated sources | `ReadFile`, `Add`, `MarkTruncated`, `index` | `SaveBundle` |
| bundle, `bundle/bundle.go` | the archive on disk | `Write`, `Read` | `SaveBundle` |
| `collect` command, `cli/collect.go`, `cli/pipeline.go`, `system/signal.go` | the scan's context and its cause; the exit code | collect, ask once about an interrupt, save, exit | `SaveBundle` |
| walker, `collect/walker` | the directory stack, visited identities, counters, one fact for each interest and tally | `Walk`, `walkRoot`, `offer`, `fold`, the limits | `Walker` |
| catalog engine, `catalog/catalog.go` | none | `EvaluateOne`, `EvaluateWith` | `Findings`, `Evaluation` |
| profiles, suppressions, score | a profile; a rule file; counts and weights | `applyProfile`, `Parse`, `Apply`, `Compute` | `Findings` |
| `eval` command, `cli/eval.go`, `cli/exit.go` | findings, score, exit code | load, evaluate, scope, suppress, score, render, gate | `Evaluation` |
| `diff` command, `diff/diff.go`, `cli/diff.go` | two finding sets and the changes | `Compare`, `classify`, `pairBySingleton` | `Diff` |
| collectors and fact types, `collect/collectors/*`, `collect/unit`, `fact` | none: a host in, facts out | the reads, in order; includes, drop-ins, links, masks; what is recorded for a read that fails | the `...Checks` modules, `LoginDefs`, `Units`, `Values` |
| checks, `catalog/checks/*` | none | 112 functions from facts to a verdict | the `...Checks` modules, composed by `Rescan` |
| remediation, `remediate` | the script; on the host: files, backups, running values | `Generate`, 18 fixes, the shell helpers of the script | `Remediation` |
| progress stream, `render/text/stream.go`, `cli/scan.go` | the event queue, the terminal's last line, the flags of its goroutines | `emit`, `next`, `drain`, `tick`, `Await`, `Stop`, `Close` | `Stream` |

How they interact: the command gives `Run` a context that ends for one of two
reasons (`--timeout`, a signal), a system wrapped by the evidence recorder, and
an observer that feeds the progress stream. `Run` returns when every collector
is accounted for, not when every `Collect` has returned. A `Collect` that
outlived its budget keeps its goroutine, its private set and its access to the
recorder. This one fact is behind most of what is hard here. `Write` then reads
the fact set and the evidence store without the runner's mutex; evaluation reads
the fact set; the stream's drawing goroutine is still behind.

The hard behaviours, and what correctness means for each part:

* *runner*: interleavings of goroutines, budgets and the end of the scan; late
  answers; panics. Correct: every fact a collector answers for is either merged
  from a `Collect` that returned or has an error of the right kind, the slot is
  never lost, nothing writes the set after `Run`, and `Run` returns.
* *registry*: cycles that appear with the last registration; repeated and
  unregistered dependencies. Correct: no accepted registry can deadlock a run.
* *evidence and bundle*: a store that grows while it is archived; a writer
  killed at any member; facts, evidence and errors that are encoded at different
  moments; a signal the command asks about once. Correct: a partial file is never
  read as a whole one, a written one can be read, and an interrupted collection
  leaves none.
* *walker*: limits that fire in any order over a tree with cycles, boundaries
  and holes. Correct: a fact calls itself complete only if all of its scope was
  seen.
* *evaluation*: absent, failed and undecodable facts; expiring acceptances;
  gates that hold at once. Correct: no verdict from a gap, nothing hidden, the
  same answer for the same bundle at any later time.
* *diff*: subjects that change with the verdict. Correct: what is called fixed
  is fixed, and no move is missing.
* *collectors and checks*: a scan sees part of a host (paths refused, files that
  fail to read, lines that do not parse, a deadline in the middle, reads that are
  capped), and the same setting may stand in several files with their own rules
  of precedence. Correct: a verdict given from behind a gap is not taken back
  when the gap is closed, and privileges are only blamed where they are missing.
* *remediation*: a script that is interrupted anywhere, aborted by `set -e`, hit
  by a full disk, and started again, on files that have other writers. Correct:
  a complete run delivers what it was made for and breaks nothing, and starting
  over is safe.
* *stream*: three goroutines and the command on one terminal, stopped at any
  moment. Correct: one writer, rows in order, and every wait ends.

`PROJECT.json` lists the hazards at their lines, with the properties that are
aimed at them.

## The modules

**FactSet** is the data of `fact.Set`: a value or nothing, and an error or
nothing, for every fact ID. A value is the collector that observed it, which is
all the properties need. `Put` and `PutError` clear each other's entry.

**Collection** is the abstract specification of a collection run: collectors
are resolved one at a time, each once, after the ones they depend on if they
looked at the host, and each resolution changes the report only at its own
facts and in agreement with its outcome. It has no goroutines, slots, budgets
or private sets.

**Runner** is `Run` with all of them. `pc[c]` is the place of collector `c`'s
goroutine, `worker[c]` the goroutine that executes `Collect`, `private[c]` the
set that worker writes, `fs` the run's set. There is one action for each select
arm and early return: `SkipUnwired`, `SkipUnprivileged`, `AwaitDependency`,
`CancelledAwaiting`, `AcquireSlot`, `CancelledQueued`, `CancelledBeforeStart`,
`Start`, the four ways to take a result, `Abandon`, `ReleaseSlot`, `Observe`,
`Close`. A select with two ready arms is a choice. Writes under the runner's
mutex are one action. Its last definition is the refinement mapping to
`Collection`: a collector is resolved when its channel is closed, and what it
has filed before that is not visible yet.

**SaveBundle** extends `Runner` with the recorder, the store and the rest of
`plumbline collect`. `ReadFile` and `MarkTruncated` are separate actions, as the
code takes the store's mutex twice; so are the three reads that make up the
index (`IndexLen`, `IndexBytes`, `IndexSources`) and the list of members
(`ListDigests`). `EncodeFacts` and `EncodeErrors` read the fact set at two moments,
before and after the index, and `encoded` keeps what they found, so a set that
moved in between would be archived as it was; `vouched` is the list of digests in
`integrity.json`, fixed with the layout. The members are written one by one,
`integrity.json` last, and `WriteFails` or `Kill` may stop this anywhere.
`Accepted` and `Reread` are `bundle.Read` of whatever is on disk, from what was
encoded and not from the set of the run. The cause of the context is kept once it
is set, as `context.Cause` does. `Sample` is the one question
(`system.Interrupted`, pipeline.go:82); the reads of `hostMeta` lie between it and
`Interrupted` or `CreateBundle`, which act on the answer, and `Signal` is possible
there too.

**Walker** is `walker.Walk` over a host that is fixed for a behaviour. Host
variants differ in what `/m` is (a directory, another filesystem, a bind mount,
something without identity), what cannot be listed, what a listing leaves out,
whether the mount table can be read and whether crossing is allowed. `List` stats
every entry of a directory, and nothing looks at the clock meanwhile
(live.go:219): `stats` is how many of these come after the deadline, `overrun` how
many entries are offered after it. `frontier`
is the stack by depth. Paths are numbered in walk order, and those above a path
are on one branch, as in a tree. `late` becomes true at any step, and is noticed only
where the code looks at the clock.

**Registry** is registration and planning as a state machine. `Register` adds a
collector and starts the depth-first search, whose steps are `Visit`, `Leave`,
`FoundCycle` (which takes the collector out again) and `FoundNone`; `Order`,
`Plan` and `Planned` are Kahn's algorithm, one iteration a step. A visit's place
in its loop needs no variable: what is before it is closed, so the next
dependency is the least one that is not.

**Findings** holds the pure functions from a bundle to scored findings, in the
order the code composes them. **Evaluation** is `plumbline eval` as a sequence
of steps over them, run twice on the same input with the clock moving in
between and during; the second run is compared with the first. A check's own
logic is an input: for each bundle and check, what it would say if it could
look, a panic included. **Diff** extends `Findings` with the comparison.

**Stream** has one action for each critical section of the stream and for each
write to the terminal, and the command `scan` around it. `screen` holds the
phases and rows drawn so far, `notes` for each line of the command's own how many
of them were above it, and `line` says whether the cursor is on a clean line,
after half a row or after a heartbeat. A
goroutine in `Cond.Wait` is asleep until an action wakes it, so a lost wake-up
is a behaviour of the model.

**Outcomes** is the vocabulary the checks share: outcomes, the reasons of an
`UNKNOWN`, the gate on missing facts, and what reading a file, a directory or a
pattern gives a scan. A scan is a record: `denied` and `broken` paths, `garbled`
lines, `reach` (how many steps a collector takes before its context ends) and
`cap` (how many lines or entries one read holds). **Values** has words and
numerals, and integers that wrap around. There is one module for each family:
**CronChecks**, **UsersChecks**, **AuthChecks** (with **LoginDefs**),
**LoggingChecks**, **NetworkChecks**, **MemoryChecks**, **FilesysChecks**,
**SshdChecks**, **KernelChecks**, **ServicesChecks** and **ContainersChecks**
(both over **Units**, the assembly of one systemd unit). In each, `Collect...`
is the family's collector, from a host and a scan to facts; each check is an
operator named by its ID; `...Verdicts` gates the checks on their facts as the
engine does. A file is a sequence of parsed lines: what splitting a line does is
left out, what is done with the lines is not.

**Rescan** composes the families. A behaviour is one host scanned by someone who
sees a little more each time; `verdicts` is what the scan reports and `truth`
what a scan with nothing in its way would report. `Next` is one of the five ways
to see more, followed by a whole scan. Three tables name the checks that do not
keep the rule, for each kind of gap.

**Remediation** extends `Rescan` with `scan --fix` and the operator. `Propose`
is `Generate` over the failed and unaccepted findings: each fix turns what its
evidence cites into commands, or declines. `Step` executes one command
(`Effect`, `BackUp`), `Abort` is `set -e`, `Interrupt` stops the script between
two commands, `WriteFails` and `BackupFails` leave a file that is written in
place empty, `StartScript` starts over, and `ScanAfter` is the scan at the end.

The `MC_` modules hold instances. `MC_Commands` also composes: collectors
registering, `eval` and `diff` share no state, so one instance extends the three,
and a behaviour is one of them while the others rest. Each `.cfg` is one run.
Operators marked as mutants are plausible mistakes in the operator that follows
them. No specification uses them; they are there to show that the property named
in `PROJECT.json` notices.

The `...Proofs` modules hold the theorems, each about the module it extends.
**RescanProofs** is about `Rescan`, the families and `Remediation` together;
**EvaluationProofs** also has the lemmas about findings that the diff needs.

## The runs

| Run | Instance | What it shows |
|---|---|---|
| `runner` | three collectors, two expensive, one dependency, one budget; 535,483 states | `SlotOwned`: one owner and no lost token on any path; `OutcomeRecorded`: what the observer was told stays true of the facts; `DependenciesFirst`; `FactOrError`; `NoHalfTruths`: no fact from a panicked, late or skipped collector; `CollectedSetFrozen`: nothing writes after `Run` has returned; `KeepsPromise`: `Run` implements `Collection` |
| `runner_wiring` | four collectors, unprivileged, with an unregistered and a repeated dependency, and one without a budget; 14,910 states | skips are recorded too, and `RunReturns` under fairness: only an unbudgeted `Collect` that never returns in a scan nobody ends can hold `Run` |
| `runner_overlap` | as `runner` | *violation* of `ExpensiveNeverOverlap` |
| `save` | two collectors, three files, one of them a credential file and one cut at the read cap; 1,654,153 states | `NoPartialBundle`: a file `Read` accepts gives back the facts and errors of the run; `EvidenceKept`; `CleanExit`; `InterruptLeavesNothing`: a signal that ended the collection before the command asked leaves no file, and 130 is such a run's code alone |
| `save_reopens`, `save_interrupt` | as `save` | *violations* of `SavedReopens` and `InterruptOutranks` |
| `walker` | 576 hosts of eight paths under three roots; 38,639 states | `CompleteMeansSeen`, `RowsAreReal`; `CountsAddUp`: `Total` is `InodesTallied` exactly when no key was dropped; `TruncationAttributed`; `OverrunBounded`: after the deadline `ClockEvery` offers and the stats of one listing at most |
| `walker_shadow` | one host with a mount under a bind-mounted directory | *violation* of `CompleteMeansSeen` |
| `commands` | all registrations of three collectors with up to two dependencies each; `eval` twice over three checks, two facts in five states, eight rule files, three profiles and three sets of gates; `diff` of all pairs of sixty bundles under five rule files; 310,054 states | `NoDeadlock`, `ReportedCycleReal`, `OrderIsThePlan`; `NoVerdictFromGaps`, `NothingHidden`, `AcceptingCostsCoverage`, `GapsAreLoudest`, `SameAnswerLater`; `ResolvedIsFixed`, `EveryMoveReported`, `UnchangedHost` |
| `stream` | two collectors, two checks; 48,844 states | `RowsInOrder`, `OneWriter`, `NotesBelowRows`, `TallyComplete`, and `CommandReturns` under fairness |
| `rescan` | eleven families, each with its own hosts; 208,068 states | `NoFalsePass`, `NoFalseFail`, `NoFalseDismissal`: no verdict of a check that is not in the table below is taken back by a better scan; `PrivilegesBlamedTruly`; `ScriptDelivers`: after a complete run of the script the checks it was made for no longer fail, none that passed fails, and a run that was interrupted and started over has left the host of one straight run; `OriginalsKept`: a backup whose copy went through holds what the file held before the first run, and a file that a failed write has emptied has a backup |
| `rescan_sshd` | the sshd hosts of `rescan` | *violation* of `NoUnverifiedPass` |

Why the bounds suffice for what is asked: a conflict over the slot needs two
expensive collectors, a dependency that is late needs a third, and an abandoned
worker that overlaps something needs one budget. In `save` one abandoned reader
and one well-behaved one produce every order of a store call with the four reads
of `Write`; `ReadCap` is 1 so that the size check of `Read` is reached. In
`walker` the depth limit is met by `/a/d/f` as a directory, both caps are lower
than what the host has, and `ClockEvery` is 2, so that a deadline can fall between
two samples. `MaxDirEntries` is 3, what the largest directory has: a walk that is
late does make as many stats as the property allows. The cut of a listing at that
cap is not met in this instance. What it does to a walk is what a partly listed
directory does, and those are among the hosts; the proofs have both. In `commands`
the scan that `eval` reads starts at time 1, rules expire at 1 or 2, and the clock
runs to 2, so a rule is met before, at and after its moment. `MaxClock`,
`MaxDeps`, `MaxInodes`, `MaxDepth` and `Checks` are the only bounds; the walker's
are limits of the code itself with small values.

In `rescan` a scan starts with two refused or failing paths (`MaxRefused`), or
with all of its lines garbled, or at the deadline, or with empty reads, and closes
its gap step by step; one kind of gap at a time, since the tables speak of one
kind, and two paths because precedence needs two files. `MaxReach` is for each
family the steps of its longest scan (66 for the kernel, whose collector looks at
its context before each key and each file) and `MaxCap` the lines of the longest
file. Some hosts have 26 files in sysctl.d, so that a cut listing can lose any of
them, and some have a drop-in for sshd that is longer than the main file.
`MaxIncludeDepth`, `MaxSymlinkHops` and `MaxEvidenceRows` are limits of the code
with small values, each below what some host has. `HalfWord` is half the range of
an integer, 2^63 in the code: the settings' product has to pass it. A script is
proposed by a scan without gaps, with at most one accepted risk, and is started
`MaxStarts` = 2 times. Either no file of the host has a backup when the operator
begins, or every one has, of some older date. A script holds the fixes of one family;
the fixes that edit one file, such as AUTH-0005 and USERS-0012 in login.defs, are
in one. The sysctl keys, the audited units, the firewall candidates and the
targets are cut down to the ones the hosts use.

`SaveBundle`, `Walker`, `Runner` and `Stream` each have a type invariant that is
not listed as a property of a run: those of `Runner`, `Walker` and `Stream` are
proved, that of `SaveBundle` is used while the model is changed.

### Verdicts a better scan takes back

The rule is CONTRIBUTING's: what cannot be verified is never a `PASS`. The tables
in `Rescan` name the checks for which the code does not keep it, so that for every
other check, and for these under every other kind of gap, the properties hold.
They are tight: for each entry, some scan of some host of `rescan` gives the
verdict and a better one takes it back. The hosts were found by searching a much
larger space than the run can hold (hundreds to thousands of hosts for each
family, put together at random from the lines, files, links and layouts its
collector tells apart), until it gave no further entry; the run has a witness of
each. The causes, by kind of gap:

* *Cut short.* Six collectors (cron, pam, services, network, logging and sysctl)
  put what they have and return nil when their context
  ends. The runner takes a nil error for a complete result, so their partial
  lists are facts like any other: a second time daemon that a later root wants, a
  mask, an include that changes the hash or the classes, a drop-in that overrides
  a key are simply not there. Users leaves its facts unset, and memory,
  filesys, docker and the sandbox collector record what they did not reach:
  their checks are in no `cut` row. sshd records the file it did not reach, and
  then does not look at the record (see below).
* *Capped.* `ReadResult.Truncated` is not looked at by the readers of PAM stacks,
  login.defs, rsyslog, journald, the firewalls and AppArmor: what is said last
  (`ENABLED=no` in ufw.conf, a `Storage`) is lost. The list of sysctl.d files is
  used as far as it goes: files that override others drop out without a mark, and
  where none is left the checks are not applicable. A cut listing of the
  interfaces counts as none. An overlong include of sshd is one more that is
  unresolved, and a later line decides. An overlong unit or drop-in is marked
  truncated, and the sandbox checks and CONTAINERS-0001, 0006 and 0007 still
  decide before they look at the marks; a cut directory of units may hold the
  mask that unmakes SERVICES-0001 to 0003.
* *Refused or failing.* sshd: `evaluate` looks at unread includes only if the
  keyword was not found. PAM: the checks of stacks take one of two layouts,
  or a stack with an unread include, for the whole, so a host with Debian's and
  Red Hat's files is judged by the one that can be read; AUTH-0004 ignores the
  services it may not read. LOGGING-0003 and 0004 ignore journald's unresolved
  includes, LOGGING-0005 rsyslog's. NETWORK-0002 ignores sources it could not
  read. A sysctl.d directory that cannot be listed is skipped; for KERNEL-0024 to
  0027 its literal lines were what kept a pattern of another file from applying.
  So are the interfaces if theirs cannot be listed; KERNEL-0008 passes on the
  interfaces it could read, and fails them without the value of `all` that would
  have raised theirs. The sandbox checks and CONTAINERS-0001, 0006, 0007 and 0008
  decide from a command line or a setting that an unread drop-in may replace, or
  from a unit that a refused root hides, and SERVICES-0001 to 0003 from a link
  whose mask may be in a refused directory.
* *Dismissed.* `NOT_APPLICABLE` comes from not finding a subject, and several
  searches take an error for an absence: dockerd (`findDaemon`), the unit of a
  service behind a refused root (`UnitAbsent` in `Installed`, `Unreadable` and
  `serviceApplicable`), cron's `installed` on an error other than a refusal, the
  profile directory of AppArmor, journald where only a drop-in configures it,
  KERNEL-0015 on a host without interfaces of its own where `all` is refused.
  USERS-0002, 0004, 0009 and 0010 dismiss
  themselves when the only lines that would apply were malformed.
* *Garbled.* CONTAINERS-0006 reports a TCP socket without TLS where the setting
  may be in a daemon.json that does not parse. USERS-0007 fails by a second line
  of root where the first, which decides, does not parse.

`PrivilegesBlamedTruly` leaves out KERNEL-0008, KERNEL-0015 and SERVICES-0011,
which blame privileges for values that are no numbers and for units that failed
to read in any way, and SERVICES-0004, which does so for a linked unit whose
target failed to read. No host of the instance shows the last; the proof did not
go through without it.

### Where a complete script does not deliver

`ScriptDelivers` excepts: AUTH-0005 where the argument of pam_unix decides and
not login.defs; CRON-0002 where the path is no directory; FILESYS-0003 and 0004
beyond the rows the evidence cites; the KERNEL fixes where 99-sysctl.conf, which
sorts after plumbline's file, or sysctl.conf sets the key too; SERVICES-0006 to
0008 where a drop-in with a later name does; SERVICES-0010 without `aa-enforce`
or with the module off. A check that passed may fail afterwards if it passed only
for a running value that `sysctl --system` replaces by the configured one, or if
a failed write has emptied a file whose other lines it needed. And a drop-in that
contradicts another directory's file turns a check into `UNKNOWN`, which is the
code's rule for two loaders that may disagree.

### Disagreements found

* `runner_overlap`: the slot belongs to the goroutine that waits for a
  `Collect`, and is given back when that goroutine gives up. An abandoned walk
  and the next expensive collector then run together, against "The runner never
  runs two at once".
* `save_reopens`: a worker that was abandoned can add a blob after `Write` has
  counted the blobs and before it lists them. The index then disagrees with the
  members, `collect` reports the bundle as written, and `Read` refuses it.
* `save_interrupt`: the first cause of a context is kept, so Ctrl-C after the
  deadline gives exit code 11 and a bundle, where CLI-SPEC 6.1 has the
  interruption outrank the timeout. (A signal that comes after the command has
  asked, during the reads of `hostMeta` or the writing, leaves a bundle and exit
  code 0 or 4: "An interrupted run produces no artifact" has no exception for it.)
* `walker_shadow`: skipping a directory whose identity was seen is not always
  safe. If a filesystem is mounted below the first path, the second shows what
  that mount hides, it is not visited, and the fact is complete all the same.

* `rescan_sshd`: sshd takes the first value it reads. A file that is included
  before the readable line and is refused may hold it; the checks report `PASS`
  from the later line, against "A check that cannot verify something must never
  report `PASS`".

Smaller ones, noted at the hazards or seen in the models and not kept as runs:
`KeysDropped` counts inodes, where fact/fstally.go:72 documents and
checks/filesys/filesys.go:143 prints distinct keys, so `CountsAddUp` is about
`Total`, which needs only whether it is zero; walker.go:642 bounds the overrun by
the time of `clockCheckEvery` (4096) stats, and one listing makes up to 100000
before the clock is looked at again; `NEWLY SUPPRESSED` and `REGRESSED` have cases
CLI-SPEC 4 does not describe; a stream that was stopped lets the command write
after half a row; the remediation engine calls its sysctl.d file the last one
loaded, and 99-sysctl.conf sorts after it; that file and the unit drop-ins have no
backup, a file the first run created is backed up by the second, and a backup that
was cut short, or that was there before plumbline, is kept; the products of sshd's
timeouts wrap around; `lastBool` and `lastEnum` say that the last *valid*
assignment counts, and their caller drops the value if an invalid one follows it.

## Fairness

`FairSpec` of `Runner` has weak fairness of each goroutine's next step and of
each budget timer. The Go scheduler runs what is runnable, and a `context`
deadline fires. There is none for `Worker`, since nothing makes a `Collect`
return, and none for `EndScan`, since nobody has to end the scan. `StrSpec` has
weak fairness of the drawing goroutine, of the command, of each collector's
report (that it comes is `RunReturns`) and of the watcher once the context has
ended. It needs no tick and no end of the context. The other modules state no
liveness: the walker, the evaluation and the diff are bounded loops.

## What is proved

Every safety property of `Runner`, `Registry`, `SaveBundle`, `Walker`,
`Evaluation`, `Diff` and `Stream` that a passing run checks is also a theorem, for
every value of the constants that satisfies the named assumptions, and so are the
refinement of `Collection` and two properties of `Rescan` and `Remediation`. None
of the properties is inductive as it stands; each proof rests on an invariant that
ties what the property speaks of to the places of the processes that bring it
about.

| Module | Theorems, and the property each one states |
|---|---|
| `RunnerProofs` | `SlotIsOwned` (`SlotOwned`), `OutcomesAreRecorded` (`OutcomeRecorded`), `DependenciesComeFirst` (`DependenciesFirst`), `NeverAmbiguous` (`FactOrError`), `NoHalfTruthIsKept` (`NoHalfTruths`), `CollectedSetIsFrozen` (`CollectedSetFrozen`, an action property), `RunKeepsPromise` (`KeepsPromise`, the refinement); from `Invariance`, with `TypeCorrect` |
| `RegistryProofs` | `NobodyWaitsForever` (`NoDeadlock`), `RefusalIsJust` (`ReportedCycleReal`), `ThePlanIsOne` (`OrderIsThePlan`); from `RegistryInvariance` |
| `SaveProofs` | `PartialIsRefused` (`NoPartialBundle`), `EvidenceIsKept` (`EvidenceKept`), `ZeroMeansClean` (`CleanExit`), `InterruptedLeavesNothing` (`InterruptLeavesNothing`), `CommandKeepsPromise` (`KeepsPromise`), the action property `WriterReadsAFrozenSet`; from `SaveInvariance` and `CommandRunsRunner` |
| `WalkerProofs` | `AbsenceIsSafe` (`CompleteMeansSeen`, on hosts without aliases), `RowsAreTrustworthy` (`RowsAreReal`), `NoInodeIsLost` (`CountsAddUp`), `CapsAreOwn` (`TruncationAttributed`), `OverrunIsBounded` (`OverrunBounded`); from `WalkInvariance`, with `WalkTypes` |
| `StreamProofs` | `DrawnInOrder` (`RowsInOrder`), `WriterIsGone` (`OneWriter`), `NotesComeBelow` (`NotesBelowRows`), `TallyIsComplete` (`TallyComplete`); from `StreamInvariance` |
| `EvaluationProofs` | `IgnoranceShows` (`NoVerdictFromGaps`), `NothingIsHidden` (`NothingHidden`), `AcceptanceCosts` (`AcceptingCostsCoverage`), `GapsComeFirst` (`GapsAreLoudest`), `AnswersDoNotAge` (`SameAnswerLater`); from `EvalInvariance` |
| `DiffProofs` | `AFixIsAFix` (`ResolvedIsFixed`), `EveryMoveIsReported` (`EveryMoveReported`), `SameHostNoNews` (`UnchangedHost`) |
| `RescanProofs` | `Blame` and `RescanBlame` (`PrivilegesBlamedTruly`, with and without remediation), `Originals` (`OriginalsKept`); from `DeliveryInvariant` |

### The runner

The assumptions are those of the constants: `CollectorAssumption` (types, and
the collectors' names being usable as fact IDs, as `blame` uses them),
`ProducesAssumption` (no two collectors answer for the same fact, which the
collectors of the repository satisfy and `Register` does not enforce), and
`NoneAssumption`. TLC evaluates them for every instance. `OutcomeRecorded`, say,
speaks of what was observed, while the facts are written several steps earlier.
The invariant is

    IInv == TypeOK /\ SlotOwned /\ NothingElse /\ \A c \in Collector : Local(c)

`Local(c)` has four parts. `Phases` ties the worker, the local status and the
observer to the place of the goroutine. `Waited` says which dependencies are
closed by then. `PrivateOwn` says a private set holds facts of its own collector
only. `Share` says what the run's set holds at the facts `c` answers for,
before, at and after its resolution. `NothingElse` closes the gap: facts nobody
answers for are never written.

The argument is one of locality. `WritesOwnShare` shows that a goroutine changes
the run's set only at its own facts, `OthersStay` that it moves nobody else, and
`LocalOfOthers` concludes that `Local` of the others is kept, by disjointness.
`OwnPhases`, `OwnWaited`, `OwnPrivate` and `OwnShare` are the collector's own
steps, one case for each action; `LocalUnderWorkers` covers a worker, abandoned
or not, whose writes are confined to its private set. `SlotStep` is the only part
that looks at two collectors at once. The lemmas at the top say what each
fact-set operation leaves at each entry, so that the steps need not unfold them.

The refinement needs nothing more than `IInv`. A collector's facts become visible
when its channel is closed, and `VisibleIsOwn` says that an entry is visible
exactly when the one collector that answers for it has closed. So `Close(c)` is
the abstract `Resolve(c)` (`CloseResolves`: `Waited` gives the dependencies,
`Share` the honesty of the report), and every other step, the writes to the set
included, is a stutter (`UnresolvedStutters`, `SilentStutters`).

### The registry

`RInv` has a part for each of the two loops. In `Searching` the open collectors
are those of the path, each a dependency of the one before it; a closed one
depends on closed ones only; and no set of closed ones waits for itself. `Leave`
is the step that matters: all the dependencies of the collector that is closed
were closed before it, so no older one depends on it, and a set that waits for
itself would do so without it. `FoundCycle` reads the cycle off the path. The
registry without the candidate is carried along, since that is what a refusal
goes back to. In `Planning` an in-degree is the number of dependencies still to
be planned, what is ready is what could come next, and every member of the plan
was the least that could come at its place. From the last follows that no other
order is lexicographically smaller (`ThePlanIsOne` looks at the first
difference), and from `NoDeadlock` that nobody is left over (`PlanIsComplete`).
`IDAssumption` says that IDs are comparable and a ghost is never registered.

### Saving

`CommandRunsRunner` comes first: each step of the command is a step of `Run` or
leaves its variables alone, so `IInv` and all that follows from it hold of
`collect`. `SInv` adds: `Stage`, which ties the file and the exit code to the
place of the command (past `collecting` only when `Run` has returned, whole at
`closing`); `Kept(c)`, what a worker has read is in the store, except for the mark
it is about to set; `Taken`, the writer's index and list cover the reads of the
collectors that reported back, since those have no read to come; and `Agree`, the
writer's four looks at the store agree if every collector succeeded. The last is
why exit code 0 implies a bundle that opens although `save_reopens` shows one that
does not: there a collector was abandoned, and the code is not 0. `Faithful` says
that what has been encoded is what the set holds and that `integrity.json` vouches
for exactly the members of the layout: from it, and from `Run` having returned, a
file that verifies holds the set. `Sampled` and `SignalsAreCauses` tie the moment
of a signal to the cause of the context, which is what the answer of `Sample` is
read from. `FileAssumption` says only that the model's `None` is neither a file
nor an exit code.

### The walker

`WInv` is `Counting` (types, the root the walk is at, and that a walk that is not
late has no stats to answer for, which is why those of one listing are all there
can be), `Overrun` (how many
entries were offered since the clock was looked at), `InsideScope` (the stack
holds directories of the present root's scope that may be entered), `Balanced`
(each inode that was folded is in a bucket or was refused one) and two of
the properties. `CountsAddUp` is about a sum over a set of keys of any size.
`MapThenSumSet` is a recursive function of subsets: `MinimalSubset` takes, by
well-founded induction, a smallest subset on which a claim fails, and from it
follow existence and uniqueness of the sum, and that adding one to an entry adds
one to the sum (`SumBumped`).

`AbsenceIsSafe` is the one that carries the promise of the scanner: what a
complete fact does not mention is not there. Its invariant is `Accounted`: every
inode in the scope of a finished root, or below a directory that was entered, is
shown by every fact that still calls itself complete, or the walk still holds
it or a directory above it (`Waiting`). Each way to drop something (a listing
that fails, a boundary, a limit, a cap) takes completeness from the facts
concerned; the one way that does not is to skip a directory that was seen. The
hypothesis `NoAliases` (a directory is known by one path, and identities are
recorded for all directories or for none) is exactly about that way, and
`walker_shadow` shows what happens without it. TLC checks the property on hosts
with bind mounts too, where it holds as long as nothing is mounted below the
first path. `WalkerAssumption` states that the paths form a forest and that the
keys are finitely many; both hold of a file system.

### The stream

`StrInv` is the type invariant with `Flow` (the screen is the beginning of what
was queued, the event in hand comes next, the pending ones after it unless a stop
dropped them), `Counters`, `LastLine` (the last line from the place of the drawing
goroutine), `Beats` (a heartbeat that is on the terminal will be erased, since
a collector is at work or a row is to come) and `Progress` (what has happened
when the command is at a place). The steps are grouped by what they do to the
queue (`StepKinds`), and each group is shown once to keep each part.

### Evaluation and diff

`EInv` says that the findings are, at each place of the command, the function of
the bundle and the options that the code composes up to there, and that an
earlier evaluation left the same (`Before`); no clock occurs in it, which is the
whole of `AnswersDoNotAge`. The rest are lemmas about the operators:
`EvaluateOneIs`, `ScopeIs` and `SuppressIs` say what each makes of a finding, and
`EmptySum`, `DisjointCount` and `OneFindingEach` turn the counters of `Compute`
into cardinalities of sets of checks. For the diff, `ComparePairs` shows that with
one finding of a check on each side the join pairs these two, by fingerprint or,
if the subject drifted, as leftovers; `ClassifyIs` then says from the bundles
what is reported of a check (`Expected`). `InputAssumption`, `DiffAssumption` and
`Findings`' `NoneAssumption` are what the parsers enforce: severities are
severities, an expiry is a time or nothing.

### Rescan and remediation

These are theorems about all eleven families, with any number of hosts, files,
lines, links and paths. The assumptions describe hosts and not scans.
`HostsAssumption` has two parts: `WellFormed` (a path that is no text file is one
of the things a path can be; the files of a PAM host are sequences of statements,
and an include names a type and a file of /etc/pam.d; the walk meets inodes in an
order) and `OwnFiles` (login.defs belongs to the hosts of one family and
daemon.json to those of another). `BoundsAssumption` and `RowsAssumption` say that
bounds are numbers, `ServicesAssumption` that the PAM services are distinct and
have files of their own, `ListsAssumption` that two of the code's lists are
lists. TLC evaluates all of them for the instance of the run.

`Blame` says that, on a scan that was refused nothing, no check outside
`BlameUnsure` asks for more privileges. Each family has a lemma on its reads (with
nothing denied, no read comes back as refused) and one on its checks
(`...Blames`: from such facts the checks give another reason). Most of it is a
case split. PAM is not: its stacks follow includes to a depth, and the claim has
to hold of every stack below. Recursion is written as a function of the depth
that is left; since the library's induction theorems cannot be instantiated, the
least depth at which a claim fails is taken (`LeastExists`) and led to a
contradiction with the one below (`Climb`), and `RecursionExists` shows that the
function exists. A script changes the host between two scans, so `EffectWell`
shows of each command that the host stays `WellFormed`. `RescanBlame` is the same
without a script.

`Originals` is about the copies. In a script, a command that overwrites a file
comes directly after the backup of that file (`Paired`), and every command is one
that the family's fixes use (`Fits`); `ScriptWritten` shows both of what each fix
builds and of their concatenation. `Saved` is the inductive part: a file without
a backup is as it was at first, and a shell that is right behind a copy finds a
backup. It holds at first whatever backups the host already has, and survives an
interruption before any command, a failed write that
leaves an empty file, a backup that was cut short, and a new start: a backup is
made only where there is none. `DeliveryInvariant` joins these, `Delivery` being
`Watching` (the family, the host, the scan and its verdicts), `Written`, the
place in the script, and `Saved`.

### Only model-checked

* Liveness (`RunReturns`, `CommandReturns`), which is out of the prover's reach.
* `NoFalsePass`, `NoFalseFail` and `NoFalseDismissal`. That a check outside the
  tables keeps its verdict for every host needs what each collector and each check
  computes from files of any length: induction over data. Scans with three and
  more refused paths are not in the run either; with two of them every pair of
  files that precedence can play against each other is.
* `ScriptDelivers`. That a repeated or resumed script ends at the host of a
  straight run needs every pair of its commands to commute or to be idempotent,
  and that the checks pass then needs all of what each check computes, over files
  whose lines are replaced and appended to: induction over data.

## What is not modelled

* From bytes to lines: splitting a line into words, quoting, octal modes, the
  fields of an ELF image. A file is a sequence of parsed lines, and a line that
  no parser takes is one of the scan's gaps.
* What a finding says: titles, details, evidence text, the severity tiers of a
  failure, control mappings. A verdict is a result, a reason and subjects.
* Encodings: JSON, tar, zstd, digests. Two equal digests are equal contents.
* Floating point. Coverage and posture are compared as fractions. The code
  divides doubles, and 29/50 of one hundred is 57.99999999999999 there.
* Renderers, sanitizing, flag parsing, the spinner, the operating system behind
  the seam: output, text or I/O. The text, JSON and SARIF renderers are functions
  of findings that are decided by then, and no property here tells texts apart.
* In `Remediation`: quoting, notes, and commands that change nothing a check
  looks at (daemon-reload, enabling a unit, ufw's outgoing policy).
* Faults in Go's runtime, and memory pressure: the stream's queue is unbounded
  in the code and in the model.

## Plan

Done: the runner with its abstract specification; saving a bundle; the walker;
the registry; evaluation and diff; the stream; the collectors and checks of all
eleven families over partial scans; remediation; the safety proofs of all of
these except for the table properties of `Rescan` and `ScriptDelivers`.

Next, in this order:

1. Gap lemmas for the smaller families (cron, network, filesys): that a check
   which is in no table keeps its verdict, for every host.
2. `Scan`: the `scan` command composed from collection, saving and evaluation,
   with its own exit ladder; and `collect` followed by `eval` against `scan`.
3. An abstract bundle (a value that is written whole or not at all) which
   `SaveBundle` implements up to the exception `save_reopens` shows.
