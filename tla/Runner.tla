------------------------------- MODULE Runner --------------------------------
(***************************************************************************)
(* collect.Runner.Run: one goroutine per registered collector, which waits *)
(* for the collectors it depends on and, if it is Expensive, for a         *)
(* one-place slot, and then starts Collect in a second goroutine (the      *)
(* worker) and waits for its result or for its context to end.  A worker   *)
(* that outlives its context is abandoned and keeps running.               *)
(*                                                                         *)
(* Every write to the run's fact set happens under the runner's mutex and  *)
(* is one action here.  Steps that only touch a goroutine's own variables  *)
(* are merged with the step that follows them, except where another        *)
(* goroutine or the scan's context can interfere in between.               *)
(***************************************************************************)
EXTENDS Naturals, Sequences, FactSet

CONSTANTS
  Collector,   \* the IDs in the registry
  DependsOn,   \* Collector.DependsOn: a sequence of IDs, registered or not
  Produces,    \* Collector.Produces: a set of fact IDs
  Expensive,   \* the collectors whose Cost is Expensive
  CapRoot,     \* the collectors whose Requires is CapRoot
  Privileged,  \* the scan runs with euid 0
  Budgeted,    \* the collectors with a positive Timeout, their own or the runner's
  OwnKinds     \* the error kinds a collector files by itself

ASSUME CollectorAssumption ==
  /\ Value = Collector
  /\ Collector \subseteq FactID
  /\ Expensive \subseteq Collector
  /\ CapRoot \subseteq Collector
  /\ Budgeted \subseteq Collector
  /\ Privileged \in BOOLEAN
  /\ OwnKinds \subseteq ErrorKind
  /\ DOMAIN DependsOn = Collector
  /\ \A c \in Collector : DependsOn[c] \in Seq(STRING)
  /\ Produces \in [Collector -> SUBSET FactID]

(* blame: the fact IDs a runner-level failure is filed against.            *)
Blame(c) == IF Produces[c] # {} THEN Produces[c] ELSE {c}

(* No two registered collectors produce the same fact.                     *)
ASSUME ProducesAssumption ==
  \A c, d \in Collector : c # d => Blame(c) \cap Blame(d) = {}

VARIABLES
  pc,        \* where each collector's goroutine is
  dep,       \* the index of the dependency it waits for
  status,    \* its local variable status
  done,      \* the collectors whose done channel is closed
  slot,      \* the number of tokens in the channel "expensive" (capacity 1)
  ctxDone,   \* the context given to Run has ended: --timeout or a signal
  expired,   \* the collectors whose own budget has run out
  worker,    \* the goroutine that runs Collect
  result,    \* what it sent on res
  private,   \* the fact set it writes to
  observed,  \* what Observer was last told about each collector
  fs         \* the run's fact set

local == <<dep, expired, worker, result, private>>
vars  == <<pc, dep, status, done, slot, ctxDone, expired, worker, result,
           private, observed, fs>>

PC     == {"check", "deps", "slot", "begin", "start", "select", "merged",
           "release", "observe", "close", "finished"}
Status == {"ok", "failed", "skipped", "timeout"}
Failed == {"factError", "otherError"}
Result == {"ok", "panic"} \cup Failed

TypeOK ==
  /\ pc \in [Collector -> PC]
  /\ dep \in [Collector -> Nat \ {0}]
  /\ status \in [Collector -> Status]
  /\ done \subseteq Collector
  /\ slot \in {0, 1}
  /\ ctxDone \in BOOLEAN
  /\ expired \subseteq Budgeted
  /\ worker \in [Collector -> {"idle", "running", "returned"}]
  /\ result \in [Collector -> Result]
  /\ private \in [Collector -> Set]
  /\ observed \in [Collector -> Status \cup {"unseen", "started"}]
  /\ fs \in Set

Init ==
  /\ pc = [c \in Collector |-> "check"]
  /\ dep = [c \in Collector |-> 1]
  /\ status = [c \in Collector |-> "skipped"]
  /\ done = {}
  /\ slot = 0
  /\ ctxDone = FALSE
  /\ expired = {}
  /\ worker = [c \in Collector |-> "idle"]
  /\ result = [c \in Collector |-> "ok"]
  /\ private = [c \in Collector |-> NewSet]
  /\ observed = [c \in Collector |-> "unseen"]
  /\ fs = NewSet

------------------------------------------------------------------------------
(* Before Collect: wiring, privilege, dependencies, the expensive slot.    *)

Goto(c, to) == pc' = [pc EXCEPT ![c] = to]

\* mutant: the error is filed under the collector's name, where no check looks
RecordUnderName(c, kind) == fs' = PutErrors(fs, {c}, kind)

(* record files one error against everything the collector is blamed for.  *)
Record(c, kind) == fs' = PutErrors(fs, Blame(c), kind)

(* Return from the goroutine: the deferred calls start at pc "to".         *)
Return(c, to, st) ==
  /\ Goto(c, to)
  /\ status' = [status EXCEPT ![c] = st]

MissingDependencies(c) ==
  {DependsOn[c][i] : i \in DOMAIN DependsOn[c]} \ Collector

SatisfiedBy(c) == c \in CapRoot => Privileged

SkipUnwired(c) ==
  /\ pc[c] = "check"
  /\ MissingDependencies(c) # {}
  /\ Record(c, "internal")
  /\ Return(c, "observe", "skipped")
  /\ UNCHANGED <<done, slot, ctxDone, observed, local>>

SkipUnprivileged(c) ==
  /\ pc[c] = "check"
  /\ MissingDependencies(c) = {}
  /\ ~SatisfiedBy(c)
  /\ Record(c, "permission")
  /\ Return(c, "observe", "skipped")
  /\ UNCHANGED <<done, slot, ctxDone, observed, local>>

Admit(c) ==
  /\ pc[c] = "check"
  /\ MissingDependencies(c) = {}
  /\ SatisfiedBy(c)
  /\ Goto(c, "deps")
  /\ UNCHANGED <<status, done, slot, ctxDone, observed, fs, local>>

\* mutant: a dependency that has been started is taken for one that is done
AwaitDependencyEarly(c) ==
  /\ pc[c] = "deps"
  /\ dep[c] \in DOMAIN DependsOn[c]
  /\ pc[DependsOn[c][dep[c]]] \notin {"check", "deps", "slot"}
  /\ dep' = [dep EXCEPT ![c] = @ + 1]
  /\ UNCHANGED <<pc, status, done, slot, ctxDone, observed, fs, expired,
                 worker, result, private>>

AwaitDependency(c) ==
  /\ pc[c] = "deps"
  /\ dep[c] \in DOMAIN DependsOn[c]
  /\ DependsOn[c][dep[c]] \in Collector => DependsOn[c][dep[c]] \in done
  /\ dep' = [dep EXCEPT ![c] = @ + 1]
  /\ UNCHANGED <<pc, status, done, slot, ctxDone, observed, fs, expired,
                 worker, result, private>>

CancelledAwaiting(c) ==
  /\ pc[c] = "deps"
  /\ dep[c] \in DOMAIN DependsOn[c]
  /\ DependsOn[c][dep[c]] \in Collector
  /\ ctxDone
  /\ Record(c, "timeout")
  /\ Return(c, "observe", "timeout")
  /\ UNCHANGED <<done, slot, ctxDone, observed, local>>

PassDependencies(c) ==
  /\ pc[c] = "deps"
  /\ dep[c] \notin DOMAIN DependsOn[c]
  /\ Goto(c, IF c \in Expensive THEN "slot" ELSE "begin")
  /\ UNCHANGED <<status, done, slot, ctxDone, observed, fs, local>>

AcquireSlot(c) ==
  /\ pc[c] = "slot"
  /\ slot = 0
  /\ slot' = 1
  /\ Goto(c, "begin")
  /\ UNCHANGED <<status, done, ctxDone, observed, fs, local>>

CancelledQueued(c) ==
  /\ pc[c] = "slot"
  /\ ctxDone
  /\ Record(c, "timeout")
  /\ Return(c, "observe", "timeout")
  /\ UNCHANGED <<done, slot, ctxDone, observed, local>>

------------------------------------------------------------------------------
(* runOne.                                                                 *)

(* The first deferred call of a goroutine that reached runOne gives the    *)
(* slot back; one that was never Expensive has none to give.               *)
AfterRun(c) == IF c \in Expensive THEN "release" ELSE "observe"

CancelledBeforeStart(c) ==
  /\ pc[c] = "begin"
  /\ ctxDone
  /\ Record(c, "timeout")
  /\ Return(c, AfterRun(c), "timeout")
  /\ UNCHANGED <<done, slot, ctxDone, observed, local>>

PassScanCheck(c) ==
  /\ pc[c] = "begin"
  /\ ~ctxDone
  /\ Goto(c, "start")
  /\ UNCHANGED <<status, done, slot, ctxDone, observed, fs, local>>

Start(c) ==
  /\ pc[c] = "start"
  /\ observed' = [observed EXCEPT ![c] = "started"]
  /\ worker' = [worker EXCEPT ![c] = "running"]
  /\ Goto(c, "select")
  /\ UNCHANGED <<status, done, slot, ctxDone, fs, dep, expired, result, private>>

\* mutant: the collector's context is not derived from the scan's
CctxOwnBudget(c) == c \in expired

(* The collector's context has ended: the scan's, or its own budget.       *)
CctxDone(c) == ctxDone \/ c \in expired

TakePanic(c) ==
  /\ pc[c] = "select"
  /\ worker[c] = "returned"
  /\ result[c] = "panic"
  /\ Record(c, "internal")
  /\ Return(c, AfterRun(c), "failed")
  /\ UNCHANGED <<done, slot, ctxDone, observed, local>>

TakeLateError(c) ==
  /\ pc[c] = "select"
  /\ worker[c] = "returned"
  /\ result[c] \in Failed
  /\ CctxDone(c)
  /\ Record(c, "timeout")
  /\ Return(c, AfterRun(c), "timeout")
  /\ UNCHANGED <<done, slot, ctxDone, observed, local>>

TakeSuccess(c) ==
  /\ pc[c] = "select"
  /\ worker[c] = "returned"
  /\ result[c] = "ok"
  /\ fs' = MergeInto(fs, private[c])
  /\ Return(c, AfterRun(c), "ok")
  /\ UNCHANGED <<done, slot, ctxDone, observed, local>>

(* An error in time: the private set is merged first, and the error is     *)
(* filed after the mutex has been released and taken again.                *)
TakeError(c) ==
  /\ pc[c] = "select"
  /\ worker[c] = "returned"
  /\ result[c] \in Failed
  /\ ~CctxDone(c)
  /\ fs' = MergeInto(fs, private[c])
  /\ Goto(c, "merged")
  /\ UNCHANGED <<status, done, slot, ctxDone, observed, local>>

FileFactError(c) ==
  /\ pc[c] = "merged"
  /\ result[c] = "factError"
  /\ \E id \in Blame(c), kind \in OwnKinds : fs' = PutError(fs, id, kind)
  /\ Return(c, AfterRun(c), "failed")
  /\ UNCHANGED <<done, slot, ctxDone, observed, local>>

FileOtherError(c) ==
  /\ pc[c] = "merged"
  /\ result[c] = "otherError"
  /\ Record(c, "internal")
  /\ Return(c, AfterRun(c), "failed")
  /\ UNCHANGED <<done, slot, ctxDone, observed, local>>

\* mutant: what the collector had observed so far is merged after all
AbandonMerging(c) ==
  /\ pc[c] = "select"
  /\ CctxDone(c)
  /\ fs' = MergeInto(PutErrors(fs, Blame(c), "timeout"), private[c])
  /\ Return(c, AfterRun(c), "timeout")
  /\ UNCHANGED <<done, slot, ctxDone, observed, local>>

(* The select takes cctx.Done(): also possible when a result is waiting.   *)
Abandon(c) ==
  /\ pc[c] = "select"
  /\ CctxDone(c)
  /\ Record(c, "timeout")
  /\ Return(c, AfterRun(c), "timeout")
  /\ UNCHANGED <<done, slot, ctxDone, observed, local>>

------------------------------------------------------------------------------
(* The deferred calls, last registered first.                              *)

\* mutant: the goroutine of an abandoned collector keeps the slot
ReleaseUnlessTimedOut(c) ==
  /\ pc[c] = "release"
  /\ slot' = IF status[c] = "timeout" THEN slot ELSE slot - 1
  /\ Goto(c, "observe")
  /\ UNCHANGED <<status, done, ctxDone, observed, fs, local>>

ReleaseSlot(c) ==
  /\ pc[c] = "release"
  /\ slot' = slot - 1
  /\ Goto(c, "observe")
  /\ UNCHANGED <<status, done, ctxDone, observed, fs, local>>

Observe(c) ==
  /\ pc[c] = "observe"
  /\ observed' = [observed EXCEPT ![c] = status[c]]
  /\ Goto(c, "close")
  /\ UNCHANGED <<status, done, slot, ctxDone, fs, local>>

(* close(done), and wg.Done right after it.                                *)
Close(c) ==
  /\ pc[c] = "close"
  /\ done' = done \cup {c}
  /\ Goto(c, "finished")
  /\ UNCHANGED <<status, slot, ctxDone, observed, fs, local>>

------------------------------------------------------------------------------
(* The worker: Collect, which records into its private set and returns, or *)
(* panics, or never does either.                                           *)

\* mutant: the collector is handed the run's own set
WorkerPutShared(c) ==
  /\ worker[c] = "running"
  /\ \E id \in Produces[c] : fs' = Put(fs, id, c)
  /\ UNCHANGED <<pc, dep, status, done, slot, ctxDone, expired, worker, result,
                 private, observed>>

WorkerPut(c) ==
  /\ worker[c] = "running"
  /\ \E id \in Produces[c] :
       private' = [private EXCEPT ![c] = Put(@, id, c)]
  /\ UNCHANGED <<pc, dep, status, done, slot, ctxDone, expired, worker, result,
                 observed, fs>>

WorkerPutError(c) ==
  /\ worker[c] = "running"
  /\ \E id \in Produces[c], kind \in OwnKinds :
       private' = [private EXCEPT ![c] = PutError(@, id, kind)]
  /\ UNCHANGED <<pc, dep, status, done, slot, ctxDone, expired, worker, result,
                 observed, fs>>

WorkerReturn(c) ==
  /\ worker[c] = "running"
  /\ worker' = [worker EXCEPT ![c] = "returned"]
  /\ \E r \in Result : result' = [result EXCEPT ![c] = r]
  /\ UNCHANGED <<pc, dep, status, done, slot, ctxDone, expired, private,
                 observed, fs>>

(* The clocks and the operator.                                            *)
BudgetExpires(c) ==
  /\ c \in Budgeted \ expired
  /\ pc[c] = "select"
  /\ expired' = expired \cup {c}
  /\ UNCHANGED <<pc, dep, status, done, slot, ctxDone, worker, result, private,
                 observed, fs>>

EndScan ==
  /\ ~ctxDone
  /\ ctxDone' = TRUE
  /\ UNCHANGED <<pc, dep, status, done, slot, expired, worker, result, private,
                 observed, fs>>

------------------------------------------------------------------------------
(* wg.Wait has returned.                                                   *)
Returned == \A c \in Collector : pc[c] = "finished"

Terminated ==
  /\ Returned
  /\ \A c \in Collector : worker[c] # "running"
  /\ UNCHANGED vars

Goroutine(c) ==
  \/ SkipUnwired(c) \/ SkipUnprivileged(c) \/ Admit(c)
  \/ AwaitDependency(c) \/ CancelledAwaiting(c) \/ PassDependencies(c)
  \/ AcquireSlot(c) \/ CancelledQueued(c)
  \/ CancelledBeforeStart(c) \/ PassScanCheck(c) \/ Start(c)
  \/ TakePanic(c) \/ TakeLateError(c) \/ TakeSuccess(c) \/ TakeError(c)
  \/ FileFactError(c) \/ FileOtherError(c) \/ Abandon(c)
  \/ ReleaseSlot(c) \/ Observe(c) \/ Close(c)

Worker(c) == WorkerPut(c) \/ WorkerPutError(c) \/ WorkerReturn(c)

Next ==
  \/ \E c \in Collector : Goroutine(c) \/ Worker(c) \/ BudgetExpires(c)
  \/ EndScan
  \/ Terminated

(* The Go scheduler runs every runnable goroutine and timers fire.  Nothing *)
(* makes a Collect return and nothing makes the scan end.                  *)
Fairness ==
  \A c \in Collector : WF_vars(Goroutine(c)) /\ WF_vars(BudgetExpires(c))

Spec     == Init /\ [][Next]_vars
FairSpec == Spec /\ Fairness

------------------------------------------------------------------------------
(* Properties                                                              *)

(* The goroutine holds the expensive slot.                                 *)
HoldsSlot(c) ==
  c \in Expensive /\ pc[c] \in {"begin", "start", "select", "merged", "release"}

(* The channel "expensive" holds a token exactly while one goroutine owns  *)
(* it, on every path out of Run's goroutine: no leak and no double owner.  *)
SlotOwned ==
  /\ \A c, d \in Collector : HoldsSlot(c) /\ HoldsSlot(d) => c = d
  /\ slot = 1 <=> \E c \in Collector : HoldsSlot(c)

(* What a collector's outcome means in the run's fact set.  Runner: "a     *)
(* collector that hangs, panics or lacks the privilege it declared         *)
(* produces a recorded fact error"; "a panic discards its output, an error *)
(* does not"; CollectorOK: "its facts are in the set".                     *)
Account(c, st) ==
  CASE st = "ok" -> \A id \in Produces[c] : /\ fs.facts[id] = private[c].facts[id]
                                            /\ fs.errors[id] = private[c].errors[id]
    [] st = "timeout" -> \A id \in Blame(c) : /\ fs.errors[id] = "timeout"
                                              /\ fs.facts[id] = None
    [] st = "skipped" -> \A id \in Blame(c) : /\ fs.errors[id] \in {"internal", "permission"}
                                              /\ fs.facts[id] = None
    [] st = "failed" -> \E id \in Blame(c) : fs.errors[id] # None
    [] OTHER -> TRUE

(* What the observer was told about a collector agrees with what the fact  *)
(* set says about it, from then on, whatever an abandoned worker still     *)
(* does and whatever other collectors merge.                               *)
OutcomeRecorded == \A c \in Collector : Account(c, observed[c])

(* Run's promise that "a collector runs after everything it depends on":   *)
(* when Collect has been started, every dependency has been accounted for. *)
DependenciesFirst ==
  \A c \in Collector : worker[c] # "idle" =>
    \A i \in DOMAIN DependsOn[c] :
      LET d == DependsOn[c][i]
      IN  d \in Collector => d \in done /\ observed[d] \in Status /\ Account(d, observed[d])

(* No fact ID of the run's set is both observed and unobserved.            *)
FactOrError == Unambiguous(fs)

(* Once Run has returned, its caller reads the set without a lock: no step *)
(* of a goroutine that is still alive may write to it.                     *)
CollectedSetFrozen == [][Returned => UNCHANGED fs]_vars

(* A panicked, timed-out or skipped collector contributes nothing: a fact  *)
(* of the run's set was merged from a Collect that returned.               *)
NoHalfTruths ==
  \A id \in FactID : fs.facts[id] # None =>
    LET c == fs.facts[id]
    IN  worker[c] = "returned" /\ result[c] # "panic" /\ status[c] # "timeout"

(* Run returns, whatever the collectors wait for among themselves: only a  *)
(* Collect that has no budget and never returns, in a scan that nobody     *)
(* ends, can keep it.                                                      *)
RunReturns ==
  \/ <>Returned
  \/ <>[](~ctxDone /\ \E c \in Collector \ Budgeted : worker[c] = "running")

(* "no two Expensive collectors run at once" (runner.go), "The runner      *)
(* never runs two at once" (collect.go): of the Collect calls themselves.  *)
ExpensiveNeverOverlap ==
  \A c, d \in Expensive : worker[c] = "running" /\ worker[d] = "running" => c = d

------------------------------------------------------------------------------
(* Run implements Collection.  A collector is resolved when its channel is *)
(* closed; what it has filed before that is not visible yet.               *)

Visible(id) == \E c \in done : id \in Blame(c)

Promise == INSTANCE Collection WITH
  Before  <- [c \in Collector |-> {DependsOn[c][i] : i \in DOMAIN DependsOn[c]} \cap Collector],
  Duty    <- [c \in Collector |-> Blame(c)],
  outcome <- [c \in Collector |-> IF c \in done THEN status[c] ELSE "pending"],
  report  <- [facts  |-> [id \in FactID |-> IF Visible(id) THEN fs.facts[id] ELSE None],
              errors |-> [id \in FactID |-> IF Visible(id) THEN fs.errors[id] ELSE None]]

(* Run keeps Collection's promise: seen from the closed channels, each     *)
(* collector resolves once, atomically, after its dependencies.            *)
KeepsPromise == Promise!CSpec
==============================================================================
