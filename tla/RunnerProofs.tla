---------------------------- MODULE RunnerProofs -----------------------------
(***************************************************************************)
(* Theorems about Runner, for every registry.                              *)
(***************************************************************************)
EXTENDS Runner, TLAPS

------------------------------------------------------------------------------
(* The fact-set operations keep the shape of a set.                        *)

(* NewSet returns a fact set: the one Run is given and every private one.  *)
LEMMA NewSetType == NewSet \in Set
  BY DEF NewSet, Set

(* Put keeps the shape of a fact set.                                      *)
LEMMA PutType ==
  ASSUME NEW s \in Set, NEW id \in FactID, NEW v \in Value
  PROVE  Put(s, id, v) \in Set
  BY DEF Set, Put

(* PutError keeps the shape of a fact set.                                 *)
LEMMA PutErrorType ==
  ASSUME NEW s \in Set, NEW id \in FactID, NEW kind \in ErrorKind
  PROVE  PutError(s, id, kind) \in Set
  BY DEF Set, PutError

(* record's loop over the blamed facts keeps the shape of a fact set.      *)
LEMMA PutErrorsType ==
  ASSUME NEW s \in Set, NEW ids, NEW kind \in ErrorKind
  PROVE  PutErrors(s, ids, kind) \in Set
  BY DEF Set, PutErrors

(* mergeInto keeps the shape of a fact set.                                *)
LEMMA MergeIntoType ==
  ASSUME NEW s \in Set, NEW t \in Set
  PROVE  MergeInto(s, t) \in Set
  BY DEF Set, MergeInto, MergeErrors, MergeFacts

(* blame names at least one fact ID, and all the collector produces.       *)
LEMMA BlameType ==
  ASSUME NEW c \in Collector
  PROVE  Blame(c) \subseteq FactID /\ Blame(c) # {} /\ Produces[c] \subseteq Blame(c)
  BY CollectorAssumption DEF Blame

------------------------------------------------------------------------------
(* The inductive invariant.  Everything but the slot is local to one       *)
(* collector, because the facts two collectors answer for are disjoint.    *)

Early    == {"check", "deps", "slot", "begin", "start"}
Resolved == {"release", "observe", "close", "finished"}

AllDependenciesDone(c) ==
  \A i \in DOMAIN DependsOn[c] : DependsOn[c][i] \in Collector => DependsOn[c][i] \in done

(* Where the goroutine is, and what its worker and the observer know.      *)
Phases(c) ==
  /\ pc[c] \in {"slot", "release"} => c \in Expensive
  /\ pc[c] \in Early => worker[c] = "idle"
  /\ pc[c] = "merged" => worker[c] = "returned" /\ result[c] \in Failed
  /\ pc[c] \notin Resolved => status[c] = "skipped"
  /\ pc[c] \in Resolved /\ status[c] \in {"ok", "failed"} => worker[c] = "returned"
  /\ pc[c] \in {"close", "finished"} => observed[c] = status[c]
  /\ pc[c] \notin {"close", "finished"} => observed[c] \notin Status
  /\ c \in done <=> pc[c] = "finished"

(* The dependencies the goroutine has been past are closed.                *)
Waited(c) ==
  /\ pc[c] = "check" => dep[c] = 1
  /\ pc[c] = "deps" =>
       \A i \in DOMAIN DependsOn[c] :
         i < dep[c] /\ DependsOn[c][i] \in Collector => DependsOn[c][i] \in done
  /\ pc[c] \in {"slot", "begin", "start", "select", "merged"} => AllDependenciesDone(c)
  /\ worker[c] # "idle" => AllDependenciesDone(c)

(* A private set holds its own collector's facts and nothing else.         *)
PrivateOwn(c) ==
  /\ Unambiguous(private[c])
  /\ \A id \in FactID : private[c].facts[id] \in {c, None}
  /\ \A id \in FactID \ Produces[c] : /\ private[c].facts[id] = None
                                      /\ private[c].errors[id] = None

(* The run's set, restricted to the facts the collector answers for.       *)
Share(c) ==
  /\ pc[c] \notin Resolved \cup {"merged"} =>
       \A id \in Blame(c) : fs.facts[id] = None /\ fs.errors[id] = None
  /\ pc[c] \in Resolved => Account(c, status[c])
  /\ \A id \in Blame(c) :
       /\ fs.facts[id] = None \/ fs.errors[id] = None
       /\ fs.facts[id] # None => /\ fs.facts[id] = c
                                 /\ worker[c] = "returned"
                                 /\ result[c] # "panic"
                                 /\ status[c] # "timeout"

Local(c) == Phases(c) /\ Waited(c) /\ PrivateOwn(c) /\ Share(c)

(* Nobody writes outside the facts the collectors answer for.              *)
NothingElse ==
  \A id \in FactID : (\A c \in Collector : id \notin Blame(c)) =>
    fs.facts[id] = None /\ fs.errors[id] = None

IInv == TypeOK /\ SlotOwned /\ NothingElse /\ \A c \in Collector : Local(c)

------------------------------------------------------------------------------
(* The fact-set operations, entry by entry.                                *)

(* The kinds the runner itself files are error kinds of the fact set.      *)
LEMMA KindType == {"internal", "permission", "timeout"} \subseteq ErrorKind
  BY DEF ErrorKind

(* What record's loop leaves at each fact ID.                              *)
LEMMA PutErrorsAt ==
  ASSUME NEW s \in Set, NEW ids, NEW kind, NEW id \in FactID
  PROVE  /\ PutErrors(s, ids, kind).facts[id] = IF id \in ids THEN None ELSE s.facts[id]
         /\ PutErrors(s, ids, kind).errors[id] = IF id \in ids THEN kind ELSE s.errors[id]
  BY DEF PutErrors

(* What PutError leaves at each fact ID.                                   *)
LEMMA PutErrorAt ==
  ASSUME NEW s \in Set, NEW at \in FactID, NEW kind, NEW id \in FactID
  PROVE  /\ PutError(s, at, kind).facts[id] = IF id = at THEN None ELSE s.facts[id]
         /\ PutError(s, at, kind).errors[id] = IF id = at THEN kind ELSE s.errors[id]
  BY DEF PutError, Set

(* What Put leaves at each fact ID.                                        *)
LEMMA PutAt ==
  ASSUME NEW s \in Set, NEW at \in FactID, NEW v, NEW id \in FactID
  PROVE  /\ Put(s, at, v).facts[id] = IF id = at THEN v ELSE s.facts[id]
         /\ Put(s, at, v).errors[id] = IF id = at THEN None ELSE s.errors[id]
  BY DEF Put, Set

(* What mergeInto leaves at each fact ID.                                  *)
LEMMA MergeIntoAt ==
  ASSUME NEW s \in Set, NEW t \in Set, NEW id \in FactID
  PROVE  /\ MergeInto(s, t).facts[id] = IF t.errors[id] # None THEN None
                                        ELSE IF t.facts[id] # None THEN t.facts[id]
                                        ELSE s.facts[id]
         /\ MergeInto(s, t).errors[id] = IF t.errors[id] # None THEN t.errors[id]
                                         ELSE IF t.facts[id] # None THEN None
                                         ELSE s.errors[id]
  BY DEF MergeInto, MergeErrors, MergeFacts

------------------------------------------------------------------------------
(* Types and the slot.                                                     *)

(* Run starts with every variable of its type.                             *)
LEMMA TypeInit == Init => TypeOK
  <1> SUFFICES ASSUME Init PROVE TypeOK
    OBVIOUS
  <1>1. private \in [Collector -> Set] /\ fs \in Set
    BY NewSetType DEF Init
  <1>2. ctxDone \in BOOLEAN /\ expired \subseteq Budgeted /\ done \subseteq Collector
    BY DEF Init
  <1>3. QED
    BY <1>1, <1>2 DEF Init, TypeOK, PC, Status, Result, Failed

(* A step keeps the types.  Giving the slot back needs the invariant: the  *)
(* channel must hold the token that is received.                           *)
LEMMA TypeStep == IInv /\ [Next]_vars => TypeOK'
  <1> SUFFICES ASSUME IInv, [Next]_vars PROVE TypeOK'
    OBVIOUS
  <1> TypeOK
    BY DEF IInv
  <1> USE DEF TypeOK, PC, Status, Goto, Return, local
  <1>1. ASSUME NEW c \in Collector, Goroutine(c) PROVE TypeOK'
    <2>a. \A kind \in {"internal", "permission", "timeout"} :
            Record(c, kind) => fs' \in Set
      BY KindType, PutErrorsType DEF Record
    <2>b. AfterRun(c) \in {"release", "observe"}
      BY DEF AfterRun
    <2> USE <2>a, <2>b
    <2>1. CASE SkipUnwired(c)
      BY <2>1 DEF SkipUnwired
    <2>2. CASE SkipUnprivileged(c)
      BY <2>2 DEF SkipUnprivileged
    <2>3. CASE Admit(c)
      BY <2>3 DEF Admit
    <2>4. CASE AwaitDependency(c)
      BY <2>4 DEF AwaitDependency
    <2>5. CASE CancelledAwaiting(c)
      BY <2>5 DEF CancelledAwaiting
    <2>6. CASE PassDependencies(c)
      BY <2>6 DEF PassDependencies
    <2>7. CASE AcquireSlot(c)
      BY <2>7 DEF AcquireSlot
    <2>8. CASE CancelledQueued(c)
      BY <2>8 DEF CancelledQueued
    <2>9. CASE CancelledBeforeStart(c)
      BY <2>9 DEF CancelledBeforeStart
    <2>10. CASE PassScanCheck(c)
      BY <2>10 DEF PassScanCheck
    <2>11. CASE Start(c)
      BY <2>11 DEF Start
    <2>12. CASE TakePanic(c)
      BY <2>12 DEF TakePanic
    <2>13. CASE TakeLateError(c)
      BY <2>13 DEF TakeLateError
    <2>14. CASE TakeSuccess(c)
      BY <2>14, MergeIntoType DEF TakeSuccess
    <2>15. CASE TakeError(c)
      BY <2>15, MergeIntoType DEF TakeError
    <2>16. CASE FileFactError(c)
      BY <2>16, PutErrorType, BlameType, CollectorAssumption DEF FileFactError
    <2>17. CASE FileOtherError(c)
      BY <2>17 DEF FileOtherError
    <2>18. CASE Abandon(c)
      BY <2>18 DEF Abandon
    <2>19. CASE ReleaseSlot(c)
      BY <2>19 DEF ReleaseSlot, IInv, Local, Phases, SlotOwned, HoldsSlot
    <2>20. CASE Observe(c)
      BY <2>20 DEF Observe
    <2>21. CASE Close(c)
      BY <2>21 DEF Close
    <2>22. QED
      BY <1>1, <2>1, <2>2, <2>3, <2>4, <2>5, <2>6, <2>7, <2>8, <2>9, <2>10, <2>11,
         <2>12, <2>13, <2>14, <2>15, <2>16, <2>17, <2>18, <2>19, <2>20, <2>21
      DEF Goroutine
  <1>2. ASSUME NEW c \in Collector, Worker(c) PROVE TypeOK'
    <2>1. CASE WorkerPut(c)
      <3>1. PICK id \in Produces[c] : private' = [private EXCEPT ![c] = Put(@, id, c)]
        BY <2>1 DEF WorkerPut
      <3>2. id \in FactID /\ c \in Value
        BY CollectorAssumption
      <3>3. Put(private[c], id, c) \in Set
        BY <3>2, PutType
      <3>4. private' \in [Collector -> Set]
        BY <3>1, <3>3
      <3>5. QED BY <2>1, <3>4 DEF WorkerPut
    <2>2. CASE WorkerPutError(c)
      <3>1. PICK id \in Produces[c], kind \in OwnKinds :
              private' = [private EXCEPT ![c] = PutError(@, id, kind)]
        BY <2>2 DEF WorkerPutError
      <3>2. id \in FactID /\ kind \in ErrorKind
        BY CollectorAssumption
      <3>3. PutError(private[c], id, kind) \in Set
        BY <3>2, PutErrorType
      <3>4. private' \in [Collector -> Set]
        BY <3>1, <3>3
      <3>5. QED BY <2>2, <3>4 DEF WorkerPutError
    <2>3. CASE WorkerReturn(c)
      BY <2>3 DEF WorkerReturn
    <2>4. QED BY <1>2, <2>1, <2>2, <2>3 DEF Worker
  <1>3. ASSUME NEW c \in Collector, BudgetExpires(c) PROVE TypeOK'
    BY <1>3 DEF BudgetExpires
  <1>4. CASE EndScan
    BY <1>4 DEF EndScan
  <1>5. CASE UNCHANGED vars
    BY <1>5 DEF vars
  <1>6. QED
    BY <1>1, <1>2, <1>3, <1>4, <1>5 DEF Next, Terminated

(* A step of one goroutine leaves the others where they are.               *)
LEMMA OthersStay ==
  ASSUME TypeOK, NEW c \in Collector, Goroutine(c), NEW d \in Collector, d # c
  PROVE  /\ pc'[d] = pc[d] /\ dep'[d] = dep[d] /\ status'[d] = status[d]
         /\ worker'[d] = worker[d] /\ result'[d] = result[d]
         /\ private'[d] = private[d] /\ observed'[d] = observed[d]
         /\ d \in done' <=> d \in done
  <1> USE DEF TypeOK, Goto, Return, local
  <1>1. CASE SkipUnwired(c)
    BY <1>1 DEF SkipUnwired
  <1>2. CASE SkipUnprivileged(c)
    BY <1>2 DEF SkipUnprivileged
  <1>3. CASE Admit(c)
    BY <1>3 DEF Admit
  <1>4. CASE AwaitDependency(c)
    BY <1>4 DEF AwaitDependency
  <1>5. CASE CancelledAwaiting(c)
    BY <1>5 DEF CancelledAwaiting
  <1>6. CASE PassDependencies(c)
    BY <1>6 DEF PassDependencies
  <1>7. CASE AcquireSlot(c)
    BY <1>7 DEF AcquireSlot
  <1>8. CASE CancelledQueued(c)
    BY <1>8 DEF CancelledQueued
  <1>9. CASE CancelledBeforeStart(c)
    BY <1>9 DEF CancelledBeforeStart
  <1>10. CASE PassScanCheck(c)
    BY <1>10 DEF PassScanCheck
  <1>11. CASE Start(c)
    BY <1>11 DEF Start
  <1>12. CASE TakePanic(c)
    BY <1>12 DEF TakePanic
  <1>13. CASE TakeLateError(c)
    BY <1>13 DEF TakeLateError
  <1>14. CASE TakeSuccess(c)
    BY <1>14 DEF TakeSuccess
  <1>15. CASE TakeError(c)
    BY <1>15 DEF TakeError
  <1>16. CASE FileFactError(c)
    BY <1>16 DEF FileFactError
  <1>17. CASE FileOtherError(c)
    BY <1>17 DEF FileOtherError
  <1>18. CASE Abandon(c)
    BY <1>18 DEF Abandon
  <1>19. CASE ReleaseSlot(c)
    BY <1>19 DEF ReleaseSlot
  <1>20. CASE Observe(c)
    BY <1>20 DEF Observe
  <1>21. CASE Close(c)
    BY <1>21 DEF Close
  <1>22. QED
    BY <1>1, <1>2, <1>3, <1>4, <1>5, <1>6, <1>7, <1>8, <1>9, <1>10, <1>11,
       <1>12, <1>13, <1>14, <1>15, <1>16, <1>17, <1>18, <1>19, <1>20, <1>21
    DEF Goroutine

(* The slot has one owner, and it holds a token while it has one.          *)
LEMMA SlotStep == IInv /\ [Next]_vars => SlotOwned'
  <1> SUFFICES ASSUME IInv, [Next]_vars PROVE SlotOwned'
    OBVIOUS
  <1>0. TypeOK /\ SlotOwned /\ \A c \in Collector : Phases(c)
    BY DEF IInv, Local
  <1>1. ASSUME NEW c \in Collector, Goroutine(c) PROVE SlotOwned'
    <2>a. \A d \in Collector : d # c => pc'[d] = pc[d]
      BY <1>0, <1>1, OthersStay
    <2>b. \A d \in Collector : d # c => (HoldsSlot(d)' <=> HoldsSlot(d))
      BY <2>a DEF HoldsSlot
    <2>c. ASSUME HoldsSlot(c)' <=> HoldsSlot(c), slot' = slot PROVE SlotOwned'
      BY <1>0, <2>b, <2>c DEF SlotOwned
    <2> USE <1>0 DEF TypeOK, PC, Goto, Return, local, AfterRun, Phases, HoldsSlot
    <2>1. CASE SkipUnwired(c)
      BY <2>1, <2>c DEF SkipUnwired
    <2>2. CASE SkipUnprivileged(c)
      BY <2>2, <2>c DEF SkipUnprivileged
    <2>3. CASE Admit(c)
      BY <2>3, <2>c DEF Admit
    <2>4. CASE AwaitDependency(c)
      BY <2>4, <2>c DEF AwaitDependency
    <2>5. CASE CancelledAwaiting(c)
      BY <2>5, <2>c DEF CancelledAwaiting
    <2>6. CASE PassDependencies(c)
      BY <2>6, <2>c DEF PassDependencies
    <2>7. CASE AcquireSlot(c)
      BY <2>7, <2>b DEF AcquireSlot, SlotOwned
    <2>8. CASE CancelledQueued(c)
      BY <2>8, <2>c DEF CancelledQueued
    <2>9. CASE CancelledBeforeStart(c)
      BY <2>9, <2>c DEF CancelledBeforeStart
    <2>10. CASE PassScanCheck(c)
      BY <2>10, <2>c DEF PassScanCheck
    <2>11. CASE Start(c)
      BY <2>11, <2>c DEF Start
    <2>12. CASE TakePanic(c)
      BY <2>12, <2>c DEF TakePanic
    <2>13. CASE TakeLateError(c)
      BY <2>13, <2>c DEF TakeLateError
    <2>14. CASE TakeSuccess(c)
      BY <2>14, <2>c DEF TakeSuccess
    <2>15. CASE TakeError(c)
      BY <2>15, <2>c DEF TakeError
    <2>16. CASE FileFactError(c)
      BY <2>16, <2>c DEF FileFactError
    <2>17. CASE FileOtherError(c)
      BY <2>17, <2>c DEF FileOtherError
    <2>18. CASE Abandon(c)
      BY <2>18, <2>c DEF Abandon
    <2>19. CASE ReleaseSlot(c)
      BY <2>19, <2>b DEF ReleaseSlot, SlotOwned
    <2>20. CASE Observe(c)
      BY <2>20, <2>c DEF Observe
    <2>21. CASE Close(c)
      BY <2>21, <2>c DEF Close
    <2>22. QED
      BY <1>1, <2>1, <2>2, <2>3, <2>4, <2>5, <2>6, <2>7, <2>8, <2>9, <2>10, <2>11,
         <2>12, <2>13, <2>14, <2>15, <2>16, <2>17, <2>18, <2>19, <2>20, <2>21
      DEF Goroutine
  <1>2. CASE UNCHANGED <<pc, slot>>
    BY <1>0, <1>2 DEF SlotOwned, HoldsSlot
  <1>3. QED
    BY <1>1, <1>2 DEF Next, vars, Worker, WorkerPut, WorkerPutError, WorkerReturn,
                      BudgetExpires, EndScan, Terminated

(* A goroutine writes only what its collector answers for.                 *)
LEMMA WritesOwnShare ==
  ASSUME IInv, NEW c \in Collector, Goroutine(c), NEW id \in FactID \ Blame(c)
  PROVE  fs'.facts[id] = fs.facts[id] /\ fs'.errors[id] = fs.errors[id]
  <1>0. TypeOK /\ PrivateOwn(c) /\ private[c] \in Set /\ fs \in Set
    BY DEF IInv, Local, TypeOK
  <1>a. \A kind : Record(c, kind) => /\ fs'.facts[id] = fs.facts[id]
                                     /\ fs'.errors[id] = fs.errors[id]
    BY <1>0, PutErrorsAt DEF Record
  <1>b. fs' = MergeInto(fs, private[c]) => /\ fs'.facts[id] = fs.facts[id]
                                           /\ fs'.errors[id] = fs.errors[id]
    <2>1. id \notin Produces[c]
      BY BlameType
    <2>2. private[c].facts[id] = None /\ private[c].errors[id] = None
      BY <1>0, <2>1 DEF PrivateOwn
    <2>3. QED BY <1>0, <2>2, MergeIntoAt
  <1>1. CASE SkipUnwired(c)
    BY <1>1, <1>a DEF SkipUnwired
  <1>2. CASE SkipUnprivileged(c)
    BY <1>2, <1>a DEF SkipUnprivileged
  <1>3. CASE Admit(c)
    BY <1>3, <1>a DEF Admit
  <1>4. CASE AwaitDependency(c)
    BY <1>4, <1>a DEF AwaitDependency
  <1>5. CASE CancelledAwaiting(c)
    BY <1>5, <1>a DEF CancelledAwaiting
  <1>6. CASE PassDependencies(c)
    BY <1>6, <1>a DEF PassDependencies
  <1>7. CASE AcquireSlot(c)
    BY <1>7, <1>a DEF AcquireSlot
  <1>8. CASE CancelledQueued(c)
    BY <1>8, <1>a DEF CancelledQueued
  <1>9. CASE CancelledBeforeStart(c)
    BY <1>9, <1>a DEF CancelledBeforeStart
  <1>10. CASE PassScanCheck(c)
    BY <1>10, <1>a DEF PassScanCheck
  <1>11. CASE Start(c)
    BY <1>11, <1>a DEF Start
  <1>12. CASE TakePanic(c)
    BY <1>12, <1>a DEF TakePanic
  <1>13. CASE TakeLateError(c)
    BY <1>13, <1>a DEF TakeLateError
  <1>14. CASE TakeSuccess(c)
    BY <1>14, <1>b DEF TakeSuccess
  <1>15. CASE TakeError(c)
    BY <1>15, <1>b DEF TakeError
  <1>16. CASE FileFactError(c)
    BY <1>16, <1>0, PutErrorAt, BlameType DEF FileFactError
  <1>17. CASE FileOtherError(c)
    BY <1>17, <1>a DEF FileOtherError
  <1>18. CASE Abandon(c)
    BY <1>18, <1>a DEF Abandon
  <1>19. CASE ReleaseSlot(c)
    BY <1>19, <1>a DEF ReleaseSlot
  <1>20. CASE Observe(c)
    BY <1>20, <1>a DEF Observe
  <1>21. CASE Close(c)
    BY <1>21, <1>a DEF Close
  <1>22. QED
    BY <1>1, <1>2, <1>3, <1>4, <1>5, <1>6, <1>7, <1>8, <1>9, <1>10, <1>11,
       <1>12, <1>13, <1>14, <1>15, <1>16, <1>17, <1>18, <1>19, <1>20, <1>21
    DEF Goroutine

(* Nothing outside the collectors' shares is ever written.                 *)
LEMMA NothingElseStep == IInv /\ [Next]_vars => NothingElse'
  <1> SUFFICES ASSUME IInv, [Next]_vars PROVE NothingElse'
    OBVIOUS
  <1>0. NothingElse
    BY DEF IInv
  <1>1. ASSUME NEW c \in Collector, Goroutine(c) PROVE NothingElse'
    BY <1>0, <1>1, WritesOwnShare DEF NothingElse
  <1>2. CASE UNCHANGED fs
    BY <1>0, <1>2 DEF NothingElse
  <1>3. QED
    BY <1>1, <1>2 DEF Next, vars, Worker, WorkerPut, WorkerPutError, WorkerReturn,
                      BudgetExpires, EndScan, Terminated

(* What Local says of a collector survives the steps of the others.        *)
LEMMA LocalOfOthers ==
  ASSUME IInv, NEW c \in Collector, Goroutine(c), NEW d \in Collector, d # c
  PROVE  Local(d)'
  <1>0. TypeOK /\ Local(d) /\ done \subseteq done'
    BY DEF IInv, Goroutine, SkipUnwired, SkipUnprivileged, Admit, AwaitDependency,
           CancelledAwaiting, PassDependencies, AcquireSlot, CancelledQueued,
           CancelledBeforeStart, PassScanCheck, Start, TakePanic, TakeLateError,
           TakeSuccess, TakeError, FileFactError, FileOtherError, Abandon,
           ReleaseSlot, Observe, Close
  <1>1. /\ pc'[d] = pc[d] /\ dep'[d] = dep[d] /\ status'[d] = status[d]
        /\ worker'[d] = worker[d] /\ result'[d] = result[d]
        /\ private'[d] = private[d] /\ observed'[d] = observed[d]
        /\ d \in done' <=> d \in done
    BY <1>0, OthersStay
  <1>2. \A id \in Blame(d) : fs'.facts[id] = fs.facts[id] /\ fs'.errors[id] = fs.errors[id]
    BY WritesOwnShare, ProducesAssumption, BlameType
  <1>3. Phases(d)' /\ Waited(d)'
    BY <1>0, <1>1 DEF Local, Phases, Waited, AllDependenciesDone
  <1>4. PrivateOwn(d)'
    BY <1>0, <1>1 DEF Local, PrivateOwn, Unambiguous
  <1>5. \A st : Account(d, st)' <=> Account(d, st)
    BY <1>1, <1>2, BlameType DEF Account
  <1>6. Share(d)'
    BY <1>0, <1>1, <1>2, <1>5 DEF Local, Share
  <1>7. QED BY <1>3, <1>4, <1>6 DEF Local

(* The collector's own goroutine keeps Local, part by part.                *)
LEMMA OwnPhases ==
  ASSUME IInv, NEW c \in Collector, Goroutine(c)
  PROVE  Phases(c)'
  <1>0. TypeOK /\ Phases(c)
    BY DEF IInv, Local
  <1> USE <1>0 DEF TypeOK, PC, Status, Phases, Early, Resolved, Goto, Return, local,
                   AfterRun, Failed
  <1>1. CASE SkipUnwired(c)
    BY <1>1 DEF SkipUnwired
  <1>2. CASE SkipUnprivileged(c)
    BY <1>2 DEF SkipUnprivileged
  <1>3. CASE Admit(c)
    BY <1>3 DEF Admit
  <1>4. CASE AwaitDependency(c)
    BY <1>4 DEF AwaitDependency
  <1>5. CASE CancelledAwaiting(c)
    BY <1>5 DEF CancelledAwaiting
  <1>6. CASE PassDependencies(c)
    BY <1>6 DEF PassDependencies
  <1>7. CASE AcquireSlot(c)
    BY <1>7 DEF AcquireSlot
  <1>8. CASE CancelledQueued(c)
    BY <1>8 DEF CancelledQueued
  <1>9. CASE CancelledBeforeStart(c)
    BY <1>9 DEF CancelledBeforeStart
  <1>10. CASE PassScanCheck(c)
    BY <1>10 DEF PassScanCheck
  <1>11. CASE Start(c)
    BY <1>11 DEF Start
  <1>12. CASE TakePanic(c)
    BY <1>12 DEF TakePanic
  <1>13. CASE TakeLateError(c)
    BY <1>13 DEF TakeLateError
  <1>14. CASE TakeSuccess(c)
    BY <1>14 DEF TakeSuccess
  <1>15. CASE TakeError(c)
    BY <1>15 DEF TakeError
  <1>16. CASE FileFactError(c)
    BY <1>16 DEF FileFactError
  <1>17. CASE FileOtherError(c)
    BY <1>17 DEF FileOtherError
  <1>18. CASE Abandon(c)
    BY <1>18 DEF Abandon
  <1>19. CASE ReleaseSlot(c)
    BY <1>19 DEF ReleaseSlot
  <1>20. CASE Observe(c)
    BY <1>20 DEF Observe
  <1>21. CASE Close(c)
    BY <1>21 DEF Close
  <1>22. QED
    BY <1>1, <1>2, <1>3, <1>4, <1>5, <1>6, <1>7, <1>8, <1>9, <1>10, <1>11,
       <1>12, <1>13, <1>14, <1>15, <1>16, <1>17, <1>18, <1>19, <1>20, <1>21
    DEF Goroutine

(* A goroutine that moves past its dependencies found them closed.         *)
LEMMA OwnWaited ==
  ASSUME IInv, NEW c \in Collector, Goroutine(c)
  PROVE  Waited(c)'
  <1>0. TypeOK /\ Waited(c) /\ Phases(c)
    BY DEF IInv, Local
  <1>a. \E n \in Nat : DOMAIN DependsOn[c] = 1..n
    <2>1. DependsOn[c] \in Seq(STRING)
      BY CollectorAssumption
    <2>2. QED BY <2>1
  <1> USE <1>0 DEF TypeOK, Phases, Early, Resolved, Waited, AllDependenciesDone, Goto,
                   Return, local, AfterRun
  <1>1. CASE SkipUnwired(c)
    BY <1>1 DEF SkipUnwired
  <1>2. CASE SkipUnprivileged(c)
    BY <1>2 DEF SkipUnprivileged
  <1>3. CASE Admit(c)
    BY <1>3, <1>a DEF Admit
  <1>4. CASE AwaitDependency(c)
    BY <1>4, <1>a DEF AwaitDependency
  <1>5. CASE CancelledAwaiting(c)
    BY <1>5 DEF CancelledAwaiting
  <1>6. CASE PassDependencies(c)
    BY <1>6, <1>a DEF PassDependencies
  <1>7. CASE AcquireSlot(c)
    BY <1>7 DEF AcquireSlot
  <1>8. CASE CancelledQueued(c)
    BY <1>8 DEF CancelledQueued
  <1>9. CASE CancelledBeforeStart(c)
    BY <1>9 DEF CancelledBeforeStart
  <1>10. CASE PassScanCheck(c)
    BY <1>10 DEF PassScanCheck
  <1>11. CASE Start(c)
    BY <1>11 DEF Start
  <1>12. CASE TakePanic(c)
    BY <1>12 DEF TakePanic
  <1>13. CASE TakeLateError(c)
    BY <1>13 DEF TakeLateError
  <1>14. CASE TakeSuccess(c)
    BY <1>14 DEF TakeSuccess
  <1>15. CASE TakeError(c)
    BY <1>15 DEF TakeError
  <1>16. CASE FileFactError(c)
    BY <1>16 DEF FileFactError
  <1>17. CASE FileOtherError(c)
    BY <1>17 DEF FileOtherError
  <1>18. CASE Abandon(c)
    BY <1>18 DEF Abandon
  <1>19. CASE ReleaseSlot(c)
    BY <1>19 DEF ReleaseSlot
  <1>20. CASE Observe(c)
    BY <1>20 DEF Observe
  <1>21. CASE Close(c)
    BY <1>21 DEF Close
  <1>22. QED
    BY <1>1, <1>2, <1>3, <1>4, <1>5, <1>6, <1>7, <1>8, <1>9, <1>10, <1>11,
       <1>12, <1>13, <1>14, <1>15, <1>16, <1>17, <1>18, <1>19, <1>20, <1>21
    DEF Goroutine

(* The private set holds only what the collector answers for.              *)
LEMMA OwnPrivate ==
  ASSUME IInv, NEW c \in Collector, Goroutine(c)
  PROVE  PrivateOwn(c)'
  <1>1. PrivateOwn(c) /\ private' = private
    BY DEF IInv, Local, local, Goroutine, SkipUnwired, SkipUnprivileged, Admit,
           AwaitDependency, CancelledAwaiting, PassDependencies, AcquireSlot,
           CancelledQueued, CancelledBeforeStart, PassScanCheck, Start, TakePanic,
           TakeLateError, TakeSuccess, TakeError, FileFactError, FileOtherError,
           Abandon, ReleaseSlot, Observe, Close
  <1>2. QED BY <1>1 DEF PrivateOwn, Unambiguous

(* Filing a gap: nothing remains of the collector's facts, and every one   *)
(* of them has the error.                                                  *)
LEMMA GapIsAccounted ==
  ASSUME IInv, NEW c \in Collector, NEW kind \in {"internal", "permission", "timeout"},
         NEW st \in {"skipped", "timeout", "failed"}, Record(c, kind),
         pc'[c] \in Resolved, status'[c] = st,
         st = "timeout" => kind = "timeout",
         st = "skipped" => kind \in {"internal", "permission"}
  PROVE  Share(c)'
  <1>1. \A id \in Blame(c) : fs'.facts[id] = None /\ fs'.errors[id] = kind
    BY PutErrorsAt, BlameType DEF Record, IInv, TypeOK
  <1>2. kind # None
    BY NoneAssumption, KindType
  <1>3. \E id \in Blame(c) : fs'.errors[id] # None
    BY <1>1, <1>2, BlameType
  <1>4. Account(c, st)'
    BY <1>1, <1>3 DEF Account
  <1>5. QED
    BY <1>1, <1>4 DEF Share

(* Merging the private set: what it holds and only what it holds.          *)
LEMMA MergedShare ==
  ASSUME IInv, NEW c \in Collector, pc[c] = "select", fs' = MergeInto(fs, private[c])
  PROVE  \A id \in Blame(c) :
           /\ fs'.facts[id] = private[c].facts[id]
           /\ fs'.facts[id] = None \/ fs'.errors[id] = None
           /\ fs'.facts[id] # None => fs'.facts[id] = c
           /\ fs'.errors[id] = private[c].errors[id]
  <1>0. /\ TypeOK /\ PrivateOwn(c) /\ Share(c) /\ fs \in Set /\ private[c] \in Set
        /\ pc[c] \notin Resolved \cup {"merged"}
    BY DEF IInv, Local, TypeOK, Resolved
  <1> SUFFICES ASSUME NEW id \in Blame(c)
               PROVE  /\ fs'.facts[id] = private[c].facts[id]
                      /\ fs'.facts[id] = None \/ fs'.errors[id] = None
                      /\ fs'.facts[id] # None => fs'.facts[id] = c
                      /\ fs'.errors[id] = private[c].errors[id]
    OBVIOUS
  <1>1. id \in FactID
    BY BlameType
  <1>2. fs.facts[id] = None /\ fs.errors[id] = None
    BY <1>0 DEF Share
  <1>3. /\ private[c].facts[id] = None \/ private[c].errors[id] = None
        /\ private[c].facts[id] \in {c, None}
    BY <1>0, <1>1 DEF PrivateOwn, Unambiguous
  <1>4. QED
    BY <1>0, <1>1, <1>2, <1>3, MergeIntoAt

(* A goroutine keeps its collector's share of the set in line with the     *)
(* outcome.                                                                *)
LEMMA OwnShare ==
  ASSUME IInv, NEW c \in Collector, Goroutine(c)
  PROVE  Share(c)'
  <1>0. TypeOK /\ Phases(c) /\ Share(c) /\ PrivateOwn(c)
    BY DEF IInv, Local
  <1>a. AfterRun(c) \in Resolved
    BY DEF AfterRun, Resolved
  (* A step that leaves the facts alone and does not resolve or unresolve c. *)
  <1>b. ASSUME fs' = fs, private' = private, status' = status, worker'[c] = worker[c],
               result' = result, pc'[c] \in Resolved <=> pc[c] \in Resolved,
               pc'[c] = "merged" <=> pc[c] = "merged"
        PROVE  Share(c)'
    <2>1. Account(c, status[c])' <=> Account(c, status[c])
      BY <1>b DEF Account
    <2>2. QED BY <1>0, <1>b, <2>1 DEF Share
  (* A step that files a gap. *)
  <1>c. ASSUME NEW kind \in {"internal", "permission", "timeout"},
               NEW st \in {"skipped", "timeout", "failed"}, NEW to \in Resolved,
               Record(c, kind), Return(c, to, st),
               st = "timeout" => kind = "timeout",
               st = "skipped" => kind \in {"internal", "permission"}
        PROVE  Share(c)'
    <2>1. pc'[c] \in Resolved /\ status'[c] = st
      BY <1>0, <1>c DEF Return, Goto, TypeOK
    <2>2. QED BY <1>c, <2>1, GapIsAccounted
  <1>d. "observe" \in Resolved
    BY DEF Resolved
  <1>1. CASE SkipUnwired(c)
    BY <1>1, <1>c, <1>d DEF SkipUnwired
  <1>2. CASE SkipUnprivileged(c)
    BY <1>2, <1>c, <1>d DEF SkipUnprivileged
  <1>3. CASE Admit(c)
    BY <1>3, <1>0, <1>b DEF Admit, Goto, local, Resolved, TypeOK, PC
  <1>4. CASE AwaitDependency(c)
    BY <1>4, <1>0, <1>b DEF AwaitDependency, Goto, local, Resolved, TypeOK, PC
  <1>5. CASE CancelledAwaiting(c)
    BY <1>5, <1>c, <1>d DEF CancelledAwaiting
  <1>6. CASE PassDependencies(c)
    BY <1>6, <1>0, <1>b DEF PassDependencies, Goto, local, Resolved, TypeOK, PC
  <1>7. CASE AcquireSlot(c)
    BY <1>7, <1>0, <1>b DEF AcquireSlot, Goto, local, Resolved, TypeOK, PC
  <1>8. CASE CancelledQueued(c)
    BY <1>8, <1>c, <1>d DEF CancelledQueued
  <1>9. CASE CancelledBeforeStart(c)
    BY <1>9, <1>c, <1>a DEF CancelledBeforeStart
  <1>10. CASE PassScanCheck(c)
    BY <1>10, <1>0, <1>b DEF PassScanCheck, Goto, local, Resolved, TypeOK, PC
  <1>11. CASE Start(c)
    <2>1. /\ fs' = fs /\ status' = status /\ pc'[c] \notin Resolved \cup {"merged"}
          /\ pc[c] \notin Resolved \cup {"merged"}
      BY <1>11, <1>0 DEF Start, Goto, Resolved, TypeOK
    <2>2. QED BY <1>0, <2>1 DEF Share
  <1>12. CASE TakePanic(c)
    BY <1>12, <1>c, <1>a DEF TakePanic
  <1>13. CASE TakeLateError(c)
    BY <1>13, <1>c, <1>a DEF TakeLateError
  <1>14. CASE TakeSuccess(c)
    <2>1. /\ pc[c] = "select" /\ fs' = MergeInto(fs, private[c]) /\ private' = private
          /\ status'[c] = "ok" /\ pc'[c] \in Resolved
          /\ worker'[c] = "returned" /\ result'[c] = "ok"
      BY <1>14, <1>0, <1>a DEF TakeSuccess, Return, Goto, local, TypeOK
    <2>2. Account(c, status[c])'
      BY <2>1, MergedShare, BlameType DEF Account
    <2>3. QED BY <2>1, <2>2, MergedShare DEF Share
  <1>15. CASE TakeError(c)
    <2>1. /\ pc[c] = "select" /\ fs' = MergeInto(fs, private[c])
          /\ status'[c] = status[c] /\ pc'[c] = "merged"
          /\ worker'[c] = "returned" /\ result'[c] \in Failed /\ status[c] = "skipped"
      BY <1>15, <1>0 DEF TakeError, Goto, local, TypeOK, Phases, Resolved
    <2>2. QED BY <2>1, MergedShare DEF Share, Failed, Resolved
  <1>16. CASE FileFactError(c)
    <2>1. PICK at \in Blame(c), kind \in OwnKinds : fs' = PutError(fs, at, kind)
      BY <1>16 DEF FileFactError
    <2>2. /\ worker'[c] = "returned" /\ result'[c] = "factError" /\ status'[c] = "failed"
          /\ pc'[c] \in Resolved
      BY <1>16, <1>0, <1>a DEF FileFactError, Return, Goto, local, TypeOK, Phases
    <2>3. at \in FactID /\ kind \in ErrorKind /\ kind # None
      BY BlameType, CollectorAssumption, NoneAssumption
    <2>4. \A id \in Blame(c) : /\ fs'.facts[id] = IF id = at THEN None ELSE fs.facts[id]
                               /\ fs'.errors[id] = IF id = at THEN kind ELSE fs.errors[id]
      BY <1>0, <2>1, <2>3, PutErrorAt, BlameType DEF TypeOK
    <2>5. Account(c, status[c])'
      BY <2>2, <2>3, <2>4 DEF Account
    <2>6. QED BY <1>0, <2>2, <2>4, <2>5 DEF Share
  <1>17. CASE FileOtherError(c)
    BY <1>17, <1>c, <1>a DEF FileOtherError
  <1>18. CASE Abandon(c)
    BY <1>18, <1>c, <1>a DEF Abandon
  <1>19. CASE ReleaseSlot(c)
    BY <1>19, <1>0, <1>b DEF ReleaseSlot, Goto, local, Resolved, TypeOK, PC
  <1>20. CASE Observe(c)
    BY <1>20, <1>0, <1>b DEF Observe, Goto, local, Resolved, TypeOK, PC
  <1>21. CASE Close(c)
    BY <1>21, <1>0, <1>b DEF Close, Goto, local, Resolved, TypeOK, PC
  <1>22. QED
    BY <1>1, <1>2, <1>3, <1>4, <1>5, <1>6, <1>7, <1>8, <1>9, <1>10, <1>11,
       <1>12, <1>13, <1>14, <1>15, <1>16, <1>17, <1>18, <1>19, <1>20, <1>21
    DEF Goroutine

(* A worker writes its private set and its result, never the run's set;    *)
(* once its outcome counts it has returned and can write neither.          *)
LEMMA LocalUnderWorkers ==
  ASSUME IInv, NEW c \in Collector, Worker(c), NEW d \in Collector
  PROVE  Local(d)'
  <1>0. TypeOK /\ Local(d)
    BY DEF IInv
  <1>1. /\ UNCHANGED <<pc, dep, status, done, observed, fs>>
        /\ worker[c] = "running"
    BY DEF Worker, WorkerPut, WorkerPutError, WorkerReturn
  <1>2. CASE d # c
    <2>1. private'[d] = private[d] /\ worker'[d] = worker[d] /\ result'[d] = result[d]
      BY <1>0, <1>2 DEF Worker, WorkerPut, WorkerPutError, WorkerReturn, TypeOK
    <2>2. \A st : Account(d, st)' <=> Account(d, st)
      BY <1>1, <2>1 DEF Account
    <2>3. QED
      BY <1>0, <1>1, <2>1, <2>2
      DEF Local, Phases, Waited, AllDependenciesDone, PrivateOwn, Unambiguous, Share
  <1>3. CASE d = c
    <2>1. /\ worker'[c] \in {"running", "returned"}
          /\ pc[c] \notin Early \cup {"merged"}
          /\ ~(pc[c] \in Resolved /\ status[c] \in {"ok", "failed"})
      BY <1>0, <1>1, <1>3
      DEF Local, Phases, Worker, WorkerPut, WorkerPutError, WorkerReturn, TypeOK, Early
    <2>2. Phases(c)' /\ Waited(c)'
      BY <1>0, <1>1, <1>3, <2>1 DEF Local, Phases, Waited, AllDependenciesDone
    <2>3. PrivateOwn(c)'
      <3>0. PrivateOwn(c) /\ private[c] \in Set
        BY <1>0, <1>3 DEF Local, TypeOK
      <3>1. CASE WorkerPut(c)
        <4>1. PICK at \in Produces[c] : private' = [private EXCEPT ![c] = Put(@, at, c)]
          BY <3>1 DEF WorkerPut
        <4>2. private'[c] = Put(private[c], at, c) /\ at \in FactID
          BY <1>0, <4>1, CollectorAssumption DEF TypeOK
        <4>3. QED BY <3>0, <4>2, PutAt DEF PrivateOwn, Unambiguous
      <3>2. CASE WorkerPutError(c)
        <4>1. PICK at \in Produces[c], kind \in OwnKinds :
                private' = [private EXCEPT ![c] = PutError(@, at, kind)]
          BY <3>2 DEF WorkerPutError
        <4>2. private'[c] = PutError(private[c], at, kind) /\ at \in FactID
          BY <1>0, <4>1, CollectorAssumption DEF TypeOK
        <4>3. QED BY <3>0, <4>2, PutErrorAt DEF PrivateOwn, Unambiguous
      <3>3. CASE WorkerReturn(c)
        BY <3>0, <3>3 DEF WorkerReturn, PrivateOwn, Unambiguous
      <3>4. QED BY <3>1, <3>2, <3>3 DEF Worker
    <2>4. Share(c)'
      <3>1. pc[c] \in Resolved => status[c] \in {"skipped", "timeout"}
        BY <1>0, <2>1 DEF TypeOK, Status
      <3>2. pc[c] \in Resolved => Account(c, status[c])'
        BY <1>0, <1>1, <1>3, <3>1 DEF Local, Share, Account
      <3>3. \A id \in Blame(c) : fs.facts[id] = None
        BY <1>0, <1>1, <1>3 DEF Local, Share
      <3>4. QED BY <1>0, <1>1, <1>3, <3>2, <3>3 DEF Local, Share
    <2>5. QED BY <1>3, <2>2, <2>3, <2>4 DEF Local
  <1>4. QED BY <1>2, <1>3

(* Every step of Run keeps what Local says of every collector.             *)
LEMMA LocalStep == IInv /\ [Next]_vars => \A c \in Collector : Local(c)'
  <1> SUFFICES ASSUME IInv, [Next]_vars, NEW d \in Collector PROVE Local(d)'
    OBVIOUS
  <1>1. ASSUME NEW c \in Collector, Goroutine(c) PROVE Local(d)'
    BY <1>1, LocalOfOthers, OwnPhases, OwnWaited, OwnPrivate, OwnShare DEF Local
  <1>2. ASSUME NEW c \in Collector, Worker(c) PROVE Local(d)'
    BY <1>2, LocalUnderWorkers
  <1>3. CASE UNCHANGED <<pc, dep, status, done, worker, result, private, observed, fs>>
    <2>1. \A st : Account(d, st)' <=> Account(d, st)
      BY <1>3 DEF Account
    <2>2. QED
      BY <1>3, <2>1
      DEF IInv, Local, Phases, Waited, AllDependenciesDone, PrivateOwn, Unambiguous, Share
  <1>4. QED
    BY <1>1, <1>2, <1>3 DEF Next, vars, BudgetExpires, EndScan, Terminated

(* The inductive invariant holds when Run starts.                          *)
LEMMA InvInit == Init => IInv
  <1> SUFFICES ASSUME Init PROVE IInv
    OBVIOUS
  <1>1. TypeOK
    BY TypeInit
  <1>2. SlotOwned
    BY DEF Init, SlotOwned, HoldsSlot
  <1>3. NothingElse
    BY DEF Init, NothingElse, NewSet
  <1>4. ASSUME NEW c \in Collector PROVE Local(c)
    <2>1. Phases(c) /\ Waited(c)
      BY DEF Init, Phases, Waited, Early, Resolved, Status
    <2>2. PrivateOwn(c)
      BY DEF Init, PrivateOwn, Unambiguous, NewSet
    <2>3. Share(c)
      BY BlameType DEF Init, Share, Resolved, NewSet
    <2>4. QED BY <2>1, <2>2, <2>3 DEF Local
  <1>5. QED BY <1>1, <1>2, <1>3, <1>4 DEF IInv

(* The inductive invariant holds of every run of every registry.           *)
THEOREM Invariance == Spec => []IInv
  <1>1. IInv /\ [Next]_vars => IInv'
    BY TypeStep, SlotStep, NothingElseStep, LocalStep DEF IInv
  <1>2. QED BY <1>1, InvInit, PTL DEF Spec

------------------------------------------------------------------------------
(* The properties the runs check.                                          *)

(* Every variable of the runner keeps its type; in particular the slot's   *)
(* channel never holds two tokens and is never received from empty.        *)
THEOREM TypeCorrect == Spec => []TypeOK
  <1>1. IInv => TypeOK
    BY DEF IInv
  <1>2. QED BY <1>1, Invariance, PTL

(* At most one goroutine is between acquiring and releasing the expensive  *)
(* slot, and a token is in the channel exactly then.                       *)
THEOREM SlotIsOwned == Spec => []SlotOwned
  <1>1. IInv => SlotOwned
    BY DEF IInv
  <1>2. QED BY <1>1, Invariance, PTL

(* What the observer has been told about a collector is what the fact set  *)
(* says about it.                                                          *)
THEOREM OutcomesAreRecorded == Spec => []OutcomeRecorded
  <1>1. IInv => OutcomeRecorded
    <2> SUFFICES ASSUME IInv, NEW c \in Collector PROVE Account(c, observed[c])
      BY DEF OutcomeRecorded
    <2>1. TypeOK /\ Phases(c) /\ Share(c)
      BY DEF IInv, Local
    <2>2. CASE pc[c] \in {"close", "finished"}
      BY <2>1, <2>2 DEF Phases, Share, Resolved
    <2>3. CASE pc[c] \notin {"close", "finished"}
      BY <2>1, <2>3 DEF Phases, Status, Account
    <2>4. QED BY <2>2, <2>3
  <1>2. QED BY <1>1, Invariance, PTL

(* No Collect starts before every collector it depends on has been         *)
(* reported and accounted for.                                             *)
THEOREM DependenciesComeFirst == Spec => []DependenciesFirst
  <1>1. IInv => DependenciesFirst
    <2> SUFFICES ASSUME IInv, NEW c \in Collector, worker[c] # "idle",
                        NEW i \in DOMAIN DependsOn[c], DependsOn[c][i] \in Collector
                 PROVE  LET d == DependsOn[c][i]
                        IN  d \in done /\ observed[d] \in Status /\ Account(d, observed[d])
      BY DEF DependenciesFirst
    <2> DEFINE d == DependsOn[c][i]
    <2>1. d \in done
      BY DEF IInv, Local, Waited, AllDependenciesDone
    <2>2. TypeOK /\ Phases(d) /\ Share(d)
      BY DEF IInv, Local
    <2>3. pc[d] = "finished" /\ observed[d] = status[d] /\ status[d] \in Status
      BY <2>1, <2>2 DEF Phases, TypeOK
    <2>4. Account(d, observed[d])
      BY <2>2, <2>3 DEF Share, Resolved
    <2>5. QED BY <2>1, <2>3, <2>4
  <1>2. QED BY <1>1, Invariance, PTL

(* The run's set never holds both a fact and an error for one ID.          *)
THEOREM NeverAmbiguous == Spec => []FactOrError
  <1>1. IInv => FactOrError
    BY DEF IInv, Local, Share, NothingElse, FactOrError, Unambiguous
  <1>2. QED BY <1>1, Invariance, PTL

(* Every fact of the run's set comes from a Collect that returned without  *)
(* panicking, of a collector that was not given up on.                     *)
THEOREM NoHalfTruthIsKept == Spec => []NoHalfTruths
  <1>1. IInv => NoHalfTruths
    BY DEF IInv, Local, Share, NothingElse, NoHalfTruths
  <1>2. QED BY <1>1, Invariance, PTL

(* After Run has returned no goroutine, however late, changes the set.     *)
THEOREM CollectedSetIsFrozen == Spec => CollectedSetFrozen
  <1>1. IInv /\ [Next]_vars => [Returned => UNCHANGED fs]_vars
    <2> SUFFICES ASSUME IInv, Next, Returned PROVE UNCHANGED fs
      BY DEF vars
    <2>1. ASSUME NEW c \in Collector, Goroutine(c) PROVE FALSE
      BY <2>1
      DEF Returned, Goroutine, SkipUnwired, SkipUnprivileged, Admit, AwaitDependency,
          CancelledAwaiting, PassDependencies, AcquireSlot, CancelledQueued,
          CancelledBeforeStart, PassScanCheck, Start, TakePanic, TakeLateError,
          TakeSuccess, TakeError, FileFactError, FileOtherError, Abandon,
          ReleaseSlot, Observe, Close
    <2>2. QED
      BY <2>1 DEF Next, vars, Worker, WorkerPut, WorkerPutError, WorkerReturn,
                  BudgetExpires, EndScan, Terminated
  <1>2. QED BY <1>1, Invariance, PTL DEF Spec, CollectedSetFrozen

------------------------------------------------------------------------------
(* Runner implements Collection.  The abstract step Resolve(c) is the      *)
(* closing of c's channel; every other step of Run, whatever it writes     *)
(* into the fact set, is invisible until then.                             *)

(* The refinement mapping, as Runner substitutes it.                       *)
Before  == [c \in Collector |-> {DependsOn[c][i] : i \in DOMAIN DependsOn[c]} \cap Collector]
Duty    == [c \in Collector |-> Blame(c)]
outcome == [c \in Collector |-> IF c \in done THEN status[c] ELSE "pending"]
report  == [facts  |-> [id \in FactID |-> IF Visible(id) THEN fs.facts[id] ELSE None],
            errors |-> [id \in FactID |-> IF Visible(id) THEN fs.errors[id] ELSE None]]

(* A fact ID is visible exactly when the one collector that answers for it *)
(* has closed its channel.                                                 *)
LEMMA VisibleIsOwn ==
  ASSUME done \subseteq Collector, NEW c \in Collector, NEW id \in Blame(c)
  PROVE  Visible(id) <=> c \in done
  BY ProducesAssumption DEF Visible

(* Before Run starts a goroutine no collector is resolved.                 *)
LEMMA PromiseInit == Init => Promise!CInit
  BY DEF Init, Promise!CInit, Promise!NewSet, Visible

(* A goroutine that does not close its channel changes neither the outcome *)
(* of a resolved collector nor a visible entry of the report.              *)
LEMMA UnresolvedStutters ==
  ASSUME IInv, NEW c \in Collector, Goroutine(c), ~Close(c)
  PROVE  outcome' = outcome /\ report' = report
  <1>0. TypeOK /\ Phases(c)
    BY DEF IInv, Local
  <1>1. done' = done /\ c \notin done
    BY <1>0 DEF Phases, Goroutine, SkipUnwired, SkipUnprivileged, Admit,
           AwaitDependency, CancelledAwaiting, PassDependencies, AcquireSlot,
           CancelledQueued, CancelledBeforeStart, PassScanCheck, Start, TakePanic,
           TakeLateError, TakeSuccess, TakeError, FileFactError, FileOtherError,
           Abandon, ReleaseSlot, Observe
  <1>2. \A d \in done : status'[d] = status[d]
    BY <1>0, <1>1, OthersStay DEF TypeOK
  <1>3. outcome' = outcome
    BY <1>1, <1>2 DEF outcome
  <1>4. ASSUME NEW id \in FactID
        PROVE  /\ Visible(id)' <=> Visible(id)
               /\ Visible(id) => /\ fs'.facts[id] = fs.facts[id]
                                 /\ fs'.errors[id] = fs.errors[id]
    <2>1. Visible(id) => id \notin Blame(c)
      BY <1>0, <1>1, VisibleIsOwn DEF TypeOK
    <2>2. QED BY <1>1, <2>1, WritesOwnShare DEF Visible
  <1>5. report' = report
    BY <1>4 DEF report
  <1>6. QED BY <1>3, <1>5

(* A step that leaves the channels, the outcomes and the set alone.        *)
LEMMA SilentStutters ==
  ASSUME UNCHANGED <<done, status, fs>>
  PROVE  outcome' = outcome /\ report' = report
  <1>1. \A id : Visible(id)' <=> Visible(id)
    BY DEF Visible
  <1>2. QED BY <1>1 DEF outcome, report

(* Closing the channel resolves the collector: its dependencies were       *)
(* resolved if it got as far as Collect, and what becomes visible agrees   *)
(* with its outcome.                                                       *)
LEMMA CloseResolves ==
  ASSUME IInv, NEW c \in Collector, Close(c)
  PROVE  Promise!Resolve(c)
  <1>0. /\ TypeOK /\ Phases(c) /\ Waited(c) /\ Share(c) /\ PrivateOwn(c)
        /\ pc[c] = "close" /\ c \notin done /\ done' = done \cup {c}
        /\ status' = status /\ fs' = fs /\ status[c] \in Status
    BY DEF IInv, Local, Phases, Close, TypeOK
  <1>1. outcome[c] = "pending" /\ outcome' = [outcome EXCEPT ![c] = status[c]]
    BY <1>0 DEF outcome
  <1>2. status[c] \in {"ok", "failed"} => \A d \in Before[c] : outcome[d] # "pending"
    <2> SUFFICES ASSUME status[c] \in {"ok", "failed"}, NEW d \in Before[c]
                 PROVE  outcome[d] # "pending"
      OBVIOUS
    <2>1. AllDependenciesDone(c)
      BY <1>0 DEF Phases, Waited, Resolved
    <2>2. d \in done /\ d \in Collector /\ status[d] \in Status
      BY <1>0, <2>1 DEF Before, AllDependenciesDone, TypeOK
    <2>3. QED BY <2>2 DEF outcome, Status
  <1>3. \A id \in Blame(c) : /\ id \in FactID
                             /\ report'.facts[id] = fs.facts[id]
                             /\ report'.errors[id] = fs.errors[id]
    <2>1. done' \subseteq Collector /\ c \in done'
      BY <1>0 DEF TypeOK
    <2>2. \A id \in Blame(c) : Visible(id)'
      BY <2>1 DEF Visible
    <2>3. QED BY <1>0, <2>2, BlameType DEF report
  <1>4. \A id \in FactID \ Blame(c) : /\ report'.facts[id] = report.facts[id]
                                      /\ report'.errors[id] = report.errors[id]
    BY <1>0 DEF report, Visible
  <1>5. /\ Account(c, status[c])
        /\ \A id \in Blame(c) : fs.facts[id] \in {c, None}
        /\ \A id \in Blame(c) : fs.facts[id] = None \/ fs.errors[id] = None
    BY <1>0 DEF Share, Resolved
  <1>6. Promise!Honest(c, status[c], report')
    BY <1>3, <1>5 DEF Promise!Honest, Account, report
  <1>7. QED
    BY <1>0, <1>1, <1>2, <1>4, <1>6 DEF Promise!Resolve, Promise!Outcome, Status, outcome, report, Before

(* Run keeps Collection's promise in every run of every registry.          *)
THEOREM RunKeepsPromise == Spec => KeepsPromise
  <1>1. IInv /\ [Next]_vars => [Promise!CNext]_<<outcome, report>>
    <2> SUFFICES ASSUME IInv, [Next]_vars
                 PROVE  Promise!CNext \/ UNCHANGED <<outcome, report>>
      OBVIOUS
    <2>1. ASSUME NEW c \in Collector, Goroutine(c)
          PROVE  Promise!CNext \/ UNCHANGED <<outcome, report>>
      BY <2>1, CloseResolves, UnresolvedStutters DEF Promise!CNext
    <2>2. CASE UNCHANGED <<done, status, fs>>
      BY <2>2, SilentStutters
    <2>3. QED
      BY <2>1, <2>2 DEF Next, vars, Worker, WorkerPut, WorkerPutError, WorkerReturn,
                        BudgetExpires, EndScan, Terminated
  <1>2. QED
    BY <1>1, PromiseInit, Invariance, PTL DEF Spec, KeepsPromise, Promise!CSpec, outcome, report
==============================================================================
