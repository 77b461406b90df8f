----------------------------- MODULE SaveProofs ------------------------------
(***************************************************************************)
(* Theorems about SaveBundle, for every registry, every host and every     *)
(* order in which workers, signals, deadlines, crashes and the writer of   *)
(* the bundle take their steps.                                            *)
(***************************************************************************)
EXTENDS SaveBundle, RunnerProofs

------------------------------------------------------------------------------
(* The inductive invariant, on top of the runner's.                        *)

Asked    == {"stopping", "opening"}
Indexing == {"facts", "len", "bytes", "sources", "errors", "digests"}
Writing  == {"members", "closing"}

(* The shape of what the proofs compute with.  The two counters of the     *)
(* index are left out: they are only ever compared.                        *)
Shape ==
  /\ marking \in [Collector -> Path \cup {None}]
  /\ reads \in [Collector -> SUBSET Path]
  /\ blobs \subseteq Blob
  /\ archived \subseteq Blob
  /\ index = [count |-> index.count, bytes |-> index.bytes, sources |-> index.sources]
  /\ encoded = [facts |-> encoded.facts, errors |-> encoded.errors,
                vouched |-> encoded.vouched]

(* The command is past Run only when Run has returned, and the file exists *)
(* from CreateBundle on, empty until the members are written.              *)
Stage ==
  /\ save \in {"collecting", "exited", "killed"} \cup Asked \cup Indexing \cup Writing
  /\ save # "collecting" => Returned
  /\ save \in {"collecting"} \cup Asked => file = None
  /\ save \in Indexing => file = {}
  /\ save \in Writing => file \subseteq Name
  /\ save = "closing" => file = Whole
  /\ save # "exited" => exit = None
  /\ exit \in {0, 4, 11} => save = "exited" /\ file = Whole

(* What the writer has encoded so far is what the run's set holds, and     *)
(* what it has sealed is all of the archive: the set does not move between *)
(* the two looks at it, nor after.  A file with members has gone through   *)
(* all of these.                                                           *)
Begun == file \notin {None, {}}

FactsEncoded  == encoded.facts = fs.facts
ErrorsEncoded == encoded.errors = fs.errors
Sealed        == encoded.vouched = Whole \ {Integrity}

Faithful ==
  /\ save \in (Indexing \ {"facts"}) \cup Writing => FactsEncoded
  /\ save \in {"digests"} \cup Writing => ErrorsEncoded
  /\ save \in Writing => Sealed
  /\ Begun => FactsEncoded /\ ErrorsEncoded /\ Sealed

(* The answer to whether the run was interrupted stays the right one about *)
(* the time before the question.                                           *)
EndedBySignal == signalled = "collecting" /\ cause = "signal"

Sampled ==
  /\ save = "stopping" => EndedBySignal
  /\ save \in {"opening"} \cup Indexing \cup Writing => ~EndedBySignal

(* While the collection is all that has happened, a context that a signal  *)
(* ended was ended by one of that time.                                    *)
SignalsAreCauses ==
  /\ cause = "signal" => signalled # None
  /\ save = "collecting" /\ signalled # None => signalled = "collecting"

(* A worker in the middle of a read is running, and everything it has read *)
(* is in the store, the oversized file it is about to mark excepted.       *)
Kept(c) ==
  /\ marking[c] # None => worker[c] = "running"
  /\ \A p \in reads[c] \ Credential :
       /\ Content[p] \in blobs
       /\ p \in Oversized => p \in truncated \/ marking[c] = p

(* A collector that reported back: none of its reads is still to come.     *)
Reported(c) == status[c] \in {"ok", "failed"}

(* What the writer took from the store covers those collectors' reads.     *)
SourcesTaken ==
  \A c \in Collector : Reported(c) =>
    \A p \in reads[c] \ Credential : p \in Oversized => p \in index.sources

DigestsTaken ==
  \A c \in Collector : Reported(c) =>
    \A p \in reads[c] \ Credential : Content[p] \in archived

Taken ==
  /\ save \in {"errors", "digests"} \cup Writing => SourcesTaken
  /\ save \in Writing => DigestsTaken
  /\ file \notin {None, {}} => SourcesTaken /\ DigestsTaken

(* When every collector succeeded nobody writes to the store any more, and *)
(* the writer's four looks at it agree.                                    *)
AllOk == \A c \in Collector : status[c] = "ok"

Agree ==
  AllOk =>
    /\ save \in {"bytes", "sources", "errors", "digests"} \cup Writing \/ exit = 0 =>
         index.count = Cardinality(blobs)
    /\ save \in {"sources", "errors", "digests"} \cup Writing \/ exit = 0 =>
         index.bytes = TotalBytes(blobs)
    /\ save \in Writing \/ exit = 0 => archived = blobs

(* Exit code 0 is given to a run without an error.                         *)
ZeroIsClean == exit = 0 => FactErrors(fs) = {}

SInv ==
  /\ IInv
  /\ Shape
  /\ Stage
  /\ \A c \in Collector : Kept(c)
  /\ Taken
  /\ Agree
  /\ ZeroIsClean
  /\ Faithful
  /\ Sampled
  /\ SignalsAreCauses
  /\ InterruptLeavesNothing

------------------------------------------------------------------------------
(* The command contains the run.                                           *)

(* Every step of the command is a step of Run or leaves Run alone.         *)
LEMMA CommandStepsRun == [SaveNext]_svars => [Next]_vars
  <1> SUFFICES ASSUME [SaveNext]_svars PROVE [Next]_vars
    OBVIOUS
  <1>1. ASSUME NEW c \in Collector, RunStep(c) PROVE Next
    BY <1>1 DEF RunStep, Next
  <1>2. EndScan => Next
    BY DEF Next
  <1>3. QED
    BY <1>1, <1>2
    DEF SaveNext, svars, ReadFile, MarkTruncated, Deadline, Signal, Kill, Sample, Interrupted,
        CannotCreate, CreateBundle, EncodeFacts, IndexLen, IndexBytes, IndexSources,
        EncodeErrors, ListDigests,
        WriteMember, WriteFails, Exit, Ended

(* After Run has returned its goroutines, their outcomes and its set stay. *)
LEMMA ReturnedStays ==
  ASSUME TypeOK, [Next]_vars, Returned
  PROVE  Returned' /\ UNCHANGED <<pc, status, fs>>
  <1>1. ASSUME NEW c \in Collector, Goroutine(c) PROVE FALSE
    BY <1>1
    DEF Returned, Goroutine, SkipUnwired, SkipUnprivileged, Admit, AwaitDependency,
        CancelledAwaiting, PassDependencies, AcquireSlot, CancelledQueued,
        CancelledBeforeStart, PassScanCheck, Start, TakePanic, TakeLateError,
        TakeSuccess, TakeError, FileFactError, FileOtherError, Abandon,
        ReleaseSlot, Observe, Close
  <1>2. UNCHANGED <<pc, status, fs>>
    BY <1>1 DEF Next, vars, Worker, WorkerPut, WorkerPutError, WorkerReturn,
                BudgetExpires, EndScan, Terminated
  <1>3. QED BY <1>2 DEF Returned

(* A collector that reported back has a worker that has returned.          *)
LEMMA ReportedReturned ==
  ASSUME IInv, NEW c \in Collector, Reported(c)
  PROVE  worker[c] = "returned"
  BY DEF IInv, Local, Phases, Reported

(* What the layout lists, and what integrity.json has digests of.          *)
LEMMA LayoutIs ==
  ASSUME NEW e, NEW B
  PROVE  /\ Members(e, B) =
              {Manifest} \cup {Meta} \cup {FactFile(i) : i \in FactIDs(e)}
                \cup {BlobFile(b) : b \in B} \cup {Errors} \cup {Integrity}
         /\ Vouched(e, B) = Members(e, B) \ {Integrity}
  <1> DEFINE L == Layout(e, B)
             F == {FactFile(i) : i \in FactIDs(e)}
             E == {BlobFile(b) : b \in B}
             V == {Manifest} \cup {Meta} \cup F \cup E \cup {Errors}
  <1>1. 1..6 = {1, 2, 3, 4, 5, 6}
    OBVIOUS
  <1>2. /\ L[1] = {Manifest} /\ L[2] = {Meta} /\ L[3] = F /\ L[4] = E
        /\ L[5] = {Errors} /\ L[6] = {Integrity}
    BY DEF Layout
  <1>3. /\ Integrity \notin {Manifest} \cup {Meta} \cup {Errors}
        /\ Integrity \notin F /\ Integrity \notin E
    BY DEF Manifest, Meta, FactFile, BlobFile, Errors, Integrity
  <1> HIDE DEF L, F, E
  <1>4. \A k \in 1..6 : (\A j \in 1..k : L[j] # {Integrity}) <=> k \in {1, 2, 3, 4, 5}
    <2>1. \A k \in {1, 2, 3, 4, 5} : L[k] # {Integrity}
      BY <1>2, <1>3
    <2>2. \A k \in {1, 2, 3, 4, 5} : \A j \in 1..k : j \in {1, 2, 3, 4, 5}
      OBVIOUS
    <2>3. 6 \in 1..6 /\ L[6] = {Integrity}
      BY <1>2
    <2>4. QED BY <1>1, <2>1, <2>2, <2>3
  <1>5. {k \in 1..6 : \A j \in 1..k : L[j] # {Integrity}} = {1, 2, 3, 4, 5}
    BY <1>1, <1>4
  <1>6. Members(e, B) = V \cup {Integrity}
    BY <1>1, <1>2 DEF Members, L
  <1>7. Vouched(e, B) = UNION {L[k] : k \in {1, 2, 3, 4, 5}}
    BY <1>5 DEF Vouched, L
  <1>8. UNION {L[k] : k \in {1, 2, 3, 4, 5}} = V
    BY <1>2
  <1>9. Integrity \notin V
    BY <1>3
  <1> HIDE DEF V
  <1>10. Vouched(e, B) = Members(e, B) \ {Integrity}
    BY <1>6, <1>7, <1>8, <1>9
  <1>11. QED BY <1>6, <1>10 DEF V, F, E

(* The whole archive.                                                      *)
LEMMA WholeIs ==
  Whole = {Manifest} \cup {Meta} \cup {FactFile(i) : i \in FactIDs(encoded)}
            \cup {BlobFile(b) : b \in archived} \cup {Errors} \cup {Integrity}
  BY LayoutIs DEF Whole

(* Where the archive's members are: each kind in its place of the layout.  *)
LEMMA WholeMembers ==
  /\ \A b \in Blob : BlobFile(b) \in Whole <=> b \in archived
  /\ \A i \in FactID : FactFile(i) \in Whole <=> i \in FactIDs(encoded)
  /\ Manifest \in Whole /\ Errors \in Whole /\ Integrity \in Whole
  BY WholeIs DEF Manifest, Meta, FactFile, BlobFile, Errors, Integrity

(* Only member names are laid out.                                         *)
LEMMA WholeNames ==
  ASSUME Shape PROVE Whole \subseteq Name
  BY WholeIs DEF Shape, Name, FactIDs

(* The layout depends on what is encoded and the listed digests only.      *)
LEMMA WholeStays ==
  ASSUME UNCHANGED <<encoded, archived>> PROVE Whole' = Whole
  BY DEF Whole, Members, Layout, FactIDs

------------------------------------------------------------------------------
(* One lemma per part of the invariant.                                    *)

(* The store and the writer's copies of it keep their shape.               *)
LEMMA ShapeStep == SInv /\ [SaveNext]_svars => Shape'
  <1> SUFFICES ASSUME SInv, [SaveNext]_svars PROVE Shape'
    OBVIOUS
  <1> USE DEF Shape
  <1>0. Shape
    BY DEF SInv
  <1>1. ASSUME NEW c \in Collector, ReadFile(c) PROVE Shape'
    <2>1. PICK p \in Reads[c] \ reads[c] :
            /\ reads' = [reads EXCEPT ![c] = @ \cup {p}]
            /\ blobs' = IF p \in Credential THEN blobs ELSE blobs \cup {Content[p]}
            /\ marking' = [marking EXCEPT
                 ![c] = IF p \in Oversized \ Credential THEN p ELSE None]
      BY <1>1 DEF ReadFile
    <2>2. p \in Path /\ Content[p] \in Blob
      BY PathAssumption DEF Blob
    <2>3. QED BY <1>0, <1>1, <2>1, <2>2 DEF ReadFile, command
  <1>2. ASSUME NEW c \in Collector, MarkTruncated(c) PROVE Shape'
    BY <1>0, <1>2 DEF MarkTruncated, command
  <1>3. CASE IndexLen
    BY <1>0, <1>3 DEF IndexLen, store
  <1>4. CASE IndexBytes
    BY <1>0, <1>4 DEF IndexBytes, store
  <1>5. CASE IndexSources
    BY <1>0, <1>5 DEF IndexSources, store
  <1>6. CASE ListDigests
    BY <1>0, <1>6 DEF ListDigests, store
  <1>7. CASE EncodeFacts
    BY <1>0, <1>7 DEF EncodeFacts, store
  <1>8. CASE EncodeErrors
    BY <1>0, <1>8 DEF EncodeErrors, store
  <1>9. CASE UNCHANGED <<store, index, encoded, archived>>
    BY <1>0, <1>9 DEF store
  <1>10. QED
    BY <1>1, <1>2, <1>3, <1>4, <1>5, <1>6, <1>7, <1>8, <1>9
    DEF SaveNext, svars, RunStep, command, Deadline, Signal, Kill, Sample, Interrupted,
        CannotCreate, CreateBundle, WriteMember, WriteFails, Exit, Ended

(* The command moves on only once Run has returned, and what the finished  *)
(* file should hold does not move under the writer.                        *)
LEMMA StageStep == SInv /\ [SaveNext]_svars => Stage'
  <1> SUFFICES ASSUME SInv, [SaveNext]_svars PROVE Stage'
    OBVIOUS
  <1>0. Stage /\ TypeOK /\ [Next]_vars
    BY CommandStepsRun DEF SInv, IInv
  <1>a. Returned => Returned' /\ fs' = fs
    BY <1>0, ReturnedStays
  <1>b. UNCHANGED <<encoded, archived>> => Whole' = Whole
    BY WholeStays
  <1>c. None \notin {0, 4, 11}
    BY FileAssumption
  <1> USE <1>0, <1>a, <1>b, <1>c DEF Stage, Asked, Indexing, Writing
  <1>1. CASE UNCHANGED command
    BY <1>1 DEF command
  <1>2. CASE Interrupted
    BY <1>2 DEF Interrupted
  <1>3. CASE CannotCreate
    BY <1>3 DEF CannotCreate
  <1>4. CASE CreateBundle
    BY <1>4 DEF CreateBundle
  <1>5. CASE IndexLen
    BY <1>5 DEF IndexLen
  <1>6. CASE IndexBytes
    BY <1>6 DEF IndexBytes
  <1>7. CASE IndexSources
    BY <1>7 DEF IndexSources
  <1>8. CASE ListDigests
    BY <1>8 DEF ListDigests
  <1>9. CASE WriteMember
    <2>1. PICK k \in 1..6 :
            \E n \in Layout(encoded, archived)[k] \ file : file' = file \cup {n}
      BY <1>9 DEF WriteMember
    <2>2. PICK n \in Layout(encoded, archived)[k] \ file : file' = file \cup {n}
      BY <2>1
    <2>3. n \in Name
      BY <2>2, WholeNames DEF SInv, Whole, Members
    <2>4. QED BY <1>9, <2>2, <2>3 DEF WriteMember
  <1>10. CASE WriteFails
    BY <1>10 DEF WriteFails
  <1>11. CASE Exit
    BY <1>11 DEF Exit, ExitCode
  <1>12. CASE Kill /\ Alive
    BY <1>12 DEF Kill, Alive
  <1>13. CASE Sample
    BY <1>13 DEF Sample
  <1>14. CASE EncodeFacts
    BY <1>14 DEF EncodeFacts
  <1>15. CASE EncodeErrors
    BY <1>15 DEF EncodeErrors
  <1>16. QED
    BY <1>1, <1>2, <1>3, <1>4, <1>5, <1>6, <1>7, <1>8, <1>9, <1>10, <1>11, <1>12,
       <1>13, <1>14, <1>15
    DEF SaveNext, svars, RunStep, ReadFile, MarkTruncated, Deadline, Signal, Ended

(* A read in progress keeps its worker running, and the store keeps what   *)
(* has been read.                                                          *)
LEMMA KeptStep ==
  ASSUME SInv, [SaveNext]_svars, NEW d \in Collector
  PROVE  Kept(d)'
  <1>0. TypeOK /\ Shape /\ Kept(d)
    BY DEF SInv, IInv
  <1>a. ASSUME UNCHANGED store, marking[d] # None => worker'[d] = worker[d] \/ worker'[d] = "running"
        PROVE  Kept(d)'
    BY <1>0, <1>a DEF Kept, store
  <1>1. ASSUME NEW c \in Collector, RunStep(c) PROVE Kept(d)'
    <2>1. CASE Goroutine(c) /\ c # d
      BY <1>0, <1>1, <1>a, <2>1, OthersStay DEF RunStep
    <2>2. CASE Goroutine(d)
      <3>1. worker'[d] = worker[d] \/ worker'[d] = "running"
        BY <1>0, <2>2
        DEF TypeOK, local, Goroutine, SkipUnwired, SkipUnprivileged, Admit, AwaitDependency,
            CancelledAwaiting, PassDependencies, AcquireSlot, CancelledQueued,
            CancelledBeforeStart, PassScanCheck, Start, TakePanic, TakeLateError,
            TakeSuccess, TakeError, FileFactError, FileOtherError, Abandon,
            ReleaseSlot, Observe, Close
      <3>2. QED BY <1>1, <1>a, <3>1 DEF RunStep
    <2>3. CASE BudgetExpires(c)
      BY <1>1, <1>a, <2>3 DEF RunStep, BudgetExpires
    <2>4. CASE marking[c] = None /\ Worker(c)
      BY <1>0, <1>1, <1>a, <2>4
      DEF RunStep, TypeOK, Worker, WorkerPut, WorkerPutError, WorkerReturn
    <2>5. QED BY <1>1, <2>1, <2>2, <2>3, <2>4 DEF RunStep
  <1>2. ASSUME NEW c \in Collector, ReadFile(c) PROVE Kept(d)'
    <2>1. PICK p \in Reads[c] \ reads[c] :
            /\ reads' = [reads EXCEPT ![c] = @ \cup {p}]
            /\ blobs' = IF p \in Credential THEN blobs ELSE blobs \cup {Content[p]}
            /\ marking' = [marking EXCEPT
                 ![c] = IF p \in Oversized \ Credential THEN p ELSE None]
      BY <1>2 DEF ReadFile
    <2>2. /\ worker' = worker /\ truncated' = truncated
          /\ worker[c] = "running" /\ marking[c] = None
      BY <1>2 DEF ReadFile, vars
    <2>3. blobs \subseteq blobs' /\ (p \notin Credential => Content[p] \in blobs')
      BY <2>1
    <2>4. CASE c # d
      <3>1. reads'[d] = reads[d] /\ marking'[d] = marking[d]
        BY <1>0, <2>1, <2>4 DEF Shape
      <3>2. QED BY <1>0, <2>2, <2>3, <3>1 DEF Kept
    <2>5. CASE c = d
      <3>1. /\ reads'[d] = reads[d] \cup {p}
            /\ marking'[d] = IF p \in Oversized \ Credential THEN p ELSE None
        BY <1>0, <2>1, <2>5 DEF Shape
      <3>2. \A q \in reads[d] \ Credential : q \in Oversized => q \in truncated
        <4>1. reads[d] \subseteq Path
          BY <1>0 DEF Shape
        <4>2. QED BY <1>0, <2>2, <2>5, <4>1, PathAssumption DEF Kept
      <3>3. QED BY <1>0, <2>2, <2>3, <2>5, <3>1, <3>2 DEF Kept
    <2>6. QED BY <2>4, <2>5
  <1>3. ASSUME NEW c \in Collector, MarkTruncated(c) PROVE Kept(d)'
    <2>1. /\ worker' = worker /\ reads' = reads /\ blobs' = blobs
          /\ truncated' = truncated \cup {marking[c]}
          /\ marking' = [marking EXCEPT ![c] = None]
      BY <1>3 DEF MarkTruncated, vars
    <2>2. marking'[d] = IF c = d THEN None ELSE marking[d]
      BY <1>0, <2>1 DEF Shape
    <2>3. QED BY <1>0, <2>1, <2>2 DEF Kept
  <1>4. CASE UNCHANGED <<store, worker>>
    BY <1>a, <1>4
  <1>5. QED
    BY <1>1, <1>2, <1>3, <1>4
    DEF SaveNext, svars, vars, Deadline, Signal, EndScan, Kill, Sample, Interrupted,
        CannotCreate, CreateBundle, EncodeFacts, IndexLen, IndexBytes, IndexSources,
        EncodeErrors, ListDigests,
        WriteMember, WriteFails, Exit, Ended

(* Once Run has returned, the reads of a collector that reported back are  *)
(* all in.                                                                 *)
LEMMA ReportedIsOver ==
  ASSUME SInv, [SaveNext]_svars, Returned, NEW c \in Collector
  PROVE  /\ status'[c] = status[c]
         /\ Reported(c) => reads'[c] = reads[c] /\ worker[c] = "returned" /\ marking[c] = None
  <1>0. IInv /\ TypeOK /\ Shape /\ Kept(c) /\ [Next]_vars
    BY CommandStepsRun DEF SInv, IInv
  <1>1. status'[c] = status[c]
    BY <1>0, ReturnedStays
  <1>2. ASSUME Reported(c) PROVE worker[c] = "returned" /\ marking[c] = None
    BY <1>0, <1>2, ReportedReturned DEF Kept
  <1>3. ASSUME NEW d \in Collector, ReadFile(d), Reported(c) PROVE reads'[c] = reads[c]
    BY <1>0, <1>2, <1>3 DEF ReadFile, Shape
  <1>4. Reported(c) => reads'[c] = reads[c]
    BY <1>3
    DEF SaveNext, svars, store, RunStep, MarkTruncated, Deadline, Signal, Kill,
        Sample, Interrupted, CannotCreate, CreateBundle, EncodeFacts, IndexLen, IndexBytes,
        IndexSources, EncodeErrors, ListDigests, WriteMember, WriteFails, Exit, Ended
  <1>5. QED BY <1>1, <1>2, <1>4

(* What the writer took stays enough: the collectors that reported back    *)
(* read nothing more, whatever an abandoned worker still adds.             *)
LEMMA TakenStep == SInv /\ [SaveNext]_svars => Taken'
  <1> SUFFICES ASSUME SInv, [SaveNext]_svars PROVE Taken'
    OBVIOUS
  <1>0. Stage /\ Taken /\ Shape /\ \A c \in Collector : Kept(c)
    BY DEF SInv
  <1>a. ASSUME Returned, index'.sources = index.sources, SourcesTaken PROVE SourcesTaken'
    BY <1>a, ReportedIsOver DEF SourcesTaken, Reported
  <1>b. ASSUME Returned, archived' = archived, DigestsTaken PROVE DigestsTaken'
    BY <1>b, ReportedIsOver DEF DigestsTaken, Reported
  <1>c. ASSUME Returned, index'.sources = index.sources, archived' = archived,
               save' \in {"errors", "digests"} \cup Writing =>
                 save \in {"errors", "digests"} \cup Writing,
               save' \in Writing => save \in Writing,
               file' = file
        PROVE  Taken'
    BY <1>0, <1>a, <1>b, <1>c DEF Taken, Writing
  <1>1. CASE UNCHANGED command
    <2>1. CASE save = "collecting"
      BY <1>0, <1>1, <2>1 DEF Taken, Stage, Writing, command
    <2>2. CASE save # "collecting"
      BY <1>0, <1>1, <1>c, <2>2 DEF Stage, command
    <2>3. QED BY <2>1, <2>2
  <1>2. CASE Interrupted
    BY <1>0, <1>c, <1>2 DEF Interrupted, Stage, Writing
  <1>3. CASE CannotCreate
    BY <1>0, <1>c, <1>3 DEF CannotCreate, Stage, Writing
  <1>4. CASE CreateBundle
    BY <1>4 DEF CreateBundle, Taken, Writing
  <1>5. CASE IndexLen
    BY <1>0, <1>5 DEF IndexLen, Taken, Stage, Indexing, Writing
  <1>6. CASE IndexBytes
    BY <1>0, <1>6 DEF IndexBytes, Taken, Stage, Indexing, Writing
  <1>7. CASE IndexSources
    <2>1. index'.sources = truncated /\ Returned /\ save' = "errors" /\ file' = {}
      BY <1>0, <1>7 DEF IndexSources, Shape, Stage, Indexing
    <2>2. ASSUME NEW c \in Collector, Reported(c)', NEW p \in reads'[c] \ Credential,
                 p \in Oversized
          PROVE  p \in truncated
      <3>1. /\ Reported(c) /\ reads'[c] = reads[c]
            /\ marking[c] = None /\ reads[c] \subseteq Path
        BY <1>0, <2>1, <2>2, ReportedIsOver DEF Reported, Shape
      <3>2. QED BY <1>0, <2>2, <3>1, PathAssumption DEF Kept
    <2>3. QED BY <2>1, <2>2 DEF Taken, Writing, SourcesTaken
  <1>8. CASE ListDigests
    <2>1. /\ index' = index /\ archived' = blobs /\ Returned /\ save' = "members" /\ file' = {}
          /\ SourcesTaken
      BY <1>0, <1>8 DEF ListDigests, Stage, Indexing, Taken
    <2>2. ASSUME NEW c \in Collector, Reported(c)', NEW p \in reads'[c] \ Credential
          PROVE  Content[p] \in blobs
      <3>1. Reported(c) /\ reads'[c] = reads[c]
        BY <2>1, <2>2, ReportedIsOver DEF Reported
      <3>2. QED BY <1>0, <2>2, <3>1 DEF Kept
    <2>3. QED BY <1>a, <2>1, <2>2 DEF Taken, Writing, DigestsTaken
  <1>9. CASE WriteMember
    BY <1>0, <1>a, <1>b, <1>9 DEF WriteMember, Taken, Stage, Writing
  <1>10. CASE WriteFails
    BY <1>0, <1>c, <1>10 DEF WriteFails, Stage, Writing
  <1>11. CASE Exit
    BY <1>0, <1>c, <1>11 DEF Exit, Stage, Writing
  <1>12. CASE Kill /\ Alive
    BY <1>0, <1>c, <1>12 DEF Kill, Alive, Stage, Writing
  <1>13. CASE Sample
    BY <1>0, <1>c, <1>13 DEF Sample, Stage, Asked, Writing
  <1>14. CASE EncodeFacts
    BY <1>0, <1>c, <1>14 DEF EncodeFacts, Stage, Writing
  <1>15. CASE EncodeErrors
    BY <1>0, <1>c, <1>15 DEF EncodeErrors, Stage, Writing
  <1>16. QED
    BY <1>1, <1>2, <1>3, <1>4, <1>5, <1>6, <1>7, <1>8, <1>9, <1>10, <1>11, <1>12,
       <1>13, <1>14, <1>15
    DEF SaveNext, svars, RunStep, ReadFile, MarkTruncated, Deadline, Signal, Ended

(* When every collector succeeded, nobody touches the store any more.      *)
LEMMA StoreAtRest ==
  ASSUME SInv, [SaveNext]_svars, Returned, AllOk' \/ AllOk
  PROVE  AllOk /\ UNCHANGED blobs
  <1>1. AllOk
    BY ReportedIsOver DEF AllOk
  <1>2. \A c \in Collector : worker[c] = "returned"
    BY <1>1, ReportedIsOver DEF AllOk, Reported
  <1>3. ASSUME NEW c \in Collector, ReadFile(c) PROVE FALSE
    BY <1>2, <1>3 DEF ReadFile
  <1>4. UNCHANGED blobs
    BY <1>3
    DEF SaveNext, svars, store, RunStep, MarkTruncated, Deadline, Signal, Kill,
        Sample, Interrupted, CannotCreate, CreateBundle, EncodeFacts, IndexLen, IndexBytes,
        IndexSources, EncodeErrors, ListDigests, WriteMember, WriteFails, Exit, Ended
  <1>5. QED BY <1>1, <1>4

(* The writer's looks at a store at rest agree with each other.            *)
LEMMA AgreeStep == SInv /\ [SaveNext]_svars => Agree'
  <1> SUFFICES ASSUME SInv, [SaveNext]_svars, AllOk' PROVE Agree'
    BY DEF Agree
  <1>0. Stage /\ Agree /\ Shape
    BY DEF SInv
  <1>a. Returned => AllOk /\ blobs' = blobs
    BY StoreAtRest
  <1>b. 0 # None
    BY FileAssumption
  <1>c. blobs' = blobs => Cardinality(blobs)' = Cardinality(blobs) /\ TotalBytes(blobs)' = TotalBytes(blobs)
    OBVIOUS
  <1> USE <1>0, <1>a, <1>b, <1>c DEF Agree, Stage, Asked, Indexing, Writing
  <1>1. CASE UNCHANGED command
    BY <1>1 DEF command
  <1>2. CASE Interrupted
    BY <1>2 DEF Interrupted
  <1>3. CASE CannotCreate
    BY <1>3 DEF CannotCreate
  <1>4. CASE CreateBundle
    BY <1>4 DEF CreateBundle
  <1>5. CASE IndexLen
    BY <1>5 DEF IndexLen, Shape
  <1>6. CASE IndexBytes
    BY <1>6 DEF IndexBytes, Shape
  <1>7. CASE IndexSources
    BY <1>7 DEF IndexSources, Shape
  <1>8. CASE ListDigests
    BY <1>8 DEF ListDigests
  <1>9. CASE WriteMember
    BY <1>9 DEF WriteMember
  <1>10. CASE WriteFails
    BY <1>10 DEF WriteFails
  <1>11. CASE Exit
    BY <1>11 DEF Exit
  <1>12. CASE Kill /\ Alive
    BY <1>12 DEF Kill, Alive
  <1>13. CASE Sample
    BY <1>13 DEF Sample
  <1>14. CASE EncodeFacts
    BY <1>14 DEF EncodeFacts
  <1>15. CASE EncodeErrors
    BY <1>15 DEF EncodeErrors
  <1>16. QED
    BY <1>1, <1>2, <1>3, <1>4, <1>5, <1>6, <1>7, <1>8, <1>9, <1>10, <1>11, <1>12,
       <1>13, <1>14, <1>15
    DEF SaveNext, svars, RunStep, ReadFile, MarkTruncated, Deadline, Signal, Ended

(* Exit code 0 is chosen for a set without errors, which then stays.       *)
LEMMA ZeroStep == SInv /\ [SaveNext]_svars => ZeroIsClean'
  <1> SUFFICES ASSUME SInv, [SaveNext]_svars, exit' = 0 PROVE FactErrors(fs)' = {}
    BY DEF ZeroIsClean
  <1>0. Stage /\ ZeroIsClean /\ TypeOK /\ [Next]_vars
    BY CommandStepsRun DEF SInv, IInv
  <1>1. CASE exit = 0
    <2>1. Returned
      BY <1>0, <1>1 DEF Stage
    <2>2. fs' = fs
      BY <1>0, <2>1, ReturnedStays
    <2>3. QED BY <1>0, <1>1, <2>2 DEF ZeroIsClean, FactErrors
  <1>2. CASE exit # 0
    <2>1. Exit
      BY <1>2 DEF SaveNext, svars, RunStep, ReadFile, MarkTruncated, Deadline, Signal, Kill,
                  Sample, Interrupted, CannotCreate, CreateBundle, EncodeFacts, IndexLen,
                  IndexBytes, IndexSources, EncodeErrors, ListDigests, WriteMember, WriteFails, Ended, command
    <2>2. FactErrors(fs) = {} /\ fs' = fs
      BY <2>1 DEF Exit, ExitCode, vars
    <2>3. QED BY <2>2 DEF FactErrors
  <1>3. QED BY <1>1, <1>2

(* What is encoded stays what the set holds: the writer looks at a set     *)
(* nobody changes any more, and seals everything it lays out.              *)
LEMMA FaithfulStep == SInv /\ [SaveNext]_svars => Faithful'
  <1> SUFFICES ASSUME SInv, [SaveNext]_svars PROVE Faithful'
    OBVIOUS
  <1>0. Stage /\ Faithful /\ Shape /\ TypeOK /\ [Next]_vars
    BY CommandStepsRun DEF SInv, IInv
  <1>a. save # "collecting" => fs' = fs
    BY <1>0, ReturnedStays DEF Stage
  <1>b. UNCHANGED <<encoded, archived>> => Whole' = Whole
    BY WholeStays
  <1>c. ASSUME UNCHANGED <<encoded, archived, file>>, save # "collecting",
               save' = save \/ save' \notin Indexing \cup Writing
        PROVE  Faithful'
    <2>1. /\ FactsEncoded' <=> FactsEncoded
          /\ ErrorsEncoded' <=> ErrorsEncoded
          /\ Begun' <=> Begun
      BY <1>a, <1>c DEF FactsEncoded, ErrorsEncoded, Begun
    <2>2. Sealed' <=> Sealed
      BY <1>b, <1>c DEF Sealed, Integrity
    <2>3. QED BY <1>0, <1>c, <2>1, <2>2 DEF Faithful, Indexing, Writing
  <1>1. CASE UNCHANGED command
    <2>1. CASE save = "collecting"
      BY <1>0, <1>1, <2>1 DEF command, Faithful, Stage, Begun, Indexing, Writing
    <2>2. CASE save # "collecting"
      BY <1>1, <1>c, <2>2 DEF command
    <2>3. QED BY <2>1, <2>2
  <1>2. CASE Sample
    BY <1>0, <1>2 DEF Sample, Faithful, Stage, Begun, Indexing, Writing
  <1>3. CASE Interrupted \/ CannotCreate \/ WriteFails \/ Exit \/ (Kill /\ Alive)
    <2>1. /\ save # "collecting"
          /\ save' \notin Indexing \cup Writing /\ UNCHANGED <<encoded, archived, file>>
      BY <1>0, <1>3
      DEF Interrupted, CannotCreate, WriteFails, Exit, Kill, Alive, Stage, Indexing, Writing
    <2>2. QED BY <1>c, <2>1
  <1>4. CASE CreateBundle
    BY <1>4 DEF CreateBundle, Faithful, Begun, Indexing, Writing
  <1>5. CASE EncodeFacts
    <2>1. encoded'.facts = fs'.facts /\ save' = "len" /\ file' = {}
      BY <1>0, <1>5, <1>a DEF EncodeFacts, Shape, Stage, Indexing
    <2>2. QED BY <2>1 DEF Faithful, Begun, FactsEncoded, Indexing, Writing
  <1>6. CASE IndexLen \/ IndexBytes \/ IndexSources
    <2>1. /\ save \in Indexing \ {"facts"} /\ save' \in Indexing \ {"facts", "digests"}
          /\ UNCHANGED encoded /\ file' = {} /\ fs' = fs
      BY <1>0, <1>6, <1>a DEF IndexLen, IndexBytes, IndexSources, Stage, Indexing
    <2>2. QED BY <1>0, <2>1 DEF Faithful, Begun, FactsEncoded, Indexing, Writing
  <1>7. CASE EncodeErrors
    <2>1. /\ encoded'.errors = fs'.errors /\ encoded'.facts = encoded.facts
          /\ save = "errors" /\ save' = "digests" /\ file' = {} /\ fs' = fs
      BY <1>0, <1>7, <1>a DEF EncodeErrors, Shape, Stage, Indexing
    <2>2. QED
      BY <1>0, <2>1 DEF Faithful, Begun, FactsEncoded, ErrorsEncoded, Indexing, Writing
  <1>8. CASE ListDigests
    <2>1. /\ encoded'.vouched = Vouched(encoded, blobs)
          /\ encoded'.facts = encoded.facts /\ encoded'.errors = encoded.errors
          /\ archived' = blobs
          /\ save = "digests" /\ save' = "members" /\ file' = {} /\ fs' = fs
      BY <1>0, <1>8, <1>a DEF ListDigests, Shape, Stage, Indexing
    <2>2. Layout(encoded', archived') = Layout(encoded, blobs)
      BY <2>1 DEF Layout, FactIDs
    <2>3. Whole' = Members(encoded, blobs)
      BY <2>2 DEF Whole, Members
    <2>4. encoded'.vouched = Whole' \ {Integrity}
      <3>1. Vouched(encoded, blobs) = Members(encoded, blobs) \ {Integrity}
        BY LayoutIs
      <3>2. QED BY <2>1, <2>3, <3>1
    <2>5. Integrity' = Integrity
      BY DEF Integrity
    <2>6. QED
      BY <1>0, <2>1, <2>4, <2>5
      DEF Faithful, Begun, FactsEncoded, ErrorsEncoded, Sealed, Indexing, Writing
  <1>9. CASE WriteMember
    <2>1. /\ save = "members" /\ UNCHANGED <<encoded, archived>> /\ fs' = fs
      BY <1>9, <1>a DEF WriteMember
    <2>2. FactsEncoded /\ ErrorsEncoded /\ Sealed
      BY <1>0, <2>1 DEF Faithful, Writing
    <2>3. QED
      BY <1>b, <2>1, <2>2 DEF Faithful, FactsEncoded, ErrorsEncoded, Sealed, Integrity
  <1>10. QED
    BY <1>1, <1>2, <1>3, <1>4, <1>5, <1>6, <1>7, <1>8, <1>9
    DEF SaveNext, svars, RunStep, ReadFile, MarkTruncated, Deadline, Signal, Ended

(* The context keeps its cause and the process its first signal, so what   *)
(* was asked once stays true.                                              *)
LEMMA SampledStep == SInv /\ [SaveNext]_svars => Sampled'
  <1> SUFFICES ASSUME SInv, [SaveNext]_svars PROVE Sampled'
    OBVIOUS
  <1>0. /\ Stage /\ Sampled /\ (cause = "signal" => signalled # None)
        /\ None \notin {"deadline", "signal", "collecting", "saving"}
    BY FileAssumption DEF SInv, SignalsAreCauses
  <1> USE <1>0 DEF Sampled, EndedBySignal, Indexing, Writing
  <1>1. CASE Deadline
    BY <1>1 DEF Deadline, command
  <1>2. CASE Signal
    BY <1>2 DEF Signal, command
  <1>3. CASE Sample
    BY <1>3 DEF Sample, ending, SInv, SignalsAreCauses
  <1>4. CASE UNCHANGED <<save, ending>>
    BY <1>4 DEF ending
  <1>5. CASE UNCHANGED ending /\ save' \in {"exited", "killed"}
    BY <1>5 DEF ending
  <1>6. CASE /\ UNCHANGED ending /\ save' # "stopping"
             /\ save \in {"opening"} \cup Indexing \cup Writing
    BY <1>6 DEF ending
  <1>7. QED
    BY <1>1, <1>2, <1>3, <1>4, <1>5, <1>6
    DEF SaveNext, svars, command, RunStep, ReadFile, MarkTruncated, Kill, Interrupted,
        CannotCreate, CreateBundle, EncodeFacts, IndexLen, IndexBytes, IndexSources,
        EncodeErrors, ListDigests, WriteMember, WriteFails, Exit, Ended

(* A cause that is a signal is one the process received before the command *)
(* had asked, while the collection is all that has happened.               *)
LEMMA SignalsStep == SInv /\ [SaveNext]_svars => SignalsAreCauses'
  <1> SUFFICES ASSUME SInv, [SaveNext]_svars PROVE SignalsAreCauses'
    OBVIOUS
  <1> USE DEF SInv, SignalsAreCauses
  <1>1. CASE Deadline
    BY <1>1 DEF Deadline, command
  <1>2. CASE Signal
    BY <1>2, FileAssumption DEF Signal, command
  <1>3. CASE UNCHANGED ending /\ (save' = "collecting" => save = "collecting")
    BY <1>3 DEF ending
  <1>4. QED
    BY <1>1, <1>2, <1>3
    DEF SaveNext, svars, command, RunStep, ReadFile, MarkTruncated, Kill, Sample, Interrupted,
        CannotCreate, CreateBundle, EncodeFacts, IndexLen, IndexBytes, IndexSources,
        EncodeErrors, ListDigests, WriteMember, WriteFails, Exit, Ended

(* A run that a signal has ended before the question never gets to         *)
(* CreateBundle.                                                           *)
LEMMA InterruptStep == SInv /\ [SaveNext]_svars => InterruptLeavesNothing'
  <1> SUFFICES ASSUME SInv, [SaveNext]_svars PROVE InterruptLeavesNothing'
    OBVIOUS
  <1>0. /\ Stage /\ Sampled /\ InterruptLeavesNothing
        /\ None \notin {130, "deadline", "signal", "collecting", "saving"}
    BY FileAssumption DEF SInv
  <1> USE <1>0 DEF InterruptLeavesNothing, Sampled, EndedBySignal
  <1>1. CASE Deadline
    BY <1>1 DEF Deadline, command, Stage
  <1>2. CASE Signal
    <2>1. CASE save = "collecting"
      BY <1>2, <2>1 DEF Signal, command, Stage
    <2>2. CASE save # "collecting"
      BY <1>2, <2>2 DEF Signal, command, Stage
    <2>3. QED BY <2>1, <2>2
  <1>3. CASE CreateBundle
    BY <1>3 DEF CreateBundle, ending, Stage
  <1>4. CASE WriteMember
    BY <1>4 DEF WriteMember, ending, Stage, Writing
  <1>5. CASE Interrupted
    BY <1>5 DEF Interrupted, ending, Stage, Asked
  <1>6. CASE UNCHANGED <<file, ending>> /\ (exit' = exit \/ exit' # 130)
    BY <1>6 DEF ending
  <1>7. CASE Exit
    BY <1>7, <1>6 DEF Exit, ExitCode
  <1>8. QED
    BY <1>1, <1>2, <1>3, <1>4, <1>5, <1>6, <1>7
    DEF SaveNext, svars, command, RunStep, ReadFile, MarkTruncated, Kill, Sample,
        CannotCreate, EncodeFacts, IndexLen, IndexBytes, IndexSources, EncodeErrors,
        ListDigests, WriteFails, Ended

(* The invariant holds when the command starts.                            *)
LEMMA SaveInvInit == SaveInit => SInv
  <1> SUFFICES ASSUME SaveInit PROVE SInv
    OBVIOUS
  <1>1. IInv
    BY InvInit DEF SaveInit
  <1>2. None \notin {0, 4, 11, 130}
    BY FileAssumption
  <1>3. Shape
    BY DEF SaveInit, Shape, NoIndex, NoEncoded
  <1>4. Stage /\ Taken
    BY <1>2 DEF SaveInit, Stage, Asked, Indexing, Writing, Taken
  <1>5. \A c \in Collector : Kept(c)
    BY DEF SaveInit, Kept
  <1>6. Agree /\ ZeroIsClean
    BY <1>2 DEF SaveInit, Agree, Writing, ZeroIsClean
  <1>7. /\ Faithful /\ Sampled /\ SignalsAreCauses /\ InterruptLeavesNothing
    BY <1>2, FileAssumption DEF SaveInit, Faithful, Begun, Sampled, SignalsAreCauses, EndedBySignal,
                Indexing, Writing, InterruptLeavesNothing
  <1>8. QED BY <1>1, <1>3, <1>4, <1>5, <1>6, <1>7 DEF SInv

(* The inductive invariant holds of every `collect`, killed or not.        *)
THEOREM SaveInvariance == SaveSpec => []SInv
  <1>1. SInv /\ [SaveNext]_svars => SInv'
    <2> SUFFICES ASSUME SInv, [SaveNext]_svars PROVE SInv'
      OBVIOUS
    <2>1. IInv'
      BY CommandStepsRun, TypeStep, SlotStep, NothingElseStep, LocalStep DEF SInv, IInv
    <2>2. QED
      BY <2>1, ShapeStep, StageStep, KeptStep, TakenStep, AgreeStep, ZeroStep,
         FaithfulStep, SampledStep, SignalsStep, InterruptStep DEF SInv
  <1>2. QED BY <1>1, SaveInvInit, PTL DEF SaveSpec

------------------------------------------------------------------------------
(* What `collect` promises.                                                *)

(* The command runs Run unchanged: recording evidence, deadlines, signals, *)
(* crashes and the writer of the bundle add nothing to what the runner can *)
(* do, so every theorem about Run holds inside the command.                *)
THEOREM CommandRunsRunner == SaveSpec => Spec
  <1>1. SaveInit => Init
    BY DEF SaveInit
  <1>2. QED BY <1>1, CommandStepsRun, PTL DEF SaveSpec, Spec

(* ... Collection's promise with them.                                     *)
THEOREM CommandKeepsPromise == SaveSpec => KeepsPromise
  BY CommandRunsRunner, RunKeepsPromise, PTL

(* A collection that a signal ended before the command asked leaves no     *)
(* file behind, and only such a run exits with 130.                        *)
THEOREM InterruptedLeavesNothing == SaveSpec => []InterruptLeavesNothing
  <1>1. SInv => InterruptLeavesNothing
    BY DEF SInv
  <1>2. QED BY <1>1, SaveInvariance, PTL

(* Wherever the writer was stopped, a file that Read accepts gives back    *)
(* every fact and every error of the run: what was encoded at different    *)
(* moments is still what the set holds, and integrity.json vouches for all *)
(* of it.                                                                  *)
THEOREM PartialIsRefused == SaveSpec => []NoPartialBundle
  <1>1. SInv => NoPartialBundle
    <2> SUFFICES ASSUME SInv, file # None, Accepted PROVE Reread = fs
      BY DEF NoPartialBundle
    <2>1. fs \in Set
      BY DEF SInv, IInv, TypeOK
    <2>2. Integrity \in file /\ file \ {Integrity} = encoded.vouched
      BY DEF Accepted, VerifyIntegrity
    <2>3. encoded.facts = fs.facts /\ encoded.errors = fs.errors
          /\ encoded.vouched = Whole \ {Integrity}
      BY <2>2 DEF SInv, Faithful, Begun, FactsEncoded, ErrorsEncoded, Sealed
    <2>4. Errors \in file
      <3>1. Errors \in Whole /\ Errors # Integrity
        BY WholeMembers DEF Errors, Integrity
      <3>2. QED BY <2>2, <2>3, <3>1
    <2>5. \A i \in FactID : FactFile(i) \in file <=> fs.facts[i] # None
      BY <2>3 DEF Accepted, ReadFacts, FactIDs
    <2>6. QED BY <2>1, <2>3, <2>4, <2>5 DEF Reread, Set
  <1>2. QED BY <1>1, SaveInvariance, PTL

(* In a bundle that opens, every file read by a collector that reported    *)
(* back is archived, and one read only up to the cap is named.             *)
THEOREM EvidenceIsKept == SaveSpec => []EvidenceKept
  <1>1. SInv => EvidenceKept
    <2> SUFFICES ASSUME SInv, file # None, Accepted, NEW c \in Collector, Reported(c),
                        NEW p \in reads[c] \ Credential
                 PROVE  /\ Content[p] \in ArchivedBlobs
                        /\ p \in Oversized => p \in index.sources
      BY DEF EvidenceKept, Reported
    <2>1. Integrity \in file /\ file \ {Integrity} = Whole \ {Integrity}
      BY DEF Accepted, VerifyIntegrity, SInv, Faithful, Begun, Sealed
    <2>2. SourcesTaken /\ DigestsTaken
      BY <2>1 DEF SInv, Taken
    <2>3. Content[p] \in archived /\ Content[p] \in Blob
      BY <2>2 DEF DigestsTaken, SInv, Shape
    <2>4. BlobFile(Content[p]) \in Whole /\ BlobFile(Content[p]) # Integrity
      BY <2>3, WholeMembers DEF BlobFile, Integrity
    <2>5. QED
      BY <2>1, <2>2, <2>3, <2>4 DEF SourcesTaken, ArchivedBlobs
  <1>2. QED BY <1>1, SaveInvariance, PTL

(* Exit code 0 means that every collector succeeded, that no worker is     *)
(* left running, and that the bundle opens if it is within Read's cap.     *)
THEOREM ZeroMeansClean == SaveSpec => []CleanExit
  <1>1. SInv => CleanExit
    <2> SUFFICES ASSUME SInv, exit = 0
                 PROVE  /\ \A c \in Collector : status[c] = "ok" /\ worker[c] = "returned"
                        /\ TotalBytes(blobs) <= ReadCap => Accepted
      BY DEF CleanExit
    <2>0. /\ IInv /\ Returned /\ file = Whole /\ FactErrors(fs) = {}
          /\ blobs \subseteq Blob /\ file # None
      <3>1. Whole \subseteq Name
        BY WholeNames DEF SInv
      <3>2. QED BY <3>1, FileAssumption DEF SInv, Stage, Shape, ZeroIsClean
    <2>1. ASSUME NEW c \in Collector PROVE status[c] = "ok" /\ worker[c] = "returned"
      <3>1. /\ pc[c] \in Resolved /\ Phases(c) /\ Share(c) /\ status[c] \in Status
        BY <2>0 DEF IInv, Local, Returned, Resolved, TypeOK
      <3>2. \A id \in Blame(c) : fs.errors[id] = None
        BY <2>0, BlameType DEF FactErrors
      <3>3. status[c] = "ok"
        BY <3>1, <3>2, BlameType, NoneAssumption, KindType DEF Share, Account, Status
      <3>4. QED BY <3>1, <3>3 DEF Phases
    <2>2. /\ index.count = Cardinality(blobs)
          /\ index.bytes = TotalBytes(blobs)
          /\ archived = blobs
      BY <2>1 DEF SInv, Agree, AllOk
    <2>3. ArchivedBlobs = blobs
      BY <2>0, <2>2, WholeMembers DEF ArchivedBlobs
    <2>4. VerifyIntegrity /\ Manifest \in file
      BY <2>0, WholeMembers DEF VerifyIntegrity, SInv, Faithful, Begun, Sealed
    <2>5. ReadFacts
      BY <2>0, WholeMembers DEF ReadFacts, FactIDs
    <2>6. TotalBytes(blobs) <= ReadCap => Accepted
      BY <2>0, <2>2, <2>3, <2>4, <2>5 DEF Accepted, ReadArchive, ReadEvidence
    <2>7. QED BY <2>1, <2>6
  <1>2. QED BY <1>1, SaveInvariance, PTL

(* Nothing moves under the writer: from the moment the file exists, no     *)
(* step of a surviving worker changes what the members are made from.      *)
THEOREM WriterReadsAFrozenSet == SaveSpec => [][file # None => UNCHANGED fs]_svars
  <1>1. SInv /\ [SaveNext]_svars => [file # None => UNCHANGED fs]_svars
    <2> SUFFICES ASSUME SInv, [SaveNext]_svars, file # None PROVE UNCHANGED fs
      OBVIOUS
    <2>1. Returned /\ TypeOK
      BY DEF SInv, Stage, IInv
    <2>2. QED BY <2>1, CommandStepsRun, ReturnedStays
  <1>2. QED BY <1>1, SaveInvariance, PTL DEF SaveSpec
==============================================================================
