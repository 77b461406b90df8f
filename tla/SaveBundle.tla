----------------------------- MODULE SaveBundle ------------------------------
(***************************************************************************)
(* `plumbline collect`: a collection run whose collectors register every   *)
(* file they read in a shared evidence store, followed by bundle.Write,    *)
(* which indexes the store and archives it.  A worker the runner abandoned *)
(* is alive while the bundle is written.  The whole-scan deadline and the  *)
(* operator's signal end one and the same context, and the first of them   *)
(* is its cause.  The process may be killed at any step.                   *)
(*                                                                         *)
(* Every EvidenceStore method takes the store's mutex, so each call is one *)
(* action.  What Write encodes is kept as it was at that moment; the       *)
(* members on disk are names, each with the encoded content.  The bytes    *)
(* behind a blob are its digest and its size.                              *)
(***************************************************************************)
EXTENDS Runner, FiniteSetsExt

CONSTANTS
  Path,        \* the files of the host
  Reads,       \* Reads[c]: the files collector c may read
  Credential,  \* credentialFiles
  Oversized,   \* the files longer than the read cap
  Content,     \* Content[p]: the digest of what a read of p returns
  Size,        \* Size[b]: the length of the blob with digest b
  ReadCap      \* maxDecompressedBytes, of the evidence in an archive

Blob == {Content[p] : p \in Path}

ASSUME PathAssumption ==
  /\ Reads \in [Collector -> SUBSET Path]
  /\ Credential \subseteq Path
  /\ Oversized \subseteq Path
  /\ Size \in [Blob -> Nat]
  /\ ReadCap \in Nat
  /\ None \notin Path

VARIABLES
  cause,      \* why the scan's context ended: None, "deadline" or "signal"
  signalled,  \* when a signal came: None, "collecting" (before the command
              \* asked whether it was interrupted) or "saving"
  reads,      \* the files each collector has read
  marking,    \* the file each worker is about to report as truncated, or None
  blobs,      \* EvidenceStore.blobs
  truncated,  \* EvidenceStore.truncated
  save,       \* how far the command has got after Run
  index,      \* the manifest's evidence index, as far as it is computed
  encoded,    \* what Write has encoded: the facts, the errors, integrity.json
  archived,   \* the digests evidenceMembers listed
  file,       \* the members on disk, or None before the file is created
  exit        \* the exit code, or None

store   == <<blobs, truncated, reads, marking>>
command == <<save, index, encoded, archived, file, exit>>
ending  == <<cause, signalled>>
svars   == <<vars, store, command, ending>>

NoIndex   == [count |-> 0, bytes |-> 0, sources |-> {}]
NoEncoded == [facts |-> NewSet.facts, errors |-> NewSet.errors, vouched |-> {}]

(* The archive's members.                                                  *)
Manifest    == <<"manifest.json", "">>
Meta        == <<"meta.json", "">>
FactFile(i) == <<"facts", i>>
BlobFile(b) == <<"evidence", b>>
Errors      == <<"errors.json", "">>
Integrity   == <<"integrity.json", "">>

FactIDs(s)    == {i \in FactID : s.facts[i] # None}   \* of a set, or of what is encoded
FactErrors(s) == {i \in FactID : s.errors[i] # None}

Name == {Manifest, Meta, Errors, Integrity}
          \cup {FactFile(i) : i \in FactID} \cup {BlobFile(b) : b \in Blob}

(* "No file", "not exited yet" and "no signal" are told apart from files,  *)
(* codes and what ends a context.                                          *)
ASSUME FileAssumption ==
  /\ \A members \in SUBSET Name : members # None
  /\ None \notin {0, 4, 11, 70, 130}
  /\ None \notin {"deadline", "signal", "collecting", "saving"}

SaveTypeOK ==
  /\ TypeOK
  /\ cause \in {None, "deadline", "signal"}
  /\ signalled \in {None, "collecting", "saving"}
  /\ reads \in [Collector -> SUBSET Path]
  /\ marking \in [Collector -> Path \cup {None}]
  /\ blobs \subseteq Blob
  /\ truncated \subseteq Path
  /\ save \in {"collecting", "stopping", "opening", "facts", "len", "bytes", "sources",
               "errors", "digests", "members", "closing", "exited", "killed"}
  /\ index \in [count : Nat, bytes : Nat, sources : SUBSET Path]
  /\ [facts |-> encoded.facts, errors |-> encoded.errors] \in Set
  /\ encoded.vouched \subseteq Name
  /\ archived \subseteq Blob
  /\ file = None \/ file \subseteq Name
  /\ exit \in {None, 0, 4, 11, 70, 130}

SaveInit ==
  /\ Init
  /\ cause = None
  /\ signalled = None
  /\ reads = [c \in Collector |-> {}]
  /\ marking = [c \in Collector |-> None]
  /\ blobs = {}
  /\ truncated = {}
  /\ save = "collecting"
  /\ index = NoIndex
  /\ encoded = NoEncoded
  /\ archived = {}
  /\ file = None
  /\ exit = None

Alive == save \notin {"exited", "killed"}

------------------------------------------------------------------------------
(* recordingSystem.ReadFile: Add, then MarkTruncated in a critical section *)
(* of its own.  A worker calls it for as long as it runs.                  *)

\* mutant: only a file that was read to its end counts as evidence
ReadWholeOnly(c) ==
  /\ worker[c] = "running" /\ marking[c] = None
  /\ \E p \in Reads[c] \ reads[c] :
       /\ reads' = [reads EXCEPT ![c] = @ \cup {p}]
       /\ blobs' = IF p \in Credential \cup Oversized THEN blobs
                   ELSE blobs \cup {Content[p]}
       /\ marking' = [marking EXCEPT
            ![c] = IF p \in Oversized \ Credential THEN p ELSE None]
  /\ UNCHANGED <<vars, truncated, command, ending>>

ReadFile(c) ==
  /\ worker[c] = "running" /\ marking[c] = None
  /\ \E p \in Reads[c] \ reads[c] :
       /\ reads' = [reads EXCEPT ![c] = @ \cup {p}]
       /\ blobs' = IF p \in Credential THEN blobs ELSE blobs \cup {Content[p]}
       /\ marking' = [marking EXCEPT
            ![c] = IF p \in Oversized \ Credential THEN p ELSE None]
  /\ UNCHANGED <<vars, truncated, command, ending>>

MarkTruncated(c) ==
  /\ marking[c] # None
  /\ truncated' = truncated \cup {marking[c]}
  /\ marking' = [marking EXCEPT ![c] = None]
  /\ UNCHANGED <<vars, reads, blobs, command, ending>>

(* The run itself, with the read a worker is in the middle of finished     *)
(* before the worker does anything else.                                   *)
RunStep(c) ==
  /\ \/ Goroutine(c)
     \/ BudgetExpires(c)
     \/ marking[c] = None /\ Worker(c)
  /\ UNCHANGED <<store, command, ending>>

(* WithTimeout's deadline.                                                 *)
Deadline ==
  /\ cause = None
  /\ cause' = "deadline"
  /\ EndScan
  /\ UNCHANGED <<signalled, store, command>>

(* WithInterrupt: SIGINT or SIGTERM cancels the process's context; a scan  *)
(* context whose deadline has passed keeps the cause it has.               *)
Signal ==
  /\ signalled = None
  /\ signalled' = IF save = "collecting" THEN "collecting" ELSE "saving"
  /\ \/ cause = None  /\ cause' = "signal"  /\ EndScan
     \/ cause # None  /\ UNCHANGED <<cause, vars>>
  /\ UNCHANGED <<store, command>>

------------------------------------------------------------------------------
(* The command after Run.                                                  *)

(* Whether the run was interrupted is asked of the context once, before    *)
(* hostMeta reads the host's descriptors, and acted upon after.            *)
Sample ==
  /\ save = "collecting" /\ Returned
  /\ save' = IF cause = "signal" THEN "stopping" ELSE "opening"
  /\ UNCHANGED <<vars, store, index, encoded, archived, file, exit, ending>>

Interrupted ==
  /\ save = "stopping"
  /\ save' = "exited"
  /\ exit' = 130
  /\ UNCHANGED <<vars, store, index, encoded, archived, file, ending>>

CannotCreate ==
  /\ save = "opening"
  /\ save' = "exited"
  /\ exit' = 70
  /\ UNCHANGED <<vars, store, index, encoded, archived, file, ending>>

\* mutant: whether the run was interrupted is looked at after the file is written
CreateAnyway ==
  /\ save \in {"stopping", "opening"}
  /\ save' = "facts"
  /\ file' = {}
  /\ UNCHANGED <<vars, store, index, encoded, archived, exit, ending>>

(* CreateBundle truncates the file before Write has looked at anything.    *)
CreateBundle ==
  /\ save = "opening"
  /\ save' = "facts"
  /\ file' = {}
  /\ UNCHANGED <<vars, store, index, encoded, archived, exit, ending>>

(* factMembers: the members and the manifest's index of them.              *)
EncodeFacts ==
  /\ save = "facts"
  /\ encoded' = [encoded EXCEPT !.facts = fs.facts]
  /\ save' = "len"
  /\ UNCHANGED <<vars, store, index, archived, file, exit, ending>>

(* EvidenceStore.index: Len, TotalBytes, TruncatedSources.                 *)
IndexLen ==
  /\ save = "len"
  /\ index' = [index EXCEPT !.count = Cardinality(blobs)]
  /\ save' = "bytes"
  /\ UNCHANGED <<vars, store, encoded, archived, file, exit, ending>>

TotalBytes(S) == MapThenSumSet(LAMBDA b : Size[b], S)

IndexBytes ==
  /\ save = "bytes"
  /\ index' = [index EXCEPT !.bytes = TotalBytes(blobs)]
  /\ save' = "sources"
  /\ UNCHANGED <<vars, store, encoded, archived, file, exit, ending>>

IndexSources ==
  /\ save = "sources"
  /\ index' = [index EXCEPT !.sources = truncated]
  /\ save' = "errors"
  /\ UNCHANGED <<vars, store, encoded, archived, file, exit, ending>>

(* errors.json.                                                            *)
EncodeErrors ==
  /\ save = "errors"
  /\ encoded' = [encoded EXCEPT !.errors = fs.errors]
  /\ save' = "digests"
  /\ UNCHANGED <<vars, store, index, archived, file, exit, ending>>

\* mutant: errors.json is appended after the digests have been taken
LayoutErrorsLast(e, B) ==
  <<{Manifest}, {Meta}, {FactFile(i) : i \in FactIDs(e)}, {BlobFile(b) : b \in B},
    {Integrity}, {Errors}>>

(* The members in the order Write appends them, with the encoded facts and *)
(* the evidence B.                                                         *)
Layout(e, B) ==
  <<{Manifest}, {Meta}, {FactFile(i) : i \in FactIDs(e)}, {BlobFile(b) : b \in B},
    {Errors}, {Integrity}>>

Members(e, B) == UNION {Layout(e, B)[k] : k \in 1..6}

(* The members integrity.json has digests of: the ones appended before it. *)
Vouched(e, B) ==
  UNION {Layout(e, B)[k] : k \in {k \in 1..6 : \A j \in 1..k : Layout(e, B)[j] # {Integrity}}}

(* evidenceMembers, where a listed digest stays in the store, so that Get  *)
(* finds it; then integrity.json is made from all that has been encoded.   *)
ListDigests ==
  /\ save = "digests"
  /\ archived' = blobs
  /\ encoded' = [encoded EXCEPT !.vouched = Vouched(encoded, blobs)]
  /\ save' = "members"
  /\ UNCHANGED <<vars, store, index, file, exit, ending>>

Whole == Members(encoded, archived)

WriteMember ==
  /\ save = "members"
  /\ \E k \in 1..6 :
       /\ \A j \in 1..k-1 : Layout(encoded, archived)[j] \subseteq file
       /\ \E n \in Layout(encoded, archived)[k] \ file : file' = file \cup {n}
  /\ save' = IF file' = Whole THEN "closing" ELSE "members"
  /\ UNCHANGED <<vars, store, index, encoded, archived, exit, ending>>

(* A full disk, for one: what has been written stays where it is.          *)
WriteFails ==
  /\ save \in {"members", "closing"}
  /\ save' = "exited"
  /\ exit' = 70
  /\ UNCHANGED <<vars, store, index, encoded, archived, file, ending>>

\* mutant: a run with fact errors is reported like a clean one
ExitTimeoutOnly == IF cause = "deadline" THEN 11 ELSE 0

ExitCode == CASE cause = "deadline"  -> 11
              [] cause # "deadline" /\ FactErrors(fs) # {} -> 4
              [] OTHER -> 0

Exit ==
  /\ save = "closing"
  /\ save' = "exited"
  /\ exit' = ExitCode
  /\ UNCHANGED <<vars, store, index, encoded, archived, file, ending>>

(* A second signal, SIGKILL or a power loss; before the file exists it     *)
(* leaves nothing behind.                                                  *)
Kill ==
  /\ file # None
  /\ save' = "killed"
  /\ UNCHANGED <<vars, store, index, encoded, archived, file, exit, ending>>

Ended == ~Alive /\ UNCHANGED svars

SaveNext ==
  \/ /\ Alive
     /\ \/ \E c \in Collector : RunStep(c) \/ ReadFile(c) \/ MarkTruncated(c)
        \/ Deadline \/ Signal \/ Kill
        \/ Sample \/ Interrupted \/ CannotCreate \/ CreateBundle
        \/ EncodeFacts \/ IndexLen \/ IndexBytes \/ IndexSources
        \/ EncodeErrors \/ ListDigests
        \/ WriteMember \/ WriteFails \/ Exit
  \/ Ended

SaveSpec == SaveInit /\ [][SaveNext]_svars

------------------------------------------------------------------------------
(* bundle.Read of the file as it is on disk.  A stream that was cut short  *)
(* is read as if it ended there: the decoder's own end-of-frame check      *)
(* could only reject more.                                                 *)

(* Every member integrity.json records is there, and every member there is *)
(* recorded.                                                               *)
VerifyIntegrity == Integrity \in file /\ file \ {Integrity} = encoded.vouched

ArchivedBlobs == {b \in Blob : BlobFile(b) \in file}

(* The fact members are the ones the manifest indexes.                     *)
ReadFacts == {i \in FactID : FactFile(i) \in file} = FactIDs(encoded)

ReadEvidence ==
  /\ index.count = Cardinality(ArchivedBlobs)
  /\ index.bytes = TotalBytes(ArchivedBlobs)

ReadArchive == TotalBytes(ArchivedBlobs) <= ReadCap

Accepted ==
  /\ file # None
  /\ ReadArchive
  /\ VerifyIntegrity
  /\ Manifest \in file
  /\ ReadFacts
  /\ ReadEvidence

(* The set Read rebuilds: a fact per indexed member, an error per entry of *)
(* errors.json where that member is there.                                 *)
Reread ==
  [facts  |-> [i \in FactID |-> IF FactFile(i) \in file THEN encoded.facts[i] ELSE None],
   errors |-> [i \in FactID |-> IF Errors \in file THEN encoded.errors[i] ELSE None]]

------------------------------------------------------------------------------
(* Properties                                                              *)

(* A partial artifact is never read as a complete one (THREAT-MODEL T-12): *)
(* whatever stopped the writer and wherever, a file Read accepts gives     *)
(* back every fact and every error of the run's set, as the set is now.    *)
NoPartialBundle == file # None => (Accepted => Reread = fs)

(* Reading a file is what makes it evidence: in a bundle that opens, every *)
(* file read by a collector that reported back is archived, and a read     *)
(* that hit the cap is named as truncated.                                 *)
EvidenceKept ==
  file # None /\ Accepted =>
    \A c \in Collector : status[c] \in {"ok", "failed"} =>
      \A p \in reads[c] \ Credential :
        /\ Content[p] \in ArchivedBlobs
        /\ p \in Oversized => p \in index.sources

(* Exit code 0 of `collect`: every collector reported success, no worker   *)
(* is left, and the bundle opens (if its evidence is within Read's cap).   *)
CleanExit ==
  exit = 0 =>
    /\ \A c \in Collector : status[c] = "ok" /\ worker[c] = "returned"
    /\ TotalBytes(blobs) <= ReadCap => Accepted

(* "An interrupted run produces no artifact" (CLI-SPEC 6.1), of a signal   *)
(* that ended the collection before the command asked: nothing is written, *)
(* whatever runs on.  And exit code 130 is such a run's alone.  A signal   *)
(* that comes after the question, while hostMeta still reads, no longer    *)
(* stops the command.                                                      *)
InterruptLeavesNothing ==
  /\ signalled = "collecting" /\ cause = "signal" => file = None
  /\ exit = 130 => signalled = "collecting" /\ cause = "signal"

(* "a caller cannot produce a bundle whose index disagrees with its        *)
(* contents" (bundle.Write): a bundle the command reports as written can   *)
(* be opened again.                                                        *)
SavedReopens == exit \in {0, 4, 11} => Accepted

(* "Interruption outranks everything in the ladder above, including a      *)
(* --timeout that expired in the same run" (CLI-SPEC 6.1).                 *)
InterruptOutranks == exit # None /\ signalled = "collecting" => exit = 130
==============================================================================
