------------------------------- MODULE FactSet -------------------------------
(***************************************************************************)
(* The fact set of internal/fact: what one collection run learned, and why *)
(* it did not learn the rest.  A set is two maps over fact IDs, one to     *)
(* facts and one to errors, each total here with None for "no entry".  A   *)
(* fact's value is abstracted to who produced it.                          *)
(***************************************************************************)
CONSTANTS
  FactID,   \* the fact IDs of the run (fact.ID)
  Value,    \* what a stored fact can be told apart by
  None      \* "the map has no entry"

ErrorKind == {"not_collected", "permission", "timeout", "parse", "truncated",
              "unsupported", "internal"}

ASSUME NoneAssumption == None \notin Value /\ None \notin ErrorKind

Set == [facts  : [FactID -> Value \cup {None}],
        errors : [FactID -> ErrorKind \cup {None}]]

NewSet == [facts  |-> [i \in FactID |-> None],
           errors |-> [i \in FactID |-> None]]

------------------------------------------------------------------------------
(* Put and PutError each write one map and delete the ID from the other.   *)

Put(s, id, v) == [facts  |-> [s.facts  EXCEPT ![id] = v],
                  errors |-> [s.errors EXCEPT ![id] = None]]

\* mutant: the error is stored but a fact already filed under the ID survives
PutErrorKeepsFact(s, id, kind) ==
  [facts |-> s.facts, errors |-> [s.errors EXCEPT ![id] = kind]]

PutError(s, id, kind) == [facts  |-> [s.facts  EXCEPT ![id] = None],
                          errors |-> [s.errors EXCEPT ![id] = kind]]

(* The loops that call PutError once for each ID of a list, one kind.      *)
PutErrors(s, ids, kind) ==
  [facts  |-> [i \in FactID |-> IF i \in ids THEN None ELSE s.facts[i]],
   errors |-> [i \in FactID |-> IF i \in ids THEN kind ELSE s.errors[i]]]

(* Put for every fact of src, then PutError for every error of src, so an  *)
(* ID carrying both in src ends on the error.                              *)
MergeFacts(dst, src) ==
  [facts  |-> [i \in FactID |-> IF src.facts[i] # None THEN src.facts[i] ELSE dst.facts[i]],
   errors |-> [i \in FactID |-> IF src.facts[i] # None THEN None ELSE dst.errors[i]]]

MergeErrors(dst, src) ==
  [facts  |-> [i \in FactID |-> IF src.errors[i] # None THEN None ELSE dst.facts[i]],
   errors |-> [i \in FactID |-> IF src.errors[i] # None THEN src.errors[i] ELSE dst.errors[i]]]

MergeInto(dst, src) == MergeErrors(MergeFacts(dst, src), src)

(* No ID is both observed and unobserved: fact.Get would hide the fact.    *)
Unambiguous(s) == \A i \in FactID : s.facts[i] = None \/ s.errors[i] = None
==============================================================================
