------------------------------ MODULE Outcomes -------------------------------
(***************************************************************************)
(* What a check of the catalog says, and the vocabulary the checks share.  *)
(*                                                                         *)
(* A check is a pure operator from facts to an outcome; its identifier is  *)
(* the check's ID.  Titles, details, evidence, remediation text, control   *)
(* mappings and references are wording and are left out.                   *)
(*                                                                         *)
(* A scan of a host is a record: scan.denied are the paths the scanning    *)
(* account may not look at, scan.broken the ones whose reading fails in    *)
(* some other way, scan.garbled the <<path, line>> pairs that no parser    *)
(* takes, scan.reach is how many steps a collector takes before its context*)
(* ends, and scan.cap how many lines of a file, or entries of a directory, *)
(* one read holds.                                                         *)
(***************************************************************************)
EXTENDS Naturals, Sequences, FiniteSets

Outcome(result, reason, subject) == [result |-> result, reason |-> reason, subject |-> subject]

Passes                      == Outcome("PASS", "", {})
PassesFor(subject)          == Outcome("PASS", "", subject)
Fails(subject)              == Outcome("FAIL", "", subject)
NotApplicable               == Outcome("NOT_APPLICABLE", "", {})
NotApplicableFor(subject)   == Outcome("NOT_APPLICABLE", "", subject)
CannotTell(reason, subject) == Outcome("UNKNOWN", reason, subject)

ReasonFactMissing    == "fact_not_collected"
ReasonPermission     == "insufficient_privileges"
ReasonParse          == "unparseable_source"
ReasonTruncated      == "source_truncated"
ReasonAmbiguousState == "ambiguous_system_state"

Decided(oc) == oc.result # "UNKNOWN"

------------------------------------------------------------------------------
(* A fact is a record with an error field: "" for a fact that was put, and *)
(* the kind of the error that was put in its place otherwise.              *)

Missing(kind) == [error |-> kind]

ReasonFor(kind) ==
  CASE kind \in {"not_collected", "absent"} -> ReasonFactMissing
    [] kind = "permission" -> ReasonPermission
    [] kind = "parse"      -> ReasonParse
    [] kind = "truncated"  -> ReasonTruncated
    [] kind = "internal"   -> "internal_error"
    [] kind = "opaque"     -> "fact_version_mismatch"
    [] OTHER               -> ReasonAmbiguousState

(* EvaluateOne's gate: the first required fact that is missing decides.    *)
Require(f, oc) == IF f.error # "" THEN CannotTell(ReasonFor(f.error), {}) ELSE oc

------------------------------------------------------------------------------

Upto(s, n) == SubSeq(s, 1, IF n < Len(s) THEN n ELSE Len(s))

Elements(s) == {s[k] : k \in DOMAIN s}

(* Reading a file of the host.  host.files[p] are the lines of a text file;*)
(* host.odd[p] says what else a path is: "irregular" (not a regular file) *)
(* or "binary" (its bytes hold a NUL).  A read is cut at the cap,          *)
(* with a flag that the reader may look at.                                *)

InodeAt(host, p) == CASE p \in DOMAIN host.files -> "present"
                      [] p \in DOMAIN host.odd   -> host.odd[p]
                      [] OTHER -> "absent"

ReadFile(host, scan, p) ==
  CASE p \in scan.denied -> "denied"
    [] p \in scan.broken \ scan.denied /\ InodeAt(host, p) \in {"present", "binary"} -> "error"
    [] OTHER -> InodeAt(host, p)

Text(host, scan, p)      == Upto(host.files[p], scan.cap)
Truncated(host, scan, p) == Len(host.files[p]) > scan.cap

\* Glob of a pattern in a directory that may not be listed matches nothing, without an error
Glob(host, scan, pattern) == IF pattern \in scan.denied THEN << >> ELSE host.globs[pattern]
==============================================================================
