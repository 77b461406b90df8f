-------------------------------- MODULE Diff ---------------------------------
(***************************************************************************)
(* `plumbline diff OLD NEW`: two bundles evaluated by one catalog, the     *)
(* same suppression file applied to each at its own scan time, joined by   *)
(* fingerprint and classified.  There is no profile.  The list of changes  *)
(* is a set here: its order is a function of its members.                  *)
(***************************************************************************)
EXTENDS Findings

CONSTANTS
  Scans,     \* the bundles considered
  Files      \* the suppression files considered

Category == {"REGRESSED", "NEWLY SUPPRESSED", "RESOLVED", "NEW FAILURE", "VERDICT CHANGED"}

(* The command's input, as far as it can be read.                          *)
ASSUME DiffAssumption ==
  /\ Scans \subseteq Bundle
  /\ \A r \in Files : \A k \in DOMAIN r : r[k].expires \in Nat \cup {None}
  /\ None \notin Category

VARIABLES
  old, new, rules,   \* the command's input
  oldF, newF,        \* the two documents, None until evaluated
  changes,           \* Result.Changes, None until compared
  failed             \* the command could not read a file, or write its report

dvars == <<old, new, rules, oldF, newF, changes, failed>>

DInit ==
  /\ old \in Scans /\ new \in Scans /\ rules \in Files
  /\ oldF = None /\ newF = None /\ changes = None
  /\ failed = FALSE

------------------------------------------------------------------------------
(* A side is a set holding one finding, or none if there is no such side.  *)

Suppressed(side) == \E f \in side : f.suppression # None

Underlying(f) == IF f.suppression # None THEN f.suppression.original ELSE f.result

\* mutant: an accepted finding is compared by the result it shows
FailingShown(side) == \E f \in side : f.result \in {"FAIL", "UNKNOWN"}

Failing(side) == \E f \in side : Underlying(f) \in {"FAIL", "UNKNOWN"}

\* mutant: a finding that is failing now and was not, as shown, is a new failure
ClassifyFailureFirst(o, n) ==
  LET was        == \E f \in o : f.result \in {"FAIL", "UNKNOWN"}
      is         == \E f \in n : f.result \in {"FAIL", "UNKNOWN"}
      suppressed == ~Suppressed(o) /\ Suppressed(n)
  IN CASE ~was /\ is -> "NEW FAILURE"
       [] ~(~was /\ is) /\ suppressed -> "NEWLY SUPPRESSED"
       [] ~(~was /\ is) /\ ~suppressed /\ Failing(o) /\ ~Failing(n) -> "RESOLVED"
       [] ~(~was /\ is) /\ ~suppressed /\ Failing(o) /\ Failing(n)
            /\ \E f \in o, g \in n : Underlying(f) # Underlying(g) -> "VERDICT CHANGED"
       [] OTHER -> None

\* mutant: failing before and failing now is no change
ClassifyFourWays(o, n) ==
  LET regressed  == Suppressed(o) /\ ~Suppressed(n) /\ Failing(n)
      suppressed == ~Suppressed(o) /\ Suppressed(n)
  IN CASE regressed -> "REGRESSED"
       [] ~regressed /\ suppressed -> "NEWLY SUPPRESSED"
       [] ~regressed /\ ~suppressed /\ Failing(o) /\ ~Failing(n) -> "RESOLVED"
       [] ~regressed /\ ~suppressed /\ ~Failing(o) /\ Failing(n) -> "NEW FAILURE"
       [] OTHER -> None

(* The first case that holds, so that a lapsed acceptance is not taken for *)
(* a new failure.                                                          *)
Classify(o, n) ==
  LET regressed  == Suppressed(o) /\ ~Suppressed(n) /\ Failing(n)
      suppressed == ~Suppressed(o) /\ Suppressed(n)
  IN CASE regressed -> "REGRESSED"
       [] ~regressed /\ suppressed -> "NEWLY SUPPRESSED"
       [] ~regressed /\ ~suppressed /\ Failing(o) /\ ~Failing(n) -> "RESOLVED"
       [] ~regressed /\ ~suppressed /\ ~Failing(o) /\ Failing(n) -> "NEW FAILURE"
       [] ~regressed /\ ~suppressed /\ Failing(o) /\ Failing(n)
            /\ \E f \in o, g \in n : Underlying(f) # Underlying(g) -> "VERDICT CHANGED"
       [] OTHER -> None

(* Compare: by fingerprint, then a check's only leftover on each side, then*)
(* what has no counterpart.                                                *)
Compare(A, B) ==
  LET prints(S)  == {Fingerprint(f) : f \in S}
      oldOnly    == {f \in A : Fingerprint(f) \notin prints(B)}
      newOnly    == {f \in B : Fingerprint(f) \notin prints(A)}
      of(S, c)   == {f \in S : f.check = c}
      drifted    == {c \in Check : Cardinality(of(oldOnly, c)) = 1 /\ Cardinality(of(newOnly, c)) = 1}
      joined     == {<<{f}, {g \in B : Fingerprint(g) = Fingerprint(f)}>> : f \in A \ oldOnly}
      paired     == {<<of(oldOnly, c), of(newOnly, c)>> : c \in drifted}
      alone      == {<<{f}, {}>> : f \in {g \in oldOnly : g.check \notin drifted}}
                      \cup {<<{}, {f}>> : f \in {g \in newOnly : g.check \notin drifted}}
  IN  {[category |-> Classify(p[1], p[2]), old |-> p[1], new |-> p[2]] :
         p \in {q \in joined \cup paired \cup alone : Classify(q[1], q[2]) # None}}

------------------------------------------------------------------------------

Evaluate(b) == [k \in DOMAIN CatalogOrder |-> EvaluateOne(b, CatalogOrder[k])]

Aborts ==
  /\ ~failed /\ changes = None
  /\ \/ ~Parses(rules) /\ oldF = None
     \/ Parses(rules) /\ oldF = None /\ (~old.opens \/ ~new.opens)
     \/ newF # None
  /\ failed' = TRUE
  /\ UNCHANGED <<old, new, rules, oldF, newF, changes>>

EvaluateOld ==
  /\ ~failed /\ oldF = None
  /\ Parses(rules) /\ old.opens /\ new.opens
  /\ oldF' = Apply(rules, old.started, Evaluate(old))
  /\ UNCHANGED <<old, new, rules, newF, changes, failed>>

EvaluateNew ==
  /\ ~failed /\ oldF # None /\ newF = None
  /\ newF' = Apply(rules, new.started, Evaluate(new))
  /\ UNCHANGED <<old, new, rules, oldF, changes, failed>>

CompareBoth ==
  /\ ~failed /\ newF # None /\ changes = None
  /\ changes' = Compare(Range(oldF), Range(newF))
  /\ UNCHANGED <<old, new, rules, oldF, newF, failed>>

Compared == (failed \/ changes # None) /\ UNCHANGED dvars

DNext == Aborts \/ EvaluateOld \/ EvaluateNew \/ CompareBoth \/ Compared

DSpec == DInit /\ [][DNext]_dvars

------------------------------------------------------------------------------
(* Properties, said from the two bundles.                                  *)

Bad(b, c) == Own(b, c) \in {"FAIL", "UNKNOWN"}

About(c) == {ch \in changes : \E f \in ch.old \cup ch.new : f.check = c}

(* A fix is a fix ("accepting a risk diffs as an acceptance rather than as *)
(* a fix"): RESOLVED is said of exactly the checks that were failing and   *)
(* are not, whatever was accepted on either side.                          *)
ResolvedIsFixed ==
  changes # None =>
    \A c \in Check : (Bad(old, c) /\ ~Bad(new, c)) <=>
                       \E ch \in About(c) : ch.category = "RESOLVED"

(* No verdict that moved goes unreported, and nothing is reported twice: a *)
(* check that began to fail, stopped failing, or changed between FAIL and  *)
(* UNKNOWN has exactly one change, under drifting subjects too.            *)
EveryMoveReported ==
  changes # None =>
    \A c \in Check :
      /\ Cardinality(About(c)) <= 1
      /\ Bad(old, c) # Bad(new, c) => About(c) # {}
      /\ Bad(old, c) /\ Bad(new, c) /\ Own(old, c) # Own(new, c) => About(c) # {}

(* "the host may not have changed at all - the acceptance lapsed": between *)
(* two scans of an unchanged host the only news is about acceptances, and  *)
(* a lapsed one is never called a new failure.                             *)
UnchangedHost ==
  changes # None /\ old.facts = new.facts /\ old.says = new.says =>
    \A ch \in changes :
      /\ ch.category \in {"REGRESSED", "NEWLY SUPPRESSED"}
      /\ \A f \in ch.old : ch.category = "REGRESSED" =>
           Live(rules, old.started, Fingerprint(f)) /\ ~Live(rules, new.started, Fingerprint(f))
==============================================================================
