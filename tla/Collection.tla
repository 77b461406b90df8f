----------------------------- MODULE Collection ------------------------------
(***************************************************************************)
(* What a collection run promises its caller, without goroutines, slots,   *)
(* budgets or private sets: collectors are resolved one at a time, each    *)
(* once, none that observed the host before the collectors it depends on,  *)
(* and each resolution changes the report only for the facts of that       *)
(* collector, in a way that agrees with its outcome.                       *)
(***************************************************************************)
EXTENDS FactSet

CONSTANTS
  Collector,   \* the collectors of the run
  Before,      \* Before[c]: the collectors c has to be resolved after
  Duty         \* Duty[c]: the fact IDs c answers for

VARIABLES
  outcome,     \* how each collector ended, or "pending"
  report       \* the facts and errors of the collectors that have ended

Outcome == {"ok", "failed", "skipped", "timeout"}

CInit ==
  /\ outcome = [c \in Collector |-> "pending"]
  /\ report = NewSet

(* The report's entries for c agree with how c ended.                      *)
Honest(c, out, rep) ==
  /\ out \in {"skipped", "timeout"} => \A id \in Duty[c] : rep.facts[id] = None
  /\ out = "skipped" => \A id \in Duty[c] : rep.errors[id] \in {"internal", "permission"}
  /\ out = "timeout" => \A id \in Duty[c] : rep.errors[id] = "timeout"
  /\ out = "failed"  => \E id \in Duty[c] : rep.errors[id] # None
  /\ \A id \in Duty[c] : rep.facts[id] \in {c, None}
  /\ \A id \in Duty[c] : rep.facts[id] = None \/ rep.errors[id] = None

Resolve(c) ==
  /\ outcome[c] = "pending"
  /\ \E out \in Outcome :
       /\ out \in {"ok", "failed"} => \A d \in Before[c] : outcome[d] # "pending"
       /\ outcome' = [outcome EXCEPT ![c] = out]
       /\ Honest(c, out, report')
  /\ \A id \in FactID \ Duty[c] : /\ report'.facts[id] = report.facts[id]
                                  /\ report'.errors[id] = report.errors[id]

CNext == \E c \in Collector : Resolve(c)

CSpec == CInit /\ [][CNext]_<<outcome, report>>
==============================================================================
