------------------------------ MODULE Findings -------------------------------
(***************************************************************************)
(* From a fact set to findings: the catalog's evaluation, the profile that *)
(* scopes it, the suppression file that accepts risks, and the score.  All *)
(* of it is a function of the bundle and of files the operator named.      *)
(*                                                                         *)
(* A check's Eval is pure, so what it would say of a bundle's facts is     *)
(* part of the bundle here (bundle.says); whether it is asked is not.      *)
(* Severities are ranks, 1 for INFO to 5 for CRITICAL.  A fingerprint is   *)
(* the pair it is the hash of.                                             *)
(***************************************************************************)
EXTENDS Naturals, Sequences, SequencesExt, FiniteSetsExt, Outcomes

CONSTANTS
  CatalogOrder,  \* the check IDs in sorted order, which is evaluation order
  Requires,      \* Requires[c]: the sequence of facts check c reads
  Base,          \* Base[c]: the check's base severity
  FactID,
  None           \* a field that is absent

Check    == Range(CatalogOrder)
Severity == 1..5
Result   == {"PASS", "FAIL", "NOT_APPLICABLE", "SKIPPED", "UNKNOWN"}

ErrorKind == {"not_collected", "permission", "timeout", "parse", "truncated",
              "unsupported", "internal"}

(* What a bundle holds of a fact: a value this build can decode, one it    *)
(* cannot, an error, or nothing.                                           *)
FactState == {"known", "opaque", "absent"} \cup ErrorKind

UnknownReason ==
  {ReasonFactMissing, ReasonPermission, ReasonParse, ReasonTruncated, ReasonAmbiguousState,
   "fact_version_mismatch", "internal_error"}

(* What a check says of a bundle's facts, and what a bundle is to them.    *)
Said ==
  [result : (Result \ {"SKIPPED"}) \cup {"panic"}, reason : UnknownReason \cup {None},
   subject : STRING, severity : Severity \cup {None}]

Bundle == [facts : [FactID -> FactState], says : [Check -> Said], started : Nat, opens : BOOLEAN]

(* The acceptance of a finding, as its Suppression records it.             *)
Acceptance == [original : Result, expires : Nat \cup {None}]

ASSUME NoneAssumption == None \notin UnknownReason \cup Nat \cup Acceptance

ASSUME CatalogAssumption ==
  /\ CatalogOrder \in Seq(Check) /\ IsInjective(CatalogOrder)
  /\ \A c \in Check : Requires[c] \in Seq(FactID) /\ Len(Requires[c]) > 0
  /\ \A c \in Check : Base[c] \in Severity

------------------------------------------------------------------------------
(* EvaluateOne.                                                            *)

Blank(c) ==
  [check |-> c, subject |-> "", result |-> "UNKNOWN", reason |-> None, severity |-> Base[c],
   fix |-> FALSE, skippedBy |-> None, suppression |-> None]

Fingerprint(f) == <<f.check, f.subject>>

\* mutant: present is taken for usable
UnusableIfMissing(bundle, id) == bundle.facts[id] \notin {"known", "opaque"}

Unusable(bundle, id) == bundle.facts[id] # "known"

Gaps(bundle, c) == {k \in DOMAIN Requires[c] : Unusable(bundle, Requires[c][k])}

(* The first required fact that cannot be used decides the reason.         *)
GateFails(bundle, c) ==
  [Blank(c) EXCEPT !.reason = ReasonFor(bundle.facts[Requires[c][Min(Gaps(bundle, c))]])]

EvalPanics(c) == [Blank(c) EXCEPT !.reason = "internal_error"]

EvalSays(bundle, c) ==
  LET oc == bundle.says[c]
  IN  [Blank(c) EXCEPT !.result = oc.result, !.reason = oc.reason, !.subject = oc.subject,
                       !.severity = IF oc.severity = None THEN Base[c] ELSE oc.severity,
                       !.fix = oc.result = "FAIL"]

EvaluateOne(bundle, c) ==
  CASE Gaps(bundle, c) # {}          -> GateFails(bundle, c)
    [] Gaps(bundle, c) = {} /\ bundle.says[c].result = "panic" -> EvalPanics(c)
    [] OTHER                         -> EvalSays(bundle, c)

(* The same, said from the bundle alone: the check could look, its own     *)
(* verdict, and the fingerprint that comes with it.                        *)
Could(bundle, c) == \A k \in DOMAIN Requires[c] : bundle.facts[Requires[c][k]] = "known"

Speaks(bundle, c) == Could(bundle, c) /\ bundle.says[c].result # "panic"

Own(bundle, c) == IF Speaks(bundle, c) THEN bundle.says[c].result ELSE "UNKNOWN"

OwnPrint(bundle, c) == <<c, IF Speaks(bundle, c) THEN bundle.says[c].subject ELSE "">>

Errors(bundle) == {i \in FactID : bundle.facts[i] \in ErrorKind}

------------------------------------------------------------------------------
(* applyProfile.  A profile is None or a record of the checks it includes  *)
(* and the severities it overrides.                                        *)

Scope(p, f) ==
  CASE p = None -> f
    [] p # None /\ f.check \notin p.includes ->
         [f EXCEPT !.result = "SKIPPED", !.skippedBy = p.id, !.reason = None, !.fix = FALSE]
    [] p # None /\ f.check \in p.includes /\ f.check \in DOMAIN p.severity ->
         [f EXCEPT !.severity = p.severity[f.check]]
    [] OTHER -> f

ApplyProfile(p, in) == [k \in DOMAIN in |-> Scope(p, in[k])]

------------------------------------------------------------------------------
(* The suppression file: a sequence of rules, each with the fingerprint it *)
(* is for, whether it has a justification and a date that can be read, an  *)
(* expiry or None and a label or None.  Parse refuses the file as a whole. *)

RuleReadable(r) ==
  /\ r.justified
  /\ r.dated
  /\ r.label # None => r.label = r.fp

Parses(file) ==
  /\ \A k \in DOMAIN file : RuleReadable(file[k])
  /\ \A j, k \in DOMAIN file : file[j].fp = file[k].fp => j = k

RulesFor(file, f) == {k \in DOMAIN file : file[k].fp = Fingerprint(f)}

\* mutant: everything that did not pass can be accepted
AcceptableUnlessPassed(f) == f.result # "PASS"

Acceptable(f) == f.result \in {"FAIL", "UNKNOWN"}

Lapsed(rule, at) == rule.expires # None /\ at >= rule.expires

Suppress(file, at, f) ==
  IF Acceptable(f) /\ \E k \in RulesFor(file, f) : ~Lapsed(file[k], at)
  THEN [f EXCEPT !.result = "SKIPPED",
                 !.suppression = [original |-> f.result,
                                  expires |-> file[CHOOSE k \in RulesFor(file, f) : TRUE].expires]]
  ELSE f

(* A rule for a fingerprint whose acceptance outlives a moment.            *)
Live(file, at, fp) ==
  \E k \in DOMAIN file :
    file[k].fp = fp /\ (file[k].expires # None => at < file[k].expires)

(* Apply, and what it reports of its rules.                                *)
Apply(file, at, in) == [k \in DOMAIN in |-> Suppress(file, at, in[k])]

RulesApplied(file, at, in) ==
  {k \in DOMAIN file : \E j \in DOMAIN in :
     Acceptable(in[j]) /\ k \in RulesFor(file, in[j]) /\ ~Lapsed(file[k], at)}

RulesExpired(file, at, in) ==
  {k \in DOMAIN file : \E j \in DOMAIN in :
     Acceptable(in[j]) /\ k \in RulesFor(file, in[j]) /\ Lapsed(file[k], at)}
    \ RulesApplied(file, at, in)

RulesUnmatched(file, at, in) ==
  DOMAIN file \ (RulesApplied(file, at, in) \cup RulesExpired(file, at, in))

------------------------------------------------------------------------------
(* score.Compute, with the two quotients left as numerator and denominator:*)
(* each is undefined when its denominator is 0.                            *)

Weight(f) == f.severity - 1

Having(in, r) == {k \in DOMAIN in : in[k].result = r}

WeightOf(in, S) == MapThenSumSet(LAMBDA k : Weight(in[k]), S)

\* mutant: an accepted risk leaves the question, as an excluded check does
ApplicableUnskipped(in) ==
  Len(in) - Cardinality(Having(in, "NOT_APPLICABLE")) - Cardinality(Having(in, "SKIPPED"))

Applicable(in) ==
  Len(in) - Cardinality(Having(in, "NOT_APPLICABLE"))
          - Cardinality({k \in Having(in, "SKIPPED") : in[k].skippedBy # None})

Compute(in) ==
  [evaluated  |-> Cardinality(Having(in, "PASS") \cup Having(in, "FAIL")),
   applicable |-> Applicable(in),
   passed     |-> WeightOf(in, Having(in, "PASS")),
   weighed    |-> WeightOf(in, Having(in, "PASS") \cup Having(in, "FAIL"))]

CoverageDefined(s) == s.applicable > 0
PostureDefined(s)  == s.weighed > 0
CoverageBelow(s, n) == s.evaluated * 100 < n * s.applicable
PostureBelow(s, n)  == s.passed * 100 < n * s.weighed
==============================================================================
