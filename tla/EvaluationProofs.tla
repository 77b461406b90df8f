-------------------------- MODULE EvaluationProofs ---------------------------
(***************************************************************************)
(* Theorems about Evaluation, for every catalog, bundle, suppression file, *)
(* profile and choice of gates, and for every moment `eval` is run.        *)
(***************************************************************************)
EXTENDS Evaluation, FiniteSetTheorems, TLAPS

------------------------------------------------------------------------------
(* What the operators of Findings return, for every catalog, bundle and    *)
(* suppression file: the lemmas that the theorems about `eval` and `diff`  *)
(* share.                                                                  *)

Total == Len(CatalogOrder)

Fields ==
  {"check", "subject", "result", "reason", "severity", "fix", "skippedBy", "suppression"}

(* The catalog is a sequence of checks without repetition.                 *)
LEMMA CatalogIs ==
  /\ Total \in Nat /\ DOMAIN CatalogOrder = 1..Total
  /\ \A k \in 1..Total : CatalogOrder[k] \in Check
  BY CatalogAssumption DEF Total, IsInjective

(* ReasonFor gives a reason in words, whatever a required fact lacks.      *)
LEMMA ReasonIsSaid == \A kind : ReasonFor(kind) \in UnknownReason
  BY DEF UnknownReason, ReasonFor, ReasonFactMissing, ReasonPermission, ReasonParse,
         ReasonTruncated, ReasonAmbiguousState

(* A finding before profile and rules, and its fields by name.             *)
Made(c, subject, result, reason, severity, fix) ==
  [check |-> c, subject |-> subject, result |-> result, reason |-> reason,
   severity |-> severity, fix |-> fix, skippedBy |-> None, suppression |-> None]

Reads(f, c, subject, result, reason, severity, fix) ==
  /\ DOMAIN f = Fields
  /\ f.check = c /\ f.result = result /\ f.reason = reason /\ f.severity = severity
  /\ f.skippedBy = None /\ f.suppression = None /\ f.fix = fix
  /\ Fingerprint(f) = <<c, subject>>

LEMMA MadeReads ==
  \A c, subject, result, reason, severity, fix :
    Reads(Made(c, subject, result, reason, severity, fix), c, subject, result, reason, severity, fix)
  BY DEF Reads, Made, Fields, Fingerprint

(* What EvaluateOne makes of a check: its own verdict if it could look, and*)
(* UNKNOWN with a reason if it could not.                                  *)
LEMMA EvaluateOneIs ==
  ASSUME NEW b \in Bundle, NEW c \in Check, NEW f, f = EvaluateOne(b, c)
  PROVE  /\ DOMAIN f = Fields
         /\ f.check = c /\ f.result = Own(b, c) /\ Fingerprint(f) = OwnPrint(b, c)
         /\ f.fix => Own(b, c) = "FAIL"
         /\ f.severity \in Severity
         /\ f.skippedBy = None /\ f.suppression = None
         /\ ~Could(b, c) => f.result = "UNKNOWN" /\ f.reason # None
  <1>0. Base[c] \in Severity /\ b.says[c] \in Said
    BY CatalogAssumption DEF Bundle
  <1>1. Gaps(b, c) = {} <=> Could(b, c)
    BY DEF Gaps, Could, Unusable
  <1>2. CASE ~Could(b, c)
    <2> DEFINE why == ReasonFor(b.facts[Requires[c][Min(Gaps(b, c))]])
    <2>1. EvaluateOne(b, c) = Made(c, "", "UNKNOWN", why, Base[c], FALSE)
      BY <1>1, <1>2 DEF EvaluateOne, GateFails, Blank, Made
    <2>2. why # None
      BY ReasonIsSaid, NoneAssumption
    <2>3. Own(b, c) = "UNKNOWN" /\ OwnPrint(b, c) = <<c, "">>
      BY <1>2 DEF Own, OwnPrint, Speaks
    <2> HIDE DEF why
    <2>4. Reads(f, c, "", "UNKNOWN", why, Base[c], FALSE)
      BY <2>1, MadeReads, Zenon
    <2>5. QED
      BY <1>0, <2>2, <2>3, <2>4, Zenon DEF Reads
  <1>3. CASE Could(b, c) /\ b.says[c].result = "panic"
    <2>1. EvaluateOne(b, c) = Made(c, "", "UNKNOWN", "internal_error", Base[c], FALSE)
      BY <1>1, <1>3 DEF EvaluateOne, EvalPanics, Blank, Made
    <2>2. Own(b, c) = "UNKNOWN" /\ OwnPrint(b, c) = <<c, "">>
      BY <1>3 DEF Own, OwnPrint, Speaks
    <2>3. Reads(f, c, "", "UNKNOWN", "internal_error", Base[c], FALSE)
      BY <2>1, MadeReads, Zenon
    <2>4. QED
      BY <1>0, <1>3, <2>2, <2>3, Zenon DEF Reads
  <1>4. CASE Could(b, c) /\ b.says[c].result # "panic"
    <2> DEFINE oc == b.says[c]
               sev == IF oc.severity = None THEN Base[c] ELSE oc.severity
               fixed == oc.result = "FAIL"
    <2>1. EvaluateOne(b, c) = Made(c, oc.subject, oc.result, oc.reason, sev, fixed)
      BY <1>1, <1>4 DEF EvaluateOne, EvalSays, Blank, Made
    <2>2. sev \in Severity
      BY <1>0 DEF Said
    <2>3. Own(b, c) = oc.result /\ OwnPrint(b, c) = <<c, oc.subject>> /\ (fixed => oc.result = "FAIL")
      BY <1>4 DEF Own, OwnPrint, Speaks
    <2> HIDE DEF oc, sev, fixed
    <2>4. Reads(f, c, oc.subject, oc.result, oc.reason, sev, fixed)
      BY <2>1, MadeReads, Zenon
    <2>5. QED
      BY <1>4, <2>2, <2>3, <2>4, Zenon DEF Reads
  <1>5. QED BY <1>2, <1>3, <1>4, Zenon

(* What the suppression file makes of a finding: nothing, or an acceptance *)
(* that records the verdict, under a rule alive at the given moment.       *)
LEMMA SuppressIs ==
  ASSUME NEW file, \A k \in DOMAIN file : file[k].expires \in Nat \cup {None},
         NEW at \in Nat, NEW f, DOMAIN f = Fields, NEW g, g = Suppress(file, at, f)
  PROVE  /\ g.severity = f.severity /\ g.skippedBy = f.skippedBy /\ g.fix = f.fix
         /\ g.check = f.check /\ Fingerprint(g) = Fingerprint(f)
         /\ Acceptable(f) /\ Live(file, at, Fingerprint(f)) =>
              g.result = "SKIPPED" /\ g.suppression # None /\ g.suppression.original = f.result
         /\ ~(Acceptable(f) /\ Live(file, at, Fingerprint(f))) => g = f
  <1> DEFINE alive == Live(file, at, Fingerprint(f))
  <1>1. alive <=> \E k \in RulesFor(file, f) : ~Lapsed(file[k], at)
    BY DEF Live, RulesFor, Lapsed
  <1>2. CASE ~(Acceptable(f) /\ alive)
    <2>1. g = f
      BY <1>1, <1>2 DEF Suppress
    <2>2. QED BY <1>2, <2>1
  <1>3. CASE Acceptable(f) /\ alive
    <2> DEFINE until == file[CHOOSE k \in RulesFor(file, f) : TRUE].expires
               mark  == [original |-> f.result, expires |-> until]
    <2>1. g = [f EXCEPT !.result = "SKIPPED", !.suppression = mark]
      BY <1>1, <1>3 DEF Suppress
    <2>2. until \in Nat \cup {None}
      BY <1>1, <1>3 DEF RulesFor
    <2> HIDE DEF until
    <2>3. mark \in Acceptance /\ mark.original = f.result
      BY <1>3, <2>2 DEF Acceptance, Acceptable, Result
    <2>4. mark # None
      BY <2>3, NoneAssumption
    <2> HIDE DEF mark
    <2>5. g.result = "SKIPPED" /\ g.suppression = mark
      BY <2>1 DEF Fields
    <2>6. /\ g.severity = f.severity /\ g.skippedBy = f.skippedBy
          /\ g.check = f.check /\ g.subject = f.subject
      BY <2>1 DEF Fields
    <2>7. g.fix = f.fix
      BY <2>1 DEF Fields
    <2>8. QED
      BY <1>3, <2>3, <2>4, <2>5, <2>6, <2>7 DEF Fingerprint
  <1>4. QED BY <1>2, <1>3

------------------------------------------------------------------------------
(* Counting.                                                               *)

(* score.Compute weighs nothing when nothing was evaluated.                *)
LEMMA EmptySum == \A in : WeightOf(in, {}) = 0
  <1> SUFFICES ASSUME NEW in PROVE WeightOf(in, {}) = 0
    OBVIOUS
  <1> DEFINE D == SUBSET {}
             Sums(f) == f = [s \in D |-> IF s = {} THEN 0
                        ELSE LET x == CHOOSE x \in s : TRUE IN Weight(in[x]) + f[s \ {x}]]
             g == [s \in D |-> 0]
             sum == CHOOSE f : Sums(f)
  <1>1. WeightOf(in, {}) = sum[{}]
    BY DEF WeightOf, MapThenSumSet, MapThenFoldSet
  <1>2. Sums(g)
    OBVIOUS
  <1>3. Sums(sum)
    BY <1>2
  <1>4. QED BY <1>1, <1>3

(* Two sets without a common element are counted apart.                    *)
LEMMA DisjointCount ==
  ASSUME NEW S, NEW T, IsFiniteSet(S), IsFiniteSet(T), S \cap T = {}
  PROVE  /\ IsFiniteSet(S \cup T)
         /\ Cardinality(S \cup T) = Cardinality(S) + Cardinality(T)
  <1>1. /\ IsFiniteSet(S \cup T)
        /\ Cardinality(S \cup T) = Cardinality(S) + Cardinality(T) - Cardinality(S \cap T)
    BY FS_Union
  <1>2. Cardinality(S) \in Nat /\ Cardinality(T) \in Nat /\ Cardinality(S \cap T) = 0
    BY FS_CardinalityType, FS_EmptySet
  <1>3. QED BY <1>1, <1>2

(* Counting findings is counting checks, as no check is in the catalog     *)
(* twice.                                                                  *)
LEMMA OneFindingEach ==
  ASSUME NEW S \in SUBSET (1..Total), NEW C \in SUBSET Check,
         \A k \in 1..Total : k \in S <=> CatalogOrder[k] \in C
  PROVE  IsFiniteSet(S) /\ Cardinality(C) = Cardinality(S)
  <1>1. IsFiniteSet(S)
    <2>1. IsFiniteSet(1..Total)
      BY CatalogIs, FS_Interval
    <2>2. QED BY <2>1, FS_Subset
  <1> DEFINE f == [k \in S |-> CatalogOrder[k]]
  <1>2. \A j, k \in S : f[j] = f[k] => j = k
    BY CatalogAssumption, CatalogIs DEF IsInjective
  <1>3. \A c \in C : \E k \in S : f[k] = c
    <2> SUFFICES ASSUME NEW c \in C PROVE \E k \in S : f[k] = c
      OBVIOUS
    <2>1. PICK k \in DOMAIN CatalogOrder : CatalogOrder[k] = c
      BY DEF Check, Range
    <2>2. k \in S
      BY <2>1, CatalogIs
    <2>3. QED BY <2>1, <2>2
  <1>4. f \in [S -> C]
    OBVIOUS
  <1>5. ExistsBijection(S, C)
    BY <1>2, <1>3, <1>4 DEF ExistsBijection, Bijection, Injection, Surjection, IsInjective
  <1>6. QED BY <1>1, <1>5, FS_Bijection

------------------------------------------------------------------------------
(* The document, said from the input alone.                                *)

Evaluated(k) == EvaluateOne(bundle, CatalogOrder[k])
Scoped(k)    == Scope(options.profile, Evaluated(k))
Final(k)     == Suppress(options.rules, bundle.started, Scoped(k))

ScopedAll == [k \in 1..Total |-> Scoped(k)]
Document  == [k \in 1..Total |-> Final(k)]

Unapplied ==
  [expired   |-> RulesExpired(options.rules, bundle.started, ScopedAll),
   unmatched |-> RulesUnmatched(options.rules, bundle.started, ScopedAll)]

Code == Gate(Compute(Document), Document, options.gates)

(* What the command has made of the input, from where it is.               *)
Stage ==
  /\ pc \in {"load", "evaluate", "scope", "suppress", "score", "render", "done"}
  /\ pc = "load" => findings = << >>
  /\ pc \in {"evaluate", "scope"} =>
       /\ findings = [k \in 1..Len(findings) |-> Evaluated(k)]
       /\ Len(findings) \in 0..Total
  /\ pc = "scope" => Len(findings) = Total
  /\ pc = "suppress" => findings = ScopedAll
  /\ pc \in {"score", "render"} => findings = Document /\ unapplied = Unapplied
  /\ pc = "render" => score = Compute(Document)
  /\ pc = "done" => findings = << >> \/ findings = Document
  /\ Completed =>
       /\ findings = Document /\ unapplied = Unapplied
       /\ score = Compute(Document) /\ exit = Code

(* What an earlier evaluation of the same files left.                      *)
Before ==
  earlier # None /\ earlier.exit \notin {1, 70} =>
    /\ earlier.findings = Document /\ earlier.unapplied = Unapplied
    /\ earlier.exit = Code

EInv == bundle \in Bundles /\ options \in Options /\ Stage /\ Before

------------------------------------------------------------------------------
(* One finding.                                                            *)

(* What a profile makes of a finding: it leaves the verdict alone, or says *)
(* that it left the check out.                                             *)
LEMMA ScopeIs ==
  ASSUME options \in Options, NEW f, DOMAIN f = Fields, f.severity \in Severity,
         f.skippedBy = None, f.suppression = None, NEW g, g = Scope(options.profile, f)
  PROVE  /\ DOMAIN g = Fields
         /\ g.severity \in Severity /\ g.suppression = None
         /\ Fingerprint(g) = Fingerprint(f)
         /\ InProfile(f.check) =>
              /\ g.result = f.result /\ g.reason = f.reason /\ g.skippedBy = None
              /\ g.fix = f.fix
         /\ ~InProfile(f.check) => g.result = "SKIPPED" /\ g.skippedBy # None /\ ~g.fix
  <1> DEFINE p == options.profile
  <1>1. CASE ~InProfile(f.check)
    <2>1. p # None /\ f.check \notin p.includes /\ p.id # None
      BY <1>1, InputAssumption DEF InProfile
    <2>2. g = [f EXCEPT !.result = "SKIPPED", !.skippedBy = p.id, !.reason = None, !.fix = FALSE]
      BY <2>1 DEF Scope
    <2> HIDE DEF p
    <2>3. DOMAIN g = Fields
      BY <2>2
    <2>4. g.result = "SKIPPED" /\ g.skippedBy = p.id
      BY <2>2 DEF Fields
    <2>5. g.severity = f.severity /\ g.suppression = f.suppression /\ g.check = f.check
          /\ g.subject = f.subject
      BY <2>2 DEF Fields
    <2>6. ~g.fix
      BY <2>2 DEF Fields
    <2>7. QED
      BY <1>1, <2>1, <2>3, <2>4, <2>5, <2>6 DEF Fingerprint
  <1>2. CASE p # None /\ f.check \in p.includes /\ f.check \in DOMAIN p.severity
    <2>1. p.severity[f.check] \in Severity
      BY <1>2, InputAssumption
    <2>2. g = [f EXCEPT !.severity = p.severity[f.check]]
      BY <1>2 DEF Scope
    <2>3. InProfile(f.check)
      BY <1>2 DEF InProfile
    <2> HIDE DEF p
    <2>4. DOMAIN g = Fields /\ g.severity = p.severity[f.check]
      BY <2>2 DEF Fields
    <2>5. g.suppression = f.suppression /\ g.check = f.check /\ g.subject = f.subject
          /\ g.result = f.result /\ g.reason = f.reason /\ g.skippedBy = f.skippedBy
      BY <2>2 DEF Fields
    <2>6. g.fix = f.fix
      BY <2>2 DEF Fields
    <2>7. QED
      BY <2>1, <2>3, <2>4, <2>5, <2>6 DEF Fingerprint
  <1>3. CASE InProfile(f.check) /\ ~(p # None /\ f.check \in DOMAIN p.severity)
    <2>1. g = f
      BY <1>3 DEF Scope, InProfile
    <2>2. QED
      BY <1>3, <2>1
  <1>4. QED
    BY <1>1, <1>2, <1>3 DEF InProfile

(* The k-th finding once it is evaluated, scoped and accepted.             *)
LEMMA EvaluatedIs ==
  ASSUME bundle \in Bundle, NEW k \in 1..Total
  PROVE  ~Could(bundle, CatalogOrder[k]) => Evaluated(k).result = "UNKNOWN" /\ Evaluated(k).reason # None
  BY CatalogIs, EvaluateOneIs DEF Evaluated

LEMMA ScopedIs ==
  ASSUME bundle \in Bundle, options \in Options, NEW k \in 1..Total, NEW c, c = CatalogOrder[k],
         NEW f, f = Scoped(k)
  PROVE  /\ DOMAIN f = Fields
         /\ f.severity \in Severity /\ f.suppression = None
         /\ Fingerprint(f) = OwnPrint(bundle, c)
         /\ InProfile(c) =>
              /\ f.result = Own(bundle, c) /\ f.skippedBy = None
              /\ ~Could(bundle, c) => f.reason # None /\ f.result = "UNKNOWN"
         /\ f.fix => InProfile(c) /\ Own(bundle, c) = "FAIL"
         /\ ~InProfile(c) => f.result = "SKIPPED" /\ f.skippedBy # None
  <1> DEFINE e == Evaluated(k)
  <1>1. /\ DOMAIN e = Fields
        /\ e.check = c /\ e.result = Own(bundle, c) /\ Fingerprint(e) = OwnPrint(bundle, c)
        /\ e.fix => Own(bundle, c) = "FAIL"
        /\ e.severity \in Severity
        /\ e.skippedBy = None /\ e.suppression = None
        /\ ~Could(bundle, c) => e.result = "UNKNOWN" /\ e.reason # None
    BY CatalogIs, EvaluateOneIs DEF Evaluated
  <1>2. f = Scope(options.profile, e)
    BY DEF Scoped
  <1> HIDE DEF e
  <1>3. /\ DOMAIN f = Fields
        /\ f.severity \in Severity /\ f.suppression = None
        /\ Fingerprint(f) = Fingerprint(e)
        /\ InProfile(e.check) =>
             /\ f.result = e.result /\ f.reason = e.reason /\ f.skippedBy = None
             /\ f.fix = e.fix
        /\ ~InProfile(e.check) => f.result = "SKIPPED" /\ f.skippedBy # None /\ ~f.fix
    BY <1>1, <1>2, ScopeIs, Zenon
  <1>4. QED BY <1>1, <1>3, Zenon

LEMMA FinalIs ==
  ASSUME bundle \in Bundle, options \in Options, NEW k \in 1..Total, NEW c, c = CatalogOrder[k],
         NEW f, f = Final(k)
  PROVE  /\ ~InProfile(c) <=> f.skippedBy # None
         /\ Accepted(c)   <=> f.suppression # None
         /\ ~InProfile(c) => f.result = "SKIPPED" /\ f.suppression = None
         /\ Accepted(c)   => f.result = "SKIPPED" /\ f.suppression.original = Own(bundle, c)
         /\ InProfile(c) /\ ~Accepted(c) => f.result = Own(bundle, c)
         /\ f.fix => Own(bundle, c) = "FAIL" /\ InProfile(c)
         /\ f.severity \in Severity
         /\ ~Could(bundle, c) => \/ f.result = "UNKNOWN" /\ f.reason # None
                        \/ f.result = "SKIPPED"
  <1> DEFINE s == Scoped(k)
  <1>1. /\ DOMAIN s = Fields
        /\ s.severity \in Severity /\ s.suppression = None
        /\ Fingerprint(s) = OwnPrint(bundle, c)
        /\ InProfile(c) =>
             /\ s.result = Own(bundle, c) /\ s.skippedBy = None
             /\ ~Could(bundle, c) => s.reason # None /\ s.result = "UNKNOWN"
        /\ s.fix => InProfile(c) /\ Own(bundle, c) = "FAIL"
        /\ ~InProfile(c) => s.result = "SKIPPED" /\ s.skippedBy # None
    BY ScopedIs, Zenon
  <1>2. f = Suppress(options.rules, bundle.started, s)
    BY DEF Final
  <1> HIDE DEF s
  <1> DEFINE alive == Live(options.rules, bundle.started, OwnPrint(bundle, c))
  <1>3. /\ f.severity = s.severity /\ f.skippedBy = s.skippedBy /\ f.fix = s.fix
        /\ Acceptable(s) /\ alive =>
             f.result = "SKIPPED" /\ f.suppression # None /\ f.suppression.original = s.result
        /\ ~(Acceptable(s) /\ alive) => f = s
    <2>1. /\ bundle.started \in Nat
          /\ \A j \in DOMAIN options.rules : options.rules[j].expires \in Nat \cup {None}
      BY InputAssumption DEF Bundle
    <2>2. /\ f.severity = s.severity /\ f.skippedBy = s.skippedBy /\ f.fix = s.fix
          /\ Acceptable(s) /\ Live(options.rules, bundle.started, Fingerprint(s)) =>
               f.result = "SKIPPED" /\ f.suppression # None /\ f.suppression.original = s.result
          /\ ~(Acceptable(s) /\ Live(options.rules, bundle.started, Fingerprint(s))) => f = s
      BY <1>1, <1>2, <2>1, SuppressIs
    <2>3. QED BY <1>1, <2>2, Zenon
  <1>4. Acceptable(s) /\ alive <=> Accepted(c)
    <2>1. Acceptable(s) <=> InProfile(c) /\ Own(bundle, c) \in {"FAIL", "UNKNOWN"}
      BY <1>1 DEF Acceptable
    <2>2. QED BY <2>1, Zenon DEF Accepted
  <1>5. Accepted(c) => InProfile(c)
    BY DEF Accepted
  <1>6. CASE Accepted(c)
    BY <1>1, <1>3, <1>4, <1>5, <1>6, Zenon
  <1>7. CASE ~Accepted(c)
    BY <1>1, <1>3, <1>4, <1>7, Zenon
  <1>8. QED BY <1>6, <1>7, Zenon

------------------------------------------------------------------------------
(* The command.                                                            *)

(* The document depends on the input alone, and not on the clock.          *)
LEMMA InputDecides ==
  ASSUME bundle' = bundle, options' = options
  PROVE  /\ ScopedAll' = ScopedAll /\ Document' = Document
         /\ Unapplied' = Unapplied /\ Code' = Code
         /\ \A k \in 1..Total : Evaluated(k)' = Evaluated(k)
  <1>1. \A k : Evaluated(k)' = Evaluated(k) /\ Scoped(k)' = Scoped(k) /\ Final(k)' = Final(k)
    BY DEF Evaluated, Scoped, Final
  <1>2. Total' = Total
    BY DEF Total
  <1>3. ScopedAll' = ScopedAll /\ Document' = Document
    BY <1>1, <1>2 DEF ScopedAll, Document
  <1>4. Unapplied' = Unapplied
    BY <1>3 DEF Unapplied
  <1>5. Code' = Code
    BY <1>3 DEF Code, Gate, LacksPrivilege, Degraded, FailGate, BelowThreshold
  <1>6. QED BY <1>1, <1>3, <1>4, <1>5

(* A refusal leaves a document that was not begun, or a whole one, and an  *)
(* exit code that promises nothing.                                        *)
LEMMA RefusingKeeps ==
  ASSUME EInv, NEW code \in {1, 70}, Refuse(code), pc \in {"load", "render"}
  PROVE  EInv'
  <1>1. UNCHANGED <<bundle, options, earlier, findings>> /\ pc' = "done" /\ exit' \in {1, 70}
    BY DEF Refuse, input
  <1>2. Document' = Document /\ Unapplied' = Unapplied /\ Code' = Code
    BY <1>1, InputDecides
  <1>3. Before'
    BY <1>1, <1>2 DEF EInv, Before
  <1>4. Stage'
    BY <1>1, <1>2 DEF EInv, Stage, Completed
  <1>5. QED BY <1>1, <1>3, <1>4 DEF EInv

(* Every step of eval keeps the invariant.                                 *)
LEMMA EvalStep == EInv /\ [ENext]_evars => EInv'
  <1> SUFFICES ASSUME EInv, [ENext]_evars PROVE EInv'
    OBVIOUS
  <1>0. UNCHANGED input
    BY DEF ENext, BadUsage, LoadFails, Load, EvaluateNext, ScopeAll, SuppressAll, Score,
           RenderFails, GateOn, Tick, Again, Finished, Refuse, evars, input
  <1>1. /\ bundle' = bundle /\ options' = options
        /\ bundle' \in Bundles /\ options' \in Options
    BY <1>0 DEF input, EInv
  <1>2. /\ ScopedAll' = ScopedAll /\ Document' = Document
        /\ Unapplied' = Unapplied /\ Code' = Code
        /\ \A k \in 1..Total : Evaluated(k)' = Evaluated(k)
    BY <1>1, InputDecides
  <1>3. earlier' = earlier => Before'
    BY <1>2 DEF EInv, Before
  <1>4. CASE BadUsage
    BY <1>4, RefusingKeeps DEF BadUsage
  <1>5. CASE LoadFails
    BY <1>5, RefusingKeeps DEF LoadFails
  <1>6. CASE RenderFails
    BY <1>6, RefusingKeeps DEF RenderFails
  <1>7. CASE Load
    <2>1. pc' = "evaluate" /\ findings' = << >> /\ earlier' = earlier
      BY <1>7 DEF Load, EInv, Stage
    <2>2. Len(findings') = 0 /\ findings' = [k \in 1..Len(findings') |-> Evaluated(k)']
      BY <2>1
    <2>3. Stage'
      BY <2>1, <2>2, CatalogIs DEF Stage, Completed
    <2>4. QED BY <1>1, <1>3, <2>1, <2>3 DEF EInv
  <1>8. CASE EvaluateNext
    <2> DEFINE n == Len(findings)
    <2>1. /\ findings = [k \in 1..n |-> Evaluated(k)] /\ n \in 0..Total /\ n < Total
          /\ findings' = Append(findings, Evaluated(n + 1)) /\ earlier' = earlier
          /\ pc' = IF Len(findings') = Total THEN "scope" ELSE "evaluate"
      BY <1>8 DEF EvaluateNext, EInv, Stage, Evaluated, Total
    <2> HIDE DEF n
    <2>2. findings' = [k \in 1..(n + 1) |-> Evaluated(k)] /\ Len(findings') = n + 1
      BY <2>1, CatalogIs
    <2>3. findings' = [k \in 1..Len(findings') |-> Evaluated(k)']
      BY <1>2, <2>1, <2>2, CatalogIs
    <2>4. /\ Len(findings') \in 0..Total /\ pc' \in {"evaluate", "scope"}
          /\ pc' = "scope" => Len(findings') = Total
      BY <2>1, <2>2, CatalogIs
    <2>5. Stage'
      BY <2>3, <2>4 DEF Stage, Completed
    <2>6. QED BY <1>1, <1>3, <2>1, <2>5 DEF EInv
  <1>9. CASE ScopeAll
    <2>1. /\ findings = [k \in 1..Total |-> Evaluated(k)] /\ pc' = "suppress" /\ earlier' = earlier
          /\ findings' = ApplyProfile(options.profile, findings)
      BY <1>9 DEF ScopeAll, EInv, Stage
    <2>2. findings' = ScopedAll
      BY <2>1 DEF ApplyProfile, ScopedAll, Scoped
    <2>3. Stage'
      BY <1>2, <2>1, <2>2 DEF Stage, Completed
    <2>4. QED BY <1>1, <1>3, <2>1, <2>3 DEF EInv
  <1>10. CASE SuppressAll
    <2>1. /\ findings = ScopedAll /\ pc' = "score" /\ earlier' = earlier
          /\ findings' = Apply(options.rules, bundle.started, ScopedAll) /\ unapplied' = Unapplied
      BY <1>10 DEF SuppressAll, EInv, Stage, Moment, Unapplied
    <2>2. findings' = Document
      BY <2>1 DEF Apply, ScopedAll, Document, Final
    <2>3. Stage'
      BY <1>2, <2>1, <2>2 DEF Stage, Completed
    <2>4. QED BY <1>1, <1>3, <2>1, <2>3 DEF EInv
  <1>11. CASE Score
    <2>1. /\ findings' = Document /\ unapplied' = Unapplied /\ score' = Compute(Document)
          /\ pc' = "render" /\ earlier' = earlier
      BY <1>11 DEF Score, EInv, Stage
    <2>2. Stage'
      BY <1>2, <2>1 DEF Stage, Completed
    <2>3. QED BY <1>1, <1>3, <2>1, <2>2 DEF EInv
  <1>12. CASE GateOn
    <2>1. /\ findings' = Document /\ unapplied' = Unapplied /\ score' = Compute(Document)
          /\ pc' = "done" /\ exit' = Code /\ earlier' = earlier
      BY <1>12 DEF GateOn, EInv, Stage, Code
    <2>2. Stage'
      BY <1>2, <2>1 DEF Stage, Completed
    <2>3. QED BY <1>1, <1>3, <2>1, <2>2 DEF EInv
  <1>13. CASE Tick \/ Finished \/ UNCHANGED evars
    <2>1. UNCHANGED <<pc, findings, unapplied, score, exit, earlier>>
      BY <1>13 DEF Tick, Finished, evars
    <2>2. findings' = [k \in 1..Len(findings') |-> Evaluated(k)'] <=>
            findings = [k \in 1..Len(findings) |-> Evaluated(k)]
      BY <1>1, <2>1 DEF Evaluated
    <2>3. Stage'
      BY <1>2, <2>1, <2>2 DEF EInv, Stage, Completed
    <2>4. QED BY <1>1, <1>3, <2>1, <2>3 DEF EInv
  <1>14. CASE Again
    <2>1. /\ pc = "done" /\ pc' = "load" /\ findings' = << >>
          /\ earlier' = [findings |-> findings, unapplied |-> unapplied, exit |-> exit]
      BY <1>14 DEF Again
    <2>2. Stage'
      BY <2>1 DEF Stage, Completed
    <2>3. Before'
      BY <1>2, <2>1 DEF EInv, Stage, Before, Completed
    <2>4. QED BY <1>1, <2>2, <2>3 DEF EInv
  <1>15. QED
    BY <1>4, <1>5, <1>6, <1>7, <1>8, <1>9, <1>10, <1>11, <1>12, <1>13, <1>14 DEF ENext

(* Whenever eval is run, its document, the rules it reports and its exit   *)
(* code are the ones the bundle and the operator's files determine.        *)
THEOREM EvalInvariance == ESpec => []EInv
  <1>1. EInit => EInv
    BY DEF EInit, EInv, Stage, Before, Completed
  <1>2. QED BY <1>1, EvalStep, PTL DEF ESpec

(* A finding of the list under construction is the one the input decides,  *)
(* evaluated, scoped or final.                                             *)
LEMMA Finds ==
  ASSUME EInv, NEW k \in DOMAIN findings
  PROVE  k \in 1..Total /\ findings[k] \in {Evaluated(k), Scoped(k), Final(k)}
  <1>1. CASE findings = << >>
    BY <1>1
  <1>2. CASE pc \in {"evaluate", "scope"}
    BY <1>2, CatalogIs DEF EInv, Stage
  <1>3. CASE findings = ScopedAll
    BY <1>3 DEF ScopedAll
  <1>4. CASE findings = Document
    BY <1>4 DEF Document
  <1>5. QED
    BY <1>1, <1>2, <1>3, <1>4 DEF EInv, Stage

(* A check with a gap in its facts never passes, fails or does not apply,  *)
(* at no step of EvaluateWith, applyProfile and suppress.Apply.            *)
THEOREM IgnoranceShows == ESpec => []NoVerdictFromGaps
  <1>1. EInv => NoVerdictFromGaps
    <2> SUFFICES ASSUME EInv, NEW k \in DOMAIN findings, ~Could(bundle, CatalogOrder[k])
                 PROVE  \/ findings[k].result = "UNKNOWN" /\ findings[k].reason # None
                        \/ findings[k].result = "SKIPPED"
      BY DEF NoVerdictFromGaps
    <2>1. bundle \in Bundle /\ options \in Options
      BY InputAssumption DEF EInv
    <2>2. k \in 1..Total /\ findings[k] \in {Evaluated(k), Scoped(k), Final(k)}
      BY Finds
    <2>3. CASE findings[k] = Evaluated(k)
      BY <2>1, <2>2, <2>3, EvaluatedIs
    <2>4. CASE findings[k] = Scoped(k)
      BY <2>1, <2>2, <2>4, ScopedIs
    <2>5. CASE findings[k] = Final(k)
      BY <2>1, <2>2, <2>5, FinalIs
    <2>6. QED BY <2>2, <2>3, <2>4, <2>5
  <1>2. QED BY <1>1, EvalInvariance, PTL

(* The document of a completed eval has one finding for each check of the  *)
(* catalog, and it is the check's own verdict, or says that the profile    *)
(* left it out, or records the verdict that a live rule accepted.          *)
THEOREM NothingIsHidden == ESpec => []NothingHidden
  <1>1. EInv => NothingHidden
    <2> SUFFICES ASSUME EInv, Completed PROVE NothingHidden
      BY DEF NothingHidden
    <2>1. findings = Document /\ bundle \in Bundle /\ options \in Options
      BY InputAssumption DEF EInv, Stage
    <2>2. Len(findings) = Len(CatalogOrder) /\ DOMAIN findings = 1..Total
      BY <2>1, CatalogIs DEF Document, Total
    <2>3. ASSUME NEW k \in DOMAIN findings, NEW f, f = findings[k], NEW c, c = CatalogOrder[k]
          PROVE  /\ ~InProfile(c) <=> f.skippedBy # None
                 /\ Accepted(c)   <=> f.suppression # None
                 /\ ~InProfile(c) => f.result = "SKIPPED" /\ f.suppression = None
                 /\ Accepted(c)   => f.result = "SKIPPED" /\ f.suppression.original = Own(bundle, c)
                 /\ InProfile(c) /\ ~Accepted(c) => f.result = Own(bundle, c)
                 /\ f.fix => Own(bundle, c) = "FAIL" /\ InProfile(c)
      <3>1. k \in 1..Total /\ f = Final(k)
        BY <2>1, <2>2, <2>3 DEF Document
      <3>2. QED BY <2>1, <2>3, <3>1, FinalIs, Zenon
    <2>4. QED BY <2>2, <2>3, Zenon DEF NothingHidden
  <1>2. QED BY <1>1, EvalInvariance, PTL

(* A gap in the evidence is never reported as 0, 2 or 3, and 0 means that  *)
(* no unaccepted failure in scope reaches --fail-on.                       *)
THEOREM GapsComeFirst == ESpec => []GapsAreLoudest
  <1>1. EInv => GapsAreLoudest
    <2> SUFFICES ASSUME EInv, Completed PROVE GapsAreLoudest
      BY DEF GapsAreLoudest
    <2> DEFINE g == options.gates
    <2>1. /\ findings = Document /\ bundle \in Bundle /\ options \in Options
          /\ exit = Gate(score, findings, g) /\ DOMAIN findings = 1..Total
      BY InputAssumption DEF EInv, Stage, Code, Document
    <2>2. Errors(bundle) # {} => exit \in {4, 10}
      BY <2>1 DEF Gate, Degraded
    <2>3. exit = 0 => ~FailGate(findings, g)
      BY <2>1 DEF Gate
    <2>4. ASSUME exit = 0, g.failOn # 0, NEW k \in DOMAIN findings,
                 Own(bundle, CatalogOrder[k]) = "FAIL", InProfile(CatalogOrder[k]), ~Accepted(CatalogOrder[k])
          PROVE  findings[k].severity < g.failOn
      <3>1. findings[k].result = "FAIL" /\ findings[k].severity \in Severity
        BY <2>1, <2>4, FinalIs DEF Document
      <3>2. ~(findings[k].severity >= g.failOn)
        BY <2>3, <2>4, <3>1 DEF FailGate, AnyFailureAtOrAbove
      <3>3. g.failOn \in 0..5
        BY <2>1, InputAssumption
      <3>4. QED BY <3>1, <3>2, <3>3 DEF Severity
    <2>5. QED BY <2>2, <2>4 DEF GapsAreLoudest
  <1>2. QED BY <1>1, EvalInvariance, PTL

(* The same bundle under the same files gives the same document, the same  *)
(* report on the rules and the same exit code, however late it is asked.   *)
THEOREM AnswersDoNotAge == ESpec => []SameAnswerLater
  <1>1. EInv => SameAnswerLater
    BY DEF EInv, Stage, Before, SameAnswerLater
  <1>2. QED BY <1>1, EvalInvariance, PTL

------------------------------------------------------------------------------
(* The score.                                                              *)

(* The counts of score.Compute are of the checks in scope: an accepted risk*)
(* stays in the question and leaves the answers, so accepting costs        *)
(* coverage, and posture is never reported of nothing.                     *)
THEOREM AcceptanceCosts == ESpec => []AcceptingCostsCoverage
  <1>1. EInv => AcceptingCostsCoverage
    <2> SUFFICES ASSUME EInv, Completed PROVE AcceptingCostsCoverage
      BY DEF AcceptingCostsCoverage
    <2>1. score = Compute(Document) /\ bundle \in Bundle /\ options \in Options
      BY InputAssumption DEF EInv, Stage
    <2> DEFINE c(k) == CatalogOrder[k]
               na == Having(Document, "NOT_APPLICABLE")
               out == {k \in Having(Document, "SKIPPED") : Document[k].skippedBy # None}
               won == Having(Document, "PASS") \cup Having(Document, "FAIL")
               asked == {k \in 1..Total : InProfile(c(k)) /\ Own(bundle, c(k)) # "NOT_APPLICABLE"}
               answered == {k \in 1..Total : /\ InProfile(c(k)) /\ ~Accepted(c(k))
                                             /\ Own(bundle, c(k)) \in {"PASS", "FAIL"}}
    <2>2. DOMAIN Document = 1..Total /\ Len(Document) = Total /\ Total \in Nat
      BY CatalogIs DEF Document
    <2>3. \A k \in 1..Total : LET f == Document[k] IN
            /\ ~InProfile(c(k)) <=> f.skippedBy # None
            /\ ~InProfile(c(k)) => f.result = "SKIPPED"
            /\ Accepted(c(k)) => f.result = "SKIPPED" /\ Own(bundle, c(k)) \in {"FAIL", "UNKNOWN"}
            /\ InProfile(c(k)) /\ ~Accepted(c(k)) => f.result = Own(bundle, c(k))
      BY <2>1, FinalIs DEF Document, Accepted
    <2>4. \A k \in 1..Total : Own(bundle, c(k)) # "SKIPPED"
      BY <2>1, CatalogIs DEF Own, Bundle, Said, Result
    <2>5. na \subseteq 1..Total /\ out \subseteq 1..Total /\ na \cap out = {}
      BY <2>2 DEF Having
    <2>6. asked = (1..Total) \ (na \cup out)
      BY <2>2, <2>3, <2>4 DEF Having
    <2>7. won = answered
      BY <2>2, <2>3 DEF Having
    <2>8. answered \subseteq asked
      OBVIOUS
    <2> HIDE DEF na, out, won, asked, answered
    <2>9. Cardinality(asked) = Total - Cardinality(na) - Cardinality(out)
      <3>1. IsFiniteSet(1..Total) /\ Cardinality(1..Total) = Total
        BY <2>2, FS_Interval
      <3>2. IsFiniteSet(na) /\ IsFiniteSet(out) /\ IsFiniteSet(asked)
        BY <2>5, <2>6, <3>1, FS_Subset
      <3>3. IsFiniteSet(na \cup out) /\ Cardinality(na \cup out) = Cardinality(na) + Cardinality(out)
        BY <2>5, <3>2, DisjointCount
      <3>4. asked \cup (na \cup out) = 1..Total /\ asked \cap (na \cup out) = {}
        BY <2>5, <2>6
      <3>5. Total = Cardinality(asked) + Cardinality(na \cup out)
        BY <3>1, <3>2, <3>3, <3>4, DisjointCount
      <3>6. QED BY <3>2, <3>3, <3>5, FS_CardinalityType
    <2>10. /\ score.applicable = Cardinality(asked)
           /\ score.evaluated = Cardinality(won)
           /\ score.weighed = WeightOf(Document, won)
      BY <2>1, <2>2, <2>9 DEF Compute, Applicable, na, out, won
    <2>11. /\ IsFiniteSet(asked)
           /\ Cardinality({x \in Check : InProfile(x) /\ Own(bundle, x) # "NOT_APPLICABLE"}) = Cardinality(asked)
      BY OneFindingEach, CatalogIs DEF asked
    <2>12. /\ IsFiniteSet(answered)
           /\ Cardinality({x \in Check : /\ InProfile(x) /\ ~Accepted(x)
                                         /\ Own(bundle, x) \in {"PASS", "FAIL"}}) = Cardinality(answered)
      BY OneFindingEach, CatalogIs DEF answered
    <2>13. PostureDefined(score) => CoverageDefined(score)
      <3>1. PostureDefined(score) => won # {}
        BY <2>10, EmptySum DEF PostureDefined
      <3>2. won # {} => asked # {}
        BY <2>7, <2>8
      <3>3. asked # {} => Cardinality(asked) > 0
        BY <2>11, FS_EmptySet, FS_CardinalityType
      <3>4. QED BY <2>10, <3>1, <3>2, <3>3 DEF CoverageDefined
    <2>14. QED
      BY <2>7, <2>10, <2>11, <2>12, <2>13 DEF AcceptingCostsCoverage
  <1>2. QED BY <1>1, EvalInvariance, PTL
==============================================================================
