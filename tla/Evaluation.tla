----------------------------- MODULE Evaluation ------------------------------
(***************************************************************************)
(* `plumbline eval`: the operator's files are read, the bundle is          *)
(* evaluated check by check, scoped, accepted, scored, rendered and gated  *)
(* on, in that order.  The same bundle may be evaluated again at any later *)
(* time.                                                                   *)
(***************************************************************************)
EXTENDS Findings

CONSTANTS
  Bundles,   \* the bundles considered
  Options,   \* the command lines considered and the files they name: a rules file,
             \* a profile, the gates, and whether flags and profile can be read
  MaxClock   \* how far the wall clock may run

(* The operator's files, as far as they can be read.                       *)
ASSUME InputAssumption ==
  /\ Bundles \subseteq Bundle
  /\ \A o \in Options :
       /\ o.profile # None =>
            /\ o.profile.id # None
            /\ \A c \in DOMAIN o.profile.severity : o.profile.severity[c] \in Severity
       /\ \A k \in DOMAIN o.rules : o.rules[k].expires \in Nat \cup {None}
       /\ o.gates.failOn \in 0..5

VARIABLES
  bundle, options,   \* the command's input
  clock,             \* the wall clock
  pc,
  findings,
  unapplied,         \* what Apply reported of the rules that did not fire
  score,
  exit,              \* the exit code, None while the command runs
  earlier            \* document and exit code of an earlier evaluation, or None

evars == <<bundle, options, clock, pc, findings, unapplied, score, exit, earlier>>
input == <<bundle, options>>

NoScore     == [evaluated |-> 0, applicable |-> 0, passed |-> 0, weighed |-> 0]
NoUnapplied == [expired |-> {}, unmatched |-> {}]

EInit ==
  /\ bundle \in Bundles /\ options \in Options
  /\ clock = bundle.started
  /\ pc = "load"
  /\ findings = << >>
  /\ unapplied = NoUnapplied
  /\ score = NoScore
  /\ exit = None
  /\ earlier = None

------------------------------------------------------------------------------

Refuse(code) ==
  /\ pc' = "done"
  /\ exit' = code
  /\ UNCHANGED <<input, clock, findings, unapplied, score, earlier>>

(* The flags, the suppression file, the profile and the bundle, in turn; a *)
(* suppression file that does not parse counts as an internal error.       *)
BadUsage ==
  /\ pc = "load"
  /\ ~options.flags \/ (Parses(options.rules) /\ ~options.profiled)
  /\ Refuse(1)

LoadFails ==
  /\ pc = "load" /\ options.flags
  /\ ~Parses(options.rules) \/ (options.profiled /\ ~bundle.opens)
  /\ Refuse(70)

Load ==
  /\ pc = "load"
  /\ options.flags /\ Parses(options.rules) /\ options.profiled /\ bundle.opens
  /\ pc' = "evaluate"
  /\ UNCHANGED <<input, clock, findings, unapplied, score, exit, earlier>>

(* EvaluateWith, one turn of its loop.                                     *)
EvaluateNext ==
  /\ pc = "evaluate" /\ Len(findings) < Len(CatalogOrder)
  /\ findings' = Append(findings, EvaluateOne(bundle, CatalogOrder[Len(findings) + 1]))
  /\ pc' = IF Len(findings') = Len(CatalogOrder) THEN "scope" ELSE "evaluate"
  /\ UNCHANGED <<input, clock, unapplied, score, exit, earlier>>

ScopeAll ==
  /\ pc = "scope"
  /\ findings' = ApplyProfile(options.profile, findings)
  /\ pc' = "suppress"
  /\ UNCHANGED <<input, clock, unapplied, score, exit, earlier>>

\* mutant: expiry is measured against the wall clock
MomentNow == clock

(* The moment expiry is measured against.                                  *)
Moment == bundle.started

SuppressAll ==
  /\ pc = "suppress"
  /\ findings' = Apply(options.rules, Moment, findings)
  /\ unapplied' = [expired   |-> RulesExpired(options.rules, Moment, findings),
                   unmatched |-> RulesUnmatched(options.rules, Moment, findings)]
  /\ pc' = "score"
  /\ UNCHANGED <<input, clock, score, exit, earlier>>

Score ==
  /\ pc = "score"
  /\ score' = Compute(findings)
  /\ pc' = "render"
  /\ UNCHANGED <<input, clock, findings, unapplied, exit, earlier>>

(* The document cannot be opened, written or closed.                       *)
RenderFails == pc = "render" /\ Refuse(70)

AnyFailureAtOrAbove(in, failOn) ==
  failOn # 0 /\ \E k \in DOMAIN in : in[k].result = "FAIL" /\ in[k].severity >= failOn

CountSeverity(in, s) ==
  Cardinality({k \in DOMAIN in :
    in[k].result = "FAIL" /\ in[k].suppression = None /\ in[k].severity = s})

FailGate(in, g) ==
  \/ AnyFailureAtOrAbove(in, g.failOn)
  \/ g.failOnCritical > 0 /\ CountSeverity(in, 5) >= g.failOnCritical
  \/ g.failOnHigh > 0 /\ CountSeverity(in, 4) >= g.failOnHigh

Degraded(sc, g) ==
  \/ Errors(bundle) # {}
  \/ g.minCoverage # None /\ (~CoverageDefined(sc) \/ CoverageBelow(sc, g.minCoverage))

LacksPrivilege(g) == g.strict /\ \E i \in FactID : bundle.facts[i] = "permission"

BelowThreshold(sc, g) ==
  g.threshold # None /\ PostureDefined(sc) /\ PostureBelow(sc, g.threshold)

\* mutant: the host's failures are reported before the scanner's
GateFindingsFirst(sc, in, g) ==
  CASE LacksPrivilege(g) -> 10
    [] ~LacksPrivilege(g) /\ FailGate(in, g) -> 2
    [] ~LacksPrivilege(g) /\ ~FailGate(in, g) /\ Degraded(sc, g) -> 4
    [] ~LacksPrivilege(g) /\ ~FailGate(in, g) /\ ~Degraded(sc, g) /\ BelowThreshold(sc, g) -> 3
    [] OTHER -> 0

(* The lower rungs of the ladder, each named only when no rung above holds.*)
Gate(sc, in, g) ==
  CASE LacksPrivilege(g) -> 10
    [] ~LacksPrivilege(g) /\ Degraded(sc, g) -> 4
    [] ~LacksPrivilege(g) /\ ~Degraded(sc, g) /\ FailGate(in, g) -> 2
    [] ~LacksPrivilege(g) /\ ~Degraded(sc, g) /\ ~FailGate(in, g) /\ BelowThreshold(sc, g) -> 3
    [] OTHER -> 0

GateOn ==
  /\ pc = "render"
  /\ exit' = Gate(score, findings, options.gates)
  /\ pc' = "done"
  /\ UNCHANGED <<input, clock, findings, unapplied, score, earlier>>

Tick ==
  /\ clock < MaxClock
  /\ clock' = clock + 1
  /\ UNCHANGED <<input, pc, findings, unapplied, score, exit, earlier>>

(* The command is run again on the same bundle with the same files.        *)
Again ==
  /\ pc = "done" /\ earlier = None
  /\ earlier' = [findings |-> findings, unapplied |-> unapplied, exit |-> exit]
  /\ pc' = "load"
  /\ findings' = << >> /\ unapplied' = NoUnapplied /\ score' = NoScore /\ exit' = None
  /\ UNCHANGED <<input, clock>>

Finished == pc = "done" /\ earlier # None /\ UNCHANGED evars

ENext ==
  \/ BadUsage \/ LoadFails \/ Load \/ EvaluateNext \/ ScopeAll \/ SuppressAll
  \/ Score \/ RenderFails \/ GateOn \/ Tick \/ Again \/ Finished

ESpec == EInit /\ [][ENext]_evars

------------------------------------------------------------------------------
(* What a reader of the document may rely on, said from the input alone.   *)

InProfile(c) == options.profile = None \/ c \in options.profile.includes

Accepted(c) ==
  /\ InProfile(c) /\ Own(bundle, c) \in {"FAIL", "UNKNOWN"}
  /\ Live(options.rules, bundle.started, OwnPrint(bundle, c))

(* The document and the exit code are those of a completed evaluation.     *)
Completed == pc = "done" /\ exit \notin {1, 70}

(* Ignorance stays visible (fact.ErrorKind: "instead of becoming a false   *)
(* PASS"): a check with a gap in its facts is UNKNOWN with a reason from   *)
(* the moment it is evaluated, and SKIPPED if it is out of scope or        *)
(* accepted; it never passes, fails or does not apply.                     *)
NoVerdictFromGaps ==
  \A k \in DOMAIN findings : ~Could(bundle, CatalogOrder[k]) =>
    \/ findings[k].result = "UNKNOWN" /\ findings[k].reason # None
    \/ findings[k].result = "SKIPPED"

(* Nothing is hidden (suppress: "the difference between we accepted this   *)
(* and we never looked"): the finding is the check's own verdict, or says  *)
(* that the profile left it out, or records the verdict it would have had  *)
(* under a rule alive at the start of the scan; never two of the three.    *)
NothingHidden ==
  Completed =>
    /\ Len(findings) = Len(CatalogOrder)
    /\ \A k \in DOMAIN findings :
         LET f == findings[k]  c == CatalogOrder[k]
         IN  /\ ~InProfile(c) <=> f.skippedBy # None
             /\ Accepted(c)   <=> f.suppression # None
             /\ ~InProfile(c) => f.result = "SKIPPED" /\ f.suppression = None
             /\ Accepted(c)   => f.result = "SKIPPED" /\ f.suppression.original = Own(bundle, c)
             /\ InProfile(c) /\ ~Accepted(c) => f.result = Own(bundle, c)
             /\ f.fix => Own(bundle, c) = "FAIL" /\ InProfile(c)

(* Accepting a risk takes it out of posture and never out of the question: *)
(* what applies is what the profile includes less what does not apply, so  *)
(* a suppression reduces coverage, and posture is never without coverage.  *)
AcceptingCostsCoverage ==
  Completed =>
    /\ score.applicable = Cardinality({c \in Check :
                            InProfile(c) /\ Own(bundle, c) # "NOT_APPLICABLE"})
    /\ score.evaluated  = Cardinality({c \in Check :
                            InProfile(c) /\ ~Accepted(c) /\ Own(bundle, c) \in {"PASS", "FAIL"}})
    /\ PostureDefined(score) => CoverageDefined(score)

(* "the scanner could not see your host has to be louder than your host is *)
(* misconfigured" (cli.ExitCode): a gap is never reported as 0, 2 or 3, and*)
(* 0 means that no failure in scope at or above --fail-on is unaccepted.   *)
GapsAreLoudest ==
  Completed =>
    /\ Errors(bundle) # {} => exit \in {4, 10}
    /\ exit = 0 /\ options.gates.failOn # 0 =>
         \A k \in DOMAIN findings :
           LET c == CatalogOrder[k]
           IN  Own(bundle, c) = "FAIL" /\ InProfile(c) /\ ~Accepted(c) =>
                 findings[k].severity < options.gates.failOn

(* "the same bundle, the same catalog and the same suppression file produce*)
(* the same findings today, next week and in three years" (suppress.Apply).*)
SameAnswerLater ==
  Completed /\ earlier # None /\ earlier.exit \notin {1, 70} =>
    /\ findings = earlier.findings
    /\ unapplied = earlier.unapplied
    /\ exit = earlier.exit
==============================================================================
