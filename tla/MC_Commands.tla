---------------------------- MODULE MC_Commands ------------------------------
(***************************************************************************)
(* What runs before and after a scan: collectors registering, `eval` of    *)
(* the bundle the scan left, and `diff` of two such bundles.  The three    *)
(* share no state, so a behaviour is one of them while the others rest.    *)
(***************************************************************************)
EXTENDS Evaluation, Diff, Registry

VARIABLE command

------------------------------------------------------------------------------
(* eval: three checks over two facts; the scan started at 1.               *)

MCCatalogOrder    == <<"A-1", "A-2", "B-1">>
MCCheck    == {"A-1", "A-2", "B-1"}
MCRequires == [c \in MCCheck |-> CASE c = "A-1" -> <<"f">> [] c = "A-2" -> <<"g", "f">>
                                   [] c = "B-1" -> <<"g">>]
MCBase     == [c \in MCCheck |-> CASE c = "A-1" -> 5 [] c = "A-2" -> 4 [] c = "B-1" -> 1]

Says(r, reason, subject, severity) ==
  [result |-> r, reason |-> reason, subject |-> subject, severity |-> severity]
Passed == Says("PASS", None, "", None)
Failed == Says("FAIL", None, "x", None)
Unclear  == Says("UNKNOWN", "ambiguous_system_state", "x", None)
Dismissed   == Says("NOT_APPLICABLE", None, "", None)

\* what a check that cannot look would have said does not matter
Verdicts == {Passed, Failed, Says("panic", None, "", None)}
MCSays(facts) ==
  {[c \in MCCheck |-> CASE c = "A-1" -> a [] c = "A-2" -> b [] c = "B-1" -> z] :
     a \in IF facts["f"] = "known" THEN Verdicts \cup {Says("FAIL", None, "x", 2)} ELSE {Passed},
     b \in IF facts["f"] = "known" /\ facts["g"] = "known" THEN {Passed, Failed, Unclear} ELSE {Passed},
     z \in IF facts["g"] = "known" THEN {Passed, Failed, Dismissed} ELSE {Passed}}

MCBundles ==
  UNION {{[facts |-> facts, says |-> says, started |-> 1,
           opens |-> \E i \in {"f", "g"} : facts[i] # "absent"] : says \in MCSays(facts)} :
           facts \in [{"f", "g"} -> {"known", "opaque", "absent", "permission", "timeout"}]}

Rule(fp, justified, label, expires) ==
  [fp |-> fp, justified |-> justified, label |-> label, expires |-> expires, dated |-> TRUE]
MCFiles ==
  { << >>,
    <<Rule(<<"A-1", "x">>, TRUE, None, None)>>,
    <<Rule(<<"A-1", "">>, TRUE, None, 2), Rule(<<"A-2", "x">>, TRUE, <<"A-2", "x">>, 1)>>,
    <<Rule(<<"A-2", "">>, TRUE, None, 1), Rule(<<"B-1", "x">>, TRUE, None, 2)>>,
    <<Rule(<<"A-1", "x">>, TRUE, None, None), Rule(<<"A-1", "x">>, TRUE, None, 2)>>,
    <<Rule(<<"A-1", "x">>, FALSE, None, None)>>,
    <<[Rule(<<"A-1", "x">>, TRUE, None, None) EXCEPT !.dated = FALSE]>>,
    <<Rule(<<"A-1", "x">>, TRUE, <<"A-2", "x">>, None)>> }
MCProfiles ==
  { None,
    [id |-> "narrow", includes |-> {"A-1", "A-2"}, severity |-> [c \in {"A-2"} |-> 1]],
    [id |-> "other", includes |-> {"B-1"}, severity |-> [c \in {} |-> 1]] }
Gates(failOn, critical, high, strict, coverage, threshold) ==
  [failOn |-> failOn, failOnCritical |-> critical, failOnHigh |-> high, strict |-> strict,
   minCoverage |-> coverage, threshold |-> threshold]
MCGates ==
  { Gates(0, 0, 0, FALSE, None, None), Gates(4, 0, 0, FALSE, None, 60),
    Gates(0, 1, 1, TRUE, 60, None) }
MCOptions ==
  {[rules |-> r, profile |-> p, gates |-> g, flags |-> TRUE, profiled |-> TRUE] :
     r \in MCFiles, p \in MCProfiles, g \in MCGates}
  \cup {[rules |-> << >>, profile |-> None, gates |-> Gates(0, 0, 0, FALSE, None, None),
         flags |-> b, profiled |-> ~b] : b \in BOOLEAN}

------------------------------------------------------------------------------
(* diff: scans at 1 and 2, in either order, of hosts that two checks tell  *)
(* apart; the third one passes unless f is missing.                        *)

DiffSays(r, subject) == Says(r, None, subject, None)

DiffBundles ==
  {[facts |-> [i \in {"f", "g"} |-> IF i = "f" THEN f ELSE "known"],
    says |-> [c \in MCCheck |-> CASE c = "A-1" -> a [] c = "A-2" -> Passed [] c = "B-1" -> b],
    started |-> t, opens |-> f # "truncated"] :
      f \in {"known", "permission", "truncated"},
      a \in {DiffSays("PASS", ""), DiffSays("FAIL", ""), DiffSays("FAIL", "x"),
             DiffSays("FAIL", "y"), DiffSays("NOT_APPLICABLE", "")},
      b \in {DiffSays("PASS", ""), DiffSays("FAIL", "x")}, t \in {1, 2}}

DiffFiles ==
  { << >>, <<Rule(<<"A-1", "x">>, TRUE, None, 2)>>, <<Rule(<<"A-1", "">>, TRUE, None, None)>>,
    <<Rule(<<"A-1", "">>, TRUE, None, 2), Rule(<<"B-1", "x">>, TRUE, None, None)>>,
    <<Rule(<<"A-1", "x">>, FALSE, None, None)>> }

------------------------------------------------------------------------------

EvalRests ==
  /\ bundle = CHOOSE b \in Bundles : TRUE
  /\ options = CHOOSE o \in Options : TRUE
  /\ EInit

DiffRests ==
  /\ old = CHOOSE b \in Scans : TRUE
  /\ new = old
  /\ rules = << >>
  /\ DInit

Init ==
  \/ command = "register" /\ RInit /\ EvalRests /\ DiffRests
  \/ command = "eval" /\ EInit /\ RInit /\ DiffRests
  \/ command = "diff" /\ DInit /\ RInit /\ EvalRests

Next ==
  /\ UNCHANGED command
  /\ \/ command = "register" /\ RNext /\ UNCHANGED <<evars, dvars>>
     \/ command = "eval" /\ ENext /\ UNCHANGED <<rvars, dvars>>
     \/ command = "diff" /\ DNext /\ UNCHANGED <<rvars, evars>>

Spec == Init /\ [][Next]_<<command, rvars, evars, dvars>>
==============================================================================
