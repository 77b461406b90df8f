----------------------------- MODULE DiffProofs ------------------------------
(***************************************************************************)
(* Theorems about Diff, for every catalog, every two bundles and every     *)
(* suppression file.                                                       *)
(***************************************************************************)
EXTENDS Diff, EvaluationProofs

------------------------------------------------------------------------------
(* What the command has made of its input.                                 *)

Doc(b) == Apply(rules, b.started, Evaluate(b))

DInv ==
  /\ old \in Scans /\ new \in Scans /\ rules \in Files
  /\ oldF # None => oldF = Doc(old)
  /\ newF # None => oldF = Doc(old) /\ newF = Doc(new)
  /\ changes # None => changes = Compare(Range(Doc(old)), Range(Doc(new)))

(* Every step of diff works from the two documents and from nothing else.  *)
LEMMA DiffInvariance == DSpec => []DInv
  <1>1. DInit => DInv
    BY DEF DInit, DInv
  <1>2. DInv /\ [DNext]_dvars => DInv'
    <2> SUFFICES ASSUME DInv, [DNext]_dvars PROVE DInv'
      OBVIOUS
    <2>1. UNCHANGED <<old, new, rules>>
      BY DEF DNext, Aborts, EvaluateOld, EvaluateNew, CompareBoth, Compared, dvars
    <2>2. Doc(old)' = Doc(old) /\ Doc(new)' = Doc(new)
      BY <2>1 DEF Doc
    <2>3. CASE EvaluateOld
      BY <2>1, <2>2, <2>3 DEF EvaluateOld, DInv, Doc
    <2>4. CASE EvaluateNew
      BY <2>1, <2>2, <2>4 DEF EvaluateNew, DInv, Doc
    <2>5. CASE CompareBoth
      BY <2>1, <2>2, <2>5 DEF CompareBoth, DInv
    <2>6. CASE Aborts \/ Compared \/ UNCHANGED dvars
      BY <2>1, <2>2, <2>6 DEF Aborts, Compared, dvars, DInv
    <2>7. QED BY <2>3, <2>4, <2>5, <2>6 DEF DNext
  <1>3. QED BY <1>1, <1>2, PTL DEF DSpec

------------------------------------------------------------------------------
(* One check in one document.                                              *)

Entry(b, c) == Suppress(rules, b.started, EvaluateOne(b, c))

LEMMA DocHolds ==
  ASSUME NEW b
  PROVE  Range(Doc(b)) = {Entry(b, c) : c \in Check}
  BY DEF Doc, Apply, Evaluate, Entry, Range, Check

(* A document's finding keeps the check's verdict under the acceptance, and*)
(* is accepted only if the verdict is a bad one and a rule is alive.       *)
LEMMA EntryIs ==
  ASSUME rules \in Files, NEW b \in Bundle, NEW c \in Check,
         NEW f, f = Entry(b, c)
  PROVE  /\ f.check = c /\ Fingerprint(f) = OwnPrint(b, c) /\ Underlying(f) = Own(b, c)
         /\ f.suppression # None <=> Bad(b, c) /\ Live(rules, b.started, OwnPrint(b, c))
  <1> DEFINE e == EvaluateOne(b, c)
             alive == Live(rules, b.started, OwnPrint(b, c))
  <1>1. /\ DOMAIN e = Fields /\ e.check = c /\ e.result = Own(b, c)
        /\ Fingerprint(e) = OwnPrint(b, c) /\ e.suppression = None
    BY EvaluateOneIs
  <1>2. Acceptable(e) <=> Bad(b, c)
    BY <1>1 DEF Acceptable, Bad
  <1>3. b.started \in Nat /\ \A k \in DOMAIN rules : rules[k].expires \in Nat \cup {None}
    BY DiffAssumption DEF Bundle
  <1>4. f = Suppress(rules, b.started, e)
    BY DEF Entry
  <1> HIDE DEF e
  <1>5. /\ f.check = e.check /\ Fingerprint(f) = Fingerprint(e)
        /\ Acceptable(e) /\ Live(rules, b.started, Fingerprint(e)) =>
             f.result = "SKIPPED" /\ f.suppression # None /\ f.suppression.original = e.result
        /\ ~(Acceptable(e) /\ Live(rules, b.started, Fingerprint(e))) => f = e
    BY <1>1, <1>3, <1>4, SuppressIs
  <1>6. f.suppression # None <=> Bad(b, c) /\ alive
    BY <1>1, <1>2, <1>5, Zenon
  <1>7. Underlying(f) = Own(b, c)
    BY <1>1, <1>2, <1>5, <1>6, Zenon DEF Underlying
  <1>8. QED BY <1>1, <1>5, <1>6, <1>7, Zenon

------------------------------------------------------------------------------
(* The join.                                                               *)

(* What Compare reports of one check, given a document of each side.       *)
Change(F, G, c) ==
  [category |-> Classify({F[c]}, {G[c]}), old |-> {F[c]}, new |-> {G[c]}]

(* With one finding a check on each side, Compare pairs the two findings of*)
(* a check, by fingerprint or, if the subject drifted, as its leftovers.   *)
LEMMA ComparePairs ==
  ASSUME NEW F, NEW G, \A c \in Check : F[c].check = c /\ G[c].check = c
  PROVE  Compare({F[c] : c \in Check}, {G[c] : c \in Check}) =
           {Change(F, G, c) : c \in {d \in Check : Classify({F[d]}, {G[d]}) # None}}
  <1> DEFINE A == {F[c] : c \in Check}
             B == {G[c] : c \in Check}
             prints(S) == {Fingerprint(f) : f \in S}
             oldOnly == {f \in A : Fingerprint(f) \notin prints(B)}
             newOnly == {f \in B : Fingerprint(f) \notin prints(A)}
             of(S, c) == {f \in S : f.check = c}
             drifted == {c \in Check :
                           Cardinality(of(oldOnly, c)) = 1 /\ Cardinality(of(newOnly, c)) = 1}
             joined == {<<{f}, {g \in B : Fingerprint(g) = Fingerprint(f)}>> : f \in A \ oldOnly}
             paired == {<<of(oldOnly, c), of(newOnly, c)>> : c \in drifted}
             alone  == {<<{f}, {}>> : f \in {g \in oldOnly : g.check \notin drifted}}
                         \cup {<<{}, {f}>> : f \in {g \in newOnly : g.check \notin drifted}}
             same(c) == Fingerprint(F[c]) = Fingerprint(G[c])
             pair(c) == <<{F[c]}, {G[c]}>>
             pairs  == joined \cup paired \cup alone
  <1>1. Compare(A, B) = {[category |-> Classify(p[1], p[2]), old |-> p[1], new |-> p[2]] :
                           p \in {q \in pairs : Classify(q[1], q[2]) # None}}
    BY DEF Compare
  <1>2. \A c, d \in Check : Fingerprint(F[c]) = Fingerprint(G[d]) => c = d
    BY DEF Fingerprint
  <1>3. /\ \A c \in Check : F[c] \in oldOnly <=> ~same(c)
        /\ \A c \in Check : G[c] \in newOnly <=> ~same(c)
    BY <1>2
  <1>4. \A c \in Check : ~same(c) => of(oldOnly, c) = {F[c]} /\ of(newOnly, c) = {G[c]}
    BY <1>3
  <1>5. \A c \in Check : same(c) => of(oldOnly, c) = {}
    BY <1>3
  <1>6. drifted = {c \in Check : ~same(c)}
    <2>1. ASSUME NEW c \in Check, ~same(c) PROVE c \in drifted
      <3>1. Cardinality({F[c]}) = 1 /\ Cardinality({G[c]}) = 1
        BY FS_Singleton
      <3>2. QED BY <1>4, <2>1, <3>1
    <2>2. ASSUME NEW c \in Check, same(c) PROVE c \notin drifted
      <3>1. Cardinality(of(oldOnly, c)) = 0
        BY <1>5, <2>2, FS_EmptySet
      <3>2. QED BY <3>1
    <2>3. drifted \subseteq Check
      OBVIOUS
    <2> HIDE DEF drifted, same
    <2>4. QED BY <2>1, <2>2, <2>3
  <1>7. joined = {pair(c) : c \in {d \in Check : same(d)}}
    <2>1. \A c \in Check : same(c) => {g \in B : Fingerprint(g) = Fingerprint(F[c])} = {G[c]}
      BY <1>2
    <2>2. A \ oldOnly = {F[c] : c \in {d \in Check : same(d)}}
      BY <1>3
    <2>3. QED BY <2>1, <2>2
  <1>8. paired = {pair(c) : c \in {d \in Check : ~same(d)}}
    <2> HIDE DEF oldOnly, newOnly, of, same, drifted
    <2>1. QED BY <1>4, <1>6
  <1>9. alone = {}
    <2>1. \A f \in oldOnly : \E c \in Check : f = F[c]
      OBVIOUS
    <2>2. \A f \in newOnly : \E c \in Check : f = G[c]
      OBVIOUS
    <2> HIDE DEF oldOnly, newOnly, drifted, same
    <2>3. \A f \in oldOnly : f.check \in drifted
      BY <1>3, <1>6, <2>1
    <2>4. \A f \in newOnly : f.check \in drifted
      BY <1>3, <1>6, <2>2
    <2>5. QED BY <2>3, <2>4
  <1>10. pairs = {pair(c) : c \in Check}
    BY <1>7, <1>8, <1>9
  <1> DEFINE row(p) == [category |-> Classify(p[1], p[2]), old |-> p[1], new |-> p[2]]
             moved == {d \in Check : Classify({F[d]}, {G[d]}) # None}
  <1>11. \A c : pair(c)[1] = {F[c]} /\ pair(c)[2] = {G[c]}
    OBVIOUS
  <1>12. \A c : row(pair(c)) = Change(F, G, c)
    BY <1>11 DEF Change
  <1> HIDE DEF pair, pairs
  <1>13. {q \in pairs : Classify(q[1], q[2]) # None} = {pair(c) : c \in moved}
    BY <1>10, <1>11
  <1> HIDE DEF A, B, row, moved
  <1>14. Compare(A, B) = {row(p) : p \in {q \in pairs : Classify(q[1], q[2]) # None}}
    BY <1>1 DEF row
  <1>15. Compare(A, B) = {Change(F, G, c) : c \in moved}
    BY <1>12, <1>13, <1>14
  <1>16. QED BY <1>15 DEF A, B, moved

------------------------------------------------------------------------------
(* The report.                                                             *)

AcceptedIn(b, c) == Bad(b, c) /\ Live(rules, b.started, OwnPrint(b, c))

(* How diff classifies a check, said from the two bundles.                 *)
Expected(c) ==
  CASE AcceptedIn(old, c) /\ ~AcceptedIn(new, c) /\ Bad(new, c) -> "REGRESSED"
    [] ~AcceptedIn(old, c) /\ AcceptedIn(new, c) -> "NEWLY SUPPRESSED"
    [] Bad(old, c) /\ ~Bad(new, c) -> "RESOLVED"
    [] ~Bad(old, c) /\ Bad(new, c) /\ ~AcceptedIn(new, c) -> "NEW FAILURE"
    [] /\ AcceptedIn(old, c) <=> AcceptedIn(new, c)
       /\ Bad(old, c) /\ Bad(new, c) /\ Own(old, c) # Own(new, c) -> "VERDICT CHANGED"
    [] OTHER -> None

(* Classify of a check's two findings is what the bundles call for.        *)
LEMMA ClassifyIs ==
  ASSUME rules \in Files, old \in Bundle, new \in Bundle, NEW c \in Check,
         NEW f, f = Entry(old, c), NEW g, g = Entry(new, c)
  PROVE  Classify({f}, {g}) = Expected(c)
  <1>1. Underlying(f) = Own(old, c) /\ (f.suppression # None <=> AcceptedIn(old, c))
    BY EntryIs, Zenon DEF AcceptedIn
  <1>2. Underlying(g) = Own(new, c) /\ (g.suppression # None <=> AcceptedIn(new, c))
    BY EntryIs, Zenon DEF AcceptedIn
  <1>3. Suppressed({f}) <=> AcceptedIn(old, c)
    BY <1>1 DEF Suppressed
  <1>4. Suppressed({g}) <=> AcceptedIn(new, c)
    BY <1>2 DEF Suppressed
  <1>5. Failing({f}) <=> Bad(old, c)
    BY <1>1 DEF Failing, Bad
  <1>6. Failing({g}) <=> Bad(new, c)
    BY <1>2 DEF Failing, Bad
  <1>7. (\E x \in {f}, y \in {g} : Underlying(x) # Underlying(y)) <=> Own(old, c) # Own(new, c)
    BY <1>1, <1>2
  <1>8. (AcceptedIn(old, c) => Bad(old, c)) /\ (AcceptedIn(new, c) => Bad(new, c))
    BY DEF AcceptedIn
  <1>9. QED
    BY <1>3, <1>4, <1>5, <1>6, <1>7, <1>8 DEF Classify, Expected

(* The changes are one for each check that moved, with its two findings.   *)
LEMMA ChangesAre ==
  ASSUME DInv, changes # None
  PROVE  /\ old \in Bundle /\ new \in Bundle /\ rules \in Files
         /\ changes = {[category |-> Expected(c), old |-> {Entry(old, c)}, new |-> {Entry(new, c)}] :
                         c \in {d \in Check : Expected(d) # None}}
  <1> DEFINE F == [c \in Check |-> Entry(old, c)]
             G == [c \in Check |-> Entry(new, c)]
             moved == {d \in Check : Classify({F[d]}, {G[d]}) # None}
  <1>1. old \in Bundle /\ new \in Bundle /\ rules \in Files
    BY DiffAssumption DEF DInv
  <1>2. Range(Doc(old)) = {F[c] : c \in Check} /\ Range(Doc(new)) = {G[c] : c \in Check}
    BY DocHolds
  <1>3. \A c \in Check : F[c].check = c /\ G[c].check = c
    BY <1>1, EntryIs
  <1>4. \A c \in Check : Classify({F[c]}, {G[c]}) = Expected(c)
    BY <1>1, ClassifyIs
  <1>5. \A c \in Check : F[c] = Entry(old, c) /\ G[c] = Entry(new, c)
    OBVIOUS
  <1> HIDE DEF F, G
  <1>6. changes = {Change(F, G, c) : c \in moved}
    <2>1. Compare({F[c] : c \in Check}, {G[c] : c \in Check}) = {Change(F, G, c) : c \in moved}
      BY <1>3, ComparePairs, Zenon
    <2>2. changes = Compare(Range(Doc(old)), Range(Doc(new)))
      BY DEF DInv
    <2>3. QED BY <1>2, <2>1, <2>2, Zenon
  <1>7. \A c \in Check :
          Change(F, G, c) =
            [category |-> Expected(c), old |-> {Entry(old, c)}, new |-> {Entry(new, c)}]
    BY <1>4, <1>5 DEF Change
  <1>8. moved = {d \in Check : Expected(d) # None}
    BY <1>4
  <1>9. QED BY <1>1, <1>6, <1>7, <1>8

(* The changes about a check are none, or the one the bundles call for.    *)
LEMMA AboutIs ==
  ASSUME DInv, changes # None, NEW c \in Check
  PROVE  About(c) = IF Expected(c) = None THEN {}
                    ELSE {[category |-> Expected(c), old |-> {Entry(old, c)}, new |-> {Entry(new, c)}]}
  <1> DEFINE row(d) ==
        [category |-> Expected(d), old |-> {Entry(old, d)}, new |-> {Entry(new, d)}]
  <1>1. changes = {row(d) : d \in {x \in Check : Expected(x) # None}}
    BY ChangesAre, Zenon
  <1>2. \A d \in Check : Entry(old, d).check = d /\ Entry(new, d).check = d
    BY ChangesAre, EntryIs
  <1>3. \A d \in Check : row(d).old = {Entry(old, d)} /\ row(d).new = {Entry(new, d)}
    OBVIOUS
  <1> HIDE DEF row
  <1>4. \A d \in Check : (\E f \in row(d).old \cup row(d).new : f.check = c) <=> d = c
    BY <1>2, <1>3
  <1>5. About(c) = {row(d) : d \in {x \in Check : Expected(x) # None /\ x = c}}
    BY <1>1, <1>4 DEF About
  <1>6. About(c) = IF Expected(c) = None THEN {} ELSE {row(c)}
    BY <1>5
  <1>7. QED BY <1>6 DEF row

(* RESOLVED is said of exactly the checks that were failing and are not,   *)
(* whatever was accepted on either side.                                   *)
THEOREM AFixIsAFix == DSpec => []ResolvedIsFixed
  <1>1. DInv => ResolvedIsFixed
    <2> SUFFICES ASSUME DInv, changes # None, NEW c \in Check
                 PROVE  (Bad(old, c) /\ ~Bad(new, c)) <=>
                          \E ch \in About(c) : ch.category = "RESOLVED"
      BY DEF ResolvedIsFixed
    <2>1. None # "RESOLVED"
      BY DiffAssumption DEF Category
    <2>2. (\E ch \in About(c) : ch.category = "RESOLVED") <=> Expected(c) = "RESOLVED"
      <3> DEFINE row == [category |-> Expected(c), old |-> {Entry(old, c)}, new |-> {Entry(new, c)}]
      <3>1. About(c) = IF Expected(c) = None THEN {} ELSE {row}
        BY AboutIs
      <3>2. row.category = Expected(c)
        OBVIOUS
      <3> HIDE DEF row
      <3>3. CASE Expected(c) = None
        BY <2>1, <3>1, <3>3
      <3>4. CASE Expected(c) # None
        BY <3>1, <3>2, <3>4
      <3>5. QED BY <3>3, <3>4
    <2>3. Expected(c) = "RESOLVED" <=> Bad(old, c) /\ ~Bad(new, c)
      BY <2>1 DEF Expected, AcceptedIn
    <2>4. QED BY <2>2, <2>3
  <1>2. QED BY <1>1, DiffInvariance, PTL

(* A check that began to fail, stopped failing or changed between FAIL and *)
(* UNKNOWN has exactly one change, with or without a drifting subject.     *)
THEOREM EveryMoveIsReported == DSpec => []EveryMoveReported
  <1>1. DInv => EveryMoveReported
    <2> SUFFICES ASSUME DInv, changes # None, NEW c \in Check
                 PROVE  /\ Cardinality(About(c)) <= 1
                        /\ Bad(old, c) # Bad(new, c) => About(c) # {}
                        /\ Bad(old, c) /\ Bad(new, c) /\ Own(old, c) # Own(new, c) => About(c) # {}
      BY DEF EveryMoveReported
    <2>1. About(c) = {} \/ \E x : About(c) = {x}
      BY AboutIs
    <2>2. Cardinality(About(c)) <= 1
      <3>1. CASE About(c) = {}
        <4>1. Cardinality(About(c)) = 0
          BY <3>1, FS_EmptySet
        <4>2. QED BY <4>1
      <3>2. CASE \E x : About(c) = {x}
        <4>1. Cardinality(About(c)) = 1
          BY <3>2, FS_Singleton
        <4>2. QED BY <4>1
      <3>3. QED BY <2>1, <3>1, <3>2
    <2>3. None \notin Category
      BY DiffAssumption
    <2>4. Expected(c) # None => About(c) # {}
      BY AboutIs
    <2>5. Bad(old, c) /\ ~Bad(new, c) => Expected(c) \in Category
      BY DEF Expected, AcceptedIn, Category
    <2>6. ~Bad(old, c) /\ Bad(new, c) => Expected(c) \in Category
      BY DEF Expected, AcceptedIn, Category
    <2>7. Bad(old, c) /\ Bad(new, c) /\ Own(old, c) # Own(new, c) => Expected(c) \in Category
      BY DEF Expected, Category
    <2>8. Bad(old, c) # Bad(new, c) =>
            (Bad(old, c) /\ ~Bad(new, c)) \/ (~Bad(old, c) /\ Bad(new, c))
      BY DEF Bad
    <2>9. QED BY <2>2, <2>3, <2>4, <2>5, <2>6, <2>7, <2>8
  <1>2. QED BY <1>1, DiffInvariance, PTL

(* Between two scans of an unchanged host the only news is of acceptances, *)
(* and one that lapsed is called REGRESSED and never a new failure.        *)
THEOREM SameHostNoNews == DSpec => []UnchangedHost
  <1>1. DInv => UnchangedHost
    <2> SUFFICES ASSUME DInv, changes # None,
                        old.facts = new.facts, old.says = new.says, NEW ch \in changes
                 PROVE  /\ ch.category \in {"REGRESSED", "NEWLY SUPPRESSED"}
                        /\ \A f \in ch.old : ch.category = "REGRESSED" =>
                             /\ Live(rules, old.started, Fingerprint(f))
                             /\ ~Live(rules, new.started, Fingerprint(f))
      BY DEF UnchangedHost
    <2>1. PICK c \in Check :
            /\ Expected(c) # None
            /\ ch = [category |-> Expected(c), old |-> {Entry(old, c)}, new |-> {Entry(new, c)}]
      BY ChangesAre
    <2>2. Own(old, c) = Own(new, c) /\ OwnPrint(old, c) = OwnPrint(new, c)
      BY DEF Own, OwnPrint, Speaks, Could
    <2>3. Bad(old, c) <=> Bad(new, c)
      BY <2>2 DEF Bad
    <2>4. Fingerprint(Entry(old, c)) = OwnPrint(old, c)
      BY ChangesAre, EntryIs
    <2>5. Expected(c) \in {"REGRESSED", "NEWLY SUPPRESSED"}
      BY <2>1, <2>2, <2>3 DEF Expected
    <2>6. Expected(c) = "REGRESSED" =>
            Live(rules, old.started, OwnPrint(old, c)) /\ ~Live(rules, new.started, OwnPrint(old, c))
      <3>1. None # "REGRESSED"
        BY DiffAssumption DEF Category
      <3>2. Expected(c) = "REGRESSED" => AcceptedIn(old, c) /\ ~AcceptedIn(new, c) /\ Bad(new, c)
        BY <3>1 DEF Expected
      <3>3. QED BY <2>2, <3>2 DEF AcceptedIn
    <2>7. QED BY <2>1, <2>4, <2>5, <2>6
  <1>2. QED BY <1>1, DiffInvariance, PTL
==============================================================================
