--------------------------- MODULE RegistryProofs ----------------------------
(***************************************************************************)
(* Theorems about Registry, for every set of IDs, every order in which     *)
(* collectors register and every list of dependencies they name.           *)
(***************************************************************************)
EXTENDS Registry, FiniteSetTheorems, FunctionTheorems, WellFoundedInduction, TLAPS

------------------------------------------------------------------------------
(* The inductive invariant.                                                *)

Known == DOMAIN byID

Closed == {i \in Known : state[i] = "closed"}

(* Finitely many collectors are registered, each with a list.              *)
Shape ==
  /\ phase \in {"idle", "searching", "planning"}
  /\ Known \subseteq ID /\ IsFiniteSet(Known)
  /\ \A id \in Known : byID[id] \in Seq(ID \cup Ghost)

(* The search: the open collectors are those of the path, each a           *)
(* dependency of the one before it; a closed one depends on closed ones    *)
(* only, and no closed ones wait for one another.  Without the candidate   *)
(* the registry is as sound as it was.                                     *)
OnPath ==
  /\ state \in [Known -> {"unvisited", "open", "closed"}]
  /\ path \in Seq(Known)
  /\ \A id \in Known : state[id] = "open" <=> \E i \in 1..Len(path) : path[i] = id
  /\ \A i, j \in 1..Len(path) : path[i] = path[j] => i = j
  /\ \A i \in 1..Len(path) - 1 : path[i + 1] \in KnownDeps(path[i])

Searching ==
  phase = "searching" =>
    /\ OnPath
    /\ \A id \in Closed : KnownDeps(id) \subseteq Closed
    /\ \A S \in SUBSET Closed : ~Deadlocked(S)
    /\ candidate[1] \in Known /\ byID[candidate[1]] = candidate[2]
    /\ cycle = << >>
    /\ \A S \in SUBSET (Known \ {candidate[1]}) : ~Deadlocked(S)

(* The first n members of the plan.                                        *)
Prefix(n) == {out[m] : m \in 1..n}

(* x comes after the first n members of the plan, and could come next.     *)
Free(n, x) == x \notin Prefix(n) /\ KnownDeps(x) \subseteq Prefix(n)

(* The plan: what is ready is what could come next, an in-degree is the    *)
(* number of dependencies still to be planned, and every member was the    *)
(* least that could come at its place.                                     *)
Planning ==
  phase = "planning" =>
    /\ out \in Seq(Known)
    /\ ready = {x \in Known : Free(Len(out), x)}
    /\ indegree = [x \in Known |-> Cardinality(KnownDeps(x) \ Prefix(Len(out)))]
    /\ \A n \in 1..Len(out) :
         Free(n - 1, out[n]) /\ \A x \in Known : Free(n - 1, x) => out[n] <= x

RInv == Shape /\ NoDeadlock /\ ReportedCycleReal /\ Searching /\ Planning

------------------------------------------------------------------------------
(* The first of a sorted list is its least member.                         *)
LEMMA Least ==
  ASSUME NEW S \in SUBSET Nat, S # {}
  PROVE  Min(S) \in S /\ \A y \in S : Min(S) <= y
  <1>1. PICK x \in S : \A y \in S : ~(<<y, x>> \in OpToRel(<, Nat))
    BY NatLessThanWellFounded, WFMin
  <1>2. \A y \in S : ~(y < x)
    BY <1>1 DEF OpToRel
  <1>3. \A y \in S : x <= y
    BY <1>2
  <1>4. QED BY <1>3 DEF Min

(* A collector is one of its known dependencies only if it is registered.  *)
LEMMA KnownAreRegistered ==
  ASSUME Shape, NEW id \in Known
  PROVE  KnownDeps(id) \subseteq Known /\ IsFiniteSet(KnownDeps(id)) /\ Known \subseteq Nat
  <1>1. KnownDeps(id) \subseteq Known
    BY DEF KnownDeps, Known
  <1>2. QED BY <1>1, FS_Subset, IDAssumption DEF Shape

(* The graph is what byID says.                                            *)
LEMMA SameGraph ==
  ASSUME UNCHANGED byID
  PROVE  /\ Known' = Known
         /\ \A id : KnownDeps(id)' = KnownDeps(id)
         /\ \A S : Deadlocked(S)' <=> Deadlocked(S)
  BY DEF Known, KnownDeps, Deadlocked

------------------------------------------------------------------------------
(* Register.                                                               *)

(* The collector that is added is the only new one to account for.         *)
LEMMA RegisterKeeps ==
  ASSUME RInv, NEW id \in ID, NEW list \in Lists(ID \cup Ghost), Register(id, list)
  PROVE  RInv'
  <1>1. list \in Seq(ID \cup Ghost)
    BY IDAssumption DEF Lists
  <1>2. /\ Known' = Known \cup {id} /\ id \notin Known
        /\ byID'[id] = list /\ \A i \in Known : byID'[i] = byID[i]
        /\ phase = "idle" /\ phase' = "searching" /\ cycle' = << >> /\ candidate' = <<id, list>>
        /\ state' = [i \in Known' |-> "unvisited"] /\ path' = << >>
    BY DEF Register, Known
  <1>3. Shape'
    <2>1. IsFiniteSet(Known)
      BY DEF RInv, Shape
    <2>2. IsFiniteSet(Known')
      BY <1>2, <2>1, FS_AddElement
    <2>3. QED BY <1>1, <1>2, <2>2 DEF RInv, Shape
  <1>4. OnPath'
    BY <1>2 DEF OnPath
  <1>5. Closed' = {}
    BY <1>2 DEF Closed
  <1>6. \A S \in SUBSET Known : ~Deadlocked(S)'
    BY <1>2 DEF RInv, NoDeadlock, Deadlocked, Known
  <1>7. Searching'
    <2>1. ~Deadlocked({})'
      BY DEF Deadlocked
    <2>2. \A S \in SUBSET Closed' : ~Deadlocked(S)'
      BY <1>5, <2>1
    <2>3. \A S \in SUBSET (Known' \ {candidate'[1]}) : ~Deadlocked(S)'
      BY <1>2, <1>6
    <2>4. QED BY <1>2, <1>4, <1>5, <2>2, <2>3 DEF Searching
  <1>8. QED BY <1>2, <1>3, <1>7 DEF RInv, NoDeadlock, ReportedCycleReal, Planning

------------------------------------------------------------------------------
(* findCycle.                                                              *)

(* What the search looks at next is registered, and a dependency of the    *)
(* collector it is at.                                                     *)
LEMMA NextIsKnown ==
  ASSUME RInv, phase = "searching", Unclosed # {}
  PROVE  /\ Min(Unclosed) \in Known
         /\ path # << >> => Min(Unclosed) \in KnownDeps(Last(path))
  <1>1. path # << >> => Last(path) \in Known
    BY DEF RInv, Searching, OnPath, Last
  <1>2. Unclosed \subseteq Known /\ Known \subseteq Nat
    BY <1>1, KnownAreRegistered, IDAssumption DEF RInv, Shape, Unclosed, Known
  <1>3. Min(Unclosed) \in Unclosed
    BY <1>2, Least
  <1>4. QED BY <1>2, <1>3 DEF Unclosed

(* A visit puts an unvisited collector at the end of the path.             *)
LEMMA VisitKeeps ==
  ASSUME RInv, Visit
  PROVE  RInv'
  <1> DEFINE d == Min(Unclosed)
  <1>1. /\ d \in Known /\ state[d] = "unvisited"
        /\ path # << >> => d \in KnownDeps(Last(path))
        /\ state' = [state EXCEPT ![d] = "open"] /\ path' = Append(path, d)
        /\ phase = "searching" /\ UNCHANGED <<byID, phase, candidate, cycle>>
    BY NextIsKnown DEF Visit
  <1> HIDE DEF d
  <1>2. OnPath
    BY <1>1 DEF RInv, Searching
  <1>3. OnPath'
    <2>1. /\ path' \in Seq(Known) /\ Len(path') = Len(path) + 1 /\ path'[Len(path) + 1] = d
          /\ \A i \in 1..Len(path) : path'[i] = path[i] /\ path[i] \in Known /\ path[i] # d
          /\ Len(path) \in Nat
      BY <1>1, <1>2 DEF OnPath
    <2>2. state' \in [Known -> {"unvisited", "open", "closed"}]
      BY <1>1, <1>2 DEF OnPath
    <2>3. \A id \in Known : state'[id] = "open" <=> \E i \in 1..Len(path') : path'[i] = id
      <3> TAKE id \in Known
      <3>1. CASE id = d
        BY <1>1, <1>2, <2>1, <3>1 DEF OnPath
      <3>2. CASE id # d
        <4>1. state'[id] = state[id]
          BY <1>1, <1>2, <3>2 DEF OnPath
        <4>2. (\E i \in 1..Len(path') : path'[i] = id) <=> \E i \in 1..Len(path) : path[i] = id
          BY <2>1, <3>2
        <4>3. QED BY <1>2, <4>1, <4>2 DEF OnPath
      <3>3. QED BY <3>1, <3>2
    <2>4. \A i, j \in 1..Len(path') : path'[i] = path'[j] => i = j
      <3> TAKE i, j \in 1..Len(path')
      <3>1. CASE i \in 1..Len(path) /\ j \in 1..Len(path)
        BY <1>2, <2>1, <3>1 DEF OnPath
      <3>2. CASE i = Len(path) + 1 \/ j = Len(path) + 1
        BY <2>1, <3>2
      <3>3. QED BY <2>1, <3>1, <3>2
    <2>5. \A i \in 1..Len(path') - 1 : path'[i + 1] \in KnownDeps(path'[i])
      <3> TAKE i \in 1..Len(path') - 1
      <3>1. CASE i \in 1..Len(path) - 1
        BY <1>2, <2>1, <3>1 DEF OnPath
      <3>2. CASE i = Len(path)
        BY <1>1, <1>2, <2>1, <3>2 DEF OnPath, Last
      <3>3. QED BY <2>1, <3>1, <3>2
    <2>6. QED BY <1>1, <2>1, <2>2, <2>3, <2>4, <2>5, SameGraph DEF OnPath
  <1>4. Closed' = Closed
    BY <1>1, <1>2 DEF Closed, OnPath, Known
  <1>5. Searching'
    BY <1>1, <1>3, <1>4, SameGraph DEF RInv, Searching
  <1>6. Shape' /\ ReportedCycleReal'
    BY <1>1 DEF RInv, Shape, ReportedCycleReal, Known
  <1>7. QED BY <1>1, <1>5, <1>6 DEF RInv, NoDeadlock, Planning

(* A collector is closed when all it depends on is, and so it adds no set  *)
(* that waits for itself.                                                  *)
LEMMA LeaveKeeps ==
  ASSUME RInv, Leave
  PROVE  RInv'
  <1> DEFINE top == Last(path)
  <1>1. /\ phase = "searching" /\ UNCHANGED <<byID, phase, candidate, cycle>>
        /\ path # << >> /\ Unclosed = {}
        /\ state' = [state EXCEPT ![top] = "closed"] /\ path' = SubSeq(path, 1, Len(path) - 1)
    BY DEF Leave
  <1>2. OnPath
    BY <1>1 DEF RInv, Searching
  <1>3. top \in Known /\ state[top] = "open" /\ Len(path) \in Nat \ {0} /\ top = path[Len(path)]
    BY <1>1, <1>2 DEF OnPath, Last
  <1> HIDE DEF top
  <1>4. KnownDeps(top) \subseteq Closed
    BY <1>1, <1>3, KnownAreRegistered DEF RInv, Unclosed, Closed, top
  <1>5. Closed' = Closed \cup {top}
    BY <1>1, <1>2, <1>3 DEF Closed, OnPath, Known
  <1>6. OnPath'
    <2>1. /\ path' \in Seq(Known) /\ Len(path') = Len(path) - 1
          /\ \A i \in 1..Len(path) - 1 : path'[i] = path[i] /\ path[i] \in Known /\ path[i] # top
      <3>1. path \in Seq(Known) /\ \A i, j \in 1..Len(path) : path[i] = path[j] => i = j
        BY <1>2 DEF OnPath
      <3>2. \A i \in 1..Len(path) - 1 : path[i] \in Known /\ path[i] # top
        BY <1>3, <3>1
      <3>3. path' = [i \in 1..Len(path) - 1 |-> path[i]]
        BY <1>1, <1>3, <3>1
      <3>4. QED BY <1>3, <3>2, <3>3
    <2>2. state' \in [Known -> {"unvisited", "open", "closed"}]
      BY <1>1, <1>2 DEF OnPath
    <2>3. \A id \in Known : state'[id] = "open" <=> \E i \in 1..Len(path') : path'[i] = id
      <3> TAKE id \in Known
      <3>1. CASE id = top
        BY <1>1, <1>2, <1>3, <2>1, <3>1 DEF OnPath
      <3>2. CASE id # top
        <4>1. state'[id] = state[id]
          BY <1>1, <1>2, <3>2 DEF OnPath
        <4>2. (\E i \in 1..Len(path') : path'[i] = id) <=> \E i \in 1..Len(path) : path[i] = id
          BY <1>3, <2>1, <3>2
        <4>3. QED BY <1>2, <4>1, <4>2 DEF OnPath
      <3>3. QED BY <3>1, <3>2
    <2>4. \A i, j \in 1..Len(path') : path'[i] = path'[j] => i = j
      BY <1>2, <1>3, <2>1 DEF OnPath
    <2>5. \A i \in 1..Len(path') - 1 : path'[i + 1] \in KnownDeps(path'[i])
      <3> TAKE i \in 1..Len(path') - 1
      <3>1. path'[i] = path[i] /\ path'[i + 1] = path[i + 1] /\ i \in 1..Len(path) - 1
        BY <1>3, <2>1
      <3>2. QED BY <1>2, <3>1 DEF OnPath
    <2>6. QED BY <1>1, <2>1, <2>2, <2>3, <2>4, <2>5, SameGraph DEF OnPath
  <1>7. \A id \in Closed' : KnownDeps(id) \subseteq Closed
    BY <1>1, <1>4, <1>5 DEF RInv, Searching
  <1>8. ASSUME NEW S \in SUBSET Closed', Deadlocked(S)
        PROVE  FALSE
    <2>1. top \notin Closed /\ Closed' \subseteq Known
      BY <1>3, <1>5 DEF Closed
    <2>2. \A id \in S : Range(byID[id]) \cap (S \ {top}) # {}
      <3> SUFFICES ASSUME NEW id \in S PROVE Range(byID[id]) \cap (S \ {top}) # {}
        OBVIOUS
      <3>1. PICK e \in S : e \in Range(byID[id])
        BY <1>8 DEF Deadlocked
      <3>2. e \in KnownDeps(id)
        BY <2>1, <3>1 DEF KnownDeps, Known
      <3>3. QED BY <1>7, <2>1, <3>1, <3>2
    <2>3. S \ {top} # {}
      BY <1>8, <2>2 DEF Deadlocked
    <2>4. Deadlocked(S \ {top}) /\ S \ {top} \in SUBSET Closed
      BY <1>5, <2>2, <2>3 DEF Deadlocked
    <2>5. QED BY <1>1, <2>4 DEF RInv, Searching
  <1>9. Searching'
    BY <1>1, <1>5, <1>6, <1>7, <1>8, SameGraph DEF RInv, Searching
  <1>10. Shape' /\ ReportedCycleReal'
    BY <1>1 DEF RInv, Shape, ReportedCycleReal, Known
  <1>11. QED BY <1>1, <1>9, <1>10 DEF RInv, NoDeadlock, Planning

(* The path from the open collector that was met again to the one that     *)
(* depends on it is a cycle; without the candidate none is left.           *)
LEMMA FoundCycleKeeps ==
  ASSUME RInv, FoundCycle
  PROVE  RInv'
  <1> DEFINE d == Min(Unclosed)
             k == Min({i \in 1..Len(path) : path[i] = d})
  <1>1. /\ phase = "searching" /\ phase' = "idle" /\ candidate' = candidate
        /\ state[d] = "open" /\ d \in Known
        /\ path # << >> => d \in KnownDeps(Last(path))
        /\ cycle' = Append(SubSeq(path, k, Len(path)), d)
        /\ byID' = [i \in Known \ {candidate[1]} |-> byID[i]]
    BY NextIsKnown DEF FoundCycle, PathFrom, Known
  <1>2. OnPath /\ candidate[1] \in Known /\ byID[candidate[1]] = candidate[2]
    BY <1>1 DEF RInv, Searching
  <1> HIDE DEF d
  <1>3. /\ k \in 1..Len(path) /\ path[k] = d /\ Len(path) \in Nat
        /\ path \in Seq(Known)
    <2>1. \E i \in 1..Len(path) : path[i] = d
      BY <1>1, <1>2 DEF OnPath
    <2>2. {i \in 1..Len(path) : path[i] = d} \in SUBSET Nat /\ Len(path) \in Nat /\ path \in Seq(Known)
      BY <1>2 DEF OnPath
    <2>3. k \in {i \in 1..Len(path) : path[i] = d}
      BY <2>1, <2>2, Least
    <2>4. QED BY <2>2, <2>3
  <1> HIDE DEF k
  <1>4. d \in KnownDeps(path[Len(path)])
    BY <1>1, <1>3 DEF Last
  <1> DEFINE tail == SubSeq(path, k, Len(path))
  <1>n. PICK n \in Nat \ {0} : n = Len(path) - k + 1
    BY <1>3
  <1>5. /\ tail \in Seq(Known) /\ Len(tail) = n
        /\ \A i \in 1..n : tail[i] = path[k + i - 1]
    BY <1>3, <1>n
  <1> HIDE DEF tail
  <1>6. /\ Len(cycle') = n + 1 /\ cycle'[n + 1] = d
        /\ \A i \in 1..n : cycle'[i] = path[k + i - 1]
    BY <1>1, <1>5 DEF tail
  <1>7. \A i \in 1..n : cycle'[i] \in Known /\ cycle'[i + 1] \in KnownDeps(cycle'[i])
    <2> TAKE i \in 1..n
    <2>1. cycle'[i] = path[k + i - 1] /\ k + i - 1 \in 1..Len(path)
      BY <1>3, <1>n, <1>6
    <2>2. CASE i = n
      BY <1>3, <1>4, <1>n, <1>6, <2>1, <2>2
    <2>3. CASE i # n
      <3>0. k \in Nat \ {0} /\ Len(path) \in Nat /\ n \in Nat /\ i \in 1..n - 1
        BY <1>3, <2>3
      <3>1. i + 1 \in 1..n /\ k + i - 1 \in 1..Len(path) - 1 /\ k + (i + 1) - 1 = (k + i - 1) + 1
        BY <3>0, <1>n
      <3>2. cycle'[i + 1] = path[(k + i - 1) + 1]
        BY <1>6, <3>1
      <3>3. path[(k + i - 1) + 1] \in KnownDeps(path[k + i - 1])
        BY <1>2, <3>1 DEF OnPath
      <3>4. QED BY <1>3, <2>1, <3>2, <3>3
    <2>4. QED BY <2>2, <2>3
  <1>8. ReportedCycleReal'
    <2>1. Len(cycle') > 1 /\ cycle'[1] = cycle'[Len(cycle')]
      BY <1>3, <1>6
    <2>2. Known' \cup {candidate'[1]} = Known
      BY <1>1, <1>2 DEF Known
    <2>3. \A id \in Known : (IF id = candidate'[1] THEN candidate'[2] ELSE byID'[id]) = byID[id]
      BY <1>1, <1>2
    <2>4. QED BY <1>6, <1>7, <2>1, <2>2, <2>3 DEF ReportedCycleReal, KnownDeps, Known
  <1>9. Known' = Known \ {candidate[1]} /\ \A id \in Known' : byID'[id] = byID[id]
    BY <1>1 DEF Known
  <1>10. NoDeadlock'
    BY <1>1, <1>9 DEF RInv, Searching, NoDeadlock, Deadlocked, Known
  <1>11. Shape'
    <2>1. IsFiniteSet(Known')
      BY <1>9, FS_RemoveElement DEF RInv, Shape
    <2>2. QED BY <1>1, <1>9, <2>1 DEF RInv, Shape
  <1>12. QED BY <1>1, <1>8, <1>10, <1>11 DEF RInv, Searching, Planning

(* A search that ends without a cycle has closed everything.               *)
LEMMA FoundNoneKeeps ==
  ASSUME RInv, FoundNone
  PROVE  RInv'
  <1>1. /\ phase = "searching" /\ phase' = "idle" /\ UNCHANGED <<byID, candidate, cycle>>
        /\ Closed = Known
    BY DEF FoundNone, Unclosed, Closed, Known
  <1>2. NoDeadlock'
    BY <1>1, SameGraph DEF RInv, Searching, NoDeadlock, Known
  <1>3. Shape' /\ ReportedCycleReal'
    BY <1>1 DEF RInv, Shape, ReportedCycleReal, Known
  <1>4. QED BY <1>1, <1>2, <1>3 DEF RInv, Searching, Planning

------------------------------------------------------------------------------
(* Order.                                                                  *)

(* At the start nothing is planned, and what has no known dependency could *)
(* come next.                                                              *)
LEMMA OrderKeeps ==
  ASSUME RInv, Order
  PROVE  RInv'
  <1>1. /\ phase = "idle" /\ phase' = "planning" /\ UNCHANGED <<byID, candidate, cycle>>
        /\ out' = << >> /\ indegree' = [x \in Known |-> Cardinality(KnownDeps(x))]
        /\ ready' = {x \in Known : Cardinality(KnownDeps(x)) = 0}
    BY DEF Order, Indegree, Known
  <1>2. Prefix(0)' = {} /\ Len(out') = 0 /\ out' \in Seq(Known)
    BY <1>1 DEF Prefix
  <1>3. \A x \in Known : Cardinality(KnownDeps(x)) = 0 <=> KnownDeps(x) = {}
    BY KnownAreRegistered, FS_EmptySet DEF RInv
  <1>4. \A x : Free(0, x)' <=> KnownDeps(x) = {}
    BY <1>1, <1>2, SameGraph DEF Free
  <1>5. ready' = {x \in Known : Free(0, x)'}
    BY <1>1, <1>3, <1>4
  <1>6. indegree' = [x \in Known |-> Cardinality(KnownDeps(x) \ {})]
    <2>1. \A x : KnownDeps(x) \ {} = KnownDeps(x)
      OBVIOUS
    <2>2. QED BY <1>1, <2>1
  <1>7. Planning'
    BY <1>1, <1>2, <1>5, <1>6, SameGraph DEF Planning
  <1>8. Shape' /\ ReportedCycleReal' /\ NoDeadlock'
    BY <1>1, SameGraph DEF RInv, Shape, ReportedCycleReal, NoDeadlock, Known
  <1>9. QED BY <1>1, <1>7, <1>8 DEF RInv, Searching

(* Planning the least collector that could come next frees the ones whose  *)
(* last unplanned dependency it was.                                       *)
LEMMA PlanKeeps ==
  ASSUME RInv, Plan
  PROVE  RInv'
  <1>0. PICK p, n : p = Min(ready) /\ n = Len(out)
    OBVIOUS
  <1>1. /\ phase = "planning" /\ UNCHANGED <<byID, phase, candidate, cycle>> /\ ready # {}
        /\ out' = Append(out, p)
        /\ indegree' = [x \in Known |-> IF p \in KnownDeps(x) THEN indegree[x] - 1 ELSE indegree[x]]
        /\ ready' = (ready \ {p}) \cup {x \in Known : p \in KnownDeps(x) /\ indegree'[x] = 0}
    BY <1>0 DEF Plan, Dependents, Known
  <1>2. /\ out \in Seq(Known) /\ n \in Nat
        /\ ready = {x \in Known : Free(n, x)}
        /\ indegree = [x \in Known |-> Cardinality(KnownDeps(x) \ Prefix(n))]
        /\ \A m \in 1..n : Free(m - 1, out[m]) /\ \A x \in Known : Free(m - 1, x) => out[m] <= x
    BY <1>0, <1>1 DEF RInv, Planning
  <1>3. p \in Known /\ Free(n, p) /\ \A x \in Known : Free(n, x) => p <= x
    <2>1. ready \in SUBSET Nat
      BY <1>2, IDAssumption DEF RInv, Shape
    <2>2. QED BY <1>0, <1>1, <1>2, <2>1, Least
  <1>4. /\ out' \in Seq(Known) /\ Len(out') = n + 1 /\ out'[n + 1] = p
        /\ \A m \in 1..n : out'[m] = out[m]
    BY <1>0, <1>1, <1>2, <1>3
  <1>5. Prefix(n + 1)' = Prefix(n) \cup {p} /\ \A m \in 0..n : Prefix(m)' = Prefix(m)
    <2>1. \A m \in 0..n : Prefix(m)' = Prefix(m)
      <3> TAKE m \in 0..n
      <3>1. \A l \in 1..m : out'[l] = out[l]
        BY <1>2, <1>4
      <3>2. QED BY <3>1 DEF Prefix
    <2>2. Prefix(n + 1)' = Prefix(n)' \cup {p}
      <3>1. 1..n + 1 = 1..n \cup {n + 1}
        BY <1>2
      <3>2. QED BY <1>4, <3>1 DEF Prefix
    <2>3. QED BY <1>2, <2>1, <2>2
  <1>6. \A m \in 0..n, x \in Known : Free(m, x)' <=> Free(m, x)
    BY <1>1, <1>5, SameGraph DEF Free
  <1>7. \A x \in Known : Free(n + 1, x)' <=>
                           x \notin Prefix(n) \cup {p} /\ KnownDeps(x) \subseteq Prefix(n) \cup {p}
    BY <1>1, <1>5, SameGraph DEF Free
  <1>8. \A x \in Known : /\ IsFiniteSet(KnownDeps(x) \ Prefix(n))
                         /\ Cardinality(KnownDeps(x) \ Prefix(n)) \in Nat
    BY KnownAreRegistered, FS_Subset, FS_CardinalityType DEF RInv
  <1>9. ASSUME NEW x \in Known
        PROVE  /\ indegree'[x] = Cardinality(KnownDeps(x) \ (Prefix(n) \cup {p}))
               /\ indegree'[x] = 0 <=> KnownDeps(x) \subseteq Prefix(n) \cup {p}
    <2> DEFINE left == KnownDeps(x) \ Prefix(n)
    <2>1. IsFiniteSet(left) /\ Cardinality(left) \in Nat /\ indegree[x] = Cardinality(left)
      BY <1>2, <1>8
    <2>2. /\ IsFiniteSet(left \ {p})
          /\ Cardinality(left \ {p}) = IF p \in left THEN Cardinality(left) - 1 ELSE Cardinality(left)
      BY <2>1, FS_RemoveElement
    <2>3. p \in left <=> p \in KnownDeps(x)
      BY <1>3 DEF Free
    <2>4. left \ {p} = KnownDeps(x) \ (Prefix(n) \cup {p})
      OBVIOUS
    <2> HIDE DEF left
    <2>5. indegree'[x] = Cardinality(left \ {p})
      BY <1>1, <2>1, <2>2, <2>3
    <2>6. indegree'[x] = 0 <=> left \ {p} = {}
      BY <2>2, <2>5, FS_EmptySet
    <2>7. QED BY <2>4, <2>5, <2>6
  <1>10. ASSUME NEW x \in Known, p \in KnownDeps(x)
         PROVE  x \notin Prefix(n) \cup {p}
    <2>1. p \notin Prefix(n) /\ KnownDeps(p) \subseteq Prefix(n)
      BY <1>3 DEF Free
    <2>2. CASE x \in Prefix(n)
      <3>1. PICK m \in 1..n : x = out[m]
        BY <2>2 DEF Prefix
      <3>2. KnownDeps(x) \subseteq Prefix(m - 1)
        BY <1>2, <3>1 DEF Free
      <3>3. Prefix(m - 1) \subseteq Prefix(n)
        BY <1>2, <3>1 DEF Prefix
      <3>4. QED BY <1>10, <2>1, <3>2, <3>3
    <2>3. QED BY <1>10, <2>1, <2>2
  <1>11. ready' = {x \in Known : Free(n + 1, x)'}
    <2>1. ASSUME NEW x \in Known
          PROVE  x \in ready' <=> Free(n + 1, x)'
      <3>1. CASE p \in KnownDeps(x)
        <4>1. x \notin ready
          BY <1>2, <1>3, <3>1 DEF Free
        <4>2. QED BY <1>1, <1>7, <1>9, <1>10, <3>1, <4>1
      <3>2. CASE p \notin KnownDeps(x)
        BY <1>1, <1>2, <1>7, <3>2 DEF Free
      <3>3. QED BY <3>1, <3>2
    <2>2. ready' \subseteq Known
      BY <1>1, <1>2
    <2>3. QED BY <2>1, <2>2
  <1>12. indegree' = [x \in Known |-> Cardinality(KnownDeps(x) \ (Prefix(n) \cup {p}))]
    BY <1>1, <1>9
  <1>13. ASSUME NEW m \in 1..n + 1
         PROVE  /\ Free(m - 1, out[m])'
                /\ \A x \in Known : Free(m - 1, x)' => out'[m] <= x
    <2>1. CASE m = n + 1
      <3>1. m - 1 = n /\ n \in 0..n /\ out'[m] = p
        BY <1>2, <1>4, <2>1
      <3>2. Free(n, p)' /\ \A x \in Known : Free(n, x)' => p <= x
        BY <1>3, <1>6, <3>1
      <3>3. QED BY <3>1, <3>2 DEF Free
    <2>2. CASE m \in 1..n
      <3>1. m - 1 \in 0..n /\ out[m] \in Known
        BY <1>0, <1>2, <2>2
      <3>2. Free(m - 1, out[m]) /\ \A x \in Known : Free(m - 1, x) => out[m] <= x
        BY <1>2, <2>2
      <3>3. out'[m] = out[m] /\ \A x \in Known : Free(m - 1, x)' <=> Free(m - 1, x)
        BY <1>4, <1>6, <2>2, <3>1
      <3>4. QED BY <3>1, <3>2, <3>3 DEF Free
    <2>3. QED BY <1>2, <2>1, <2>2
  <1>14. Planning'
    <2>1. Known' = Known /\ \A x : KnownDeps(x)' = KnownDeps(x)
      BY <1>1, SameGraph
    <2>2. (ready = {x \in Known : Free(Len(out), x)})'
      BY <1>4, <1>11, <2>1 DEF Free
    <2>3. (indegree = [x \in Known |-> Cardinality(KnownDeps(x) \ Prefix(Len(out)))])'
      BY <1>4, <1>5, <1>12, <2>1
    <2>4. (\A m \in 1..Len(out) : Free(m - 1, out[m]) /\ \A x \in Known : Free(m - 1, x) => out[m] <= x)'
      BY <1>4, <1>13, <2>1
    <2>5. QED BY <1>4, <2>1, <2>2, <2>3, <2>4 DEF Planning
  <1>15. Shape' /\ ReportedCycleReal' /\ NoDeadlock'
    BY <1>1, SameGraph DEF RInv, Shape, ReportedCycleReal, NoDeadlock, Known
  <1>16. QED BY <1>1, <1>14, <1>15 DEF RInv, Searching

(* A finished plan and a call that was refused at once leave the registry  *)
(* alone.                                                                  *)
LEMMA IdleKeeps ==
  ASSUME RInv, \/ Planned \/ UNCHANGED rvars
  PROVE  RInv'
  <1>1. CASE UNCHANGED rvars
    <2>1. /\ UNCHANGED <<byID, phase, candidate, cycle, state, path, indegree, ready, out>>
          /\ Closed' = Closed /\ \A n : Prefix(n)' = Prefix(n)
      BY <1>1 DEF rvars, search, order, Closed, Known, Prefix
    <2>2. \A n, x : Free(n, x)' <=> Free(n, x)
      BY <2>1, SameGraph DEF Free
    <2>3. Shape' /\ ReportedCycleReal' /\ NoDeadlock'
      BY <2>1, SameGraph DEF RInv, Shape, ReportedCycleReal, NoDeadlock, Known
    <2>4. Searching'
      BY <2>1, SameGraph DEF RInv, Searching, OnPath
    <2>5. Planning'
      BY <2>1, <2>2, SameGraph DEF RInv, Planning
    <2>6. QED BY <2>3, <2>4, <2>5 DEF RInv
  <1>2. CASE Planned
    <2>1. phase = "planning" /\ phase' = "idle" /\ UNCHANGED <<byID, candidate, cycle>>
      BY <1>2 DEF Planned
    <2>2. Shape' /\ ReportedCycleReal' /\ NoDeadlock'
      BY <2>1, SameGraph DEF RInv, Shape, ReportedCycleReal, NoDeadlock, Known
    <2>3. QED BY <2>1, <2>2 DEF RInv, Searching, Planning
  <1>3. QED BY <1>1, <1>2

------------------------------------------------------------------------------
(* Theorems                                                                *)

(* Register and Order keep the registry's invariant, whatever is           *)
(* registered in whatever order.                                           *)
THEOREM RegistryInvariance == RSpec => []RInv
  <1>1. RInit => RInv
    <2> SUFFICES ASSUME RInit PROVE RInv
      OBVIOUS
    <2>1. Known = {} /\ phase = "idle" /\ cycle = << >>
      BY DEF RInit, Known
    <2>2. \A S \in SUBSET {} : ~Deadlocked(S)
      BY DEF Deadlocked
    <2>3. QED
      BY <2>1, <2>2, FS_EmptySet
      DEF RInv, Shape, NoDeadlock, ReportedCycleReal, Searching, Planning, Known
  <1>2. RInv /\ [RNext]_rvars => RInv'
    BY RegisterKeeps, VisitKeeps, LeaveKeeps, FoundCycleKeeps, FoundNoneKeeps, OrderKeeps,
       PlanKeeps, IdleKeeps
    DEF RNext, RegisterUnusable
  <1>3. QED BY <1>1, <1>2, PTL DEF RSpec

(* NoDeadlock: no set of registered collectors waits for itself, so the    *)
(* run that starts a goroutine for each of them cannot be stuck.           *)
THEOREM NobodyWaitsForever == RSpec => []NoDeadlock
  <1>1. RInv => NoDeadlock
    BY DEF RInv
  <1>2. QED BY <1>1, RegistryInvariance, PTL

(* ReportedCycleReal: what Register's panic names is a cycle of the graph  *)
(* it refused; a usable registry is never refused.                         *)
THEOREM RefusalIsJust == RSpec => []ReportedCycleReal
  <1>1. RInv => ReportedCycleReal
    BY DEF RInv
  <1>2. QED BY <1>1, RegistryInvariance, PTL

(* Order leaves nobody out: what is left over when nothing is ready would  *)
(* be a set that waits for itself.  Nobody is planned twice.               *)
LEMMA PlanIsComplete ==
  ASSUME RInv, phase = "planning", ready = {}
  PROVE  /\ Prefix(Len(out)) = Known
         /\ \A i, j \in 1..Len(out) : out[i] = out[j] => i = j
  <1>1. /\ out \in Seq(Known) /\ Len(out) \in Nat
        /\ \A x \in Known : ~Free(Len(out), x)
        /\ \A n \in 1..Len(out) : Free(n - 1, out[n])
    BY DEF RInv, Planning
  <1>2. Prefix(Len(out)) \subseteq Known
    BY <1>1 DEF Prefix
  <1> DEFINE left == Known \ Prefix(Len(out))
  <1>3. \A id \in left : Range(byID[id]) \cap left # {}
    <2> SUFFICES ASSUME NEW id \in left PROVE Range(byID[id]) \cap left # {}
      OBVIOUS
    <2>1. PICK d \in KnownDeps(id) : d \notin Prefix(Len(out))
      BY <1>1 DEF Free
    <2>2. QED BY <2>1 DEF KnownDeps, Known
  <1>4. left = {}
    BY <1>3 DEF RInv, NoDeadlock, Deadlocked, Known
  <1>5. \A j \in 1..Len(out) : \A i \in 1..j - 1 : out[i] # out[j]
    BY <1>1 DEF Free, Prefix
  <1>6. ASSUME NEW i \in 1..Len(out), NEW j \in 1..Len(out), out[i] = out[j]
        PROVE  i = j
    <2>1. i \in 1..j - 1 \/ j \in 1..i - 1 \/ i = j
      BY <1>1
    <2>2. QED BY <1>5, <1>6, <2>1
  <1>7. QED BY <1>2, <1>4, <1>6

(* The places of a sequence are as many as its length.                     *)
LEMMA CountUpTo ==
  ASSUME NEW n \in Nat
  PROVE  IsFiniteSet(1..n) /\ Cardinality(1..n) = n
  <1>1. IsFiniteSet(1..n) /\ Cardinality(1..n) = IF 1 > n THEN 0 ELSE n - 1 + 1
    <2>1. 1 \in Int /\ n \in Int
      OBVIOUS
    <2>2. QED BY <2>1, FS_Interval, Zenon
  <1>2. QED BY <1>1

(* A sequence that names every collector once is one of SetToSeqs.         *)
LEMMA NamesEveryoneOnce ==
  ASSUME Shape, NEW s \in Seq(Known), {s[m] : m \in 1..Len(s)} = Known,
         \A i, j \in 1..Len(s) : s[i] = s[j] => i = j
  PROVE  s \in SetToSeqs(Known) /\ Len(s) = Cardinality(Known)
  <1>1. Len(s) \in Nat /\ s \in [1..Len(s) -> Known]
    OBVIOUS
  <1>2. s \in Bijection(1..Len(s), Known)
    BY <1>1 DEF Bijection, Injection, Surjection, IsInjective
  <1>3. ExistsBijection(1..Len(s), Known)
    BY <1>2 DEF ExistsBijection
  <1>4. IsFiniteSet(1..Len(s)) /\ Cardinality(1..Len(s)) = Len(s)
    BY <1>1, CountUpTo
  <1>5. Cardinality(Known) = Len(s)
    BY <1>3, <1>4, FS_Bijection
  <1>6. QED BY <1>1, <1>5 DEF SetToSeqs

(* OrderIsThePlan: Order ends with every registered collector, each after  *)
(* all it depends on, in the lexicographically first of all such orders.   *)
THEOREM ThePlanIsOne == RSpec => []OrderIsThePlan
  <1>1. RInv => OrderIsThePlan
    <2> SUFFICES ASSUME RInv, phase = "planning", ready = {}
                 PROVE  /\ out \in SetToSeqs(Known) /\ TopologicalOrder(out)
                        /\ \A s \in SetToSeqs(Known) : TopologicalOrder(s) => s = out \/ Before(out, s)
      BY DEF OrderIsThePlan, Known
    <2>1. /\ out \in Seq(Known) /\ Len(out) \in Nat /\ Shape
          /\ \A n \in 1..Len(out) :
               Free(n - 1, out[n]) /\ \A x \in Known : Free(n - 1, x) => out[n] <= x
      BY DEF RInv, Planning
    <2>2. /\ Prefix(Len(out)) = Known
          /\ \A i, j \in 1..Len(out) : out[i] = out[j] => i = j
      BY PlanIsComplete
    <2>3. out \in SetToSeqs(Known) /\ Len(out) = Cardinality(Known)
      BY <2>1, <2>2, NamesEveryoneOnce DEF Prefix
    <2>4. TopologicalOrder(out)
      <3> SUFFICES ASSUME NEW i \in 1..Len(out), NEW j \in 1..Len(out), out[j] \in Range(byID[out[i]])
                   PROVE  j < i
        BY <2>1 DEF TopologicalOrder
      <3>1. out[j] \in KnownDeps(out[i])
        BY <2>1 DEF KnownDeps, Known
      <3>2. PICK m \in 1..i - 1 : out[j] = out[m]
        BY <2>1, <3>1 DEF Free, Prefix
      <3>3. QED BY <2>1, <2>2, <3>2
    <2>5. ASSUME NEW s \in SetToSeqs(Known), TopologicalOrder(s), s # out
          PROVE  Before(out, s)
      <3>1. /\ s \in [1..Len(out) -> Known] /\ out \in [1..Len(out) -> Known]
            /\ \A i, j \in 1..Len(out) : s[i] = s[j] => i = j
        BY <2>1, <2>3 DEF SetToSeqs
      <3> DEFINE D == {m \in 1..Len(out) : s[m] # out[m]}
      <3>2. D \in SUBSET Nat /\ D # {}
        BY <2>1, <2>5, <3>1
      <3>3. PICK n \in D : \A m \in D : n <= m
        BY <3>2, Least
      <3>4. n \in 1..Len(out) /\ s[n] # out[n] /\ \A m \in 1..n - 1 : s[m] = out[m]
        BY <2>1, <3>3
      <3>5. s[n] \in Known /\ out[n] \in Known
        BY <3>1, <3>4
      <3>6. s[n] \notin Prefix(n - 1)
        BY <2>1, <3>1, <3>4 DEF Prefix
      <3>7. ASSUME NEW d \in KnownDeps(s[n])
            PROVE  d \in Prefix(n - 1)
        <4>1. d \in Known /\ d \in Range(byID[s[n]])
          BY DEF KnownDeps, Known
        <4>2. PICK j \in 1..Len(out) : s[j] = d
          <5>1. s \in Injection(1..Len(out), Known)
            BY <3>1 DEF Injection, IsInjective
          <5>2. IsFiniteSet(1..Len(out)) /\ Cardinality(1..Len(out)) = Len(out) /\ IsFiniteSet(Known)
            BY <2>1, CountUpTo DEF Shape
          <5>3. s \in Surjection(1..Len(out), Known)
            BY <2>3, <5>1, <5>2, FS_Injection
          <5>4. QED BY <4>1, <5>3 DEF Surjection
        <4>3. j < n
          BY <2>5, <3>1, <3>4, <4>1, <4>2 DEF TopologicalOrder
        <4>4. QED BY <2>1, <3>4, <4>2, <4>3 DEF Prefix
      <3>8. out[n] <= s[n]
        BY <2>1, <3>4, <3>5, <3>6, <3>7 DEF Free
      <3>9. out[n] < s[n]
        <4>1. Known \subseteq Nat
          BY <2>1, IDAssumption DEF Shape
        <4>2. out[n] \in Nat /\ s[n] \in Nat
          BY <3>5, <4>1
        <4>3. QED BY <3>4, <3>8, <4>2
      <3>10. QED BY <2>1, <3>4, <3>9 DEF Before
    <2>6. QED BY <2>3, <2>4, <2>5
  <1>2. QED BY <1>1, RegistryInvariance, PTL
==============================================================================
