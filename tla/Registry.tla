------------------------------ MODULE Registry -------------------------------
(***************************************************************************)
(* collect.Registry: collectors register themselves one after another, in  *)
(* whatever order packages are initialised, and name the collectors they   *)
(* depend on whether those are registered yet or not.  Register adds the   *)
(* collector, searches the graph for a cycle, and takes it out again if    *)
(* there is one; Order is the plan the runner starts its goroutines from.  *)
(* Both loops are taken one iteration at a time.  IDs are numbers in       *)
(* sorting order, so that a sorted list is a set whose least member comes  *)
(* first.                                                                  *)
(***************************************************************************)
EXTENDS Naturals, Sequences, FiniteSets, SequencesExt

CONSTANTS
  ID,       \* the IDs that packages may register
  Ghost,    \* IDs that are named as dependencies and never registered
  MaxDeps   \* the length of the longest DependsOn list considered

ASSUME IDAssumption ==
  ID \subseteq Nat /\ Ghost \subseteq Nat /\ ID \cap Ghost = {} /\ MaxDeps \in Nat

VARIABLES
  byID,      \* the registered collectors' DependsOn lists
  phase,     \* "idle", "searching" in Register or "planning" in Order
  candidate, \* the collector Register was last called with: <<its ID, its list>>
  cycle,     \* the path in that call's panic, << >> if there was none
  state,     \* findCycle: the colour of every collector
  path,      \* findCycle: the collectors whose visit has begun and not ended
  indegree,  \* Order: how many dependencies of each collector are not planned
  ready,     \* Order: the collectors that wait for none
  out        \* Order: the plan so far

search == <<state, path>>
order  == <<indegree, ready, out>>
rvars  == <<byID, phase, candidate, cycle, search, order>>

Lists(S) == UNION {[1..n -> S] : n \in 0..MaxDeps}

RInit ==
  /\ byID = << >> /\ phase = "idle" /\ candidate = << >> /\ cycle = << >>
  /\ state = << >> /\ path = << >>
  /\ indegree = << >> /\ ready = {} /\ out = << >>

KnownDeps(id) == Range(byID[id]) \cap DOMAIN byID

------------------------------------------------------------------------------
(* Register panics on a duplicate ID or a dependency on itself before it   *)
(* has changed anything, and on a cycle after it has added the collector.  *)

Register(id, list) ==
  /\ phase = "idle"
  /\ id \notin DOMAIN byID /\ id \notin Range(list)
  /\ byID' = [i \in DOMAIN byID \cup {id} |-> IF i = id THEN list ELSE byID[i]]
  /\ phase' = "searching"
  /\ candidate' = <<id, list>> /\ cycle' = << >>
  /\ state' = [i \in DOMAIN byID \cup {id} |-> "unvisited"] /\ path' = << >>
  /\ UNCHANGED order

RegisterUnusable(id, list) ==
  /\ phase = "idle"
  /\ id \in DOMAIN byID \/ id \in Range(list)
  /\ UNCHANGED rvars

------------------------------------------------------------------------------
(* findCycle: a depth-first walk.  The loop of a visit goes over the known *)
(* dependencies in sorting order and passes the closed ones, and those     *)
(* before its place are closed: what it looks at next is the least one     *)
(* that is not.  The loop outside all visits goes over all collectors in   *)
(* the same way.                                                           *)

\* mutant: a dependency that is on the current path is passed as well
UnclosedUnvisited == {i \in IF path = << >> THEN DOMAIN byID ELSE KnownDeps(Last(path)) :
                        state[i] = "unvisited"}

Unclosed == {i \in IF path = << >> THEN DOMAIN byID ELSE KnownDeps(Last(path)) :
               state[i] # "closed"}

Visit ==
  /\ phase = "searching"
  /\ Unclosed # {} /\ state[Min(Unclosed)] = "unvisited"
  /\ state' = [state EXCEPT ![Min(Unclosed)] = "open"]
  /\ path' = Append(path, Min(Unclosed))
  /\ UNCHANGED <<byID, phase, candidate, cycle, order>>

Leave ==
  /\ phase = "searching"
  /\ path # << >> /\ Unclosed = {}
  /\ state' = [state EXCEPT ![Last(path)] = "closed"]
  /\ path' = SubSeq(path, 1, Len(path) - 1)
  /\ UNCHANGED <<byID, phase, candidate, cycle, order>>

\* mutant: the way that led to the cycle is reported as a part of it
PathWhole(d) == path

PathFrom(d) == SubSeq(path, Min({i \in 1..Len(path) : path[i] = d}), Len(path))

(* A cycle: the collector is deleted again, and the panic names the path.  *)
FoundCycle ==
  /\ phase = "searching"
  /\ Unclosed # {} /\ state[Min(Unclosed)] = "open"
  /\ cycle' = Append(PathFrom(Min(Unclosed)), Min(Unclosed))
  /\ byID' = [i \in DOMAIN byID \ {candidate[1]} |-> byID[i]]
  /\ phase' = "idle"
  /\ state' = << >> /\ path' = << >>
  /\ UNCHANGED <<candidate, order>>

FoundNone ==
  /\ phase = "searching"
  /\ path = << >> /\ Unclosed = {}
  /\ phase' = "idle"
  /\ state' = << >> /\ path' = << >>
  /\ UNCHANGED <<byID, candidate, cycle, order>>

------------------------------------------------------------------------------
(* Order: Kahn's algorithm with the ready list kept sorted.                *)

\* mutant: a dependency that is listed twice counts twice
IndegreeRepeated(id) == Len(SelectSeq(byID[id], LAMBDA d : d \in DOMAIN byID))

Indegree(id) == Cardinality(KnownDeps(id))

Order ==
  /\ phase = "idle"
  /\ phase' = "planning"
  /\ indegree' = [id \in DOMAIN byID |-> Indegree(id)]
  /\ ready' = {id \in DOMAIN byID : Indegree(id) = 0}
  /\ out' = << >>
  /\ UNCHANGED <<byID, candidate, cycle, search>>

Dependents(id) == {d \in DOMAIN byID : id \in KnownDeps(d)}

Plan ==
  /\ phase = "planning" /\ ready # {}
  /\ out' = Append(out, Min(ready))
  /\ indegree' = [d \in DOMAIN byID |->
                    IF d \in Dependents(Min(ready)) THEN indegree[d] - 1 ELSE indegree[d]]
  /\ ready' = (ready \ {Min(ready)}) \cup {d \in Dependents(Min(ready)) : indegree'[d] = 0}
  /\ UNCHANGED <<byID, phase, candidate, cycle, search>>

Planned ==
  /\ phase = "planning" /\ ready = {}
  /\ phase' = "idle"
  /\ indegree' = << >> /\ ready' = {} /\ out' = << >>
  /\ UNCHANGED <<byID, candidate, cycle, search>>

MissingDependencies(id) == Range(byID[id]) \ DOMAIN byID

------------------------------------------------------------------------------

RNext ==
  \/ \E id \in ID, list \in Lists(ID \cup Ghost) : Register(id, list) \/ RegisterUnusable(id, list)
  \/ Visit \/ Leave \/ FoundCycle \/ FoundNone
  \/ Order \/ Plan \/ Planned

RSpec == RInit /\ [][RNext]_rvars

------------------------------------------------------------------------------
(* Properties                                                              *)

(* Every member of S waits for another member of S.                        *)
Deadlocked(S) == S # {} /\ \A id \in S : Range(byID[id]) \cap S # {}

(* Whatever the order of registration, the goroutines the runner starts    *)
(* for the registered collectors cannot all be waiting for one another.    *)
NoDeadlock == phase # "searching" => \A S \in SUBSET DOMAIN byID : ~Deadlocked(S)

(* The path in the panic message is a cycle of the graph that was refused, *)
(* so no usable registry is ever refused.                                  *)
ReportedCycleReal ==
  cycle # << >> =>
    LET deps(id) == IF id = candidate[1] THEN candidate[2] ELSE byID[id]
    IN  /\ Len(cycle) > 1
        /\ cycle[1] = cycle[Len(cycle)]
        /\ \A i \in 1..Len(cycle) - 1 :
             /\ cycle[i] \in DOMAIN byID \cup {candidate[1]}
             /\ cycle[i + 1] \in Range(deps(cycle[i]))

TopologicalOrder(s) == \A i, j \in DOMAIN s : s[j] \in Range(byID[s[i]]) => j < i

Before(s, t) == \E n \in DOMAIN s : s[n] < t[n] /\ \A m \in 1..n-1 : s[m] = t[m]

(* The plan names every registered collector after all it depends on, and  *)
(* is the lexicographically first such plan: always the same one.          *)
OrderIsThePlan ==
  phase = "planning" /\ ready = {} =>
    LET plans == {s \in SetToSeqs(DOMAIN byID) : TopologicalOrder(s)}
    IN  /\ out \in plans
        /\ \A s \in plans : s = out \/ Before(out, s)
==============================================================================
