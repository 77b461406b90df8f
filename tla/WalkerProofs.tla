---------------------------- MODULE WalkerProofs -----------------------------
(***************************************************************************)
(* Theorems about Walker, for every filesystem tree, every host, every set *)
(* of interests and tallies and every setting of the limits.               *)
(***************************************************************************)
EXTENDS Walker, FiniteSetTheorems, WellFoundedInduction, TLAPS

------------------------------------------------------------------------------
(* The walk order.                                                         *)

(* A nonempty set of naturals has a least element.                         *)
LEMMA LeastExists ==
  ASSUME NEW S, S \subseteq Nat, S # {}
  PROVE  \E p \in S : \A q \in S : p <= q
  <1>1. PICK p \in S : \A q \in S : ~(<<q, p>> \in OpToRel(<, Nat))
    BY NatLessThanWellFounded, WFMin
  <1>2. \A q \in S : ~(q < p)
    BY <1>1 DEF OpToRel
  <1>3. QED BY <1>2

(* ... and a nonempty set of bounded ones a greatest.                      *)
LEMMA GreatestExists ==
  ASSUME NEW n \in Nat, NEW S, S \subseteq 0..n, S # {}
  PROVE  \E p \in S : \A q \in S : q <= p
  <1> DEFINE T == {n - d : d \in S}
  <1>1. PICK t \in T : \A u \in T : t <= u
    <2>1. T \subseteq Nat
      OBVIOUS
    <2>2. T # {}
      <3>1. PICK d \in S : TRUE
        OBVIOUS
      <3>2. n - d \in T
        OBVIOUS
      <3>3. QED BY <3>2
    <2> HIDE DEF T
    <2>3. QED BY <2>1, <2>2, LeastExists
  <1>2. PICK p \in S : t = n - p
    OBVIOUS
  <1>3. \A q \in S : n - p <= n - q
    BY <1>1, <1>2
  <1>4. \A q \in S : q <= p
    BY <1>3
  <1>5. QED BY <1>4

(* The next entry or directory is one of those there are.                  *)
LEMMA FirstIsIn ==
  ASSUME NEW S, S \subseteq Path, S # {}
  PROVE  First(S) \in S
  <1>1. S \subseteq Nat
    BY WalkerAssumption
  <1>2. \E p \in S : \A q \in S : p <= q
    BY <1>1, LeastExists
  <1>3. QED BY <1>2 DEF First

(* The top of a stack that is not empty.                                   *)
LEMMA TopIsIn ==
  ASSUME frontier \in [0..MaxDepth -> SUBSET Path], Pending # {}
  PROVE  /\ Top \in 0..MaxDepth
         /\ Next1 \in frontier[Top]
         /\ Next1 \in Path
  <1> DEFINE S == {d \in 0..MaxDepth : frontier[d] # {}}
  <1>0. MaxDepth \in Nat
    BY WalkerAssumption
  <1>1. S \subseteq 0..MaxDepth /\ S # {}
    BY DEF Pending
  <1>2. PICK d \in S : \A e \in S : e <= d
    <2> HIDE DEF S
    <2>1. QED BY <1>0, <1>1, GreatestExists
  <1>3. frontier[d] # {} /\ \A e \in d+1..MaxDepth : frontier[e] = {}
    BY <1>0, <1>2
  <1>4. Top \in 0..MaxDepth /\ frontier[Top] # {}
    BY <1>2, <1>3 DEF Top
  <1>5. Next1 \in frontier[Top]
    BY <1>4, FirstIsIn DEF Next1
  <1>6. QED BY <1>4, <1>5

------------------------------------------------------------------------------
(* The inductive invariant.                                                *)

(* Types; inside a tree the walk is at one of its roots, and the entries   *)
(* offered after the time ran out are inodes like the others.  A listing   *)
(* is only started in time, so one at most is overtaken by it.             *)
Counting ==
  /\ WTypeOK /\ host \in Hosts
  /\ overrun <= inodes
  /\ ~late => stats = 0
  /\ pc \in {"dirs", "entries"} => root <= Len(Roots)

(* Between two looks at the clock there are at most ClockEvery entries.    *)
Overrun ==
  /\ ~late => overrun = 0
  /\ overrun <= ClockEvery
  /\ pc = "entries" /\ ~Sample => overrun <= inodes % ClockEvery

(* Every inode folded is in a bucket or was refused one.                   *)
Balanced == \A t \in Tally : tallied[t] = SumBy(buckets[t], Key) + dropped[t]

(* The directories and entries the walk still holds are in the scope of    *)
(* the root it is at, and what it holds as a directory may be entered.     *)
Here == Roots[root]

MayEnter(p) == IsTree(p) /\ InScope(Here, p) /\ (p # Here => ~DeclineBoundary(p, Dev(Here)))

InsideScope ==
  /\ pc = "root" => Pending = {}
  /\ pc \in {"dirs", "entries"} =>
       \A d \in 0..MaxDepth : \A p \in frontier[d] : MayEnter(p)
  /\ pc = "entries" => \A p \in todo : InScope(Here, p)

WInv ==
  /\ Counting /\ TruncationAttributed /\ Overrun
  /\ InsideScope /\ RowsAreReal /\ Balanced

------------------------------------------------------------------------------
(* Types.                                                                  *)

(* The limits, the roots and the host, as the steps use them.              *)
LEMMA Givens ==
  ASSUME host \in Hosts
  PROVE  /\ MaxDepth \in Nat \ {0} /\ MaxInodes \in Nat \ {0} /\ ClockEvery \in Nat \ {0}
         /\ MaxDirEntries \in Nat \ {0}
         /\ Len(Roots) \in Nat /\ \A k \in 1..Len(Roots) : Roots[k] \in Path
         /\ host.kind \in [Path -> {"dir", "file", "link"}]
         /\ host.id \in [Path -> Nat \X Nat]
         /\ host.key \in [Tally -> [Path -> Key \cup {None}]]
         /\ host.match \in [Interest -> SUBSET Path]
  <1>1. host \in Host
    BY WalkerAssumption
  <1>2. Roots \in Seq(Path)
    BY WalkerAssumption
  <1>3. Len(Roots) \in Nat /\ \A k \in 1..Len(Roots) : Roots[k] \in Path
    BY <1>2
  <1>4. QED BY <1>1, <1>3, WalkerAssumption DEF Host

(* A cap names one of the two reasons of its own, and only for its fact.   *)
LEMMA OwnCapIs ==
  ASSUME NEW p, NEW f \in Fact
  PROVE  /\ f \in Interest => OwnCap(f, p) = IF Matched(f, p) /\ Full(f) THEN {"max_hits"} ELSE {}
         /\ f \in Tally => OwnCap(f, p) = IF Refuses(f, p) THEN {"max_keys"} ELSE {}
  BY WalkerAssumption DEF OwnCap, Fact

(* offer keeps the types of what it writes.                                *)
LEMMA OfferTypes ==
  ASSUME Counting, NEW p \in Path, NEW more \in SUBSET Reason, ~Spent, Offer(p, more)
  PROVE  /\ inodes' = inodes + 1 /\ inodes' \in 0..MaxInodes
         /\ rows' \in [Interest -> SUBSET Path]
         /\ \A i \in Interest : hits'[i] \in 0..MaxHits[i]
         /\ overflow' \in [Interest -> Nat]
         /\ buckets' \in [Tally -> [Key -> Nat]]
         /\ tallied' \in [Tally -> Nat]
         /\ dropped' \in [Tally -> Nat]
         /\ reasons' \in [Fact -> SUBSET Reason]
  <1> USE DEF Counting, WTypeOK
  <1>1. inodes' = inodes + 1 /\ inodes' \in 0..MaxInodes
    BY Givens DEF Offer, Spent
  <1>2. rows' \in [Interest -> SUBSET Path] /\ overflow' \in [Interest -> Nat]
    BY DEF Offer, OfferInterests
  <1>3. ASSUME NEW i \in Interest PROVE hits'[i] \in 0..MaxHits[i]
    <2>1. MaxHits[i] \in Nat /\ hits[i] \in 0..MaxHits[i]
      BY WalkerAssumption
    <2>2. hits'[i] = IF Matched(i, p) /\ ~(hits[i] >= MaxHits[i]) THEN hits[i] + 1 ELSE hits[i]
      BY DEF Offer, OfferInterests, Full
    <2>3. QED BY <2>1, <2>2
  <1>4. buckets' \in [Tally -> [Key -> Nat]]
    BY DEF Offer, OfferTallies
  <1>5. tallied' \in [Tally -> Nat] /\ dropped' \in [Tally -> Nat]
    BY DEF Offer, OfferTallies
  <1>6. reasons' \in [Fact -> SUBSET Reason]
    <2>1. \A f \in Fact : OwnCap(f, p) \subseteq Reason
      BY OwnCapIs DEF Fact, Reason
    <2>2. QED BY <2>1 DEF Offer
  <1>7. QED BY <1>1, <1>2, <1>3, <1>4, <1>5, <1>6

(* A step keeps the types.                                                 *)
LEMMA CountingStep == Counting /\ [WNext]_wvars => Counting'
  <1> SUFFICES ASSUME Counting, [WNext]_wvars PROVE Counting'
    OBVIOUS
  <1>0. /\ WTypeOK /\ host \in Hosts /\ overrun <= inodes /\ (~late => stats = 0)
        /\ pc \in {"dirs", "entries"} => root <= Len(Roots)
        /\ MaxDepth \in Nat \ {0} /\ MaxInodes \in Nat \ {0}
        /\ Len(Roots) \in Nat /\ \A k \in 1..Len(Roots) : Roots[k] \in Path
        /\ \A p \in Path : host.id[p] \in Nat \X Nat
    BY Givens DEF Counting
  <1>a. \A why \in Reason : TruncateAll(why) => reasons' \in [Fact -> SUBSET Reason]
    BY <1>0 DEF WTypeOK, TruncateAll
  <1>b. Pending # {} => Next1 \in Path /\ Top \in 0..MaxDepth
    BY <1>0, TopIsIn DEF WTypeOK
  <1>c. Pending # {} /\ Pop => frontier' \in [0..MaxDepth -> SUBSET Path]
    BY <1>0, <1>b DEF WTypeOK, Pop
  <1>d. Pending # {} /\ Enter(Next1) => visited' \subseteq Nat \X Nat
    BY <1>0, <1>b DEF WTypeOK, Enter
  <1>e. /\ {"inode_limit", "wall_clock", "unreadable_dir", "dir_listing"} \subseteq Reason
        /\ {"depth_limit"} \subseteq Reason
    BY DEF Reason
  <1>f. ASSUME NoOffer, overrun' = overrun, late' \in BOOLEAN, stats' \in 0..MaxDirEntries,
               ~late' => stats' = 0,
               host' = host /\ pc' \in {"root", "dirs", "entries", "done"},
               root' \in 1..Len(Roots) + 1, depth' \in 0..MaxDepth, todo' \subseteq Path,
               pc' \in {"dirs", "entries"} => root' <= Len(Roots),
               frontier' \in [0..MaxDepth -> SUBSET Path], visited' \subseteq Nat \X Nat,
               reasons' \in [Fact -> SUBSET Reason]
        PROVE  Counting'
    BY <1>0, <1>f DEF Counting, WTypeOK, NoOffer, matches, tallies
  <1>g. \A why \in Reason : Stop(why) => Counting'
    BY <1>0, <1>a, <1>f DEF Stop, place, clock, WTypeOK
  <1>h. ASSUME NEW p \in Path, NEW more \in SUBSET Reason, ~Spent, Offer(p, more),
               late' = late, stats' = stats, overrun' = overrun \/ overrun' = overrun + 1,
               host' = host /\ pc' \in {"root", "dirs", "entries", "done"},
               root' \in 1..Len(Roots) + 1, depth' = depth, todo' \subseteq Path,
               pc' \in {"dirs", "entries"} => root' <= Len(Roots),
               frontier' \in [0..MaxDepth -> SUBSET Path], visited' = visited
        PROVE  Counting'
    <2>1. inodes' = inodes + 1 /\ inodes' \in 0..MaxInodes
      BY <1>h, OfferTypes
    <2>2. overrun' \in 0..MaxInodes /\ overrun' <= inodes'
      BY <1>0, <1>h, <2>1 DEF WTypeOK
    <2>3. WTypeOK'
      BY <1>0, <1>h, <2>2, OfferTypes DEF WTypeOK
    <2>4. QED BY <1>0, <1>h, <2>2, <2>3 DEF Counting
  <1>1. CASE RootMissing
    BY <1>1, <1>0, <1>a, <1>e, <1>f DEF RootMissing, NextRoot, clock, WTypeOK
  <1>2. CASE RootFile
    <2>1. Roots[root] \in Path
      BY <1>0, <1>2 DEF RootFile, WTypeOK
    <2>2. ~Spent /\ Offer(Roots[root], {}) /\ {} \in SUBSET Reason
      BY <1>2 DEF RootFile
    <2>3. /\ UNCHANGED <<host, pc, late, overrun, stats, frontier, depth, todo, visited>>
          /\ root' \in 1..Len(Roots) + 1 /\ pc = "root"
      BY <1>2, <1>0 DEF RootFile, NextRoot, WTypeOK, clock
    <2>4. QED
      BY <1>0, <1>h, <2>1, <2>2, <2>3 DEF WTypeOK
  <1>3. CASE RootDirectory
    <2>1. Roots[root] \in Path
      BY <1>0, <1>3 DEF RootDirectory, WTypeOK
    <2>2. frontier' \in [0..MaxDepth -> SUBSET Path]
      BY <1>0, <1>3, <2>1 DEF RootDirectory, WTypeOK
    <2>3. ~Spent /\ Offer(Roots[root], {}) /\ {} \in SUBSET Reason
      BY <1>3 DEF RootDirectory
    <2>4. /\ UNCHANGED <<host, root, late, overrun, stats, depth, todo, visited>>
          /\ pc' = "dirs" /\ root <= Len(Roots)
      BY <1>3 DEF RootDirectory, clock
    <2>5. QED
      BY <1>0, <1>h, <2>1, <2>2, <2>3, <2>4 DEF WTypeOK
  <1>4. CASE RootSpent
    BY <1>4, <1>e, <1>g DEF RootSpent
  <1>5. CASE Finish
    BY <1>5, <1>0, <1>f DEF Finish, place, clock, WTypeOK
  <1>6. CASE DirOverBudget
    BY <1>6, <1>e, <1>g DEF DirOverBudget
  <1>7. CASE BreakCycle
    BY <1>7, <1>0, <1>c, <1>f DEF BreakCycle, clock, WTypeOK
  <1>8. CASE ListingFails
    BY <1>8, <1>0, <1>a, <1>c, <1>d, <1>e, <1>f DEF ListingFails, clock, WTypeOK
  <1>9. CASE List
    <2>1. todo' \subseteq Path
      BY <1>9 DEF List, Listing, Retained, Entries
    <2>2. reasons' \in [Fact -> SUBSET Reason]
      BY <1>9, <1>0, <1>a, <1>e DEF List, WTypeOK
    <2>3. late' \in BOOLEAN /\ stats' \in 0..MaxDirEntries /\ (~late' => stats' = 0)
      <3>1. stats = 0 /\ MaxDirEntries \in Nat
        BY <1>0, <1>9, WalkerAssumption DEF List
      <3>2. CASE UNCHANGED <<late, stats>>
        BY <1>0, <3>1, <3>2 DEF WTypeOK
      <3>3. CASE late' = TRUE /\ \E n \in 1..MaxDirEntries : stats' = stats + n
        BY <3>1, <3>3
      <3>4. QED BY <1>9, <3>2, <3>3 DEF List
    <2>4. QED
      BY <1>9, <1>0, <1>b, <1>c, <1>d, <1>f, <2>1, <2>2, <2>3 DEF List, WTypeOK
  <1>10. CASE TreeDone
    <2>1. root' \in 1..Len(Roots) + 1
      BY <1>10, <1>0
      DEF TreeDone, NextRoot, WTypeOK
    <2>2. QED BY <1>10, <1>0, <1>f, <2>1 DEF TreeDone, NextRoot, clock, WTypeOK
  <1>11. CASE EntryOverBudget
    BY <1>11, <1>e, <1>g DEF EntryOverBudget
  <1>12. CASE EntrySpent
    BY <1>12, <1>e, <1>g DEF EntrySpent
  <1>13. CASE Entry
    <2> DEFINE e == First(todo)
               more == IF IsTree(e) /\ depth + 1 > MaxDepth THEN {"depth_limit"} ELSE {}
    <2>1. e \in Path /\ more \in SUBSET Reason
      BY <1>13, <1>0, <1>e, FirstIsIn DEF Entry, WTypeOK
    <2>2. frontier' \in [0..MaxDepth -> SUBSET Path] /\ todo' \subseteq Path
      BY <1>13, <1>0, <2>1 DEF Entry, WTypeOK
    <2>3. ~Spent /\ Offer(e, more)
      BY <1>13 DEF Entry
    <2> HIDE DEF e, more
    <2>4. QED
      BY <1>13, <1>0, <1>h, <2>1, <2>2, <2>3 DEF Entry, WTypeOK
  <1>14. CASE DirectoryDone
    BY <1>14, <1>0, <1>f DEF DirectoryDone, place, clock, WTypeOK
  <1>15. CASE TimeRunsOut
    BY <1>15, <1>0 DEF TimeRunsOut, NoOffer, matches, tallies, place, Counting, WTypeOK
  <1>16. CASE UNCHANGED wvars
    BY <1>16, <1>0 DEF wvars, matches, tallies, place, clock, Counting, WTypeOK
  <1>17. QED
    BY <1>1, <1>2, <1>3, <1>4, <1>5, <1>6, <1>7, <1>8, <1>9, <1>10, <1>11, <1>12,
       <1>13, <1>14, <1>15, <1>16 DEF WNext, Walked

------------------------------------------------------------------------------
(* Truncation.                                                             *)

(* A limit of the walk lands on every fact; a cap on the one it caps.      *)
LEMMA AttributedStep ==
  Counting /\ TruncationAttributed /\ [WNext]_wvars => TruncationAttributed'
  <1> SUFFICES ASSUME Counting, TruncationAttributed, [WNext]_wvars
               PROVE  TruncationAttributed'
    OBVIOUS
  <1>0. /\ reasons \in [Fact -> SUBSET Reason]
        /\ overflow \in [Interest -> Nat] /\ dropped \in [Tally -> Nat]
        /\ Interest \subseteq Fact /\ Tally \subseteq Fact
    BY DEF Counting, WTypeOK, Fact
  <1>a. ASSUME NEW why \in {"inode_limit", "wall_clock", "unreadable_dir", "dir_listing"},
               TruncateAll(why), overflow' = overflow, dropped' = dropped
        PROVE  TruncationAttributed'
    <2>1. \A f \in Fact : reasons'[f] = reasons[f] \cup {why}
      BY <1>0, <1>a DEF TruncateAll
    <2>2. QED BY <1>0, <1>a, <2>1 DEF TruncationAttributed
  <1>b. ASSUME NEW p, NEW more \in {{}, {"depth_limit"}}, Offer(p, more)
        PROVE  TruncationAttributed'
    <2>1. \A f \in Fact : reasons'[f] = reasons[f] \cup OwnCap(f, p) \cup more
      BY <1>0, <1>b DEF Offer
    <2>2. ASSUME NEW i \in Interest PROVE "max_hits" \in reasons'[i] <=> overflow'[i] > 0
      <3>1. overflow'[i] = IF Matched(i, p) /\ Full(i) THEN overflow[i] + 1 ELSE overflow[i]
        BY <1>b DEF Offer, OfferInterests
      <3>2. OwnCap(i, p) = IF Matched(i, p) /\ Full(i) THEN {"max_hits"} ELSE {}
        BY <1>0, OwnCapIs
      <3>3. "max_hits" \in reasons[i] <=> overflow[i] > 0
        BY DEF TruncationAttributed
      <3>4. overflow[i] \in Nat /\ "max_hits" \notin more
        BY <1>0
      <3>5. QED BY <1>0, <2>1, <3>1, <3>2, <3>3, <3>4
    <2>3. ASSUME NEW t \in Tally PROVE "max_keys" \in reasons'[t] <=> dropped'[t] > 0
      <3>1. dropped'[t] = IF Refuses(t, p) THEN dropped[t] + 1 ELSE dropped[t]
        BY <1>b DEF Offer, OfferTallies
      <3>2. OwnCap(t, p) = IF Refuses(t, p) THEN {"max_keys"} ELSE {}
        BY <1>0, OwnCapIs
      <3>3. "max_keys" \in reasons[t] <=> dropped[t] > 0
        BY DEF TruncationAttributed
      <3>4. dropped[t] \in Nat /\ "max_keys" \notin more
        BY <1>0
      <3>5. QED BY <1>0, <2>1, <3>1, <3>2, <3>3, <3>4
    <2>4. \A f \in Fact : OwnCap(f, p) \subseteq {"max_hits", "max_keys"}
      BY OwnCapIs DEF Fact
    <2>5. \A f \in Fact : reasons'[f] \ {"max_hits", "max_keys"} =
                            (reasons[f] \ {"max_hits", "max_keys"}) \cup more
      BY <2>1, <2>4
    <2>6. \A f, g \in Fact :
            reasons'[f] \ {"max_hits", "max_keys"} = reasons'[g] \ {"max_hits", "max_keys"}
      BY <2>5 DEF TruncationAttributed
    <2>7. QED BY <2>2, <2>3, <2>6 DEF TruncationAttributed
  <1>c. \A why : Stop(why) => TruncateAll(why) /\ overflow' = overflow /\ dropped' = dropped
    BY DEF Stop, NoOffer, matches, tallies
  <1>1. CASE RootMissing
    BY <1>1, <1>a DEF RootMissing, NoOffer, matches, tallies
  <1>2. CASE RootFile
    BY <1>2, <1>b DEF RootFile
  <1>3. CASE RootDirectory
    BY <1>3, <1>b DEF RootDirectory
  <1>4. CASE RootSpent
    BY <1>4, <1>a, <1>c DEF RootSpent
  <1>5. CASE DirOverBudget
    BY <1>5, <1>a, <1>c DEF DirOverBudget
  <1>6. CASE ListingFails
    BY <1>6, <1>a DEF ListingFails, NoOffer, matches, tallies
  <1>7. CASE List
    <2>1. CASE UNCHANGED reasons
      BY <1>7, <2>1 DEF List, NoOffer, matches, tallies, TruncationAttributed
    <2>2. CASE TruncateAll("dir_listing")
      BY <1>7, <2>2, <1>a DEF List, NoOffer, matches, tallies
    <2>3. QED BY <1>7, <2>1, <2>2 DEF List
  <1>8. CASE EntryOverBudget
    BY <1>8, <1>a, <1>c DEF EntryOverBudget
  <1>9. CASE EntrySpent
    BY <1>9, <1>a, <1>c DEF EntrySpent
  <1>10. CASE Entry
    BY <1>10, <1>b DEF Entry
  <1>11. CASE UNCHANGED <<reasons, overflow, dropped>>
    BY <1>11 DEF TruncationAttributed
  <1>12. QED
    BY <1>1, <1>2, <1>3, <1>4, <1>5, <1>6, <1>7, <1>8, <1>9, <1>10, <1>11
    DEF WNext, Walked, wvars, matches, tallies, Finish, BreakCycle, TreeDone,
        DirectoryDone, TimeRunsOut, NoOffer

------------------------------------------------------------------------------
(* The clock.                                                              *)

(* Counting one more inode moves on by one, or wraps around to a look at   *)
(* the clock.                                                              *)
LEMMA OneMore ==
  ASSUME NEW n \in Nat, NEW m \in Nat \ {0}
  PROVE  /\ n % m \in 0..m-1
         /\ (n + 1) % m = (n % m) + 1 \/ ((n + 1) % m = 0 /\ n % m = m - 1)
  OBVIOUS

(* After the time has run out a walk offers what is left until the next    *)
(* look at the clock.                                                      *)
LEMMA OverrunStep == Counting /\ Overrun /\ [WNext]_wvars => Overrun'
  <1> SUFFICES ASSUME Counting, Overrun, [WNext]_wvars PROVE Overrun'
    OBVIOUS
  <1>0. /\ inodes \in Nat /\ overrun \in Nat /\ late \in BOOLEAN /\ ClockEvery \in Nat \ {0}
        /\ inodes % ClockEvery \in 0..ClockEvery-1
    <2>1. inodes \in Nat /\ overrun \in Nat /\ late \in BOOLEAN /\ ClockEvery \in Nat \ {0}
      BY Givens DEF Counting, WTypeOK
    <2>2. QED BY <2>1, OneMore
  <1>a. ASSUME pc' # "entries", UNCHANGED clock PROVE Overrun'
    BY <1>a DEF Overrun, clock
  <1>b. ASSUME pc' = "entries" => pc = "entries", UNCHANGED <<clock, inodes>> PROVE Overrun'
    BY <1>b DEF Overrun, clock, Sample
  <1>1. CASE RootMissing \/ RootFile \/ RootDirectory \/ Finish \/ TreeDone \/ DirectoryDone
    BY <1>1, <1>a
    DEF RootMissing, RootFile, RootDirectory, Finish, TreeDone, DirectoryDone
  <1>2. CASE RootSpent \/ DirOverBudget \/ EntryOverBudget \/ EntrySpent
    BY <1>2, <1>a DEF RootSpent, DirOverBudget, EntryOverBudget, EntrySpent, Stop
  <1>3. CASE BreakCycle \/ ListingFails
    BY <1>3, <1>a DEF BreakCycle, ListingFails
  <1>4. CASE List
    <2>1. overrun = 0 /\ UNCHANGED <<overrun, inodes>>
      BY <1>4 DEF List, Overrun, NoOffer
    <2>2. QED BY <1>0, <2>1 DEF Overrun
  <1>5. CASE Entry
    <2>1. /\ late' = late /\ inodes' = inodes + 1 /\ pc = "entries"
          /\ overrun' = IF late THEN overrun + 1 ELSE overrun
          /\ late => ~Sample
      BY <1>5 DEF Entry, Offer
    <2>2. CASE ~late
      <3>1. overrun' = 0 /\ inodes' % ClockEvery \in Nat
        BY <1>0, <2>1, <2>2, OneMore DEF Overrun
      <3>2. QED BY <1>0, <2>1, <2>2, <3>1 DEF Overrun
    <2>3. CASE late
      <3>1. overrun' = overrun + 1 /\ overrun <= inodes % ClockEvery
        BY <2>1, <2>3 DEF Overrun
      <3>2. \/ inodes' % ClockEvery = (inodes % ClockEvery) + 1
            \/ inodes' % ClockEvery = 0
        BY <1>0, <2>1, OneMore
      <3>3. overrun' <= ClockEvery
        BY <1>0, <3>1
      <3>4. ~Sample' => overrun' <= inodes' % ClockEvery
        BY <1>0, <3>1, <3>2 DEF Sample
      <3>5. QED BY <2>1, <2>3, <3>3, <3>4 DEF Overrun
    <2>4. QED BY <2>2, <2>3
  <1>6. CASE TimeRunsOut
    <2>1. overrun' = 0 /\ inodes' = inodes
      BY <1>6 DEF TimeRunsOut, Overrun, NoOffer
    <2>2. QED BY <1>0, <2>1 DEF Overrun
  <1>7. CASE UNCHANGED wvars
    BY <1>7, <1>b DEF wvars
  <1>8. QED
    BY <1>1, <1>2, <1>3, <1>4, <1>5, <1>6, <1>7 DEF WNext, Walked

------------------------------------------------------------------------------
(* The scope.                                                              *)

(* The entries of a directory the walk may enter are in scope: the only    *)
(* ancestor they have that the directory has not is the directory.         *)
LEMMA EntriesInScope ==
  ASSUME NEW r \in Path, NEW d \in Path, NEW p \in Entries(d),
         InScope(r, d), IsTree(d), d # r => ~DeclineBoundary(d, Dev(r))
  PROVE  InScope(r, p)
  <1>1. p \in Path /\ d \in Above[p] /\ Above[p] \subseteq Above[d] \cup {d}
    BY DEF Entries
  <1>2. /\ \A q \in Path : Above[q] \subseteq Path
        /\ \A q \in Path : q \notin Above[q] /\ \A u \in Above[q] : Above[u] \subseteq Above[q]
    BY WalkerAssumption
  <1>3. CASE d = r
    <2>1. \A q \in Above[p] : r \notin Above[q]
      BY <1>1, <1>2, <1>3
    <2>2. QED BY <1>1, <1>3, <2>1 DEF InScope
  <1>4. CASE d # r
    <2>1. r \in Above[d] /\ r \in Above[p]
      BY <1>1, <1>2, <1>4 DEF InScope
    <2>2. ASSUME NEW q \in Above[p], r \in Above[q]
          PROVE  IsTree(q) /\ ~DeclineBoundary(q, Dev(r))
      BY <1>1, <1>4, <2>2 DEF InScope
    <2>3. QED BY <2>1, <2>2 DEF InScope
  <1>5. QED BY <1>3, <1>4

(* The host does not change, so neither does the scope of a root.          *)
LEMMA ScopeIsFixed ==
  ASSUME host' = host
  PROVE  /\ \A r, p : InScope(r, p)' <=> InScope(r, p)
         /\ \A p : IsTree(p)' <=> IsTree(p)
         /\ root' = root => \A p : MayEnter(p)' <=> MayEnter(p)
  BY DEF InScope, MayEnter, Here, IsTree, DeclineBoundary, Dev, CrossFS

(* Nothing outside the scope is ever pending.                              *)
LEMMA ScopeStep == Counting /\ InsideScope /\ [WNext]_wvars => InsideScope'
  <1> SUFFICES ASSUME Counting, InsideScope, [WNext]_wvars PROVE InsideScope'
    OBVIOUS
  <1>0. /\ frontier \in [0..MaxDepth -> SUBSET Path] /\ todo \subseteq Path
        /\ MaxDepth \in Nat /\ depth \in 0..MaxDepth
        /\ pc \in {"dirs", "entries"} => Here \in Path
    BY Givens DEF Counting, WTypeOK, Here
  <1>a. ASSUME pc' = "done" PROVE InsideScope'
    BY <1>a DEF InsideScope
  <1>b. ASSUME pc = "root", UNCHANGED <<pc, frontier>> PROVE InsideScope'
    BY <1>b DEF InsideScope, Pending
  <1>c. ASSUME UNCHANGED <<host, root>>, pc \in {"dirs", "entries"}, pc' = "dirs",
               \A d \in 0..MaxDepth : frontier'[d] \subseteq frontier[d]
        PROVE  InsideScope'
    BY <1>c, ScopeIsFixed DEF InsideScope
  <1>1. CASE RootMissing \/ RootFile
    BY <1>1, <1>b DEF RootMissing, RootFile, NextRoot
  <1>2. CASE RootSpent \/ DirOverBudget \/ EntryOverBudget \/ EntrySpent \/ Finish
    BY <1>2, <1>a DEF RootSpent, DirOverBudget, EntryOverBudget, EntrySpent, Stop, Finish
  <1>3. CASE RootDirectory
    <2>1. /\ UNCHANGED <<host, root>> /\ pc' = "dirs" /\ IsTree(Here)
          /\ frontier' = [frontier EXCEPT ![0] = {Here}]
      BY <1>3 DEF RootDirectory, Here
    <2>2. MayEnter(Here)
      BY <2>1 DEF MayEnter, InScope
    <2>3. \A d \in 0..MaxDepth : frontier'[d] \subseteq {Here}
      BY <1>0, <1>3, <2>1 DEF RootDirectory, InsideScope, Pending
    <2>4. \A d \in 0..MaxDepth : \A p \in frontier'[d] : MayEnter(p)'
      BY <2>1, <2>2, <2>3, ScopeIsFixed
    <2>5. QED BY <2>1, <2>4 DEF InsideScope
  <1>4. CASE BreakCycle \/ ListingFails
    <2>1. \A d \in 0..MaxDepth : frontier'[d] \subseteq frontier[d]
      BY <1>0, <1>4 DEF BreakCycle, ListingFails, Pop
    <2>2. QED BY <1>4, <1>c, <2>1 DEF BreakCycle, ListingFails
  <1>5. CASE List
    <2>1. /\ UNCHANGED <<host, root>> /\ pc = "dirs" /\ pc' = "entries" /\ Pending # {}
          /\ todo' \subseteq Entries(Next1)
      BY <1>5 DEF List, Listing, Retained
    <2>2. Top \in 0..MaxDepth /\ Next1 \in frontier[Top] /\ Next1 \in Path
      BY <1>0, <2>1, TopIsIn
    <2>3. MayEnter(Next1)
      BY <2>1, <2>2 DEF InsideScope
    <2>4. \A p \in todo' : InScope(Here, p)
      BY <1>0, <2>1, <2>2, <2>3, EntriesInScope DEF MayEnter
    <2>5. \A d \in 0..MaxDepth : \A p \in frontier'[d] : MayEnter(p)
      BY <1>0, <1>5, <2>1 DEF List, Pop, InsideScope
    <2>6. Here' = Here
      BY <2>1 DEF Here
    <2>7. \A p \in todo' : InScope(Here, p)'
      BY <2>1, <2>4, <2>6, ScopeIsFixed
    <2>8. QED BY <2>1, <2>5, <2>7, ScopeIsFixed DEF InsideScope
  <1>6. CASE TreeDone
    BY <1>6 DEF TreeDone, NextRoot, InsideScope, Pending
  <1>7. CASE Entry
    <2> DEFINE e == First(todo)
    <2>1. e \in todo
      BY <1>0, <1>7, FirstIsIn DEF Entry
    <2>2. UNCHANGED <<host, root, pc>> /\ pc = "entries" /\ todo' \subseteq todo
      BY <1>7 DEF Entry
    <2>3. /\ IsTree(e) /\ ~DeclineBoundary(e, Dev(Here)) => MayEnter(e)
      BY <2>1, <2>2 DEF InsideScope, MayEnter
    <2>4. \A d \in 0..MaxDepth : \A p \in frontier'[d] : MayEnter(p)
      <3>1. CASE frontier' = frontier
        BY <2>2, <3>1 DEF InsideScope
      <3>2. CASE /\ IsTree(e) /\ ~DeclineBoundary(e, Dev(Here))
                 /\ frontier' = [frontier EXCEPT ![depth + 1] = @ \cup {e}]
        <4> HIDE DEF e
        <4>1. QED BY <1>0, <2>2, <2>3, <3>2 DEF InsideScope
      <3>3. QED BY <1>7, <3>1, <3>2 DEF Entry, Here
    <2>5. Here' = Here
      BY <2>2 DEF Here
    <2>6. \A p \in todo' : InScope(Here, p)'
      BY <2>2, <2>5, ScopeIsFixed DEF InsideScope
    <2>7. QED BY <2>2, <2>4, <2>6, ScopeIsFixed DEF InsideScope
  <1>8. CASE DirectoryDone
    BY <1>8, <1>c DEF DirectoryDone, place
  <1>9. CASE UNCHANGED <<host, root, pc, frontier, todo>>
    <2>1. Here' = Here /\ Pending' = Pending
      BY <1>9 DEF Here, Pending
    <2>2. \A p : InScope(Here, p)' <=> InScope(Here, p)
      BY <1>9, <2>1, ScopeIsFixed
    <2>3. QED BY <1>9, <2>1, <2>2, ScopeIsFixed DEF InsideScope
  <1>10. QED
    BY <1>1, <1>2, <1>3, <1>4, <1>5, <1>6, <1>7, <1>8, <1>9
    DEF WNext, Walked, wvars, place, TimeRunsOut

(* A row or a bucket comes from an inode that was offered, and only what   *)
(* is in scope is offered.                                                 *)
LEMMA RealStep ==
  Counting /\ InsideScope /\ RowsAreReal /\ [WNext]_wvars => RowsAreReal'
  <1> SUFFICES ASSUME Counting, InsideScope, RowsAreReal, [WNext]_wvars
               PROVE  RowsAreReal'
    OBVIOUS
  <1>0. /\ todo \subseteq Path /\ root \in 1..Len(Roots) + 1 /\ Len(Roots) \in Nat
        /\ pc \in {"dirs", "entries"} => root <= Len(Roots)
        /\ rows \in [Interest -> SUBSET Path] /\ buckets \in [Tally -> [Key -> Nat]]
        /\ host.match \in [Interest -> SUBSET Path]
        /\ \A k \in 1..Len(Roots) : Roots[k] \in Path
    BY Givens DEF Counting, WTypeOK
  <1>a. ASSUME NEW p \in Path, NEW more, Offer(p, more), host' = host,
               root \in 1..Len(Roots), InScope(Here, p)
        PROVE  RowsAreReal'
    <2>1. ASSUME NEW i \in Interest, NEW q \in Path, q \in rows'[i]
          PROVE  (q \in host.match[i] /\ \E k \in 1..Len(Roots) : InScope(Roots[k], q))'
      <3>1. q \in rows[i] \/ (q = p /\ Matched(i, p))
        BY <1>0, <1>a, <2>1 DEF Offer, OfferInterests
      <3>2. q \in host.match[i] /\ \E k \in 1..Len(Roots) : InScope(Roots[k], q)
        BY <1>a, <3>1 DEF RowsAreReal, Matched, Here
      <3>3. PICK k \in 1..Len(Roots) : InScope(Roots[k], q)
        BY <3>2
      <3>4. InScope(Roots[k], q)'
        BY <1>a, <3>3, ScopeIsFixed
      <3>5. QED BY <1>a, <3>2, <3>4
    <2>2. ASSUME NEW t \in Tally, NEW k \in Key, buckets'[t][k] > 0
          PROVE  (\E q \in Path : host.key[t][q] = k)'
      <3>1. buckets'[t][k] = IF k = host.key[t][p] /\ ~Refuses(t, p) THEN buckets[t][k] + 1
                             ELSE buckets[t][k]
        BY <1>a DEF Offer, OfferTallies
      <3>2. buckets[t][k] > 0 \/ k = host.key[t][p]
        BY <2>2, <3>1
      <3>3. QED BY <1>a, <3>2 DEF RowsAreReal
    <2>3. QED BY <2>1, <2>2 DEF RowsAreReal
  <1>b. ASSUME UNCHANGED <<host, rows, buckets>> PROVE RowsAreReal'
    <2>1. \A r, p : InScope(r, p)' <=> InScope(r, p)
      BY <1>b, ScopeIsFixed
    <2>2. QED BY <1>b, <2>1 DEF RowsAreReal
  <1>1. CASE RootFile \/ RootDirectory
    <2>1. /\ Offer(Here, {}) /\ host' = host /\ root \in 1..Len(Roots) /\ Here \in Path
          /\ InScope(Here, Here)
      BY <1>0, <1>1 DEF RootFile, RootDirectory, Here, InScope
    <2>2. QED BY <1>a, <2>1
  <1>2. CASE Entry
    <2> DEFINE e == First(todo)
               more == IF IsTree(e) /\ depth + 1 > MaxDepth THEN {"depth_limit"} ELSE {}
    <2>1. e \in todo /\ e \in Path
      BY <1>0, <1>2, FirstIsIn DEF Entry
    <2>2. Offer(e, more) /\ host' = host /\ pc = "entries"
      BY <1>2 DEF Entry
    <2>3. root \in 1..Len(Roots) /\ InScope(Here, e)
      BY <1>0, <2>1, <2>2 DEF InsideScope
    <2> HIDE DEF e, more
    <2>4. QED BY <1>a, <2>1, <2>2, <2>3
  <1>3. CASE UNCHANGED <<host, rows, buckets>>
    BY <1>3, <1>b
  <1>4. QED
    BY <1>1, <1>2, <1>3
    DEF WNext, Walked, wvars, matches, tallies, NoOffer, Stop, RootMissing, RootSpent,
        Finish, DirOverBudget, BreakCycle, ListingFails, List, TreeDone,
        EntryOverBudget, EntrySpent, DirectoryDone, TimeRunsOut

------------------------------------------------------------------------------
(* Nothing in scope is lost.                                               *)

(* A host on which a directory is known by one path: no bind mount or      *)
(* similar shows it twice, and the device and inode that tell directories  *)
(* apart are recorded for all of them or for none.                         *)
NoAliases ==
  /\ \A p, q \in Path :
       IsTree(p) /\ IsTree(q) /\ Identified(p) /\ host.id[p] = host.id[q] => p = q
  /\ \/ \A p \in Path : IsTree(p) => Dev(p) # 0
     \/ \A p \in Path : IsTree(p) => ~Identified(p)

(* The facts that still call themselves complete have the inode.           *)
Shown(p) ==
  /\ \A i \in Interest : Complete(i) /\ p \in host.match[i] => p \in rows[i]
  /\ \A t \in Tally : Complete(t) /\ Counted(t, p) => buckets[t][host.key[t][p]] > 0

(* Strictly below d there is, among the directories of P and the entries   *)
(* of T, the inode or a directory above it; and that is what the walk      *)
(* still holds.                                                            *)
Holds(P, T, d, p) ==
  \/ \E x \in P : d \in Above[x] /\ x \in Above[p]
  \/ \E e \in T : d \in Above[e] /\ (p = e \/ e \in Above[p])

Listed == IF pc = "entries" THEN todo ELSE {}

Waiting(d, p) == Holds(Pending, Listed, d, p)

InTree == pc \in {"dirs", "entries"}

(* Two directories from which the walk sees the same boundaries.           *)
SameScope(d, r) == CrossFS \/ Dev(d) = Dev(r)

FinishedRoots ==
  \A k \in 1..Len(Roots), p \in Path :
    (k < root \/ pc = "done") /\ InScope(Roots[k], p) => Shown(p)

ThisRoot ==
  InTree => \A p \in Path : InScope(Here, p) =>
    Shown(p) \/ Waiting(Here, p) \/ (Here \in Pending /\ p # Here)

(* A directory that was entered is not entered again: what is below it has *)
(* been shown, or is held below it under the root the walk is at.          *)
EnteredDirs ==
  \A d, p \in Path : IsTree(d) /\ Seen(d) /\ p # d /\ InScope(d, p) =>
    Shown(p) \/ (InTree /\ SameScope(d, Here) /\ Waiting(d, p))

Accounted == NoAliases /\ FinishedRoots /\ ThisRoot /\ EnteredDirs

(* What is below a directory is one of its entries or below one: the       *)
(* first, in walk order, of the inodes below the directory on the way.     *)
LEMMA EntryOnTheWay ==
  ASSUME NEW d \in Path, NEW p \in Path, d \in Above[p]
  PROVE  \E e \in Entries(d) : e = p \/ e \in Above[p]
  <1> DEFINE S == {q \in Above[p] \cup {p} : d \in Above[q]}
  <1>0. /\ Path \subseteq Nat
        /\ \A q \in Path : Above[q] \subseteq Path
        /\ \A q \in Path : \A u \in Above[q] : u < q /\ Above[u] \subseteq Above[q]
        /\ \A q \in Path : \A u, v \in Above[q] : u = v \/ u \in Above[v] \/ v \in Above[u]
    BY WalkerAssumption
  <1>1. S \subseteq Path /\ p \in S
    BY <1>0
  <1>2. PICK e \in S : \A q \in S : e <= q
    <2>1. S \subseteq Nat /\ S # {}
      BY <1>0, <1>1
    <2> HIDE DEF S
    <2>2. QED BY <2>1, LeastExists
  <1>3. e \in Path /\ d \in Above[e] /\ (e = p \/ e \in Above[p])
    BY <1>1
  <1>4. ASSUME NEW u \in Above[e] PROVE u \in Above[d] \cup {d}
    <2>1. u \in Above[p] /\ u < e /\ u \in Nat /\ e \in Nat
      BY <1>0, <1>3, <1>4
    <2>2. u \notin S
      BY <1>2, <2>1
    <2>3. d \notin Above[u]
      BY <2>1, <2>2
    <2>4. QED BY <1>0, <2>1, <2>3
  <1>5. QED BY <1>3, <1>4 DEF Entries

(* What is held below a directory is held below those above it.            *)
LEMMA HoldsUp ==
  ASSUME NEW P, NEW T, P \subseteq Path, T \subseteq Path,
         NEW x \in Path, NEW d \in Above[x], NEW p, Holds(P, T, x, p)
  PROVE  Holds(P, T, d, p)
  <1>1. \A y \in Path : x \in Above[y] => d \in Above[y]
    BY WalkerAssumption
  <1>2. QED BY <1>1 DEF Holds

(* A fact only grows, and what was truncated stays truncated.              *)
LEMMA FactsGrow ==
  ASSUME Counting, [WNext]_wvars
  PROVE  /\ host' = host
         /\ \A f \in Fact : Complete(f)' => Complete(f)
         /\ \A i \in Interest : rows[i] \subseteq rows'[i]
         /\ \A t \in Tally, k \in Key : buckets[t][k] > 0 => buckets'[t][k] > 0
  <1>0. /\ reasons \in [Fact -> SUBSET Reason] /\ rows \in [Interest -> SUBSET Path]
        /\ overflow \in [Interest -> Nat] /\ dropped \in [Tally -> Nat]
        /\ buckets \in [Tally -> [Key -> Nat]]
    BY DEF Counting, WTypeOK
  <1>1. host' = host
    BY DEF WNext, Walked, wvars, RootMissing, RootFile, RootDirectory, RootSpent, Finish,
           DirOverBudget, BreakCycle, ListingFails, List, TreeDone, EntryOverBudget,
           EntrySpent, Entry, DirectoryDone, TimeRunsOut, Stop
  <1>2. CASE \E p, more : Offer(p, more)
    <2>1. PICK p, more : Offer(p, more)
      BY <1>2
    <2>2. \A f \in Fact : reasons[f] \subseteq reasons'[f]
      BY <1>0, <2>1 DEF Offer
    <2>3. \A i \in Interest : rows[i] \subseteq rows'[i] /\ overflow'[i] >= overflow[i]
      BY <1>0, <2>1 DEF Offer, OfferInterests
    <2>4. \A t \in Tally : dropped'[t] >= dropped[t]
      BY <1>0, <2>1 DEF Offer, OfferTallies
    <2>5. \A t \in Tally, k \in Key : buckets[t][k] > 0 => buckets'[t][k] > 0
      BY <1>0, <2>1 DEF Offer, OfferTallies
    <2>6. ASSUME NEW f \in Fact, Complete(f)' PROVE Complete(f)
      <3>1. CASE f \in Interest
        <4>1. reasons'[f] = {} /\ overflow'[f] = 0 /\ overflow[f] \in Nat
          BY <1>0, <2>6, <3>1 DEF Complete
        <4>2. reasons[f] = {} /\ overflow[f] = 0
          BY <2>2, <2>3, <3>1, <4>1
        <4>3. QED BY <3>1, <4>2 DEF Complete
      <3>2. CASE f \notin Interest
        <4>1. reasons'[f] = {} /\ dropped'[f] = 0 /\ dropped[f] \in Nat /\ f \in Tally
          BY <1>0, <2>6, <3>2 DEF Complete, Fact
        <4>2. reasons[f] = {} /\ dropped[f] = 0
          BY <2>2, <2>4, <4>1
        <4>3. QED BY <3>2, <4>2 DEF Complete
      <3>3. QED BY <3>1, <3>2
    <2>7. QED BY <1>1, <2>3, <2>5, <2>6
  <1>3. CASE UNCHANGED <<matches, tallies>> /\ \A f \in Fact : reasons[f] \subseteq reasons'[f]
    <2>1. UNCHANGED <<rows, overflow, buckets, dropped>>
      BY <1>3 DEF matches, tallies
    <2>2. \A f \in Fact : Complete(f)' => Complete(f)
      BY <1>3, <2>1 DEF Complete
    <2>3. QED BY <1>1, <2>1, <2>2
  <1>4. (\E why : TruncateAll(why)) \/ UNCHANGED reasons
          => \A f \in Fact : reasons[f] \subseteq reasons'[f]
    BY <1>0 DEF TruncateAll
  <1>5. \/ \E p, more : Offer(p, more)
        \/ UNCHANGED <<matches, tallies>> /\ ((\E why : TruncateAll(why)) \/ UNCHANGED reasons)
    <2>1. CASE RootFile \/ RootDirectory \/ Entry
      BY <2>1 DEF RootFile, RootDirectory, Entry
    <2>2. CASE RootMissing \/ Finish \/ BreakCycle \/ ListingFails \/ List \/ TreeDone
      BY <2>2 DEF RootMissing, Finish, BreakCycle, ListingFails, List, TreeDone, NoOffer
    <2>3. CASE RootSpent \/ DirOverBudget \/ EntryOverBudget \/ EntrySpent
      BY <2>3 DEF RootSpent, DirOverBudget, EntryOverBudget, EntrySpent, Stop, NoOffer
    <2>4. CASE DirectoryDone \/ TimeRunsOut \/ UNCHANGED wvars
      BY <2>4 DEF DirectoryDone, TimeRunsOut, wvars, NoOffer
    <2>5. QED BY <2>1, <2>2, <2>3, <2>4 DEF WNext, Walked
  <1>6. QED BY <1>2, <1>3, <1>4, <1>5

(* Shown once, shown for good.                                             *)
LEMMA ShownStays ==
  ASSUME Counting, [WNext]_wvars, NEW p \in Path, Shown(p)
  PROVE  Shown(p)'
  <1>1. /\ host' = host
        /\ \A f \in Fact : Complete(f)' => Complete(f)
        /\ \A i \in Interest : rows[i] \subseteq rows'[i]
        /\ \A t \in Tally, k \in Key : buckets[t][k] > 0 => buckets'[t][k] > 0
    BY FactsGrow
  <1>2. Interest \subseteq Fact /\ Tally \subseteq Fact
    BY DEF Fact
  <1>3. ASSUME NEW t \in Tally, Complete(t)', Counted(t, p)'
        PROVE  (buckets[t][host.key[t][p]] > 0)'
    <2>1. Counted(t, p) /\ host.key[t][p] \in Key
      BY <1>1, <1>3, Givens DEF Counted, Counting
    <2>2. QED BY <1>1, <1>2, <1>3, <2>1 DEF Shown
  <1>4. ASSUME NEW i \in Interest, Complete(i)', (p \in host.match[i])'
        PROVE  (p \in rows[i])'
    BY <1>1, <1>2, <1>4 DEF Shown
  <1>5. QED BY <1>3, <1>4 DEF Shown

(* When every fact is truncated there is nothing left to answer for.       *)
LEMMA NoneComplete ==
  ASSUME \A f \in Fact : reasons'[f] # {}, NEW p
  PROVE  Shown(p)'
  BY DEF Shown, Complete, Fact

LEMMA TruncatedAll ==
  ASSUME NEW why, TruncateAll(why), NEW p
  PROVE  Shown(p)'
  <1>1. \A f \in Fact : reasons'[f] # {}
    BY DEF TruncateAll
  <1>2. QED BY <1>1, NoneComplete

(* An inode that is offered is recorded, or the fact says it is not.       *)
LEMMA OfferedIsShown ==
  ASSUME Counting, NEW p \in Path, NEW more, Offer(p, more), host' = host
  PROVE  Shown(p)'
  <1>0. /\ overflow \in [Interest -> Nat] /\ dropped \in [Tally -> Nat]
        /\ buckets \in [Tally -> [Key -> Nat]] /\ rows \in [Interest -> SUBSET Path]
        /\ Interest \cap Tally = {}
        /\ host.key \in [Tally -> [Path -> Key \cup {None}]]
    BY Givens, WalkerAssumption DEF Counting, WTypeOK
  <1>1. ASSUME NEW i \in Interest, Complete(i)', (p \in host.match[i])'
        PROVE  (p \in rows[i])'
    <2>1. overflow'[i] = 0 /\ Matched(i, p) /\ overflow[i] \in Nat
      BY <1>0, <1>1 DEF Complete, Matched
    <2>2. ~Full(i)
      BY <2>1 DEF Offer, OfferInterests
    <2>3. QED BY <2>1, <2>2 DEF Offer, OfferInterests
  <1>2. ASSUME NEW t \in Tally, Complete(t)', Counted(t, p)'
        PROVE  (buckets[t][host.key[t][p]] > 0)'
    <2>1. dropped'[t] = 0 /\ Counted(t, p) /\ dropped[t] \in Nat /\ host.key[t][p] \in Key
      BY <1>0, <1>2 DEF Complete, Counted
    <2>2. ~Refuses(t, p)
      BY <2>1 DEF Offer, OfferTallies
    <2>3. buckets'[t][host.key[t][p]] = buckets[t][host.key[t][p]] + 1
      BY <2>1, <2>2 DEF Offer, OfferTallies
    <2>4. buckets[t][host.key[t][p]] \in Nat
      BY <1>0, <2>1
    <2>5. QED BY <2>3, <2>4
  <1>3. QED BY <1>1, <1>2 DEF Shown

(* A directory that is known by its identity is on the filesystem of the   *)
(* root it was reached from, unless the walk crosses filesystems.          *)
LEMMA EnteredInScope ==
  ASSUME NoAliases, NEW x \in Path, Here \in Path, MayEnter(x), Identified(x)
  PROVE  SameScope(x, Here)
  <1>1. CASE x = Here
    BY <1>1 DEF SameScope
  <1>2. CASE x # Here
    <2>1. IsTree(x) /\ IsTree(Here) /\ ~DeclineBoundary(x, Dev(Here))
      BY <1>2 DEF MayEnter, InScope
    <2>2. Dev(x) # 0 /\ Dev(Here) # 0
      BY <2>1 DEF NoAliases
    <2>3. QED BY <2>1, <2>2 DEF DeclineBoundary, SameScope
  <1>3. QED BY <1>1, <1>2

(* The scope of a directory on the way is the rest of the scope.           *)
LEMMA ScopeBelow ==
  ASSUME NEW r \in Path, NEW p \in Path, NEW x \in Above[p], r \in Above[x],
         InScope(r, p), SameScope(r, x)
  PROVE  IsTree(x) /\ InScope(x, p) /\ p # x
  <1>1. /\ Above[p] \subseteq Path /\ x \in Path /\ p # x
        /\ \A q \in Path : \A u \in Above[q] : Above[u] \subseteq Above[q]
        /\ r \in Above[p] /\ p # r
    <2>1. /\ \A q \in Path : Above[q] \subseteq Path
          /\ \A q \in Path : \A u \in Above[q] : u < q /\ u \in Nat /\ q \in Nat
          /\ \A q \in Path : \A u \in Above[q] : Above[u] \subseteq Above[q]
      BY WalkerAssumption
    <2>2. QED BY <2>1
  <1>2. \A q \in Above[p] : r \in Above[q] => IsTree(q) /\ ~DeclineBoundary(q, Dev(r))
    BY <1>1 DEF InScope
  <1>3. ASSUME NEW q \in Above[p], x \in Above[q]
        PROVE  IsTree(q) /\ ~DeclineBoundary(q, Dev(x))
    <2>1. r \in Above[q]
      BY <1>1, <1>3
    <2>2. QED BY <1>2, <2>1 DEF DeclineBoundary, SameScope
  <1>4. QED BY <1>1, <1>2, <1>3 DEF InScope

(* Popping takes one directory off the stack.                              *)
LEMMA PopKeeps ==
  ASSUME frontier \in [0..MaxDepth -> SUBSET Path], Pop,
         NEW x \in Pending, x # Next1
  PROVE  x \in Pending'
  BY DEF Pop, Pending

(* Listing a directory holds its entries, or truncates every fact.         *)
LEMMA ListHolds ==
  ASSUME Counting, List, NEW d \in Path, d = Next1, NEW p \in Path, d \in Above[p]
  PROVE  Shown(p)' \/ Waiting(d, p)'
  <1>1. /\ pc' = "entries" /\ todo' = Listing(d)
        /\ Listing(d) # Entries(d) => TruncateAll("dir_listing")
    BY DEF List
  <1>2. PICK e \in Entries(d) : e = p \/ e \in Above[p]
    BY EntryOnTheWay
  <1>3. CASE e \notin Listing(d)
    BY <1>1, <1>2, <1>3, TruncatedAll
  <1>4. CASE e \in Listing(d)
    <2>1. e \in Listed' /\ d \in Above[e]
      BY <1>1, <1>2, <1>4 DEF Listed, Entries
    <2>2. Holds(Pending', Listed', d, p)
      BY <1>2, <2>1 DEF Holds
    <2>3. QED BY <2>2 DEF Waiting
  <1>5. QED BY <1>3, <1>4

(* A directory met again has been dealt with below, or is being.           *)
LEMMA BreakHolds ==
  ASSUME Counting, InsideScope, EnteredDirs, [WNext]_wvars, BreakCycle,
         NEW d \in Path, d = Next1, NEW p \in Path, p # d, InScope(d, p)
  PROVE  Shown(p)' \/ Waiting(d, p)'
  <1>1. /\ Pending # {} /\ pc = "dirs" /\ Seen(d) /\ Pop
        /\ frontier \in [0..MaxDepth -> SUBSET Path]
    BY DEF BreakCycle, Counting, WTypeOK
  <1>2. Top \in 0..MaxDepth /\ d \in frontier[Top]
    BY <1>1, TopIsIn
  <1>3. IsTree(d)
    BY <1>1, <1>2 DEF InsideScope, MayEnter
  <1>4. CASE Shown(p)
    BY <1>4, ShownStays
  <1>5. CASE Waiting(d, p)
    <2>1. PICK x \in Pending : d \in Above[x] /\ x \in Above[p]
      BY <1>1, <1>5 DEF Waiting, Holds, Listed
    <2>2. x # d
      <3>1. \A q \in Path : \A u \in Above[q] : u < q /\ q \in Nat
        BY WalkerAssumption
      <3>2. QED BY <2>1, <3>1
    <2>3. x \in Pending'
      BY <1>1, <2>1, <2>2, PopKeeps
    <2>4. Holds(Pending', Listed', d, p)
      BY <2>1, <2>3 DEF Holds
    <2>5. QED BY <2>4 DEF Waiting
  <1>6. QED BY <1>1, <1>3, <1>4, <1>5 DEF EnteredDirs

(* What the walk holds below a directory, it still holds after a step, or  *)
(* has shown: a directory gives way to its entries, an entry to itself and,*)
(* when it is a directory, to what is below it.                            *)
LEMMA WaitingStep ==
  ASSUME Counting, InsideScope, NoAliases, EnteredDirs, [WNext]_wvars, InTree,
         NEW r \in Path, NEW p \in Path, InScope(r, p), SameScope(r, Here), Waiting(r, p)
  PROVE  Shown(p)' \/ (InTree' /\ Here' = Here /\ Waiting(r, p)')
  <1>0. /\ frontier \in [0..MaxDepth -> SUBSET Path] /\ todo \subseteq Path
        /\ Pending \subseteq Path /\ Listed \subseteq Path
        /\ MaxDepth \in Nat /\ depth \in 0..MaxDepth /\ Here \in Path
    <2>1. /\ frontier \in [0..MaxDepth -> SUBSET Path] /\ todo \subseteq Path
          /\ depth \in 0..MaxDepth /\ root \in 1..Len(Roots) + 1 /\ host \in Hosts
          /\ root <= Len(Roots)
      BY DEF Counting, WTypeOK, InTree
    <2>2. /\ MaxDepth \in Nat /\ Len(Roots) \in Nat
          /\ \A k \in 1..Len(Roots) : Roots[k] \in Path
      BY <2>1, Givens
    <2>3. Here \in Path
      BY <2>1, <2>2 DEF Here
    <2>4. QED BY <2>1, <2>2, <2>3 DEF Pending, Listed
  <1>1. frontier' \in [0..MaxDepth -> SUBSET Path] /\ Pending' \subseteq Path /\ Listed' \subseteq Path
    <2>1. Counting'
      BY CountingStep
    <2>2. frontier' \in [0..MaxDepth -> SUBSET Path] /\ todo' \subseteq Path
      BY <2>1 DEF Counting, WTypeOK
    <2>3. QED BY <2>2 DEF Pending, Listed
  <1>a. ASSUME NEW why, TruncateAll(why) PROVE Shown(p)'
    BY <1>a, TruncatedAll
  <1>b. ASSUME Pending \subseteq Pending', Listed \subseteq Listed' PROVE Waiting(r, p)'
    <2>1. Holds(Pending', Listed', r, p)
      BY <1>b DEF Waiting, Holds
    <2>2. QED BY <2>1 DEF Waiting
  <1>2. CASE DirOverBudget \/ ListingFails \/ EntryOverBudget \/ EntrySpent
    BY <1>2, <1>a DEF DirOverBudget, ListingFails, EntryOverBudget, EntrySpent, Stop
  <1>3. CASE BreakCycle \/ List
    <2>1. /\ pc = "dirs" /\ Pending # {} /\ Pop /\ InTree' /\ Here' = Here
      BY <1>3 DEF BreakCycle, List, InTree, Here
    <2>2. PICK x \in Pending : r \in Above[x] /\ x \in Above[p]
      BY <2>1 DEF Waiting, Holds, Listed
    <2>3. CASE x # Next1
      <3>1. x \in Pending'
        BY <1>0, <2>1, <2>2, <2>3, PopKeeps
      <3>2. Holds(Pending', Listed', r, p)
        BY <2>2, <3>1 DEF Holds
      <3>3. QED BY <2>1, <3>2 DEF Waiting
    <2>4. CASE x = Next1
      <3>1. x \in Path /\ MayEnter(x)
        BY <1>0, <2>1, <2>2, <2>4, TopIsIn DEF InsideScope
      <3>2. Shown(p)' \/ Waiting(x, p)'
        <4>1. CASE List
          BY <2>2, <2>4, <3>1, <4>1, ListHolds
        <4>2. CASE BreakCycle
          <5>1. Identified(x)
            BY <2>4, <4>2 DEF BreakCycle, Seen
          <5>2. SameScope(x, Here)
            BY <1>0, <3>1, <5>1, EnteredInScope
          <5>3. SameScope(r, x)
            BY <5>2 DEF SameScope
          <5>4. InScope(x, p) /\ p # x
            BY <2>2, <5>3, ScopeBelow
          <5>5. QED BY <2>4, <3>1, <4>2, <5>4, BreakHolds
        <4>3. QED BY <1>3, <4>1, <4>2
      <3>3. ASSUME Waiting(x, p)' PROVE Waiting(r, p)'
        <4>1. Holds(Pending', Listed', x, p)
          BY <3>3 DEF Waiting
        <4>2. Holds(Pending', Listed', r, p)
          BY <1>1, <2>2, <3>1, <4>1, HoldsUp
        <4>3. QED BY <4>2 DEF Waiting
      <3>4. QED BY <2>1, <3>2, <3>3
    <2>5. QED BY <2>3, <2>4
  <1>4. CASE TreeDone
    BY <1>4 DEF TreeDone, Waiting, Holds, Listed
  <1>5. CASE Entry
    <2> DEFINE e == First(todo)
               more == IF IsTree(e) /\ depth + 1 > MaxDepth THEN {"depth_limit"} ELSE {}
    <2>1. /\ pc = "entries" /\ InTree' /\ Here' = Here /\ host' = host
          /\ e \in todo /\ e \in Path /\ Offer(e, more) /\ todo' = todo \ {e} /\ pc' = "entries"
      BY <1>0, <1>5, FirstIsIn DEF Entry, InTree, Here
    <2>2. /\ IsTree(e) /\ depth + 1 <= MaxDepth /\ ~DeclineBoundary(e, Dev(Here))
            => frontier' = [frontier EXCEPT ![depth + 1] = @ \cup {e}]
          /\ frontier' = [frontier EXCEPT ![depth + 1] = @ \cup {e}] \/ frontier' = frontier
      BY <1>5 DEF Entry, Here
    <2>3. IsTree(e) /\ depth + 1 > MaxDepth => "depth_limit" \in more
      OBVIOUS
    <2> HIDE DEF e, more
    <2>4. Pending \subseteq Pending'
      BY <1>0, <2>2 DEF Pending
    <2>5. CASE \E x \in Pending : r \in Above[x] /\ x \in Above[p]
      <3>1. Holds(Pending', Listed', r, p)
        BY <2>4, <2>5 DEF Holds
      <3>2. QED BY <2>1, <3>1 DEF Waiting
    <2>6. CASE \E u \in todo : u # e /\ r \in Above[u] /\ (p = u \/ u \in Above[p])
      <3>1. Listed' = todo \ {e}
        BY <2>1 DEF Listed
      <3>2. Holds(Pending', Listed', r, p)
        BY <2>6, <3>1 DEF Holds
      <3>3. QED BY <2>1, <3>2 DEF Waiting
    <2>7. CASE p = e
      BY <2>1, <2>7, OfferedIsShown
    <2>8. CASE r \in Above[e] /\ e \in Above[p]
      <3>1. IsTree(e) /\ ~DeclineBoundary(e, Dev(r))
        <4>1. \A q \in Path : \A u \in Above[q] : u < q /\ q \in Nat /\ Above[u] \subseteq Above[q]
          BY WalkerAssumption
        <4>2. p # r
          BY <2>8, <4>1
        <4>3. QED BY <2>8, <4>2 DEF InScope
      <3>2. ~DeclineBoundary(e, Dev(Here))
        BY <3>1 DEF DeclineBoundary, SameScope
      <3>3. CASE depth + 1 > MaxDepth
        <4>1. \A f \in Fact : reasons'[f] # {}
          BY <2>1, <2>3, <3>1, <3>3 DEF Offer
        <4>2. QED BY <4>1, NoneComplete
      <3>4. CASE depth + 1 <= MaxDepth
        <4>1. e \in Pending'
          BY <1>0, <2>2, <3>1, <3>2, <3>4 DEF Pending
        <4>2. Holds(Pending', Listed', r, p)
          BY <2>8, <4>1 DEF Holds
        <4>3. QED BY <2>1, <4>2 DEF Waiting
      <3>5. QED BY <1>0, <3>3, <3>4
    <2>9. Listed = todo
      BY <2>1 DEF Listed
    <2>10. QED BY <2>5, <2>6, <2>7, <2>8, <2>9 DEF Waiting, Holds
  <1>6. CASE DirectoryDone
    <2>1. Pending' = Pending /\ Listed = {} /\ InTree' /\ Here' = Here
      BY <1>6 DEF DirectoryDone, place, Pending, Listed, InTree, Here
    <2>2. QED BY <1>b, <2>1
  <1>7. CASE UNCHANGED <<pc, root, frontier, todo>>
    <2>1. Pending' = Pending /\ Listed' = Listed /\ InTree' /\ Here' = Here
      BY <1>7 DEF Pending, Listed, InTree, Here
    <2>2. QED BY <1>b, <2>1
  <1>8. QED
    BY <1>2, <1>3, <1>4, <1>5, <1>6, <1>7
    DEF WNext, Walked, wvars, place, InTree, RootMissing, RootFile, RootDirectory, RootSpent,
        Finish, TimeRunsOut

(* The scopes are those of the host, which does not change.                *)
LEMMA HostIsFixed ==
  ASSUME host' = host
  PROVE  /\ NoAliases' <=> NoAliases
         /\ \A d, r : SameScope(d, r)' <=> SameScope(d, r)
  BY DEF NoAliases, SameScope, IsTree, Identified, Dev, CrossFS

(* A root is finished when everything in its scope has been shown.         *)
LEMMA FinishedStep ==
  ASSUME Counting, FinishedRoots, ThisRoot, [WNext]_wvars
  PROVE  FinishedRoots'
  <1> SUFFICES ASSUME NEW k \in 1..Len(Roots), NEW p \in Path,
                      k < root' \/ pc' = "done", InScope(Roots[k], p)'
               PROVE  Shown(p)'
    BY DEF FinishedRoots
  <1>0. /\ host' = host /\ InScope(Roots[k], p)
        /\ Len(Roots) \in Nat /\ root \in 1..Len(Roots) + 1 /\ Roots[k] \in Path
    BY FactsGrow, ScopeIsFixed, Givens DEF Counting, WTypeOK
  <1>1. CASE k < root \/ pc = "done"
    BY <1>0, <1>1, ShownStays DEF FinishedRoots
  <1>2. CASE RootMissing \/ RootSpent \/ DirOverBudget \/ EntryOverBudget \/ EntrySpent
    BY <1>2, TruncatedAll
    DEF RootMissing, RootSpent, DirOverBudget, EntryOverBudget, EntrySpent, Stop
  <1>3. CASE RootFile /\ k = root
    <2>1. p = Roots[root] /\ p \in Path /\ Offer(p, {})
      BY <1>0, <1>3 DEF RootFile, InScope
    <2>2. QED BY <1>0, <2>1, OfferedIsShown
  <1>4. CASE TreeDone /\ k = root
    <2>1. Shown(p)
      BY <1>0, <1>4 DEF TreeDone, ThisRoot, InTree, Here, Waiting, Holds, Listed
    <2>2. QED BY <2>1, ShownStays
  <1>5. CASE Finish
    BY <1>0, <1>1, <1>5 DEF Finish
  <1>6. CASE root' = root + 1 /\ k # root /\ pc' # "done"
    BY <1>0, <1>1, <1>6
  <1>7. CASE root' = root /\ (pc' = "done" => pc = "done")
    BY <1>1, <1>7
  <1>8. QED
    BY <1>1, <1>2, <1>3, <1>4, <1>5, <1>6, <1>7
    DEF WNext, Walked, wvars, place, RootFile, RootDirectory, NextRoot, BreakCycle,
        ListingFails, List, TreeDone, Entry, DirectoryDone, TimeRunsOut

(* Everything in the scope of the root the walk is at is shown or held.    *)
LEMMA ThisRootStep ==
  ASSUME Counting, InsideScope, NoAliases, ThisRoot, EnteredDirs, [WNext]_wvars
  PROVE  ThisRoot'
  <1> SUFFICES ASSUME InTree', NEW p \in Path, InScope(Here, p)'
               PROVE  (Shown(p) \/ Waiting(Here, p) \/ (Here \in Pending /\ p # Here))'
    BY DEF ThisRoot
  <1>0. /\ host' = host /\ frontier \in [0..MaxDepth -> SUBSET Path] /\ MaxDepth \in Nat
        /\ Len(Roots) \in Nat /\ root \in 1..Len(Roots) + 1
        /\ \A k \in 1..Len(Roots) : Roots[k] \in Path
        /\ InTree => root <= Len(Roots)
    BY FactsGrow, Givens DEF Counting, WTypeOK, InTree
  <1>1. CASE RootDirectory
    <2>1. /\ Here' = Here /\ Offer(Here, {}) /\ Here \in Path
          /\ frontier' = [frontier EXCEPT ![0] = {Here}]
      BY <1>0, <1>1 DEF RootDirectory, Here
    <2>2. Here \in Pending'
      BY <1>0, <2>1 DEF Pending
    <2>3. p = Here => Shown(p)'
      BY <1>0, <2>1, OfferedIsShown
    <2>4. QED BY <2>1, <2>2, <2>3
  <1>2. CASE InTree /\ ~RootDirectory
    <2>1. CASE TreeDone
      BY <2>1 DEF TreeDone, InTree
    <2>2. CASE ~TreeDone
      <3>1. Here' = Here /\ Here \in Path
        BY <1>0, <1>2, <2>2
        DEF WNext, Walked, wvars, place, InTree, Here, RootMissing, RootFile, RootSpent,
            Finish, Stop, DirOverBudget, BreakCycle, ListingFails, List, EntryOverBudget,
            EntrySpent, Entry, DirectoryDone, TimeRunsOut
      <3>2. InScope(Here, p)
        <4>1. PICK h \in Path : h = Here
          BY <3>1
        <4>2. InScope(h, p)'
          BY <3>1, <4>1
        <4>3. QED BY <1>0, <4>1, <4>2, ScopeIsFixed
      <3>3. CASE Shown(p)
        BY <3>3, ShownStays
      <3>4. CASE Waiting(Here, p)
        <4>1. PICK h \in Path : h = Here
          BY <3>1
        <4>2. Shown(p)' \/ Waiting(h, p)'
          BY <1>2, <3>2, <3>4, <4>1, WaitingStep DEF SameScope
        <4>3. QED BY <3>1, <4>1, <4>2
      <3>5. CASE Here \in Pending /\ p # Here
        <4>1. PICK h \in Path : h = Here
          BY <3>1
        <4>2. h \in Above[p]
          BY <3>2, <3>5, <4>1 DEF InScope
        <4>3. CASE (BreakCycle \/ List) /\ h = Next1
          <5>1. Shown(p)' \/ Waiting(h, p)'
            BY <3>2, <3>5, <4>1, <4>2, <4>3, BreakHolds, ListHolds
          <5>2. QED BY <3>1, <4>1, <5>1
        <4>4. CASE (BreakCycle \/ List) /\ h # Next1
          <5>1. h \in Pending'
            BY <1>0, <3>5, <4>1, <4>4, PopKeeps DEF BreakCycle, List
          <5>2. QED BY <3>1, <3>5, <4>1, <5>1
        <4>5. CASE ListingFails
          BY <4>5, TruncatedAll DEF ListingFails
        <4>6. CASE Entry
          <5>1. Pending \subseteq Pending'
            BY <1>0, <4>6 DEF Entry, Pending
          <5>2. QED BY <3>1, <3>5, <5>1
        <4>7. CASE frontier' = frontier
          <5>1. Pending' = Pending
            BY <4>7 DEF Pending
          <5>2. QED BY <3>1, <3>5, <5>1
        <4>8. QED
          BY <1>2, <2>2, <4>3, <4>4, <4>5, <4>6, <4>7
          DEF WNext, Walked, wvars, place, RootMissing, RootFile, RootSpent, Finish, Stop,
              NextRoot, DirOverBudget, EntryOverBudget, EntrySpent, DirectoryDone, TimeRunsOut
      <3>6. QED BY <1>2, <3>2, <3>3, <3>4, <3>5 DEF ThisRoot
    <2>3. QED BY <2>1, <2>2
  <1>3. InTree \/ RootDirectory
    BY DEF WNext, Walked, wvars, InTree, RootMissing, RootFile, RootSpent, Finish, Stop,
           DirOverBudget, BreakCycle, ListingFails, List, TreeDone, EntryOverBudget,
           EntrySpent, Entry, DirectoryDone, TimeRunsOut
  <1>4. QED BY <1>1, <1>2, <1>3

(* What is below a directory that was entered is shown, or held below it.  *)
LEMMA EnteredStep ==
  ASSUME Counting, InsideScope, NoAliases, EnteredDirs, [WNext]_wvars
  PROVE  EnteredDirs'
  <1> SUFFICES ASSUME NEW d \in Path, NEW p \in Path,
                      (IsTree(d) /\ Seen(d) /\ p # d /\ InScope(d, p))'
               PROVE  (Shown(p) \/ (InTree /\ SameScope(d, Here) /\ Waiting(d, p)))'
    BY DEF EnteredDirs
  <1>0. /\ host' = host /\ IsTree(d) /\ p # d /\ InScope(d, p) /\ Identified(d)
        /\ host.id[d] \in visited'
        /\ \A r : SameScope(d, r)' <=> SameScope(d, r)
        /\ frontier \in [0..MaxDepth -> SUBSET Path]
    BY FactsGrow, ScopeIsFixed, HostIsFixed DEF Seen, Identified, Counting, WTypeOK
  <1>1. CASE Seen(d)
    <2>1. CASE Shown(p)
      BY <2>1, ShownStays
    <2>2. CASE InTree /\ SameScope(d, Here) /\ Waiting(d, p)
      <3>1. Shown(p)' \/ (InTree' /\ Here' = Here /\ Waiting(d, p)')
        BY <1>0, <2>2, WaitingStep
      <3>2. ASSUME Here' = Here PROVE SameScope(d, Here)'
        BY <1>0, <2>2, <3>2 DEF SameScope, CrossFS, Dev
      <3>3. QED BY <3>1, <3>2
    <2>3. QED BY <1>0, <1>1, <2>1, <2>2 DEF EnteredDirs
  <1>2. CASE ~Seen(d)
    <2>1. host.id[d] \notin visited
      BY <1>0, <1>2 DEF Seen
    <2>2. CASE ListingFails
      BY <2>2, TruncatedAll DEF ListingFails
    <2>3. CASE List
      <3>1. Pending # {} /\ pc = "dirs" /\ pc' = "entries" /\ Enter(Next1) /\ root' = root
        BY <2>3 DEF List
      <3>2. Next1 \in Path /\ MayEnter(Next1) /\ Here \in Path
        <4>1. Top \in 0..MaxDepth /\ Next1 \in frontier[Top] /\ Next1 \in Path
          BY <1>0, <3>1, TopIsIn
        <4>2. Here \in Path
          BY <3>1, Givens DEF Counting, WTypeOK, Here
        <4>3. QED BY <3>1, <4>1, <4>2 DEF InsideScope
      <3>3. host.id[d] = host.id[Next1]
        BY <1>0, <2>1, <3>1 DEF Enter
      <3>4. d = Next1
        BY <1>0, <3>2, <3>3 DEF NoAliases, MayEnter
      <3>5. Shown(p)' \/ Waiting(d, p)'
        BY <1>0, <2>3, <3>4, ListHolds DEF InScope
      <3>6. SameScope(d, Here)
        BY <1>0, <3>2, <3>4, EnteredInScope
      <3>7. Here' = Here /\ InTree'
        BY <3>1 DEF Here, InTree
      <3>8. SameScope(d, Here)'
        BY <1>0, <3>6, <3>7 DEF SameScope, CrossFS, Dev
      <3>9. QED BY <3>5, <3>7, <3>8
    <2>4. CASE visited' = visited
      BY <1>0, <2>1, <2>4
    <2>5. QED
      BY <2>2, <2>3, <2>4
      DEF WNext, Walked, wvars, place, RootMissing, RootFile, RootDirectory, RootSpent,
          Finish, Stop, NextRoot, DirOverBudget, BreakCycle, TreeDone, EntryOverBudget,
          EntrySpent, Entry, DirectoryDone, TimeRunsOut
  <1>3. QED BY <1>1, <1>2

------------------------------------------------------------------------------
(* Sums over finite sets, as MapThenSumSet computes them: an element is    *)
(* picked, and the others are summed.                                      *)

Pick(s) == CHOOSE x \in s : TRUE

SumsUp(f, w, S) ==
  f = [s \in SUBSET S |-> IF s = {} THEN 0 ELSE w[Pick(s)] + f[s \ {Pick(s)}]]

(* Induction over the subsets of a finite set: a set of them has a minimal *)
(* member.                                                                 *)
LEMMA MinimalSubset ==
  ASSUME NEW S, IsFiniteSet(S), NEW T, T \subseteq SUBSET S, T # {}
  PROVE  \E x \in T : \A y \in T : y \subseteq x => y = x
  <1>1. T \subseteq FiniteSubsetsOf(S)
    BY FS_FiniteSubsetsOfFinite
  <1>2. PICK x \in T : \A y \in T : ~(<<y, x>> \in StrictSubsetOrdering(S))
    BY <1>1, FS_StrictSubsetOrderingWellFounded, WFMin
  <1>3. QED BY <1>2 DEF StrictSubsetOrdering

(* The value of a sum, unfolded once.                                      *)
LEMMA SumEmpty ==
  ASSUME NEW f, NEW w, NEW S, SumsUp(f, w, S)
  PROVE  f[{}] = 0
  BY DEF SumsUp

LEMMA SumStep ==
  ASSUME NEW f, NEW w, NEW S, SumsUp(f, w, S), NEW s \in SUBSET S, s # {}
  PROVE  /\ Pick(s) \in s /\ s \ {Pick(s)} \in SUBSET S /\ s \ {Pick(s)} # s
         /\ f[s] = w[Pick(s)] + f[s \ {Pick(s)}]
  BY DEF SumsUp, Pick

(* The sum of a set does not depend on what else is summed.                *)
LEMMA SumUnique ==
  ASSUME NEW w, NEW S, IsFiniteSet(S), NEW R \in SUBSET S, NEW f, NEW g,
         SumsUp(f, w, S), SumsUp(g, w, R), NEW u \in SUBSET R
  PROVE  f[u] = g[u]
  <1> DEFINE T == {s \in SUBSET R : f[s] # g[s]}
  <1>1. SUFFICES ASSUME T # {} PROVE FALSE
    OBVIOUS
  <1>2. PICK s \in T : \A y \in T : y \subseteq s => y = s
    <2>1. T \subseteq SUBSET S
      OBVIOUS
    <2> HIDE DEF T
    <2>2. QED BY <1>1, <2>1, MinimalSubset
  <1>3. s # {}
    <2>1. f[{}] = 0 /\ g[{}] = 0
      BY SumEmpty
    <2>2. QED BY <2>1
  <1> DEFINE v == s \ {Pick(s)}
  <1>4. v \in SUBSET R /\ v # s /\ g[s] = w[Pick(s)] + g[v]
    BY <1>3, SumStep
  <1>5. f[s] = w[Pick(s)] + f[v]
    BY <1>3, SumStep
  <1>6. f[v] = g[v]
    BY <1>2, <1>4
  <1>7. QED BY <1>4, <1>5, <1>6

(* There is such a function.                                               *)
LEMMA SumExists ==
  ASSUME NEW w, NEW S, IsFiniteSet(S)
  PROVE  \E f : SumsUp(f, w, S)
  <1> DEFINE T == {s \in SUBSET S : ~\E f : SumsUp(f, w, s)}
  <1>1. SUFFICES ASSUME T # {} PROVE FALSE
    OBVIOUS
  <1>2. PICK s \in T : \A y \in T : y \subseteq s => y = s
    <2>1. T \subseteq SUBSET S
      OBVIOUS
    <2> HIDE DEF T
    <2>2. QED BY <1>1, <2>1, MinimalSubset
  <1> DEFINE F(u) == CHOOSE f : SumsUp(f, w, u)
             h(u) == F(u)[u]
             f == [u \in SUBSET s |-> IF u = {} THEN 0
                     ELSE w[Pick(u)] + h(u \ {Pick(u)})]
  <1>3. \A u \in SUBSET s : u # s => SumsUp(F(u), w, u)
    BY <1>2
  <1>4. \A u \in SUBSET s : u # {} => Pick(u) \in u /\ u \ {Pick(u)} \in SUBSET s
                                       /\ u \ {Pick(u)} # s /\ u \ {Pick(u)} \subseteq u
    BY DEF Pick
  <1>5. \A u \in SUBSET s : u # s => f[u] = h(u)
    <2> SUFFICES ASSUME NEW u \in SUBSET s, u # s PROVE f[u] = h(u)
      OBVIOUS
    <2>1. SumsUp(F(u), w, u) /\ IsFiniteSet(u)
      BY <1>3, FS_Subset
    <2> HIDE DEF F
    <2>2. CASE u = {}
      <3>1. h(u) = 0
        BY <2>1, <2>2, SumEmpty
      <3>2. QED BY <2>2, <3>1
    <2>3. CASE u # {}
      <3> DEFINE v == u \ {Pick(u)}
      <3>1. v \in SUBSET s /\ v # s /\ v \in SUBSET u
        BY <1>4, <2>3
      <3>2. SumsUp(F(v), w, v)
        BY <1>3, <3>1
      <3>3. F(u)[v] = F(v)[v]
        <4> HIDE DEF v
        <4>1. v \in SUBSET v
          OBVIOUS
        <4>2. QED BY <2>1, <3>1, <3>2, <4>1, SumUnique
      <3>4. h(u) = w[Pick(u)] + F(u)[v]
        BY <2>1, <2>3, SumStep
      <3>5. f[u] = w[Pick(u)] + h(v)
        BY <2>3
      <3>6. QED BY <3>3, <3>4, <3>5
    <2>4. QED BY <2>2, <2>3
  <1> HIDE DEF h
  <1>6. \A u \in SUBSET s : u # {} => f[u \ {Pick(u)}] = h(u \ {Pick(u)})
    BY <1>4, <1>5
  <1>7. SumsUp(f, w, s)
    BY <1>6 DEF SumsUp
  <1>8. QED BY <1>2, <1>7

(* What MapThenSumSet returns.                                             *)
LEMMA SumOf ==
  ASSUME NEW w, NEW S, IsFiniteSet(S)
  PROVE  \E f : SumsUp(f, w, S) /\ SumBy(w, S) = f[S]
  <1> DEFINE sum == CHOOSE f : SumsUp(f, w, S)
  <1>1. SumsUp(sum, w, S)
    BY SumExists
  <1>2. SumBy(w, S) = sum[S]
    BY DEF SumBy, MapThenSumSet, MapThenFoldSet, SumsUp, Pick
  <1> HIDE DEF sum
  <1>3. QED BY <1>1, <1>2

(* A sum of naturals is a natural.                                         *)
LEMMA SumIsNat ==
  ASSUME NEW S, IsFiniteSet(S), NEW w \in [S -> Nat]
  PROVE  SumBy(w, S) \in Nat
  <1>1. PICK f : SumsUp(f, w, S) /\ SumBy(w, S) = f[S]
    BY SumOf
  <1> DEFINE T == {s \in SUBSET S : f[s] \notin Nat}
  <1>2. T = {}
    <2> SUFFICES ASSUME T # {} PROVE FALSE
      OBVIOUS
    <2>1. PICK s \in T : \A y \in T : y \subseteq s => y = s
      <3>1. T \subseteq SUBSET S
        OBVIOUS
      <3> HIDE DEF T
      <3>2. QED BY <3>1, MinimalSubset
    <2>2. s # {}
      BY <1>1, SumEmpty
    <2>3. /\ Pick(s) \in s /\ s \ {Pick(s)} \in SUBSET S /\ s \ {Pick(s)} # s
          /\ f[s] = w[Pick(s)] + f[s \ {Pick(s)}]
      <3>1. s \in SUBSET S
        OBVIOUS
      <3>2. QED BY <1>1, <2>2, <3>1, SumStep
    <2>4. f[s \ {Pick(s)}] \in Nat
      BY <2>1, <2>3
    <2>5. QED BY <2>3, <2>4
  <1>3. QED BY <1>1, <1>2

(* One more in one bucket is one more in the sum.                          *)
Bumped(v, w, x, S) ==
  /\ w \in [S -> Nat] /\ x \in S /\ v \in [S -> Nat]
  /\ \A k \in S : v[k] = IF k = x THEN w[k] + 1 ELSE w[k]

LEMMA SumBumped ==
  ASSUME NEW S, IsFiniteSet(S), NEW w, NEW x, NEW v, Bumped(v, w, x, S)
  PROVE  SumBy(v, S) = SumBy(w, S) + 1
  <1> USE DEF Bumped
  <1>1. PICK f : SumsUp(f, w, S) /\ SumBy(w, S) = f[S]
    BY SumOf
  <1>2. PICK g : SumsUp(g, v, S) /\ SumBy(v, S) = g[S]
    BY SumOf
  <1> DEFINE good(s) == f[s] \in Nat /\ g[s] = IF x \in s THEN f[s] + 1 ELSE f[s]
             T == {s \in SUBSET S : ~good(s)}
  <1>3. T = {}
    <2> SUFFICES ASSUME T # {} PROVE FALSE
      OBVIOUS
    <2>1. PICK s \in T : \A y \in T : y \subseteq s => y = s
      <3>1. T \subseteq SUBSET S
        OBVIOUS
      <3> HIDE DEF T
      <3>2. QED BY <3>1, MinimalSubset
    <2>2. s # {}
      <3>1. f[{}] = 0 /\ g[{}] = 0
        BY <1>1, <1>2, SumEmpty
      <3>2. good({})
        BY <3>1
      <3> HIDE DEF good
      <3>3. QED BY <3>2
    <2> DEFINE u == s \ {Pick(s)}
    <2>3. /\ Pick(s) \in s /\ u \in SUBSET S /\ u # s
          /\ f[s] = w[Pick(s)] + f[u] /\ g[s] = v[Pick(s)] + g[u]
      <3>1. s \in SUBSET S
        OBVIOUS
      <3>2. /\ Pick(s) \in s /\ u \in SUBSET S /\ u # s
            /\ f[s] = w[Pick(s)] + f[u]
        BY <1>1, <2>2, <3>1, SumStep
      <3>3. g[s] = v[Pick(s)] + g[u]
        BY <1>2, <2>2, <3>1, SumStep
      <3>4. QED BY <3>2, <3>3
    <2>4. good(u)
      BY <2>1, <2>3
    <2>5. Pick(s) \in S /\ w[Pick(s)] \in Nat
      BY <2>3
    <2>6. CASE Pick(s) = x
      BY <2>3, <2>4, <2>5, <2>6
    <2>7. CASE Pick(s) # x
      <3>1. x \in s <=> x \in u
        BY <2>7
      <3>2. v[Pick(s)] = w[Pick(s)]
        BY <2>5, <2>7
      <3>3. good(s)
        <4> HIDE DEF u
        <4>1. QED BY <2>3, <2>4, <2>5, <3>1, <3>2
      <3>4. QED BY <3>3
    <2>8. QED BY <2>6, <2>7
  <1>4. good(S)
    BY <1>3
  <1>5. QED BY <1>1, <1>2, <1>4

(* The sum of zeros.                                                       *)
LEMMA SumOfNothing ==
  ASSUME NEW S, IsFiniteSet(S), NEW w, \A k \in S : w[k] = 0
  PROVE  SumBy(w, S) = 0
  <1>1. PICK f : SumsUp(f, w, S) /\ SumBy(w, S) = f[S]
    BY SumOf
  <1> DEFINE T == {s \in SUBSET S : f[s] # 0}
  <1>2. T = {}
    <2> SUFFICES ASSUME T # {} PROVE FALSE
      OBVIOUS
    <2>1. PICK s \in T : \A y \in T : y \subseteq s => y = s
      <3>1. T \subseteq SUBSET S
        OBVIOUS
      <3> HIDE DEF T
      <3>2. QED BY <3>1, MinimalSubset
    <2>2. s # {}
      BY <1>1, SumEmpty
    <2>3. /\ Pick(s) \in s /\ s \ {Pick(s)} \in SUBSET S /\ s \ {Pick(s)} # s
          /\ f[s] = w[Pick(s)] + f[s \ {Pick(s)}]
      <3>1. s \in SUBSET S
        OBVIOUS
      <3>2. QED BY <1>1, <2>2, <3>1, SumStep
    <2>4. f[s \ {Pick(s)}] = 0
      BY <2>1, <2>3
    <2>5. QED BY <2>3, <2>4
  <1>3. QED BY <1>1, <1>2

(* offer adds an inode to the total, and to its bucket or to what was      *)
(* dropped.                                                                *)
LEMMA AddUpStep == Counting /\ Balanced /\ [WNext]_wvars => Balanced'
  <1> SUFFICES ASSUME Counting, Balanced, [WNext]_wvars PROVE Balanced'
    OBVIOUS
  <1>0. /\ todo \subseteq Path /\ root \in 1..Len(Roots) + 1 /\ Len(Roots) \in Nat
        /\ buckets \in [Tally -> [Key -> Nat]] /\ tallied \in [Tally -> Nat]
        /\ dropped \in [Tally -> Nat]
        /\ host.key \in [Tally -> [Path -> Key \cup {None}]]
        /\ \A k \in 1..Len(Roots) : Roots[k] \in Path
        /\ IsFiniteSet(Key) /\ None \notin Key
    BY Givens, WalkerAssumption DEF Counting, WTypeOK
  <1>a. ASSUME NEW p \in Path, NEW more, Offer(p, more) PROVE Balanced'
    <2> SUFFICES ASSUME NEW t \in Tally
                 PROVE  tallied'[t] = SumBy(buckets'[t], Key) + dropped'[t]
      BY DEF Balanced
    <2>1. tallied[t] = SumBy(buckets[t], Key) + dropped[t]
      BY DEF Balanced
    <2>2. /\ tallied'[t] = IF Counted(t, p) THEN tallied[t] + 1 ELSE tallied[t]
          /\ dropped'[t] = IF Refuses(t, p) THEN dropped[t] + 1 ELSE dropped[t]
          /\ buckets'[t] = [k \in Key |-> IF k = host.key[t][p] /\ ~Refuses(t, p)
                                         THEN buckets[t][k] + 1 ELSE buckets[t][k]]
      BY <1>a DEF Offer, OfferTallies
    <2>3. /\ buckets[t] \in [Key -> Nat] /\ tallied[t] \in Nat /\ dropped[t] \in Nat
          /\ host.key[t][p] \in Key \cup {None}
      BY <1>0
    <2>4. SumBy(buckets[t], Key) \in Nat
      BY <1>0, <2>3, SumIsNat
    <2>5. CASE ~Counted(t, p) \/ Refuses(t, p)
      <3>1. buckets'[t] = buckets[t]
        BY <1>0, <2>2, <2>3, <2>5 DEF Counted
      <3>2. Refuses(t, p) => Counted(t, p)
        BY DEF Refuses
      <3>3. QED BY <2>1, <2>2, <2>3, <2>4, <2>5, <3>1, <3>2
    <2>6. CASE Counted(t, p) /\ ~Refuses(t, p)
      <3> DEFINE w == buckets[t]
                 v == buckets'[t]
                 x == host.key[t][p]
      <3>1. x \in Key
        BY <2>3, <2>6 DEF Counted
      <3>2. /\ v \in [Key -> Nat]
            /\ \A k \in Key : v[k] = IF k = x THEN w[k] + 1 ELSE w[k]
        BY <2>2, <2>3, <2>6
      <3> HIDE DEF w, v, x
      <3>3. SumBy(v, Key) = SumBy(w, Key) + 1
        <4>1. w \in [Key -> Nat]
          BY <2>3 DEF w
        <4>2. Bumped(v, w, x, Key)
          BY <3>1, <3>2, <4>1 DEF Bumped
        <4>3. IsFiniteSet(Key)
          BY <1>0
        <4>4. QED BY <4>2, <4>3, SumBumped
      <3>4. QED BY <2>1, <2>2, <2>3, <2>4, <2>6, <3>3 DEF w, v
    <2>7. QED BY <2>5, <2>6
  <1>1. CASE RootFile \/ RootDirectory
    <2>1. Offer(Here, {}) /\ root \in 1..Len(Roots) /\ Here \in Path
      BY <1>0, <1>1 DEF RootFile, RootDirectory, Here
    <2>2. QED BY <1>a, <2>1
  <1>2. CASE Entry
    <2> DEFINE e == First(todo)
               more == IF IsTree(e) /\ depth + 1 > MaxDepth THEN {"depth_limit"} ELSE {}
    <2>1. e \in Path
      BY <1>0, <1>2, FirstIsIn DEF Entry
    <2>2. Offer(e, more)
      BY <1>2 DEF Entry
    <2> HIDE DEF e, more
    <2>3. QED BY <1>a, <2>1, <2>2
  <1>3. CASE UNCHANGED tallies
    <2>1. buckets' = buckets /\ tallied' = tallied /\ dropped' = dropped
      BY <1>3 DEF tallies
    <2>2. \A t \in Tally : tallied[t] = SumBy(buckets[t], Key) + dropped[t]
      BY DEF Balanced
    <2>3. \A t \in Tally : tallied'[t] = SumBy(buckets'[t], Key) + dropped'[t]
      BY <2>1, <2>2
    <2>4. QED BY <2>3 DEF Balanced
  <1>4. QED
    BY <1>1, <1>2, <1>3
    DEF WNext, Walked, wvars, matches, tallies, NoOffer, Stop, RootMissing, RootSpent,
        Finish, DirOverBudget, BreakCycle, ListingFails, List, TreeDone,
        EntryOverBudget, EntrySpent, DirectoryDone, TimeRunsOut

------------------------------------------------------------------------------
(* The theorems.                                                           *)

(* A walk starts in the invariant: nothing is offered, nothing pending.    *)
LEMMA WalkStarts == WInit => WInv
  <1> SUFFICES ASSUME WInit PROVE WInv
    OBVIOUS
  <1>1. host \in Hosts
    BY DEF WInit
  <1>2. WTypeOK
    <2>1. /\ MaxDepth \in Nat /\ MaxInodes \in Nat /\ Len(Roots) \in Nat
          /\ MaxDirEntries \in Nat
          /\ \A i \in Interest : MaxHits[i] \in Nat
      BY <1>1, Givens, WalkerAssumption
    <2>2. /\ pc \in {"root", "dirs", "entries", "done"} /\ root \in 1..Len(Roots) + 1
          /\ depth \in 0..MaxDepth
          /\ todo \subseteq Path /\ visited \subseteq Nat \X Nat
          /\ inodes \in 0..MaxInodes /\ overrun \in 0..MaxInodes
          /\ stats \in 0..MaxDirEntries
      BY <2>1 DEF WInit
    <2>3. frontier \in [0..MaxDepth -> SUBSET Path] /\ late \in BOOLEAN
      BY DEF WInit
    <2>4. /\ rows \in [Interest -> SUBSET Path] /\ overflow \in [Interest -> Nat]
          /\ \A i \in Interest : hits[i] \in 0..MaxHits[i]
      BY <2>1 DEF WInit
    <2>5. /\ buckets \in [Tally -> [Key -> Nat]]
          /\ tallied \in [Tally -> Nat] /\ dropped \in [Tally -> Nat]
      BY DEF WInit
    <2>6. reasons \in [Fact -> SUBSET Reason]
      BY DEF WInit, Reason
    <2>7. QED BY <2>2, <2>3, <2>4, <2>5, <2>6 DEF WTypeOK
  <1>3. Counting
    BY <1>1, <1>2 DEF Counting, WInit
  <1>4. TruncationAttributed
    BY DEF TruncationAttributed, WInit, Fact
  <1>5. Overrun
    BY Givens, <1>1 DEF Overrun, WInit
  <1>6. InsideScope /\ RowsAreReal
    BY DEF InsideScope, RowsAreReal, Pending, WInit
  <1>7. Balanced
    <2> SUFFICES ASSUME NEW t \in Tally
                 PROVE  tallied[t] = SumBy(buckets[t], Key) + dropped[t]
      BY DEF Balanced
    <2>1. tallied[t] = 0 /\ dropped[t] = 0 /\ \A k \in Key : buckets[t][k] = 0
      BY DEF WInit
    <2>2. SumBy(buckets[t], Key) = 0
      BY <2>1, SumOfNothing, WalkerAssumption
    <2>3. QED BY <2>1, <2>2
  <1>8. QED BY <1>3, <1>4, <1>5, <1>6, <1>7 DEF WInv

(* Everything the walk keeps is consistent at every moment: the invariant  *)
(* of walker.Walk that the theorems below are read off from.               *)
THEOREM WalkInvariance == WSpec => []WInv
  <1>1. WInv /\ [WNext]_wvars => WInv'
    BY CountingStep, AttributedStep, OverrunStep, ScopeStep, RealStep, AddUpStep DEF WInv
  <1>2. QED BY WalkStarts, <1>1, PTL DEF WSpec

(* Every variable of the walk keeps its type; in particular no interest    *)
(* holds more hits than its cap and no walk visits more inodes than its    *)
(* limit, whatever the host.                                               *)
THEOREM WalkTypes == WSpec => []WTypeOK
  <1>1. WInv => WTypeOK
    BY DEF WInv, Counting
  <1>2. QED BY <1>1, WalkInvariance, PTL

(* TruncationAttributed: a cap truncates the fact it belongs to, exactly   *)
(* when that fact lost something, and a limit of the traversal lands on    *)
(* every fact alike.                                                       *)
THEOREM CapsAreOwn == WSpec => []TruncationAttributed
  <1>1. WInv => TruncationAttributed
    BY DEF WInv
  <1>2. QED BY <1>1, WalkInvariance, PTL

(* CountsAddUp: a tally that refused no key has every inode it folded in a *)
(* bucket, and one that did shows it in its total.                         *)
THEOREM NoInodeIsLost == WSpec => []CountsAddUp
  <1>1. WInv => CountsAddUp
    <2> SUFFICES ASSUME WInv, NEW t \in Tally
                 PROVE  IF dropped[t] = 0 THEN SumBy(buckets[t], Key) = tallied[t]
                        ELSE SumBy(buckets[t], Key) < tallied[t]
      BY DEF CountsAddUp
    <2>1. /\ buckets[t] \in [Key -> Nat] /\ dropped[t] \in Nat /\ IsFiniteSet(Key)
          /\ tallied[t] = SumBy(buckets[t], Key) + dropped[t]
      BY WalkerAssumption DEF WInv, Counting, WTypeOK, Balanced
    <2>2. SumBy(buckets[t], Key) \in Nat
      BY <2>1, SumIsNat
    <2>3. QED BY <2>1, <2>2
  <1>2. QED BY <1>1, WalkInvariance, PTL

(* OverrunBounded: after its time has run out a walk finishes the listing  *)
(* it is in, starts no other, and offers at most clockCheckEvery entries.  *)
THEOREM OverrunIsBounded == WSpec => []OverrunBounded
  <1>1. WInv => OverrunBounded
    BY DEF WInv, Overrun, Counting, WTypeOK, OverrunBounded
  <1>2. QED BY <1>1, WalkInvariance, PTL

(* RowsAreReal: whatever stops the walk, a row matches its interest and    *)
(* lies in the scope of a root, and a bucket has an inode behind it.       *)
THEOREM RowsAreTrustworthy == WSpec => []RowsAreReal
  <1>1. WInv => RowsAreReal
    BY DEF WInv
  <1>2. QED BY <1>1, WalkInvariance, PTL

(* CompleteMeansSeen, on a host where every directory is known by one path:*)
(* a fact that calls itself complete has a row or a bucket for every inode *)
(* in scope, so a check may conclude absence from it.  The hypothesis is   *)
(* needed: where a bind mount shows a directory twice the walk enters it   *)
(* once, and may miss what only the other path leads to.                   *)
THEOREM AbsenceIsSafe == WSpec /\ NoAliases => []CompleteMeansSeen
  <1>1. WInit /\ NoAliases => Accounted
    BY WalkerAssumption
    DEF WInit, Accounted, FinishedRoots, ThisRoot, EnteredDirs, InTree, Seen
  <1>2. WInv /\ Accounted /\ [WNext]_wvars => Accounted'
    <2> SUFFICES ASSUME WInv, Accounted, [WNext]_wvars PROVE Accounted'
      OBVIOUS
    <2>1. /\ Counting /\ InsideScope
          /\ NoAliases /\ FinishedRoots /\ ThisRoot /\ EnteredDirs
      BY DEF WInv, Accounted
    <2>2. NoAliases'
      BY <2>1, FactsGrow, HostIsFixed
    <2>3. FinishedRoots' /\ ThisRoot' /\ EnteredDirs'
      BY <2>1, FinishedStep, ThisRootStep, EnteredStep
    <2>4. QED BY <2>2, <2>3 DEF Accounted
  <1>3. WInv /\ Accounted => CompleteMeansSeen
    <2> SUFFICES ASSUME WInv, Accounted, pc = "done",
                        NEW k \in 1..Len(Roots), NEW p \in Path, InScope(Roots[k], p)
                 PROVE  /\ \A i \in Interest : Complete(i) /\ p \in host.match[i] =>
                             \E q \in rows[i] : Same(p, q)
                        /\ \A t \in Tally : Complete(t) /\ Counted(t, p) =>
                             buckets[t][host.key[t][p]] > 0
      BY DEF CompleteMeansSeen
    <2>1. Shown(p)
      BY DEF Accounted, FinishedRoots
    <2>2. QED BY <2>1 DEF Shown, Same
  <1>4. QED BY <1>1, <1>2, <1>3, WalkInvariance, PTL DEF WSpec
==============================================================================
