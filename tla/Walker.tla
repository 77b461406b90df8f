------------------------------- MODULE Walker --------------------------------
(***************************************************************************)
(* walker.Walk: one traversal of the filesystem that answers every         *)
(* registered interest (which records matching inodes, up to a cap) and    *)
(* every tally (which counts inodes by key, up to a cap on keys).  What it *)
(* could not look at is recorded as a truncation reason on the facts, and  *)
(* a check may conclude absence only from a fact without one.              *)
(*                                                                         *)
(* The host is an input, fixed for a behaviour.  A path stands for its     *)
(* FileInfo.  The depth-first stack is kept by depth: whatever is pending  *)
(* at the deepest level are siblings, and the first of them is next.       *)
(***************************************************************************)
EXTENDS Naturals, Sequences, FiniteSetsExt

CONSTANTS
  Path,       \* every path of the host, in walk order 0, 1, 2 ...
  Above,      \* Above[p]: the proper ancestors of p
  Roots,      \* Config.Roots
  Interest, MaxHits,   \* the interests and their caps
  Tally, MaxKeys,      \* the tallies and their caps
  Key,        \* what a tally may map an inode to
  None,       \* a tally that does not count an inode
  MaxDepth, MaxInodes, MaxDirEntries, \* Config's bounds
  ClockEvery, \* clockCheckEvery
  Hosts       \* the hosts considered

Fact == Interest \cup Tally

Reason == {"depth_limit", "inode_limit", "wall_clock", "dir_listing",
           "unreadable_dir", "mounts_unknown", "max_hits", "max_keys"}

(* What the seam can answer about a host, and the one option that decides  *)
(* scope.  Device 0 with inode 0 is "identity not recorded".               *)
Host ==
  [kind       : [Path -> {"dir", "file", "link"}],
   id         : [Path -> Nat \X Nat],
   absent     : SUBSET Path,   \* roots that cannot be stat'ed
   unreadable : SUBSET Path,   \* directories that cannot be listed
   hidden     : SUBSET Path,   \* entries that cannot be stat'ed
   skipped    : SUBSET Path,   \* mount points of a type on the skip list
   known      : BOOLEAN,       \* the mount table could be read
   cross      : BOOLEAN,       \* Config.CrossFS
   match      : [Interest -> SUBSET Path],
   key        : [Tally -> [Path -> Key \cup {None}]]]

(* Paths are numbered in walk order and form a forest: what is above a path*)
(* comes before it and is a chain.                                         *)
ASSUME WalkerAssumption ==
  /\ Path \subseteq Nat
  /\ Above \in [Path -> SUBSET Path]
  /\ \A p \in Path : \A q \in Above[p] : q < p /\ Above[q] \subseteq Above[p]
  /\ \A p \in Path : \A q, r \in Above[p] : q = r \/ q \in Above[r] \/ r \in Above[q]
  /\ Roots \in Seq(Path)
  /\ Interest \cap Tally = {}
  /\ MaxHits \in [Interest -> Nat \ {0}]
  /\ MaxKeys \in [Tally -> Nat \ {0}]
  /\ IsFiniteSet(Key) /\ None \notin Key
  /\ MaxDepth \in Nat \ {0} /\ MaxInodes \in Nat \ {0} /\ ClockEvery \in Nat \ {0}
  /\ MaxDirEntries \in Nat \ {0}
  /\ Hosts \subseteq Host

VARIABLES
  host,
  pc,        \* "root", "dirs", "entries" or "done"
  root,      \* the index in Roots
  frontier,  \* frontier[d]: the directories still to be listed at depth d
  depth,     \* the depth of the directory being listed
  todo,      \* its entries not yet looked at
  visited,   \* the identities of the directories entered
  inodes,    \* Result.InodesVisited
  late,      \* the wall-clock budget or the context has run out
  overrun,   \* how many directory entries were offered since then
  stats,     \* how many a listing has stat'ed since then
  rows, hits, overflow,        \* one FSMatches for each interest
  buckets, tallied, dropped,   \* one FSTally for each tally
  reasons    \* TruncationReasons of every fact

matches == <<rows, hits, overflow>>
tallies == <<buckets, tallied, dropped>>
clock   == <<late, overrun, stats>>
place   == <<root, frontier, depth, todo, visited>>
wvars   == <<host, pc, place, inodes, clock, matches, tallies, reasons>>

WTypeOK ==
  /\ pc \in {"root", "dirs", "entries", "done"}
  /\ root \in 1..Len(Roots) + 1
  /\ frontier \in [0..MaxDepth -> SUBSET Path]
  /\ depth \in 0..MaxDepth
  /\ todo \subseteq Path
  /\ visited \subseteq Nat \X Nat
  /\ inodes \in 0..MaxInodes
  /\ late \in BOOLEAN
  /\ overrun \in 0..MaxInodes
  /\ stats \in 0..MaxDirEntries
  /\ rows \in [Interest -> SUBSET Path]
  /\ \A i \in Interest : hits[i] \in 0..MaxHits[i]
  /\ overflow \in [Interest -> Nat]
  /\ buckets \in [Tally -> [Key -> Nat]]
  /\ tallied \in [Tally -> Nat]
  /\ dropped \in [Tally -> Nat]
  /\ reasons \in [Fact -> SUBSET Reason]

(* Without a mount table the skip list cannot be applied, so a walk that   *)
(* was allowed to cross filesystems does not, and says so.                 *)
WInit ==
  /\ host \in Hosts
  /\ pc = "root"
  /\ root = 1
  /\ frontier = [d \in 0..MaxDepth |-> {}]
  /\ depth = 0
  /\ todo = {}
  /\ visited = {}
  /\ inodes = 0
  /\ late = FALSE
  /\ overrun = 0
  /\ stats = 0
  /\ rows = [i \in Interest |-> {}]
  /\ hits = [i \in Interest |-> 0]
  /\ overflow = [i \in Interest |-> 0]
  /\ buckets = [t \in Tally |-> [k \in Key |-> 0]]
  /\ tallied = [t \in Tally |-> 0]
  /\ dropped = [t \in Tally |-> 0]
  /\ reasons = [f \in Fact |-> IF host.cross /\ ~host.known THEN {"mounts_unknown"} ELSE {}]

------------------------------------------------------------------------------
(* The host, as the walk sees it.                                          *)

Identified(p) == host.id[p] # <<0, 0>>
Dev(p)        == host.id[p][1]
IsTree(p)     == host.kind[p] = "dir"
CrossFS       == host.cross /\ host.known

(* What a directory holds, and what ReadDir returns of it: the first       *)
(* MaxDirEntries names, the ones that could not be stat'ed left out.       *)
Entries(d) == {p \in Path : d \in Above[p] /\ Above[p] \subseteq Above[d] \cup {d}}

Retained(d) == {p \in Entries(d) : Cardinality({q \in Entries(d) : q <= p}) <= MaxDirEntries}
Listing(d)  == Retained(d) \ host.hidden

(* A directory on another filesystem, or where one of a skipped type is    *)
(* mounted, is outside the walk's scope, and that is not truncation.       *)
DeclineBoundary(dir, rootDev) ==
  \/ ~CrossFS /\ Dev(dir) # 0 /\ rootDev # 0 /\ Dev(dir) # rootDev
  \/ host.known /\ dir \in host.skipped

First(S) == CHOOSE p \in S : \A q \in S : p <= q

------------------------------------------------------------------------------
(* What happens to the facts.                                              *)

TruncateAll(why) == reasons' = [f \in Fact |-> reasons[f] \cup {why}]

Matched(i, p) == p \in host.match[i]
Counted(t, p) == host.key[t][p] # None

Full(i) == hits[i] >= MaxHits[i]

(* fold finds no bucket for the inode's key and may not add one.           *)
Refuses(t, p) ==
  /\ Counted(t, p)
  /\ buckets[t][host.key[t][p]] = 0
  /\ Cardinality({k \in Key : buckets[t][k] > 0}) >= MaxKeys[t]

\* mutant: a cap of one fact is reported as if the walk had been cut short
OwnCapEverywhere(f, p) ==
  IF \E i \in Interest : Matched(i, p) /\ Full(i) THEN {"max_hits"} ELSE {}

(* A cap on rows or keys truncates the fact it belongs to and no other.    *)
OwnCap(f, p) ==
  CASE f \in Interest -> IF Matched(f, p) /\ Full(f) THEN {"max_hits"} ELSE {}
    [] f \in Tally    -> IF Refuses(f, p) THEN {"max_keys"} ELSE {}

\* mutant: an interest records whatever it is offered
OfferRows(p) ==
  /\ rows' = [i \in Interest |-> IF Full(i) THEN rows[i] ELSE rows[i] \cup {p}]
  /\ hits' = [i \in Interest |-> IF Full(i) THEN hits[i] ELSE hits[i] + 1]
  /\ overflow' = [i \in Interest |-> IF Full(i) THEN overflow[i] + 1 ELSE overflow[i]]

OfferInterests(p) ==
  /\ rows' = [i \in Interest |->
       IF Matched(i, p) /\ ~Full(i) THEN rows[i] \cup {p} ELSE rows[i]]
  /\ hits' = [i \in Interest |->
       IF Matched(i, p) /\ ~Full(i) THEN hits[i] + 1 ELSE hits[i]]
  /\ overflow' = [i \in Interest |->
       IF Matched(i, p) /\ Full(i) THEN overflow[i] + 1 ELSE overflow[i]]

\* mutant: an inode is counted only once its key has a bucket
OfferKnownKeys(p) ==
  /\ tallied' = [t \in Tally |->
       IF Counted(t, p) /\ ~Refuses(t, p) THEN tallied[t] + 1 ELSE tallied[t]]
  /\ dropped' = [t \in Tally |-> IF Refuses(t, p) THEN dropped[t] + 1 ELSE dropped[t]]
  /\ buckets' = [t \in Tally |-> [k \in Key |->
       IF k = host.key[t][p] /\ ~Refuses(t, p) THEN buckets[t][k] + 1 ELSE buckets[t][k]]]

OfferTallies(p) ==
  /\ tallied' = [t \in Tally |-> IF Counted(t, p) THEN tallied[t] + 1 ELSE tallied[t]]
  /\ dropped' = [t \in Tally |-> IF Refuses(t, p) THEN dropped[t] + 1 ELSE dropped[t]]
  /\ buckets' = [t \in Tally |-> [k \in Key |->
       IF k = host.key[t][p] /\ ~Refuses(t, p) THEN buckets[t][k] + 1 ELSE buckets[t][k]]]

(* offer, with the reasons the caller adds for the same inode.             *)
Offer(p, more) ==
  /\ inodes' = inodes + 1
  /\ OfferInterests(p)
  /\ OfferTallies(p)
  /\ reasons' = [f \in Fact |-> reasons[f] \cup OwnCap(f, p) \cup more]

NoOffer == UNCHANGED <<inodes, matches, tallies>>

Spent == inodes >= MaxInodes

(* A limit of the whole walk fired: mark every fact, unwind and finish.    *)
Stop(why) ==
  /\ TruncateAll(why)
  /\ pc' = "done"
  /\ UNCHANGED <<host, place, clock>>
  /\ NoOffer

------------------------------------------------------------------------------
(* walkRoot.                                                               *)

NextRoot == root' = root + 1 /\ UNCHANGED <<frontier, depth, todo, visited>>

RootMissing ==
  /\ pc = "root" /\ root <= Len(Roots)
  /\ Roots[root] \in host.absent
  /\ TruncateAll("unreadable_dir")
  /\ NextRoot /\ NoOffer
  /\ UNCHANGED <<host, pc, clock>>

RootFile ==
  /\ pc = "root" /\ root <= Len(Roots)
  /\ Roots[root] \notin host.absent
  /\ ~IsTree(Roots[root]) /\ ~Spent
  /\ Offer(Roots[root], {})
  /\ NextRoot
  /\ UNCHANGED <<host, pc, clock>>

RootDirectory ==
  /\ pc = "root" /\ root <= Len(Roots)
  /\ Roots[root] \notin host.absent
  /\ IsTree(Roots[root]) /\ ~Spent
  /\ Offer(Roots[root], {})
  /\ frontier' = [frontier EXCEPT ![0] = {Roots[root]}]
  /\ pc' = "dirs"
  /\ UNCHANGED <<host, root, depth, todo, visited, clock>>

RootSpent ==
  /\ pc = "root" /\ root <= Len(Roots)
  /\ Roots[root] \notin host.absent
  /\ Spent
  /\ Stop("inode_limit")

Finish ==
  /\ pc = "root" /\ root > Len(Roots)
  /\ pc' = "done"
  /\ UNCHANGED <<host, place, clock, reasons>>
  /\ NoOffer

(* The top of the stack.                                                   *)
Pending == UNION {frontier[d] : d \in 0..MaxDepth}
Top     == CHOOSE d \in 0..MaxDepth :
             frontier[d] # {} /\ \A e \in d+1..MaxDepth : frontier[e] = {}
Next1   == First(frontier[Top])
Pop     == frontier' = [frontier EXCEPT ![Top] = @ \ {Next1}]

DirOverBudget ==
  /\ pc = "dirs" /\ Pending # {}
  /\ late
  /\ Stop("wall_clock")

Seen(p) == Identified(p) /\ host.id[p] \in visited
Enter(p) == visited' = IF Identified(p) THEN visited \cup {host.id[p]} ELSE visited

BreakCycle ==
  /\ pc = "dirs" /\ Pending # {} /\ ~late
  /\ Seen(Next1)
  /\ Pop
  /\ UNCHANGED <<host, pc, root, depth, todo, visited, clock, reasons>>
  /\ NoOffer

\* mutant: a directory that cannot be listed is taken for an empty one
ListingFailsQuietly ==
  /\ pc = "dirs" /\ Pending # {} /\ ~late
  /\ ~Seen(Next1) /\ Next1 \in host.unreadable
  /\ Pop /\ Enter(Next1)
  /\ UNCHANGED <<host, pc, root, depth, todo, clock, reasons>>
  /\ NoOffer

ListingFails ==
  /\ pc = "dirs" /\ Pending # {} /\ ~late
  /\ ~Seen(Next1) /\ Next1 \in host.unreadable
  /\ Pop /\ Enter(Next1)
  /\ TruncateAll("unreadable_dir")
  /\ UNCHANGED <<host, pc, root, depth, todo, clock>>
  /\ NoOffer

(* ReadDir stats every name it retains and does not look at the clock: the *)
(* time may run out with n of them still to come.                          *)
List ==
  /\ pc = "dirs" /\ Pending # {} /\ ~late
  /\ ~Seen(Next1) /\ Next1 \notin host.unreadable
  /\ Pop /\ Enter(Next1)
  /\ depth' = Top
  /\ todo' = Listing(Next1)
  /\ IF Listing(Next1) # Entries(Next1) THEN TruncateAll("dir_listing")
     ELSE UNCHANGED reasons
  /\ \/ UNCHANGED <<late, stats>>
     \/ /\ late' = TRUE
        /\ \E n \in 1..MaxDirEntries :
             n <= Cardinality(Retained(Next1)) /\ stats' = stats + n
  /\ pc' = "entries"
  /\ UNCHANGED <<host, root, overrun>>
  /\ NoOffer

TreeDone ==
  /\ pc = "dirs" /\ Pending = {}
  /\ pc' = "root"
  /\ NextRoot /\ NoOffer
  /\ UNCHANGED <<host, clock, reasons>>

\* mutant: the clock is only looked at once for each directory
SampleNever == FALSE

(* The clock is read when InodesVisited is a multiple of clockCheckEvery.  *)
Sample == inodes % ClockEvery = 0

EntryOverBudget ==
  /\ pc = "entries" /\ todo # {}
  /\ Sample /\ late
  /\ Stop("wall_clock")

EntrySpent ==
  /\ pc = "entries" /\ todo # {}
  /\ ~(Sample /\ late)
  /\ Spent
  /\ Stop("inode_limit")

(* One entry: offered, and pushed if it is a directory (no symlink is      *)
(* followed) within the depth limit and the scope.                         *)
Entry ==
  /\ pc = "entries" /\ todo # {}
  /\ ~(Sample /\ late)
  /\ ~Spent
  /\ LET e       == First(todo)
         tooDeep == IsTree(e) /\ depth + 1 > MaxDepth
         descend == IsTree(e) /\ depth + 1 <= MaxDepth /\ ~DeclineBoundary(e, Dev(Roots[root]))
     IN  /\ Offer(e, IF tooDeep THEN {"depth_limit"} ELSE {})
         /\ todo' = todo \ {e}
         /\ frontier' = IF descend THEN [frontier EXCEPT ![depth + 1] = @ \cup {e}]
                        ELSE frontier
  /\ overrun' = IF late THEN overrun + 1 ELSE overrun
  /\ UNCHANGED <<host, pc, root, depth, visited, late, stats>>

DirectoryDone ==
  /\ pc = "entries" /\ todo = {}
  /\ pc' = "dirs"
  /\ UNCHANGED <<host, place, clock, reasons>>
  /\ NoOffer

(* The wall clock passes the deadline, or the collector's context ends.    *)
TimeRunsOut ==
  /\ pc # "done" /\ ~late
  /\ late' = TRUE
  /\ UNCHANGED <<host, pc, place, overrun, stats, reasons>>
  /\ NoOffer

Walked == pc = "done" /\ UNCHANGED wvars

WNext ==
  \/ RootMissing \/ RootFile \/ RootDirectory \/ RootSpent \/ Finish
  \/ DirOverBudget \/ BreakCycle \/ ListingFails \/ List \/ TreeDone
  \/ EntryOverBudget \/ EntrySpent \/ Entry \/ DirectoryDone
  \/ TimeRunsOut \/ Walked

WSpec == WInit /\ [][WNext]_wvars

------------------------------------------------------------------------------
(* Properties                                                              *)

(* FSMatches.Complete and FSTally.Complete.                                *)
Complete(f) ==
  /\ reasons[f] = {}
  /\ IF f \in Interest THEN overflow[f] = 0 ELSE dropped[f] = 0

(* The declared scope: a root and, if it is a directory, everything below  *)
(* it that is not below a boundary.                                        *)
InScope(r, p) ==
  \/ p = r
  \/ /\ IsTree(r) /\ r \in Above[p]
     /\ \A q \in Above[p] : r \in Above[q] => IsTree(q) /\ ~DeclineBoundary(q, Dev(r))

Same(p, q) == p = q \/ (Identified(p) /\ host.id[p] = host.id[q])

(* A fact that calls itself complete has seen every inode in scope: each   *)
(* match has a row under one of its paths, each key a bucket.  (walkRoot:  *)
(* "everything inside it has been seen, so absence is still safe to        *)
(* conclude").                                                             *)
CompleteMeansSeen ==
  pc = "done" =>
    \A k \in 1..Len(Roots), p \in Path : InScope(Roots[k], p) =>
      /\ \A i \in Interest : Complete(i) /\ p \in host.match[i] =>
           \E q \in rows[i] : Same(p, q)
      /\ \A t \in Tally : Complete(t) /\ Counted(t, p) =>
           buckets[t][host.key[t][p]] > 0

(* "Rows is always trustworthy": whatever stopped the walk, a recorded row *)
(* matches and lies in scope, and a bucket has an inode behind it.         *)
RowsAreReal ==
  /\ \A i \in Interest, p \in Path : p \in rows[i] =>
       p \in host.match[i] /\ \E k \in 1..Len(Roots) : InScope(Roots[k], p)
  /\ \A t \in Tally, k \in Key : buckets[t][k] > 0 => \E p \in Path : host.key[t][p] = k

(* The sum of the entries of w at the members of S.                        *)
SumBy(w, S) == MapThenSumSet(LAMBDA k : w[k], S)

(* No inode is lost from the counts unnoticed: "Total equals InodesTallied *)
(* on a tally that dropped no keys and is smaller on one that did"         *)
(* (FSTally.Total).                                                        *)
CountsAddUp ==
  \A t \in Tally :
    IF dropped[t] = 0 THEN SumBy(buckets[t], Key) = tallied[t]
    ELSE SumBy(buckets[t], Key) < tallied[t]

(* A cap of one fact is never allowed to affect another fact, and a limit  *)
(* of the traversal lands on every fact it produced.                       *)
TruncationAttributed ==
  /\ \A i \in Interest : "max_hits" \in reasons[i] <=> overflow[i] > 0
  /\ \A t \in Tally : "max_keys" \in reasons[t] <=> dropped[t] > 0
  /\ \A f, g \in Fact :
       reasons[f] \ {"max_hits", "max_keys"} = reasons[g] \ {"max_hits", "max_keys"}

(* What a walk still does once its time has run out: it offers at most     *)
(* clockCheckEvery entries (overBudgetSampled), and stats the rest of the  *)
(* one listing it was in, which the entry cap alone bounds.  The comment   *)
(* on overBudgetSampled counts the offers only.                            *)
OverrunBounded == overrun <= ClockEvery /\ stats <= MaxDirEntries
==============================================================================
