-------------------------------- MODULE Units --------------------------------
(***************************************************************************)
(* How one systemd unit is put together: the unit file of the first search *)
(* root that has it, then its drop-ins, and the locations that could not be*)
(* looked at.                                                              *)
(*                                                                         *)
(* host.dirs[d] is a directory, as [ino, entries]; host.links[p] is where a*)
(* symbolic link leads.  A unit file is a sequence of [section, name,      *)
(* reset, value] lines, reset for an assignment of nothing.  A directory in*)
(* scan.denied can be neither listed nor looked into.  Shadowed drop-ins,  *)
(* which nothing asks about, are left out of the fragments.                *)
(***************************************************************************)
EXTENDS Outcomes

CONSTANT DropInNames   \* the names a drop-in can have, in lexical order

AdminDir        == "/etc/systemd/system"
RuntimeDir      == "/run/systemd/system"
VendorDir       == "/usr/lib/systemd/system"
LegacyVendorDir == "/lib/systemd/system"

Roots       == <<AdminDir, RuntimeDir, VendorDir, LegacyVendorDir>>
MaxLinkHops == 4

Join(dir, name) == dir \o "/" \o name

Exists(host, p) == \/ InodeAt(host, p) # "absent"
                   \/ p \in DOMAIN host.links \cup DOMAIN host.dirs \cup {"/dev/null"}

Closed(scan, dir)    == dir \in scan.denied \cup scan.broken
RefusedAs(scan, dir) == IF dir \in scan.denied THEN "denied" ELSE "error"

Listing(host, scan, dir) == Upto(host.dirs[dir].entries, scan.cap)
ListingCut(host, scan, dir) == Len(host.dirs[dir].entries) > scan.cap

Smallest(S) == CHOOSE n \in S : \A k \in S : n <= k

------------------------------------------------------------------------------

(* The unit file is that of the first root that has one; a root that       *)
(* cannot be looked into before that is recorded.                          *)
FindUnit(host, scan, name) ==
  LET found == {k \in DOMAIN Roots : /\ ~Closed(scan, Roots[k])
                                     /\ Exists(host, Join(Roots[k], name))}
      first == IF found = {} THEN Len(Roots) + 1 ELSE Smallest(found)
  IN  [path    |-> IF found = {} THEN "" ELSE Join(Roots[first], name),
       refused |-> {[path |-> Join(Roots[k], name), state |-> RefusedAs(scan, Roots[k])] :
                      k \in {j \in 1..(first - 1) : Closed(scan, Roots[j])}}]

LinkTarget(host, p) ==
  LET hop[n \in 0..MaxLinkHops] ==
        IF n = 0 THEN p
        ELSE IF hop[n - 1] \in DOMAIN host.links THEN host.links[hop[n - 1]] ELSE hop[n - 1]
  IN  hop[MaxLinkHops]

ReadFragment(host, scan, p) ==
  LET target == LinkTarget(host, p)
      read   == ReadFile(host, scan, target)
  IN CASE target = "/dev/null" -> "masked"
       [] target \in DOMAIN host.links -> "not_regular"
       [] OTHER -> CASE read = "irregular" -> "not_regular"
                     [] read = "binary"    -> "error"
                     [] read = "present" /\ Truncated(host, scan, target) -> "truncated"
                     [] OTHER -> read

ParseUnit(host, p, section, directives) ==
  SelectSeq(host.files[LinkTarget(host, p)],
            LAMBDA l : l.section = section /\ l.name \in directives)

------------------------------------------------------------------------------
(* The drop-in directories, one beside each root.  A name in an earlier    *)
(* directory shadows it in the later ones, and the drop-ins apply in the   *)
(* order of their names, whichever directory each is in.                   *)

DropInDir(k, name) == Join(Roots[k], name \o ".d")

Listed(host, scan, name) ==
  LET dir(k)  == DropInDir(k, name)
      stat(k) == ~Closed(scan, Roots[k]) /\ dir(k) \in DOMAIN host.dirs
      alias(k) == \E j \in 1..(k - 1) : stat(j) /\ host.dirs[dir(j)].ino = host.dirs[dir(k)].ino
  IN  {k \in DOMAIN Roots : stat(k) /\ ~alias(k)}

DropInGaps(host, scan, name) ==
  LET dir(k) == DropInDir(k, name)
      listed == Listed(host, scan, name)
  IN  {[path |-> dir(k), state |-> RefusedAs(scan, Roots[k])] :
         k \in {j \in DOMAIN Roots : Closed(scan, Roots[j])}}
      \cup {[path |-> dir(k), state |-> RefusedAs(scan, dir(k))] :
              k \in {j \in listed : Closed(scan, dir(j))}}
      \cup {[path |-> dir(k), state |-> "truncated"] :
              k \in {j \in listed : ~Closed(scan, dir(j)) /\ ListingCut(host, scan, dir(j))}}

DropIns(host, scan, name) ==
  LET dir(k)   == DropInDir(k, name)
      open     == {k \in Listed(host, scan, name) : ~Closed(scan, dir(k))}
      holds(k, c) == c \in Elements(Listing(host, scan, dir(k)))
      winners  == SelectSeq(DropInNames, LAMBDA c : \E k \in open : holds(k, c))
  IN  [n \in DOMAIN winners |->
         Join(dir(Smallest({k \in open : holds(k, winners[n])})), winners[n])]

Assemble(host, scan, name, section, directives) ==
  LET unit    == FindUnit(host, scan, name)
      state   == ReadFragment(host, scan, unit.path)
      dropins == DropIns(host, scan, name)
      read(n) == ReadFragment(host, scan, dropins[n])
      parsed[n \in 0..Len(dropins)] ==
        CASE n = 0 -> ParseUnit(host, unit.path, section, directives)
          [] n > 0 /\ read(n) = "present" ->
               parsed[n - 1] \o ParseUnit(host, dropins[n], section, directives)
          [] OTHER -> parsed[n - 1]
      base == [state |-> state, path |-> unit.path, directives |-> << >>,
               fragments |-> unit.refused \cup {[path |-> unit.path, state |-> state]}]
  IN CASE unit.path = "" -> [base EXCEPT !.state = "absent", !.path = Join(VendorDir, name),
                                         !.fragments = unit.refused]
       [] unit.path # "" /\ state # "present" -> base
       [] OTHER -> [base EXCEPT !.directives = parsed[Len(dropins)],
                                !.fragments = @ \cup DropInGaps(host, scan, name)
                                  \cup {[path |-> dropins[n], state |-> read(n)] :
                                          n \in DOMAIN dropins}]

IncompleteFragments(fragments) == {f \in fragments : f.state # "present"}

------------------------------------------------------------------------------

OfName(u, name) == SelectSeq(u.directives, LAMBDA d : d.name = name)

\* what is left of a list directive: an assignment of nothing empties it
List(u, name) ==
  LET all    == OfName(u, name)
      resets == {n \in DOMAIN all : all[n].reset}
      from   == IF resets = {} THEN 0 ELSE CHOOSE n \in resets : \A k \in resets : k <= n
  IN  SubSeq(all, from + 1, Len(all))

\* the last word on a directive if it is one the reader understands, or ""
LastValid(u, name, valid) ==
  LET all == OfName(u, name)
  IN  IF all # << >> /\ ~all[Len(all)].reset /\ all[Len(all)].value \in valid
      THEN all[Len(all)].value ELSE ""
==============================================================================
