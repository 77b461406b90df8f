------------------------------ MODULE MC_Walker ------------------------------
(* A root filesystem with /a, /a/d, /a/d/f, the symlink /l, and /m, /m/d,  *)
(* /m/d/f, numbered in walk order.  /m is a directory of its own, another  *)
(* filesystem, a bind mount of /a, or has no recorded identity.            *)
EXTENDS Walker

MCPath  == 0..7
MCAbove == [p \in MCPath |->
              CASE p = 0 -> {} [] p \in {1, 4, 5} -> {0}
                [] p = 2 -> {0, 1} [] p = 3 -> {0, 1, 2}
                [] p = 6 -> {0, 5} [] p = 7 -> {0, 5, 6}]
MCRoots == <<0, 5, 4>>
MCHits  == [i \in {"suid", "dirs"} |-> IF i = "suid" THEN 5 ELSE 3]
MCKeys  == [t \in {"owner"} |-> 2]

\* which inode a path of /m leads to
Behind(p, m) == IF m = "bind" /\ p >= 5 THEN p - 4 ELSE p
IdOf(p, m) ==
  CASE p >= 5 /\ m = "other"   -> <<2, p>>
    [] p >= 5 /\ m = "unknown" -> <<0, 0>>
    [] OTHER -> <<1, Behind(p, m) + 1>>
OwnerOf(p) == CASE p = 4 -> None [] p \in {3, 7} -> 1 [] p \in {5, 6} -> 2 [] OTHER -> 0
KindOf(p, f) == CASE p = 4 -> "link" [] p \in {3, 7} -> f [] OTHER -> "dir"

HostOf(m, f, unreadable, hidden, skipped, known, cross) ==
  [kind |-> [p \in MCPath |-> KindOf(p, f)],
   id |-> [p \in MCPath |-> IdOf(p, m)],
   absent |-> hidden \cap {5}, unreadable |-> unreadable, hidden |-> hidden,
   skipped |-> skipped, known |-> known, cross |-> cross,
   match |-> [i \in {"suid", "dirs"} |->
                IF i = "suid" THEN {3, 7} ELSE {p \in MCPath : KindOf(p, f) = "dir"}],
   key |-> [t \in {"owner"} |-> [p \in MCPath |-> OwnerOf(Behind(p, m))]]]

MCHosts ==
  {HostOf(m, f, unreadable, hidden, skipped, known, cross) :
     m \in {"own", "other", "bind", "unknown"}, f \in {"file", "dir"},
     unreadable \in {{}, {2}, {5}}, hidden \in {{}, {3}, {5}},
     skipped \in {{}, {5}}, known \in BOOLEAN, cross \in BOOLEAN}

\* /a/d has another filesystem mounted on it and /m is a plain bind mount of
\* /a, which shows the directory underneath that mount.
ShadowHosts ==
  {[HostOf("bind", "file", {}, {}, {}, TRUE, FALSE) EXCEPT
      !.id = [p \in MCPath |-> CASE p = 2 -> <<2, 1>> [] p = 3 -> <<2, 2>>
                                 [] p = 5 -> <<1, 2>> [] OTHER -> <<1, p + 1>>]]}
==============================================================================
