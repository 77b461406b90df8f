---------------------------- MODULE MC_SaveBundle ----------------------------
(* A walk that may be abandoned and a cheap collector; three files, one of *)
(* them a credential file and one longer than the read cap.                *)
EXTENDS SaveBundle

MCCollector == {"walker", "users"}
MCFactID    == MCCollector \cup {"users.shadow"}
MCDependsOn == [c \in MCCollector |-> <<>>]
MCProduces  == [c \in MCCollector |-> IF c = "walker" THEN {} ELSE {"users.shadow"}]
MCPath      == {"fstab", "shadow", "passwd"}
MCReads     == [c \in MCCollector |->
                  IF c = "walker" THEN {"passwd"} ELSE {"shadow", "fstab"}]
MCContent   == [p \in MCPath |-> p]
MCSize      == [p \in MCPath |-> CASE p = "fstab" -> 0 [] OTHER -> 1]
==============================================================================
