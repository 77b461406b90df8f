----------------------------- MODULE MC_Runner -------------------------------
(* Small registries for Runner.                                            *)
EXTENDS Runner

\* The full instance: two expensive collectors, one of which depends on a cheap
\* one that needs root.
MCCollector == {"walker", "elf", "users"}
MCFactID    == MCCollector \cup {"fs.suid", "memory.elf", "users.shadow"}
MCDependsOn == [c \in MCCollector |-> IF c = "elf" THEN <<"users">> ELSE <<>>]
MCProduces  == [c \in MCCollector |->
                  CASE c = "walker" -> {"fs.suid"}
                    [] c = "elf"    -> {"memory.elf"}
                    [] c = "users"  -> {"users.shadow"}]

\* The wiring instance: an unprivileged scan, a collector that names an
\* unregistered dependency, one that depends on both of the skipped ones (on
\* one of them twice) and declares no facts, and one that competes with it for
\* the slot.
WiredCollector == {"users", "cron", "walker", "elf"}
WiredDependsOn == [c \in WiredCollector |->
                     CASE c = "cron"   -> <<"users", "ghost">>
                       [] c = "walker" -> <<"cron", "users", "cron">>
                       [] OTHER -> <<>>]
WiredProduces  == [c \in WiredCollector |->
                     CASE c = "users"  -> {"users.passwd", "users.shadow"}
                       [] c = "cron"   -> {"cron"}
                       [] OTHER -> {}]
WiredFactID    == WiredCollector \cup {"users.passwd", "users.shadow"}
==============================================================================
