------------------------------ MODULE MC_Stream ------------------------------
(* Two collectors that report concurrently, two checks.                    *)
EXTENDS Stream
==============================================================================
