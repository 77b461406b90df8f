----------------------------- MODULE MemoryChecks ----------------------------
(***************************************************************************)
(* Build hardening of the privileged binaries: the collector that inspects *)
(* each target's ELF image and the MEMORY checks over what it found.       *)
(*                                                                         *)
(* host.links[p] is where a symbolic link leads; host.odd[p] is "special", *)
(* "large" (above the read cap) or "script" (no ELF image); host.images[p] *)
(* is an image: whether it is position independent, dynamically linked, has*)
(* a RELRO segment and binds now, has its symbols, and which it uses.      *)
(***************************************************************************)
EXTENDS Outcomes

CONSTANTS
  Targets,         \* the binaries in the order they are probed
  MaxSymlinkHops

Image == [pie : BOOLEAN, dynamic : BOOLEAN, relro : BOOLEAN, bindNow : BOOLEAN,
          symbols : BOOLEAN, canary : BOOLEAN, fortify : BOOLEAN, candidates : BOOLEAN]

------------------------------------------------------------------------------

Unusable(state) == [state |-> state]

PlainState == [special |-> "not_regular", large |-> "too_large", script |-> "not_elf"]

(* Inspect one path, following links itself, one hop at a time: until it   *)
(* is refused, at what is no link, or at the last hop there may be.        *)
Hops(host, p) ==
  LET at[n \in 0..MaxSymlinkHops] ==
        CASE n = 0 -> p
          [] n > 0 /\ at[n - 1] \in DOMAIN host.links -> host.links[at[n - 1]]
          [] OTHER -> at[n - 1]
  IN  at

Inspect(host, scan, p) ==
  LET at   == Hops(host, p)
      ends == {n \in 0..(MaxSymlinkHops - 1) : \/ at[n] \in scan.denied \cup scan.broken
                                               \/ at[n] \notin DOMAIN host.links}
      end  == at[CHOOSE n \in ends : \A k \in ends : n <= k]
  IN CASE ends = {} -> Unusable("error")
       [] ends # {} /\ end \in scan.denied -> Unusable("denied")
       [] ends # {} /\ end \in scan.broken \ scan.denied -> Unusable("error")
       [] OTHER -> CASE end \in DOMAIN host.odd    -> Unusable(PlainState[host.odd[end]])
                     [] end \in DOMAIN host.images -> [state |-> "observed", image |-> host.images[end]]
                     [] OTHER -> Unusable("absent")

CollectMemory(host, scan) ==
  LET probed == {n \in DOMAIN Targets : n <= scan.reach}
  IN  [error |-> "", truncated |-> scan.reach < Len(Targets),
       binaries |-> [n \in probed |-> Inspect(host, scan, Targets[n])]]

------------------------------------------------------------------------------

Observed(h)   == {n \in DOMAIN h.binaries : h.binaries[n].state = "observed"}
Unreadable(h) == {n \in DOMAIN h.binaries :
                   h.binaries[n].state \in {"denied", "error", "too_large", "truncated", "not_regular"}}

ImageOf(h, n) == h.binaries[n].image

(* Every check is one decision per image read: "holds", "violated",        *)
(* "inapplicable" or "undetermined".                                       *)
Evaluate(h, decided) ==
  LET having(v)  == {n \in Observed(h) : decided[n] = v}
      names(S)   == {Targets[n] : n \in S}
      gaps       == Unreadable(h)
      unclear    == having("undetermined")
      reason     == CASE gaps # {} /\ unclear = {} /\ (\A n \in gaps : h.binaries[n].state = "denied")
                           -> ReasonPermission
                      [] gaps = {} /\ unclear = {} -> ReasonTruncated
                      [] OTHER -> ReasonAmbiguousState
  IN CASE having("violated") # {} -> Fails(names(having("violated")))
       [] having("violated") = {} /\ (gaps # {} \/ unclear # {} \/ h.truncated) ->
            CannotTell(reason, {})
       [] OTHER -> IF having("holds") = {} THEN NotApplicable ELSE Passes

Holds(b) == IF b THEN "holds" ELSE "violated"

MEMORY_0001(h) == Evaluate(h, [n \in Observed(h) |-> Holds(ImageOf(h, n).pie)])

MEMORY_0002(h) ==
  LET decide(i) == IF i.dynamic THEN Holds(i.relro /\ i.bindNow) ELSE "inapplicable"
  IN  Evaluate(h, [n \in Observed(h) |-> decide(ImageOf(h, n))])

MEMORY_0003(h) ==
  LET decide(i) == IF i.symbols THEN Holds(i.canary) ELSE "undetermined"
  IN  Evaluate(h, [n \in Observed(h) |-> decide(ImageOf(h, n))])

MEMORY_0004(h) ==
  LET decide(i) == CASE ~i.symbols -> "undetermined"
                     [] i.symbols /\ i.fortify -> "holds"
                     [] i.symbols /\ ~i.fortify /\ ~i.candidates -> "inapplicable"
                     [] OTHER -> "violated"
  IN  Evaluate(h, [n \in Observed(h) |-> decide(ImageOf(h, n))])

MemoryVerdicts(h) ==
  [MEMORY_0001 |-> MEMORY_0001(h), MEMORY_0002 |-> MEMORY_0002(h),
   MEMORY_0003 |-> MEMORY_0003(h), MEMORY_0004 |-> MEMORY_0004(h)]
==============================================================================
