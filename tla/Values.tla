------------------------------- MODULE Values --------------------------------
(***************************************************************************)
(* Words and numerals.  A setting's value is a string; strconv makes a     *)
(* number of the ones that are numerals, and Go's integers wrap around.    *)
(***************************************************************************)
EXTENDS Outcomes, Integers

CONSTANTS
  Numerals,   \* the numerals that can be written: a function to their values
  HalfWord    \* half the range of an int, scaled down

IsNumeral(v) == v \in DOMAIN Numerals   \* strconv.Atoi takes it
Number(v)    == Numerals[v]

Wrap(n) == ((n + HalfWord) % (2 * HalfWord)) - HalfWord
==============================================================================
