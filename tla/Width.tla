------------------------------- MODULE Width -------------------------------
(***************************************************************************)
(* Integers of a fixed width: what `as i64' makes of an unsigned number.   *)
(***************************************************************************)
EXTENDS Integers

CONSTANT MaxI64   \* the largest signed integer, i64::MAX

ASSUME WidthAssumption == MaxI64 \in Nat \ {0}

\* From 2^63 on a number becomes negative.
AsI64(n) == IF n <= MaxI64 THEN n ELSE n - (2 * MaxI64 + 2)
=============================================================================
