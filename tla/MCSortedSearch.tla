--------------------------- MODULE MCSortedSearch ---------------------------
(***************************************************************************)
(* SortedSearch over every sorted array of up to MaxLength elements from   *)
(* 1 .. MaxValue, and targets on, between and beside these values: the     *)
(* values are even numbers.                                                *)
(***************************************************************************)
EXTENDS SortedSearch

CONSTANTS MaxLength, MaxValue

MCArrays == UNION {[1 .. k -> {2 * v : v \in 1 .. MaxValue}] : k \in 0 .. MaxLength}

MCTargets == 1 .. 2 * MaxValue + 1
=============================================================================
