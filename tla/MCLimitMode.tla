---------------------------- MODULE MCLimitMode ----------------------------
(***************************************************************************)
(* Small instances of LimitMode: one dispatch more than there is room for, *)
(* and runners for the executor that stops and for the next one.           *)
(***************************************************************************)
EXTENDS LimitMode, TLC

CONSTANTS a, b, d1, d2, d3, r1, r2, r3

Symmetry == Permutations(Dispatchers) \cup Permutations(Runners)

=============================================================================
