------------------------ MODULE MCTimePriceBarStore ------------------------
(* Small instances of TimePriceBarStore: bars of two or three blocks. *)
EXTENDS TimePriceBarStore

CONSTANTS p1, p2

Symmetry == Permutations(Pairs)
=============================================================================
