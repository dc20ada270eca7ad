------------------------- MODULE MCDexProvider -------------------------
(* Model values of DexProvider: callers are interchangeable, addresses are  *)
(* not, for some of them are not pairs.                                     *)
EXTENDS DexProvider, TLC

CONSTANTS c1, c2, c3, p, q, bad

TwoCallers   == {c1, c2}
ThreeCallers == {c1, c2, c3}
TwoAddrs     == {p, bad}
ThreeAddrs   == {p, q, bad}
OnePair      == {p}
TwoPairs     == {p, q}

Symmetry == Permutations(Callers)
=============================================================================
