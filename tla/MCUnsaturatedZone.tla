-------------------------- MODULE MCUnsaturatedZone --------------------------
(* Two cells, two workers, quarters of saturation, amounts they divide.    *)
EXTENDS UnsaturatedZone, TLC

CONSTANTS c1, c2, w1, w2
MCCell == {c1, c2}
MCTask == {w1, w2}
Symmetry == Permutations(MCTask) \cup Permutations(MCCell)
=============================================================================
