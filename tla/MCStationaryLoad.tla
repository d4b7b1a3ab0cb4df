--------------------------- MODULE MCStationaryLoad ---------------------------
(* StationaryLoad with fast cells, slow cells and a run without times.       *)
EXTENDS StationaryLoad

Costs == [Cell -> {1, 5}] \cup {[c \in Cell |-> 0]}

Fraction(n, d) == [num |-> n, den |-> d]

SomeFractions == {Fraction(1, 2), Fraction(3, 4)}
NoThreadTimes == {}
=============================================================================
