---------------------------- MODULE MCLoadBalance ----------------------------
(* LoadBalance with a set of measured times: some cells (threads) slow, the *)
(* others equally fast, or no time measured at all.                         *)
EXTENDS LoadBalance

CONSTANTS Slow     \* how many times slower a slow cell is

SlowCells == {[c \in Cell |-> IF c \in S THEN Slow ELSE 1] : S \in SUBSET Cell}
             \cup {[c \in Cell |-> 0]}

SlowThreads == [Task -> {0, 1, Slow}]

Fraction(n, d) == [num |-> n, den |-> d]

\* The documentation's 0.0 to 1.0, without the values below one half.
UpperHalf == {Fraction(0, 1), Fraction(1, 2), Fraction(3, 4), Fraction(1, 1)}

Quarter == {Fraction(1, 4)}
=============================================================================
