-------------------------- MODULE MCTimeStepping --------------------------
(* Two kinds of output, heads and chemistry; heads are printed once in      *)
(* steady flow.                                                             *)
EXTENDS TimeStepping

CONSTANTS heads, chemistry
MCControl == {heads, chemistry}
MCOnce == {heads}
MCSteps == {-2, 0, 9, 100, 101}
=============================================================================
