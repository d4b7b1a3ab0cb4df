-------------------------- MODULE MCMpiWorkerLoop --------------------------
(* Two ways to cut the cells.                                              *)
EXTENDS MpiWorkerLoop

CONSTANTS even, uneven
MCCuts == {even, uneven}
=============================================================================
