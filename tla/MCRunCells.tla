----------------------------- MODULE MCRunCells -----------------------------
(* All the ranges rebalancing could choose, and a few sets of dry cells.   *)
EXTENDS RunCells

\* Every cut of the cells into consecutive non-empty ranges.
AllCuts ==
  {e \in [Task -> Cell] :
     e[Threads-1] = Count - 1 /\ \A i \in 1 .. Threads-1 : e[i-1] < e[i]}
SomeDry == {{}, {0, 2}}
=============================================================================
