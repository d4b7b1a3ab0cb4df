--------------------------- MODULE MCRestartFiles ---------------------------
(* Four cells.  Kinetics in the first two from the input; all from the     *)
(* last file; part of the cells from each of the two files, kinetics in    *)
(* the second only.  Other places in each, at the same distance of two.    *)
EXTENDS RestartFiles

Case(solutions, kinetics, places) ==
  [ic |-> [i \in 0..3 |-> [solution |-> solutions[i+1], kinetics |-> kinetics[i+1]]],
   place |-> [i \in 0..3 |-> places[i+1]]]

MCInputs ==
  { Case(<<"input", "input", "input", "input">>, <<"input", "input", "none", "none">>, <<0, 2, 4, 6>>),
    Case(<<"restart", "restart", "restart", "restart">>, <<"restart", "restart", "restart", "restart">>,
         <<6, 4, 2, 0>>),
    Case(<<"input", "restart", "backup", "backup">>, <<"input", "restart", "none", "backup">>,
         <<0, 3, 5, 6>>) }

Division(sizes) == [i \in 0..3 |-> CHOOSE w \in 0..3 : sizes[w+1] <= i /\ i < sizes[w+2]]

MCDivisions == { Division(<<0, 4, 4, 4, 4>>), Division(<<0, 1, 4, 4, 4>>),
                 Division(<<0, 2, 3, 4, 4>>) }

MCWetCells == { {0, 1, 2, 3}, {0, 3}, {1} }
=============================================================================
