--------------------------- MODULE MCKineticStep ---------------------------
(* All orders, with and without -step_divide, phases and solid solutions.  *)
EXTENDS KineticStep

\* Attempts 2, 3 and 8 are left; in a cell of its own all of them, and those of a Pitzer model.
MCFew == 1 .. 13 \ {2, 3, 8}
MCMany == {{}, {6, 7, 9, 10, 11}}

MCInput(orders, kinds) ==
  [rk : orders, first : {2, KinTime}, kinds : kinds, elsewhere : BOOLEAN, skipped : {MCFew}]

\* Order 2 ends early with the solid solutions of the step before: not here.
MCInputs ==
  MCInput({1, 3, 6}, {{"pp"}, {"pp", "ss"}}) \cup MCInput({2}, {{}, {"pp"}}) \cup
  [rk : {3}, first : {KinTime}, kinds : {{"pp"}}, elsewhere : {FALSE}, skipped : MCMany]
MCOrder2 == MCInput({2}, {{"pp", "ss"}})
=============================================================================
