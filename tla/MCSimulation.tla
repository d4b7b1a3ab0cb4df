---------------------------- MODULE MCSimulation ----------------------------
(* The series of MCSimulationPeriods, with time steps shorter and longer    *)
(* than a period, one of which changes; one kind of output.                 *)
EXTENDS Simulation, MCSimulationPeriods

CONSTANT heads
MCControl == {heads}

MCFiles ==
  { [data |-> Data(d[1], <<E(0, 21), E(5, 22)>>, d[2], d[3], d[4], d[5], <<>>),
     ends |-> d[6], flow_only |-> d[7]] :
      d \in { <<E(0, 11)>>, <<E(8, 13), E(0, 11), E(4, 12)>>, <<E(1, 11)>> }
         \X { <<E(0, 31), E(6, 32)>>, <<E(10, 33), E(0, 31), E(3, 32)>> }
         \X { <<E(0, 41), E(15, 42)>>, <<E(0, 41), E(6, 42), E(9, 43)>> }
         \X { <<E(0, 4)>>, <<E(0, 20), E(9, 3)>> }
         \X { <<E(2, 71), E(7, 72)>>, <<>> }
         \X { {12}, {7, 16} }
         \X BOOLEAN }
=============================================================================
