------------------------ MODULE MCSimulationPeriods ------------------------
(* Two boundary conditions of one kind, one with a solution, a well, the   *)
(* time step and two print controls; entries out of order, at the same     *)
(* time as others, next to it, and at or after the end.                    *)
EXTENDS SimulationPeriods

One(kind, item, of) == [kind |-> kind, item |-> item, of |-> of]
Head1 == One("specified", 1, "flow")
Head2 == One("specified", 2, "flow")
Solution == One("specified", 1, "solution")
Rate == One("well", 1, "flow")
Well == One("well", 1, "solution")
Step == One("time_step", 1, "flow")
Prints == One("print", 1, "flow")
AtEnds == One("end_of_period", 1, "flow")

MCSeries == {Head1, Head2, Solution, Rate, Well, Step, Prints, AtEnds}

E(t, v) == [time |-> t, value |-> v]

Data(head1, head2, solution, rate, step, print, atEnds) ==
  [s \in MCSeries |-> CASE s = Head1 -> head1 [] s = Head2 -> head2 [] s = Solution -> solution
                       [] s = Rate -> rate [] s = Well -> <<E(0, 51)>> [] s = Step -> step
                       [] s = Prints -> print [] OTHER -> atEnds]

MCInputs ==
  { [data |-> Data(d[1], d[2], d[3], d[4], <<E(0, 61)>>, d[5], d[6]), ends |-> d[7], flow_only |-> d[8]] :
      d \in { <<E(0, 11)>>, <<E(8, 13), E(0, 11), E(4, 12)>>, <<E(1, 11)>> }
         \X { <<E(0, 21), E(5, 22)>> }
         \X { <<E(0, 31), E(6, 32)>>, <<E(10, 33), E(0, 31), E(3, 32)>> }
         \X { <<E(0, 41), E(15, 42)>>, <<E(0, 41), E(6, 42), E(9, 43)>> }
         \X { <<E(2, 71), E(7, 72)>>, <<>> }
         \X { <<>>, <<E(5, 81)>>, <<E(7, 81)>> }
         \X { {12}, {7, 16} }
         \X BOOLEAN }
=============================================================================
