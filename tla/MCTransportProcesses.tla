----------------------- MODULE MCTransportProcesses -----------------------
(* One process; a worker that is the only transporter with components of  *)
(* its own, or with none; all processes transporters; one left out; more   *)
(* components than transporters; flow alone.                               *)
EXTENDS TransportProcesses

Case(tasks, transporters, ns, solute, steady, fresur, sbc) ==
  [tasks |-> tasks, transporters |-> transporters, ns |-> ns, solute |-> solute,
   steady |-> steady, fresur |-> fresur, sbc |-> sbc]

MCSetups ==
  { Case(1, 5, 2, TRUE, FALSE, FALSE, TRUE),
    Case(2, 1, 2, TRUE, FALSE, TRUE, FALSE),
    Case(2, 5, 3, TRUE, FALSE, TRUE, TRUE),
    Case(2, 5, 2, TRUE, TRUE, FALSE, TRUE),
    Case(3, 2, 3, TRUE, FALSE, FALSE, FALSE),
    Case(3, 5, 2, TRUE, TRUE, TRUE, TRUE),
    Case(2, 5, 1, FALSE, FALSE, FALSE, FALSE),
    Case(2, 5, 1, FALSE, TRUE, FALSE, FALSE) }
=============================================================================
