-------------------------- MODULE SerialTransport --------------------------
(***************************************************************************)
(* What the time loop of PHAST does to the components when one process     *)
(* does all the work: in each step every component is transported once,    *)
(* all of them with the same flow and boundary data, those of that step,   *)
(* and then the cells react once.                                          *)
(***************************************************************************)
EXTENDS Integers

VARIABLES
  c,      \* each component: transports, reactions, data of the last transport
  step,   \* the time steps transported
  phase   \* "transported" until the cells have reacted

svars == <<c, step, phase>>
Component == DOMAIN c

SerialInit ==
  /\ \A i \in Component : c[i].moved = 0 /\ c[i].reacted = 0 /\ ~c[i].bad
  /\ step = 0
  /\ phase = "reacted"

Transport ==
  /\ phase = "reacted"
  /\ step' = step + 1
  /\ \E data \in {c'[i].with : i \in Component} :
       /\ data.deltim = step'
       /\ c' = [i \in Component |-> [c[i] EXCEPT !.moved = @+1, !.with = data]]
  /\ phase' = "transported"

React ==
  /\ phase = "transported"
  /\ c' = [i \in Component |-> [c[i] EXCEPT !.reacted = @+1]]
  /\ phase' = "reacted"
  /\ UNCHANGED step

SerialSpec == SerialInit /\ [][Transport \/ React]_svars
=============================================================================
