---------------------------- MODULE StationaryLoad ----------------------------
(***************************************************************************)
(* LoadBalance driven by a chemistry whose cost per cell does not change:  *)
(* every RunCells measures the same times, so the successive calls of      *)
(* RebalanceLoad are the only thing that moves the ranges.                 *)
(***************************************************************************)
EXTENDS LoadBalance

CONSTANT Modes   \* the values of rebalance_by_cell the client may have set

VARIABLE cost   \* the time each cell takes, the same in every time step

allVars == <<vars, cost>>

StationaryInit ==
  /\ \E b \in Modes : InitWith(b)
  /\ cost \in CellTimes

\* The ends RebalanceLoad computes from the times this cost makes it measure.
StationaryEnds ==
  IF byCell
  THEN {EndsByCell(cost, e) : e \in CellTargets[cost]}
  ELSE LET t == [i \in Task |-> TaskTime(cost, i)]
       IN  {EndsByTask(t, e) : e \in SharedEnds(t)}

TimeStep ==
  /\ MayRebalance
  /\ \E e \in StationaryEnds : Redistribute(e)
  /\ UNCHANGED <<fraction, byCell, saved, broken, cost>>

StationarySpec ==
  StationaryInit /\ [][TimeStep]_allVars /\ WF_allVars(TimeStep)

\* Under a stationary load the ranges settle: repeated rebalancing does not move
\* the same cells back and forth for ever.  PhreeqcRM.h, SetRebalanceFraction,
\* suggests a fraction below 1.0 to "avoid possible oscillations".
RangesSettle == <>[][FALSE]_endCell

\* They settle when the load is balanced by the times of the cells.
RangesSettleByCell == byCell => RangesSettle
=============================================================================
