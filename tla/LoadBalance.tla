----------------------------- MODULE LoadBalance -----------------------------
(***************************************************************************)
(* Which worker runs which reaction cell in the threaded build of          *)
(* PhreeqcRM: the ranges start_cell/end_cell, the cells each worker's      *)
(* IPhreeqc instance really holds, the two load-balancing algorithms that  *)
(* RunCells ends with, and StateSave/StateApply/StateDelete, which carry   *)
(* the ranges and the cells back in time.                                  *)
(*                                                                         *)
(* The clock times are integers and the quotients of the code are compared *)
(* exactly, by cross multiplication; the 0/0 of a run in which no time was *)
(* measured is kept: every comparison with it is false.  A fraction is a   *)
(* pair numerator/denominator.  What moves with a cell besides its place   *)
(* (the uz_bin entry) is the subject of UnsaturatedZone.                   *)
(***************************************************************************)
EXTENDS Integers, FiniteSets, FiniteSetsExt, Functions

CONSTANTS
  Count,        \* count_chemistry, the number of reaction cells
  Threads,      \* nthreads
  Fractions,    \* the values the client passes to SetRebalanceFraction
  CellTimes,    \* measured times per cell, for RebalanceLoadPerCell
  ThreadTimes,  \* measured times per thread, for RebalanceLoad
  StateIds,     \* the integers the client passes to StateSave
  TransferMayFail  \* whether the DELETE that ends a transfer can fail

Cell == 0 .. Count - 1
Task == 0 .. Threads - 1

\* CreateMapping refuses more workers than cells.
ASSUME SizeAssumption == Threads \in Nat \ {0} /\ Count \in Nat /\ Threads <= Count
ASSUME FractionAssumption ==
         Fractions \subseteq [num : Nat, den : Nat \ {0}]
ASSUME TimeAssumption ==
         CellTimes \subseteq [Cell -> Nat] /\ ThreadTimes \subseteq [Task -> Nat]

VARIABLES
  startCell,    \* first cell of each worker
  endCell,      \* last cell of each worker
  bin,          \* the cells defined in each worker's IPhreeqc instance
  fraction,     \* rebalance_fraction
  byCell,       \* rebalance_by_cell
  saved,        \* state_map: what StateSave stored
  broken        \* a transfer failed half way since the last StateApply

vars == <<startCell, endCell, bin, fraction, byCell, saved, broken>>

Nothing == <<>>

----------------------------------------------------------------------------
(* The ranges.                                                             *)

\* The first cells of workers that end at the cells e.
StartsOf(e) == [i \in Task |-> IF i = 0 THEN 0 ELSE e[i-1] + 1]

\* Faulty variant: the last cells are one too far.
EvenEndsOneTooFar ==
  [i \in Task |-> (Count \div Threads) * (i + 1)
                   + (IF i < Count % Threads THEN i + 1 ELSE Count % Threads)]

\* SetEndCells: the first Count % Threads workers take one cell more.
EvenEnds ==
  LET n == Count \div Threads
      extra == Count % Threads
  IN  [i \in Task |-> n * (i + 1) - 1 + (IF i < extra THEN i + 1 ELSE extra)]

\* The worker the transfer loop takes for cell k: its index only moves up
\* while k lies beyond the end of the worker it points at.
WorkerOf(e, k) ==
  CHOOSE i \in Task : k <= e[i] /\ \A j \in 0 .. i-1 : e[j] < k

\* A C++ conversion to int drops the fractional part, towards zero.
Truncate(n, d) == IF n >= 0 THEN n \div d ELSE -((-n) \div d)

----------------------------------------------------------------------------
(* RebalanceLoadPerCell: where the cumulative time of the cells says the   *)
(* ranges should end.                                                      *)

\* The while loop of worker i, whose range begins at s, goes on past cell j.
GoesOn(t, i, s, j) ==
  /\ SumFunctionOnSet(t, s .. j) * Threads < SumFunctionOnSet(t, Cell)
  /\ Count - j > Threads - i

\* Faulty variant: a worker does not keep the cell that is its only one.
StopsBefore(t, i, s, e) ==
  \E j \in s .. Count - 1 :
    /\ \A k \in s .. j-1 : GoesOn(t, i, s, k)
    /\ ~ GoesOn(t, i, s, j)
    /\ e = j - 1

\* It stops at cell j, which the worker keeps only when it has no other.
StopsAt(t, i, s, e) ==
  \E j \in s .. Count - 1 :
    /\ \A k \in s .. j-1 : GoesOn(t, i, s, k)
    /\ ~ GoesOn(t, i, s, j)
    /\ e = IF j = s THEN j ELSE j - 1

\* The ends for the times t (there is exactly one such function).
BalancedEnds(t) ==
  {e \in [Task -> Cell] :
     /\ e[Threads-1] = Count - 1
     /\ \A i \in 0 .. Threads-2 : StopsAt(t, i, StartsOf(e)[i], e[i])}

\* Evaluated once by TLC.
CellTargets == [t \in CellTimes |-> BalancedEnds(t)]

TaskTime(t, i) == SumFunctionOnSet(t, startCell[i] .. endCell[i])

\* Efficiency above 0.95: sum of the thread times over Threads times the largest.
Efficient(t) ==
  LET longest == Max({TaskTime(t, i) : i \in Task})
  IN  longest > 0 /\ 100 * SumFunctionOnSet(t, Cell) > 95 * Threads * longest

\* Faulty variant: always a move of one cell at least.
MoveByCellAtLeastOne(e, i) ==
  LET part == Truncate((e[i] - endCell[i]) * fraction.num, fraction.den)
  IN  endCell[i] + (IF part = 0 THEN 1 ELSE part)

\* Only a fraction of the way, but all of it when the fraction rounds to nothing.
MoveByCell(e, i) ==
  LET whole == e[i] - endCell[i]
      part  == Truncate(whole * fraction.num, fraction.den)
  IN  endCell[i] + (IF part = 0 THEN whole ELSE part)

----------------------------------------------------------------------------
(* RebalanceLoad with rebalance_by_cell off: from the time per cell of     *)
(* each thread, the number of cells that would even the times out.         *)

CellsOf(i) == endCell[i] - startCell[i] + 1

\* Four times Threads times each thread's time; a zero counts as a quarter of
\* the average.
Scaled(t) ==
  [i \in Task |-> IF t[i] = 0 THEN SumFunctionOnSet(t, Task) ELSE 4 * Threads * t[i]]

\* The product of the other threads' values turns a quotient into an integer.
Others(f, i) == FoldFunctionOnSet(LAMBDA a, b : a * b, 1, f, Task \ {i})

\* Time per cell of each thread, and its inverse, over a common denominator.
Rate(t) ==
  LET cells == [i \in Task |-> CellsOf(i)]
  IN  [i \in Task |-> Scaled(t)[i] * Others(cells, i)]
Speed(t) == [i \in Task |-> CellsOf(i) * Others(Scaled(t), i)]

\* Each thread's share of the cells, rounded down, but at least one cell.
Share(t) ==
  LET speed == Speed(t)
      all   == SumFunctionOnSet(speed, Task)
  IN  [i \in Task |-> Max({1, (Count * speed[i]) \div all})]

\* The number of cells of worker i when the workers end at e.
Width(e, i) == e[i] - StartsOf(e)[i] + 1

\* The cells left over are handed out one by one, each to the thread that would
\* finish it first: none was given while a cheaper place was free.
HandedOut(rate, share, e) ==
  \A i \in Task :
    /\ Width(e, i) >= share[i]
    /\ Width(e, i) > share[i] =>
         LET last == Width(e, i) * rate[i]
         IN  \A j \in Task : LET next == (Width(e, j) + 1) * rate[j]
                             IN  last < next \/ (last = next /\ i <= j)

\* The cells in excess are taken one by one, each from the thread that would
\* still be the last to finish, never its only cell.
TakenBack(rate, share, e) ==
  \A i \in Task :
    /\ Width(e, i) <= share[i]
    /\ Width(e, i) < share[i] =>
         LET last == Width(e, i) * rate[i]
         IN  \A j \in Task : LET next == (Width(e, j) - 1) * rate[j]
                             IN  \/ Width(e, j) = 1
                                 \/ last > next \/ (last = next /\ i <= j)

\* Ends that give every worker at least one cell.
Ends == {e \in [Task -> Cell] :
           /\ e[Threads-1] = Count - 1
           /\ \A i \in Task : Width(e, i) >= 1}

\* The ends for the thread times t.  With no time measured every quotient is
\* 0/0: each thread gets one cell and thread 0 all that is left over.
SharedEnds(t) ==
  IF SumFunctionOnSet(t, Task) = 0
  THEN {e \in Ends : \A i \in Task \ {0} : Width(e, i) = 1}
  ELSE LET rate  == Rate(t)
           share == Share(t)
       IN  {e \in Ends : HandedOut(rate, share, e) \/ TakenBack(rate, share, e)}

\* Less than five per cent to gain.
LittleToGain(t, e) ==
  LET rate   == Rate(t)
      before == Max({0} \cup {CellsOf(i) * rate[i] : i \in Task})
      after  == Max({0} \cup {Width(e, i) * rate[i] : i \in Task})
  IN  before > 0 /\ 20 * (before - after) < before

MoveByTask(e, i) ==
  endCell[i] + Truncate((e[i] - endCell[i]) * fraction.num, fraction.den)

----------------------------------------------------------------------------
(* Where a call of RebalanceLoad may take the ends of the ranges.          *)

\* Early returns of RebalanceLoad.
MayRebalance == Threads > 1 /\ fraction.num > 0

\* The last worker always ends at the last cell.
EndsByCell(t, e) ==
  IF Efficient(t) THEN endCell
  ELSE [i \in Task |-> IF i = Threads - 1 THEN Count - 1 ELSE MoveByCell(e, i)]

EndsByTask(t, e) ==
  IF LittleToGain(t, e) THEN endCell
  ELSE [i \in Task |-> IF i = Threads - 1 THEN Count - 1 ELSE MoveByTask(e, i)]

NewEnds ==
  IF byCell
  THEN UNION {{EndsByCell(t, e) : e \in CellTargets[t]} : t \in CellTimes}
  ELSE UNION {{EndsByTask(t, e) : e \in SharedEnds(t)} : t \in ThreadTimes}

\* The transfer loop has treated the cells below k: those that change workers
\* have left the old one and, if it really had them, are in the new one.
Transferred(e, k) ==
  [w \in Task |->
     {c \in Cell :
        \/ c \in bin[w] /\ ~ (c < k /\ w = WorkerOf(endCell, c) /\ w # WorkerOf(e, c))
        \/ /\ c < k /\ w = WorkerOf(e, c)
           /\ c \in bin[WorkerOf(endCell, c)]}]

----------------------------------------------------------------------------
(* The actions: the calls of the client, on the initiating thread.         *)

\* After CreateMapping (SetEndCells) and InitialPhreeqc2Module, which defines
\* all cells in worker 0 and then hands the others their ranges.
InitWith(b) ==
  /\ endCell = EvenEnds
  /\ startCell = StartsOf(EvenEnds)
  /\ bin = [w \in Task |-> startCell[w] .. endCell[w]]
  /\ fraction \in Fractions
  /\ byCell = b
  /\ saved = [s \in StateIds |-> Nothing]
  /\ broken = FALSE

\* The constructor turns rebalance_by_cell on.
Init == InitWith(TRUE)

\* Every cell that changes workers is transferred, then the ranges are replaced.
Redistribute(e) ==
  /\ bin' = Transferred(e, Count)
  /\ endCell' = e
  /\ startCell' = StartsOf(e)

\* The end of a RunCells in which every worker finished its cells.
RebalanceLoad ==
  /\ MayRebalance
  /\ \E e \in NewEnds : Redistribute(e)
  /\ UNCHANGED <<fraction, byCell, saved, broken>>

\* Faulty variant: a cell is deleted from its old worker before the new one has it.
FailsAfterDelete ==
  /\ TransferMayFail /\ MayRebalance
  /\ \E e \in NewEnds, k \in Cell :
       LET old == WorkerOf(endCell, k)
       IN  /\ old # WorkerOf(e, k)
           /\ bin' = [Transferred(e, k) EXCEPT ![old] = @ \ {k}]
  /\ broken' = TRUE
  /\ UNCHANGED <<startCell, endCell, fraction, byCell, saved>>

\* Deleting cell k from its old worker fails: the loop is left by an exception
\* with k in both workers and the ranges as they were.
RebalanceLoadFails ==
  /\ TransferMayFail /\ MayRebalance
  /\ \E e \in NewEnds, k \in Cell :
       LET old == WorkerOf(endCell, k)
           new == WorkerOf(e, k)
       IN  /\ old # new
           /\ bin' = [Transferred(e, k) EXCEPT ![new] = @ \cup ({k} \cap bin[old])]
  /\ broken' = TRUE
  /\ UNCHANGED <<startCell, endCell, fraction, byCell, saved>>

SetRebalanceFraction(f) ==
  /\ fraction' = f
  /\ UNCHANGED <<startCell, endCell, bin, byCell, saved, broken>>

SetRebalanceByCell(b) ==
  /\ byCell' = b
  /\ UNCHANGED <<startCell, endCell, bin, fraction, saved, broken>>

StateSave(s) ==
  /\ saved' = [saved EXCEPT ![s] =
                 [start |-> startCell, end |-> endCell, bin |-> bin, broken |-> broken]]
  /\ UNCHANGED <<startCell, endCell, bin, fraction, byCell, broken>>

\* Faulty variants: the ranges are not restored; the stored state is moved out.
StateApplyCellsOnly(s) ==
  /\ saved[s] # Nothing
  /\ bin' = saved[s].bin
  /\ broken' = saved[s].broken
  /\ UNCHANGED <<startCell, endCell, fraction, byCell, saved>>

StateApplyAndDrop(s) ==
  /\ saved[s] # Nothing
  /\ startCell' = saved[s].start
  /\ endCell' = saved[s].end
  /\ bin' = saved[s].bin
  /\ broken' = saved[s].broken
  /\ saved' = [saved EXCEPT ![s] = Nothing]
  /\ UNCHANGED <<fraction, byCell>>

\* An identifier under which nothing is stored is refused.
StateApply(s) ==
  /\ saved[s] # Nothing
  /\ startCell' = saved[s].start
  /\ endCell' = saved[s].end
  /\ bin' = saved[s].bin
  /\ broken' = saved[s].broken
  /\ UNCHANGED <<fraction, byCell, saved>>

StateDelete(s) ==
  /\ saved[s] # Nothing
  /\ saved' = [saved EXCEPT ![s] = Nothing]
  /\ UNCHANGED <<startCell, endCell, bin, fraction, byCell, broken>>

Next ==
  \/ RebalanceLoad
  \/ RebalanceLoadFails
  \/ \E f \in Fractions : SetRebalanceFraction(f)
  \/ \E b \in BOOLEAN : SetRebalanceByCell(b)
  \/ \E s \in StateIds : StateSave(s) \/ StateApply(s) \/ StateDelete(s)

Spec == Init /\ [][Next]_vars

----------------------------------------------------------------------------
(* Properties.                                                             *)

SavedState ==
  [start : [Task -> Int], end : [Task -> Int], bin : [Task -> SUBSET Cell],
   broken : BOOLEAN]

\* The variables have their types; nothing more.
TypeOK ==
  /\ startCell \in [Task -> Int]
  /\ endCell \in [Task -> Int]
  /\ bin \in [Task -> SUBSET Cell]
  /\ fraction \in Fractions
  /\ byCell \in BOOLEAN
  /\ saved \in [StateIds -> SavedState \cup {Nothing}]
  /\ broken \in BOOLEAN

Partition(start, end) ==
  /\ start = StartsOf(end)
  /\ end[Threads-1] = Count - 1
  /\ \A i \in Task : start[i] <= end[i]

\* The vectors returned by GetStartCell and GetEndCell cut the reaction cells
\* into consecutive ranges, one for each worker and none of them empty, however
\* often the load was rebalanced in whatever way and whichever state was applied.
RangesPartitionCells == Partition(startCell, endCell)

\* RunCellsThread(w) runs the cells start_cell[w]..end_cell[w] in the IPhreeqc
\* instance of worker w: the instance has exactly these cells, unless a transfer
\* has failed half way and no state saved before was applied since.
WorkersHoldTheirRanges ==
  ~ broken => \A w \in Task : bin[w] = startCell[w] .. endCell[w]

\* A cell is copied to its new worker before it is deleted from the old one: no
\* sequence of rebalancing, failed transfers and state changes loses a cell.
NoCellLost == \A c \in Cell : \E w \in Task : c \in bin[w]

\* What has to hold as well, for StateApply to keep these: a stored state is sound.
SavedStatesSound ==
  \A s \in StateIds : saved[s] # Nothing =>
    /\ Partition(saved[s].start, saved[s].end)
    /\ ~ saved[s].broken =>
         \A w \in Task : saved[s].bin[w] = saved[s].start[w] .. saved[s].end[w]
    /\ \A c \in Cell : \E w \in Task : c \in saved[s].bin[w]

\* The fractions for which the ranges stay in order: none, or one half and more.
HalfOrMore ==
  \A f \in Fractions : f.num = 0 \/ (f.num <= f.den /\ f.den <= 2 * f.num)

\* The distribution of cells is the one CellOwnership promises.
Ownership ==
  INSTANCE CellOwnership WITH
    owner <- [c \in Cell |-> CHOOSE w \in Task : c \in startCell[w] .. endCell[w]],
    kept <- [s \in StateIds |->
               IF saved[s] = Nothing THEN Nothing
               ELSE [c \in Cell |->
                       CHOOSE w \in Task : c \in saved[s].start[w] .. saved[s].end[w]]]

ImplementsOwnership == Ownership!Spec
=============================================================================
