------------------------------ MODULE RunCells ------------------------------
(***************************************************************************)
(* PhreeqcRM::RunCells in the threaded build: the initiating thread starts *)
(* one RunCellsThread for each worker, waits for all of them, collects     *)
(* their output, errors and times, and rebalances the load.  The threads   *)
(* share phreeqcrm_error_string, which PartitionUZ clears and ErrorMessage *)
(* appends to; everything else they write belongs to their own worker.     *)
(*                                                                         *)
(* Chemistry is abstracted to the cells it was done for, a row of selected *)
(* output to the cell it was computed in (Empty for a dry cell), a measured*)
(* time to its presence.  Where rebalancing may take the ranges is the     *)
(* subject of LoadBalance, which shows that they stay a partition; here a  *)
(* transfer of cells may fail too, after every worker has succeeded.       *)
(***************************************************************************)
EXTENDS Integers, FiniteSets, Sequences, SequencesExt

CONSTANTS
  Count,         \* count_chemistry
  Threads,       \* nthreads
  Distributions, \* the last cells of the workers that rebalancing may choose
  DrySets,       \* the sets of cells whose saturation the client may set to zero
  MaxCalls       \* bound on the calls of RunCells

Cell == 0 .. Count - 1
Task == 0 .. Threads - 1

ASSUME SizesAssumption ==
         Threads \in Nat \ {0} /\ Count \in Nat /\ Threads <= Count /\ MaxCalls \in Nat
ASSUME DistributionsAssumption ==
         \A e \in Distributions :
           /\ e \in [Task -> Cell]
           /\ e[Threads-1] = Count - 1
           /\ \A i \in 1 .. Threads-1 : e[i-1] < e[i]
ASSUME DryAssumption == DrySets \subseteq SUBSET Cell

Empty == Count              \* a row of selected output without values
Garbage == Count + 1        \* a row read where PHREEQC has written none
NoTable == <<Count + 2>>    \* CSelectedOutputMap has no entry
Undefined == Threads        \* the message that solutions are not defined

VARIABLES
  endCell,     \* end_cell
  defined,     \* cells with a solution in their worker
  left,        \* cells that a failed transfer has left in other workers
  dry,         \* cells with a saturation of 1e-6 and less
  needCheck,   \* need_error_check
  selectedOn,  \* selected_output_on
  printOn,     \* print_chemistry_on[0]
  partition,   \* partition_uz_solids
  phase,       \* whether the initiating thread is inside RunCells
  at,          \* where each worker's RunCellsThread is
  next,        \* the cell it comes to next
  rows,        \* CSelectedOutputMap of each worker
  times,       \* cell_clock_times of each worker, as the cells they stand for
  stream,      \* out_stream of each worker
  output,      \* what this call has added to the output file
  report,      \* phreeqcrm_error_string, as the set of its messages
  steps,       \* reaction steps each cell has made in this call
  result,      \* return value of the last call since the cells were defined
  calls        \* calls of RunCells so far

client == <<defined, left, dry, needCheck, selectedOn, printOn, partition>>
worker == <<at, next, rows, times, stream, report, steps>>
vars   == <<endCell, client, phase, worker, output, result, calls>>

StartCell(n) == IF n = 0 THEN 0 ELSE endCell[n-1] + 1

Init ==
  /\ endCell \in Distributions
  /\ defined = {}
  /\ left = {}
  /\ dry \in DrySets
  /\ needCheck = TRUE
  /\ selectedOn \in BOOLEAN /\ printOn \in BOOLEAN /\ partition \in BOOLEAN
  /\ phase = "idle"
  /\ at = [n \in Task |-> "done"]
  /\ next = [n \in Task |-> 0]
  /\ rows = [n \in Task |-> NoTable]
  /\ times = [n \in Task |-> <<>>]
  /\ stream = [n \in Task |-> <<>>]
  /\ output = <<>>
  /\ report = {}
  /\ steps = [c \in Cell |-> 0]
  /\ result = "none"
  /\ calls = 0

----------------------------------------------------------------------------
(* The client between two calls.                                           *)

\* InitialPhreeqc2Module gives the cells their solutions.
InitialPhreeqc2Module ==
  /\ phase = "idle" /\ defined # Cell
  /\ defined' = Cell
  /\ report' = {}
  /\ result' = "none"
  /\ UNCHANGED <<endCell, left, dry, needCheck, selectedOn, printOn, partition, phase,
                 at, next, rows, times, stream, output, steps, calls>>

SetSelectedOutputOn(tf) ==
  /\ phase = "idle" /\ selectedOn' = tf
  /\ report' = {}
  /\ UNCHANGED <<endCell, defined, left, dry, needCheck, printOn, partition, phase, at,
                 next, rows, times, stream, output, steps, result, calls>>

----------------------------------------------------------------------------
(* RunCells: up to the parallel region.                                    *)

\* The solutions are checked in the first call only: need_error_check is reset
\* before the outcome is known.
CheckFails == needCheck /\ defined # Cell

RunCellsRefused ==
  /\ phase = "idle" /\ calls < MaxCalls
  /\ CheckFails
  /\ needCheck' = FALSE
  /\ report' = {Undefined}
  /\ result' = "fail"
  /\ calls' = calls + 1
  /\ UNCHANGED <<endCell, defined, left, dry, selectedOn, printOn, partition, phase, at,
                 next, rows, times, stream, output, steps>>

\* The client has set the saturations; every worker gets an empty stream.
StartThreads ==
  /\ phase = "idle" /\ calls < MaxCalls
  /\ ~ CheckFails
  /\ needCheck' = FALSE
  /\ dry' \in DrySets
  /\ phase' = "running"
  /\ at' = [n \in Task |-> "partition"]
  /\ stream' = [n \in Task |-> <<>>]
  /\ output' = <<>>
  /\ report' = {}
  /\ steps' = [c \in Cell |-> 0]
  /\ result' = "none"
  /\ calls' = calls + 1
  /\ UNCHANGED <<endCell, defined, left, selectedOn, printOn, partition, next, rows,
                 times>>

----------------------------------------------------------------------------
(* RunCellsThread(n).                                                      *)

\* PartitionUZ, once for each cell, clears the error string of all; then the
\* worker's times and tables are cleared and the headings filled in.
Partition(n) ==
  /\ phase = "running" /\ at[n] = "partition"
  /\ report' = IF partition THEN {} ELSE report
  /\ times' = [times EXCEPT ![n] = <<>>]
  /\ rows' = [rows EXCEPT ![n] = IF selectedOn THEN <<>> ELSE NoTable]
  /\ at' = [at EXCEPT ![n] = "cells"]
  /\ next' = [next EXCEPT ![n] = StartCell(n)]
  /\ UNCHANGED <<endCell, client, phase, stream, output, steps, result, calls>>

\* The input that turns selected output on or off fails in PHREEQC.
HeadingsFail(n) ==
  /\ phase = "running" /\ at[n] = "partition"
  /\ times' = [times EXCEPT ![n] = <<>>]
  /\ rows' = [rows EXCEPT ![n] = NoTable]
  /\ report' = (IF partition THEN {} ELSE report) \cup {n}
  /\ at' = [at EXCEPT ![n] = "failed"]
  /\ UNCHANGED <<endCell, client, phase, next, stream, output, steps, result, calls>>

\* Faulty variant: no row for a dry cell.
RowsSkippingDry(n, c) ==
  IF ~ selectedOn \/ c \in dry THEN rows[n] ELSE Append(rows[n], c)

\* What a cell adds to the worker's table: a dry cell an empty row.
RowsWith(n, c) ==
  IF ~ selectedOn THEN rows[n]
  ELSE Append(rows[n], IF c \in dry THEN Empty ELSE IF c \in defined THEN c ELSE Garbage)

\* The next cell is run, or found dry.  RUN_CELLS passes over a cell without a
\* solution and reports no error.
RunCell(n) ==
  /\ phase = "running" /\ at[n] = "cells" /\ next[n] <= endCell[n]
  /\ LET c == next[n]
     IN  /\ times' = [times EXCEPT ![n] = Append(@, c)]
         /\ rows' = [rows EXCEPT ![n] = RowsWith(n, c)]
         /\ stream' = [stream EXCEPT ![n] = IF printOn THEN Append(@, c) ELSE @]
         /\ steps' = [steps EXCEPT ![c] = IF c \in defined \ dry THEN @ + 1 ELSE @]
         /\ next' = [next EXCEPT ![n] = c + 1]
  /\ UNCHANGED <<endCell, client, phase, at, report, output, result, calls>>

\* RUN_CELLS reports an error: the output so far is kept and the thread ends.
RunCellFails(n) ==
  /\ phase = "running" /\ at[n] = "cells" /\ next[n] <= endCell[n]
  /\ next[n] \in defined \ dry
  /\ times' = [times EXCEPT ![n] = Append(@, next[n])]
  /\ stream' = [stream EXCEPT ![n] = Append(@, next[n])]
  /\ report' = report \cup {n}
  /\ at' = [at EXCEPT ![n] = "failed"]
  /\ UNCHANGED <<endCell, client, phase, next, rows, output, steps, result, calls>>

\* SelectedOutputMap gets the new tables and the thread's time is noted.
ThreadEnds(n) ==
  /\ phase = "running" /\ at[n] = "cells" /\ next[n] > endCell[n]
  /\ at' = [at EXCEPT ![n] = "done"]
  /\ UNCHANGED <<endCell, client, phase, next, rows, times, stream, report, output,
                 steps, result, calls>>

----------------------------------------------------------------------------
(* RunCells: after the parallel region.                                    *)

Failed == {n \in Task : at[n] = "failed"}

\* Faulty variant: the first worker that ends is not waited for.
JoinedAtFirst == phase = "running" /\ \E n \in Task : at[n] \in {"done", "failed"}

Joined == phase = "running" /\ \A n \in Task : at[n] \in {"done", "failed"}

\* What the workers hold, in the order of the workers.
InOrder(f) == FlattenSeq([i \in 1 .. Threads |-> f[i-1]])

\* The streams go to the output file in the order of the workers.
OutputWritten == IF printOn THEN InOrder(stream) ELSE output

\* Faulty variant: the messages of the threads are relied on.
ReportAsLeft == report

\* HandleErrorsInternal reports the error string of every worker that failed.
ReportOfWorkers == report \cup Failed

Return(r, messages) ==
  /\ phase' = "idle"
  /\ output' = OutputWritten
  /\ report' = ReportOfWorkers \cup messages
  /\ result' = r
  /\ stream' = [n \in Task |-> <<>>]

\* Faulty variant: the call starts over when a worker has failed.
JoinAndTryAgain ==
  /\ Joined /\ Failed # {}
  /\ at' = [n \in Task |-> "partition"]
  /\ stream' = [n \in Task |-> <<>>]
  /\ steps' = [c \in Cell |-> 0]
  /\ report' = {}
  /\ UNCHANGED <<endCell, client, phase, next, rows, times, output, result, calls>>

JoinWithErrors ==
  /\ Joined /\ Failed # {}
  /\ Return("fail", {})
  /\ UNCHANGED <<endCell, client, at, next, rows, times, steps, calls>>

\* The worker a cell belongs to when the ranges end at e.
WorkerOf(e, c) ==
  CHOOSE n \in Task : c <= e[n] /\ (n = 0 \/ e[n-1] < c)

\* The cells that a transfer, for ranges that end at e and up to cell k, takes out of
\* their workers, each with the worker that has it then.
Transferred(e, k) ==
  {<<c, WorkerOf(e, c)>> :
     c \in {d \in defined : d < k /\ WorkerOf(endCell, d) # WorkerOf(e, d)}}

\* The times are used up by RebalanceLoad, whatever ranges it chooses.  A cell that a
\* failed transfer has left in what now becomes its own worker is found there.
JoinAndRebalance ==
  /\ Joined /\ Failed = {}
  /\ Return("ok", {})
  /\ \E e \in Distributions :
       LET own(c) == <<c, WorkerOf(e, c)>>
       IN  /\ endCell' = e
           /\ defined' = defined \cup {c \in Cell : own(c) \in left}
           /\ left' = left \ {own(c) : c \in Cell}
  /\ times' = [n \in Task |-> <<>>]
  /\ UNCHANGED <<dry, needCheck, selectedOn, printOn, partition, at, next, rows, steps,
                 calls>>

\* All workers have run their cells, but deleting cell k from its old worker fails.  The
\* exception leaves RebalanceLoad with the ranges as they were, the cells below k in
\* their new workers and k in both; the message is the old worker's.
RebalanceFails ==
  /\ Joined /\ Failed = {}
  /\ \E e \in Distributions, k \in Cell :
       LET old == WorkerOf(endCell, k)
           new == WorkerOf(e, k)
       IN  /\ old # new
           /\ Return("fail", {old})
           /\ defined' = {c \in defined : c >= k \/ WorkerOf(endCell, c) = WorkerOf(e, c)}
           /\ left' = left \cup Transferred(e, k) \cup ({k} \cap defined) \X {new}
  /\ times' = [n \in Task |-> <<>>]
  /\ UNCHANGED <<endCell, dry, needCheck, selectedOn, printOn, partition, at, next, rows,
                 steps, calls>>

----------------------------------------------------------------------------

Thread(n) ==
  Partition(n) \/ HeadingsFail(n) \/ RunCell(n) \/ RunCellFails(n) \/ ThreadEnds(n)

Next ==
  \/ InitialPhreeqc2Module
  \/ \E tf \in BOOLEAN : SetSelectedOutputOn(tf)
  \/ RunCellsRefused
  \/ StartThreads
  \/ \E n \in Task : Thread(n)
  \/ JoinWithErrors
  \/ JoinAndRebalance
  \/ RebalanceFails

\* The operating system runs every thread; the initiating thread waits for them.
Fairness ==
  /\ \A n \in Task : WF_vars(Thread(n))
  /\ WF_vars(JoinWithErrors \/ JoinAndRebalance \/ RebalanceFails)

Spec == Init /\ [][Next]_vars /\ Fairness

----------------------------------------------------------------------------
(* Properties.                                                             *)

\* The variables have their types, and no thread runs outside RunCells.
TypeOK ==
  /\ endCell \in Distributions
  /\ defined \subseteq Cell /\ left \subseteq Cell \X Task /\ dry \in DrySets
  /\ {needCheck, selectedOn, printOn, partition} \subseteq BOOLEAN
  /\ phase \in {"idle", "running"}
  /\ at \in [Task -> {"partition", "cells", "done", "failed"}]
  /\ next \in [Task -> 0 .. Count]
  /\ \A n \in Task :
       /\ rows[n] = NoTable \/ rows[n] \in Seq(Cell \cup {Empty, Garbage})
       /\ times[n] \in Seq(Cell) /\ stream[n] \in Seq(Cell)
  /\ output \in Seq(Cell)
  /\ report \subseteq Task \cup {Undefined}
  /\ steps \in [Cell -> Nat]
  /\ result \in {"none", "ok", "fail"}
  /\ calls \in 0 .. MaxCalls
  /\ phase = "idle" => \A n \in Task : at[n] \in {"done", "failed"}

\* GetSelectedOutput succeeds when every worker has a table.  It gives the rows of
\* all the workers, one after the other, to the cells in order.
GetSelectedOutputSucceeds ==
  phase = "idle" /\ result # "none" /\ \A n \in Task : rows[n] # NoTable
GetSelectedOutput == InOrder(rows)
RowOf(c) == IF c \in dry THEN Empty ELSE c
HasRow(c) == c \in dry \/ steps[c] = 1

\* What RunCells gathers from the workers belongs to the cells in order, whatever the load
\* balancing does with the ranges and in whatever order the threads run: after a call that
\* succeeded GetSelectedOutput has one row for every cell, the values computed in it if it
\* was run (a cell lost by a failed transfer is not), the output has every cell once, and
\* never two in the wrong order, and RebalanceLoadPerCell, which indexes the concatenated
\* times by cell, finds one time for every cell of every worker's range.
GatheredInCellOrder ==
  /\ GetSelectedOutputSucceeds /\ result = "ok" =>
       /\ Len(GetSelectedOutput) = Count
       /\ \A c \in Cell : HasRow(c) => GetSelectedOutput[c+1] = RowOf(c)
  /\ phase = "idle" =>
       /\ \A i, j \in DOMAIN output : i < j => output[i] < output[j]
       /\ printOn /\ result = "ok" => Len(output) = Count
  /\ phase = "running" /\ (\A n \in Task : at[n] = "done") =>
       \A n \in Task : Len(times[n]) = endCell[n] - StartCell(n) + 1

\* Whenever GetSelectedOutput reports success the values it stores for a cell were
\* computed in this cell, also after a call of RunCells that failed.
SelectedOutputBelongsToCells ==
  GetSelectedOutputSucceeds /\ defined = Cell
    => \A i \in DOMAIN GetSelectedOutput : GetSelectedOutput[i] = RowOf(i-1)

\* No call makes two reaction steps in a cell, and when all workers have finished one was
\* made in every cell that has a solution in its worker, and water.
OneStepPerCell ==
  /\ \A c \in Cell : steps[c] <= 1
  /\ phase = "running" /\ (\A n \in Task : at[n] = "done") =>
       \A c \in defined \ dry : steps[c] = 1

\* The result of RunCells can be relied on.  It is a success only if every cell with a
\* solution and water was run and none was taken from the worker that runs it next, in the
\* rebalancing that comes last; a failure, be it of a cell, of the headings or of the
\* transfer of a cell, is reported with a message of a worker concerned, and the messages
\* of all workers that failed are in the error string, although the workers clear each
\* other's messages in PartitionUZ.
EveryFailureReported ==
  [][phase = "running" /\ phase' = "idle" =>
       /\ result' = "ok" => (\A c \in defined \ dry : steps[c] = 1) /\ defined \subseteq defined'
       /\ result' = "fail" => report' \cap Task # {}
       /\ Failed \subseteq report']_vars

\* RunCells checks that all solutions are defined: no thread ever starts while a
\* cell has none.  This does not hold: a second call makes no check, nor does any after
\* a transfer that failed.
RunsOnlyDefinedCells == phase = "running" => defined = Cell

\* RunCells returns, whichever threads or transfers fail.
RunCellsReturns == phase = "running" ~> phase = "idle"
=============================================================================
