# Verification of PHAST and its reaction module PhreeqcRM

PHAST simulates groundwater flow, solute transport and geochemical reactions.  The
Fortran program (`src/src/phast/PhastFortran`) computes flow and transport; the C++
library PhreeqcRM (`src/src/phast/PhreeqcRM/src`) holds one chemical system per
reaction cell, runs them on several workers (threads or MPI processes), balances the
load between the workers and gives the concentrations back.  This directory holds TLA+
models of the parts whose difficulty is control rather than numerics, TLC
configurations that check them on small instances, and TLAPS proofs of their main
properties.  Below, `PhreeqcRM.cpp` and `PhreeqcRM.h` stand for the files of that name
in `src/src/phast/PhreeqcRM/src`.

Contents: 1 inventory, 2 plan, 3 modules and how they correspond to the code, 4 runs
and bounds, 5 fairness, 6 proofs, 7 where code and documentation disagree, 8 what is
abstracted or not modelled, 9 how to run everything.

## 1. Inventory

### The system

One time step of PHAST is: flow and transport (Fortran) for a step whose length
`timestep` has chosen; the new concentrations go to PhreeqcRM; `RunCells` reacts every
cell; the concentrations come back; results are printed if they are due.  A PhreeqcRM
object has `count_chemistry` reaction cells and `nthreads` (or `mpi_tasks`) workers.
Each worker is an IPhreeqc instance with a range of consecutive cells.  There are two
builds: in the threaded build one process owns all workers and opens an OpenMP parallel
region in `RunCells`; in the MPI build every process owns one worker, process 0 (the
root) is called by the client, and the others sit in the loop `MpiWorker`.

| component | state it keeps | operations | talks to |
|---|---|---|---|
| load balancing (`RebalanceLoad`, `RebalanceLoadPerCell`) | `start_cell`, `end_cell`, the cells in each worker, `rebalance_fraction`, `rebalance_by_cell` | at the end of each `RunCells`; the two setters | the workers, through a `cxxStorageBin` per moved cell |
| running the cells (`RunCells`, `RunCellsThread`) | tables of selected output, clock times and output stream per worker; the shared error string; `need_error_check` | one parallel region per call; `GetSelectedOutput` | workers; load balancing |
| unsaturated zone (`PartitionUZ`) | `uz_bin` of each worker, `old_saturation_root`, the option | inside the threads; the setter of the option | load balancing carries the entries; saved states |
| saved states (`StateSave`, `StateApply`, `StateDelete`) | `state_map` | the three | ranges, chemistry and `uz_bin` of all workers |
| MPI worker loop (`MpiWorker`) | where each process is, what is in flight, a copy of the settings in each process | one method number per call, then the collective operations of the method | root and workers, by `MPI_Bcast`, `Scatterv`, `Gather`, `Barrier` |
| time stepping (`phast_manager`, `timestep`, `print_control_mod`, `init3`) | `time`, `timchg`, `deltim`, `deltim_sav`, `itime`, the print intervals, times and flags | one loop | flow, transport and chemistry (success or failure) |
| creation and mapping (`CreateMapping`, `Concentrations2Solutions`, ...) | maps between grid and reaction cells, arrays, units | set-up calls, one call per step | cells |
| bindings for C and Fortran | a registry of objects | argument conversion | the C++ methods |
| transport processes of the MPI build (`XP_module`, `phast_worker`, `xfer_to_*`) | `component_map`, `xp_list`, each process's copy of flow, boundary data and step | one routine number per phase of the step, then point to point messages | root and workers, on two communicators |
| flow and transport solvers | heads, concentrations | per component and step | `phast_manager` |
| chemical workers (IPhreeqc, PHREEQC) | one chemical system per cell; for a step with kinetics its length, order, stages and retries | run a string, run a cell | the worker that runs the cell |
| restart files (`FileHandler`) | the files on disk, `RestartFileMap`, `restart_bin` | write under a temporary name and rename; read and distribute | PHREEQC dumps, the ranges of the workers |
| HDF and text files | open files | write | none |
| transient boundary data (`time.cpp`, `accumulate.cpp`, `write.cpp`; `read3`) | time series, `simulation_periods`, one block of data per period | collate the times, take the values in force, write the block; read it | `phastinput` to PHAST, by a file |
| `phastinput` | the input file's data | parse, check, interpolate, write | PHAST, by files |
| `phasthdf` | none | a viewer | result files |

### What is hard, and what makes each part correct

*Load balancing.*  The ends of the ranges are computed from measured times, moved by a
fraction, truncated to whole cells, under two different algorithms; the cells are
transferred one by one, and a transfer can fail half way.  Correct means: the ranges
are always a partition of the cells into non-empty consecutive ranges; each worker
holds exactly the cells of its range; no cell is ever lost; saved states, which carry
their own ranges, fit what was rebalanced since; the ranges come to rest when the load
does not change.

*Running the cells.*  Threads share one error string, which one function they call
clears; everything else they write is indexed by worker or cell.  Correct means: after
success each cell has reacted once, its row of selected output is its own, and it is in
the worker that runs it next, whatever the order of the threads and whatever rebalancing
did afterwards; after a failure, be it only of the rebalancing, the caller learns of it
and of every worker that failed.

*Unsaturated zone.*  Solids move between two reservoirs by formulas that depend on the
saturation of the previous call, and both reservoirs move between workers and in and
out of saved states.  Correct means: solids are conserved, one worker holds them, and
the reactive fraction is the saturation.

*MPI.*  Nothing but the order of the collective operations tells the processes what
they are doing; a branch that one process takes and another does not breaks it.
Correct means: no process meets an operation it does not expect; all processes have
the same settings, ranges and saved states whenever nothing is under way; the parts of
scattered arrays fit the ranges; every call is performed and returns.

*Time stepping.*  Steps are stretched or cut to hit print times and times of new data,
and the user's length must come back afterwards.  Correct means: no step passes a print
time or a time of new data, what is due is printed, the length survives, no step has no
length, and the loop ends.

*Transport processes.*  The root and the transporters run the same routines, and each
side decides from its own variables whether to send or to receive.  Correct means: the
group does what one process would do, every component once per step with the data of
that step; and all processes leave the program, whatever went wrong, unless the root's
process ends on its own in the middle of a step.

*A kinetic step.*  Steps of the integration are shortened, rejected, ended early and
repeated with other convergence parameters, and stages overwrite the phases and
reactants of the cell in place.  Correct means: what is integrated is the whole step,
each part of it from what the last part has saved.

*Restart files.*  A run may die at any moment, also between two calls of the file
system, and the next run finds what is on the disk.  Correct means: the latest whole
file always has one of the two names, and what is read lands in the one worker that
owns the cell.

*Simulation periods.*  The changes of all series cut the simulation into periods; lists
are written whole when one of their members changes, and the simulator keeps what a
block leaves out.  Correct means: the periods join without gaps and the simulator has,
in each, the value in force of every series.

*The file between the two programs.*  The loop of the simulator decides by the time when to
read the next block, and after a restart passes over blocks that have ended.  Correct
means: every block fits what the loop counts on, and every time step is computed with the
data the input gives for it, wherever the simulation starts and however steps are cut.

The list of hazards with their lines is in `PROJECT.json`.

## 2. Plan

Done in the order of importance:

1. `CellOwnership` (abstract), `LoadBalance` (implements it), `LoadBalanceProofs`.
2. `StationaryLoad`: `LoadBalance` with a constant load, for convergence.
3. `RunCells` and `RunCellsProofs`: the parallel region and what is returned.
4. `UnsaturatedZone` and `UnsaturatedZoneProofs`.
5. `MpiWorkerLoop` and `MpiWorkerLoopProofs`.
6. `TimeStepping`.
7. `SerialTransport` (abstract), `TransportProcesses`, which implements it, and
   `TransportProcessesProofs`.
8. `KineticStep` and `KineticStepProofs`.
9. `RestartFiles` and `RestartFilesProofs`.
10. `SimulationPeriods`.
11. `Simulation`, which composes `TimeStepping` and `SimulationPeriods`, and
    `SimulationProofs`, about the three.

What could follow, in this order:

1. `TransportProcesses` and `TimeStepping` in one module: the loop of `phast_manager`
   with its processes, so that the step that fails and the step that is repeated
   (`tsfail`) meet the messages.
2. The reading of restart files by MPI processes (`FileHandler.cpp:102-463`), selected
   output and texts of errors between processes (`PhreeqcRM.cpp:860`, `3454`).
3. The calls of the IPhreeqc interface: which flags and tables of one call the next
   one finds (`IPhreeqc.cpp`, `RunAccumulated`, `LoadDatabase`, selected output).
4. Set-up and mapping: `CreateMapping` with its failure in the root only.

## 3. Modules and how they correspond to the code

`PROJECT.json` gives for each definition the lines it stands for.  Definitions whose
comment begins "Faulty variant" are not part of a specification: each is a plausible
mistake in the definition after it, kept to show that a property notices it.

**`CellOwnership`** (abstract).  Every reaction cell has one worker; a step of
rebalancing gives cells to other workers, a saved distribution can be restored.

**`LoadBalance`** (threaded build).  `startCell`, `endCell`: `start_cell`, `end_cell`.
`bin[w]`: the cells that exist in worker w's IPhreeqc instance, which the code never
stores as such.  `fraction`, `byCell`, `saved`: `rebalance_fraction`,
`rebalance_by_cell`, `state_map`.  `RebalanceLoad` is one action for the whole call:
early returns (`MayRebalance`), new ends (`EndsByCell` or `EndsByTask` of any measured
times), transfer of every cell that changes workers, new ranges.  Real quotients are
compared by cross multiplication; division by zero when no time was measured is kept
(comparisons with a NaN are false).  `RebalanceLoadFails` is the exception in the
middle of the transfers.  `broken` is a history variable: a transfer has failed and no
earlier state has been applied.  `CellTargets` and `SharedEnds` describe the ends the
loops of the code arrive at by what characterises them, so that they can be proved about.

**`StationaryLoad`** extends `LoadBalance`: the times come from a fixed `cost` per cell,
and rebalancing is the only step.

**`RunCells`** (threaded build).  `phase` says whether the initiating thread is inside
`RunCells`, `at[n]` and `next[n]` where thread n is.  A step of a thread is one cell
(`RunCell`, `RunCellFails`), preceded by its `PartitionUZ` loop (`Partition`) and its
headings; threads interleave at these steps, which is enough because the only thing
they share is the error string, touched at the start of `PartitionUZ` (cleared) and in
`ErrorMessage` (appended, in a critical section).  Rows of selected output, times and
output are sequences of the cells they stem from.  What follows the parallel region is
`JoinWithErrors` (some worker has failed), `JoinAndRebalance`, or `RebalanceFails`: all
workers have succeeded, and the exception of a transfer (`PhreeqcRM.cpp:8547-8582`,
`7648-7651`) is caught in `RunCells` (`8835-8838`), which returns a failure.  The ranges are
then as they were, but the cells before the one that failed are in the workers of the new
ranges: they leave `defined`, the cells with a solution in the worker that runs them, and
`left` says where they are, in case a later rebalancing gives the worker just these cells.

**`UnsaturatedZone`**.  `sz[c]`: solids in the PHREEQC instance of cell c, `uz[w][c]`:
its entry in worker w's `uz_bin`, `saturation` and `old`: `saturation_root` and
`old_saturation_root`.  `RunCells` is one step: partition all cells, note the
saturations, rebalance to any owners.  Saturations are multiples of 1/`Full`.
`restored` is a history variable: some state has been applied.

**`MpiWorkerLoop`** (MPI build).  `chan[w]` is what the root has sent to worker w by
broadcasts and scatters and w has not taken, `up[w]` what w has sent into a gather or
barrier.  `at[r]` is where process r is.  A call at the root sends its number and its
data in one step; the worker takes the number (`TakeMethod`: the call with dummy
arguments) and then the data (`TakeFraction`, `TakePart`, ...).  `RunCells` is
`RunCells` and `TakeRun`, the collection of the errors (`HandleErrors`, `TakeCount`),
rebalancing (`Rebalance`, `TakeCut`, `TakeNewPart`) and the barrier (`Join`, `Leave`).
`Mismatch` is an operation that meets another kind, which MPI leaves undefined: the
process is lost.  `log` records the calls of each process with their arguments.  One method
stands for each shape: `SetRebalanceFraction` for broadcast scalars, `SetSaturation` for
scattered arrays, `SetPrintChemistryMask` for an array that is refused too late, the
three methods of saved states, `RunCells`.

**`TimeStepping`**.  The variables have the names of the code (`timchg`, `deltim`,
`deltim_sav`, `itime`, `timprtnxt`, `print_time`); `interval` is `print_interval`,
`flag` is `print_flag`, `printed` is `count_prints > 0`, `atEnd` is
`print_end_of_period`, `failed` is `errexi`.  `ReadPeriod` is `read3`, `init3` and
`error3` together with `pc_set_print_times`; `Timestep` is `timestep`; `EndOfStep` is
`sumcal1`, chemistry, printing and `update_print_flags`.  `length` is a history
variable: the length of time step last read.

**`SerialTransport`** (abstract).  One process transports all components of a step with
the same data, then the cells react.

**`TransportProcesses`** (MPI build).  `at[r]` is the routine process r is in, `world`
and `xpcomm` the broadcasts on the two communicators that a worker has not taken, `mail`
and `up` the messages between the root and a transporter of components.  An array is represented by
the number of the step, or of the block of boundary data, it was computed in; `own[r]`
holds those of process r, `xp[i]` the transporter of component i.  `ComponentMap` and
`InGroup` say who transports what.
Each routine of the loop (`c_distribute`,
`p_distribute`, `init3_distribute`, `timestep_worker`, `flow_distribute`,
`run_transport`, `sbc_gather`, `c_gather`, `time_step_save`) is one action at the root and
one at a worker; each has the conditions of its own side.  `errexe` and `errexi` are the two flags of errors, in
execution and in the data, that end the loop at different places.  `Serial` is the
refinement: its `step` is the number of transports, its phase whether the cells have
reacted.  Three ends of the root's loop are not the regular one.  `TimestepStops`: after an error
in the data the change of data may be due at once, and `timestep` stops the program in a step
of no length (`timestep.F90:135-137`), between the broadcast of the step's number and that of
its length; the workers then wait with half of the call.  `ReactFails`: `RM_RunCells` fails, and with
the error handler mode 2 of `phast_manager.F90:488`, which is broadcast to all, a process to
which the failure is returned exits (`PhreeqcRM.cpp:8609`).  A negative pore volume in `sumcal1`
sets `errexe` (a choice in `React`), which nobody looks at before `time_step_save` is over
(`phast_manager.F90:250`).

**`KineticStep`**.  `rk_kinetics` and `set_and_run_wrapper`: `h`, `h_old`, `h_sum`, `rk`,
`equal_rate`, `step_bad`, `l_bad`, `m_temp` as in the code, `reduce` is
`moles_reduction > 1`, `kept` the two `..._save` copies.  What the cell holds is the time
up to which it has been integrated; `adjusted` marks phases changed in place by `step()`.
`k1` is the length the first rate stands for.  A run of the equilibrium is `Runs`, any
number of `AttemptFails`, and one action for what the caller does afterwards.  Whether
rates are equal, too large, or errors within tolerance is left open.

**`RestartFiles`** (threads build).  `disk` is what survives a crash; `run`, `pc`, `held`
and `bin` belong to a process.  An entity is the pair of a cell and the clock of its last
change.  `WriteRestart` is `WriteIndex`, a `DumpWorker` for each worker and the three calls of
`FileRename` (`RemoveBackup`, `RenameOld`, `RenameNew`); `Stop` may follow any of them and
is the end as well as the crash of a run.  `BufferLost` is a `gzclose` whose status nobody
looks at.  `ReadFile` takes one file: every cell finds the nearest of the file, and what
worker 0 has read is distributed (`Distributed`).  `kept` is a history
variable: the clock of the last whole file that got its name.

**`SimulationPeriods`**.  `CheckSeries` is `check_time_series_data`; `Gather`, `KeepTime` and
`EndUnique` are `collate_simulation_periods` with its loop over neighbouring times;
`WritePeriod` is one turn of the loop of `write_hst` over the periods, with
`reset_transient_data`; `Read3` is `read3`.  Times are in units of `TIME_EPS`, so `Equal`
is not transitive.  `kept` and `next` are `k` and `i` of that loop.  What `qsort` leaves is
described by ranks (`InOrder`: each time has as many up to it as its place says), so that
it can be proved about; the times of `time_end` are a set, of which the last is `EndTime`.

**`Simulation`** composes the two.  The steps of phastinput come first (`Prepare`); then
`ReadBlock` is a turn of the loop around `read3` in `phast_manager`: `ReadPeriod` of
`TimeStepping` and `Read3` of `SimulationPeriods` in one, with `timchg` and `deltim` as the
block has them; `ReadThru` finds the mark after the last block, and `Advance` is the rest of
the loop.  `BlocksFit` is what each part takes for granted of the other: `TimeStepping` lets the
environment choose any later end and any length, and phastinput writes nothing else.

The modules `MC...` only give values to constants; the modules `...Proofs` hold
theorems.

## 4. Runs and bounds

| run | configuration | question |
|---|---|---|
| `balance` | `LoadBalance_calls` | do ranges, cells and saved states stay in step, is no cell lost when transfers fail, and is this `CellOwnership`? |
| `settle` | `StationaryLoad_settle` | do the ranges come to rest under a constant load, by cell? |
| `run_cells` | `RunCells_threads` | do the threads give a sequential result, and can the result of the call be relied on, also when rebalancing fails? |
| `uz_solids` | `UnsaturatedZone_calls` | are solids conserved, in one place, and in the right fraction? |
| `mpi_calls` | `MpiWorkerLoop_calls` | do the processes agree, and is every call performed and does it return? |
| `mpi_faults` | `MpiWorkerLoop_faults` | when something goes wrong, does a worker ever do what the root did not ask for? |
| `time_steps` | `TimeStepping_steps` | is everything due hit, are lengths kept, does the loop end? |
| `transport` | `TransportProcesses_steps` | do the processes together do what one would do (`SerialTransport`), and do all leave, unless the root's process ends alone? |
| `kinetics` | `KineticStep_steps` | is the whole step integrated, from saved states only, and does the step end? |
| `restart` | `RestartFiles_crash` | is the latest file whole after any crash, and does what is read land where it belongs? |
| `simulation` | `Simulation_file` | from the input file on: do the periods join, does the simulator have the values in force, and has every time step the data for it? |
| `periods_print_at_ends` | `SimulationPeriods_ends` | does it have the option to print at the ends of periods? (no) |

Every listed property of a passing run has a mutant in `PROJECT.json`, a change of one
definition with which TLC finds that property violated.

Bounds, and why they are enough:

- `balance`: 4 cells, 3 workers, one saved state, the fractions 0, 1/2, 3/4, 1, each
  cell fast or slow (1 or 4), each thread 0, 1 or 4, or no time at all.  Three workers
  are the smallest number with one that has neighbours on both sides; with 4 cells one
  worker can have two.  The theorems cover all sizes.
- `settle`: 8 cells, 3 workers, every assignment of costs 1 and 5, and no costs; both
  algorithms and both fractions from the initial distribution.  The state space is a
  set of finite chains, so the result is complete for these costs; it is no proof for
  others.
- `run_cells`: 326,236 states.  3 threads, 4 cells, two calls (`MaxCalls`), any cut after each
  call, no or two dry cells, any cell failing, a transfer failing at any cell, both settings
  of the flags.  Two calls show what the first leaves behind, a transfer that failed
  included; a third call starts from nothing else, as the only memory between calls
  is `needCheck`, the ranges, the tables and where the cells are.
- `uz_solids`: 2 cells, 2 workers, 5 levels of saturation, one saved state.  Cells do
  not interact but through their workers, so two are enough; the theorems cover all.
- `mpi_calls`: 3 processes, 3 calls, 2 cuts, states 0 and 1.  Three calls are enough for
  save, rebalance, apply, and for a call that meets what one before left in the channel;
  `mpi_faults` has 2 processes.  `MaxPending` bounds the
  refused masks in flight.
- `time_steps`: period ends 15, 150, 203, starts 0 and 20 (a restart behind the first
  period), lengths 17 and 200, intervals -2, 0, 9, 100, 101: some print times lie within
  a tenth of a step, within a hundredth, several in a step, and beyond a period.  The
  ends bound everything; there is no other bound.

- `transport`: 20,369 states.  One to three processes, one to three components, two
  steps, two blocks of boundary data; the eight set-ups are the cases in which who
  transports what, and which arrays are sent, differ: one process, one transporter with
  all components, more components than transporters, a process left out, the root as a
  transporter, flow alone, steady flow, free surface, boundaries with specified values.
  Two steps show what the first leaves behind.  Errors in the data, a step of no length,
  flow, pore volumes and reactions that fail may come in either step;
  `Failing = {0}` is about transport alone, see section 7.
- `kinetics`: 1,088,633 states.  Five units of time: a first step of two, one lengthened
  and one cut at the end; orders 1, 2, 3 and 6; `BadStepMax = 2`, so that the limit is
  met and not met; attempts 2, 3 and 8 left out in most inputs, in one input all that
  depend on the kind of the model.  The theorems cover all lengths.
- `restart`: 750,953 states.  Four cells (a file with an index of fewer than four lines
  is refused), three divisions among up to three workers, three runs: one that writes,
  one that reads and writes both names, one that reads both; three steps in all; one
  write that fails unnoticed.
- `simulation`: 210,792 states.  The inputs are what bounds it: eight series with up to three
  entries, at times that coincide, lie one `TIME_EPS` apart (a chain of three times in which
  neighbours are equal and the ends are not), at and behind the end; an end at 12, or ends at 7
  and 16; time steps longer than a period, shorter than one, and a change from one to the
  other; flow alone and with solute; a start at 0 and, after a restart, at 6, behind the first
  period of most inputs; with and without a print interval; errors in the data and failing
  solvers.

`CHECK_DEADLOCK FALSE` is set where the system stops: when the time loop is over, when
all processes have left the MPI loop, when the kinetic step is done, when no run is left,
when all blocks are read, and when the simulation is over or its input refused.

Liveness, action properties and refinement are checked without symmetry.  `SYMMETRY`
is used for cells and workers of `UnsaturatedZone`, which are model values that no
definition tells apart.

## 5. Fairness

`LoadBalance` and `UnsaturatedZone` have none: the client need not call.
`StationaryLoad` assumes that time steps go on, which is its subject.  `RunCells`
assumes that each thread of the parallel region goes on (OpenMP threads are operating
system threads, they wait for nobody) and that the initiating thread goes on after the
join.  `MpiWorkerLoop` assumes that each process runs and that MPI delivers what was
sent, never that the client makes a call or that a worker is told to break.
`TimeStepping` and `KineticStep` are sequential: weak fairness of their only process.
`StepEnds` needs two facts that are not fairness: a step of one unit of time is never too
large (`UnitMayFail = FALSE`; steps shortened because of `MOLES_TOO_LARGE` are not
counted, `kinetics.cpp:408`, so that without it nothing bounds them), and the attempts are
finitely many.  `TransportProcesses` has weak fairness of each process, root included:
its loop is the program, not a client.  `AllLeave` excepts the runs in which the root's
process ends by `STOP` or `exit` inside a step: a worker may then wait for it in a broadcast, and
nothing in the code ends it; what the MPI runtime does to the processes that are left is
not assumed.  `RestartFiles`, `SimulationPeriods` and `Simulation`
have none, and no liveness: a run may crash for ever, and that the time loop ends is shown
in `TimeStepping`.

## 6. Proofs

All theorems are checked by tlapm with Z3, Zenon and LS4.

**`LoadBalanceProofs`** (any number of cells and workers, any times).  `TypeCorrect`
needs nothing but the assumptions on the constants.  The other theorems have the
condition `HalfOrMore`: every fraction is 0 or between one half and one; run
`LoadBalance_quarter.cfg` shows that it is needed.  The heart is `MovedIncreasing`: if the old ends and the
target ends are strictly increasing, so are the ends moved towards them
(`PartOfInt`, `PartOrAllOfInt` bound the truncated part of a distance by the part of a
longer one).  The targets are increasing by `BalancedEndsIncreasing` and
`SharedEndsIncreasing`.  The inductive invariant `RangesInv` is `TypeOK`, the partition,
the ownership of cells, and the same for every saved state (`SavedStatesSound`): without
the saved states it is not inductive, as `StateApply` brings them back.
`TransferredAll` and `TransferLosesNothing` say what the transfer loop does; the second,
for a transfer that ends anywhere, gives `CellsAreNeverLost`, the one theorem about cells that
holds also while transfers have failed and cells and ranges are out of step.
`OwnershipImplemented` is the refinement: the owner of a cell under the mapping is the
worker whose range has it, which exists and is unique in every state of `RangesInv`
(`OwnersOfRanges`); each call then is a step of `CellOwnership` or leaves the owners and
the kept owners as they were (`OwnershipStep`, one step per action).

**`RunCellsProofs`** (any number of cells and threads, any ranges, any order of the
threads, any of them failing).  `Inv` says, for each thread by itself, what it has done
up to its next cell (`ThreadInv`: the rows, times and output it has are those of the
cells of its range behind it, `StepsUpTo` counts their steps); and, between
calls, what the last one has returned (`Returned`).  It says nothing of the order of the
threads: what one writes no other reads (`ThreadUntouched`).  `FailuresReported` is about
the step that ends the call, in each of its three ways.  Success says something of all cells, and
follows from what each thread has done up to the end of its range (`OneStepAlways`) because
the ranges cover the cells, and of the rebalancing, which takes no cell out of `defined`
unless it fails; that a failure has a message concerns also the failing transfer, after
which no worker has failed; and the messages of the workers that count are those each has
kept for itself, not the string that the threads clear.  The rest of the argument is about
concatenation: `FlattenSeq` over the
workers in order, which the library defines by recursion, is shown to be the sequence
over all cells (`FlattenIsChain`, `InOrderOfRanges`, `InOrderAscending`) because the
ranges follow one another without gaps (`EndsIncrease`, `RangesDisjoint`,
`CellHasWorker`); induction over the workers is by the least counterexample
(`LeastElement`), which the library's theorem on well-founded relations provides.

**`UnsaturatedZoneProofs`** (any cells, workers, amounts and levels).  `TypeCorrect`, that
no amount is ever negative, holds for any calls: `PartitionSplits` is the arithmetic,
both formulas split what the cell has into two natural numbers, also when an entry is
not where it should be.  The other theorems have the condition `~ MayTurnOff`, and
`Inv` adds to them that saved states are sound and that before the option is
turned on no `uz_bin` has an entry, present or saved: rebalancing carries entries only
with the option on.  `FractionIsSaturation` assumes that `Parts` is a multiple of
`Full`; with other amounts the model's integer division would round.

**`MpiWorkerLoopProofs`** (any number of processes and calls, any cuts and saved states,
and every fault of the model: refused masks, states that are not there, failing
transfers).  The invariants of section 3 speak of moments at which nothing is under way;
they are not inductive, and neither is any invariant about the state of a worker alone,
because the root runs ahead.  What is inductive is a statement about the state and the
channel together: `After(s, m)` is what a worker with the state s has when it has taken
the message m, `Drains(s, ch, t)` says that taking all of ch one after the other leads
from s to t without an answer in between, and `WorkerInv(w)` says that the messages on
the way to w lead it to what the root has (`Follower`: settings, cut, saved states, log,
and, until a state is applied, the parts of the arrays for its cut), to a wait for
what the root sends next, or to an operation that does not fit what it expects, after
which it is lost (`DrainLost`).  A worker's step shortens the channel at its head and
leaves the end (`DrainHead`, `TakeInv`); a step of the root adds at its tail what takes
the follower to where the root now is (`DrainAppend`, `CallInv`, `CallTwoInv`).  Each
step of a worker and of the root is one lemma.  With an empty
channel the state is the follower's, which gives `AgreeAlways` and `PartsFollowAlways`;
the log only grows along the channel, which gives `SameCallsAlways`.  None of these
has a condition on the faults; only `NobodyLostIfCareful` excludes them (TLC has the same
from `WorkersRespond`, as a lost worker performs no further call).  Two of the model's definitions were made precise on the way: the marks for no state and no cut are
assumed to be no cuts (`CutsAssumption`), and the cases of `HandleErrors` overlapped.

**`TransportProcessesProofs`** (any number of processes, transporters and components,
any bounds, every setup).  `SerialImplemented` is the refinement: what the root has
gathered at the end of a step is what one process would have computed.  As in
`MpiWorkerLoop` the root runs ahead, here over three queues to each worker whose contents
belong to the same calls, and each side chooses from its own variables what it exchanges.
The invariant `Inv` has four parts.  `Types`.  `RootFacts`: the root's own components and
the number of transports at each place of its loop.  `WorkersSucceed`.  And
`WorkersFollow`: from its present state (data and queues together, `State(w)`) every worker
*comes to* (`Comes`, any number of calls, `Step`) a state with empty queues that `Follows`
the root: same number of steps, same data but for those the root has not distributed yet
(`Old`), each of its components transported as often, with the root's data, and in `up`
exactly the letters the root will wait for (`Sends`).  `Comes` is a path of states, not a
recursion over the queues, so that both ends can be worked on.  A worker's
action is the first call of its path (`FirstCall`, one lemma `...Follows` for each
routine: the action has no choice but the state next on the path, because the names at the
front of the queues decide it).  An action of the root adds a call to all queues
(`ComesPlus`), and the path is one call longer at its end (one lemma `...Answered` for each
routine).  When the root gathers, `LettersCame` turns the promise
into fact: as many letters as components can only be all of those the path ends with, as
`up` only grows along it.  `Gathered` then gives every component as `MovedIn` has it, with
the data of the step, which is the step of `SerialTransport`.  `Processes`,
`LocalsFacts` and `Places` prove of `set_component_map` that every component is in
one process, which is in the group, and has its own place among the letters.
The root may end in the middle of a call.  After `TimestepStops` a worker still comes to where
the root was before the call, and there it rests for ever: half of the call
(`Unfinished`) is what is left in its queue (`Rests`), and no action of its own can
take it, while the root takes no further step.
`ReactFails` finds every worker between two calls.
Both theorems have the condition `FailuresInRoot`: the run `transport` has
`Failing = {0}`; a failure in a worker is never heard of by the root, and `SameAsSerial` is
then false (section 7).  `TypeCorrect` includes that no worker counts more steps than the
root; it follows from the same path.

**`SimulationProofs`** holds the theorems about `TimeStepping`, `SimulationPeriods` and
`Simulation` together, as the last needs the invariants of the first two.

*`TimeStepping`* (any kinds of output, periods, lengths, intervals, starting
times).  `IInv` adds: `timprtnxt` is never later than any due time (`LooksOut`), no
multiple of an interval lies between now and its `print_time` (`NoneBetween`), at the
top of the loop everything due is in the future (`StillToCome`), and a step ends at
`timprtnxt` at the latest (`StepEnds`).  From it follow five properties, one of them
about steps.  `LooksOut` also shows that the branch of `timestep` for a time of change
before every print time is never taken.

*`SimulationPeriods`* (any finite number of series with any entries in any order, any ends).
`PeriodsInv` follows the times through the program: what is sorted is the same entries,
more than two units apart (`SeriesInv`); in the loop, the times kept are more than one unit
apart, come before the end and before all that are still to be looked at, and every time
gathered is one of the latter or lies within one unit behind one that was kept (`LoopInv`); the periods therefore have
every time of the input at a beginning or at the end (`TimesInv`, `NoChangeWithin`).  That
`Equal` is not transitive is why the kept time is always the earlier one.  The blocks come
next: block n has the value of period n, or, when it leaves a series out, nothing has
changed since n - 1 (`BlocksInv`); phastinput's `current` is the value of the last block
written and the simulator's `used` that of the last one read (`ValuesInv`).  The key lemmas are
`FoundIsLatest` (what `get_current_property_position` finds is the last entry up to then)
and `NotRenewedIsSame` (where it finds nothing, the last entry is that of the period before).  Sorting is
`InOrderSorts`, by the ranks; that the times of finitely many finite series are
finitely many is `FiniteUnion`, by the set that misses fewest of the series, as the library's
induction on finite sets is of no use here.  Two assumptions carry the result and are not looked
after by phastinput: entries of one series lie more than two `TIME_EPS` apart
(`SpacedAssumption`: with a third time between them the wrong one would be found), and the
first period exists, as a time step is given and the end is later than the beginning
(`BeginAssumption`).

*`Simulation`* (both).  Every step of it is a step or a stutter of each part
(`PartsAreImplemented`), so that both invariants hold in it, and with them all that is
proved of the parts.  What the composition adds is `InBlock`: the block that was read last has begun, and
`timchg` is its end.  It is inductive only with the other two: when a block is read the time has
come to the end of the one before, which is where the next begins (`NextBlock`, from the periods), and
no step goes beyond it (from the steps).  `DataAreInForce` follows: a step lies between the
beginning and the end of the block that was read, in which no series changes.
`BlocksAlwaysFit` needs that a time step has a value from time zero on (`LengthIsGiven`).

**`KineticStepProofs`** (any length of the step, inputs, limits and failures).  `Inv`
adds to the properties: what is left
of `kin_time` is enough for the step (`StepFits`); which stages are behind it, and that
equal rates mean a single step of the whole length (`StagesDone`), which is why the early
end may leave the loop without adding `h` to `h_sum`; where the step can go back to
(`Saved`); and the length the first rate stands for (`RateKept`).  None of these is
inductive without the others: a rejected step returns to `m_temp`, and that is the last
saved state only because stages never touch it.  `FromLastSavedAlways`,
`FirstRateAlways` and `TypeCorrect` hold for all inputs, and so does `ResultOrBefore`, which
reads the result off the same invariant: on return the solution is that of the whole
step, or, where the result goes to another number, what it was before.  Only
`WholeTimeAlways`, which is about the phases and reactants as well, needs
`NoSolidSolutionsWithOrder2` (section 7).

**`RestartFilesProofs`** (any cells, workers, files, runs and any moment of a crash).
`KeptAlways` says that between the two renames the latest file has the name of the
backup, so that the invariant must follow the renames call by call; `MaxFaults = 0` is not
assumed, the property excepts histories with an unnoticed failure.
`RestoredAlways` and `TypeCorrect` have an invariant of their own, `RestoreInv`, without
any condition.  What a run reads was written by an earlier one, with other
workers and another input, so that it must say of every file on the disk that it can be
read: some cell of the index has a solution, and where the index denies kinetics there
are none (`IndexHolds`); for that, in turn, a worker must never hold what the input
says its cells do not have (`Owned`), at every step of every run, and the index of the
file being written must be that of the run that writes it (`TempOfRun`).  While the files
are read, `ReadSoFar` says of each entity whether it is still to come or has arrived, and
that nothing is in the bin before its file has been read: what the bin keeps from one
file to the next is never taken for another's.  `SourceFacts` shows that a nearest cell
exists (`NearestExists`, by the least distance).  The attempt to prove it found that an
assumption of the model said less than meant: `SUBSET Cells \ {{}}` reads as the subsets of
`Cells \ {{}}`, with the empty one; without water anywhere the index would have no cell
to take a solution from.

Only model-checked: all liveness properties (`RangesSettleByCell`, which is all of
`StationaryLoad`, `RunCellsReturns`, `WorkersRespond`, `SimulationEnds`, `StepEnds`,
`AllLeave`), because liveness under fairness and ENABLED are beyond the prover.  Proved and
not among the properties of a run: `PeriodsTypeOK` and `BlocksFit`, which TLC also
finds to hold on the instance of `simulation`.

## 7. Where the code and its documentation disagree

One disagreement is a run that TLC must find violated, `periods_print_at_ends`.
`RELEASE:770-777` documents `-end_of_period_default` under a time of
`PRINT_FREQUENCY`, and `time.cpp:532` says "build list of all times from simulation
periods", but `collate_simulation_periods` (541-585) gathers the times of every other
series and not those of this one, which is looked at only when a period begins
(`accumulate.cpp:3309-3313`).  A change at a time at which nothing else changes never
reaches the simulator.

Others were met on the way, in the documentation, a comment or only in what the code
around them takes for granted.  Each row can be seen by checking the property, defined in the module, under
the constants given; where a configuration is named it is in this directory and checks
that property.

| what | module and constants, or configuration | property that fails |
|---|---|---|
| `PhreeqcRM.h:4017` documents fractions from 0.0 to 1.0; `PhreeqcRM.cpp:8508` moves an end by the whole distance when the fraction of it rounds to zero and by a truncated part otherwise: with 0.25 a distance of 3 moves an end by 3, a distance of 4 by 1, and ends can pass each other (the default of 0.5 is safe, theorem `RangesStayPartition`) | `LoadBalance_quarter.cfg` | `RangesPartitionCells` |
| with `rebalance_by_cell` off the ranges of three workers over eight cells can alternate for ever under a constant load, where `PhreeqcRM.h:4014-4015` suggests a fraction below 1.0 to avoid oscillations | `MCStationaryLoad`, `StationaryLoad_settle`, `Modes = {FALSE}` | `RangesSettle` |
| a worker that stops at a failing cell leaves a short table; `GetSelectedOutput` concatenates the tables without comparing lengths, returns success, and the rows of later workers belong to other cells | `RunCells_partial.cfg` | `SelectedOutputBelongsToCells` |
| `need_error_check` is cleared before `CheckCells` and stays cleared when it fails: a second `RunCells` starts the threads over cells without a solution; cells that a failed transfer has taken to other workers are passed over in the same way, and that call succeeds | `MCRunCells`, as in `RunCells_partial` | `RunsOnlyDefinedCells` |
| `StateApply` restores the solids and not the saturations they were partitioned for | `UnsaturatedZone_apply.cfg` | `ReactiveFraction` |
| a cell that changes workers while the option is off leaves its `uz_bin` entry behind (`PhreeqcRM.cpp:8557`) | `MCUnsaturatedZone`, `MayTurnOff = TRUE` | `SolidsKept` |
| turning the option off leaves unreactive what was moved to `uz_bin`, where `PhreeqcRM.h:3859` says that all solids are reactive | `MCUnsaturatedZone`, `MayTurnOff = TRUE` | `AllReactiveWhenOff` |
| `PhreeqcRM.h:3151-3152` has workers answer in the loop; they call `StateApply` with the dummy argument 0 (`PhreeqcRM.cpp:6390`), which is looked up before the broadcast of the real number (11625-11627): unless a state 0 is saved, they return early and take the number for a method | `MpiWorkerLoop_apply.cfg` | `WorkersRespond` |
| a print mask of the wrong size is refused after the workers were told to expect it (`PhreeqcRM.cpp:10913`) | `MCMpiWorkerLoop`, `StateIds = {}`, `BadSizes = TRUE` | `WorkersRespond` |
| when a transfer fails in one process, only this one leaves `RunCells`, past the barrier the others wait in (`PhreeqcRM.cpp:7012`) | `MCMpiWorkerLoop`, `StateIds = {}`, `TransfersFail = TRUE` | `RunCellsReturns` |
| `StateApply` restores the ranges in every process but scatters no array again, so that workers use saturations and masks of other cells | `MCMpiWorkerLoop`, `StateIds = {0}`, `ZeroFirst = TRUE` | `PartsAreCurrent` |
| a control is printed when its time is within a hundredth of the step, but its next time is the multiple after the end of the step, which may be the same time (`print_control_mod.f90:181`; `update_print_flags.f90:2-3` speaks of the next time of printing) | `TimeStepping_twice.cfg` | `PrintedAtTheirTimes` |
| a transport that fails in a worker sets the worker's `errexe` (`XP_asmslc.F90:98`) and the root looks only at its own (`phast_manager.F90:206-209`): the step is completed with the untransported component | `MCTransportProcesses`, as in `TransportProcesses_steps`, `Failing` with a worker's rank | `SameAsSerial` |
| `time_step_save.F90:2-3` copies the boundary data to those of the step before; `.NOT. xp_group` (21) returns first, and the root of a run of flow alone is in no group (`modules_g.f90:233`), so that the flow equation (`rhsn.f90:180`) uses old data | `TransportProcesses_flow.cfg` | `BoundaryDataSaved` |
| where the rates are equal, order 2 ends a step early, saves the result, and then puts the solid solutions of the begin of the step back (`kinetics.cpp:682-686`), where order 1 deletes the copy (548-552) | `KineticStep_order2.cfg` | `WholeTimeIntegrated` |
| the first run of `rk_kinetics` may find a negative concentration; its result is ignored and the cell is saved (348-351), where both other callers of that kind stop (2034, 2103) | `MCKineticStep`, as in `KineticStep_steps` (`MixMayFail = TRUE`) | `SavedAfterSuccess` |
| a mass balance that fails, or a reaction that is too large, at one stage shortens the step without counting it as bad (408-416): only the smallest step ends the retries | `MCKineticStep`, `UnitMayFail = TRUE` | `StepEnds` |
| the result of `gzclose` is not looked at (`PhreeqcRM.cpp:2503`), nor are those of `remove` and `rename` (2708-2712): after a write that has failed the last whole file is the backup, which the next dump removes before its own file has a name | `MCRestartFiles`, as in `RestartFiles_crash` | `BackupOutlivesFault` |
| a comment (`FileHandler.cpp:608`) says that the index defines the entities present for each cell; what is written there is the number of the initial condition, which for a cell taken from a file is -100 or less also where that file had no such entity | `MCRestartFiles`, as in `RestartFiles_crash` | `IndexTellsContents` |

Read in the source and not modelled as properties: the result of the last run of
`rk_kinetics` is ignored (1087-1091); `equal_rate` after the sixth stage is never used,
because order 6 starts with FALSE and the others end before (1040-1041); the trial of
order 1 leaves its adjusted phases to the first stage (504-563); `diagonal_scale` is TRUE
only in the first attempt of a run and reset after it (1198-1203, 1428); all runs in one
directory share the name `temp_restart_file.gz`; both grids of a river are given as x
(`accumulate.cpp:3165-3180`); the solution of a well or boundary is gathered also when
the simulation is of flow alone, where it is neither sorted nor converted; and of two
entries of one series within two `TIME_EPS` the later takes effect alone.

These are why some passing runs have a condition: `MayTurnOff = FALSE` in `uz_solids`,
`ZeroFirst = TRUE`, `BadSizes = FALSE` and `TransfersFail = FALSE` in `mpi_calls` (all of
these faults are in `mpi_faults` together), `Failing = {0}` in `transport`,
the ends by `STOP` and `exit` that `AllLeave` excepts (section 5),
`UnitMayFail = FALSE` and inputs without solid solutions under order 2 in `kinetics`,
the condition `faults = 0` in `LatestKept`, the history variables `broken` and
`restored`, and `PartsFollow`, which excepts histories in which a state was applied.

## 8. Abstractions, and what is not modelled

Abstractions a reader should know:

- Chemistry succeeds or fails; its results are the cells they belong to.  Clock times
  are any positive integers from a set, or zero.
- `LoadBalance`: the threaded build's algorithm; the MPI build's is the same arithmetic
  with its times gathered, and is reduced to any cut in `MpiWorkerLoop`.
- `UnsaturatedZone`: one amount per cell instead of one per phase, and complete
  transfers only (failing ones are in `LoadBalance`).
- `RunCells`: CPU caches and torn writes of unsynchronised data are not modelled: the
  clearing of the shared string by one thread and its growth by another are single
  steps in any order.
- `MpiWorkerLoop`: error handler mode 0 (return codes); the exit of mode 2 is in
  `TransportProcesses`.  The texts of errors that
  follow the count of errors are part of the barrier; where the code has two
  barriers one after the other there is one.  Output and selected output are left out.
  The root's broadcasts are buffered: it runs ahead as far as the data of a call allow.
- `TimeStepping`: times are integers in the user's unit, and the factors that undo the
  rounding of reals are exact.  AUTOTS is off and RDCALC on, as phastinput always
  writes them (`src/src/phastinput/write.cpp:2233-2240`).  The special case that prints
  conductances with the first step is left out.
- `TransportProcesses`: an array is the number of the step its values belong to; MPI
  sends are buffered, each receive takes the next message of its kind, and whether flow,
  transport, the update of the pore volumes or the reactions succeed is a choice.  The calls
  of PhreeqcRM in a step are one action of the root, which waits until the workers are back
  in their loop (`RunCellsStarts`); what they exchange is in `MpiWorkerLoop`.  When the
  reactions fail every process either exits or waits for one that did, which is not told apart.  `SerialTransport` is the same loop in one process,
  without messages.
- `KineticStep`: time in units; what has been integrated is the time up to which it has.
  Whether a rate is too large or equal to another and whether the error is within
  tolerance is left open, so that every sequence of decisions of the code is there, and
  more.  The CVODE branch is left out.
- `RestartFiles`: an entity is its cell and the time it was written; the kinetics stand
  for the six kinds that are treated alike; cells lie on a line, which is enough for
  nearest points and ties.  The file system does one call at a time and loses nothing
  that it has acknowledged, other than by `BufferLost`.
- `SimulationPeriods`: times in units of `TIME_EPS`; which cells a condition covers, and
  the conversion of units, are left out.  The simulator is the values it has read.
- `Simulation`: print frequencies are not taken from the block but chosen at each reading,
  as in `TimeStepping`; `DELTIM`, which is written with six digits, is exact.  Steps of two
  `TIME_EPS` or less have no moment of their own for `DataInForce` to speak of.

Not modelled, and why:

- the MPI build's own reading of restart files (`FileHandler.cpp:102-463`), which
  distributes the same entities by messages, and the collective calls before the
  transport loop (set-up in PHAST, `CreateMapping` and initial conditions in PhreeqcRM):
  nearly straight sequences, whose exceptions are among the hazards;
- the repetition of a step after `tsfail`, which no code sets when AUTOTS is off;
- the interface of IPhreeqc (accumulated input, databases, selected-output strings),
  parser and Basic interpreter of PHREEQC, its equation solver, the flow and transport
  solvers, HDF and the bindings: numerics, text and argument conversion with few states
  that a model checker could tell apart, and vendored libraries;
- `phasthdf`, a viewer.

These parts are most of the repository's lines (PHREEQC's parser, tidy and solver code,
`triangle.c` and the readers of phastinput foremost), so that the definitions here stand
for a small part of them: the control of the reaction module, of the transport loop and
its processes, of a kinetic step, and of the files and periods around them.

## 9. Running everything

    tlc -workers 2 -config LoadBalance_calls.cfg MCLoadBalance
    tlc -workers 2 -config KineticStep_steps.cfg MCKineticStep
    tlapm LoadBalanceProofs.tla

and likewise for each run of `PROJECT.json` (module and configuration are listed there)
and each `...Proofs` module.  The longest run takes about two minutes with two
workers.  The configurations that section 7 names and `PROJECT.json` does not list stop
at a counterexample each.
