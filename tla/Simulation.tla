----------------------------- MODULE Simulation -----------------------------
(***************************************************************************)
(* A simulation from its input file: phastinput writes the blocks of data  *)
(* of the simulation periods (SimulationPeriods), then the transient loop  *)
(* of PHAST takes its time steps (TimeStepping) and reads a block whenever *)
(* it comes to the end of one.  What the two share is the file: the end of *)
(* a block is TIMCHG, and the value of the time_step series is DELTIM.     *)
(*                                                                         *)
(* The print frequencies of a block are left to TimeStepping, for which    *)
(* every choice of intervals is possible.  Both count time in TIME_EPS;    *)
(* that DELTIM is written with six digits (%g) is left out.                *)
(***************************************************************************)
EXTENDS TimeStepping, SimulationPeriods

\* The time step is one series.
TimeStep == CHOOSE s \in Series : s.kind = "time_step"

\* TimeStepping allows for the ends and the lengths that an input may have.
ASSUME FileAssumption ==
  \A file \in Inputs :
    /\ \A t \in file.ends : 1 .. t \subseteq Ends
    /\ \A n \in DOMAIN file.data[TimeStep] : file.data[TimeStep][n].value \in Lengths
ASSUME OneTimeStepAssumption ==
  \A s \in Series : s.kind = "time_step" => s = TimeStep

simulationVars == <<vars, periodsVars>>

SimulationInit == Init /\ PeriodsInit

\* phastinput, a program of its own that ends before PHAST begins.
Prepare ==
  /\ CheckSeries \/ Gather \/ KeepTime \/ EndUnique \/ WritePeriod
  /\ UNCHANGED vars

\* One turn of the loop that reads data until their end is still to come.
ReadBlock ==
  /\ ReadPeriod /\ Read3
  /\ timchg' = blocks[read + 1].timchg /\ deltim' = used'[TimeStep]

\* THRU is found where the next block would begin.
ReadThru ==
  /\ pc = "thru" /\ read = Len(blocks)
  /\ ReadEnd
  /\ UNCHANGED periodsVars

\* The rest of the loop does not look at the file.
Advance ==
  /\ pc = "thru"
  /\ FlowFails \/ Timestep \/ TransportFails \/ EndOfStep
  /\ UNCHANGED periodsVars

SimulationNext == Prepare \/ ReadBlock \/ ReadThru \/ Advance

SimulationSpec == SimulationInit /\ [][SimulationNext]_simulationVars

----------------------------------------------------------------------------
(* What should hold.                                                       *)

\* From the beginning of a time step until what counts as the time of its end, the
\* simulator has for each boundary condition, well and control the value that the input
\* gives at that moment.  After a restart too, in which blocks are skipped.
DataInForce ==
  phase = "step" /\ ~ failed =>
    \A s \in Gathered : Looked(s) /\ Checked(s) =>
      \A t \in time .. time + deltim - 3 : used[s] = Latest(s, t)

\* phastinput writes what the loop of the simulator counts on: each block ends later than
\* the one before it, and has the length of a time step.
BlocksFit ==
  pc = "thru" /\ read < Len(blocks) =>
    LET block == blocks[read + 1]
    IN /\ block.timchg \in Ends /\ timchg < block.timchg
       /\ TimeStep \in DOMAIN block.data /\ block.data[TimeStep] \in Lengths
=============================================================================
