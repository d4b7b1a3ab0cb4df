----------------------------- MODULE TimeStepping -----------------------------
(***************************************************************************)
(* The transient loop of PHAST: the length of the time steps, the times at *)
(* which new data are read and the times at which results are printed.     *)
(*                                                                         *)
(* A time step has a given length.  It is stretched or cut when it ends    *)
(* near or beyond the next time for printing or for reading new data, and  *)
(* the given length is restored for the next one.  Every kind of output    *)
(* has an interval: positive in time, negative in steps, zero for none.    *)
(*                                                                         *)
(* Times are integers in the user's unit; the code's factors                *)
(* one_plus_eps and 1+1e-10 only undo the rounding of real numbers.        *)
(* AUTOTS is off and RDCALC on, as phastinput always writes them.          *)
(***************************************************************************)
EXTENDS Integers, FiniteSets

CONSTANTS
  Control,     \* the kinds of output
  Once,        \* those printed only once if the flow is steady
  Starts,      \* the times the simulation may start at, later than zero after a restart
  Ends,        \* the ends of the simulation periods that the input may have
  Lengths,     \* the lengths of time step it may have
  Intervals,   \* the print intervals it may have
  InputErrors, \* whether error3 may find an error in a period
  SolverFails  \* whether flow or transport may fail

ASSUME TimesAssumption ==
  /\ Starts \subseteq Nat /\ Ends \subseteq Nat \ {0}
  /\ Lengths \subseteq Nat \ {0} /\ Intervals \subseteq Int
ASSUME ControlsAssumption == Once \subseteq Control
ASSUME SwitchesAssumption == {InputErrors, SolverFails} \subseteq BOOLEAN

VARIABLES
  steady,      \* steady_flow
  phase,       \* "top" of the loop, "step" taken, "done", or "stopped"
  time, timchg,
  deltim,      \* length of the time step
  deltim_sav,  \* the length to be restored, or 0
  itime,       \* the number of the step
  interval,    \* print_interval
  print_time,  \* the next time each control is to be printed
  flag,        \* print_flag
  printed,     \* controls with count_prints > 0
  timprtnxt,   \* the earliest of the print times and timchg
  atEnd,       \* print_end_of_period
  failed,      \* errexi, set by error3
  length       \* the length of time step last read (never used by the code)

reading == <<steady, interval, atEnd, length>>
vars == <<phase, time, timchg, deltim, deltim_sav, itime, reading, print_time, flag,
          printed, timprtnxt, failed>>

Abs(x) == IF x < 0 THEN -x ELSE x
Earliest(S) == CHOOSE x \in S : \A y \in S : x <= y

\* timchg is zero to force the first block to be read.  Results that are printed once
\* may have been printed with the initial conditions.
Init ==
  /\ phase = "top"
  /\ steady \in BOOLEAN
  /\ time \in Starts
  /\ timchg = 0
  /\ deltim = 0 /\ deltim_sav = 0 /\ length = 0
  /\ itime = 0
  /\ interval = [c \in Control |-> 0]
  /\ print_time = [c \in Control |-> 0]
  /\ flag = [c \in Control |-> FALSE]
  /\ printed \in {{}, Once}
  /\ timprtnxt = 0
  /\ atEnd = FALSE
  /\ failed = FALSE

----------------------------------------------------------------------------
(* Print times.                                                            *)

\* Faulty variant: a time that is a multiple itself is returned.
MultipleFrom(t, i) == ((t + i - 1) \div i) * i

\* Faulty variant: the multiple before is returned.
MultipleBefore(t, i) == ((t \div i) - 1) * i

\* The next multiple of i after t.
MultipleAfter(t, i) == (1 + (t \div i)) * i

ByTime(c) == interval[c] > 0
NeedsNoMore(c) == steady /\ c \in Once /\ c \in printed

\* pc_set_print_time, for the intervals that have just been read.
FirstPrintTime(c) ==
  IF interval'[c] > 0 THEN MultipleAfter(time, interval'[c]) ELSE print_time[c]

\* Faulty variant: the time before the step is looked at.
FlagBefore(c, u, n, d) ==
  /\ \/ ByTime(c) /\ 100 * Abs(print_time[c] - time) <= d
     \/ interval[c] < 0 /\ (n % Abs(interval[c])) = 0
     \/ u >= timchg /\ interval[c] # 0 /\ atEnd
  /\ ~ NeedsNoMore(c)

\* pc_set_print_flag, for step n that ends at u with a length of d.  A control is
\* printed when its time is within a hundredth of the step.
Flag(c, u, n, d) ==
  /\ \/ ByTime(c) /\ 100 * Abs(print_time[c] - u) <= d
     \/ interval[c] < 0 /\ (n % Abs(interval[c])) = 0
     \/ u >= timchg /\ interval[c] # 0 /\ atEnd
  /\ ~ NeedsNoMore(c)

----------------------------------------------------------------------------
(* The transient loop.                                                     *)

\* read3, init3 and error3.  After a restart, periods that have ended are read and
\* skipped.  In steady flow an error in the first period ends the program before.
ReadPeriod ==
  /\ phase = "top" /\ ~ failed /\ time >= timchg
  /\ timchg' \in {e \in Ends : e > timchg}
  /\ deltim' \in Lengths /\ length' = deltim'
  /\ deltim_sav' = 0
  /\ interval' \in [Control -> Intervals]
  /\ atEnd' \in BOOLEAN
  /\ print_time' = [c \in Control |-> FirstPrintTime(c)]
  /\ timprtnxt' = Earliest({timchg'} \cup {print_time'[c] : c \in {d \in Control : interval'[d] > 0}})
  /\ failed' \in {FALSE, InputErrors /\ ~ (steady /\ timchg = 0)}
  /\ UNCHANGED <<steady, phase, time, itime, flag, printed>>

\* Faulty variant: the end is looked for beyond the time of change only.
ReadEndLate ==
  /\ phase = "top" /\ ~ failed /\ time > timchg /\ timchg > 0
  /\ phase' = "done"
  /\ UNCHANGED <<time, timchg, deltim, deltim_sav, itime, reading, print_time, flag,
                 printed, timprtnxt, failed>>

\* thru: there is no other period.
ReadEnd ==
  /\ phase = "top" /\ ~ failed /\ time >= timchg /\ timchg > 0
  /\ phase' = "done"
  /\ UNCHANGED <<time, timchg, deltim, deltim_sav, itime, reading, print_time, flag,
                 printed, timprtnxt, failed>>

\* Wells or boundary conditions cannot be computed.
FlowFails ==
  /\ phase = "top" /\ (time < timchg \/ failed)
  /\ SolverFails /\ ~ steady
  /\ phase' = "done"
  /\ UNCHANGED <<time, timchg, deltim, deltim_sav, itime, reading, print_time, flag,
                 printed, timprtnxt, failed>>

Restored == IF deltim_sav > 0 THEN deltim_sav ELSE deltim

\* Faulty variant: only printing makes a step end.
SnapsToPrint(d) ==
  timprtnxt < timchg /\ (10 * Abs(time + d - timprtnxt) <= d \/ time + d > timprtnxt)

\* The step ends close to the next time or beyond it.
Snaps(d) ==
  IF timchg < timprtnxt
  THEN 5 * Abs(time + d - timchg) <= d \/ time + d > timchg
  ELSE 10 * Abs(time + d - timprtnxt) <= d \/ time + d > timprtnxt

Target == IF timchg < timprtnxt THEN timchg ELSE timprtnxt

\* Faulty variant: the length is not saved.
TimestepForgets ==
  /\ phase = "top" /\ (time < timchg \/ failed)
  /\ itime' = itime + 1
  /\ deltim' = IF Snaps(Restored) THEN Target - time ELSE Restored
  /\ deltim_sav' = 0
  /\ IF deltim' <= 0 THEN phase' = "stopped" /\ UNCHANGED flag
     ELSE /\ phase' = "step"
          /\ flag' = [c \in Control |-> Flag(c, time + deltim', itime', deltim')]
  /\ UNCHANGED <<time, timchg, reading, print_time, printed, timprtnxt, failed>>

\* timestep; an error in the period that was read only ends the inner loop.
Timestep ==
  /\ phase = "top" /\ (time < timchg \/ failed)
  /\ itime' = itime + 1
  /\ LET d == Restored
     IN  /\ deltim' = IF Snaps(d) THEN Target - time ELSE d
         /\ deltim_sav' = IF Snaps(d) THEN d ELSE 0
  /\ IF deltim' <= 0 THEN phase' = "stopped" /\ UNCHANGED flag
     ELSE /\ phase' = "step"
          /\ flag' = [c \in Control |-> Flag(c, time + deltim', itime', deltim')]
  /\ UNCHANGED <<time, timchg, reading, print_time, printed, timprtnxt, failed>>

TransportFails ==
  /\ phase = "step" /\ (failed \/ SolverFails)
  /\ phase' = "done"
  /\ UNCHANGED <<time, timchg, deltim, deltim_sav, itime, reading, print_time, flag,
                 printed, timprtnxt, failed>>

\* pc_update_print_time.
NextPrintTime(c) ==
  IF ByTime(c) /\ flag[c] /\ ~ (steady /\ c \in Once /\ c \in printed')
  THEN MultipleAfter(time', interval[c]) ELSE print_time[c]

\* Faulty variant: only the controls that were printed have a time that comes.
ComingOfPrinted == {timchg} \cup
  {print_time'[c] : c \in {d \in Control : ByTime(d) /\ flag[d]}}

\* What the next step has to look out for.
Coming == {timchg} \cup
  {print_time'[c] : c \in {d \in Control : ByTime(d) /\ ~ (steady /\ d \in Once /\ d \in printed')}}

\* sumcal1, the chemistry, the printing and update_print_flags.
EndOfStep ==
  /\ phase = "step" /\ ~ failed
  /\ time' = time + deltim
  /\ printed' = printed \cup {c \in Control : flag[c]}
  /\ print_time' = [c \in Control |-> NextPrintTime(c)]
  /\ timprtnxt' = Earliest(Coming)
  /\ phase' \in {"top"} \cup (IF SolverFails THEN {"done"} ELSE {})
  /\ UNCHANGED <<timchg, deltim, deltim_sav, itime, reading, flag, failed>>

Next ==
  \/ ReadPeriod \/ ReadEnd \/ FlowFails
  \/ Timestep \/ TransportFails \/ EndOfStep

\* The program is sequential and does not stop between two statements.
Spec == Init /\ [][Next]_vars /\ WF_vars(Next)

----------------------------------------------------------------------------
(* Properties.                                                             *)

\* The variables have their types.
TypeOK ==
  /\ phase \in {"top", "step", "done", "stopped"}
  /\ time \in Nat /\ timchg \in Ends \cup {0}
  /\ deltim \in Int /\ deltim_sav \in Nat /\ length \in Nat
  /\ itime \in Nat
  /\ interval \in [Control -> Intervals \cup {0}]
  /\ print_time \in [Control -> Nat] /\ timprtnxt \in Nat
  /\ flag \in [Control -> BOOLEAN]
  /\ printed \subseteq Control
  /\ steady \in BOOLEAN /\ atEnd \in BOOLEAN /\ failed \in BOOLEAN

\* No time step goes beyond the time at which new data are to be read: wells and
\* boundary conditions change exactly when the input says.
DataChangeOnTime == itime > 0 /\ ~ failed => time <= timchg

\* The STOP in timestep ("Zero deltim") is reached only when a period with errors in
\* its data was read.
ZeroStepOnlyAfterError == phase = "stopped" => failed

\* However often the steps are stretched and cut, every step has the length that was
\* read, or is cut, or is at most a tenth longer, and then the length that was read is
\* the one to be restored.
StepLengthKept ==
  phase = "step" =>
    /\ deltim_sav = 0 => deltim = length
    /\ deltim_sav # 0 => deltim_sav = length /\ 10 * deltim <= 11 * length

\* No step goes beyond a multiple of a print interval, and one that ends there is printed.
EveryPrintTimeHit ==
  [][time' # time =>
       \A c \in Control : ByTime(c) /\ ~ NeedsNoMore(c) =>
         \A m \in time+1 .. time' : m % interval[c] = 0 => m = time' /\ flag[c]]_vars

\* Output by time interval is printed at the multiples of the interval and at the end
\* of a period, and at no other time.
PrintedAtTheirTimes ==
  [][time' # time =>
       \A c \in Control : ByTime(c) /\ flag[c] =>
         time' % interval[c] = 0 \/ (atEnd /\ time' = timchg)]_vars

\* The simulation ends.
SimulationEnds == <>(phase \in {"done", "stopped"})
=============================================================================
