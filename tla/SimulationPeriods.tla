------------------------- MODULE SimulationPeriods -------------------------
(***************************************************************************)
(* Data that change in time, from the input file to the simulator.         *)
(* phastinput gathers the times of all time series into the simulation     *)
(* periods and writes a block for each: the lists of wells and boundary    *)
(* conditions of a kind when one of them changes, whole, and the controls  *)
(* always.  The simulator (read3) takes one block after the other and      *)
(* keeps what a block leaves out.                                          *)
(*                                                                         *)
(* Times are integers in units of TIME_EPS, so that equal() means at most  *)
(* one apart.  A series is named by the list or control it is for, the     *)
(* item of the list, and whether it gives the flow (head, flux, rate) or   *)
(* the solution; the value 0 is what holds before the first entry.         *)
(***************************************************************************)
EXTENDS Integers, Sequences, FiniteSets

CONSTANTS
  Series,  \* the time series
  Inputs   \* .data: their entries as read; .ends: the times of time_end; .flow_only

BoundaryKinds == {"specified", "flux", "leaky"}
Lists == BoundaryKinds \cup {"river", "well"}
Entry == [time : Nat, value : Nat \ {0}]

ASSUME PeriodsAssumption ==
  /\ IsFiniteSet(Series)
  /\ Series \subseteq [kind : Lists \cup {"time_step", "print", "end_of_period"},
                       item : Nat, of : {"flow", "solution"}]
  /\ \A input \in Inputs :
       /\ input.data \in [Series -> Seq(Entry)] /\ input.flow_only \in BOOLEAN
       /\ input.ends \subseteq Nat /\ IsFiniteSet(input.ends)
\* Without a time step the simulator would have steps of no length; the simulation does not
\* end when it begins.  phastinput looks for neither.
ASSUME BeginAssumption ==
  \A input \in Inputs :
    /\ \E s \in Series : s.kind = "time_step" /\ input.data[s] # <<>>
    /\ \E t \in input.ends : t > 1
\* Entries of one series so near that a third time equals both are mistaken for one another.
ASSUME SpacedAssumption ==
  \A input \in Inputs, s \in Series : \A m, n \in DOMAIN input.data[s] :
    m # n => \/ input.data[s][m].time + 2 < input.data[s][n].time
             \/ input.data[s][n].time + 2 < input.data[s][m].time

VARIABLES
  input,    \* the input, fixed
  pc,       \* how far phastinput has come
  series,   \* the entries, in order once checked
  times,    \* simulation_periods
  kept, next, \* k and i of the loop that keeps the times that differ, from 1
  current,  \* the value of each series in the period
  blocks,   \* the blocks written
  read,     \* the number of blocks the simulator has read
  used      \* the values it has

periodsVars == <<input, pc, series, times, kept, next, current, blocks, read, used>>

\* time_end is put in order too; the simulation ends at the last.
EndTime == CHOOSE t \in input.ends : \A u \in input.ends : u <= t
Equal(a, b) == -1 <= a - b /\ a - b <= 1
Unread == [s \in Series |-> 0]

PeriodsInit ==
  /\ input \in Inputs /\ pc = "check" /\ series = input.data
  /\ times = <<>> /\ kept = 1 /\ next = 2
  /\ current = Unread /\ blocks = <<>> /\ read = 0 /\ used = Unread

----------------------------------------------------------------------------
(* check_time_series_data.                                                 *)

Times(entries) == {entries[n].time : n \in DOMAIN entries}

\* The times of S in order: each has as many up to it as its place says.
InOrder(S) ==
  [n \in 1 .. Cardinality(S) |-> CHOOSE t \in S : Cardinality({u \in S : u <= t}) = n]

Ordered(entries) ==
  [n \in DOMAIN entries |->
     entries[CHOOSE m \in DOMAIN entries : entries[m].time = InOrder(Times(entries))[n]]]

\* Solutions of boundary conditions are left aside when there is no transport.
Checked(s) == ~(input.flow_only /\ s.kind \in Lists /\ s.of = "solution")

StartsAtZero(s) == s.kind \in Lists \cup {"time_step"}

CheckSeries ==
  /\ pc = "check"
  /\ series' = [s \in Series |-> IF Checked(s) THEN Ordered(series[s]) ELSE series[s]]
  /\ pc' = IF \A s \in Series : Checked(s) /\ StartsAtZero(s) /\ series[s] # <<>>
                => series'[s][1].time = 0
           THEN "collate" ELSE "error"
  /\ UNCHANGED <<input, times, kept, next, current, blocks, read, used>>

----------------------------------------------------------------------------
(* collate_simulation_periods.                                             *)

\* The series whose times are gathered.
Gathered == {s \in Series : s.kind # "end_of_period"}

\* The times of every entry and of every end but the last, in order; of exactly
\* the same times one, the others would be left out in the next loop.
Gather ==
  /\ pc = "collate" /\ pc' = "unique"
  /\ times' = InOrder((UNION {Times(series[s]) : s \in Gathered}) \cup (input.ends \ {EndTime}))
  /\ UNCHANGED <<input, series, kept, next, current, blocks, read, used>>

PastEnd(t) == Equal(t, EndTime) \/ t >= EndTime

\* Faulty variant: only exactly the same times are left out.
KeepTimeExact ==
  /\ pc = "unique" /\ next <= Len(times) /\ ~PastEnd(times[next])
  /\ IF times[kept] = times[next] THEN UNCHANGED <<times, kept>>
     ELSE kept' = kept + 1 /\ times' = [times EXCEPT ![kept + 1] = times[next]]
  /\ next' = next + 1
  /\ UNCHANGED <<input, pc, series, current, blocks, read, used>>

KeepTime ==
  /\ pc = "unique" /\ next <= Len(times) /\ ~PastEnd(times[next])
  /\ IF Equal(times[kept], times[next]) THEN UNCHANGED <<times, kept>>
     ELSE kept' = kept + 1 /\ times' = [times EXCEPT ![kept + 1] = times[next]]
  /\ next' = next + 1
  /\ UNCHANGED <<input, pc, series, current, blocks, read, used>>

EndUnique ==
  /\ pc = "unique" /\ (next <= Len(times) => PastEnd(times[next]))
  /\ times' = SubSeq(times, 1, kept)
  /\ pc' = "write"
  /\ UNCHANGED <<input, series, kept, next, current, blocks, read, used>>

----------------------------------------------------------------------------
(* The periods.                                                            *)

\* get_current_property_position: the first entry equal to a time, unless one after it comes first.
Positions(entries, t) ==
  {n \in DOMAIN entries : /\ Equal(t, entries[n].time)
                          /\ \A m \in 1 .. n-1 : ~Equal(t, entries[m].time) /\ entries[m].time <= t}

\* In reset_transient_data only the boundary conditions ask whether there is transport.
Looked(s) == ~(input.flow_only /\ s.kind \in BoundaryKinds /\ s.of = "solution")

Renewed(t) == {s \in Series : Looked(s) /\ Positions(series[s], t) # {}}

ValueAt(s, t) == series[s][CHOOSE p \in Positions(series[s], t) : TRUE].value

\* Faulty variant: a new solution alone does not set the flag.
DefinedByFlow(t) == {s.kind : s \in {z \in Renewed(t) : z.of = "flow"}} \cap Lists

\* The flags bc_specified_defined and so on.
Defined(t) == {s.kind : s \in Renewed(t)} \cap Lists

\* reset_transient_data and write_hst.
WritePeriod ==
  /\ pc = "write" /\ Len(blocks) < Len(times)
  /\ LET n == Len(blocks) + 1
         t == times[n]
         ends == IF n < Len(times) THEN times[n + 1] ELSE EndTime
     IN /\ current' = [s \in Series |->
             IF s \in Renewed(t) THEN ValueAt(s, t) ELSE current[s]]
        /\ blocks' = Append(blocks,
             [timchg |-> ends,
              data |-> [s \in {z \in Series : z.kind \in Lists => z.kind \in Defined(t)} |->
                          current'[s]]])
        /\ pc' = IF n = Len(times) THEN "thru" ELSE pc
  /\ UNCHANGED <<input, series, times, kept, next, read, used>>

\* read3, at the beginning and at each TIMCHG.
Read3 ==
  /\ pc = "thru" /\ read < Len(blocks)
  /\ read' = read + 1
  /\ used' = [s \in Series |-> IF s \in DOMAIN blocks[read + 1].data
                            THEN blocks[read + 1].data[s] ELSE used[s]]
  /\ UNCHANGED <<input, pc, series, times, kept, next, current, blocks>>

PeriodsNext == CheckSeries \/ Gather \/ KeepTime \/ EndUnique \/ WritePeriod \/ Read3

PeriodsSpec == PeriodsInit /\ [][PeriodsNext]_periodsVars

----------------------------------------------------------------------------
(* What should hold.                                                       *)

PeriodsTypeOK ==
  /\ input \in Inputs /\ pc \in {"check", "error", "collate", "unique", "write", "thru"}
  /\ series \in [Series -> Seq(Entry)] /\ times \in Seq(Nat)
  /\ next \in Nat /\ kept \in 1 .. next-1 /\ read \in 0 .. Len(blocks)
  /\ LET Values(s) == {0} \cup {input.data[s][n].value : n \in DOMAIN input.data[s]}
     IN \A s \in Series : {current[s], used[s]} \subseteq Values(s)

\* The periods follow one another from time zero to the last end without a
\* gap, and none is shorter than what counts as the same time.
PeriodsJoin ==
  pc = "thru" =>
    /\ times[1] = 0 /\ Len(blocks) = Len(times)
    /\ \A n \in DOMAIN blocks :
         /\ blocks[n].timchg = IF n < Len(times) THEN times[n + 1] ELSE EndTime
         /\ times[n] + 1 < blocks[n].timchg

\* The value that the input gives a series at a time: of its last entry up to then.
Latest(s, t) ==
  LET upTo == {n \in DOMAIN input.data[s] : input.data[s][n].time <= t + 1}
  IN IF upTo = {} THEN 0
     ELSE input.data[s][CHOOSE n \in upTo : \A m \in upTo :
                          input.data[s][m].time <= input.data[s][n].time].value

\* In the period the simulator is in, a series has one value, and the simulator has that one.
Follows(s) ==
  read > 0 =>
    /\ used[s] = Latest(s, times[read])
    /\ \A n \in DOMAIN input.data[s] : LET t == input.data[s][n].time IN
         t <= times[read] + 1 \/ t >= blocks[read].timchg - 1

\* Every change of a boundary condition, a well, the time step or a print
\* frequency before the end of the simulation is in force from its time on.
SimulatorFollowsSeries == \A s \in Gathered : Looked(s) /\ Checked(s) => Follows(s)

\* All the times of the series are times of periods, also those that say
\* whether to print at the end of each period.
EndOfPeriodFollowsSeries == \A s \in Series : s.kind = "end_of_period" => Follows(s)
=============================================================================
