-------------------------- MODULE SimulationProofs --------------------------
(***************************************************************************)
(* Theorems about the simulated time: the loop of the time steps           *)
(* (TimeStepping), the periods with their data (SimulationPeriods), and    *)
(* the two together (Simulation).  Whatever the lengths of the steps, the  *)
(* print intervals and the time series, no time is passed at which         *)
(* something is due, and every step is computed with the data for it.      *)
(***************************************************************************)
EXTENDS Simulation, FiniteSetTheorems, SequenceTheorems, WellFoundedInduction, TLAPS

----------------------------------------------------------------------------
(* TimeStepping: lemmas about the operators.                               *)

\* A non-empty set of natural numbers has an earliest one.
LEMMA EarliestOfSet ==
  ASSUME NEW S, S \subseteq Nat, S # {}
  PROVE  Earliest(S) \in S /\ \A y \in S : Earliest(S) <= y
<1>1. PICK x \in S : \A y \in S : ~ (<<y, x>> \in OpToRel(<, Nat))
  BY NatLessThanWellFounded, WFMin
<1>2. \A y \in S : ~ (y < x)
  BY <1>1 DEF OpToRel
<1>3. \A y \in S : x <= y
  BY <1>2
<1> QED BY <1>3 DEF Earliest

\* Multiplication by a natural number is monotonic.
LEMMA TimesMonotonic ==
  ASSUME NEW i \in Nat, NEW a \in Int, NEW b \in Int, a <= b
  PROVE  a * i <= b * i
<1>1. (b - a) * i >= 0
  OBVIOUS
<1>2. (b - a) * i = b * i - a * i
  OBVIOUS
<1>3. a * i \in Int /\ b * i \in Int
  OBVIOUS
<1> QED BY <1>1, <1>2, <1>3

\* MultipleAfter is later than t, and no multiple lies between the two.
LEMMA MultipleAfterIsNext ==
  ASSUME NEW t \in Nat, NEW i \in Nat \ {0}
  PROVE  /\ MultipleAfter(t, i) \in Nat
         /\ t < MultipleAfter(t, i)
         /\ \A m \in Nat : t < m /\ m < MultipleAfter(t, i) => (m % i) # 0
<1> DEFINE q == t \div i
<1>1. q \in Nat /\ t % i \in 0 .. i-1 /\ t = q * i + (t % i)
  BY Z3
<1>2. MultipleAfter(t, i) = q * i + i
  <2>1. (1 + q) * i = q * i + i
    BY <1>1
  <2> QED BY <2>1 DEF MultipleAfter
<1>3. q * i \in Nat
  BY <1>1
<1>4. ASSUME NEW m \in Nat, t < m, m < MultipleAfter(t, i), (m % i) = 0
      PROVE FALSE
  <2> DEFINE p == m \div i
  <2>1. p \in Nat /\ m = p * i
    BY <1>4, Z3
  <2> p * i \in Int
    BY <2>1
  <2>2. CASE p <= q
    <3>1. p * i <= q * i
      BY <2>2, <2>1, <1>1, TimesMonotonic
    <3> HIDE DEF q, p
    <3> QED BY <3>1, <2>1, <1>1, <1>3, <1>4
  <2>3. CASE q + 1 <= p
    <3>1. (q + 1) * i <= p * i
      BY <2>3, <2>1, <1>1, TimesMonotonic
    <3>2. (q + 1) * i = q * i + i
      BY <1>1
    <3> HIDE DEF q, p
    <3> QED BY <3>1, <3>2, <2>1, <1>2, <1>3, <1>4
  <2> HIDE DEF q, p
  <2> QED BY <2>1, <2>2, <2>3, <1>1
<1>5. t < q * i + i /\ q * i + i \in Nat
  <2> HIDE DEF q
  <2> QED BY <1>1, <1>3
<1>6. \A m \in Nat : t < m /\ m < MultipleAfter(t, i) => (m % i) # 0
  BY <1>4
<1> QED BY <1>2, <1>5, <1>6

----------------------------------------------------------------------------
(* TimeStepping: the inductive invariant.                                  *)

\* Controls that are still to be printed at the multiples of their interval.
Due(c) == c \in Control /\ ByTime(c) /\ ~ NeedsNoMore(c)

\* No period has been read: the loop can only read one.
Beginning == timchg = 0 => phase = "top" /\ ~ failed /\ itime = 0

\* The length that was read is the one of the next step.
LengthIsKnown ==
  timchg > 0 => length \in Lengths /\ (phase \in {"top", "step"} => Restored = length)

\* The next step looks out for whatever comes.
LooksOut == timprtnxt <= timchg /\ \A c \in Control : Due(c) => timprtnxt <= print_time[c]

\* No multiple of the interval is passed over.
NoneBetween ==
  \A c \in Control : Due(c) =>
    \A m \in Nat : time < m /\ m < print_time[c] => (m % interval[c]) # 0

\* At the top of the loop, what the next step looks out for is still to come.
StillToCome ==
  phase = "top" /\ ~ failed =>
    /\ \A c \in Control : Due(c) => time < print_time[c]
    /\ time < timchg => time < timprtnxt

\* A step ends at the latest when something is due, and prints it.
StepEnds ==
  phase = "step" =>
    /\ deltim > 0
    /\ deltim_sav # 0 => 10 * deltim <= 11 * length
    /\ ~ failed => /\ time + deltim <= timprtnxt
                   /\ \A c \in Control :
                        Due(c) /\ print_time[c] = time + deltim => flag[c]

IInv ==
  /\ TypeOK /\ Beginning /\ LengthIsKnown /\ LooksOut /\ NoneBetween /\ StillToCome
  /\ StepEnds /\ DataChangeOnTime /\ ZeroStepOnlyAfterError

LEMMA IntervalsAreIntegers == TypeOK => \A c \in Control : interval[c] \in Int
<1>1. Intervals \cup {0} \subseteq Int
  BY TimesAssumption
<1>2. TypeOK => interval \in [Control -> Intervals \cup {0}]
  BY DEF TypeOK
<1> QED BY <1>1, <1>2

LEMMA InitIInv == Init => IInv
<1> SUFFICES ASSUME Init PROVE IInv
  OBVIOUS
<1> USE DEF Init
<1>1. TypeOK
  <2>1. printed \subseteq Control
    BY ControlsAssumption
  <2>2. interval \in [Control -> Intervals \cup {0}]
    OBVIOUS
  <2>3. print_time \in [Control -> Nat] /\ flag \in [Control -> BOOLEAN]
    OBVIOUS
  <2>4. time \in Nat
    BY TimesAssumption
  <2>5. /\ phase = "top" /\ timchg = 0 /\ deltim = 0 /\ deltim_sav = 0 /\ length = 0 /\ itime = 0
        /\ timprtnxt = 0
    OBVIOUS
  <2>6. steady \in BOOLEAN /\ atEnd \in BOOLEAN /\ failed \in BOOLEAN
    OBVIOUS
  <2> HIDE DEF Init
  <2> QED BY <2>1, <2>2, <2>3, <2>4, <2>5, <2>6 DEF TypeOK
<1>2. \A c \in Control : ~ Due(c)
  BY DEF Due, ByTime
<1> QED
  BY <1>1, <1>2, TimesAssumption DEF IInv, Beginning, LengthIsKnown, LooksOut, NoneBetween,
     StillToCome, StepEnds, DataChangeOnTime, ZeroStepOnlyAfterError

LEMMA ReadPeriodKeepsIInv ==
  ASSUME IInv, ReadPeriod
  PROVE  IInv'
<1> USE DEF IInv
<1>1. /\ phase = "top" /\ ~ failed /\ time >= timchg /\ time \in Nat /\ timchg \in Nat
      /\ timchg' \in Ends /\ timchg' > timchg /\ timchg' \in Nat \ {0}
      /\ interval' \in [Control -> Intervals]
      /\ deltim' \in Lengths /\ length' = deltim' /\ deltim_sav' = 0 /\ deltim' \in Nat \ {0}
  BY TimesAssumption DEF ReadPeriod, TypeOK
<1>2. \A c \in Control : interval'[c] \in Int
  BY <1>1, TimesAssumption
<1>3. \A c \in Control : print_time'[c] = FirstPrintTime(c)
  BY DEF ReadPeriod
<1>4. ASSUME NEW c \in Control, interval'[c] > 0
      PROVE  /\ print_time'[c] \in Nat /\ time < print_time'[c]
             /\ \A m \in Nat : time < m /\ m < print_time'[c] => (m % interval'[c]) # 0
  <2>1. interval'[c] \in Nat \ {0}
    BY <1>2, <1>4
  <2>2. print_time'[c] = MultipleAfter(time, interval'[c])
    BY <1>3, <1>4 DEF FirstPrintTime
  <2> QED BY <1>1, <2>1, <2>2, MultipleAfterIsNext
<1> DEFINE coming == {timchg'} \cup {print_time'[c] : c \in {d \in Control : interval'[d] > 0}}
<1>5. timprtnxt' = Earliest(coming)
  BY DEF ReadPeriod
<1>6. coming \subseteq Nat /\ coming # {} /\ timchg' \in coming /\ \A x \in coming : time < timchg' => time < x
  BY <1>1, <1>4
<1>7. timprtnxt' \in coming /\ \A x \in coming : timprtnxt' <= x
  <2> HIDE DEF coming
  <2> QED BY <1>5, <1>6, EarliestOfSet
<1>8. print_time' \in [Control -> Nat]
  <2>1. \A c \in Control : FirstPrintTime(c) \in Nat
    BY <1>3, <1>4 DEF FirstPrintTime, TypeOK
  <2> QED BY <2>1 DEF ReadPeriod
<1>9. TypeOK'
  <2>1. interval' \in [Control -> Intervals \cup {0}]
    BY <1>1
  <2>2. steady' \in BOOLEAN /\ failed' \in BOOLEAN /\ atEnd' \in BOOLEAN
    BY SwitchesAssumption DEF ReadPeriod, TypeOK
  <2>3. timprtnxt' \in Nat
    BY <1>6, <1>7
  <2> QED BY <1>1, <1>8, <2>1, <2>2, <2>3 DEF ReadPeriod, TypeOK
<1>10. Beginning' /\ LengthIsKnown' /\ StepEnds' /\ ZeroStepOnlyAfterError'
  BY <1>1, TimesAssumption DEF ReadPeriod, Beginning, LengthIsKnown, Restored, StepEnds, ZeroStepOnlyAfterError
<1>11. \A c \in Control : Due(c)' => interval'[c] > 0
  BY DEF Due, ByTime
<1>12. LooksOut'
  BY <1>6, <1>7, <1>11 DEF LooksOut
<1>13. NoneBetween'
  BY <1>4, <1>11 DEF ReadPeriod, NoneBetween
<1>14. StillToCome'
  BY <1>4, <1>6, <1>7, <1>11 DEF ReadPeriod, StillToCome
<1>15. DataChangeOnTime'
  BY <1>1 DEF ReadPeriod, DataChangeOnTime
<1> QED BY <1>9, <1>10, <1>12, <1>13, <1>14, <1>15

\* A step is cut to what comes next, or is stretched to it by a tenth at most.
LEMMA StepLength ==
  ASSUME IInv, Timestep
  PROVE  /\ timchg > 0 /\ Restored = length /\ length \in Nat \ {0}
         /\ deltim' \in Int
         /\ \/ deltim_sav' = length /\ deltim' = timprtnxt - time
            \/ deltim_sav' = 0 /\ deltim' = length
         /\ time + deltim' <= timprtnxt
         /\ 10 * deltim' <= 11 * length
<1> USE DEF IInv
<1>1. /\ time \in Nat /\ timchg \in Nat /\ timprtnxt \in Nat
      /\ deltim \in Int /\ deltim_sav \in Nat
  BY TimesAssumption DEF TypeOK
<1>2. timchg > 0
  BY <1>1 DEF Timestep, Beginning
<1>3. Restored = length /\ length \in Nat \ {0}
  BY <1>2, TimesAssumption DEF Timestep, LengthIsKnown
<1>4. timprtnxt <= timchg
  BY DEF LooksOut
<1>5. \/ Snaps(length) /\ deltim' = timprtnxt - time /\ deltim_sav' = length
      \/ ~ Snaps(length) /\ deltim' = length /\ deltim_sav' = 0
  <2>1. Target = timprtnxt
    BY <1>1, <1>4 DEF Target
  <2> QED BY <1>3, <2>1 DEF Timestep
<1>6. Snaps(length) <=> \/ 10 * Abs(time + length - timprtnxt) <= length
                        \/ time + length > timprtnxt
  BY <1>1, <1>4 DEF Snaps
<1>7. 10 * (timprtnxt - time - length) <= 10 * Abs(time + length - timprtnxt)
  BY <1>1, <1>3 DEF Abs
<1>8. time + deltim' <= timprtnxt /\ 10 * deltim' <= 11 * length /\ deltim' \in Int
  <2>1. CASE Snaps(length)
    <3> HIDE DEF IInv
    <3>1. 10 * (timprtnxt - time - length) <= length \/ time + length > timprtnxt
      BY <1>1, <1>3, <1>6, <1>7, <2>1 DEF Abs
    <3> QED BY <1>1, <1>3, <1>5, <2>1, <3>1
  <2>2. CASE ~ Snaps(length)
    BY <1>1, <1>3, <1>5, <1>6, <2>2
  <2> QED BY <2>1, <2>2
<1> QED BY <1>2, <1>3, <1>5, <1>8

LEMMA TimestepKeepsIInv ==
  ASSUME IInv, Timestep
  PROVE  IInv'
<1> USE DEF IInv
<1>1. /\ time \in Nat /\ timchg \in Nat /\ timprtnxt \in Nat /\ itime \in Nat
      /\ timprtnxt <= timchg
  BY TimesAssumption DEF TypeOK, LooksOut
<1>2. /\ UNCHANGED <<steady, time, timchg, interval, atEnd, length, print_time, printed, timprtnxt, failed>>
      /\ itime' = itime + 1 /\ phase = "top" /\ (time < timchg \/ failed)
  BY DEF Timestep, reading
<1>3. ~ failed => deltim' > 0
  BY <1>1, <1>2, StepLength DEF StillToCome
<1>4. /\ deltim' <= 0 => phase' = "stopped" /\ flag' = flag
      /\ ~ (deltim' <= 0) => /\ phase' = "step"
           /\ flag' = [c \in Control |-> Flag(c, time + deltim', itime', deltim')]
  BY DEF Timestep
<1>5. phase' \in {"step", "stopped"} /\ (phase' = "stopped" => failed) /\ (phase' = "step" => deltim' > 0)
  BY <1>3, <1>4, StepLength
<1>6. flag' \in [Control -> BOOLEAN]
  <2>1. \A c \in Control : Flag(c, time + deltim', itime', deltim') \in BOOLEAN
    BY Zenon DEF Flag
  <2> QED BY <1>4, <2>1 DEF TypeOK
<1>7. TypeOK'
  <2>1. deltim' \in Int /\ deltim_sav' \in Nat /\ itime' \in Nat
    BY <1>1, <1>2, StepLength
  <2> QED BY <1>2, <1>5, <1>6, <2>1 DEF TypeOK
<1>8. \A c \in Control : (Due(c)' <=> Due(c)) /\ print_time'[c] = print_time[c]
  BY <1>2 DEF Due, ByTime, NeedsNoMore
<1>9. Beginning' /\ LengthIsKnown'
  BY <1>1, <1>2, <1>5, StepLength DEF Beginning, LengthIsKnown, Restored
<1>10. LooksOut' /\ NoneBetween' /\ StillToCome'
  BY <1>2, <1>5, <1>8 DEF LooksOut, NoneBetween, StillToCome
<1>11. ASSUME phase' = "step", NEW c \in Control, Due(c), print_time[c] = time + deltim'
       PROVE  flag'[c]
  <2>1. Abs(print_time[c] - (time + deltim')) = 0
    BY <1>1, <1>11, StepLength DEF Abs
  <2>2. 100 * Abs(print_time[c] - (time + deltim')) <= deltim'
    BY <1>5, <1>11, <2>1, StepLength
  <2>3. Flag(c, time + deltim', itime', deltim')
    BY <1>11, <2>2 DEF Flag, Due
  <2>4. ~ (deltim' <= 0)
    BY <1>5, <1>11, StepLength
  <2> QED BY <1>4, <2>3, <2>4
<1>12. StepEnds'
  <2>1. ASSUME NEW c \in Control, phase' = "step", Due(c)', print_time'[c] = time' + deltim'
        PROVE  flag'[c]
    BY <1>2, <1>8, <1>11, <2>1
  <2> QED BY <1>2, <1>5, <2>1, StepLength DEF StepEnds
<1>13. DataChangeOnTime' /\ ZeroStepOnlyAfterError'
  BY <1>1, <1>2, <1>5 DEF DataChangeOnTime, ZeroStepOnlyAfterError
<1> QED BY <1>7, <1>9, <1>10, <1>12, <1>13

LEMMA EndOfStepKeepsIInv ==
  ASSUME IInv, EndOfStep
  PROVE  IInv'
<1> USE DEF IInv
<1>1. /\ time \in Nat /\ timchg \in Nat /\ timprtnxt \in Nat /\ deltim \in Int
      /\ phase = "step" /\ ~ failed /\ phase' \in {"top", "done"}
      /\ UNCHANGED <<steady, timchg, deltim, deltim_sav, itime, interval, atEnd, length, flag, failed>>
      /\ time' = time + deltim /\ printed' = printed \cup {c \in Control : flag[c]}
  BY TimesAssumption DEF EndOfStep, TypeOK, reading
<1>2. deltim > 0 /\ time' <= timprtnxt /\ timprtnxt <= timchg /\ time' \in Nat /\ time < time' /\ timchg > 0
  BY <1>1 DEF StepEnds, LooksOut
<1>3. ASSUME NEW c \in Control
      PROVE  /\ interval[c] \in Int /\ print_time[c] \in Nat /\ interval'[c] = interval[c]
             /\ print_time'[c] = NextPrintTime(c)
  <2>1. interval[c] \in Int
    <3>1. TypeOK
      OBVIOUS
    <3> QED BY <3>1, IntervalsAreIntegers
  <2> QED BY <1>1, <2>1 DEF EndOfStep, TypeOK
<1>4. ASSUME NEW c \in Control
      PROVE  print_time'[c] \in Nat
  <2>1. CASE ByTime(c) /\ flag[c] /\ print_time'[c] = MultipleAfter(time', interval[c])
    <3>1. interval[c] \in Nat \ {0}
      BY <1>3, <2>1 DEF ByTime
    <3> QED BY <1>2, <2>1, <3>1, MultipleAfterIsNext
  <2>2. CASE print_time'[c] = print_time[c]
    BY <1>3, <2>2
  <2> QED BY <1>3, <2>1, <2>2 DEF NextPrintTime
<1>5. ASSUME NEW c \in Control, Due(c)'
      PROVE  /\ Due(c) /\ time' < print_time'[c]
             /\ \A m \in Nat : time' < m /\ m < print_time'[c] => (m % interval'[c]) # 0
  <2>1. Due(c) /\ ByTime(c) /\ ~ (steady /\ c \in Once /\ c \in printed')
    BY <1>1, <1>3, <1>5 DEF Due, ByTime, NeedsNoMore
  <2>2. CASE flag[c]
    <3>1. interval[c] \in Nat \ {0}
      BY <1>3, <2>1 DEF ByTime
    <3>2. print_time'[c] = MultipleAfter(time', interval[c])
      BY <1>3, <2>1, <2>2 DEF NextPrintTime
    <3> QED BY <1>2, <1>3, <2>1, <3>1, <3>2, MultipleAfterIsNext
  <2>3. CASE ~ flag[c]
    <3>1. print_time'[c] = print_time[c]
      BY <1>3, <2>3 DEF NextPrintTime
    <3>2. timprtnxt <= print_time[c] /\ print_time[c] # time'
      BY <1>1, <2>1, <2>3 DEF LooksOut, StepEnds
    <3>3. \A m \in Nat : time < m /\ m < print_time[c] => (m % interval[c]) # 0
      BY <2>1 DEF NoneBetween
    <3>4. time' < print_time[c]
      BY <1>1, <1>2, <1>3, <3>2
    <3>5. \A m \in Nat : time' < m => time < m
      BY <1>1, <1>2
    <3> QED BY <1>3, <2>1, <3>1, <3>3, <3>4, <3>5
  <2> QED BY <2>2, <2>3
<1> DEFINE coming == Coming
<1>6. coming \subseteq Nat /\ timchg \in coming
  BY <1>1, <1>4 DEF Coming
<1>7. \A x \in coming : time' < timchg => time' < x
  <2>1. \A c \in Control : ByTime(c) /\ ~ (steady /\ c \in Once /\ c \in printed') => Due(c)'
    BY <1>1, <1>3 DEF ByTime, Due, NeedsNoMore
  <2> QED BY <1>5, <2>1 DEF Coming
<1>8. \A c \in Control : Due(c)' => print_time'[c] \in coming
  BY <1>1, <1>3, <1>5 DEF Coming, Due, ByTime, NeedsNoMore
<1>9. timprtnxt' \in coming /\ \A x \in coming : timprtnxt' <= x
  <2>1. timprtnxt' = Earliest(coming)
    BY DEF EndOfStep
  <2> HIDE DEF coming
  <2> QED BY <1>6, <2>1, EarliestOfSet
<1> HIDE DEF coming
<1>10. TypeOK'
  <2>1. print_time' \in [Control -> Nat]
    <3>1. \A c \in Control : NextPrintTime(c) \in Nat
      BY <1>3, <1>4
    <3> QED BY <3>1 DEF EndOfStep
  <2>2. timprtnxt' \in Nat /\ printed' \subseteq Control
    BY <1>1, <1>6, <1>9 DEF TypeOK
  <2> QED BY <1>1, <1>2, <2>1, <2>2 DEF TypeOK
<1>11. Beginning' /\ StepEnds' /\ ZeroStepOnlyAfterError' /\ DataChangeOnTime'
  BY <1>1, <1>2 DEF Beginning, StepEnds, ZeroStepOnlyAfterError, DataChangeOnTime
<1>12. LengthIsKnown'
  BY <1>1, <1>2 DEF LengthIsKnown, Restored
<1>13. LooksOut'
  BY <1>1, <1>6, <1>8, <1>9 DEF LooksOut
<1>14. NoneBetween'
  BY <1>5 DEF NoneBetween
<1>15. StillToCome'
  BY <1>1, <1>5, <1>7, <1>9 DEF StillToCome
<1> QED BY <1>10, <1>11, <1>12, <1>13, <1>14, <1>15

\* The other actions end the loop, or change nothing.
LEMMA EndKeepsIInv ==
  ASSUME IInv,
         \/ phase' = "done" /\ timchg > 0 /\ UNCHANGED <<steady, time, timchg, deltim, deltim_sav, itime, interval,
              atEnd, length, print_time, flag, printed, timprtnxt, failed>>
         \/ UNCHANGED vars
  PROVE  IInv'
<1>1. UNCHANGED <<steady, time, timchg, deltim, deltim_sav, itime, interval, atEnd, length, print_time,
                  flag, printed, timprtnxt, failed>>
  BY DEF vars, reading
<1>2. \A c \in Control : Due(c)' <=> Due(c)
  BY <1>1 DEF Due, ByTime, NeedsNoMore
<1>3. phase' = phase \/ (phase' = "done" /\ timchg > 0)
  BY DEF vars
<1>4. TypeOK' /\ Beginning' /\ LengthIsKnown'
  BY <1>1, <1>3, TimesAssumption DEF IInv, TypeOK, Beginning, LengthIsKnown, Restored
<1>5. LooksOut' /\ NoneBetween' /\ StillToCome'
  BY <1>1, <1>2, <1>3 DEF IInv, LooksOut, NoneBetween, StillToCome
<1>6. StepEnds' /\ DataChangeOnTime' /\ ZeroStepOnlyAfterError'
  BY <1>1, <1>2, <1>3 DEF IInv, StepEnds, DataChangeOnTime, ZeroStepOnlyAfterError
<1> QED BY <1>4, <1>5, <1>6 DEF IInv

\* The invariant is inductive.
LEMMA NextKeepsIInv == IInv /\ [Next]_vars => IInv'
<1> SUFFICES ASSUME IInv, [Next]_vars PROVE IInv'
  OBVIOUS
<1>1. time \in Nat /\ timchg \in Nat
  BY TimesAssumption DEF IInv, TypeOK
<1>2. CASE ReadPeriod
  BY <1>2, ReadPeriodKeepsIInv
<1>3. CASE Timestep
  BY <1>3, TimestepKeepsIInv
<1>4. CASE EndOfStep
  BY <1>4, EndOfStepKeepsIInv
<1>5. CASE ReadEnd
  BY <1>5, EndKeepsIInv DEF ReadEnd, reading
<1>6. CASE FlowFails
  <2>1. timchg > 0
    BY <1>1, <1>6 DEF FlowFails, IInv, Beginning
  <2> QED BY <1>6, <2>1, EndKeepsIInv DEF FlowFails, reading
<1>7. CASE TransportFails
  <2>1. timchg > 0
    BY <1>1, <1>7 DEF TransportFails, IInv, Beginning
  <2> QED BY <1>7, <2>1, EndKeepsIInv DEF TransportFails, reading
<1>8. CASE UNCHANGED vars
  BY <1>8, EndKeepsIInv
<1> QED BY <1>2, <1>3, <1>4, <1>5, <1>6, <1>7, <1>8 DEF Next

\* Whatever is read, the loop keeps the invariant.
THEOREM InvariantHolds == Spec => []IInv
<1> QED BY InitIInv, NextKeepsIInv, PTL DEF Spec

----------------------------------------------------------------------------
(* TimeStepping: the properties.                                           *)

\* The variables have their types.
THEOREM TypeCorrect == Spec => []TypeOK
<1>1. IInv => TypeOK
  BY DEF IInv
<1> QED BY <1>1, InvariantHolds, PTL

\* No step of timestep goes beyond the time at which new data are to be read.
THEOREM NewDataOnTime == Spec => []DataChangeOnTime
<1>1. IInv => DataChangeOnTime
  BY DEF IInv
<1> QED BY <1>1, InvariantHolds, PTL

\* The STOP of timestep is reached only after an error in the data.
THEOREM NoStepOfNoLength == Spec => []ZeroStepOnlyAfterError
<1>1. IInv => ZeroStepOnlyAfterError
  BY DEF IInv
<1> QED BY <1>1, InvariantHolds, PTL

\* timestep never loses the length of the step that was read.
THEOREM LengthIsKept == Spec => []StepLengthKept
<1>1. IInv => StepLengthKept
  <2> SUFFICES ASSUME IInv, phase = "step"
               PROVE  /\ deltim_sav = 0 => deltim = length
                      /\ deltim_sav # 0 => deltim_sav = length /\ 10 * deltim <= 11 * length
    BY DEF StepLengthKept
  <2>1. timchg > 0 /\ deltim_sav \in Nat
    BY TimesAssumption DEF IInv, TypeOK, Beginning
  <2> QED BY <2>1 DEF IInv, LengthIsKnown, Restored, StepEnds
<1> QED BY <1>1, InvariantHolds, PTL

\* No step passes over a time at which something is to be printed, and what is due at
\* its end is printed.
THEOREM PrintTimesAreHit == Spec => EveryPrintTimeHit
<1> DEFINE Hit == time' # time =>
       \A c \in Control : ByTime(c) /\ ~ NeedsNoMore(c) =>
         \A m \in time+1 .. time' : m % interval[c] = 0 => m = time' /\ flag[c]
<1>1. IInv /\ [Next]_vars => [Hit]_vars
  <2> SUFFICES ASSUME IInv, [Next]_vars, time' # time,
                      NEW c \in Control, ByTime(c), ~ NeedsNoMore(c),
                      NEW m \in time+1 .. time', (m % interval[c]) = 0
               PROVE  m = time' /\ flag[c]
    OBVIOUS
  <2>1. phase = "step" /\ ~ failed /\ time' = time + deltim
    BY DEF Next, ReadPeriod, ReadEnd, FlowFails, Timestep, TransportFails, EndOfStep, vars
  <2>2. time \in Nat /\ time' \in Int /\ timprtnxt \in Nat /\ print_time[c] \in Nat /\ deltim > 0 /\ deltim \in Int
    BY <2>1 DEF IInv, TypeOK, StepEnds
  <2>3. Due(c)
    BY DEF Due
  <2>4. m \in Nat /\ time < m /\ m <= time'
    BY <2>1, <2>2
  <2>5. ~ (m < print_time[c])
    BY <2>3, <2>4 DEF IInv, NoneBetween
  <2>6. time' <= timprtnxt /\ timprtnxt <= print_time[c] /\ (print_time[c] = time' => flag[c])
    BY <2>1, <2>3 DEF IInv, LooksOut, StepEnds
  <2>7. m = time' /\ print_time[c] = time'
    BY <2>2, <2>4, <2>5, <2>6
  <2> QED BY <2>6, <2>7
<1>2. Spec => [][Hit]_vars
  BY <1>1, InvariantHolds, PTL DEF Spec
<1> QED BY <1>2 DEF EveryPrintTimeHit
----------------------------------------------------------------------------
(* SimulationPeriods: the inductive invariant.                             *)

\* The series the simulator is to follow.
Shown == {s \in Gathered : Looked(s) /\ Checked(s)}

\* The values the input has for a series.
Values(s) == {0} \cup {input.data[s][n].value : n \in DOMAIN input.data[s]}

\* What a checked series has in order has more than two units in between.
InSpacedOrder(entries) ==
  \A m, n \in DOMAIN entries : m < n => entries[m].time + 2 < entries[n].time

\* The same entries in another order.
Permuted(entries, given) ==
  /\ DOMAIN entries = DOMAIN given
  /\ \A n \in DOMAIN entries : \E m \in DOMAIN given : entries[n] = given[m]
  /\ \A m \in DOMAIN given : \E n \in DOMAIN entries : entries[n] = given[m]

SeriesInv ==
  /\ \A s \in Series : Permuted(series[s], input.data[s])
  /\ pc = "check" => series = input.data
  /\ pc # "check" => \A s \in Series : Checked(s) => InSpacedOrder(series[s])
  /\ pc \notin {"check", "error"} =>
       \A s \in Series : Checked(s) /\ StartsAtZero(s) /\ series[s] # <<>> => series[s][1].time = 0

\* The times of which the periods are made.
AllTimes == (UNION {Times(input.data[s]) : s \in Gathered}) \cup (input.ends \ {EndTime})

\* What the loop has kept, and what it has still to look at.
LoopInv ==
  pc = "unique" =>
    /\ next <= Len(times) + 1 /\ times # <<>> /\ times[1] = 0
    /\ \A m, n \in next .. Len(times) : m < n => times[m] < times[n]
    /\ \A m \in 1 .. kept, n \in next .. Len(times) : times[m] < times[n]
    /\ \A m, n \in 1 .. kept : m < n => times[m] + 1 < times[n]
    /\ \A n \in 1 .. kept : times[n] + 1 < EndTime
    /\ \A t \in AllTimes : \/ \E n \in 1 .. kept : times[n] <= t /\ t <= times[n] + 1
                           \/ \E n \in next .. Len(times) : t = times[n]

TimesInv ==
  pc \in {"write", "thru"} =>
    /\ times # <<>> /\ times[1] = 0
    /\ \A m, n \in DOMAIN times : m < n => times[m] + 1 < times[n]
    /\ \A n \in DOMAIN times : times[n] + 1 < EndTime
    /\ \A t \in AllTimes :
         t + 1 < EndTime => \E n \in DOMAIN times : times[n] <= t /\ t <= times[n] + 1

\* The value of a series in period n, and before the first.
ValueIn(s, n) == IF n = 0 THEN 0 ELSE Latest(s, times[n])

PeriodEnd(n) == IF n < Len(times) THEN times[n + 1] ELSE EndTime

BlockT == [timchg : Nat, data : UNION {[S -> Nat] : S \in SUBSET Series}]

\* A block has what changes with its period, and all controls.
BlocksInv ==
  /\ blocks \in Seq(BlockT) /\ Len(blocks) <= Len(times)
  /\ pc \in {"check", "error", "collate", "unique"} => blocks = <<>>
  /\ pc = "write" => Len(blocks) < Len(times)
  /\ pc = "thru" => Len(blocks) = Len(times)
  /\ pc # "thru" => read = 0
  /\ \A n \in DOMAIN blocks :
       /\ blocks[n].timchg = PeriodEnd(n)
       /\ \A s \in Series : s.kind \notin Lists => s \in DOMAIN blocks[n].data
       /\ \A s \in DOMAIN blocks[n].data : blocks[n].data[s] \in Values(s)
       /\ \A s \in Shown :
            IF s \in DOMAIN blocks[n].data THEN blocks[n].data[s] = ValueIn(s, n)
            ELSE ValueIn(s, n) = ValueIn(s, n - 1)

\* phastinput is in the period of the last block it has written, the simulator in that of
\* the last it has read.
ValuesInv ==
  /\ current \in [Series -> Nat] /\ used \in [Series -> Nat]
  /\ \A s \in Shown : current[s] = ValueIn(s, Len(blocks)) /\ used[s] = ValueIn(s, read)

PhaseInv ==
  /\ pc \in {"check", "error", "collate"} => times = <<>>
  /\ pc \in {"check", "error", "collate"} => kept = 1 /\ next = 2

PeriodsInv ==
  /\ PeriodsTypeOK
  /\ SeriesInv /\ PhaseInv /\ LoopInv /\ TimesInv /\ BlocksInv /\ ValuesInv

----------------------------------------------------------------------------
(* Sets of times, and what is put in order.                                *)

\* Finitely many finite sets have a finite union.
LEMMA FiniteUnion ==
  ASSUME NEW I, IsFiniteSet(I), NEW f, \A i \in I : IsFiniteSet(f[i])
  PROVE  IsFiniteSet(UNION {f[i] : i \in I})
<1> DEFINE U(J) == UNION {f[i] : i \in J}
           Bad == {n \in Nat : \E J \in SUBSET I : Cardinality(J) = n /\ ~IsFiniteSet(U(J))}
<1>1. Bad = {}
  <2> SUFFICES ASSUME Bad # {} PROVE FALSE  OBVIOUS
  <2>1. PICK n \in Bad : \A m \in Bad : ~ (<<m, n>> \in OpToRel(<, Nat))
    <3>1. Bad \subseteq Nat  OBVIOUS
    <3> HIDE DEF Bad
    <3> QED  BY <3>1, NatLessThanWellFounded, WFMin
  <2>2. n \in Nat /\ \A m \in Bad : ~ (m < n)
    <3>1. Bad \subseteq Nat  OBVIOUS
    <3> HIDE DEF Bad
    <3> QED  BY <2>1, <3>1 DEF OpToRel
  <2>3. PICK J \in SUBSET I : Cardinality(J) = n /\ ~IsFiniteSet(U(J))
    <3>1. n \in Bad  OBVIOUS
    <3> HIDE DEF U
    <3> QED  BY <3>1
  <2>4. IsFiniteSet(J)  BY FS_Subset
  <2>5. PICK i \in J : TRUE
    <3>1. J # {}
      <4>1. U({}) = {}  OBVIOUS
      <4> QED  BY <2>3, <4>1, FS_EmptySet
    <3> QED  BY <3>1
  <2>6. /\ IsFiniteSet(J \ {i}) /\ Cardinality(J \ {i}) = n - 1 /\ n - 1 \in Nat
    <3>1. IsFiniteSet(J \ {i}) /\ Cardinality(J \ {i}) = Cardinality(J) - 1
      BY <2>4, <2>5, FS_RemoveElement
    <3>2. Cardinality(J \ {i}) \in Nat  BY <3>1, FS_CardinalityType
    <3> QED  BY <2>2, <2>3, <3>1, <3>2
  <2>7. IsFiniteSet(U(J \ {i}))
    <3>1. n - 1 \notin Bad
      <4> HIDE DEF Bad
      <4> QED  BY <2>2, <2>6
    <3>2. J \ {i} \in SUBSET I  OBVIOUS
    <3> HIDE DEF U
    <3> QED  BY <2>6, <3>1, <3>2
  <2>8. U(J) = U(J \ {i}) \cup f[i]  BY <2>5
  <2>9. IsFiniteSet(f[i])  BY <2>5
  <2> DEFINE A == U(J \ {i})
             B == f[i]
  <2>10. IsFiniteSet(A) /\ IsFiniteSet(B) /\ U(J) = A \cup B  BY <2>7, <2>8, <2>9
  <2> HIDE DEF A, B
  <2>11. IsFiniteSet(A \cup B)  BY <2>10, FS_Union
  <2> HIDE DEF U
  <2> QED  BY <2>3, <2>10, <2>11
<1>2. Cardinality(I) \in Nat  BY FS_CardinalityType
<1>3. I \in SUBSET I  OBVIOUS
<1>4. IsFiniteSet(U(I))
  <2> HIDE DEF U
  <2> QED  BY <1>1, <1>2, <1>3
<1> QED  BY <1>4

\* InOrder puts the times of a finite set into ascending order and leaves none out.
LEMMA InOrderSorts ==
  ASSUME NEW S \in SUBSET Nat, IsFiniteSet(S)
  PROVE  /\ Cardinality(S) \in Nat
         /\ InOrder(S) \in Seq(Nat) /\ DOMAIN InOrder(S) = 1 .. Cardinality(S)
         /\ Len(InOrder(S)) = Cardinality(S)
         /\ \A n \in 1 .. Cardinality(S) : InOrder(S)[n] \in S
         /\ \A t \in S : \E n \in 1 .. Cardinality(S) : InOrder(S)[n] = t
         /\ \A m, n \in 1 .. Cardinality(S) : m < n => InOrder(S)[m] < InOrder(S)[n]
<1> DEFINE R(t) == {u \in S : u <= t}
           c == Cardinality(S)
           f == [t \in S |-> Cardinality(R(t))]
<1>1. c \in Nat  BY FS_CardinalityType
<1>2. ASSUME NEW t \in S PROVE IsFiniteSet(R(t)) /\ Cardinality(R(t)) \in 1 .. c
  <2>1. R(t) \in SUBSET S /\ t \in R(t)  OBVIOUS
  <2> HIDE DEF R
  <2>2. IsFiniteSet(R(t)) /\ Cardinality(R(t)) <= c  BY <2>1, FS_Subset
  <2>3. Cardinality(R(t)) \in Nat /\ Cardinality(R(t)) # 0
    BY <2>1, <2>2, FS_CardinalityType, FS_EmptySet
  <2> QED  BY <1>1, <2>2, <2>3
<1>3. ASSUME NEW t \in S, NEW u \in S, t < u PROVE Cardinality(R(t)) < Cardinality(R(u))
  <2>1. \A v \in S : v \in Nat /\ (v <= t => v <= u)  BY <1>3
  <2>2. R(t) \in SUBSET R(u)
    <3>1. \A v \in R(t) : v \in R(u)  BY <2>1
    <3> HIDE DEF R
    <3> QED  BY <3>1
  <2>3. t \in Int /\ u \in Int  OBVIOUS
  <2>4. u \in R(u) /\ u \notin R(t)  BY <1>3, <2>3
  <2> HIDE DEF R
  <2>5. Cardinality(R(t)) <= Cardinality(R(u)) /\ Cardinality(R(u)) # Cardinality(R(t))
    BY <1>2, <2>2, <2>4, FS_Subset
  <2> QED  BY <1>2, <2>5
<1>4. f \in [S -> 1 .. c] /\ \A t \in S : f[t] = Cardinality(R(t))
  <2> HIDE DEF R, c
  <2> QED  BY <1>2
<1>5. \A n \in 1 .. c : InOrder(S)[n] = CHOOSE t \in S : Cardinality(R(t)) = n
  BY DEF InOrder
<1> HIDE DEF f
<1>6. \A t, u \in S : t < u => f[t] < f[u]
  <2> HIDE DEF R, c
  <2> QED  BY <1>3, <1>4
<1> HIDE DEF R, c
<1>7. \A t, u \in S : f[t] = f[u] => t = u
  <2> SUFFICES ASSUME NEW t \in S, NEW u \in S, t # u PROVE f[t] # f[u]  OBVIOUS
  <2>1. f[t] \in 1 .. c /\ f[u] \in 1 .. c  BY <1>4
  <2>2. t < u \/ u < t  OBVIOUS
  <2> QED  BY <1>1, <1>6, <2>1, <2>2
<1>8. f \in Surjection(S, 1 .. c)
  <2>1. f \in Injection(S, 1 .. c)  BY <1>4, <1>7 DEF Injection, IsInjective
  <2>2. IsFiniteSet(1 .. c) /\ Cardinality(1 .. c) = c  BY <1>1, FS_Interval
  <2> QED  BY <2>1, <2>2, FS_Injection DEF c
<1>9. \A n \in 1 .. c : InOrder(S)[n] \in S /\ f[InOrder(S)[n]] = n
  <2> SUFFICES ASSUME NEW n \in 1 .. c PROVE InOrder(S)[n] \in S /\ f[InOrder(S)[n]] = n  OBVIOUS
  <2>1. \E t \in S : f[t] = n  BY <1>8 DEF Surjection
  <2>2. \E t \in S : Cardinality(R(t)) = n  BY <1>4, <2>1
  <2>3. InOrder(S)[n] = CHOOSE t \in S : Cardinality(R(t)) = n  BY <1>5
  <2>4. InOrder(S)[n] \in S /\ Cardinality(R(InOrder(S)[n])) = n  BY <2>2, <2>3
  <2> QED  BY <1>4, <2>4
<1>10. \A t \in S : f[t] \in 1 .. c /\ InOrder(S)[f[t]] = t
  <2> SUFFICES ASSUME NEW t \in S PROVE f[t] \in 1 .. c /\ InOrder(S)[f[t]] = t  OBVIOUS
  <2>1. f[t] \in 1 .. c  BY <1>4
  <2> QED  BY <1>7, <1>9, <2>1
<1>11. \A m, n \in 1 .. c : m < n => InOrder(S)[m] < InOrder(S)[n]
  <2> SUFFICES ASSUME NEW m \in 1 .. c, NEW n \in 1 .. c, m < n
               PROVE InOrder(S)[m] < InOrder(S)[n]
    OBVIOUS
  <2>1. PICK t \in S, u \in S : t = InOrder(S)[m] /\ u = InOrder(S)[n] /\ f[t] = m /\ f[u] = n
    BY <1>9
  <2>2. t # u /\ ~ (u < t)  BY <1>6, <2>1
  <2> QED  BY <2>1, <2>2
<1>12. InOrder(S) \in Seq(Nat) /\ DOMAIN InOrder(S) = 1 .. c /\ Len(InOrder(S)) = c
  <2>1. DOMAIN InOrder(S) = 1 .. c /\ InOrder(S) = [n \in 1 .. c |-> InOrder(S)[n]]
    BY DEF InOrder, c
  <2>2. \A n \in 1 .. c : InOrder(S)[n] \in Nat  BY <1>9
  <2>3. InOrder(S) \in [1 .. c -> Nat]  BY <2>1, <2>2
  <2> QED  BY <1>1, <2>1, <2>3
<1> QED  BY <1>1, <1>9, <1>10, <1>11, <1>12 DEF c

\* Entries far enough apart have times of their own; there are as many of the ones as of the others.
LEMMA TimesOfSpaced ==
  ASSUME NEW e \in Seq(Entry),
         \A m, n \in DOMAIN e : m # n => e[m].time + 2 < e[n].time \/ e[n].time + 2 < e[m].time
  PROVE  /\ Times(e) \in SUBSET Nat /\ IsFiniteSet(Times(e)) /\ Cardinality(Times(e)) = Len(e)
         /\ \A n \in DOMAIN e : e[n].time \in Times(e)
<1> DEFINE D == 1 .. Len(e)
           f == [n \in D |-> e[n].time]
<1>1. Len(e) \in Nat /\ DOMAIN e = D /\ \A n \in D : e[n] \in Entry  OBVIOUS
<1>2. \A n \in D : e[n].time \in Nat  BY <1>1 DEF Entry
<1>3. Times(e) \in SUBSET Nat /\ \A n \in D : e[n].time \in Times(e)  BY <1>1, <1>2 DEF Times
<1>4. IsFiniteSet(D) /\ Cardinality(D) = Len(e)
  <2>1. /\ IsFiniteSet(1 .. Len(e))
        /\ Cardinality(1 .. Len(e)) = IF 1 > Len(e) THEN 0 ELSE Len(e) - 1 + 1
    <3>1. 1 \in Int /\ Len(e) \in Int  BY <1>1
    <3> QED  BY <3>1, FS_Interval
  <2> QED  BY <1>1, <2>1
<1>5. \A m, n \in D : m # n => e[m].time # e[n].time
  <2> SUFFICES ASSUME NEW m \in D, NEW n \in D, m # n PROVE e[m].time # e[n].time  OBVIOUS
  <2>1. e[m].time + 2 < e[n].time \/ e[n].time + 2 < e[m].time  BY <1>1
  <2> QED  BY <1>2, <2>1
<1>6. \A t \in Times(e) : \E n \in D : f[n] = t  BY <1>1 DEF Times
<1>7. f \in [D -> Times(e)] /\ \A n \in D : f[n] = e[n].time  BY <1>3
<1>8. \A m, n \in D : f[m] = f[n] => m = n  BY <1>5, <1>7
<1> HIDE DEF f, D
<1>9. f \in Surjection(D, Times(e)) /\ f \in Injection(D, Times(e))
  BY <1>6, <1>7, <1>8 DEF Surjection, Injection, IsInjective
<1>10. IsFiniteSet(Times(e)) /\ Cardinality(Times(e)) = Cardinality(D)
  BY <1>4, <1>9, FS_Surjection
<1> QED  BY <1>1, <1>3, <1>4, <1>10 DEF D

\* Ordered puts entries with times of their own into the order of these, each once.
LEMMA OrderedSorts ==
  ASSUME NEW e \in Seq(Entry),
         \A m, n \in DOMAIN e : m # n => e[m].time + 2 < e[n].time \/ e[n].time + 2 < e[m].time
  PROVE  Ordered(e) \in Seq(Entry) /\ Permuted(Ordered(e), e) /\ InSpacedOrder(Ordered(e))
<1> DEFINE T == Times(e)
           o == InOrder(T)
           D == 1 .. Len(e)
           g(n) == CHOOSE m \in D : e[m].time = o[n]
<1>1. Len(e) \in Nat /\ DOMAIN e = D /\ \A n \in D : e[n] \in Entry  OBVIOUS
<1>2. \A n \in D : e[n].time \in Nat  BY <1>1 DEF Entry
<1>3. T \in SUBSET Nat /\ IsFiniteSet(T) /\ Cardinality(T) = Len(e) /\ \A n \in D : e[n].time \in T
  BY <1>1, TimesOfSpaced
<1> HIDE DEF T
<1>4. /\ \A n \in D : o[n] \in T /\ o[n] \in Nat
      /\ \A t \in T : \E n \in D : o[n] = t
      /\ \A m, n \in D : m < n => o[m] < o[n]
  BY <1>3, InOrderSorts
<1>5. \A t \in T : \E m \in D : e[m].time = t  BY <1>1 DEF T, Times
<1>6. DOMAIN Ordered(e) = D /\ \A n \in D : Ordered(e)[n] = e[g(n)]
  BY <1>1 DEF Ordered, T
<1> HIDE DEF o
<1>7. \A n \in D : g(n) \in D /\ e[g(n)].time = o[n]  BY <1>4, <1>5
<1> HIDE DEF g
<1>8. \A n \in D : Ordered(e)[n] \in Entry /\ Ordered(e)[n].time = o[n]  BY <1>1, <1>6, <1>7
<1>9. Ordered(e) \in Seq(Entry)
  <2>1. Ordered(e) = [n \in D |-> Ordered(e)[n]]  BY <1>1 DEF Ordered
  <2>2. Ordered(e) \in [D -> Entry]  BY <1>8, <2>1
  <2> QED  BY <1>1, <2>2
<1>10. Permuted(Ordered(e), e)
  <2>1. \A m \in D : \E n \in D : Ordered(e)[n] = e[m]
    <3> SUFFICES ASSUME NEW m \in D PROVE \E n \in D : Ordered(e)[n] = e[m]  OBVIOUS
    <3>1. PICK n \in D : o[n] = e[m].time  BY <1>3, <1>4
    <3>2. g(n) \in D /\ e[g(n)].time = e[m].time  BY <1>7, <3>1
    <3>3. g(n) = m
      <4> DEFINE h == g(n)
      <4>1. h \in D /\ e[h].time = e[m].time /\ e[h].time \in Nat  BY <1>2, <3>2
      <4> HIDE DEF h
      <4>2. h # m => e[h].time + 2 < e[m].time \/ e[m].time + 2 < e[h].time  BY <1>1, <4>1
      <4>3. h = m  BY <4>1, <4>2
      <4> QED  BY <4>3 DEF h
    <3> QED  BY <1>6, <3>3
  <2> QED  BY <1>1, <1>6, <1>7, <2>1 DEF Permuted
<1>11. InSpacedOrder(Ordered(e))
  <2> SUFFICES ASSUME NEW m \in D, NEW n \in D, m < n
               PROVE Ordered(e)[m].time + 2 < Ordered(e)[n].time
    BY <1>6 DEF InSpacedOrder
  <2> DEFINE a == g(m)
             b == g(n)
  <2>1. a \in D /\ b \in D /\ e[a].time = o[m] /\ e[b].time = o[n] /\ o[m] < o[n]
    BY <1>4, <1>7
  <2>2. Ordered(e)[m] = e[a] /\ Ordered(e)[n] = e[b]  BY <1>6
  <2> HIDE DEF a, b
  <2>3. e[a].time \in Nat /\ e[b].time \in Nat  BY <1>2, <2>1
  <2>4. a # b => e[a].time + 2 < e[b].time \/ e[b].time + 2 < e[a].time  BY <1>1, <2>1
  <2>5. a # b  BY <2>1, <2>3
  <2> QED  BY <2>1, <2>2, <2>3, <2>4, <2>5
<1> QED  BY <1>9, <1>10, <1>11

\* Of finitely many times one is the last.
LEMMA LastOfTimes ==
  ASSUME NEW S \in SUBSET Nat, IsFiniteSet(S), S # {}
  PROVE  \E t \in S : \A u \in S : u <= t
<1> DEFINE o == InOrder(S)
           c == Cardinality(S)
<1>1. /\ c \in Nat /\ \A n \in 1 .. c : o[n] \in S
      /\ \A t \in S : \E n \in 1 .. c : o[n] = t
      /\ \A m, n \in 1 .. c : m < n => o[m] < o[n]
  BY InOrderSorts
<1> HIDE DEF o, c
<1>2. c \in 1 .. c /\ \A n \in 1 .. c : o[n] \in Nat
  <2>1. PICK u \in S : TRUE  OBVIOUS
  <2>2. PICK n \in 1 .. c : o[n] = u  BY <1>1
  <2>3. \A m \in 1 .. c : o[m] \in Nat  BY <1>1
  <2> QED  BY <1>1, <2>2, <2>3
<1>3. ASSUME NEW u \in S PROVE u <= o[c]
  <2>1. PICK n \in 1 .. c : o[n] = u  BY <1>1
  <2>2. CASE n = c
    <3>1. u = o[c] /\ o[c] \in Nat  BY <1>2, <2>1, <2>2
    <3> QED  BY <3>1
  <2>3. CASE n # c
    <3>1. n < c  BY <1>1, <2>3
    <3>2. o[n] < o[c]  BY <1>1, <1>2, <3>1
    <3>3. o[n] \in Nat /\ o[c] \in Nat  BY <1>2
    <3> QED  BY <2>1, <3>2, <3>3
  <2> QED  BY <2>2, <2>3
<1> QED  BY <1>1, <1>2, <1>3

\* The entries of a series in the input.
LEMMA DataFacts ==
  ASSUME input \in Inputs, NEW s \in Series
  PROVE  /\ input.data[s] \in Seq(Entry)
         /\ \A n \in DOMAIN input.data[s] :
              /\ input.data[s][n] \in Entry /\ input.data[s][n].time \in Nat
              /\ input.data[s][n].value \in Nat \ {0}
         /\ \A m, n \in DOMAIN input.data[s] :
              m # n => \/ input.data[s][m].time + 2 < input.data[s][n].time
                       \/ input.data[s][n].time + 2 < input.data[s][m].time
<1>1. input.data[s] \in Seq(Entry)  BY PeriodsAssumption
<1>2. \A n \in DOMAIN input.data[s] : input.data[s][n] \in Entry  BY <1>1
<1>3. \A n \in DOMAIN input.data[s] :
        input.data[s][n].time \in Nat /\ input.data[s][n].value \in Nat \ {0}
  BY <1>2 DEF Entry
<1> QED  BY <1>1, <1>2, <1>3, SpacedAssumption

\* The simulation has an end, and it is later than its beginning.
LEMMA EndTimeFacts ==
  ASSUME input \in Inputs
  PROVE  EndTime \in input.ends /\ EndTime \in Nat /\ 1 < EndTime /\ \A t \in input.ends : t <= EndTime
<1>1. input.ends \in SUBSET Nat /\ IsFiniteSet(input.ends) /\ \E t \in input.ends : t > 1
  BY PeriodsAssumption, BeginAssumption
<1>2. \E t \in input.ends : \A u \in input.ends : u <= t
  <2> DEFINE S == input.ends
  <2>1. S \in SUBSET Nat /\ IsFiniteSet(S) /\ S # {}  BY <1>1
  <2> HIDE DEF S
  <2>2. \E t \in S : \A u \in S : u <= t  BY <2>1, LastOfTimes
  <2> QED  BY <2>2 DEF S
<1>3. EndTime \in input.ends /\ \A u \in input.ends : u <= EndTime  BY <1>2 DEF EndTime
<1> QED  BY <1>1, <1>3

\* There are finitely many times.
LEMMA AllTimesFinite ==
  ASSUME input \in Inputs
  PROVE  AllTimes \in SUBSET Nat /\ IsFiniteSet(AllTimes)
<1> DEFINE f == [s \in Gathered |-> Times(input.data[s])]
           G == UNION {f[s] : s \in Gathered}
<1>1. \A s \in Gathered : f[s] \in SUBSET Nat /\ IsFiniteSet(f[s])
  <2> SUFFICES ASSUME NEW s \in Gathered PROVE f[s] \in SUBSET Nat /\ IsFiniteSet(f[s])  OBVIOUS
  <2>1. s \in Series  BY DEF Gathered
  <2> DEFINE e == input.data[s]
  <2>2. /\ e \in Seq(Entry)
        /\ \A m, n \in DOMAIN e : m # n => e[m].time + 2 < e[n].time \/ e[n].time + 2 < e[m].time
    BY <2>1, DataFacts
  <2> HIDE DEF e
  <2>3. Times(e) \in SUBSET Nat /\ IsFiniteSet(Times(e))  BY <2>2, TimesOfSpaced
  <2> QED  BY <2>3 DEF e
<1>2. IsFiniteSet(Gathered)
  <2>1. Gathered \in SUBSET Series  BY DEF Gathered
  <2> QED  BY <2>1, PeriodsAssumption, FS_Subset
<1> DEFINE H == UNION {Times(input.data[s]) : s \in Gathered}
           E == input.ends \ {EndTime}
<1>3. G = H  OBVIOUS
<1>4. AllTimes = H \cup E  BY DEF AllTimes
<1> HIDE DEF H
<1>5. E \in SUBSET Nat /\ IsFiniteSet(E)
  <2>1. input.ends \in SUBSET Nat /\ IsFiniteSet(input.ends)  BY PeriodsAssumption
  <2>2. E \in SUBSET input.ends  OBVIOUS
  <2> QED  BY <2>1, <2>2, FS_Subset
<1> HIDE DEF f, E
<1>6. IsFiniteSet(G)  BY <1>1, <1>2, FiniteUnion
<1>7. G \in SUBSET Nat  BY <1>1
<1> HIDE DEF G
<1>8. IsFiniteSet(G \cup E)  BY <1>5, <1>6, FS_Union
<1> QED  BY <1>3, <1>4, <1>5, <1>7, <1>8

\* What is defined by the input alone stays as it is.
LEMMA SameInput ==
  ASSUME input' = input
  PROVE  /\ EndTime' = EndTime /\ AllTimes' = AllTimes /\ Gathered' = Gathered /\ Shown' = Shown
         /\ \A s : (Checked(s)' <=> Checked(s)) /\ (Looked(s)' <=> Looked(s)) /\ Values(s)' = Values(s)
         /\ \A s, t : Latest(s, t)' = Latest(s, t)
<1>1. EndTime' = EndTime  BY DEF EndTime
<1>2. \A s : (Checked(s)' <=> Checked(s)) /\ (Looked(s)' <=> Looked(s))  BY DEF Checked, Looked
<1>3. \A s : Values(s)' = Values(s)  BY DEF Values
<1>4. Gathered' = Gathered  BY DEF Gathered
<1>5. AllTimes' = AllTimes  BY <1>1, <1>4 DEF AllTimes
<1>6. Shown' = Shown  BY <1>2, <1>4 DEF Shown
<1>7. \A s, t : Latest(s, t)' = Latest(s, t)  BY DEF Latest
<1> QED  BY <1>1, <1>2, <1>3, <1>4, <1>5, <1>6, <1>7

\* The same entries have the same times.
LEMMA PermutedTimes ==
  ASSUME NEW e, NEW d, Permuted(e, d)
  PROVE  Times(e) = Times(d)
<1>1. ASSUME NEW t \in Times(e) PROVE t \in Times(d)
  <2>1. PICK n \in DOMAIN e : t = e[n].time  BY DEF Times
  <2>2. PICK m \in DOMAIN d : e[n] = d[m]  BY <2>1 DEF Permuted
  <2> QED  BY <2>1, <2>2 DEF Times
<1>2. ASSUME NEW t \in Times(d) PROVE t \in Times(e)
  <2>1. PICK m \in DOMAIN d : t = d[m].time  BY DEF Times
  <2>2. PICK n \in DOMAIN e : e[n] = d[m]  BY <2>1 DEF Permuted
  <2> QED  BY <2>1, <2>2 DEF Times
<1> QED  BY <1>1, <1>2

----------------------------------------------------------------------------
(* The actions keep the invariant.                                         *)

\* The parts about the values and the blocks, before the first block is written.
LEMMA NothingWritten ==
  ASSUME PeriodsInv, input' = input, blocks = <<>>, read = 0, pc' # "thru",
         current' = current, blocks' = blocks, read' = read, used' = used,
         times' \in Seq(Nat), pc' = "write" => times' # <<>>
  PROVE  BlocksInv' /\ ValuesInv'
<1>1. Len(blocks') = 0 /\ DOMAIN blocks' = {} /\ blocks' \in Seq(BlockT')
  <2>1. blocks' = <<>>  OBVIOUS
  <2> QED  BY <2>1
<1>2. Len(times') \in Nat /\ (times' # <<>> => 0 < Len(times'))  OBVIOUS
<1>3. BlocksInv'
  <2>1. Len(blocks') <= Len(times') /\ (pc' = "write" => Len(blocks') < Len(times'))
    BY <1>1, <1>2
  <2>2. read' = 0 /\ blocks' = <<>>  OBVIOUS
  <2> QED  BY <1>1, <2>1, <2>2 DEF BlocksInv
<1>4. \A s : ValueIn(s, 0)' = 0 /\ ValueIn(s, 0) = 0  BY DEF ValueIn
<1>5. Len(blocks) = 0  OBVIOUS
<1>6. /\ current \in [Series -> Nat] /\ used \in [Series -> Nat]
      /\ \A s \in Shown : current[s] = 0 /\ used[s] = 0
  BY <1>4, <1>5 DEF PeriodsInv, ValuesInv
<1>7. Shown' = Shown  BY SameInput
<1>8. \A s : ValueIn(s, Len(blocks))' = 0 /\ ValueIn(s, read)' = 0
  <2>1. Len(blocks') = 0 /\ read' = 0  BY <1>1
  <2> QED  BY <2>1 DEF ValueIn
<1>9. ValuesInv'  BY <1>6, <1>7, <1>8 DEF ValuesInv
<1> QED  BY <1>3, <1>9

\* The invariant holds at first.
LEMMA InitPeriodsInv == PeriodsInit => PeriodsInv
<1> SUFFICES ASSUME PeriodsInit PROVE PeriodsInv  OBVIOUS
<1>1. /\ input \in Inputs /\ pc = "check" /\ series = input.data /\ times = <<>>
      /\ kept = 1 /\ next = 2 /\ current = Unread /\ blocks = <<>> /\ read = 0 /\ used = Unread
  BY DEF PeriodsInit
<1>2. input.data \in [Series -> Seq(Entry)]  BY <1>1, PeriodsAssumption
<1>3. \A s \in Series : current[s] = 0 /\ used[s] = 0  BY <1>1 DEF Unread
<1>4. PeriodsTypeOK
  <2>1. read \in 0 .. Len(blocks) /\ times \in Seq(Nat) /\ kept \in 1 .. next-1  BY <1>1
  <2> QED  BY <1>1, <1>2, <1>3, <2>1 DEF PeriodsTypeOK
<1>5. SeriesInv
  <2>1. \A s \in Series : Permuted(series[s], input.data[s])  BY <1>1 DEF Permuted
  <2> QED  BY <1>1, <2>1 DEF SeriesInv
<1>6. PhaseInv /\ LoopInv /\ TimesInv  BY <1>1 DEF PhaseInv, LoopInv, TimesInv
<1>7. BlocksInv
  <2>1. blocks \in Seq(BlockT) /\ Len(blocks) <= Len(times) /\ DOMAIN blocks = {}  BY <1>1
  <2> QED  BY <1>1, <2>1 DEF BlocksInv
<1>8. ValuesInv
  <2>1. \A s : ValueIn(s, Len(blocks)) = 0 /\ ValueIn(s, read) = 0
    <3>1. Len(blocks) = 0 /\ read = 0  BY <1>1
    <3> QED  BY <3>1 DEF ValueIn
  <2>2. current \in [Series -> Nat] /\ used \in [Series -> Nat]  BY <1>1 DEF Unread
  <2>3. Shown \subseteq Series  BY DEF Shown, Gathered
  <2> QED  BY <1>3, <2>1, <2>2, <2>3 DEF ValuesInv
<1> QED  BY <1>4, <1>5, <1>6, <1>7, <1>8 DEF PeriodsInv

\* The checked series are put in order; the entries stay the same.
LEMMA CheckSeriesKeepsInv ==
  ASSUME PeriodsInv, CheckSeries
  PROVE  PeriodsInv'
<1>1. /\ pc = "check" /\ pc' \in {"collate", "error"} /\ series = input.data
      /\ input' = input /\ times' = times /\ kept' = kept /\ next' = next
      /\ current' = current /\ blocks' = blocks /\ read' = read /\ used' = used
  BY DEF CheckSeries, PeriodsInv, SeriesInv
<1>2. /\ input \in Inputs /\ times = <<>> /\ kept = 1 /\ next = 2 /\ blocks = <<>> /\ read = 0
  BY <1>1 DEF PeriodsInv, PeriodsTypeOK, PhaseInv, BlocksInv
<1>3. series' = [s \in Series |-> IF Checked(s) THEN Ordered(series[s]) ELSE series[s]]
  BY DEF CheckSeries
<1>4. \A s \in Series :
        /\ series'[s] \in Seq(Entry) /\ Permuted(series'[s], input.data[s])
        /\ Checked(s) => InSpacedOrder(series'[s])
  <2> SUFFICES ASSUME NEW s \in Series
               PROVE  /\ series'[s] \in Seq(Entry) /\ Permuted(series'[s], input.data[s])
                      /\ Checked(s) => InSpacedOrder(series'[s])
    OBVIOUS
  <2> DEFINE e == input.data[s]
  <2>1. /\ e \in Seq(Entry)
        /\ \A m, n \in DOMAIN e : m # n => e[m].time + 2 < e[n].time \/ e[n].time + 2 < e[m].time
    BY <1>2, DataFacts
  <2>2. series'[s] = IF Checked(s) THEN Ordered(e) ELSE e  BY <1>1, <1>3
  <2> HIDE DEF e
  <2>3. Ordered(e) \in Seq(Entry) /\ Permuted(Ordered(e), e) /\ InSpacedOrder(Ordered(e))
    BY <2>1, OrderedSorts
  <2>4. Permuted(e, e)  BY DEF Permuted
  <2> QED  BY <2>1, <2>2, <2>3, <2>4 DEF e
<1>5. \A s : Checked(s)' <=> Checked(s)  BY <1>1, SameInput
<1>6. SeriesInv'
  <2>1. \A s \in Series : Permuted(series[s], input.data[s])'  BY <1>1, <1>4
  <2>2. \A s \in Series : Checked(s)' => InSpacedOrder(series[s])'  BY <1>4, <1>5
  <2>3. pc' = "collate" =>
          \A s \in Series : Checked(s) /\ StartsAtZero(s) /\ series'[s] # <<>> => series'[s][1].time = 0
    <3>1. pc' = "collate" =>
            \A s \in Series : Checked(s) /\ StartsAtZero(s) /\ series[s] # <<>> => series'[s][1].time = 0
      BY DEF CheckSeries
    <3>2. \A s \in Series : series'[s] # <<>> => series[s] # <<>>
      <4> SUFFICES ASSUME NEW s \in Series, series[s] = <<>> PROVE series'[s] = <<>>  OBVIOUS
      <4>1. DOMAIN series'[s] = {}  BY <1>1, <1>4 DEF Permuted
      <4>2. PICK q \in Seq(Entry) : q = series'[s]  BY <1>4
      <4>3. DOMAIN q = {}  BY <4>1, <4>2
      <4>4. q = <<>>  BY <4>3
      <4> QED  BY <4>2, <4>4
    <3> QED  BY <3>1, <3>2
  <2> QED  BY <1>1, <1>5, <2>1, <2>2, <2>3 DEF SeriesInv, StartsAtZero
<1>7. PeriodsTypeOK'
  <2>1. series' \in [Series -> Seq(Entry)]  BY <1>3, <1>4
  <2> QED  BY <1>1, <2>1 DEF PeriodsInv, PeriodsTypeOK
<1>8. PhaseInv' /\ LoopInv' /\ TimesInv'  BY <1>1, <1>2 DEF PhaseInv, LoopInv, TimesInv
<1>9. BlocksInv' /\ ValuesInv'
  <2>1. times' \in Seq(Nat)  BY <1>1 DEF PeriodsInv, PeriodsTypeOK
  <2> QED  BY <1>1, <1>2, <2>1, NothingWritten
<1> QED  BY <1>6, <1>7, <1>8, <1>9 DEF PeriodsInv

\* The times of all periods and ends are put in order, from zero.
LEMMA GatherKeepsInv ==
  ASSUME PeriodsInv, Gather
  PROVE  PeriodsInv'
<1>1. /\ pc = "collate" /\ pc' = "unique" /\ input' = input /\ series' = series
      /\ kept' = kept /\ next' = next
      /\ current' = current /\ blocks' = blocks /\ read' = read /\ used' = used
  BY DEF Gather
<1>2. /\ input \in Inputs /\ series \in [Series -> Seq(Entry)] /\ kept = 1 /\ next = 2
      /\ blocks = <<>> /\ read = 0
  BY <1>1 DEF PeriodsInv, PeriodsTypeOK, PhaseInv, BlocksInv
<1>3. \A s \in Series : Permuted(series[s], input.data[s])  BY DEF PeriodsInv, SeriesInv
<1>4. \A s \in Series : Times(series[s]) = Times(input.data[s])  BY <1>3, PermutedTimes
<1>5. times' = InOrder(AllTimes)
  <2>1. {Times(series[s]) : s \in Gathered} = {Times(input.data[s]) : s \in Gathered}
    BY <1>4 DEF Gathered
  <2>2. (UNION {Times(series[s]) : s \in Gathered}) \cup (input.ends \ {EndTime}) = AllTimes
    BY <2>1 DEF AllTimes
  <2>3. times' = InOrder((UNION {Times(series[s]) : s \in Gathered}) \cup (input.ends \ {EndTime}))
    BY DEF Gather
  <2> QED  BY <2>2, <2>3
<1>6. 0 \in AllTimes
  <2>1. PICK s \in Series : s.kind = "time_step" /\ input.data[s] # <<>>
    BY <1>2, BeginAssumption
  <2>2. Checked(s) /\ StartsAtZero(s) /\ s \in Gathered
    BY <2>1 DEF Checked, StartsAtZero, Gathered, Lists, BoundaryKinds
  <2>3. PICK q \in Seq(Entry), e \in Seq(Entry) : q = series[s] /\ e = input.data[s]
    BY <1>2, DataFacts
  <2>4. DOMAIN q = DOMAIN e /\ e # <<>>  BY <1>3, <2>1, <2>3 DEF Permuted
  <2>5. q # <<>> /\ 1 \in DOMAIN q  BY <2>4
  <2>6. series[s][1].time = 0  BY <1>1, <2>2, <2>3, <2>5 DEF PeriodsInv, SeriesInv
  <2>7. 0 \in Times(q)  BY <2>3, <2>5, <2>6 DEF Times
  <2>8. 0 \in Times(input.data[s])  BY <1>4, <2>3, <2>7
  <2> QED  BY <2>2, <2>8 DEF AllTimes
<1> DEFINE A == AllTimes
           c == Cardinality(A)
<1>7. A \in SUBSET Nat /\ IsFiniteSet(A)  BY <1>2, AllTimesFinite
<1> HIDE DEF A
<1>8. PICK q \in Seq(Nat) :
        /\ q = times' /\ c \in Nat /\ Len(q) = c /\ DOMAIN q = 1 .. c
        /\ \A n \in 1 .. c : q[n] \in A
        /\ \A t \in A : \E n \in 1 .. c : q[n] = t
        /\ \A m, n \in 1 .. c : m < n => q[m] < q[n]
  <2>1. InOrder(A) \in Seq(Nat)  BY <1>7, InOrderSorts
  <2>2. InOrder(A) = times'  BY <1>5 DEF A
  <2> QED  BY <1>7, <2>1, <2>2, InOrderSorts
<1>9. q[1] = 0 /\ 1 \in 1 .. c
  <2>1. PICK n \in 1 .. c : q[n] = 0  BY <1>6, <1>8 DEF A
  <2>2. 1 \in 1 .. c /\ q[1] \in Nat  BY <1>8, <2>1
  <2>3. 1 < n => q[1] < q[n]  BY <1>8, <2>2
  <2> QED  BY <1>8, <2>1, <2>2, <2>3
<1>10. \A t \in A : \/ q[1] <= t /\ t <= q[1] + 1
                    \/ \E n \in 2 .. Len(q) : t = q[n]
  <2> SUFFICES ASSUME NEW t \in A, t # 0 PROVE \E n \in 2 .. Len(q) : t = q[n]
    BY <1>9
  <2>1. PICK n \in 1 .. c : q[n] = t  BY <1>8
  <2>2. n # 1  BY <1>9, <2>1
  <2> QED  BY <1>8, <2>1, <2>2
<1>11. EndTime' = EndTime /\ EndTime \in Nat /\ 1 < EndTime /\ AllTimes' = A
  BY <1>1, <1>2, EndTimeFacts, SameInput DEF A
<1>12. LoopInv'
  <2>1. next' = 2 /\ kept' = 1 /\ times' = q /\ q # <<>>  BY <1>1, <1>2, <1>8, <1>9
  <2>2. next' <= Len(times') + 1  BY <1>8, <1>9, <2>1
  <2>3. \A m, n \in next' .. Len(times') : m < n => times'[m] < times'[n]  BY <1>8, <2>1
  <2>4. \A m \in 1 .. kept', n \in next' .. Len(times') : times'[m] < times'[n]  BY <1>8, <1>9, <2>1
  <2>5. \A m, n \in 1 .. kept' : m < n => times'[m] + 1 < times'[n]  BY <2>1
  <2>6. \A n \in 1 .. kept' : times'[n] + 1 < EndTime'  BY <1>9, <1>11, <2>1
  <2>7. \A t \in AllTimes' : \/ \E n \in 1 .. kept' : times'[n] <= t /\ t <= times'[n] + 1
                             \/ \E n \in next' .. Len(times') : t = times'[n]
    BY <1>10, <1>11, <2>1
  <2> QED  BY <1>9, <2>1, <2>2, <2>3, <2>4, <2>5, <2>6, <2>7 DEF LoopInv
<1>13. PeriodsTypeOK'  BY <1>1, <1>8 DEF PeriodsInv, PeriodsTypeOK
<1>14. SeriesInv'
  <2>1. \A s : Checked(s)' <=> Checked(s)  BY <1>1, SameInput
  <2> QED  BY <1>1, <2>1 DEF PeriodsInv, SeriesInv, StartsAtZero
<1>15. PhaseInv' /\ TimesInv'  BY <1>1 DEF PhaseInv, TimesInv
<1>16. BlocksInv' /\ ValuesInv'
  <2>1. times' \in Seq(Nat)  BY <1>8
  <2> QED  BY <1>1, <1>2, <2>1, NothingWritten
<1> QED  BY <1>12, <1>13, <1>14, <1>15, <1>16 DEF PeriodsInv

\* A time is kept when it is not equal to the last one kept.
LEMMA KeepTimeKeepsInv ==
  ASSUME PeriodsInv, KeepTime
  PROVE  PeriodsInv'
<1>1. /\ pc = "unique" /\ pc' = pc /\ input' = input /\ series' = series
      /\ next <= Len(times) /\ ~PastEnd(times[next]) /\ next' = next + 1
      /\ current' = current /\ blocks' = blocks /\ read' = read /\ used' = used
  BY DEF KeepTime
<1>2. /\ input \in Inputs /\ kept \in 1 .. next-1 /\ read \in 0 .. Len(blocks)
      /\ blocks = <<>> /\ read = 0
  BY <1>1 DEF PeriodsInv, PeriodsTypeOK, BlocksInv
<1>3. times \in Seq(Nat) /\ times # <<>> /\ times[1] = 0
  BY <1>1 DEF PeriodsInv, PeriodsTypeOK, LoopInv
<1>4. PICK q \in Seq(Nat) : q = times  BY <1>3
<1>5. PICK r : r = times'  OBVIOUS
<1>6. /\ \A m, n \in next .. Len(q) : m < n => q[m] < q[n]
      /\ \A m \in 1 .. kept, n \in next .. Len(q) : q[m] < q[n]
      /\ \A m, n \in 1 .. kept : m < n => q[m] + 1 < q[n]
      /\ \A n \in 1 .. kept : q[n] + 1 < EndTime
      /\ \A t \in AllTimes : \/ \E n \in 1 .. kept : q[n] <= t /\ t <= q[n] + 1
                             \/ \E n \in next .. Len(q) : t = q[n]
  BY <1>1, <1>4 DEF PeriodsInv, LoopInv
<1>7. EndTime' = EndTime /\ EndTime \in Nat /\ AllTimes' = AllTimes /\ AllTimes \in SUBSET Nat
  BY <1>1, <1>2, EndTimeFacts, SameInput, AllTimesFinite
<1>8. PICK k \in Int, x \in Int : k = kept /\ x = next /\ k \in 1 .. x-1 /\ x \in 1 .. Len(q)
  <2>1. next \in Nat  BY DEF PeriodsInv, PeriodsTypeOK
  <2> QED  BY <1>1, <1>2, <1>4, <2>1
<1>9. /\ q[x] \in Nat /\ \A n \in 1 .. Len(q) : q[n] \in Nat
      /\ q[x] + 1 < EndTime /\ Len(q) \in Nat
  <2>1. q[x] \in Nat /\ Len(q) \in Nat /\ \A n \in 1 .. Len(q) : q[n] \in Nat  BY <1>8
  <2>2. ~PastEnd(q[x])  BY <1>1, <1>4, <1>8
  <2> QED  BY <1>7, <2>1, <2>2 DEF PastEnd, Equal
<1>10. ASSUME Equal(times[kept], times[next])
       PROVE  LoopInv' /\ times' \in Seq(Nat) /\ kept' \in 1 .. next'-1 /\ times' # <<>>
  <2>1. times' = times /\ kept' = kept  BY <1>10 DEF KeepTime
  <2>2. q[k] <= q[x] /\ q[x] <= q[k] + 1
    <3>1. q[k] < q[x] /\ q[k] \in Nat  BY <1>6, <1>8, <1>9
    <3>2. Equal(q[k], q[x])  BY <1>4, <1>8, <1>10
    <3> QED  BY <1>9, <3>1, <3>2 DEF Equal
  <2>3. \A t \in AllTimes : \/ \E n \in 1 .. k : q[n] <= t /\ t <= q[n] + 1
                            \/ \E n \in x + 1 .. Len(q) : t = q[n]
    <3> SUFFICES ASSUME NEW t \in AllTimes, NEW n \in x .. Len(q), t = q[n]
                 PROVE  \/ \E m \in 1 .. k : q[m] <= t /\ t <= q[m] + 1
                        \/ \E m \in x + 1 .. Len(q) : t = q[m]
      BY <1>6, <1>8
    <3>1. CASE n = x
      <4>1. k \in 1 .. k  BY <1>8
      <4> QED  BY <2>2, <3>1, <4>1
    <3>2. CASE n # x
      <4>1. n \in x + 1 .. Len(q)  BY <1>8, <1>9, <3>2
      <4> QED  BY <4>1
    <3> QED  BY <3>1, <3>2
  <2>4. \A m, n \in x + 1 .. Len(q) : m < n => q[m] < q[n]  BY <1>6, <1>8, <1>9
  <2>5. \A m \in 1 .. k, n \in x + 1 .. Len(q) : q[m] < q[n]  BY <1>6, <1>8, <1>9
  <2>6. LoopInv'
    <3>1. times' = q /\ kept' = k /\ next' = x + 1  BY <1>1, <1>4, <1>8, <2>1
    <3>2. \A m, n \in 1 .. k : m < n => q[m] + 1 < q[n]  BY <1>6, <1>8
    <3>3. \A n \in 1 .. k : q[n] + 1 < EndTime  BY <1>6, <1>8
    <3>4. x + 1 <= Len(q) + 1  BY <1>8, <1>9
    <3> QED  BY <1>3, <1>4, <1>7, <2>3, <2>4, <2>5, <3>1, <3>2, <3>3, <3>4 DEF LoopInv
  <2>7. times' \in Seq(Nat) /\ kept' \in 1 .. next'-1 /\ times' # <<>>
    BY <1>1, <1>2, <1>3, <1>8, <2>1
  <2> QED  BY <2>6, <2>7
<1>11. ASSUME ~Equal(times[kept], times[next])
       PROVE  LoopInv' /\ times' \in Seq(Nat) /\ kept' \in 1 .. next'-1 /\ times' # <<>>
  <2>1. times' = [times EXCEPT ![kept + 1] = times[next]] /\ kept' = kept + 1
    BY <1>11 DEF KeepTime
  <2>2. r = [q EXCEPT ![k + 1] = q[x]]  BY <1>4, <1>5, <1>8, <2>1
  <2>3. k + 1 \in 1 .. x /\ k + 1 \in 1 .. Len(q)  BY <1>8, <1>9
  <2>4. r \in Seq(Nat) /\ Len(r) = Len(q) /\ r # <<>>  BY <1>9, <2>2, <2>3
  <2>5. /\ r[k + 1] = q[x]
        /\ \A n \in 1 .. k : r[n] = q[n]
        /\ \A n \in x + 1 .. Len(q) : r[n] = q[n]
    <3>1. \A n \in 1 .. Len(q) : r[n] = IF n = k + 1 THEN q[x] ELSE q[n]  BY <2>2
    <3>2. \A n \in 1 .. k : n \in 1 .. Len(q) /\ n # k + 1  BY <1>8, <1>9
    <3>3. \A n \in x + 1 .. Len(q) : n \in 1 .. Len(q) /\ n # k + 1  BY <1>8, <1>9
    <3> QED  BY <2>3, <3>1, <3>2, <3>3
  <2>6. q[k] + 1 < q[x]
    <3>1. q[k] < q[x] /\ q[k] \in Nat  BY <1>6, <1>8, <1>9
    <3>2. ~Equal(q[k], q[x])  BY <1>4, <1>8, <1>11
    <3> QED  BY <1>9, <3>1, <3>2 DEF Equal
  <2>7. \A n \in 1 .. k : q[n] + 1 < q[x]
    <3> SUFFICES ASSUME NEW n \in 1 .. k PROVE q[n] + 1 < q[x]  OBVIOUS
    <3>1. n < k => q[n] + 1 < q[k]  BY <1>6, <1>8
    <3>2. q[n] \in Nat /\ q[k] \in Nat /\ q[x] \in Nat  BY <1>8, <1>9
    <3>3. CASE n < k  BY <2>6, <3>1, <3>2, <3>3
    <3>4. CASE n = k  BY <2>6, <3>4
    <3> QED  BY <1>8, <3>3, <3>4
  <2>8. \A m, n \in 1 .. k + 1 : m < n => r[m] + 1 < r[n]
    <3> SUFFICES ASSUME NEW m \in 1 .. k + 1, NEW n \in 1 .. k + 1, m < n PROVE r[m] + 1 < r[n]
      OBVIOUS
    <3>1. m \in 1 .. k /\ r[m] = q[m]  BY <1>8, <2>5
    <3>2. CASE n = k + 1  BY <2>5, <2>7, <3>1, <3>2
    <3>3. CASE n # k + 1
      <4>1. n \in 1 .. k  BY <1>8, <3>3
      <4>2. r[n] = q[n]  BY <2>5, <4>1
      <4> QED  BY <1>6, <1>8, <3>1, <4>1, <4>2
    <3> QED  BY <3>2, <3>3
  <2>9. \A n \in 1 .. k + 1 : r[n] + 1 < EndTime
    <3> SUFFICES ASSUME NEW n \in 1 .. k + 1 PROVE r[n] + 1 < EndTime  OBVIOUS
    <3>1. CASE n = k + 1  BY <1>9, <2>5, <3>1
    <3>2. CASE n # k + 1
      <4>1. n \in 1 .. k  BY <1>8, <3>2
      <4>2. r[n] = q[n]  BY <2>5, <4>1
      <4> QED  BY <1>6, <1>8, <4>1, <4>2
    <3> QED  BY <3>1, <3>2
  <2>10. \A m, n \in x + 1 .. Len(r) : m < n => r[m] < r[n]  BY <1>6, <1>8, <1>9, <2>4, <2>5
  <2>11. \A m \in 1 .. k + 1, n \in x + 1 .. Len(r) : r[m] < r[n]
    <3> SUFFICES ASSUME NEW m \in 1 .. k + 1, NEW n \in x + 1 .. Len(q) PROVE r[m] < r[n]
      BY <2>4
    <3>1. r[n] = q[n] /\ q[x] < q[n]  BY <1>6, <1>8, <1>9, <2>5
    <3>2. CASE m = k + 1  BY <2>5, <3>1, <3>2
    <3>3. CASE m # k + 1
      <4>1. m \in 1 .. k /\ n \in x .. Len(q) /\ r[m] = q[m]  BY <1>8, <1>9, <2>5, <3>3
      <4> QED  BY <1>6, <1>8, <3>1, <4>1
    <3> QED  BY <3>2, <3>3
  <2>12. \A t \in AllTimes : \/ \E n \in 1 .. k + 1 : r[n] <= t /\ t <= r[n] + 1
                             \/ \E n \in x + 1 .. Len(r) : t = r[n]
    <3> SUFFICES ASSUME NEW t \in AllTimes
                 PROVE  \/ \E n \in 1 .. k + 1 : r[n] <= t /\ t <= r[n] + 1
                        \/ \E n \in x + 1 .. Len(q) : t = r[n]
      BY <2>4
    <3>1. CASE \E n \in 1 .. k : q[n] <= t /\ t <= q[n] + 1
      <4>1. PICK n \in 1 .. k : q[n] <= t /\ t <= q[n] + 1  BY <3>1
      <4>2. n \in 1 .. k + 1 /\ r[n] = q[n]  BY <1>8, <2>5
      <4> QED  BY <4>1, <4>2
    <3>2. CASE \E n \in x .. Len(q) : t = q[n]
      <4>1. PICK n \in x .. Len(q) : t = q[n]  BY <3>2
      <4>2. CASE n = x
        <5>1. k + 1 \in 1 .. k + 1 /\ r[k + 1] = t  BY <1>8, <2>5, <4>1, <4>2
        <5>2. r[k + 1] <= t /\ t <= r[k + 1] + 1  BY <1>9, <4>1, <4>2, <5>1
        <5> QED  BY <5>1, <5>2
      <4>3. CASE n # x
        <5>1. n \in x + 1 .. Len(q) /\ r[n] = t  BY <1>8, <1>9, <2>5, <4>1, <4>3
        <5> QED  BY <5>1
      <4> QED  BY <4>2, <4>3
    <3> QED  BY <1>6, <1>8, <3>1, <3>2
  <2>13. r[1] = 0
    <3>1. 1 \in 1 .. k  BY <1>8
    <3> QED  BY <1>3, <1>4, <2>5, <3>1
  <2>14. LoopInv'
    <3>1. times' = r /\ kept' = k + 1 /\ next' = x + 1  BY <1>1, <1>5, <1>8, <2>1
    <3>2. x + 1 <= Len(r) + 1  BY <1>8, <1>9, <2>4
    <3> QED
      BY <1>7, <2>4, <2>8, <2>9, <2>10, <2>11, <2>12, <2>13, <3>1, <3>2 DEF LoopInv
  <2>15. times' \in Seq(Nat) /\ kept' \in 1 .. next'-1 /\ times' # <<>>
    BY <1>1, <1>5, <1>8, <2>1, <2>4
  <2> QED  BY <2>14, <2>15
<1>12. LoopInv' /\ times' \in Seq(Nat) /\ kept' \in 1 .. next'-1 /\ times' # <<>>
  BY <1>10, <1>11
<1>13. PeriodsTypeOK'
  <2>1. next \in Nat  BY DEF PeriodsInv, PeriodsTypeOK
  <2>2. next' \in Nat  BY <1>1, <2>1
  <2> QED  BY <1>1, <1>2, <1>12, <2>2 DEF PeriodsInv, PeriodsTypeOK
<1>14. SeriesInv'
  <2>1. \A s : Checked(s)' <=> Checked(s)  BY <1>1, SameInput
  <2> QED  BY <1>1, <2>1 DEF PeriodsInv, SeriesInv, StartsAtZero
<1>15. PhaseInv' /\ TimesInv'  BY <1>1 DEF PhaseInv, TimesInv
<1>16. BlocksInv' /\ ValuesInv'  BY <1>1, <1>2, <1>12, NothingWritten
<1> QED  BY <1>12, <1>13, <1>14, <1>15, <1>16 DEF PeriodsInv

\* The loop has found the times of all periods.
LEMMA EndUniqueKeepsInv ==
  ASSUME PeriodsInv, EndUnique
  PROVE  PeriodsInv'
<1>1. /\ pc = "unique" /\ pc' = "write" /\ input' = input /\ series' = series
      /\ (next <= Len(times) => PastEnd(times[next])) /\ times' = SubSeq(times, 1, kept)
      /\ kept' = kept /\ next' = next
      /\ current' = current /\ blocks' = blocks /\ read' = read /\ used' = used
  BY DEF EndUnique
<1>2. /\ input \in Inputs /\ next \in Nat /\ kept \in 1 .. next-1 /\ next <= Len(times) + 1
      /\ blocks = <<>> /\ read = 0
  BY <1>1 DEF PeriodsInv, PeriodsTypeOK, BlocksInv, LoopInv
<1>3. PICK q \in Seq(Nat) : q = times  BY DEF PeriodsInv, PeriodsTypeOK
<1>4. /\ q # <<>> /\ q[1] = 0
      /\ \A m, n \in next .. Len(q) : m < n => q[m] < q[n]
      /\ \A m, n \in 1 .. kept : m < n => q[m] + 1 < q[n]
      /\ \A n \in 1 .. kept : q[n] + 1 < EndTime
      /\ \A t \in AllTimes : \/ \E n \in 1 .. kept : q[n] <= t /\ t <= q[n] + 1
                             \/ \E n \in next .. Len(q) : t = q[n]
  BY <1>1, <1>3 DEF PeriodsInv, LoopInv
<1>5. EndTime' = EndTime /\ EndTime \in Nat /\ AllTimes' = AllTimes
  BY <1>1, <1>2, EndTimeFacts, SameInput
<1>6. PICK k \in Nat \ {0} : k = kept /\ k <= Len(q)
  BY <1>2, <1>3
<1>7. PICK r \in Seq(Nat) :
        r = times' /\ Len(r) = k /\ DOMAIN r = 1 .. k /\ r # <<>> /\ \A n \in 1 .. k : r[n] = q[n]
  <2> DEFINE z == SubSeq(q, 1, k)
  <2>1. z \in Seq(Nat) /\ Len(z) = k /\ \A n \in 1 .. k : z[n] = q[n]  BY <1>6
  <2>2. z = times'  BY <1>1, <1>3, <1>6
  <2> HIDE DEF z
  <2>3. DOMAIN z = 1 .. k /\ z # <<>>  BY <2>1
  <2> QED  BY <2>1, <2>2, <2>3
<1>8. \A t \in AllTimes : t + 1 < EndTime => \E n \in 1 .. k : q[n] <= t /\ t <= q[n] + 1
  <2> SUFFICES ASSUME NEW n \in next .. Len(q), q[n] + 1 < EndTime PROVE FALSE
    BY <1>4, <1>6
  <2>1. next \in 1 .. Len(q) /\ n \in 1 .. Len(q)  BY <1>2, <1>6, <1>3
  <2>2. PICK x \in 1 .. Len(q) : x = next  BY <2>1
  <2>3. q[x] \in Nat /\ q[n] \in Nat  BY <2>1, <2>2
  <2>4. PastEnd(q[x])  BY <1>1, <1>3, <2>1, <2>2
  <2>5. q[x] + 1 >= EndTime  BY <1>5, <2>3, <2>4 DEF PastEnd, Equal
  <2>6. x < n => q[x] < q[n]  BY <1>4, <2>1, <2>2
  <2> QED  BY <1>5, <2>2, <2>3, <2>5, <2>6
<1>9. TimesInv'
  <2>1. 1 \in 1 .. k  BY <1>6
  <2> QED  BY <1>1, <1>4, <1>5, <1>6, <1>7, <1>8, <2>1 DEF TimesInv
<1>10. PeriodsTypeOK'  BY <1>1, <1>7 DEF PeriodsInv, PeriodsTypeOK
<1>11. SeriesInv'
  <2>1. \A s : Checked(s)' <=> Checked(s)  BY <1>1, SameInput
  <2> QED  BY <1>1, <2>1 DEF PeriodsInv, SeriesInv, StartsAtZero
<1>12. PhaseInv' /\ LoopInv'  BY <1>1 DEF PhaseInv, LoopInv
<1>13. BlocksInv' /\ ValuesInv'  BY <1>1, <1>2, <1>7, NothingWritten
<1> QED  BY <1>9, <1>10, <1>11, <1>12, <1>13 DEF PeriodsInv

----------------------------------------------------------------------------
(* The values in force, and the blocks.                                    *)

\* Latest is the value of the last entry up to a time.
LEMMA LatestFacts ==
  ASSUME input \in Inputs, NEW s \in Series
  PROVE  /\ \A t \in Nat, p \in DOMAIN input.data[s] :
              /\ input.data[s][p].time <= t + 1
              /\ \A m \in DOMAIN input.data[s] :
                   input.data[s][m].time <= t + 1 => input.data[s][m].time <= input.data[s][p].time
              => Latest(s, t) = input.data[s][p].value
         /\ \A t \in Nat : (\A p \in DOMAIN input.data[s] : ~(input.data[s][p].time <= t + 1))
              => Latest(s, t) = 0
         /\ \A t, u \in Nat :
              (\A p \in DOMAIN input.data[s] :
                 input.data[s][p].time <= t + 1 <=> input.data[s][p].time <= u + 1)
              => Latest(s, t) = Latest(s, u)
<1> DEFINE e == input.data[s]
           U(t) == {n \in DOMAIN e : e[n].time <= t + 1}
           L(n, S) == \A m \in S : e[m].time <= e[n].time
<1>1. \A t : Latest(s, t) = IF U(t) = {} THEN 0 ELSE e[CHOOSE n \in U(t) : L(n, U(t))].value
  BY DEF Latest
<1>2. /\ \A n \in DOMAIN e : e[n].time \in Nat
      /\ \A m, n \in DOMAIN e : m # n => e[m].time + 2 < e[n].time \/ e[n].time + 2 < e[m].time
  BY DataFacts
<1> HIDE DEF e
<1>3. ASSUME NEW t \in Nat, NEW p \in DOMAIN e, e[p].time <= t + 1,
             \A m \in DOMAIN e : e[m].time <= t + 1 => e[m].time <= e[p].time
      PROVE  Latest(s, t) = e[p].value
  <2>1. p \in U(t) /\ L(p, U(t))  BY <1>3
  <2> DEFINE c == CHOOSE n \in U(t) : L(n, U(t))
  <2>2. c \in U(t) /\ L(c, U(t))  BY <2>1
  <2>3. c \in DOMAIN e /\ e[c].time <= e[p].time /\ e[p].time <= e[c].time  BY <1>3, <2>1, <2>2
  <2>4. Latest(s, t) = e[c].value  BY <1>1, <2>1
  <2> HIDE DEF c
  <2>5. e[c].time \in Nat /\ e[p].time \in Nat  BY <1>2, <2>3
  <2>6. c = p  BY <1>2, <2>3, <2>5
  <2> QED  BY <2>4, <2>6
<1>4. ASSUME NEW t \in Nat, \A p \in DOMAIN e : ~(e[p].time <= t + 1)
      PROVE  Latest(s, t) = 0
  <2>1. U(t) = {}  BY <1>4
  <2> QED  BY <1>1, <2>1
<1>5. ASSUME NEW t \in Nat, NEW u \in Nat,
             \A p \in DOMAIN e : e[p].time <= t + 1 <=> e[p].time <= u + 1
      PROVE  Latest(s, t) = Latest(s, u)
  <2>1. U(t) = U(u)  BY <1>5
  <2> HIDE DEF U
  <2> QED  BY <1>1, <2>1
<1> QED  BY <1>3, <1>4, <1>5 DEF e

\* What get_current_property_position finds is what the input gives at that time.
LEMMA FoundIsLatest ==
  ASSUME PeriodsInv, pc # "check", NEW s \in Shown, NEW t \in Nat,
         NEW p \in Positions(series[s], t)
  PROVE  series[s][p].value = Latest(s, t)
<1>1. s \in Series /\ Checked(s)  BY DEF Shown, Gathered
<1>2. input \in Inputs /\ Permuted(series[s], input.data[s])
  BY <1>1 DEF PeriodsInv, PeriodsTypeOK, SeriesInv
<1>3. p \in DOMAIN series[s] /\ Equal(t, series[s][p].time)  BY DEF Positions
<1> DEFINE e == input.data[s]
<1>4. PICK d \in DOMAIN e : series[s][p] = e[d]  BY <1>2, <1>3 DEF Permuted
<1>5. /\ \A n \in DOMAIN e : e[n].time \in Nat
      /\ \A m, n \in DOMAIN e : m # n => e[m].time + 2 < e[n].time \/ e[n].time + 2 < e[m].time
  BY <1>1, <1>2, DataFacts
<1>6. \A u \in Nat, q \in DOMAIN e :
        e[q].time <= u + 1 /\ (\A m \in DOMAIN e : e[m].time <= u + 1 => e[m].time <= e[q].time)
        => Latest(s, u) = e[q].value
  BY <1>1, <1>2, LatestFacts
<1> HIDE DEF e
<1>7. e[d].time \in Nat /\ t <= e[d].time + 1 /\ e[d].time <= t + 1
  BY <1>3, <1>4, <1>5 DEF Equal
<1>8. \A m \in DOMAIN e : e[m].time <= t + 1 => e[m].time <= e[d].time
  <2> SUFFICES ASSUME NEW m \in DOMAIN e, e[m].time <= t + 1, m # d
               PROVE e[m].time <= e[d].time
    BY <1>5
  <2>1. e[m].time + 2 < e[d].time \/ e[d].time + 2 < e[m].time  BY <1>5
  <2>2. e[m].time \in Nat  BY <1>5
  <2> QED  BY <1>7, <2>1, <2>2
<1> QED  BY <1>4, <1>6, <1>7, <1>8

\* It finds an entry that is equal to the time.
LEMMA EqualIsFound ==
  ASSUME PeriodsInv, pc # "check", NEW s \in Shown, NEW t \in Nat,
         NEW d \in DOMAIN input.data[s], Equal(t, input.data[s][d].time)
  PROVE  Positions(series[s], t) # {}
<1>1. s \in Series /\ Checked(s)  BY DEF Shown, Gathered
<1>2. /\ input \in Inputs /\ series[s] \in Seq(Entry) /\ Permuted(series[s], input.data[s])
      /\ InSpacedOrder(series[s])
  BY <1>1 DEF PeriodsInv, PeriodsTypeOK, SeriesInv
<1>3. PICK o \in Seq(Entry) : o = series[s]  BY <1>2
<1>4. \A n \in DOMAIN o : o[n].time \in Nat
  <2>1. \A n \in DOMAIN o : o[n] \in Entry  OBVIOUS
  <2> QED  BY <2>1 DEF Entry
<1>5. PICK p \in DOMAIN o : o[p] = input.data[s][d]  BY <1>2, <1>3 DEF Permuted
<1>6. Equal(t, o[p].time)  BY <1>5
<1>7. \A m \in 1 .. p-1 : ~Equal(t, o[m].time) /\ o[m].time <= t
  <2> SUFFICES ASSUME NEW m \in 1 .. p-1 PROVE ~Equal(t, o[m].time) /\ o[m].time <= t  OBVIOUS
  <2>1. m \in DOMAIN o /\ m < p  OBVIOUS
  <2>2. o[m].time + 2 < o[p].time  BY <1>2, <1>3, <2>1 DEF InSpacedOrder
  <2>3. o[m].time \in Nat /\ o[p].time \in Nat  BY <1>4, <2>1
  <2> QED  BY <1>6, <2>2, <2>3 DEF Equal
<1>8. p \in Positions(o, t)  BY <1>6, <1>7 DEF Positions
<1> QED  BY <1>3, <1>8

\* An entry lies at the beginning of a period or before it, or at its end or after it.
LEMMA NoChangeWithin ==
  ASSUME PeriodsInv, pc \in {"write", "thru"}, NEW s \in Gathered,
         NEW d \in DOMAIN input.data[s]
  PROVE  \A n \in DOMAIN times :
           input.data[s][d].time <= times[n] + 1 \/ PeriodEnd(n) <= input.data[s][d].time + 1
<1>1. input \in Inputs /\ s \in Series  BY DEF PeriodsInv, PeriodsTypeOK, Gathered
<1>2. PICK q \in Seq(Nat) : q = times  BY DEF PeriodsInv, PeriodsTypeOK
<1>3. PICK t \in Nat : t = input.data[s][d].time  BY <1>1, DataFacts
<1>4. t \in AllTimes  BY <1>3 DEF AllTimes, Times
<1>5. EndTime \in Nat  BY <1>1, EndTimeFacts
<1>6. /\ \A m, n \in DOMAIN q : m < n => q[m] + 1 < q[n]
      /\ t + 1 < EndTime => \E n \in DOMAIN q : q[n] <= t /\ t <= q[n] + 1
  BY <1>2, <1>4 DEF PeriodsInv, TimesInv
<1> SUFFICES ASSUME NEW n \in DOMAIN q, ~(t <= q[n] + 1) PROVE PeriodEnd(n) <= t + 1
  BY <1>2, <1>3
<1>7. n \in 1 .. Len(q) /\ Len(q) \in Nat /\ q[n] \in Nat  OBVIOUS
<1>8. CASE EndTime <= t + 1
  <2>1. CASE n < Len(q)
    <3>1. n + 1 \in DOMAIN q /\ q[n + 1] \in Nat  BY <1>7, <2>1
    <3>2. q[n + 1] + 1 < EndTime  BY <1>2, <3>1 DEF PeriodsInv, TimesInv
    <3>3. PeriodEnd(n) = q[n + 1]  BY <1>2, <2>1 DEF PeriodEnd
    <3> QED  BY <1>5, <1>8, <3>1, <3>2, <3>3
  <2>2. CASE ~(n < Len(q))
    <3>1. PeriodEnd(n) = EndTime  BY <1>2, <2>2 DEF PeriodEnd
    <3> QED  BY <1>8, <3>1
  <2> QED  BY <2>1, <2>2
<1>9. CASE ~(EndTime <= t + 1)
  <2>1. PICK m \in DOMAIN q : q[m] <= t /\ t <= q[m] + 1  BY <1>5, <1>6, <1>9
  <2>2. m \in 1 .. Len(q) /\ q[m] \in Nat  OBVIOUS
  <2>3. n < m
    <3>1. m # n  BY <2>1
    <3>2. m < n => q[m] + 1 < q[n]  BY <1>6
    <3> QED  BY <1>7, <2>1, <2>2, <3>1, <3>2
  <2>4. n + 1 \in DOMAIN q /\ q[n + 1] \in Nat /\ n < Len(q)  BY <1>7, <2>2, <2>3
  <2>5. q[n + 1] <= q[m]
    <3>1. n + 1 < m => q[n + 1] + 1 < q[m]  BY <1>6, <2>4
    <3>2. n + 1 = m \/ n + 1 < m  BY <1>7, <2>2, <2>3
    <3> QED  BY <2>2, <2>4, <3>1, <3>2
  <2>6. PeriodEnd(n) = q[n + 1]  BY <1>2, <2>4 DEF PeriodEnd
  <2> QED  BY <2>1, <2>2, <2>4, <2>5, <2>6
<1> QED  BY <1>8, <1>9

\* A sequence with one element more.
LEMMA Appended ==
  ASSUME NEW S, NEW q \in Seq(S), NEW x \in S
  PROVE  /\ Append(q, x) \in Seq(S) /\ Len(Append(q, x)) = Len(q) + 1
         /\ DOMAIN Append(q, x) = 1 .. Len(q) + 1
         /\ Append(q, x)[Len(q) + 1] = x /\ \A m \in 1 .. Len(q) : Append(q, x)[m] = q[m]
OBVIOUS

\* A value that is not renewed in the period after the last block is that of the period before.
LEMMA NotRenewedIsSame ==
  ASSUME PeriodsInv, pc = "write", NEW n \in Nat, n = Len(blocks) + 1,
         NEW s \in Shown, s \notin Renewed(times[n])
  PROVE  ValueIn(s, n) = ValueIn(s, n - 1)
<1>1. s \in Series /\ s \in Gathered /\ Looked(s) /\ Checked(s)  BY DEF Shown, Gathered
<1>2. input \in Inputs  BY DEF PeriodsInv, PeriodsTypeOK
<1>3. PICK q \in Seq(Nat) : q = times  BY DEF PeriodsInv, PeriodsTypeOK
<1>4. n \in DOMAIN q /\ n # 0
  <2>1. Len(blocks) \in Nat /\ Len(blocks) < Len(q)
    BY <1>3 DEF PeriodsInv, BlocksInv
  <2> QED  BY <1>3, <2>1
<1>5. PICK t \in Nat : t = q[n]  BY <1>4
<1>6. Positions(series[s], t) = {}  BY <1>1, <1>3, <1>5 DEF Renewed
<1> DEFINE e == input.data[s]
<1>7. \A d \in DOMAIN e : e[d].time \in Nat /\ ~Equal(t, e[d].time)
  <2>1. \A d \in DOMAIN e : e[d].time \in Nat  BY <1>1, <1>2, DataFacts
  <2>2. \A d \in DOMAIN e : ~Equal(t, e[d].time)  BY <1>6, EqualIsFound
  <2> QED  BY <2>1, <2>2
<1>8. ValueIn(s, n) = Latest(s, t)  BY <1>3, <1>4, <1>5 DEF ValueIn
<1>9. CASE n = 1
  <2>1. t = 0  BY <1>3, <1>5, <1>9 DEF PeriodsInv, TimesInv
  <2>2. \A d \in DOMAIN e : ~(e[d].time <= t + 1)
    <3> HIDE DEF e
    <3> QED  BY <1>7, <2>1 DEF Equal
  <2>3. Latest(s, t) = 0  BY <1>1, <1>2, <2>2, LatestFacts
  <2>4. ValueIn(s, n - 1) = 0  BY <1>9 DEF ValueIn
  <2> QED  BY <1>8, <2>3, <2>4
<1>10. CASE n # 1
  <2>1. n - 1 \in DOMAIN q /\ n - 1 # 0 /\ n - 1 < Len(q)  BY <1>4, <1>10
  <2>2. PICK u \in Nat : u = q[n - 1]  BY <2>1
  <2>3. PeriodEnd(n - 1) = t  BY <1>3, <1>4, <1>5, <2>1 DEF PeriodEnd
  <2>4. u + 1 < t
    <3>1. \A m, k \in DOMAIN q : m < k => q[m] + 1 < q[k]  BY <1>3 DEF PeriodsInv, TimesInv
    <3> QED  BY <1>4, <1>5, <2>1, <2>2, <3>1
  <2>5. \A d \in DOMAIN e : e[d].time <= t + 1 <=> e[d].time <= u + 1
    <3> SUFFICES ASSUME NEW d \in DOMAIN e PROVE e[d].time <= t + 1 <=> e[d].time <= u + 1
      OBVIOUS
    <3>1. e[d].time <= u + 1 \/ t <= e[d].time + 1  BY <1>1, <1>3, <2>1, <2>2, <2>3, NoChangeWithin
    <3> HIDE DEF e
    <3>2. e[d].time \in Nat /\ ~Equal(t, e[d].time)  BY <1>7
    <3> QED  BY <2>4, <3>1, <3>2 DEF Equal
  <2>6. Latest(s, t) = Latest(s, u)  BY <1>1, <1>2, <2>5, LatestFacts
  <2>7. ValueIn(s, n - 1) = Latest(s, u)  BY <1>3, <2>1, <2>2 DEF ValueIn
  <2> QED  BY <1>8, <2>6, <2>7
<1> QED  BY <1>9, <1>10

\* The value that is current in the period after the last block, and is in the block or was
\* so in the last.
LEMMA WritePeriodKeepsInv ==
  ASSUME PeriodsInv, WritePeriod
  PROVE  PeriodsInv'
<1>1. /\ pc = "write" /\ Len(blocks) < Len(times) /\ input' = input /\ series' = series
      /\ times' = times /\ kept' = kept /\ next' = next /\ read' = read /\ used' = used
  BY DEF WritePeriod
<1>2. /\ input \in Inputs /\ times \in Seq(Nat) /\ blocks \in Seq(BlockT) /\ read = 0
      /\ series \in [Series -> Seq(Entry)]
      /\ current \in [Series -> Nat] /\ used \in [Series -> Nat]
  BY <1>1 DEF PeriodsInv, PeriodsTypeOK, BlocksInv, ValuesInv
<1>3. PICK q \in Seq(Nat), b \in Seq(BlockT) : q = times /\ b = blocks  BY <1>2
<1>4. PICK n \in Nat : n = Len(b) + 1 /\ n \in 1 .. Len(q) /\ n \in DOMAIN q
  BY <1>1, <1>3
<1>5. PICK t \in Nat : t = q[n] /\ t = times[n]  BY <1>3, <1>4
<1> DEFINE data == [x \in {z \in Series : z.kind \in Lists => z.kind \in Defined(t)} |-> current'[x]]
           block == [timchg |-> PeriodEnd(n), data |-> data]
<1>6. /\ current' = [s \in Series |-> IF s \in Renewed(t) THEN ValueAt(s, t) ELSE current[s]]
      /\ blocks' = Append(b, block)
      /\ pc' = IF n = Len(q) THEN "thru" ELSE pc
  BY <1>3, <1>4, <1>5 DEF WritePeriod, PeriodEnd
<1>7. /\ EndTime' = EndTime /\ EndTime \in Nat /\ Shown' = Shown /\ AllTimes' = AllTimes
      /\ \A s : Values(s)' = Values(s) /\ (Checked(s)' <=> Checked(s))
      /\ \A s, u : Latest(s, u)' = Latest(s, u)
  BY <1>1, <1>2, SameInput, EndTimeFacts
<1>8. \A s, m : ValueIn(s, m)' = ValueIn(s, m)  BY <1>1, <1>7 DEF ValueIn
<1>9. \A m : PeriodEnd(m)' = PeriodEnd(m)  BY <1>1, <1>7 DEF PeriodEnd
<1>10. \A s \in Series : current[s] \in Values(s) /\ Values(s) \subseteq Nat
  <2> SUFFICES ASSUME NEW s \in Series PROVE current[s] \in Values(s) /\ Values(s) \subseteq Nat
    OBVIOUS
  <2>1. current[s] \in Values(s)  BY DEF PeriodsInv, PeriodsTypeOK, Values
  <2>2. Values(s) \subseteq Nat  BY <1>2, DataFacts DEF Values
  <2> QED  BY <2>1, <2>2
<1>11. \A s \in Renewed(t) :
         /\ s \in Series /\ ValueAt(s, t) \in Values(s)
         /\ s \in Shown => ValueAt(s, t) = ValueIn(s, n)
  <2> SUFFICES ASSUME NEW s \in Renewed(t)
               PROVE  /\ s \in Series /\ ValueAt(s, t) \in Values(s)
                      /\ s \in Shown => ValueAt(s, t) = ValueIn(s, n)
    OBVIOUS
  <2>1. s \in Series /\ Positions(series[s], t) # {}  BY DEF Renewed
  <2>2. PICK p \in Positions(series[s], t) : ValueAt(s, t) = series[s][p].value
    BY <2>1 DEF ValueAt
  <2>3. p \in DOMAIN series[s]  BY DEF Positions
  <2>4. PICK d \in DOMAIN input.data[s] : series[s][p] = input.data[s][d]
    BY <2>1, <2>3 DEF PeriodsInv, SeriesInv, Permuted
  <2>5. ValueAt(s, t) \in Values(s)  BY <2>2, <2>4 DEF Values
  <2>6. s \in Shown => ValueAt(s, t) = Latest(s, t)  BY <1>1, <2>2, FoundIsLatest
  <2>7. Latest(s, t) = ValueIn(s, n)  BY <1>4, <1>5 DEF ValueIn
  <2> QED  BY <2>1, <2>5, <2>6, <2>7
<1>12. \A s \in Series : current'[s] \in Values(s) /\ current'[s] \in Nat
  BY <1>6, <1>10, <1>11
<1>13. current' \in [Series -> Nat]  BY <1>6, <1>12
<1>14. \A s \in Shown :
         /\ s \in Series /\ current'[s] = ValueIn(s, n)
         /\ s \notin DOMAIN data => ValueIn(s, n) = ValueIn(s, n - 1)
  <2> SUFFICES ASSUME NEW s \in Shown
               PROVE  /\ s \in Series /\ current'[s] = ValueIn(s, n)
                      /\ s \notin DOMAIN data => ValueIn(s, n) = ValueIn(s, n - 1)
    OBVIOUS
  <2>1. s \in Series  BY DEF Shown, Gathered
  <2>2. s \notin Renewed(t) => ValueIn(s, n) = ValueIn(s, n - 1)
    BY <1>1, <1>3, <1>4, <1>5, NotRenewedIsSame
  <2>3. current[s] = ValueIn(s, n - 1)
    <3>1. current[s] = ValueIn(s, Len(blocks))  BY DEF PeriodsInv, ValuesInv
    <3>2. Len(blocks) = n - 1  BY <1>3, <1>4
    <3> QED  BY <3>1, <3>2
  <2>4. current'[s] = ValueIn(s, n)
    <3>1. CASE s \in Renewed(t)  BY <1>6, <1>11, <2>1, <3>1
    <3>2. CASE s \notin Renewed(t)  BY <1>6, <2>1, <2>2, <2>3, <3>2
    <3> QED  BY <3>1, <3>2
  <2>5. s \notin DOMAIN data => s \notin Renewed(t)
    <3>1. DOMAIN data = {z \in Series : z.kind \in Lists => z.kind \in Defined(t)}  OBVIOUS
    <3>2. s \in Renewed(t) /\ s.kind \in Lists => s.kind \in Defined(t)  BY DEF Defined
    <3> HIDE DEF data
    <3> QED  BY <2>1, <3>1, <3>2
  <2> HIDE DEF data
  <2> QED  BY <2>1, <2>2, <2>4, <2>5
<1>15. /\ DOMAIN data \in SUBSET Series /\ \A s \in DOMAIN data : data[s] = current'[s]
       /\ \A s \in Series : s.kind \notin Lists => s \in DOMAIN data
  OBVIOUS
<1>16. block \in BlockT /\ block.timchg = PeriodEnd(n) /\ block.data = data
  <2>1. data \in [DOMAIN data -> Nat]
    <3>1. \A s \in DOMAIN data : data[s] \in Nat  BY <1>12, <1>15
    <3> QED  BY <3>1
  <2>2. PeriodEnd(n) \in Nat
    <3>1. CASE n < Len(q)
      <4>1. n + 1 \in 1 .. Len(q)  BY <1>4, <3>1
      <4>2. q[n + 1] \in Nat  BY <4>1
      <4> QED  BY <1>3, <3>1, <4>2 DEF PeriodEnd
    <3>2. CASE ~(n < Len(q))  BY <1>3, <1>7, <3>2 DEF PeriodEnd
    <3> QED  BY <3>1, <3>2
  <2> HIDE DEF data
  <2>3. data \in UNION {[S -> Nat] : S \in SUBSET Series}  BY <1>15, <2>1
  <2> QED  BY <2>2, <2>3 DEF BlockT
<1> HIDE DEF data, block
<1>17. PICK c \in Seq(BlockT) :
         /\ c = blocks' /\ Len(c) = n /\ DOMAIN c = 1 .. n /\ c[n] = block
         /\ \A m \in 1 .. n - 1 : c[m] = b[m]
  <2> DEFINE z == Append(b, block)
  <2>1. /\ z \in Seq(BlockT) /\ Len(z) = Len(b) + 1 /\ DOMAIN z = 1 .. Len(b) + 1
        /\ z[Len(b) + 1] = block /\ \A m \in 1 .. Len(b) : z[m] = b[m]
    BY <1>16, Appended
  <2>2. z = blocks' /\ Len(b) + 1 = n /\ n - 1 = Len(b)  BY <1>4, <1>6
  <2> HIDE DEF z
  <2> QED  BY <2>1, <2>2
<1>18. /\ pc' \in {"write", "thru"} /\ (pc' = "write" => n < Len(q)) /\ (pc' = "thru" => n = Len(q))
  BY <1>1, <1>4, <1>6
<1>19. BlocksInv'
  <2>1. BlockT' = BlockT  BY DEF BlockT
  <2>2. ASSUME NEW m \in DOMAIN c
        PROVE  /\ c[m].timchg = PeriodEnd(m)
               /\ \A s \in Series : s.kind \notin Lists => s \in DOMAIN c[m].data
               /\ \A s \in DOMAIN c[m].data : c[m].data[s] \in Values(s)
               /\ \A s \in Shown :
                    IF s \in DOMAIN c[m].data THEN c[m].data[s] = ValueIn(s, m)
                    ELSE ValueIn(s, m) = ValueIn(s, m - 1)
    <3>1. CASE m = n
      <4>1. c[m] = block  BY <1>17, <3>1
      <4>2. \A s \in DOMAIN data : data[s] \in Values(s)  BY <1>12, <1>15
      <4>3. \A s \in Shown : IF s \in DOMAIN data THEN data[s] = ValueIn(s, n)
                             ELSE ValueIn(s, n) = ValueIn(s, n - 1)
        BY <1>14, <1>15
      <4> QED  BY <1>15, <1>16, <3>1, <4>1, <4>2, <4>3
    <3>2. CASE m # n
      <4>1. m \in 1 .. n - 1 /\ DOMAIN b = 1 .. n - 1  BY <1>4, <1>17, <3>2
      <4>2. m \in DOMAIN b /\ c[m] = b[m]  BY <1>17, <4>1
      <4> QED  BY <1>3, <4>2 DEF PeriodsInv, BlocksInv
    <3> QED  BY <3>1, <3>2
  <2>3. n <= Len(q)  BY <1>4
  <2>4. \A m \in DOMAIN blocks' :
          /\ blocks'[m].timchg = PeriodEnd(m)'
          /\ \A s \in Series : s.kind \notin Lists => s \in DOMAIN blocks'[m].data
          /\ \A s \in DOMAIN blocks'[m].data : blocks'[m].data[s] \in Values(s)'
          /\ \A s \in Shown' :
               IF s \in DOMAIN blocks'[m].data THEN blocks'[m].data[s] = ValueIn(s, m)'
               ELSE ValueIn(s, m)' = ValueIn(s, m - 1)'
    BY <1>7, <1>8, <1>9, <1>17, <2>2
  <2> HIDE DEF BlockT
  <2>5. blocks' \in Seq(BlockT') /\ Len(blocks') = n /\ times' = q /\ read' = 0
    BY <1>1, <1>2, <1>3, <1>17, <2>1
  <2> QED  BY <1>18, <2>3, <2>4, <2>5 DEF BlocksInv
<1>20. ValuesInv'
  <2>1. Len(blocks') = n  BY <1>17
  <2>2. \A s \in Shown : used[s] = ValueIn(s, read)  BY DEF PeriodsInv, ValuesInv
  <2>3. \A s \in Shown' : current'[s] = ValueIn(s, Len(blocks))' /\ used'[s] = ValueIn(s, read)'
    <3>1. \A s : ValueIn(s, Len(blocks))' = ValueIn(s, n) /\ ValueIn(s, read)' = ValueIn(s, read)
      BY <1>1, <1>7, <2>1 DEF ValueIn
    <3> QED  BY <1>1, <1>7, <1>14, <2>2, <3>1
  <2> QED  BY <1>1, <1>2, <1>13, <2>3 DEF ValuesInv
<1>21. PeriodsTypeOK'
  <2>1. read' \in 0 .. Len(blocks')  BY <1>1, <1>2, <1>4, <1>17
  <2>2. \A s \in Series : current'[s] \in Values(s) /\ used[s] \in Values(s)
    BY <1>12 DEF PeriodsInv, PeriodsTypeOK, Values
  <2>3. \A s \in Series : {current'[s], used'[s]} \subseteq
            {0} \cup {input'.data[s][m].value : m \in DOMAIN input'.data[s]}
    BY <1>1, <2>2 DEF Values
  <2> QED  BY <1>1, <1>18, <2>1, <2>3 DEF PeriodsInv, PeriodsTypeOK
<1>22. SeriesInv'  BY <1>1, <1>7, <1>18 DEF PeriodsInv, SeriesInv, StartsAtZero
<1>23. PhaseInv' /\ LoopInv'  BY <1>18 DEF PhaseInv, LoopInv
<1>24. TimesInv'  BY <1>1, <1>7, <1>18 DEF PeriodsInv, TimesInv
<1> QED  BY <1>19, <1>20, <1>21, <1>22, <1>23, <1>24 DEF PeriodsInv

\* The simulator has what it had and what the block gives it.
LEMMA Read3KeepsInv ==
  ASSUME PeriodsInv, Read3
  PROVE  PeriodsInv'
<1>1. /\ pc = "thru" /\ read < Len(blocks) /\ read' = read + 1 /\ pc' = pc
      /\ input' = input /\ series' = series /\ times' = times /\ kept' = kept /\ next' = next
      /\ current' = current /\ blocks' = blocks
  BY DEF Read3
<1>2. /\ input \in Inputs /\ blocks \in Seq(BlockT) /\ read \in 0 .. Len(blocks)
      /\ current \in [Series -> Nat] /\ used \in [Series -> Nat]
  BY DEF PeriodsInv, PeriodsTypeOK, BlocksInv, ValuesInv
<1>3. PICK n \in Nat : n = read + 1 /\ n \in DOMAIN blocks
  <2>1. PICK b \in Seq(BlockT) : b = blocks  BY <1>2
  <2>2. read + 1 \in 1 .. Len(b)  BY <1>1, <1>2, <2>1
  <2> QED  BY <2>1, <2>2
<1>4. used' = [s \in Series |-> IF s \in DOMAIN blocks[n].data THEN blocks[n].data[s] ELSE used[s]]
  BY <1>3 DEF Read3
<1>5. /\ EndTime' = EndTime /\ Shown' = Shown /\ AllTimes' = AllTimes
      /\ \A s : Values(s)' = Values(s) /\ (Checked(s)' <=> Checked(s))
      /\ \A s, u : Latest(s, u)' = Latest(s, u)
  BY <1>1, SameInput
<1>6. \A s, m : ValueIn(s, m)' = ValueIn(s, m)  BY <1>1, <1>5 DEF ValueIn
<1>7. \A m : PeriodEnd(m)' = PeriodEnd(m)  BY <1>1, <1>5 DEF PeriodEnd
<1>8. /\ \A s \in DOMAIN blocks[n].data : blocks[n].data[s] \in Values(s)
      /\ \A s \in Shown : IF s \in DOMAIN blocks[n].data THEN blocks[n].data[s] = ValueIn(s, n)
                          ELSE ValueIn(s, n) = ValueIn(s, n - 1)
  BY <1>3 DEF PeriodsInv, BlocksInv
<1>9. \A s \in Series : used'[s] \in Values(s) /\ Values(s) \subseteq Nat /\ current[s] \in Values(s)
  <2> SUFFICES ASSUME NEW s \in Series
               PROVE used'[s] \in Values(s) /\ Values(s) \subseteq Nat /\ current[s] \in Values(s)
    OBVIOUS
  <2>1. used[s] \in Values(s) /\ current[s] \in Values(s)
    BY DEF PeriodsInv, PeriodsTypeOK, Values
  <2>2. Values(s) \subseteq Nat  BY <1>2, DataFacts DEF Values
  <2>3. used'[s] \in Values(s)  BY <1>4, <1>8, <2>1
  <2> QED  BY <2>1, <2>2, <2>3
<1>10. used' \in [Series -> Nat]  BY <1>4, <1>9
<1>11. \A s \in Shown : used'[s] = ValueIn(s, n)
  <2> SUFFICES ASSUME NEW s \in Shown PROVE used'[s] = ValueIn(s, n)  OBVIOUS
  <2>1. s \in Series  BY DEF Shown, Gathered
  <2>2. used[s] = ValueIn(s, n - 1)
    <3>1. used[s] = ValueIn(s, read)  BY DEF PeriodsInv, ValuesInv
    <3>2. read = n - 1  BY <1>2, <1>3
    <3> QED  BY <3>1, <3>2
  <2> QED  BY <1>4, <1>8, <2>1, <2>2
<1>12. ValuesInv'
  <2>1. \A s : ValueIn(s, Len(blocks))' = ValueIn(s, Len(blocks)) /\ ValueIn(s, read)' = ValueIn(s, n)
    BY <1>1, <1>3, <1>5 DEF ValueIn
  <2>2. \A s \in Shown : current[s] = ValueIn(s, Len(blocks))  BY DEF PeriodsInv, ValuesInv
  <2> QED  BY <1>1, <1>2, <1>5, <1>10, <1>11, <2>1, <2>2 DEF ValuesInv
<1>13. PeriodsTypeOK'
  <2>1. PICK b \in Seq(BlockT) : b = blocks  BY <1>2
  <2>2. read' \in 0 .. Len(blocks')  BY <1>1, <1>2, <2>1
  <2>3. \A s \in Series : {current'[s], used'[s]} \subseteq
            {0} \cup {input'.data[s][m].value : m \in DOMAIN input'.data[s]}
    BY <1>1, <1>9 DEF Values
  <2> QED  BY <1>1, <2>2, <2>3 DEF PeriodsInv, PeriodsTypeOK
<1>14. SeriesInv'  BY <1>1, <1>5 DEF PeriodsInv, SeriesInv, StartsAtZero
<1>15. PhaseInv' /\ LoopInv'  BY <1>1 DEF PhaseInv, LoopInv
<1>16. TimesInv'  BY <1>1, <1>5 DEF PeriodsInv, TimesInv
<1>17. BlocksInv'
  <2>1. BlockT' = BlockT  BY DEF BlockT
  <2> HIDE DEF BlockT
  <2> QED  BY <1>1, <1>2, <1>5, <1>6, <1>7, <2>1 DEF PeriodsInv, BlocksInv
<1> QED  BY <1>12, <1>13, <1>14, <1>15, <1>16, <1>17 DEF PeriodsInv

\* A step that changes nothing keeps the invariant.
LEMMA NothingKeepsPeriodsInv ==
  ASSUME PeriodsInv, UNCHANGED periodsVars
  PROVE  PeriodsInv'
<1>1. /\ input' = input /\ pc' = pc /\ series' = series /\ times' = times /\ kept' = kept
      /\ next' = next /\ current' = current /\ blocks' = blocks /\ read' = read /\ used' = used
  BY DEF periodsVars
<1>2. /\ EndTime' = EndTime /\ Shown' = Shown /\ AllTimes' = AllTimes
      /\ \A s : Values(s)' = Values(s) /\ (Checked(s)' <=> Checked(s))
      /\ \A s, u : Latest(s, u)' = Latest(s, u)
  BY <1>1, SameInput
<1>3. /\ \A s, m : ValueIn(s, m)' = ValueIn(s, m)
      /\ \A m : PeriodEnd(m)' = PeriodEnd(m)
      /\ BlockT' = BlockT
  BY <1>1, <1>2 DEF ValueIn, PeriodEnd, BlockT
<1>4. PeriodsTypeOK' /\ SeriesInv'
  BY <1>1, <1>2 DEF PeriodsInv, PeriodsTypeOK, SeriesInv, StartsAtZero
<1>5. PhaseInv' /\ LoopInv' /\ TimesInv'
  BY <1>1, <1>2 DEF PeriodsInv, PhaseInv, LoopInv, TimesInv
<1>6. BlocksInv' /\ ValuesInv'
  <2>1. \A s : ValueIn(s, Len(blocks))' = ValueIn(s, Len(blocks)) /\ ValueIn(s, read)' = ValueIn(s, read)
    BY <1>1, <1>2 DEF ValueIn
  <2> QED  BY <1>1, <1>2, <1>3, <2>1 DEF PeriodsInv, BlocksInv, ValuesInv
<1> QED  BY <1>4, <1>5, <1>6 DEF PeriodsInv

\* The invariant is inductive.
LEMMA PeriodsNextKeepsInv == PeriodsInv /\ [PeriodsNext]_periodsVars => PeriodsInv'
BY CheckSeriesKeepsInv, GatherKeepsInv, KeepTimeKeepsInv, EndUniqueKeepsInv, WritePeriodKeepsInv,
   Read3KeepsInv, NothingKeepsPeriodsInv DEF PeriodsNext

\* Whatever time series the input has, phastinput and the simulator keep the invariant.
THEOREM PeriodsInvariant == PeriodsSpec => []PeriodsInv
BY InitPeriodsInv, PeriodsNextKeepsInv, PTL DEF PeriodsSpec

\* The variables have their types.
THEOREM PeriodsTypeCorrect == PeriodsSpec => []PeriodsTypeOK
BY PeriodsInvariant, PTL DEF PeriodsInv

\* Once the blocks are written, the invariant says how they join.
LEMMA PeriodsJoinHolds == PeriodsInv => PeriodsJoin
<1> SUFFICES ASSUME PeriodsInv, pc = "thru"
             PROVE  /\ times[1] = 0 /\ Len(blocks) = Len(times)
                    /\ \A n \in DOMAIN blocks :
                         /\ blocks[n].timchg = IF n < Len(times) THEN times[n + 1] ELSE EndTime
                         /\ times[n] + 1 < blocks[n].timchg
  BY DEF PeriodsJoin
<1>1. PICK q \in Seq(Nat) : q = times  BY DEF PeriodsInv, PeriodsTypeOK
<1>2. PICK b \in Seq(BlockT) : b = blocks  BY DEF PeriodsInv, BlocksInv
<1>3. q[1] = 0 /\ Len(b) = Len(q)  BY <1>1, <1>2 DEF PeriodsInv, TimesInv, BlocksInv
<1>4. ASSUME NEW n \in DOMAIN b
      PROVE  /\ b[n].timchg = IF n < Len(q) THEN q[n + 1] ELSE EndTime
             /\ q[n] + 1 < b[n].timchg
  <2>1. b[n].timchg = IF n < Len(q) THEN q[n + 1] ELSE EndTime
    BY <1>1, <1>2 DEF PeriodsInv, BlocksInv, PeriodEnd
  <2>2. n \in DOMAIN q /\ n \in 1 .. Len(q)  BY <1>3
  <2>3. q[n] + 1 < EndTime  BY <1>1, <2>2 DEF PeriodsInv, TimesInv
  <2>4. CASE n < Len(q)
    <3>1. n + 1 \in DOMAIN q /\ n < n + 1  BY <2>2, <2>4
    <3>2. q[n] + 1 < q[n + 1]  BY <1>1, <2>2, <3>1 DEF PeriodsInv, TimesInv
    <3> QED  BY <2>1, <2>4, <3>2
  <2>5. CASE ~(n < Len(q))  BY <2>1, <2>3, <2>5
  <2> QED  BY <2>1, <2>4, <2>5
<1> QED  BY <1>1, <1>2, <1>3, <1>4

\* For any series and ends, the periods follow each other from zero to the last end, and
\* none is so short that its ends count as the same time.
THEOREM PeriodsAreJoined == PeriodsSpec => []PeriodsJoin
BY PeriodsInvariant, PeriodsJoinHolds, PTL

\* What the simulator has read is what holds at the beginning of its period and all through it.
LEMMA FollowsHolds == PeriodsInv => SimulatorFollowsSeries
<1> SUFFICES ASSUME PeriodsInv, NEW s \in Gathered, Looked(s), Checked(s), read > 0
             PROVE  /\ used[s] = Latest(s, times[read])
                    /\ \A n \in DOMAIN input.data[s] :
                         \/ input.data[s][n].time <= times[read] + 1
                         \/ input.data[s][n].time >= blocks[read].timchg - 1
  BY DEF SimulatorFollowsSeries, Follows
<1>1. s \in Shown /\ s \in Series  BY DEF Shown, Gathered
<1>2. pc = "thru" /\ input \in Inputs
  <2>1. pc # "thru" => read = 0  BY DEF PeriodsInv, BlocksInv
  <2> QED  BY <2>1 DEF PeriodsInv, PeriodsTypeOK
<1>3. used[s] = Latest(s, times[read])
  <2>1. used[s] = ValueIn(s, read)  BY <1>1 DEF PeriodsInv, ValuesInv
  <2> QED  BY <2>1 DEF ValueIn
<1>4. PICK q \in Seq(Nat), b \in Seq(BlockT) : q = times /\ b = blocks
  BY DEF PeriodsInv, PeriodsTypeOK, BlocksInv
<1>5. PICK n \in Nat : n = read /\ n \in DOMAIN b /\ n \in DOMAIN q
  <2>1. read \in 1 .. Len(b)  BY <1>4 DEF PeriodsInv, PeriodsTypeOK
  <2>2. Len(b) = Len(q)  BY <1>2, <1>4 DEF PeriodsInv, BlocksInv
  <2> QED  BY <2>1, <2>2
<1>6. b[n].timchg = PeriodEnd(n) /\ b[n].timchg \in Nat
  <2>1. b[n].timchg = PeriodEnd(n)  BY <1>4, <1>5 DEF PeriodsInv, BlocksInv
  <2>2. b[n] \in BlockT  BY <1>5
  <2>3. b[n].timchg \in Nat  BY <2>2 DEF BlockT
  <2> QED  BY <2>1, <2>3
<1>7. ASSUME NEW d \in DOMAIN input.data[s]
      PROVE  input.data[s][d].time <= q[n] + 1 \/ input.data[s][d].time >= b[n].timchg - 1
  <2>1. input.data[s][d].time <= q[n] + 1 \/ PeriodEnd(n) <= input.data[s][d].time + 1
    BY <1>2, <1>4, <1>5, NoChangeWithin
  <2>2. input.data[s][d].time \in Nat  BY <1>1, <1>2, DataFacts
  <2> QED  BY <1>6, <2>1, <2>2
<1> QED  BY <1>3, <1>4, <1>5, <1>7

\* For any series and ends, no change is lost on the way through the blocks, in which only
\* the lists that change are written, and none comes within a period.
THEOREM ChangesAreInForce == PeriodsSpec => []SimulatorFollowsSeries
BY PeriodsInvariant, FollowsHolds, PTL

----------------------------------------------------------------------------
(* The simulation.                                                         *)

\* The block the simulator is in has begun, and its end is the time to read the next.
InBlock ==
  /\ read = 0 => timchg = 0
  /\ read > 0 => times[read] <= time /\ timchg = blocks[read].timchg

SimulationInv == IInv /\ PeriodsInv /\ InBlock

\* A step of the simulation is one of the parts, or of both.
LEMMA StepsOfParts ==
  [SimulationNext]_simulationVars => [Next]_vars /\ [PeriodsNext]_periodsVars
BY DEF SimulationNext, simulationVars, Prepare, ReadBlock, ReadThru, Advance, Next, PeriodsNext

\* Each part does, in the simulation, what its own specification says: phastinput does not
\* see the simulator, and the file is one of the inputs TimeStepping allows for.
THEOREM PartsAreImplemented == SimulationSpec => Init /\ [][Next]_vars /\ PeriodsSpec
BY StepsOfParts, PTL DEF SimulationSpec, SimulationInit, PeriodsSpec

\* The block that is read next begins where the one before it ends.
LEMMA NextBlock ==
  ASSUME SimulationInv, pc = "thru", read < Len(blocks)
  PROVE  /\ read \in Nat /\ times[read + 1] \in Nat /\ blocks[read + 1].timchg \in Nat
         /\ timchg <= times[read + 1] /\ times[read + 1] + 1 < blocks[read + 1].timchg
         /\ blocks[read + 1].timchg <= EndTime /\ EndTime \in Nat
         /\ read = 0 => times[read + 1] = 0
         /\ read > 0 => times[read + 1] = timchg
<1>1. PICK q \in Seq(Nat), b \in Seq(BlockT) : q = times /\ b = blocks
  BY DEF SimulationInv, PeriodsInv, PeriodsTypeOK, BlocksInv
<1>2. PICK n \in Nat : n = read /\ n + 1 \in DOMAIN b /\ n + 1 \in DOMAIN q /\ n < Len(q)
  <2>1. read \in 0 .. Len(b) /\ read < Len(b)  BY <1>1 DEF SimulationInv, PeriodsInv, PeriodsTypeOK
  <2>2. Len(b) = Len(q)  BY <1>1 DEF SimulationInv, PeriodsInv, BlocksInv
  <2> QED  BY <2>1, <2>2
<1>3. /\ q[1] = 0 /\ q[n + 1] + 1 < b[n + 1].timchg
      /\ \A m \in DOMAIN b : b[m].timchg = IF m < Len(q) THEN q[m + 1] ELSE EndTime
  BY <1>1, <1>2, PeriodsJoinHolds DEF SimulationInv, PeriodsJoin
<1>4. q[n + 1] \in Nat /\ b[n + 1].timchg \in Nat
  <2>1. b[n + 1] \in BlockT  BY <1>2
  <2> QED  BY <1>2, <2>1 DEF BlockT
<1>5. EndTime \in Nat  BY EndTimeFacts DEF SimulationInv, PeriodsInv, PeriodsTypeOK
<1>6. b[n + 1].timchg <= EndTime
  <2>1. CASE n + 1 < Len(q)
    <3>1. n + 2 \in DOMAIN q /\ q[n + 2] \in Nat  BY <1>2, <2>1
    <3>2. q[n + 2] + 1 < EndTime  BY <1>1, <3>1 DEF SimulationInv, PeriodsInv, TimesInv
    <3>3. b[n + 1].timchg = q[(n + 1) + 1]  BY <1>2, <1>3, <2>1
    <3>4. (n + 1) + 1 = n + 2  OBVIOUS
    <3> QED  BY <1>5, <3>1, <3>2, <3>3, <3>4
  <2>2. CASE ~ (n + 1 < Len(q))  BY <1>2, <1>3, <1>5, <2>2
  <2> QED  BY <2>1, <2>2
<1>7. n = 0 => timchg = 0 /\ q[n + 1] = 0
  BY <1>2, <1>3 DEF SimulationInv, InBlock
<1>8. n > 0 => timchg = q[n + 1]
  <2> SUFFICES ASSUME n > 0 PROVE timchg = q[n + 1]  OBVIOUS
  <2>1. n \in DOMAIN b  BY <1>2
  <2>2. timchg = b[n].timchg  BY <1>1, <1>2 DEF SimulationInv, InBlock
  <2> QED  BY <1>2, <1>3, <2>1, <2>2
<1> QED  BY <1>1, <1>2, <1>3, <1>4, <1>5, <1>6, <1>7, <1>8

\* The invariant holds at first.
LEMMA InitSimulationInv == SimulationInit => SimulationInv
<1> SUFFICES ASSUME SimulationInit PROVE SimulationInv  OBVIOUS
<1>1. IInv /\ PeriodsInv  BY InitIInv, InitPeriodsInv DEF SimulationInit
<1>2. read = 0 /\ timchg = 0  BY DEF SimulationInit, Init, PeriodsInit
<1> QED  BY <1>1, <1>2 DEF SimulationInv, InBlock

\* The invariant is inductive.
LEMMA SimulationNextKeepsInv ==
  SimulationInv /\ [SimulationNext]_simulationVars => SimulationInv'
<1> SUFFICES ASSUME SimulationInv, [SimulationNext]_simulationVars PROVE SimulationInv'
  OBVIOUS
<1>1. IInv' /\ PeriodsInv'
  BY StepsOfParts, NextKeepsIInv, PeriodsNextKeepsInv DEF SimulationInv
<1>2. time \in Nat /\ timchg \in Nat
  BY TimesAssumption DEF SimulationInv, IInv, TypeOK
<1>3. CASE Prepare
  <2>1. pc # "thru" /\ read' = read /\ timchg' = timchg
    BY <1>3 DEF Prepare, CheckSeries, Gather, KeepTime, EndUnique, WritePeriod, vars
  <2>2. read = 0  BY <2>1 DEF SimulationInv, PeriodsInv, BlocksInv
  <2>3. InBlock'  BY <2>1, <2>2 DEF SimulationInv, InBlock
  <2> QED  BY <1>1, <2>3 DEF SimulationInv
<1>4. CASE ReadBlock
  <2>1. /\ pc = "thru" /\ read < Len(blocks) /\ read' = read + 1 /\ times' = times
        /\ blocks' = blocks /\ time' = time /\ time >= timchg /\ timchg' = blocks[read + 1].timchg
    BY <1>4 DEF ReadBlock, ReadPeriod, Read3
  <2>2. /\ read \in Nat /\ (read = 0 => times[read + 1] = 0)
        /\ read > 0 => times[read + 1] = timchg
    BY <2>1, NextBlock
  <2>3. times[read + 1] <= time  BY <1>2, <2>1, <2>2
  <2>4. InBlock'  BY <2>1, <2>2, <2>3 DEF InBlock
  <2> QED  BY <1>1, <2>4 DEF SimulationInv
<1>5. CASE ReadThru \/ Advance \/ UNCHANGED simulationVars
  <2>1. read' = read /\ times' = times /\ blocks' = blocks
    BY <1>5 DEF ReadThru, Advance, simulationVars, periodsVars
  <2>2. timchg' = timchg /\ (time' = time \/ (phase = "step" /\ time' = time + deltim))
    BY <1>5 DEF ReadThru, Advance, simulationVars, vars, ReadEnd, FlowFails, Timestep,
                TransportFails, EndOfStep
  <2>3. phase = "step" => deltim > 0 /\ deltim \in Int
    BY DEF SimulationInv, IInv, StepEnds, TypeOK
  <2>4. time <= time' /\ time' \in Int  BY <1>2, <2>2, <2>3
  <2>5. read > 0 => times[read] <= time'
    <3> SUFFICES ASSUME read > 0 PROVE times[read] <= time'  OBVIOUS
    <3>1. times[read] <= time  BY DEF SimulationInv, InBlock
    <3>2. times[read] \in Nat
      <4>1. PICK q \in Seq(Nat) : q = times  BY DEF SimulationInv, PeriodsInv, PeriodsTypeOK
      <4>2. PICK b \in Seq(BlockT) : b = blocks  BY DEF SimulationInv, PeriodsInv, BlocksInv
      <4>3. read \in 1 .. Len(b) /\ Len(b) <= Len(q)
        BY <4>1, <4>2 DEF SimulationInv, PeriodsInv, PeriodsTypeOK, BlocksInv
      <4>4. read \in DOMAIN q  BY <4>3
      <4> QED  BY <4>1, <4>4
    <3> QED  BY <1>2, <2>4, <3>1, <3>2
  <2>6. InBlock'  BY <2>1, <2>2, <2>5 DEF SimulationInv, InBlock
  <2> QED  BY <1>1, <2>6 DEF SimulationInv
<1> QED  BY <1>3, <1>4, <1>5 DEF SimulationNext

\* From the input file to the end of the simulation the invariant is kept.
THEOREM SimulationInvariant == SimulationSpec => []SimulationInv
BY InitSimulationInv, SimulationNextKeepsInv, PTL DEF SimulationSpec

\* A time step that is given at time zero has a length at all times.
LEMMA LengthIsGiven ==
  ASSUME PeriodsInv, pc = "thru", NEW t \in Nat
  PROVE  TimeStep \in Shown /\ Latest(TimeStep, t) \in Lengths
<1>1. input \in Inputs  BY DEF PeriodsInv, PeriodsTypeOK
<1>2. TimeStep \in Series /\ TimeStep.kind = "time_step" /\ input.data[TimeStep] # <<>>
  <2>1. PICK s \in Series : s.kind = "time_step" /\ input.data[s] # <<>>
    BY <1>1, BeginAssumption
  <2> QED  BY <2>1, OneTimeStepAssumption
<1>3. TimeStep \in Shown /\ Checked(TimeStep) /\ StartsAtZero(TimeStep)
  BY <1>2 DEF Shown, Gathered, Looked, Checked, StartsAtZero, Lists, BoundaryKinds
<1> DEFINE e == input.data[TimeStep]
           S == {u \in Times(e) : u <= t + 1}
<1>4. /\ e \in Seq(Entry) /\ \A n \in DOMAIN e : e[n].time \in Nat /\ e[n].value \in Lengths
      /\ \A m, n \in DOMAIN e : m # n => e[m].time + 2 < e[n].time \/ e[n].time + 2 < e[m].time
  BY <1>1, <1>2, DataFacts, PeriodsAssumption, FileAssumption
<1>5. Permuted(series[TimeStep], e) /\ series[TimeStep] \in Seq(Entry)
  BY <1>2 DEF PeriodsInv, PeriodsTypeOK, SeriesInv
<1>6. \E n \in DOMAIN e : e[n].time = 0
  <2>1. PICK o \in Seq(Entry) : o = series[TimeStep]  BY <1>5
  <2>2. PICK x \in DOMAIN e : TRUE
    <3> HIDE DEF e
    <3> QED  BY <1>2, <1>4 DEF e
  <2>3. 1 \in DOMAIN o
    <3>1. PICK n \in DOMAIN o : o[n] = e[x]  BY <1>5, <2>1, <2>2 DEF Permuted
    <3> QED  BY <3>1
  <2>4. o # <<>>  BY <2>3
  <2>5. o[1].time = 0  BY <1>2, <1>3, <2>1, <2>4 DEF PeriodsInv, SeriesInv
  <2>6. PICK m \in DOMAIN e : o[1] = e[m]  BY <1>5, <2>1, <2>3 DEF Permuted
  <2> QED  BY <2>5, <2>6
<1> HIDE DEF e
<1>7. Times(e) \in SUBSET Nat /\ IsFiniteSet(Times(e))  BY <1>4, TimesOfSpaced
<1>8. S \in SUBSET Nat /\ IsFiniteSet(S) /\ S # {}
  <2>1. S \in SUBSET Times(e)  OBVIOUS
  <2>2. 0 \in S  BY <1>6, <1>7 DEF Times
  <2> QED  BY <1>7, <2>1, <2>2, FS_Subset
<1>9. PICK u \in S : \A v \in S : v <= u
  <2> HIDE DEF S
  <2> QED  BY <1>8, LastOfTimes
<1>10. PICK n \in DOMAIN e : e[n].time = u /\ u <= t + 1  BY <1>9 DEF Times
<1>11. \A m \in DOMAIN e : e[m].time <= t + 1 => e[m].time <= e[n].time
  BY <1>9, <1>10 DEF Times
<1>12. Latest(TimeStep, t) = e[n].value  BY <1>1, <1>2, <1>10, <1>11, LatestFacts DEF e
<1> QED  BY <1>3, <1>4, <1>12

\* The end of a block and its length of a time step are among those TimeStepping allows for.
LEMMA BlocksFitHolds == SimulationInv => BlocksFit
<1> SUFFICES ASSUME SimulationInv, pc = "thru", read < Len(blocks)
             PROVE  /\ blocks[read + 1].timchg \in Ends /\ timchg < blocks[read + 1].timchg
                    /\ TimeStep \in DOMAIN blocks[read + 1].data
                    /\ blocks[read + 1].data[TimeStep] \in Lengths
  BY DEF BlocksFit
<1>1. /\ read \in Nat /\ times[read + 1] \in Nat /\ blocks[read + 1].timchg \in Nat
      /\ timchg <= times[read + 1] /\ times[read + 1] + 1 < blocks[read + 1].timchg
      /\ blocks[read + 1].timchg <= EndTime /\ EndTime \in Nat
  BY NextBlock
<1>2. PeriodsInv /\ input \in Inputs /\ timchg \in Nat
  BY TimesAssumption DEF SimulationInv, PeriodsInv, PeriodsTypeOK, IInv, TypeOK
<1>3. blocks[read + 1].timchg \in Ends
  <2>1. EndTime \in input.ends
    BY <1>2, EndTimeFacts
  <2>2. blocks[read + 1].timchg \in 1 .. EndTime  BY <1>1
  <2> QED  BY <1>2, <2>1, <2>2, FileAssumption
<1>4. TimeStep \in Shown /\ Latest(TimeStep, times[read + 1]) \in Lengths
  BY <1>1, <1>2, LengthIsGiven
<1>5. TimeStep.kind \notin Lists /\ TimeStep \in Series
  <2>1. PICK s \in Series : s.kind = "time_step"  BY <1>2, BeginAssumption
  <2>2. TimeStep = s  BY <2>1, OneTimeStepAssumption
  <2> QED  BY <2>1, <2>2 DEF Lists, BoundaryKinds
<1>6. read + 1 \in DOMAIN blocks
  <2>1. PICK b \in Seq(BlockT) : b = blocks  BY <1>2 DEF PeriodsInv, BlocksInv
  <2> QED  BY <1>1, <2>1
<1>7. TimeStep \in DOMAIN blocks[read + 1].data
  BY <1>2, <1>5, <1>6 DEF PeriodsInv, BlocksInv
<1>8. blocks[read + 1].data[TimeStep] = ValueIn(TimeStep, read + 1)
  BY <1>2, <1>4, <1>6, <1>7 DEF PeriodsInv, BlocksInv
<1>9. ValueIn(TimeStep, read + 1) = Latest(TimeStep, times[read + 1])
  BY <1>1 DEF ValueIn
<1> QED  BY <1>1, <1>2, <1>3, <1>4, <1>7, <1>8, <1>9

\* phastinput never writes a block that the simulator could not take: each ends after the
\* one before it, and has the length of a time step.
THEOREM BlocksAlwaysFit == SimulationSpec => []BlocksFit
BY SimulationInvariant, BlocksFitHolds, PTL

\* A step lies in the period that was read, so nothing changes in it.
LEMMA DataInForceHolds == SimulationInv => DataInForce
<1> SUFFICES ASSUME SimulationInv, phase = "step", ~ failed,
                    NEW s \in Gathered, Looked(s), Checked(s),
                    NEW t \in time .. time + deltim - 3
             PROVE  used[s] = Latest(s, t)
  BY DEF DataInForce
<1>1. /\ time \in Nat /\ timchg \in Nat /\ timprtnxt \in Nat /\ deltim \in Int
      /\ timchg # 0 /\ time + deltim <= timprtnxt /\ timprtnxt <= timchg
  BY TimesAssumption DEF SimulationInv, IInv, TypeOK, Beginning, StepEnds, LooksOut
<1>2. t \in Nat /\ time <= t /\ t + 3 <= timchg  BY <1>1
<1>3. read > 0 /\ read \in Nat
  <2>1. read # 0  BY <1>1 DEF SimulationInv, InBlock
  <2>2. PICK b \in Seq(BlockT) : b = blocks  BY DEF SimulationInv, PeriodsInv, BlocksInv
  <2>3. read \in 0 .. Len(b)  BY <2>2 DEF SimulationInv, PeriodsInv, PeriodsTypeOK
  <2> QED  BY <2>1, <2>3
<1>4. times[read] <= time /\ timchg = blocks[read].timchg /\ times[read] \in Nat
  <2>1. PICK q \in Seq(Nat), b \in Seq(BlockT) : q = times /\ b = blocks
    BY DEF SimulationInv, PeriodsInv, PeriodsTypeOK, BlocksInv
  <2>2. read \in 1 .. Len(b) /\ Len(b) <= Len(q)
    BY <1>3, <2>1 DEF SimulationInv, PeriodsInv, PeriodsTypeOK, BlocksInv
  <2>3. read \in DOMAIN q  BY <2>2
  <2>4. q[read] \in Nat  BY <2>3
  <2> QED  BY <1>3, <2>1, <2>4 DEF SimulationInv, InBlock
<1>5. /\ used[s] = Latest(s, times[read])
      /\ \A n \in DOMAIN input.data[s] :
           \/ input.data[s][n].time <= times[read] + 1
           \/ input.data[s][n].time >= blocks[read].timchg - 1
  BY <1>3, FollowsHolds DEF SimulationInv, SimulatorFollowsSeries, Follows
<1>6. input \in Inputs /\ s \in Series
  BY DEF SimulationInv, PeriodsInv, PeriodsTypeOK, Gathered
<1>7. ASSUME NEW n \in DOMAIN input.data[s]
      PROVE  input.data[s][n].time <= times[read] + 1 <=> input.data[s][n].time <= t + 1
  <2>1. input.data[s][n].time \in Nat  BY <1>6, DataFacts
  <2>2. input.data[s][n].time <= times[read] + 1 \/ input.data[s][n].time >= timchg - 1
    BY <1>4, <1>5
  <2> QED  BY <1>1, <1>2, <1>4, <2>1, <2>2
<1>8. Latest(s, times[read]) = Latest(s, t)
  BY <1>2, <1>4, <1>6, <1>7, LatestFacts
<1> QED  BY <1>5, <1>8

\* Whatever the input, the lengths of the steps, the print intervals and the time of a
\* restart, a time step is computed with the data the input gives for it.
THEOREM DataAreInForce == SimulationSpec => []DataInForce
BY SimulationInvariant, DataInForceHolds, PTL

=============================================================================
