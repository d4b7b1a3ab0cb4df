------------------------- MODULE KineticStepProofs -------------------------
(***************************************************************************)
(* What one time step of a cell with kinetic reactants guarantees, for any *)
(* length of the step, any order of integration, any choice of phases and  *)
(* of failures: the cell is integrated over the whole of kin_time, each    *)
(* step from what the one before has saved.                                *)
(***************************************************************************)
EXTENDS KineticStep, TLAPS

\* With order 2 a step that ends early sets the solid solutions back: none here.
NoSolidSolutionsWithOrder2 == \A inp \in Inputs : inp.rk = 2 => "ss" \notin inp.kinds

\* All phases of these kinds integrated up to t.
AllOf(kinds, t) == [x \in kinds |-> [time |-> t, adjusted |-> FALSE]]

Late == at \in {"out", "last", "done", "stopped"}
InStep == at \in {"decide", "trial", "stage", "next", "result"}

\* The numbers that count, and the flags.
Numbers ==
  /\ input \in Inputs
  /\ h \in Int /\ h >= 1 /\ h_sum \in Int /\ h_sum >= 0 /\ stage \in Int
  /\ equal_rate \in BOOLEAN /\ l_bad \in BOOLEAN /\ reduce \in BOOLEAN

\* What is left of kin_time is enough for the step; equal rates mean a single step.
StepFits ==
  /\ ~Late => \/ h_sum < KinTime /\ h <= KinTime - h_sum
              \/ at = "loop" /\ h_sum = KinTime
  /\ ~Late /\ equal_rate => h = KinTime /\ h_sum = 0 /\ ~l_bad
  /\ ~Late /\ rk = 2 => input.rk = 2
  /\ at \in {"start", "mix"} => h_sum = 0

\* Which stages are behind the step, and that rates no longer count as equal after them.
StagesDone ==
  /\ at = "trial" => equal_rate /\ stage = 1
  /\ at = "decide" => stage = 1
  /\ at = "stage" => stage < 6 /\ (equal_rate => rk \in {2, 3} /\ stage < rk)
  /\ at = "next" => stage <= 6 /\ (equal_rate => rk \in {2, 3} /\ stage <= rk)
  /\ ~Late /\ equal_rate => rk \in {1, 2, 3}
  /\ at = "result" => IF stage = 6 THEN ~equal_rate ELSE equal_rate

\* What has been saved, and where the step can go back to.
Saved ==
  /\ ~Late /\ at \notin {"start", "mix"} => solution = h_sum
  /\ at \in {"start", "mix"} => m = 0
  /\ at = "mix" => entry.m = 0
  /\ ~Late /\ at # "k1" => ~reduce
  /\ at \in {"loop", "k1"} /\ ~l_bad /\ ~reduce =>
       m = h_sum /\ phases = AllOf(input.kinds, h_sum)
  /\ InStep \/ (at \in {"loop", "k1"} /\ (l_bad \/ reduce)) =>
       m_temp = h_sum /\ kept = AllOf(input.kinds, h_sum)
  /\ InStep \/ at \in {"start", "mix"} => ~l_bad
  /\ at = "loop" /\ l_bad => h_sum < KinTime
  /\ ~Late => ~(l_bad /\ reduce)
  /\ at = "next" \/ (at = "decide" /\ rk = 1 /\ equal_rate) => phases = AllOf(input.kinds, h_sum)
  /\ at \in {"trial", "result"} =>
       /\ m = h_sum + h /\ phases = AllOf(input.kinds, h_sum)
       /\ entry.m = m /\ entry.phases = phases

\* The length the first rate stands for.
RateKept ==
  /\ InStep => k1 = h
  /\ at = "k1" /\ reduce => k1 = h
  /\ at \in {"loop", "k1"} /\ l_bad => k1 = h_old

\* At the end all of kin_time; the phases too, if no solid solutions are set back.
AtEnd ==
  at = "out" => /\ solution = KinTime /\ m = KinTime
                /\ NoSolidSolutionsWithOrder2 => phases = AllOf(input.kinds, KinTime)

\* Inductive.
Inv == Numbers /\ StepFits /\ StagesDone /\ Saved /\ RateKept /\ AtEnd

----------------------------------------------------------------------------
\* The phases of the cell all integrated up to t.
LEMMA AllIs == \A t : All(t) = AllOf(input.kinds, t)
  BY DEF All, AllOf, Kind

\* What is known of an input.
LEMMA InputIs ==
  ASSUME NEW inp \in Inputs
  PROVE  inp.rk \in {1, 2, 3, 6} /\ inp.first \in Int /\ 1 <= inp.first /\ inp.first <= KinTime
  BY KineticInputs, KineticBounds

\* The first state.
LEMMA InitInv == Init => Inv
<1> SUFFICES ASSUME Init PROVE Inv OBVIOUS
<1>1. /\ input.rk \in {1, 2, 3, 6} /\ input.first \in Int /\ 1 <= input.first
      /\ input.first <= KinTime /\ KinTime \in Int
  BY InputIs, KineticBounds DEF Init
<1>2. equal_rate \in BOOLEAN /\ l_bad \in BOOLEAN /\ reduce \in BOOLEAN BY DEF Init
<1>3. equal_rate => h = KinTime /\ rk \in {1, 2, 3}
  <2>1. equal_rate => input.first = KinTime /\ rk # 6 BY Zenon DEF Init
  <2> QED BY <1>1, <2>1 DEF Init
<1>4. Numbers BY <1>1, <1>2 DEF Init, Numbers
<1>5. StepFits BY <1>1, <1>3 DEF Init, StepFits, Late
<1>6. StagesDone BY <1>3 DEF Init, StagesDone
<1>7. Saved BY <1>1 DEF Init, Saved, Late, InStep
<1>8. RateKept /\ AtEnd BY DEF Init, RateKept, AtEnd, InStep
<1> QED BY <1>4, <1>5, <1>6, <1>7, <1>8 DEF Inv

\* Every action keeps the invariant.
LEMMA NextInv ==
  ASSUME Inv, [Next]_vars
  PROVE  Inv'
<1> USE AllIs
<1>0. KinTime \in Int /\ KinTime > 0 BY KineticBounds
<1> HIDE DEF All, AllOf, Changes
<1>1. CASE AttemptFails
  BY <1>0, <1>1 DEF AttemptFails, Running, Inv, Numbers, StepFits, StagesDone, Saved, RateKept, AtEnd, Late, InStep, rkvars, cell, run
<1>2. CASE AllAttemptsFail
  BY <1>0, <1>2 DEF AllAttemptsFail, Running, Inv, Numbers, StepFits, StagesDone, Saved, RateKept, AtEnd, Late, InStep, rkvars, cell, run
<1>3. CASE Begin
  BY <1>0, <1>3 DEF Begin, Runs, Inv, Numbers, StepFits, StagesDone, Saved, RateKept, AtEnd, Late, InStep, rkvars, cell, run
<1>4. CASE Mixed
  BY <1>0, <1>4 DEF Mixed, Ran, Saver, Inv, Numbers, StepFits, StagesDone, Saved, RateKept, AtEnd, Late, InStep, rkvars, cell, run
<1>5. CASE MixFails
  BY <1>0, <1>5 DEF MixFails, Ran, Saver, Inv, Numbers, StepFits, StagesDone, Saved, RateKept, AtEnd, Late, InStep, rkvars, cell, run
<1>6. CASE LoopTop
  BY <1>0, <1>6 DEF LoopTop, Inv, Numbers, StepFits, StagesDone, Saved, RateKept, AtEnd, Late, InStep, rkvars, cell, run
<1>7. CASE FindK1
  <2>1. reduce' \in BOOLEAN BY <1>7 DEF FindK1, MayBeLarge
  <2> QED BY <1>0, <1>7, <2>1 DEF FindK1, Inv, Numbers, StepFits, StagesDone, Saved, RateKept, AtEnd, Late, InStep, rkvars, cell, run
<1>8. CASE ScaleK1
  <2>1. reduce => h' \in Int /\ 1 <= h' /\ h' <= h
    BY <1>8 DEF ScaleK1, Shorter, Inv, Numbers
  <2>2. (reduce => equal_rate' = FALSE /\ h_old' = h) /\ (~reduce => h' = h /\ h_old' = h_old)
    BY <1>8 DEF ScaleK1
  <2>3. ~reduce => equal_rate' = equal_rate BY <1>8 DEF ScaleK1
  <2>4. k1 = h_old' /\ k1' = h' BY <1>8, <2>2 DEF ScaleK1, Inv, Numbers, RateKept
  <2>5. ~equal_rate' BY <1>8, <2>2, <2>3 DEF ScaleK1, Inv, Numbers, StepFits, Late
  <2>6. Numbers'
    <3>1. reduce \in BOOLEAN /\ equal_rate \in BOOLEAN BY DEF Inv, Numbers
    <3>2. equal_rate' \in BOOLEAN
      <4>1. CASE reduce BY <2>2, <4>1
      <4>2. CASE ~reduce BY <2>3, <3>1, <4>2, Zenon
      <4> QED BY <4>1, <4>2
    <3>3. h' \in Int /\ h' >= 1 BY <2>1, <2>2, <3>1 DEF Inv, Numbers
    <3>4. reduce' \in BOOLEAN /\ l_bad' \in BOOLEAN BY <1>8 DEF ScaleK1
    <3>5. stage' \in Int BY <1>8 DEF ScaleK1
    <3>6. input' \in Inputs /\ h_sum' \in Int /\ h_sum' >= 0 BY <1>8 DEF ScaleK1, Inv, Numbers
    <3> QED BY <3>2, <3>3, <3>4, <3>5, <3>6, Zenon DEF Numbers
  <2>7. StepFits' BY <1>0, <1>8, <2>1, <2>2, <2>5 DEF ScaleK1, Inv, Numbers, StepFits, Late
  <2>8. StagesDone' /\ RateKept' /\ AtEnd'
    BY <1>8, <2>4, <2>5 DEF ScaleK1, StagesDone, RateKept, AtEnd
  <2>9. Saved' BY <1>8, <2>5 DEF ScaleK1, Inv, Numbers, Saved, Late, InStep
  <2> QED BY <2>6, <2>7, <2>8, <2>9 DEF Inv
<1>9. CASE ZeroRates
  BY <1>0, <1>9 DEF ZeroRates, Saver, Inv, Numbers, StepFits, StagesDone, Saved, RateKept, AtEnd, Late, InStep, rkvars, cell, run
<1>10. CASE TryWholeStep
  BY <1>0, <1>10 DEF TryWholeStep, Runs, Inv, Numbers, StepFits, StagesDone, Saved, RateKept, AtEnd, Late, InStep, rkvars, cell, run
<1>11. CASE SameRates
  BY <1>0, <1>11 DEF SameRates, Ran, Saver, Inv, Numbers, StepFits, StagesDone, Saved, RateKept, AtEnd, Late, InStep, rkvars, cell, run
<1>12. CASE OtherRates
  <2>1. /\ at = "trial" /\ at' = "decide" /\ rk' = 3 /\ equal_rate' = FALSE
        /\ UNCHANGED <<input, h, h_old, h_sum, l_bad, reduce, k1, m_temp, kept, stage, m, solution>>
    BY <1>12 DEF OtherRates, Ran
  <2>2. Numbers' BY <2>1 DEF Inv, Numbers
  <2>3. StepFits' BY <2>1 DEF Inv, StepFits, Late
  <2>4. StagesDone' BY <2>1 DEF Inv, StagesDone, Late
  <2>5. Saved' BY <2>1 DEF Inv, Saved, InStep, Late
  <2>6. RateKept' /\ AtEnd' BY <2>1 DEF Inv, RateKept, AtEnd, InStep
  <2> QED BY <2>2, <2>3, <2>4, <2>5, <2>6 DEF Inv
<1>13. CASE FirstStage
  BY <1>0, <1>13 DEF FirstStage, Runs, Inv, Numbers, StepFits, StagesDone, Saved, RateKept, AtEnd, Late, InStep, rkvars, cell, run
<1>14. CASE StageDone
  <2>1. reduce' \in BOOLEAN BY <1>14 DEF StageDone, MayBeLarge
  <2>2. equal_rate' \in BOOLEAN /\ (equal_rate' => equal_rate)
    <3>1. equal_rate \in BOOLEAN BY DEF Inv, Numbers
    <3>2. equal_rate' = FALSE \/ equal_rate' = equal_rate BY <1>14 DEF StageDone
    <3>3. CASE equal_rate' = FALSE BY <3>3
    <3>4. CASE equal_rate' = equal_rate BY <3>1, <3>4, Zenon
    <3> QED BY <3>2, <3>3, <3>4
  <2> QED BY <1>0, <1>14, <2>1, <2>2 DEF StageDone, Ran, Inv, Numbers, StepFits, StagesDone, Saved, RateKept, AtEnd, Late, InStep, rkvars, cell, run
<1>15. CASE NextStage
  BY <1>0, <1>15 DEF NextStage, Runs, EqualRates, Inv, Numbers, StepFits, StagesDone, Saved, RateKept, AtEnd, Late, InStep, rkvars, cell, run
<1>16. CASE Calculate
  BY <1>0, <1>16 DEF Calculate, Runs, EqualRates, Inv, Numbers, StepFits, StagesDone, Saved, RateKept, AtEnd, Late, InStep, rkvars, cell, run
<1>17. CASE Reject
  BY <1>0, <1>17 DEF Reject, Shorter, EqualRates, Inv, Numbers, StepFits, StagesDone, Saved, RateKept, AtEnd, Late, InStep, rkvars, cell, run
<1>18. CASE MassBalance
  <2>1. /\ at \in {"trial", "stage", "result"} /\ at' = "k1" /\ reduce' = TRUE
        /\ UNCHANGED <<input, rk, equal_rate, h, h_old, h_sum, step_bad, l_bad, k1, m_temp, kept, stage, cell>>
    BY <1>18 DEF MassBalance, Ran
  <2> QED BY <1>0, <2>1 DEF Inv, Numbers, StepFits, StagesDone, Saved, RateKept, AtEnd, Late, InStep, rkvars, cell, run
<1>19. CASE EndEarly
  <2>1. /\ at = "result" /\ at' = "out" /\ stage < 6 /\ solution' = h_sum + h
        /\ UNCHANGED <<input, equal_rate, h, h_old, h_sum, l_bad, reduce, k1, m_temp, kept, stage, m>>
    BY <1>19 DEF EndEarly, Ran
  <2>2. equal_rate /\ h_sum + h = KinTime /\ m = KinTime /\ (rk = 2 => input.rk = 2)
    BY <1>0, <2>1 DEF Inv, Numbers, StepFits, StagesDone, Saved, Late
  <2>5. NoSolidSolutionsWithOrder2 => phases' = AllOf(input.kinds, KinTime)
    <3> SUFFICES ASSUME NoSolidSolutionsWithOrder2 PROVE phases' = AllOf(input.kinds, KinTime)
      OBVIOUS
    <3>1. \A x \in Kind : ~(rk = 2 /\ x = "ss")
      BY <2>2 DEF Inv, Numbers, NoSolidSolutionsWithOrder2, Kind
    <3>2. phases' = [x \in Kind |-> All(h_sum + h)[x]] BY <1>19, <3>1 DEF EndEarly
    <3> QED BY <2>2, <3>2 DEF All, AllOf, Kind
  <2> QED BY <1>0, <2>1, <2>2, <2>5 DEF Inv, Numbers, StepFits, StagesDone, Saved, RateKept, AtEnd, Late, InStep, rkvars, cell, run
<1>20. CASE EndStep
  <2>1. h' \in Int /\ 1 <= h' /\ (h' <= KinTime - (h_sum + h) \/ KinTime = h_sum + h)
    <3>1. KinTime = h_sum + h \/ \E x \in 1 .. 4*h : h' = x /\ x <= KinTime - (h_sum + h)
      <4>1. h' \in Longer BY <1>20 DEF EndStep
      <4>2. h \in Int /\ h_sum \in Int BY DEF Inv, Numbers
      <4>3. CASE KinTime - (h_sum + h) = 0 BY <1>0, <4>2, <4>3
      <4>4. CASE KinTime - (h_sum + h) # 0
        <5>1. h' \in {x \in 1 .. 4*h : /\ x <= KinTime - (h_sum + h)
                                     /\ (10*x >= 7*h \/ x = KinTime - (h_sum + h))}
          BY <4>1, <4>4, Zenon DEF Longer
        <5> QED BY <5>1
      <4> QED BY <4>3, <4>4
    <3>2. KinTime = h_sum + h => h' = h BY <1>0, <1>20 DEF EndStep, Longer, Inv, Numbers
    <3> QED BY <1>0, <3>1, <3>2 DEF Inv, Numbers
  <2>2. /\ at = "result" /\ at' = "loop" /\ stage = 6 /\ h_sum' = h_sum + h /\ solution' = h_sum + h
        /\ phases' = AllOf(input.kinds, h_sum + h)
        /\ UNCHANGED <<input, rk, equal_rate, h_old, l_bad, reduce, k1, m_temp, kept, stage, m>>
    BY <1>20 DEF EndStep, Ran, Saver
  <2> QED BY <1>0, <2>1, <2>2 DEF Inv, Numbers, StepFits, StagesDone, Saved, RateKept, AtEnd, Late, InStep, rkvars, cell, run
<1>21. CASE RunLast
  BY <1>0, <1>21 DEF RunLast, Runs, Inv, Numbers, StepFits, StagesDone, Saved, RateKept, AtEnd, Late, InStep, rkvars, cell, run
<1>22. CASE Return
  BY <1>0, <1>22 DEF Return, Ran, Inv, Numbers, StepFits, StagesDone, Saved, RateKept, AtEnd, Late, InStep, rkvars, cell, run
<1>23. CASE UNCHANGED vars
  BY <1>23 DEF vars, Inv, Numbers, StepFits, StagesDone, Saved, RateKept, AtEnd, Late, InStep, rkvars, cell, run
<1> QED BY <1>1, <1>2, <1>3, <1>4, <1>5, <1>6, <1>7, <1>8, <1>9, <1>10, <1>11, <1>12, <1>13, <1>14, <1>15, <1>16, <1>17, <1>18, <1>19, <1>20, <1>21, <1>22, <1>23 DEF Next

----------------------------------------------------------------------------
\* The invariant holds throughout.
LEMMA InvAlways == Spec => []Inv
<1>1. Inv /\ [Next]_vars => Inv' BY NextInv
<1> QED BY InitInv, <1>1, PTL DEF Spec

\* Wherever rk_kinetics leaves its loop, the solution, the phases and the reactants of the cell
\* have been integrated over the whole of kin_time.
THEOREM WholeTimeAlways ==
  ASSUME NoSolidSolutionsWithOrder2 PROVE Spec => []WholeTimeIntegrated
<1>1. Inv => WholeTimeIntegrated BY AllIs DEF Inv, AtEnd, WholeTimeIntegrated
<1> QED BY InvAlways, <1>1, PTL

\* Every step of the integration, and its result, starts from what the step before has saved.
THEOREM FromLastSavedAlways == Spec => []StepFromLastSaved
<1>1. Inv => StepFromLastSaved
  <2> SUFFICES ASSUME Inv PROVE StepFromLastSaved OBVIOUS
  <2>1. at = "k1" /\ ~l_bad /\ ~reduce => m = h_sum /\ solution = h_sum /\ phases = All(h_sum)
    BY AllIs DEF Inv, Saved, Late
  <2>2. at \in {"trial", "result"} =>
          m = h_sum + h /\ solution = h_sum /\ phases = AllOf(input.kinds, h_sum)
    BY DEF Inv, Saved, Late
  <2>3. \A x \in Kind : AllOf(input.kinds, h_sum)[x] = [time |-> h_sum, adjusted |-> FALSE]
    BY DEF AllOf, Kind
  <2> QED BY <2>1, <2>2, <2>3 DEF StepFromLastSaved
<1> QED BY InvAlways, <1>1, PTL

\* The first rate of a step, which is scaled and not found again when the step is shortened,
\* stands for the step whose stages are run.
THEOREM FirstRateAlways == Spec => []FirstRateForStep
<1>1. Inv => FirstRateForStep BY DEF Inv, RateKept, InStep, FirstRateForStep
<1> QED BY InvAlways, <1>1, PTL

\* Once the loop is left the solution stays what it is until rk_kinetics returns.
AfterLoop == at \in {"out", "last"} => solution = KinTime

\* When rk_kinetics returns, the solution of the cell is the result, or as it was before the
\* kinetics when the result goes to another number.
THEOREM ResultOrBefore == Spec => []SolutionKeptOrIntegrated
<1> DEFINE J == AfterLoop /\ SolutionKeptOrIntegrated
<1>1. Init => J BY DEF Init, AfterLoop, SolutionKeptOrIntegrated
<1>2. Inv /\ Inv' /\ J /\ [Next]_vars => J'
  <2> SUFFICES ASSUME Inv', J, [Next]_vars PROVE J' OBVIOUS
  <2>1. at' = "out" => solution' = KinTime BY DEF Inv, AtEnd
  <2>2. CASE at' = "out"
    BY <2>1, <2>2 DEF AfterLoop, SolutionKeptOrIntegrated
  <2>3. CASE at' # "out" /\ at' # "last" /\ at' # "done"
    BY <2>3 DEF AfterLoop, SolutionKeptOrIntegrated
  <2>4. CASE AttemptFails
    BY <2>1, <2>4 DEF AttemptFails, AfterLoop, SolutionKeptOrIntegrated
  <2>5. CASE RunLast
    BY <2>5 DEF RunLast, Runs, AfterLoop, SolutionKeptOrIntegrated
  <2>6. CASE Return
    BY <2>6 DEF Return, Ran, AfterLoop, SolutionKeptOrIntegrated
  <2>7. CASE UNCHANGED vars
    BY <2>7 DEF vars, cell, AfterLoop, SolutionKeptOrIntegrated
  <2>8. Next => AttemptFails \/ RunLast \/ Return \/ at' \in {"out"} \/ (at' # "last" /\ at' # "done")
    BY DEF Next, AllAttemptsFail, Begin, Mixed, MixFails, LoopTop, FindK1, ScaleK1, ZeroRates,
      TryWholeStep, SameRates, OtherRates, FirstStage, StageDone, NextStage, Calculate, Reject,
      MassBalance, EndEarly, EndStep, Runs
  <2> QED BY <2>2, <2>3, <2>4, <2>5, <2>6, <2>7, <2>8
<1>3. J => SolutionKeptOrIntegrated OBVIOUS
<1> QED BY InvAlways, <1>1, <1>2, <1>3, PTL DEF Spec

----------------------------------------------------------------------------
(* Types.  A step fits into what is left of kin_time (StepFits), so that   *)
(* no sum of h_sum and h is beyond it.                                     *)

Places ==
  /\ at \in {"start", "mix", "loop", "k1", "decide", "trial", "stage", "next", "result", "out",
             "last", "done", "stopped"}
  /\ rk \in {1, 2, 3, 6} /\ sound \in BOOLEAN

Lengths ==
  /\ h <= KinTime /\ h_old \in 1 .. KinTime
  /\ h_sum <= KinTime /\ k1 \in 0 .. KinTime
  /\ step_bad \in Nat /\ stage \in 0 .. 6 /\ try \in 0 .. 13
  /\ m \in 0 .. KinTime \cup {Stage} /\ entry.m \in 0 .. KinTime \cup {Stage}
  /\ m_temp \in 0 .. KinTime /\ solution \in 0 .. KinTime \cup {Before}

\* The phases of the cell, its copies, and what a run has started from.
Contents ==
  /\ phases \in Phases /\ kept \in Phases
  /\ entry \in [m : Int, phases : Phases]

Types == Places /\ Lengths /\ Contents

\* Phases integrated up to a time within the step, adjusted or not.
LEMMA PhasesAre ==
  /\ \A t \in Time : All(t) \in Phases
  /\ \A p \in Phases : \A q \in Adjusted(p) : q \in Phases
<1>1. ASSUME NEW t \in Time PROVE All(t) \in Phases
  BY DEF All, Phases
<1>2. ASSUME NEW p \in Phases, NEW q \in Adjusted(p) PROVE q \in Phases
  <2>1. PICK xs \in SUBSET Kind : q = [x \in Kind |-> IF x \in xs THEN [p[x] EXCEPT !.adjusted = TRUE]
                                                   ELSE p[x]]
    BY <1>2 DEF Adjusted
  <2>2. ASSUME NEW x \in Kind
        PROVE  /\ p[x] \in [time : Time, adjusted : BOOLEAN]
               /\ [p[x] EXCEPT !.adjusted = TRUE] \in [time : Time, adjusted : BOOLEAN]
    <3>1. p[x] \in [time : Time, adjusted : BOOLEAN]  BY <1>2 DEF Phases
    <3> QED  BY <3>1
  <2> QED  BY <2>1, <2>2 DEF Phases
<1> QED  BY <1>1, <1>2

\* The sum that a step may reach.
LEMMA StepFitsTime ==
  ASSUME Inv, ~ Late, at # "loop"
  PROVE  h_sum + h \in Time
  BY KineticBounds DEF Inv, Numbers, StepFits, Time, Late

LEMMA NextTypes ==
  ASSUME Inv, Inv', Types, [Next]_vars
  PROVE  Types'
<1>0. KinTime \in Int /\ KinTime > 0  BY KineticBounds
<1>1. /\ h \in Int /\ h_sum \in Int /\ h >= 1 /\ h_sum >= 0
      /\ h' \in Int /\ h_sum' \in Int /\ h' >= 1 /\ h_sum' >= 0
  BY DEF Inv, Numbers
<1>2. ~ Late /\ at # "loop" => h_sum + h \in Time  BY StepFitsTime
<1>3. Phases' = Phases
  <2>1. input' = input
    BY DEF Next, vars, AttemptFails, AllAttemptsFail, Begin, Mixed, MixFails, LoopTop, FindK1, ScaleK1, ZeroRates, TryWholeStep, SameRates, OtherRates, FirstStage, StageDone, NextStage, Calculate, Reject, MassBalance, EndEarly, EndStep, RunLast, Return, Ran, Runs
  <2> QED  BY <2>1 DEF Phases, Kind
<1>4. CASE AttemptFails
  <2>1. Places'  BY <1>4 DEF AttemptFails, Running, NextTry, Left, rkvars, cell, run, Types, Places
  <2>2. Lengths'
    BY <1>0, <1>1, <1>2, <1>4 DEF AttemptFails, Running, NextTry, Left, rkvars, cell, run, Types, Lengths, Time, Late
  <2>3. Contents'
    BY <1>1, <1>2, <1>3, <1>4, PhasesAre DEF AttemptFails, Running, NextTry, Left, rkvars, cell, run, Types, Contents, Lengths, Time, Late
  <2> QED  BY <2>1, <2>2, <2>3 DEF Types
<1>5. CASE AllAttemptsFail
  <2>1. Places'  BY <1>5 DEF AllAttemptsFail, Running, rkvars, cell, run, Types, Places
  <2>2. Lengths'
    BY <1>0, <1>1, <1>2, <1>5 DEF AllAttemptsFail, Running, rkvars, cell, run, Types, Lengths, Time, Late
  <2>3. Contents'
    BY <1>1, <1>2, <1>3, <1>5, PhasesAre DEF AllAttemptsFail, Running, rkvars, cell, run, Types, Contents, Lengths, Time, Late
  <2> QED  BY <2>1, <2>2, <2>3 DEF Types
<1>6. CASE Begin
  <2>1. Places'  BY <1>6 DEF Begin, Runs, rkvars, cell, run, Types, Places
  <2>2. Lengths'
    BY <1>0, <1>1, <1>2, <1>6 DEF Begin, Runs, rkvars, cell, run, Types, Lengths, Time, Late
  <2>3. Contents'
    BY <1>1, <1>2, <1>3, <1>6, PhasesAre DEF Begin, Runs, rkvars, cell, run, Types, Contents, Lengths, Time, Late
  <2> QED  BY <2>1, <2>2, <2>3 DEF Types
<1>7. CASE Mixed
  <2>1. Places'  BY <1>7 DEF Mixed, Ran, Saver, rkvars, cell, run, Types, Places
  <2>2. Lengths'
    BY <1>0, <1>1, <1>2, <1>7 DEF Mixed, Ran, Saver, rkvars, cell, run, Types, Lengths, Time, Late
  <2>3. Contents'
    <3>1. All(0) \in Phases  BY <1>0, PhasesAre DEF Time
    <3>2. phases' = All(0) /\ kept' = kept /\ entry' = entry
      BY <1>7 DEF Mixed, Ran, Saver, rkvars
    <3> QED  BY <1>3, <3>1, <3>2 DEF Types, Contents
  <2> QED  BY <2>1, <2>2, <2>3 DEF Types
<1>8. CASE MixFails
  <2>1. Places'  BY <1>8 DEF MixFails, Ran, Saver, rkvars, cell, run, Types, Places
  <2>2. Lengths'
    BY <1>0, <1>1, <1>2, <1>8 DEF MixFails, Ran, Saver, rkvars, cell, run, Types, Lengths, Time, Late
  <2>3. Contents'
    <3>1. All(0) \in Phases  BY <1>0, PhasesAre DEF Time
    <3>2. phases' = All(0) /\ kept' = kept /\ entry' = entry
      BY <1>8 DEF MixFails, Ran, Saver, rkvars
    <3> QED  BY <1>3, <3>1, <3>2 DEF Types, Contents
  <2> QED  BY <2>1, <2>2, <2>3 DEF Types
<1>9. CASE LoopTop
  <2>1. Places'  BY <1>9 DEF LoopTop, rkvars, cell, run, Types, Places
  <2>2. Lengths'
    BY <1>0, <1>1, <1>2, <1>9 DEF LoopTop, rkvars, cell, run, Types, Lengths, Time, Late
  <2>3. Contents'
    BY <1>1, <1>2, <1>3, <1>9, PhasesAre DEF LoopTop, rkvars, cell, run, Types, Contents, Lengths, Time, Late
  <2> QED  BY <2>1, <2>2, <2>3 DEF Types
<1>10. CASE FindK1
  <2>1. Places'  BY <1>10 DEF FindK1, MayBeLarge, rkvars, cell, run, Types, Places
  <2>2. Lengths'
    <3>1. m = h_sum  BY <1>10 DEF FindK1, Inv, Saved
    <3> QED  BY <1>0, <1>1, <3>1, <1>10 DEF FindK1, cell, run, Types, Lengths
  <2>3. Contents'
    BY <1>1, <1>2, <1>3, <1>10, PhasesAre DEF FindK1, MayBeLarge, rkvars, cell, run, Types, Contents, Lengths, Time, Late
  <2> QED  BY <2>1, <2>2, <2>3 DEF Types
<1>11. CASE ScaleK1
  <2>1. Places'  BY <1>11 DEF ScaleK1, Shorter, rkvars, cell, run, Types, Places
  <2>2. Lengths'
    BY <1>0, <1>1, <1>2, <1>11 DEF ScaleK1, Shorter, rkvars, cell, run, Types, Lengths, Time, Late
  <2>3. Contents'
    BY <1>1, <1>2, <1>3, <1>11, PhasesAre DEF ScaleK1, Shorter, rkvars, cell, run, Types, Contents, Lengths, Time, Late
  <2> QED  BY <2>1, <2>2, <2>3 DEF Types
<1>12. CASE ZeroRates
  <2>1. Places'  BY <1>12 DEF ZeroRates, Saver, rkvars, cell, run, Types, Places
  <2>2. Lengths'
    BY <1>0, <1>1, <1>2, <1>12 DEF ZeroRates, Saver, rkvars, cell, run, Types, Lengths, Time, Late
  <2>3. Contents'
    BY <1>1, <1>2, <1>3, <1>12, PhasesAre DEF ZeroRates, Saver, rkvars, cell, run, Types, Contents, Lengths, Time, Late
  <2> QED  BY <2>1, <2>2, <2>3 DEF Types
<1>13. CASE TryWholeStep
  <2>1. Places'  BY <1>13 DEF TryWholeStep, Runs, rkvars, cell, run, Types, Places
  <2>2. Lengths'
    BY <1>0, <1>1, <1>2, <1>13 DEF TryWholeStep, Runs, rkvars, cell, run, Types, Lengths, Time, Late
  <2>3. Contents'
    BY <1>1, <1>2, <1>3, <1>13, PhasesAre DEF TryWholeStep, Runs, rkvars, cell, run, Types, Contents, Lengths, Time, Late
  <2> QED  BY <2>1, <2>2, <2>3 DEF Types
<1>14. CASE SameRates
  <2>1. Places'  BY <1>14 DEF SameRates, Ran, Saver, rkvars, cell, run, Types, Places
  <2>2. Lengths'
    BY <1>0, <1>1, <1>2, <1>14 DEF SameRates, Ran, Saver, rkvars, cell, run, Types, Lengths, Time, Late
  <2>3. Contents'
    BY <1>1, <1>2, <1>3, <1>14, PhasesAre DEF SameRates, Ran, Saver, rkvars, cell, run, Types, Contents, Lengths, Time, Late
  <2> QED  BY <2>1, <2>2, <2>3 DEF Types
<1>15. CASE OtherRates
  <2>1. Places'  BY <1>15 DEF OtherRates, Ran, rkvars, cell, run, Types, Places
  <2>2. Lengths'
    BY <1>0, <1>1, <1>2, <1>15 DEF OtherRates, Ran, rkvars, cell, run, Types, Lengths, Time, Late
  <2>3. Contents'
    BY <1>1, <1>2, <1>3, <1>15, PhasesAre DEF OtherRates, Ran, rkvars, cell, run, Types, Contents, Lengths, Time, Late
  <2> QED  BY <2>1, <2>2, <2>3 DEF Types
<1>16. CASE FirstStage
  <2>1. Places'  BY <1>16 DEF FirstStage, Runs, rkvars, cell, run, Types, Places
  <2>2. Lengths'
    BY <1>0, <1>1, <1>2, <1>16 DEF FirstStage, Runs, rkvars, cell, run, Types, Lengths, Time, Late
  <2>3. Contents'
    BY <1>1, <1>2, <1>3, <1>16, PhasesAre DEF FirstStage, Runs, rkvars, cell, run, Types, Contents, Lengths, Time, Late
  <2> QED  BY <2>1, <2>2, <2>3 DEF Types
<1>17. CASE StageDone
  <2>1. Places'  BY <1>17 DEF StageDone, Ran, MayBeLarge, rkvars, cell, run, Types, Places
  <2>2. Lengths'
    <3>1. stage \in 0 .. 5  BY <1>17 DEF StageDone, Ran, Inv, StagesDone, Types, Lengths
    <3> QED  BY <1>0, <1>1, <3>1, <1>17 DEF StageDone, Ran, Types, Lengths
  <2>3. Contents'
    BY <1>1, <1>2, <1>3, <1>17, PhasesAre DEF StageDone, Ran, MayBeLarge, rkvars, cell, run, Types, Contents, Lengths, Time, Late
  <2> QED  BY <2>1, <2>2, <2>3 DEF Types
<1>18. CASE NextStage
  <2>1. Places'  BY <1>18 DEF NextStage, Runs, rkvars, cell, run, Types, Places
  <2>2. Lengths'
    BY <1>0, <1>1, <1>2, <1>18 DEF NextStage, Runs, rkvars, cell, run, Types, Lengths, Time, Late
  <2>3. Contents'
    BY <1>1, <1>2, <1>3, <1>18, PhasesAre DEF NextStage, Runs, rkvars, cell, run, Types, Contents, Lengths, Time, Late
  <2> QED  BY <2>1, <2>2, <2>3 DEF Types
<1>19. CASE Calculate
  <2>1. Places'  BY <1>19 DEF Calculate, Runs, rkvars, cell, run, Types, Places
  <2>2. Lengths'
    BY <1>0, <1>1, <1>2, <1>19 DEF Calculate, Runs, rkvars, cell, run, Types, Lengths, Time, Late
  <2>3. Contents'
    BY <1>1, <1>2, <1>3, <1>19, PhasesAre DEF Calculate, Runs, rkvars, cell, run, Types, Contents, Lengths, Time, Late
  <2> QED  BY <2>1, <2>2, <2>3 DEF Types
<1>20. CASE Reject
  <2>1. Places'  BY <1>20 DEF Reject, Shorter, rkvars, cell, run, Types, Places
  <2>2. Lengths'
    BY <1>0, <1>1, <1>2, <1>20 DEF Reject, Shorter, rkvars, cell, run, Types, Lengths, Time, Late
  <2>3. Contents'
    BY <1>1, <1>2, <1>3, <1>20, PhasesAre DEF Reject, Shorter, rkvars, cell, run, Types, Contents, Lengths, Time, Late
  <2> QED  BY <2>1, <2>2, <2>3 DEF Types
<1>21. CASE MassBalance
  <2>1. Places'  BY <1>21 DEF MassBalance, Ran, rkvars, cell, run, Types, Places
  <2>2. Lengths'
    BY <1>0, <1>1, <1>2, <1>21 DEF MassBalance, Ran, rkvars, cell, run, Types, Lengths, Time, Late
  <2>3. Contents'
    BY <1>1, <1>2, <1>3, <1>21, PhasesAre DEF MassBalance, Ran, rkvars, cell, run, Types, Contents, Lengths, Time, Late
  <2> QED  BY <2>1, <2>2, <2>3 DEF Types
<1>22. CASE EndEarly
  <2>1. Places'  BY <1>22 DEF EndEarly, Ran, rkvars, cell, run, Types, Places
  <2>2. Lengths'
    BY <1>0, <1>1, <1>2, <1>22 DEF EndEarly, Ran, rkvars, cell, run, Types, Lengths, Time, Late
  <2>3. Contents'
    <3>1. h_sum + h \in Time  BY <1>2, <1>22 DEF EndEarly, Ran, Late
    <3>2. All(h_sum + h) \in Phases /\ kept \in Phases
      BY <3>1, PhasesAre DEF Types, Contents
    <3>3. phases' = [x \in Kind |-> IF rk = 2 /\ x = "ss" THEN kept[x] ELSE All(h_sum + h)[x]]
      BY <1>22 DEF EndEarly
    <3>4. phases' \in Phases  BY <3>2, <3>3 DEF Phases
    <3> QED  BY <1>3, <3>4, <1>22 DEF EndEarly, Ran, Types, Contents
  <2> QED  BY <2>1, <2>2, <2>3 DEF Types
<1>23. CASE EndStep
  <2>1. Places'  BY <1>23 DEF EndStep, Ran, Saver, Longer, rkvars, cell, run, Types, Places
  <2>2. Lengths'
    <3>1. h_sum + h \in Time  BY <1>2, <1>23 DEF EndStep, Ran, Late
    <3>2. h' = h \/ h' <= KinTime - (h_sum + h)
      BY <1>1, <1>23 DEF EndStep, Longer
    <3>3. h' <= KinTime  BY <1>0, <1>1, <3>1, <3>2 DEF Types, Lengths, Time
    <3> QED  BY <1>0, <1>1, <3>1, <3>3, <1>23 DEF EndStep, Ran, Saver, Types, Lengths, Time
  <2>3. Contents'
    BY <1>1, <1>2, <1>3, <1>23, PhasesAre DEF EndStep, Ran, Saver, Longer, rkvars, cell, run, Types, Contents, Lengths, Time, Late
  <2> QED  BY <2>1, <2>2, <2>3 DEF Types
<1>24. CASE RunLast
  <2>1. Places'  BY <1>24 DEF RunLast, Runs, rkvars, cell, run, Types, Places
  <2>2. Lengths'
    BY <1>0, <1>1, <1>2, <1>24 DEF RunLast, Runs, rkvars, cell, run, Types, Lengths, Time, Late
  <2>3. Contents'
    BY <1>1, <1>2, <1>3, <1>24, PhasesAre DEF RunLast, Runs, rkvars, cell, run, Types, Contents, Lengths, Time, Late
  <2> QED  BY <2>1, <2>2, <2>3 DEF Types
<1>25. CASE Return
  <2>1. Places'  BY <1>25 DEF Return, Ran, rkvars, cell, run, Types, Places
  <2>2. Lengths'
    BY <1>0, <1>1, <1>2, <1>25 DEF Return, Ran, rkvars, cell, run, Types, Lengths, Time, Late
  <2>3. Contents'
    BY <1>1, <1>2, <1>3, <1>25, PhasesAre DEF Return, Ran, rkvars, cell, run, Types, Contents, Lengths, Time, Late
  <2> QED  BY <2>1, <2>2, <2>3 DEF Types
<1>26. CASE UNCHANGED vars
  BY <1>3, <1>26 DEF vars, rkvars, cell, run, Types, Places, Lengths, Contents
<1> QED  BY <1>4, <1>5, <1>6, <1>7, <1>8, <1>9, <1>10, <1>11, <1>12, <1>13, <1>14, <1>15, <1>16, <1>17, <1>18, <1>19, <1>20, <1>21, <1>22, <1>23, <1>24, <1>25, <1>26 DEF Next

\* TypeOK: every variable keeps its type, for any length of the time step and any inputs.
THEOREM TypeCorrect == Spec => []TypeOK
<1>1. Init => Types
  <2> SUFFICES ASSUME Init PROVE Types  OBVIOUS
  <2>1. input.rk \in {1, 2, 3, 6} /\ input.first \in 1 .. KinTime /\ KinTime \in Nat \ {0}
    BY KineticInputs, KineticBounds DEF Init
  <2>2. All(0) \in Phases  BY <2>1, PhasesAre DEF Time
  <2> QED  BY <2>1, <2>2 DEF Init, Types, Places, Lengths, Contents
<1>2. Inv /\ Types => TypeOK
  <2> SUFFICES ASSUME Inv, Types PROVE TypeOK  OBVIOUS
  <2>1. h \in 1 .. KinTime /\ h_sum \in Time
    BY KineticBounds DEF Inv, Numbers, Types, Lengths, Time
  <2>2. entry = [m |-> entry.m, phases |-> entry.phases] /\ entry.phases \in Phases
    BY DEF Types, Contents
  <2>3. entry \in [m : Time \cup {Stage}, phases : Phases]
    BY <2>2 DEF Types, Lengths, Time
  <2> QED  BY <2>1, <2>3 DEF Inv, Numbers, Types, Places, Lengths, Contents, Time, TypeOK
<1>3. Inv /\ Inv' /\ Types /\ [Next]_vars => Types'  BY NextTypes
<1> QED  BY InvAlways, <1>1, <1>2, <1>3, PTL DEF Spec
=============================================================================
