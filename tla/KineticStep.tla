---------------------------- MODULE KineticStep ----------------------------
(***************************************************************************)
(* One time step of a cell with kinetic reactants in PHREEQC: rk_kinetics  *)
(* integrates the rates by Runge and Kutta's method over kin_time, in      *)
(* steps of length h, and solves the equilibria for each stage of a step   *)
(* by set_and_run_wrapper, which tries one set of convergence parameters   *)
(* after the other.                                                        *)
(*                                                                         *)
(* Time is counted in units.  The solution, the phases and the reactants   *)
(* of the cell are the time up to which they have been integrated; phases  *)
(* are adjusted when step() has taken from them what the reactants lack,   *)
(* which happens in place, in the map that saver() saves to.  Whether a    *)
(* rate is too large, equal to another, or an error within tolerance is    *)
(* left open.  Rates and equilibria do not stop the program by themselves. *)
(***************************************************************************)
EXTENDS Integers

CONSTANTS
  KinTime,      \* kin_time in units of time
  Inputs,       \* order, first step, phases, destination, attempts left out
  BadStepMax,   \* -bad_step_max
  MaxTries,     \* max_tries
  MixMayFail,   \* whether the first run may find a negative concentration
  UnitMayFail   \* whether a step of one unit may be too large

ASSUME KineticBounds == KinTime \in Nat \ {0} /\ BadStepMax \in Nat /\ MaxTries \in Nat \ {0}
ASSUME KineticInputs ==
  Inputs \subseteq [rk : {1, 2, 3, 6}, first : 1 .. KinTime, kinds : SUBSET {"pp", "ss"},
                    elsewhere : BOOLEAN, skipped : SUBSET (1 .. 13)]
ASSUME KineticFailures == {MixMayFail, UnitMayFail} \subseteq BOOLEAN

Before == -2   \* the solution before it is mixed and brought to equilibrium
Stage  == -1   \* the reactants after part of a step

VARIABLES
  input,                \* -runge_kutta, -step_divide, phases, nsaver # i
  at,                   \* where rk_kinetics is
  rk, equal_rate,       \* order; whether all rates of the step have been equal
  h, h_old, h_sum,      \* length of the step, of the one before, time integrated
  step_bad, l_bad,      \* rejected steps; whether k1 is to be scaled
  reduce,               \* moles_reduction > 1
  k1,                   \* the length k1 stands for
  m, m_temp,            \* reactants, and at the begin of the step
  solution, phases,     \* of the cell
  kept,                 \* pp_assemblage_save and ss_assemblage_save
  stage,                \* the rates of this step found so far
  try, entry, settings, \* of the run: the attempt, what it started from, what it has changed
  sound                 \* whether all that was saved came from a run that succeeded

rkvars == <<rk, equal_rate, h, h_old, h_sum, step_bad, l_bad, reduce, k1, m_temp, kept, stage>>
cell == <<m, solution, phases>>
run == <<try, entry, settings>>
vars == <<input, at, rkvars, cell, run, sound>>

Kind == input.kinds
All(t) == [x \in Kind |-> [time |-> t, adjusted |-> FALSE]]

\* kin_time with -step_divide of at most 1, else a part of it.
Init ==
  /\ input \in Inputs
  /\ at = "start"
  /\ rk = input.rk /\ equal_rate = (input.rk # 6 /\ input.first = KinTime)
  /\ h = input.first /\ h_old = h /\ h_sum = 0
  /\ step_bad = 0 /\ l_bad = FALSE /\ reduce = FALSE
  /\ k1 = 0 /\ m = 0 /\ m_temp = 0 /\ stage = 0
  /\ solution = Before
  /\ phases = All(0) /\ kept = phases
  /\ try = 0 /\ entry = [m |-> 0, phases |-> phases] /\ settings = {}
  /\ sound = TRUE

----------------------------------------------------------------------------
(* set_and_run_wrapper.                                                    *)

\* What the attempts change; the others keep the user's parameters.
Changes(j) ==
  CASE j = 0 -> {}
    [] j = 1 -> {"itmax", "steps"}
    [] j \in {2, 3, 12, 13} -> {"itmax", "tol"}
    [] j = 4 -> {"itmax", "diagonal", "full pitzer"}
    [] j = 5 -> {"itmax", "diagonal", "tol"}
    [] j = 6 -> {"itmax", "pp scale"}
    [] j = 7 -> {"itmax", "pp scale", "diagonal"}
    [] j = 8 -> {"delay"}
    [] j = 9 -> {"itmax", "min value"}
    [] j = 10 -> {"aqueous only"}
    [] j = 11 -> {"negative"}

\* Attempts after j: the steps may be small already, a Pitzer or SIT model and a cell without
\* equilibrium phases have no use for some.
Left(j) ==
  {k \in j+1 .. 13 : k < MaxTries /\ k \notin input.skipped /\ (k = 8 => "pp" \in Kind)}

\* A run starts, with reactants n.
Runs(for, n) ==
  /\ at' = for
  /\ m' = n
  /\ try' = 0 /\ settings' = Changes(0)
  /\ entry' = [m |-> n, phases |-> phases]
  /\ UNCHANGED <<input, solution, phases, sound>>

Running == at \in {"mix", "trial", "stage", "result", "last"}

\* What step() may make of the phases.
Adjusted(p) ==
  {[x \in Kind |-> IF x \in xs THEN [p[x] EXCEPT !.adjusted = TRUE] ELSE p[x]] : xs \in SUBSET Kind}

NextTry == try' \in Left(try) /\ \A k \in Left(try) : try' <= k

\* The attempt has not converged: all parameters are set back and some changed for the next
\* one, which has the phases and reactants the run began with.
AttemptFails ==
  /\ Running /\ NextTry
  /\ settings' = Changes(try')
  /\ phases' = entry.phases /\ m' = entry.m
  /\ UNCHANGED <<input, at, rkvars, solution, entry, sound>>

\* No attempt has converged: error.inp is written and the program stops.
AllAttemptsFail ==
  /\ Running /\ Left(try) = {}
  /\ at' = "stopped" /\ settings' = {}
  /\ UNCHANGED <<input, rkvars, cell, try, entry, sound>>

\* The run for this purpose is over, its parameters set back.
Ran(for) == at = for /\ settings' = {} /\ UNCHANGED <<input, try, entry>>

----------------------------------------------------------------------------
(* rk_kinetics.                                                            *)

\* saver(): the result of the last run.
Saver(t) == solution' = t /\ phases' = All(t)

\* Mixing and equilibrium come first.
Begin ==
  /\ at = "start"
  /\ Runs("mix", 0)
  /\ UNCHANGED rkvars

Mixed ==
  /\ Ran("mix") /\ at' = "loop"
  /\ Saver(0)
  /\ UNCHANGED <<rkvars, m, sound>>

\* Nobody looks at the result of this run: saver() saves what an earlier run has left.
MixFails ==
  /\ MixMayFail
  /\ Ran("mix") /\ at' = "loop"
  /\ Saver(0)
  /\ sound' = FALSE
  /\ UNCHANGED <<rkvars, m>>

\* while (h_sum < kin_time).
LoopTop ==
  /\ at = "loop"
  /\ at' = IF h_sum >= KinTime THEN "out" ELSE IF step_bad > BadStepMax THEN "stopped" ELSE "k1"
  /\ UNCHANGED <<input, rkvars, cell, run, sound>>

MayBeLarge == h > 1 \/ UnitMayFail
Shorter == IF h = 1 THEN {1} ELSE 1 .. h-1

\* Phases and reactants are kept, and the first rate found.
FindK1 ==
  /\ at = "k1" /\ ~reduce /\ ~l_bad
  /\ kept' = phases /\ m_temp' = m /\ k1' = h /\ stage' = 1
  /\ reduce' \in {FALSE, MayBeLarge}
  /\ at' = IF reduce' THEN "k1" ELSE "decide"
  /\ UNCHANGED <<input, rk, equal_rate, h, h_old, h_sum, step_bad, l_bad, cell, run, sound>>

\* Faulty variant: the step before is not remembered.
ScaleK1Stale ==
  /\ at = "k1" /\ (reduce \/ l_bad)
  /\ IF reduce THEN h' \in Shorter /\ equal_rate' = FALSE
               ELSE UNCHANGED <<h, equal_rate>>
  /\ k1' = IF k1 = h_old THEN h' ELSE 0
  /\ m' = m_temp
  /\ reduce' = FALSE /\ l_bad' = FALSE /\ stage' = 1
  /\ at' = "decide"
  /\ UNCHANGED <<input, rk, h_old, h_sum, step_bad, m_temp, solution, phases, kept, run, sound>>

\* Faulty variant: the rates are still taken for equal after the step has been shortened.
ScaleK1Equal ==
  /\ at = "k1" /\ (reduce \/ l_bad)
  /\ IF reduce THEN h_old' = h /\ h' \in Shorter ELSE UNCHANGED <<h_old, h>>
  /\ k1' = IF k1 = h_old' THEN h' ELSE 0
  /\ m' = m_temp
  /\ reduce' = FALSE /\ l_bad' = FALSE /\ stage' = 1
  /\ at' = "decide"
  /\ UNCHANGED <<input, rk, equal_rate, h_sum, step_bad, m_temp, solution, phases, kept, run, sound>>

\* MOLES_TOO_LARGE: the step is shortened.  Here and after a rejected step k1 is scaled from
\* the old length to the new one.
ScaleK1 ==
  /\ at = "k1" /\ (reduce \/ l_bad)
  /\ IF reduce THEN h_old' = h /\ h' \in Shorter /\ equal_rate' = FALSE
               ELSE UNCHANGED <<h_old, h, equal_rate>>
  /\ k1' = IF k1 = h_old' THEN h' ELSE 0
  /\ m' = m_temp
  /\ reduce' = FALSE /\ l_bad' = FALSE /\ stage' = 1
  /\ at' = "decide"
  /\ UNCHANGED <<input, rk, h_sum, step_bad, m_temp, solution, phases, kept, run, sound>>

\* Order 1: with rates of zero the step is done, else it is tried as a whole.
ZeroRates ==
  /\ at = "decide" /\ rk = 1 /\ equal_rate
  /\ Saver(h_sum + h) /\ m' = h_sum + h
  /\ at' = "out"
  /\ UNCHANGED <<input, rkvars, run, sound>>

TryWholeStep ==
  /\ at = "decide" /\ rk = 1 /\ equal_rate
  /\ Runs("trial", h_sum + h)
  /\ UNCHANGED rkvars

\* The rate after the step is the same: done.
SameRates ==
  /\ Ran("trial") /\ at' = "out"
  /\ Saver(h_sum + h)
  /\ UNCHANGED <<rkvars, m, sound>>

\* It is not: go on with order 3, with the phases the trial has left.
OtherRates ==
  /\ Ran("trial") /\ at' = "decide"
  /\ rk' = 3 /\ equal_rate' = FALSE
  /\ phases' \in Adjusted(phases)
  /\ UNCHANGED <<h, h_old, h_sum, step_bad, l_bad, reduce, k1, m_temp, kept, stage, m, solution, sound>>

FirstStage ==
  /\ at = "decide" /\ ~(rk = 1 /\ equal_rate)
  /\ Runs("stage", m)
  /\ UNCHANGED rkvars

\* Faulty variant: the phases are not reset to those of the last saver().
StageDoneAdjusted ==
  /\ Ran("stage")
  /\ m' = Stage
  /\ phases' \in Adjusted(phases)
  /\ stage' = stage + 1
  /\ reduce' \in {FALSE, MayBeLarge /\ stage < 5}
  /\ equal_rate' \in {FALSE, equal_rate}
  /\ at' = IF reduce' THEN "k1" ELSE "next"
  /\ UNCHANGED <<rk, h, h_old, h_sum, step_bad, l_bad, k1, m_temp, kept, solution, sound>>

\* The next rate is found, the phases are reset to those of the last saver().  The second and
\* third rates are compared with the first.
StageDone ==
  /\ Ran("stage")
  /\ m' = Stage
  /\ phases' = kept
  /\ stage' = stage + 1
  /\ reduce' \in {FALSE, MayBeLarge /\ stage < 5}
  /\ equal_rate' \in {FALSE, equal_rate}
  /\ at' = IF reduce' THEN "k1" ELSE "next"
  /\ UNCHANGED <<rk, h, h_old, h_sum, step_bad, l_bad, k1, m_temp, kept, solution, sound>>

\* Orders 2 and 3 end early when all rates are equal.
EqualRates == equal_rate /\ rk \in {2, 3} /\ stage = rk

NextStage ==
  /\ at = "next" /\ ~EqualRates /\ stage < 6
  /\ Runs("stage", m)
  /\ UNCHANGED rkvars

\* Rates within tolerance: the result of the step is calculated.
Calculate ==
  /\ at = "next" /\ (EqualRates \/ stage = 6)
  /\ Runs("result", h_sum + h)
  /\ UNCHANGED rkvars

\* Faulty variant: a rejected step is not counted.
RejectUncounted ==
  /\ at = "next" /\ ~EqualRates /\ stage = 6
  /\ h_old' = h /\ h' \in Shorter
  /\ l_bad' = TRUE
  /\ at' = "loop"
  /\ UNCHANGED <<input, rk, equal_rate, h_sum, step_bad, reduce, k1, m_temp, cell, kept, stage, run, sound>>

\* The error is too large: repeat with a smaller step.
Reject ==
  /\ at = "next" /\ ~EqualRates /\ stage = 6
  /\ h_old' = h /\ h' \in Shorter
  /\ l_bad' = TRUE
  /\ step_bad' = step_bad + 1
  /\ at' = "loop"
  /\ UNCHANGED <<input, rk, equal_rate, h_sum, reduce, k1, m_temp, cell, kept, stage, run, sound>>

\* In any of these runs step() may find a negative concentration: moles_reduction = 9.
MassBalance ==
  /\ \E for \in {"trial", "stage", "result"} : Ran(for)
  /\ MayBeLarge
  /\ reduce' = TRUE /\ at' = "k1"
  /\ UNCHANGED <<rk, equal_rate, h, h_old, h_sum, step_bad, l_bad, k1, m_temp, kept, stage, cell, sound>>

\* The result of a step whose rates were all equal is saved; with order 2 the solid solutions
\* are then set back to what they were.
EndEarly ==
  /\ Ran("result") /\ stage < 6 /\ at' = "out"
  /\ rk' \in {rk, 1}
  /\ solution' = h_sum + h
  /\ phases' = [x \in Kind |-> IF rk = 2 /\ x = "ss" THEN kept[x] ELSE All(h_sum + h)[x]]
  /\ UNCHANGED <<equal_rate, h, h_old, h_sum, step_bad, l_bad, reduce, k1, m_temp, kept, stage, m, sound>>

\* Faulty variant: the last step may be too long.
LongerThanLeft == {x \in 1 .. 4*h : 10*x >= 7*h}

\* The next step is up to four times as long, and not longer than what is left.
Longer ==
  LET left == KinTime - (h_sum + h)
  IN IF left = 0 THEN {h} ELSE {x \in 1 .. 4*h : x <= left /\ (10*x >= 7*h \/ x = left)}

EndStep ==
  /\ Ran("result") /\ stage = 6 /\ at' = "loop"
  /\ Saver(h_sum + h)
  /\ h_sum' = h_sum + h
  /\ h' \in Longer
  /\ UNCHANGED <<rk, equal_rate, h_old, step_bad, l_bad, reduce, k1, m_temp, kept, stage, m, sound>>

\* EQUAL_RATE_OUT: once more, for the distribution of species.
RunLast ==
  /\ at = "out"
  /\ Runs("last", m)
  /\ UNCHANGED rkvars

\* The solution is given back when the result goes elsewhere.  Nobody looks at the result of
\* this run either.
Return ==
  /\ Ran("last") /\ at' = "done"
  /\ phases' \in Adjusted(phases)
  /\ solution' = IF input.elsewhere THEN Before ELSE solution
  /\ UNCHANGED <<rkvars, m, sound>>

Next ==
  \/ AttemptFails \/ AllAttemptsFail \/ Begin \/ Mixed \/ MixFails \/ LoopTop \/ FindK1 \/ ScaleK1
  \/ ZeroRates \/ TryWholeStep \/ SameRates \/ OtherRates \/ FirstStage \/ StageDone
  \/ NextStage \/ Calculate \/ Reject \/ MassBalance \/ EndEarly \/ EndStep \/ RunLast \/ Return

\* One thread, which runs on.
Spec == Init /\ [][Next]_vars /\ WF_vars(Next)

----------------------------------------------------------------------------
(* Properties.                                                             *)

Time == 0 .. KinTime
Phases == [Kind -> [time : Time, adjusted : BOOLEAN]]

TypeOK ==
  /\ input \in Inputs
  /\ at \in {"start", "mix", "loop", "k1", "decide", "trial", "stage", "next", "result", "out",
             "last", "done", "stopped"}
  /\ rk \in {1, 2, 3, 6} /\ {equal_rate, l_bad, reduce, sound} \subseteq BOOLEAN
  /\ {h, h_old} \subseteq 1 .. KinTime /\ {h_sum, k1} \subseteq Time
  /\ step_bad \in Nat /\ stage \in 0 .. 6
  /\ m \in Time \cup {Stage} /\ m_temp \in Time /\ solution \in Time \cup {Before}
  /\ phases \in Phases /\ kept \in Phases
  /\ try \in 0 .. 13 /\ entry \in [m : Time \cup {Stage}, phases : Phases]

\* Wherever the integration ends, by steps within tolerance or at once because the rates are
\* equal (EQUAL_RATE_OUT leaves the loop without adding h to h_sum), the solution, the phases
\* and the reactants of the cell have all been integrated over the whole of kin_time.
WholeTimeIntegrated ==
  at = "out" =>
    /\ solution = KinTime /\ m = KinTime
    /\ phases = All(KinTime)

\* A step starts from what the step before has saved, and its result, or that of an attempt of
\* order 1, is calculated from there, whatever the stages, the rejected steps and the failed
\* attempts at convergence have done to the phases and reactants since.
StepFromLastSaved ==
  /\ at = "k1" /\ ~l_bad /\ ~reduce => m = h_sum /\ solution = h_sum /\ phases = All(h_sum)
  /\ at \in {"trial", "result"} =>
       /\ m = h_sum + h /\ solution = h_sum
       /\ \A x \in Kind : phases[x] = [time |-> h_sum, adjusted |-> FALSE]

\* When the stages of a step are run the first rate, which is not found again for a step that
\* was shortened, stands for the step as it is now.
FirstRateForStep == at \in {"trial", "stage", "next", "result"} => k1 = h

\* A solution whose result goes elsewhere is as it was before the kinetics; another one has
\* the result.
SolutionKeptOrIntegrated ==
  at = "done" => solution = IF input.elsewhere THEN Before ELSE KinTime

\* What is saved is the result of a run that succeeded.
SavedAfterSuccess == sound

\* The integration ends or gives up, however often steps are shortened, rejected or tried
\* with other parameters, if steps of one unit are never too large.
StepEnds == <>(at \in {"done", "stopped"})
=============================================================================
