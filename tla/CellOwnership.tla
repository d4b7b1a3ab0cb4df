---------------------------- MODULE CellOwnership ----------------------------
(***************************************************************************)
(* What PhreeqcRM promises about the distribution of the reaction cells:   *)
(* at any time every cell belongs to exactly one worker, every worker has  *)
(* work, and the cells of a worker are consecutive, so that the pair       *)
(* GetStartCell/GetEndCell describes them (PhreeqcRM.h, GetStartCell).     *)
(* Rebalancing may choose any such distribution; StateApply brings back    *)
(* the one that was in force at StateSave.                                 *)
(***************************************************************************)
EXTENDS Integers

CONSTANTS
  Count,      \* number of reaction cells (count_chemistry)
  Threads,    \* number of workers (nthreads)
  StateIds    \* the integers that identify saved states

Cell == 0 .. Count - 1
Task == 0 .. Threads - 1

VARIABLES
  owner,      \* the worker each cell belongs to
  kept        \* the distribution stored under each state identifier

vars == <<owner, kept>>

\* Consecutive cells for consecutive workers, none of them idle.
Distribution(f) ==
  /\ \A c, d \in Cell : c <= d => f[c] <= f[d]
  /\ \A w \in Task : \E c \in Cell : f[c] = w

Nothing == <<>>

Init ==
  /\ owner \in {f \in [Cell -> Task] : Distribution(f)}
  /\ kept = [s \in StateIds |-> Nothing]

Reassign ==
  /\ owner' \in {f \in [Cell -> Task] : Distribution(f)}
  /\ UNCHANGED kept

Keep(s) ==
  /\ kept' = [kept EXCEPT ![s] = owner]
  /\ UNCHANGED owner

Restore(s) ==
  /\ kept[s] # Nothing
  /\ owner' = kept[s]
  /\ UNCHANGED kept

Forget(s) ==
  /\ kept' = [kept EXCEPT ![s] = Nothing]
  /\ UNCHANGED owner

Next ==
  \/ Reassign
  \/ \E s \in StateIds : Keep(s) \/ Restore(s) \/ Forget(s)

Spec == Init /\ [][Next]_vars
=============================================================================
