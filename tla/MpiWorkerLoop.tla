--------------------------- MODULE MpiWorkerLoop ---------------------------
(***************************************************************************)
(* The MPI build: the client calls the methods of the root process; every  *)
(* other process sits in MpiWorker, a loop that waits for the number of a  *)
(* method, calls the same method with dummy arguments, and takes part in   *)
(* the collective operations by which the method distributes its arguments *)
(* and gathers its results.  Nothing but the order of these operations     *)
(* tells the processes which one they are in.                              *)
(*                                                                         *)
(* chan[w] holds what the root has broadcast or scattered and worker w has *)
(* not taken yet, up[w] what w has sent into a gather or a barrier and the *)
(* root has not taken.  An operation of one kind that meets one of another *)
(* has no meaning in MPI: the process is lost.                             *)
(*                                                                         *)
(* Methods that distribute and gather in one of the ways below are left    *)
(* out; the error handler mode is 0.                                       *)
(***************************************************************************)
EXTENDS Integers, FiniteSets, Sequences, SequencesExt

CONSTANTS
  Tasks,         \* mpi_tasks
  Cuts,          \* the ways to cut the cells into ranges
  StateIds,      \* the integers the client passes to StateSave
  MaxCalls,      \* bound on the calls of methods that reach the workers
  MaxPending,    \* bound on what a worker has not taken when a mask is refused
  BadSizes,      \* whether the client passes a mask of the wrong size
  ZeroFirst,     \* whether it uses saved states only while there is a state 0
  TransfersFail  \* whether the transfer of a cell to another process may fail

ASSUME TasksAssumption == Tasks \in Nat /\ Tasks > 1
ASSUME BoundAssumption == {MaxCalls, MaxPending} \subseteq Nat /\ Cuts # {} /\ StateIds \subseteq Nat
ASSUME ClientAssumption == {BadSizes, ZeroFirst, TransfersFail} \subseteq BOOLEAN

Root   == 0
Worker == 1 .. Tasks-1
Rank   == 0 .. Tasks-1

Arrays == {"mask", "saturation"}
NoState == "no state"
NoCut == "rebalancing failed"
ASSUME CutsAssumption == {NoState, NoCut} \cap Cuts = {}

VARIABLES
  at,         \* where each process is
  chan, up,   \* from the root to each worker, from each worker to the root
  fraction,   \* rebalance_fraction, 0 or not
  array,      \* print_chem_mask_root and saturation_root
  part,       \* each worker's part of them, and the cut it was made for
  cut,        \* start_cell and end_cell
  saved,      \* state_map
  needCheck,  \* need_error_check
  log,        \* the calls each process has made, with their arguments
  result      \* what RunCells last returned

vars == <<at, chan, up, fraction, array, part, cut, saved, needCheck, log, result>>
settings == <<fraction, array, part, cut, saved, needCheck>>

Init ==
  /\ at = [r \in Rank |-> "loop"]
  /\ chan = [w \in Worker |-> <<>>]
  /\ up = [w \in Worker |-> <<>>]
  /\ fraction = [r \in Rank |-> 1]
  /\ array = [a \in Arrays |-> 0]
  /\ \E c \in Cuts :
       /\ cut = [r \in Rank |-> c]
       /\ part = [w \in Worker |-> [a \in Arrays |-> [value |-> 0, cut |-> c]]]
  /\ saved = [r \in Rank |-> [s \in StateIds |-> NoState]]
  /\ needCheck = [r \in Rank |-> TRUE]
  /\ log = [r \in Rank |-> <<>>]
  /\ result = [r \in Rank |-> "none"]

----------------------------------------------------------------------------
(* Collective operations.                                                  *)

Msg(k, v) == [kind |-> k, value |-> v]

\* MPI_Bcast and MPI_Scatterv at the root: it does not wait for the workers.
Send(msgs) == chan' = [w \in Worker |-> chan[w] \o msgs]

\* MPI_Scatterv of an array, cut by the root's ranges.
Scattered(v) == Msg("part", [value |-> v, cut |-> cut[Root]])

\* MPI_Gather and MPI_Barrier at a worker.
Reply(w, k, v) == up' = [up EXCEPT ![w] = Append(@, Msg(k, v))]

\* The kind of operation each process takes part in next.
Expected == [loop |-> "method", fraction |-> "value", mask |-> "part",
             saturation |-> "part", save |-> "value", apply |-> "value",
             delete |-> "value", checked |-> "count", ran |-> "count",
             gathering |-> "time", balancing |-> "cut", newmask |-> "part",
             newsaturation |-> "part", joining |-> "here", failing |-> "here",
             leaving |-> "leave"]

Comes(w, k) == chan[w] # <<>> /\ Head(chan[w]).kind = k
Take(w) == chan' = [chan EXCEPT ![w] = Tail(@)]
Value(w) == Head(chan[w]).value

\* At the root: a gather or barrier is complete.
AllSent(k) == \A w \in Worker : up[w] # <<>> /\ Head(up[w]).kind = k
TakeAll == up' = [w \in Worker |-> Tail(up[w])]

Mismatch(w) ==
  /\ at[w] \in DOMAIN Expected /\ chan[w] # <<>>
  /\ \/ Head(chan[w]).kind # Expected[at[w]]
     \/ Head(chan[w]).kind = "part" /\ Value(w).cut # cut[w]
  /\ at' = [at EXCEPT ![w] = "lost"]
  /\ UNCHANGED <<chan, up, settings, log, result>>

----------------------------------------------------------------------------
(* Methods with arguments, at the root.                                    *)

Idle == at[Root] = "loop" /\ Len(log[Root]) < MaxCalls
Logged(r, m, v) == log' = [log EXCEPT ![r] = Append(@, <<m, v>>)]

\* Faulty variant: the value is broadcast before it is set.
SetRebalanceFractionLate(f) ==
  /\ Idle /\ f # fraction[Root]
  /\ fraction' = [fraction EXCEPT ![Root] = f]
  /\ Send(<<Msg("method", "fraction"), Msg("value", fraction[Root])>>)
  /\ Logged(Root, "fraction", f)
  /\ UNCHANGED <<at, up, array, part, cut, saved, needCheck, result>>

\* Nothing is sent when the value is the same.  The other scalar settings are alike.
SetRebalanceFraction(f) ==
  /\ Idle /\ f # fraction[Root]
  /\ fraction' = [fraction EXCEPT ![Root] = f]
  /\ Send(<<Msg("method", "fraction"), Msg("value", f)>>)
  /\ Logged(Root, "fraction", f)
  /\ UNCHANGED <<at, up, array, part, cut, saved, needCheck, result>>

\* A vector of the wrong size is refused before anything is sent: no step.  The
\* other vectors of one value for each cell are alike.
SetSaturation(v) ==
  /\ Idle
  /\ array' = [array EXCEPT !["saturation"] = v]
  /\ Send(<<Msg("method", "saturation"), Scattered(v)>>)
  /\ Logged(Root, "saturation", v)
  /\ UNCHANGED <<at, up, fraction, part, cut, saved, needCheck, result>>

SetPrintChemistryMask(v) ==
  /\ Idle
  /\ array' = [array EXCEPT !["mask"] = v]
  /\ Send(<<Msg("method", "mask"), Scattered(v)>>)
  /\ Logged(Root, "mask", v)
  /\ UNCHANGED <<at, up, fraction, part, cut, saved, needCheck, result>>

\* Here the size is looked at after the number of the method has been sent.
SetPrintChemistryMaskRefused ==
  /\ Idle /\ BadSizes /\ \A w \in Worker : Len(chan[w]) < MaxPending
  /\ Send(<<Msg("method", "mask")>>)
  /\ UNCHANGED <<at, up, settings, log, result>>

StateSave(s) ==
  /\ Idle
  /\ saved' = [saved EXCEPT ![Root][s] = cut[Root]]
  /\ Send(<<Msg("method", "save"), Msg("value", s)>>)
  /\ Logged(Root, "save", s)
  /\ UNCHANGED <<at, up, fraction, array, part, cut, needCheck, result>>

MayUse(s) == saved[Root][s] # NoState /\ (ZeroFirst => saved[Root][0] # NoState)

\* Faulty variant: a state that is not there is applied as well.
StateApplyUnchecked(s) ==
  /\ Idle
  /\ cut' = [cut EXCEPT ![Root] = saved[Root][s]]
  /\ Send(<<Msg("method", "apply"), Msg("value", s)>>)
  /\ Logged(Root, "apply", s)
  /\ UNCHANGED <<at, up, fraction, array, part, saved, needCheck, result>>

\* A state that is not there is refused: no step.
StateApply(s) ==
  /\ Idle /\ MayUse(s)
  /\ cut' = [cut EXCEPT ![Root] = saved[Root][s]]
  /\ Send(<<Msg("method", "apply"), Msg("value", s)>>)
  /\ Logged(Root, "apply", s)
  /\ UNCHANGED <<at, up, fraction, array, part, saved, needCheck, result>>

StateDelete(s) ==
  /\ Idle /\ MayUse(s)
  /\ saved' = [saved EXCEPT ![Root][s] = NoState]
  /\ Send(<<Msg("method", "delete"), Msg("value", s)>>)
  /\ Logged(Root, "delete", s)
  /\ UNCHANGED <<at, up, fraction, array, part, cut, needCheck, result>>

MpiWorkerBreak ==
  /\ at[Root] = "loop"
  /\ at' = [at EXCEPT ![Root] = "ended"]
  /\ Send(<<Msg("method", "break")>>)
  /\ UNCHANGED <<up, settings, log, result>>

----------------------------------------------------------------------------
(* MpiWorker: the loop, and the same methods at a worker.                  *)

\* The next method is called.  StateApply and StateDelete are called for state 0
\* and return at once when there is none: what follows stays in the channel.
TakeMethod(w) ==
  /\ at[w] = "loop" /\ Comes(w, "method")
  /\ Value(w) \notin {"break", "run"}
  /\ LET returns == Value(w) \in {"apply", "delete"} /\
                      (0 \notin StateIds \/ saved[w][0] = NoState)
     IN  at' = [at EXCEPT ![w] = IF returns THEN "loop" ELSE Value(w)]
  /\ Take(w)
  /\ UNCHANGED <<up, settings, log, result>>

Break(w) ==
  /\ at[w] = "loop" /\ Comes(w, "method") /\ Value(w) = "break"
  /\ at' = [at EXCEPT ![w] = "ended"]
  /\ Take(w)
  /\ UNCHANGED <<up, settings, log, result>>

\* The argument of the method comes, and worker w does what the root has done.
Done(w, m) == /\ at[w] = m /\ Comes(w, Expected[m])
              /\ at' = [at EXCEPT ![w] = "loop"]
              /\ Take(w)
              /\ UNCHANGED <<up, array, needCheck, result>>

TakeFraction(w) ==
  /\ Done(w, "fraction") /\ Logged(w, "fraction", Value(w))
  /\ fraction' = [fraction EXCEPT ![w] = Value(w)]
  /\ UNCHANGED <<part, cut, saved>>

TakePart(w, a) ==
  /\ Done(w, a) /\ Value(w).cut = cut[w] /\ Logged(w, a, Value(w).value)
  /\ part' = [part EXCEPT ![w][a] = Value(w)]
  /\ UNCHANGED <<fraction, cut, saved>>

TakeSave(w) ==
  /\ Done(w, "save") /\ Logged(w, "save", Value(w))
  /\ saved' = [saved EXCEPT ![w][Value(w)] = cut[w]]
  /\ UNCHANGED <<fraction, part, cut>>

\* Faulty variant: the ranges are left as they are.
TakeApplyCellsOnly(w) ==
  /\ Done(w, "apply") /\ Logged(w, "apply", Value(w))
  /\ UNCHANGED <<fraction, part, saved, cut>>

TakeApply(w) ==
  /\ Done(w, "apply") /\ Logged(w, "apply", Value(w))
  /\ cut' = [cut EXCEPT ![w] = saved[w][Value(w)]]
  /\ UNCHANGED <<fraction, part, saved>>

TakeDelete(w) ==
  /\ Done(w, "delete") /\ Logged(w, "delete", Value(w))
  /\ saved' = [saved EXCEPT ![w][Value(w)] = NoState]
  /\ UNCHANGED <<fraction, part, cut>>

----------------------------------------------------------------------------
(* RunCells.                                                               *)

Failed(e) == IF e THEN "fail" ELSE "ok"
Returns(r, e) == result' = [result EXCEPT ![r] = Failed(e)]
At(r, p) == at' = [at EXCEPT ![r] = p]

\* At the root.  CheckCells is made in the first call.
RunCells ==
  /\ Idle
  /\ Send(<<Msg("method", "run")>>)
  /\ At(Root, IF needCheck[Root] THEN "checked" ELSE "ran")
  /\ needCheck' = [needCheck EXCEPT ![Root] = FALSE]
  /\ Logged(Root, "run", 0)
  /\ UNCHANGED <<up, fraction, array, part, cut, saved, result>>

\* A worker checks or runs its cells and sends whether that failed.
TakeRun(w) ==
  /\ at[w] = "loop" /\ Comes(w, "method") /\ Value(w) = "run"
  /\ At(w, IF needCheck[w] THEN "checked" ELSE "ran")
  /\ needCheck' = [needCheck EXCEPT ![w] = FALSE]
  /\ \E e \in BOOLEAN : Reply(w, "error", e)
  /\ Take(w)
  /\ Logged(w, "run", 0)
  /\ UNCHANGED <<fraction, array, part, cut, saved, result>>

\* HandleErrorsInternal at the root, after CheckCells and after the cells were run:
\* the number of errors goes to all.  (The texts of the errors, which follow, come
\* with the barrier here.)
HandleErrors ==
  /\ at[Root] \in {"checked", "ran"} /\ AllSent("error") /\ TakeAll
  /\ \E mine \in BOOLEAN :
       LET errors == mine \/ \E w \in Worker : Head(up[w]).value
       IN  /\ Send(<<Msg("count", errors)>>)
           /\ At(Root, IF errors THEN "failing"
                       ELSE IF at[Root] = "checked" THEN "ran"
                       ELSE IF fraction[Root] = 0 THEN "joining" ELSE "gathering")
  /\ UNCHANGED <<settings, log, result>>

\* Faulty variant: a worker without an error leaves at once.
TakeCountWithoutBarrier(w) ==
  /\ at[w] \in {"checked", "ran"} /\ Comes(w, "count") /\ Take(w)
  /\ IF Value(w) THEN At(w, "loop") /\ Returns(w, TRUE) /\ UNCHANGED up
     ELSE /\ Returns(w, FALSE)
          /\ IF at[w] = "checked"
             THEN At(w, "ran") /\ \E e \in BOOLEAN : Reply(w, "error", e)
             ELSE IF fraction[w] = 0
             THEN At(w, "leaving") /\ Reply(w, "here", 0)
             ELSE At(w, "balancing") /\ Reply(w, "time", 0)
  /\ UNCHANGED <<settings, log>>

\* The same at a worker.  Without errors the next thing is done: the cells are run, or
\* the load is rebalanced, for which a time is sent, if this worker's fraction says so.
TakeCount(w) ==
  /\ at[w] \in {"checked", "ran"} /\ Comes(w, "count") /\ Take(w)
  /\ IF Value(w) THEN At(w, "leaving") /\ Reply(w, "here", 0) /\ Returns(w, TRUE)
     ELSE /\ Returns(w, FALSE)
          /\ IF at[w] = "checked"
             THEN At(w, "ran") /\ \E e \in BOOLEAN : Reply(w, "error", e)
             ELSE IF fraction[w] = 0
             THEN At(w, "leaving") /\ Reply(w, "here", 0)
             ELSE At(w, "balancing") /\ Reply(w, "time", 0)
  /\ UNCHANGED <<settings, log>>

\* Faulty variant: the mask is scattered in place of the saturations.
NewPartsOfMask(c) == [i \in 1 .. 2 |->
  Msg("part", [value |-> array["mask"], cut |-> c])]

NewParts(c) == [i \in 1 .. 2 |->
  Msg("part", [value |-> array[<<"mask", "saturation">>[i]], cut |-> c])]

\* RebalanceLoad at the root, with the times of all.  Choosing the ranges may fail, and
\* then every process returns.  Otherwise the cells are transferred and, if the ranges
\* have changed, the arrays are scattered again.
RebalanceFails ==
  /\ at[Root] = "gathering" /\ AllSent("time") /\ TakeAll
  /\ Send(<<Msg("cut", NoCut)>>)
  /\ At(Root, "loop") /\ Returns(Root, TRUE)
  /\ UNCHANGED <<settings, log>>

Rebalance(c) ==
  /\ at[Root] = "gathering" /\ AllSent("time") /\ TakeAll
  /\ cut' = [cut EXCEPT ![Root] = c]
  /\ Send(<<Msg("cut", c)>> \o (IF c = cut[Root] THEN <<>> ELSE NewParts(c)))
  /\ At(Root, "joining")
  /\ UNCHANGED <<fraction, array, part, saved, needCheck, log, result>>

\* A transfer fails at the root: it leaves, and neither scatters nor joins.
TransferFailsAtRoot(c) ==
  /\ TransfersFail /\ c # cut[Root]
  /\ at[Root] = "gathering" /\ AllSent("time") /\ TakeAll
  /\ Send(<<Msg("cut", c)>>)
  /\ At(Root, "loop") /\ Returns(Root, TRUE)
  /\ UNCHANGED <<settings, log>>

\* RebalanceLoad at a worker.
TakeCut(w) ==
  /\ at[w] = "balancing" /\ Comes(w, "cut") /\ Value(w) # NoCut /\ Take(w)
  /\ cut' = [cut EXCEPT ![w] = Value(w)]
  /\ IF Value(w) = cut[w] THEN At(w, "leaving") /\ Reply(w, "here", 0)
     ELSE At(w, "newmask") /\ UNCHANGED up
  /\ UNCHANGED <<fraction, array, part, saved, needCheck, log, result>>

TakeNewPart(w, a) ==
  /\ at[w] = (IF a = "mask" THEN "newmask" ELSE "newsaturation")
  /\ Comes(w, "part") /\ Value(w).cut = cut[w] /\ Take(w)
  /\ part' = [part EXCEPT ![w][a] = Value(w)]
  /\ IF a = "mask" THEN At(w, "newsaturation") /\ UNCHANGED up
     ELSE At(w, "leaving") /\ Reply(w, "here", 0)
  /\ UNCHANGED <<fraction, array, cut, saved, needCheck, log, result>>

\* The root could not choose ranges, or a transfer fails at this worker only.
TakeFailure(w) ==
  /\ at[w] = "balancing" /\ Comes(w, "cut") /\ Take(w)
  /\ Value(w) = NoCut \/ (TransfersFail /\ Value(w) # cut[w])
  /\ At(w, "loop") /\ Returns(w, TRUE)
  /\ UNCHANGED <<up, settings, log>>

\* The barrier at the end of RunCells.
Join ==
  /\ at[Root] \in {"joining", "failing"} /\ AllSent("here") /\ TakeAll
  /\ Send(<<Msg("leave", 0)>>)
  /\ At(Root, "loop") /\ Returns(Root, at[Root] = "failing")
  /\ UNCHANGED <<settings, log>>

\* Faulty variant: a worker whose method failed leaves the loop.
LeaveAndEnd(w) ==
  /\ at[w] = "leaving" /\ Comes(w, "leave") /\ Take(w)
  /\ At(w, IF result[w] = "fail" THEN "ended" ELSE "loop")
  /\ UNCHANGED <<up, settings, log, result>>

Leave(w) ==
  /\ at[w] = "leaving" /\ Comes(w, "leave") /\ Take(w)
  /\ At(w, "loop")
  /\ UNCHANGED <<up, settings, log, result>>

----------------------------------------------------------------------------

Client ==
  \/ \E f \in {0, 1} : SetRebalanceFraction(f)
  \/ \E v \in {0, 1} : SetSaturation(v) \/ SetPrintChemistryMask(v)
  \/ SetPrintChemistryMaskRefused
  \/ \E s \in StateIds : StateSave(s) \/ StateApply(s) \/ StateDelete(s)
  \/ RunCells
  \/ MpiWorkerBreak

RootGoesOn ==
  \/ HandleErrors \/ RebalanceFails \/ Join
  \/ \E c \in Cuts : Rebalance(c) \/ TransferFailsAtRoot(c)

MpiWorker(w) ==
  \/ TakeMethod(w) \/ Break(w) \/ Mismatch(w)
  \/ TakeFraction(w) \/ TakeSave(w) \/ TakeApply(w) \/ TakeDelete(w)
  \/ \E a \in Arrays : TakePart(w, a) \/ TakeNewPart(w, a)
  \/ TakeRun(w) \/ TakeCount(w) \/ TakeCut(w) \/ TakeFailure(w) \/ Leave(w)

\* Nothing happens any more when all have left the loop.
Next == Client \/ RootGoesOn \/ \E w \in Worker : MpiWorker(w)

\* Every process runs, and MPI delivers what has been sent; the client owes nothing.
Fairness == WF_vars(RootGoesOn) /\ \A w \in Worker : WF_vars(MpiWorker(w))

Spec == Init /\ [][Next]_vars /\ Fairness

----------------------------------------------------------------------------
(* Properties.                                                             *)

\* The settings have their types, and the channels carry messages of known kinds.
TypeOK ==
  /\ \A r \in Rank : at[r] \in DOMAIN Expected \cup {"ended", "lost"}
  /\ \A w \in Worker :
       /\ \A i \in DOMAIN chan[w] : chan[w][i].kind \in
            {"method", "value", "part", "count", "cut", "leave"}
       /\ \A i \in DOMAIN up[w] : up[w][i].kind \in {"error", "time", "here"}
  /\ fraction \in [Rank -> {0, 1}]
  /\ cut \in [Rank -> Cuts]
  /\ saved \in [Rank -> [StateIds -> Cuts \cup {NoState}]]
  /\ needCheck \in [Rank -> BOOLEAN]
  /\ result \in [Rank -> {"none", "ok", "fail"}]
  /\ \A r \in Rank : Len(log[r]) <= MaxCalls

\* Every worker makes the calls the root makes, with the same arguments, in the same
\* order, and no others.
SameCalls == \A w \in Worker : IsPrefix(log[w], log[Root])

Quiet ==
  at[Root] = "loop" /\ \A w \in Worker : at[w] = "loop" /\ chan[w] = <<>>

\* When nothing is under way all processes have the same settings, ranges and saved
\* states, and RunCells has returned the same to all of them.
ProcessesAgree ==
  Quiet => \A w \in Worker :
             /\ fraction[w] = fraction[Root] /\ cut[w] = cut[Root]
             /\ saved[w] = saved[Root] /\ needCheck[w] = needCheck[Root]
             /\ result[w] = result[Root]
             /\ up[w] = <<>>

\* The client passes masks of the right size and uses no state before it has saved the
\* first, and no transfer fails.
Careful == ~ BadSizes /\ ZeroFirst /\ 0 \in StateIds /\ ~ TransfersFail

\* No worker meets an operation that it does not expect.
NobodyLost == \A w \in Worker : at[w] # "lost"

\* When nothing is under way each worker has the values of the cells of its range.
\* This does not hold: after StateApply the parts are those of the ranges before.
PartsAreCurrent ==
  Quiet => \A w \in Worker, a \in Arrays :
             part[w][a] = [value |-> array[a], cut |-> cut[w]]

\* The arrays follow the cells, whatever sets them and however often the ranges change,
\* until a state is applied.
PartsFollow ==
  PartsAreCurrent \/ \E i \in DOMAIN log[Root] : log[Root][i][1] = "apply"

\* Every worker performs every call that the root has made.
WorkersRespond ==
  \A w \in Worker, n \in 1 .. MaxCalls : Len(log[Root]) >= n ~> Len(log[w]) >= n

\* RunCells returns at the root.
RunCellsReturns ==
  at[Root] \in {"checked", "ran", "gathering", "joining", "failing"} ~> at[Root] = "loop"
=============================================================================
