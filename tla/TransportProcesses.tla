------------------------- MODULE TransportProcesses -------------------------
(***************************************************************************)
(* The MPI build of PHAST: the time loop of the root and the processes     *)
(* that transport the components.  The root broadcasts the number of each  *)
(* of its routines on the communicator of all processes; a worker, in the  *)
(* loop of MpiWorker, calls the same routine through mpi_methods.  The     *)
(* routine returns at once in a process that is not a transporter; in the  *)
(* others the two sides exchange arrays, each deciding from its own        *)
(* variables which ones.                                                   *)
(*                                                                         *)
(* An array is the number of the step, or of the block of boundary data,   *)
(* it was computed in.  Arrays that one branch of a routine sends one      *)
(* after the other are one message.  MPI keeps apart the broadcasts of     *)
(* each communicator and the messages from process to process, and buffers *)
(* them.  The first state is the one after create_transporters.            *)
(***************************************************************************)
EXTENDS Integers, Sequences, FiniteSets, SequencesExt, FiniteSetsExt

CONSTANTS
  Setups,     \* mpi_tasks, max_transporters, ns, solute, steady_flow, fresur, nsbc > 0
  MaxSteps,   \* bound on the time steps
  MaxBlocks,  \* bound on the blocks of boundary data
  Failing     \* the processes where solving a transport equation may fail

ASSUME SetupsAssumption ==
  Setups \subseteq [tasks : Nat \ {0}, transporters : Nat \ {0}, ns : Nat \ {0},
                    solute : BOOLEAN, steady : BOOLEAN, fresur : BOOLEAN, sbc : BOOLEAN]
ASSUME TransportBounds == {MaxSteps, MaxBlocks} \subseteq Nat /\ Failing \subseteq Nat

Root == 0

VARIABLES
  setup,   \* the input, fixed
  at,      \* where each process is
  world,   \* to each worker: broadcasts on world_comm
  xpcomm,  \* to each worker: broadcasts on xp_comm
  mail,    \* to each worker: messages on xp_comm
  up,      \* from each worker: messages on xp_comm
  itime,   \* the number of the time step, in each process
  own,     \* the flow and boundary data, in each process
  xp,      \* xp_list: the transporter of each component, in the process it is mapped to
  c,       \* the root's concentrations
  errexe,  \* whether the process has met an error of execution
  errexi   \* whether the root has found an error in the data

errors == <<errexe, errexi>>
vars == <<setup, at, world, xpcomm, mail, up, itime, own, xp, c, errors>>
down == <<world, xpcomm, mail>>

Component == 1 .. setup.ns
Rank == 0 .. setup.tasks-1
Worker == Rank \ {Root}

----------------------------------------------------------------------------
(* Who transports what.                                                    *)

NProcesses(s) == Min({s.tasks, s.transporters, s.ns})

\* The root takes part only when every process must.
FirstProcess(s) == IF NProcesses(s) < s.tasks THEN 1 ELSE 0
LastProcess(s) == FirstProcess(s) + NProcesses(s) - 1

\* component_map: round robin; 0 for all when one process is enough.
ComponentMap(s, i) ==
  IF NProcesses(s) > 1 THEN FirstProcess(s) + ((i-1) % NProcesses(s)) ELSE 0

\* The local components of a process, in the order of local_component_map.
Mapped(r) == {i \in Component : ComponentMap(setup, i) = r}
Place(i) == Cardinality({j \in Mapped(ComponentMap(setup, i)) : j <= i})
Locals(r) == [k \in 1 .. Cardinality(Mapped(r)) |-> CHOOSE i \in Mapped(r) : Place(i) = k]

\* Faulty variant: the last transporter is left out of the group.
InGroupShort(r) == setup.solute /\ (r < LastProcess(setup) \/ r = Root)

\* xp_group, false by default: the map is made only for solute transport.
InGroup(r) == setup.solute /\ r <= LastProcess(setup)

----------------------------------------------------------------------------
(* What each routine exchanges.                                            *)

Msg(n, v) == [name |-> n, value |-> v]
Names(q) == [k \in DOMAIN q |-> q[k].name]
When(b, s) == IF b THEN s ELSE <<>>

\* p_distribute looks at the process's own count of time steps.
PNames(r) ==
  IF itime[r] <= 0 THEN <<"p", "frac">> \o When(setup.fresur, <<"mfsbc">>)
  ELSE When(~setup.steady, <<"p">> \o When(setup.fresur, <<"frac", "mfsbc">>))

FlowNames == <<"flow">> \o When(~setup.steady, <<"dp">>) \o When(setup.sbc, <<"qfsbc">>)
             \o <<"deltim">>

\* init3_bcast: thru; then which data are new; then these data, with the fraction of
\* saturation if there is a free surface; its cells are always sent.
BlockNames(thru, rd) ==
  <<"thru">> \o When(~thru, <<"rd">> \o When(rd, <<"bc">>) \o <<"mfsbc", "deltim", "timchg">>)

\* What the root's variables hold under these names.
RootValue(n) ==
  LET o == own[Root]
  IN [time |-> o.time, p |-> o.p, frac |-> o.frac, mfsbc |-> o.frac, flow |-> o.flow,
      dp |-> o.flow, qfsbc |-> o.flow, deltim |-> o.deltim, itime |-> itime[Root]][n]
Load(names) == [k \in DOMAIN names |-> Msg(names[k], RootValue(names[k]))]

\* One message for each component mapped to w.
Letters(w, n, v) == [k \in DOMAIN Locals(w) |-> Msg(n, v[Locals(w)[k]])]

\* The root calls routine m, which broadcasts xs and sends letters to their processes.
Tell(m, xs, letters) ==
  /\ world' = [w \in Worker |-> Append(world[w], Msg(m, 0))]
  /\ xpcomm' = [w \in Worker |-> xpcomm[w] \o When(InGroup(w), xs)]
  /\ mail' = [w \in Worker |-> mail[w] \o When(InGroup(w), letters[w])]
Broadcast(m, xs) == Tell(m, xs, [w \in Worker |-> <<>>])

Init ==
  /\ setup \in Setups
  /\ at = [r \in Rank |-> IF r # Root THEN "loop"
                          ELSE IF setup.steady THEN "start" ELSE "flow0"]
  /\ world = [w \in Worker |-> <<>>]
  /\ xpcomm = world /\ mail = world /\ up = world
  /\ itime = [r \in Rank |-> 0]
  /\ own = [r \in Rank |-> [time |-> 0, p |-> 0, frac |-> 0, flow |-> 0, deltim |-> 0,
                            bc |-> 0, old |-> 0, timchg |-> 0]]
  /\ c = [i \in Component |-> [of |-> i, moved |-> 0, reacted |-> 0, bad |-> FALSE,
                               with |-> [deltim |-> 0]]]
  /\ xp = [i \in Component |-> [c |-> c[i], bc |-> 0, old |-> 0]]
  /\ errexe = [r \in Rank |-> FALSE] /\ errexi = FALSE

----------------------------------------------------------------------------
(* The root: the distributions.                                            *)

Goes(r, from, to) == at[r] = from /\ at' = [at EXCEPT ![r] = to]

\* read3 and init3_distribute of a block, with new boundary data or without.  The root
\* keeps the data of its components in xp_list as well.
SendBlock(rd) ==
  LET block == own[Root].timchg + 1
      value(n) == CASE n = "thru" -> 0 [] n = "rd" -> (IF rd THEN 1 ELSE 0)
                    [] n = "mfsbc" -> own[Root].frac [] n = "deltim" -> own[Root].deltim
                    [] OTHER -> block
      names == BlockNames(FALSE, rd)
      letters == [w \in Worker |-> When(rd, Letters(w, "bc", [i \in Component |-> block]))]
  IN /\ own' = [own EXCEPT ![Root].timchg = block, ![Root].bc = IF rd THEN block ELSE @]
     /\ xp' = [i \in Component |->
                 IF rd /\ i \in Mapped(Root) THEN [xp[i] EXCEPT !.bc = block] ELSE xp[i]]
     /\ Tell("init3_distribute", [k \in DOMAIN names |-> Msg(names[k], value(names[k]))], letters)

\* Steady flow: the first block of boundary data is read before the time loop.
SteadyFlow ==
  /\ Goes(Root, "start", "flow0")
  /\ SendBlock(TRUE)
  /\ UNCHANGED <<setup, up, itime, c, errors>>

\* flow_distribute before the loop; there is no loop for steady flow alone.
InitialFlow ==
  /\ Goes(Root, "flow0", IF setup.solute \/ ~setup.steady THEN "fdtmth" ELSE "exit")
  /\ Broadcast("flow_distribute", Load(FlowNames))
  /\ UNCHANGED <<setup, up, itime, own, xp, c, errors>>

\* set_fdtmth broadcasts its value to all processes.
SetFdtmth ==
  /\ Goes(Root, "fdtmth", "c")
  /\ world' = [w \in Worker |-> world[w] \o <<Msg("set_fdtmth", 0), Msg("fdtmth", 0)>>]
  /\ UNCHANGED <<setup, xpcomm, mail, up, itime, own, xp, c, errors>>

\* Faulty variant: the transporters of the root keep what they had.
CDistributeAway ==
  /\ Goes(Root, "c", "p")
  /\ Tell("c_distribute", Load(<<"time">>), [w \in Worker |-> Letters(w, "c", c)])
  /\ UNCHANGED <<setup, up, itime, own, xp, c, errors>>

CDistribute ==
  /\ Goes(Root, "c", "p")
  /\ Tell("c_distribute", Load(<<"time">>), [w \in Worker |-> Letters(w, "c", c)])
  /\ xp' = [i \in Component |->
              IF i \in Mapped(Root) THEN [xp[i] EXCEPT !.c = c[i]] ELSE xp[i]]
  /\ UNCHANGED <<setup, up, itime, own, c, errors>>

PDistribute ==
  /\ Goes(Root, "p", "read")
  /\ Broadcast("p_distribute", Load(PNames(Root)))
  /\ UNCHANGED <<setup, up, itime, own, xp, c, errors>>

\* DO WHILE (time >= timchg): read3, init3, init3_distribute.
ReadBlock ==
  /\ own[Root].timchg < MaxBlocks
  /\ Goes(Root, "read", "read")
  /\ \E rd \in {own[Root].timchg = 0, TRUE} : SendBlock(rd)
  /\ UNCHANGED <<setup, up, itime, c, errors>>

\* An error in the data ends this loop, and the program only after the transport of the step.
ReadBlockWrong ==
  /\ own[Root].timchg < MaxBlocks /\ itime[Root] < MaxSteps
  /\ Goes(Root, "read", "timestep")
  /\ SendBlock(TRUE)
  /\ errexi' = TRUE
  /\ UNCHANGED <<setup, up, itime, c, errexe>>

\* The block says that the simulation is over.
EndOfBlocks ==
  /\ own[Root].timchg > 0
  /\ Goes(Root, "read", "exit")
  /\ Broadcast("init3_distribute", <<Msg("thru", 1)>>)
  /\ UNCHANGED <<setup, up, itime, own, xp, c, errors>>

BlocksRead ==
  /\ own[Root].timchg > 0 /\ itime[Root] < MaxSteps
  /\ Goes(Root, "read", "timestep")
  /\ UNCHANGED <<setup, down, up, itime, own, xp, c, errors>>

\* Well flow or the boundary conditions of the flow equation fail.
FlowFails ==
  /\ ~setup.steady
  /\ Goes(Root, "timestep", "exit")
  /\ errexe' = [errexe EXCEPT ![Root] = TRUE]
  /\ UNCHANGED <<setup, down, up, itime, own, xp, c, errexi>>

\* After an error in the data the next change may be due at once.  A step of no length
\* stops the program when the routine and the number of the step have been broadcast and
\* its length has not.
TimestepStops ==
  /\ errexi
  /\ Goes(Root, "timestep", "stopped")
  /\ itime' = [itime EXCEPT ![Root] = @+1]
  /\ Broadcast("timestep_worker", <<Msg("itime", itime'[Root])>>)
  /\ UNCHANGED <<setup, up, own, xp, c, errors>>

Timestep ==
  /\ Goes(Root, "timestep", IF setup.steady THEN "transport" ELSE "flow")
  /\ itime' = [itime EXCEPT ![Root] = @+1]
  /\ own' = [own EXCEPT ![Root].deltim = itime'[Root]]
  /\ Broadcast("timestep_worker",
       <<Msg("itime", itime'[Root]), Msg("deltim", itime'[Root]), Msg("time", own[Root].time)>>)
  /\ UNCHANGED <<setup, up, xp, c, errors>>

\* asmslp_flow, then flow_distribute.  Nobody looks at a failure before the transport is over.
Flow ==
  /\ Goes(Root, "flow", "transport")
  /\ own' = [own EXCEPT ![Root].flow = itime[Root]]
  /\ LET names == FlowNames
     IN Broadcast("flow_distribute",
          [k \in DOMAIN names |-> Msg(names[k], itime[Root])])
  /\ errexe' \in {errexe, [errexe EXCEPT ![Root] = TRUE]}
  /\ UNCHANGED <<setup, up, itime, xp, c, errexi>>

----------------------------------------------------------------------------
(* Transport, in any process.                                              *)

\* Component i is transported with what its process has.
Moved(r, i) ==
  [xp[i].c EXCEPT !.moved = @+1,
                  !.with = [deltim |-> own[r].deltim, data |-> own[r],
                            bcs |-> xp[i].bc, olds |-> xp[i].old]]

\* TM_transport: the local components in turn.  The solution for component k fails; it and
\* those after it then take what the last solution gave, as do all once errexe is set.
Transports(r) ==
  \E k \in {setup.ns+1} \cup (IF r \in Failing /\ setup.solute THEN Mapped(r) ELSE {}) :
    /\ errexe' = [errexe EXCEPT ![r] = @ \/ k <= setup.ns]
    /\ xp' = [i \in Component |->
                IF i \notin Mapped(r) \/ ~setup.solute THEN xp[i]
                ELSE [xp[i] EXCEPT !.c = [Moved(r, i) EXCEPT !.bad = @ \/ errexe[r] \/ i >= k]]]

RunTransport ==
  /\ Transports(Root)
  /\ Goes(Root, "transport", IF errexe'[Root] \/ errexi THEN "exit" ELSE "sbc")
  /\ Broadcast("run_transport", <<>>)
  /\ UNCHANGED <<setup, up, itime, own, c, errexi>>

----------------------------------------------------------------------------
(* The root: the gathers and the rest of the step.                         *)

SbcGather ==
  /\ Goes(Root, "sbc", IF setup.solute /\ setup.sbc THEN "sbc wait" ELSE "gather")
  /\ Broadcast("sbc_gather", <<>>)
  /\ UNCHANGED <<setup, up, itime, own, xp, c, errors>>

\* Every message of a gather has come: one for each component mapped to a worker.
Arrived(n) ==
  \A w \in Worker : /\ Len(up[w]) >= Cardinality(Mapped(w))
                    /\ \A k \in 1 .. Cardinality(Mapped(w)) : up[w][k].name = n
TakeLetters == up' = [w \in Worker |-> SubSeq(up[w], Cardinality(Mapped(w))+1, Len(up[w]))]

SbcReceive ==
  /\ Goes(Root, "sbc wait", "gather")
  /\ Arrived("sbc") /\ TakeLetters
  /\ UNCHANGED <<setup, down, itime, own, xp, c, errors>>

CGather ==
  /\ Goes(Root, "gather", IF setup.solute THEN "c wait" ELSE "gathered")
  /\ Broadcast("c_gather", <<>>)
  /\ UNCHANGED <<setup, up, itime, own, xp, c, errors>>

\* Faulty variant: the letters of a process are put down from the last component.
CReceiveBackwards ==
  /\ Goes(Root, "c wait", "gathered")
  /\ Arrived("c") /\ TakeLetters
  /\ c' = [i \in Component |->
             LET o == ComponentMap(setup, i)
             IN IF o = Root THEN xp[i].c
                ELSE up[o][Cardinality(Mapped(o)) + 1 - Place(i)].value]
  /\ UNCHANGED <<setup, down, itime, own, xp, errors>>

CReceive ==
  /\ Goes(Root, "c wait", "gathered")
  /\ Arrived("c") /\ TakeLetters
  /\ c' = [i \in Component |->
             LET o == ComponentMap(setup, i)
             IN IF o = Root THEN xp[i].c ELSE up[o][Place(i)].value]
  /\ UNCHANGED <<setup, down, itime, own, xp, errors>>

\* RM_RunCells gathers the errors of all processes: every worker must have come to it.
RunCellsStarts == setup.solute => \A w \in Worker : at[w] = "loop" /\ world[w] = <<>>

\* sumcal1 moves to the end of the step; it may find a negative pore volume, which nobody
\* looks at before the step is saved.  TimeStepRM reacts the cells.
React ==
  /\ Goes(Root, "gathered", "save")
  /\ RunCellsStarts
  /\ \E ok \in {TRUE, setup.steady} :
       /\ own' = [own EXCEPT ![Root].time = @+1,
                             ![Root].p = IF setup.steady THEN @ ELSE itime[Root],
                             ![Root].frac = IF setup.steady \/ ~setup.fresur \/ ~ok THEN @
                                            ELSE itime[Root]]
       /\ errexe' = [errexe EXCEPT ![Root] = @ \/ ~ok]
  /\ c' = IF setup.solute THEN [i \in Component |-> [c[i] EXCEPT !.reacted = @+1]] ELSE c
  /\ UNCHANGED <<setup, down, up, itime, xp, errexi>>

\* RM_RunCells fails in some process.  CreateRM has set the error handler to exit in all of
\* them: each either does, or waits in RM_RunCells for one that did.
ReactFails ==
  /\ at[Root] = "gathered" /\ setup.solute
  /\ RunCellsStarts
  /\ at' = [q \in Rank |-> "exited"]
  /\ UNCHANGED <<setup, down, up, itime, own, xp, c, errors>>

\* time_step_save: the boundary data become those of the previous step.
Saves(r) ==
  /\ own' = [own EXCEPT ![r].old = IF InGroup(r) THEN own[r].bc ELSE @]
  /\ xp' = [i \in Component |->
              IF InGroup(r) /\ i \in Mapped(r) THEN [xp[i] EXCEPT !.old = xp[i].bc] ELSE xp[i]]

TimeStepSave ==
  /\ Goes(Root, "save", IF errexe[Root] THEN "exit" ELSE "c")
  /\ Saves(Root)
  /\ Broadcast("time_step_save", <<>>)
  /\ UNCHANGED <<setup, up, itime, c, errors>>

MpiWorkerBreak ==
  /\ Goes(Root, "exit", "barrier")
  /\ Broadcast("break", <<>>)
  /\ UNCHANGED <<setup, up, itime, own, xp, c, errors>>

RootStep ==
  \/ SteadyFlow \/ InitialFlow \/ SetFdtmth \/ CDistribute \/ PDistribute \/ ReadBlock
  \/ ReadBlockWrong \/ EndOfBlocks \/ BlocksRead \/ FlowFails \/ TimestepStops \/ Timestep
  \/ Flow \/ RunTransport \/ SbcGather \/ SbcReceive \/ CGather \/ CReceive \/ React
  \/ ReactFails \/ TimeStepSave \/ MpiWorkerBreak

----------------------------------------------------------------------------
(* A worker.                                                               *)

Called(w, m) == at[w] = "loop" /\ world[w] # <<>> /\ Head(world[w]).name = m

\* What worker w takes from the broadcasts and the letters in routine m.
Carries(w, k, n) == Len(xpcomm[w]) >= k /\ xpcomm[w][k] = Msg(n, 1)
XpNames(w, m) ==
  CASE m = "c_distribute"     -> <<"time">>
    [] m = "p_distribute"     -> PNames(w)
    [] m = "flow_distribute"  -> FlowNames
    [] m = "timestep_worker"  -> <<"itime", "deltim", "time">>
    [] m = "init3_distribute" -> BlockNames(Carries(w, 1, "thru"), Carries(w, 2, "rd"))
    [] OTHER                  -> <<>>
MailNames(w, m) ==
  LET all(n) == [k \in DOMAIN Locals(w) |-> n]
  IN CASE m = "c_distribute"     -> all("c")
       [] m = "init3_distribute" -> When("bc" \in ToSet(XpNames(w, m)), all("bc"))
       [] OTHER                  -> <<>>

\* It has all it waits for, and this is what was meant.
Ready(w, m) ==
  /\ Len(xpcomm[w]) >= Len(XpNames(w, m)) /\ Len(mail[w]) >= Len(MailNames(w, m))
Meant(w, m) ==
  IsPrefix(XpNames(w, m), Names(xpcomm[w])) /\ IsPrefix(MailNames(w, m), Names(mail[w]))

Taken(q, w, n) == [q EXCEPT ![w] = SubSeq(@, n+1, Len(@))]
Takes(w, m) ==
  /\ Called(w, m) /\ InGroup(w) /\ Ready(w, m) /\ Meant(w, m)
  /\ world' = Taken(world, w, 1)
  /\ xpcomm' = Taken(xpcomm, w, Len(XpNames(w, m)))
  /\ mail' = Taken(mail, w, Len(MailNames(w, m)))

\* The broadcast data overwrite the worker's.
Got(w, n) == xpcomm[w][CHOOSE k \in DOMAIN xpcomm[w] :
                xpcomm[w][k].name = n /\ \A j \in 1 .. k-1 : xpcomm[w][j].name # n].value
Received(w, m) ==
  LET names == ToSet(XpNames(w, m))
  IN own' = [own EXCEPT ![w] = [f \in DOMAIN own[w] |->
                                  IF f \in names THEN Got(w, f) ELSE own[w][f]]]

\* The early return of a process that is not a transporter.
NotInGroup(w) ==
  /\ at[w] = "loop" /\ world[w] # <<>> /\ ~InGroup(w)
  /\ Head(world[w]).name \notin {"set_fdtmth", "break"}
  /\ world' = Taken(world, w, 1)
  /\ UNCHANGED <<setup, at, xpcomm, mail, up, itime, own, xp, c, errors>>

SetFdtmthWorker(w) ==
  /\ Called(w, "set_fdtmth") /\ Len(world[w]) > 1 /\ world[w][2].name = "fdtmth"
  /\ world' = Taken(world, w, 2)
  /\ UNCHANGED <<setup, at, xpcomm, mail, up, itime, own, xp, c, errors>>

CDistributeWorker(w) ==
  /\ Takes(w, "c_distribute") /\ Received(w, "c_distribute")
  /\ xp' = [i \in Component |->
              IF i \in Mapped(w) THEN [xp[i] EXCEPT !.c = mail[w][Place(i)].value] ELSE xp[i]]
  /\ UNCHANGED <<setup, at, up, itime, c, errors>>

FlowWorker(w) ==
  /\ \E m \in {"p_distribute", "flow_distribute"} : Takes(w, m) /\ Received(w, m)
  /\ UNCHANGED <<setup, at, up, itime, xp, c, errors>>

\* XP_init3_xfer receives the data of each component.
Init3Worker(w) ==
  /\ Takes(w, "init3_distribute") /\ Received(w, "init3_distribute")
  /\ xp' = [i \in Component |->
              IF i \in Mapped(w) /\ MailNames(w, "init3_distribute") # <<>>
              THEN [xp[i] EXCEPT !.bc = mail[w][Place(i)].value] ELSE xp[i]]
  /\ UNCHANGED <<setup, at, up, itime, c, errors>>

\* 'Unsynchronized time step' stops the worker.
TimestepWorker(w) ==
  /\ Takes(w, "timestep_worker") /\ Received(w, "timestep_worker")
  /\ itime' = [itime EXCEPT ![w] = @+1]
  /\ at' = [at EXCEPT ![w] = IF itime'[w] = Got(w, "itime") THEN @ ELSE "stopped"]
  /\ UNCHANGED <<setup, up, xp, c, errors>>

RunTransportWorker(w) ==
  /\ Takes(w, "run_transport") /\ Transports(w)
  /\ UNCHANGED <<setup, at, up, itime, own, c, errexi>>

\* The worker sends its components in their order, whatever has become of them.
SbcGatherWorker(w) ==
  /\ Takes(w, "sbc_gather")
  /\ up' = [up EXCEPT ![w] = @ \o When(setup.sbc, [k \in DOMAIN Locals(w) |-> Msg("sbc", 0)])]
  /\ UNCHANGED <<setup, at, itime, own, xp, c, errors>>

CGatherWorker(w) ==
  /\ Takes(w, "c_gather")
  /\ up' = [up EXCEPT ![w] = @ \o Letters(w, "c", [i \in Component |-> xp[i].c])]
  /\ UNCHANGED <<setup, at, itime, own, xp, c, errors>>

TimeStepSaveWorker(w) ==
  /\ Takes(w, "time_step_save") /\ Saves(w)
  /\ UNCHANGED <<setup, at, up, itime, c, errors>>

\* MpiWorker returns; every worker waits for the barrier.
LeaveLoop(w) ==
  /\ Called(w, "break")
  /\ world' = Taken(world, w, 1)
  /\ at' = [at EXCEPT ![w] = "barrier"]
  /\ UNCHANGED <<setup, xpcomm, mail, up, itime, own, xp, c, errors>>

WorkerStep(w) ==
  \/ NotInGroup(w) \/ SetFdtmthWorker(w) \/ CDistributeWorker(w) \/ FlowWorker(w)
  \/ Init3Worker(w) \/ TimestepWorker(w) \/ RunTransportWorker(w) \/ SbcGatherWorker(w)
  \/ CGatherWorker(w) \/ TimeStepSaveWorker(w) \/ LeaveLoop(w)

\* MPI_Barrier at the end of both programs.
Barrier ==
  /\ \A r \in Rank : at[r] = "barrier"
  /\ at' = [r \in Rank |-> "done"]
  /\ UNCHANGED <<setup, down, up, itime, own, xp, c, errors>>

Next == RootStep \/ Barrier \/ \E w \in Worker : WorkerStep(w)

\* Every process runs on.
AnyWorker == 1 .. Max({s.tasks : s \in Setups}) - 1
Fairness ==
  /\ WF_vars(RootStep) /\ WF_vars(Barrier)
  /\ \A w \in AnyWorker : WF_vars(w \in Worker /\ WorkerStep(w))

Spec == Init /\ [][Next]_vars /\ Fairness

----------------------------------------------------------------------------
(* Properties.                                                             *)

TypeOK ==
  /\ setup \in Setups
  /\ at \in [Rank -> {"start", "flow0", "fdtmth", "c", "p", "read", "timestep", "flow",
                      "transport", "sbc", "sbc wait", "gather", "c wait", "gathered", "save",
                      "exit", "loop", "barrier", "stopped", "exited", "done"}]
  /\ itime \in [Rank -> 0 .. MaxSteps]
  /\ own \in [Rank -> [{"time", "p", "frac", "flow", "deltim", "bc", "old", "timchg"} -> Nat]]
  /\ \A i \in Component : xp[i].c.of = i /\ c[i].of = i
  /\ errexe \in [Rank -> BOOLEAN] /\ errexi \in BOOLEAN

\* time_step_save "copies the transient read3 group data ... to var_n to set up for the next
\* time step": a step starts with the boundary data of the step before.  With flow alone it does
\* not: time_step_save returns at once.
BoundaryDataSaved ==
  at[Root] = "c" /\ itime[Root] > 0 => own[Root].old = own[Root].bc

\* The processes together do what one process does: every component once in every step, with
\* the same data, those of the step, and none with a failed solution; then the reactions.
Serial == INSTANCE SerialTransport WITH
            step <- c[1].moved,
            phase <- IF setup.solute /\ at[Root] \in {"gathered", "exited"}
                     THEN "transported" ELSE "reacted"
SameAsSerial == Serial!SerialSpec

\* Whatever fails in the root and wherever the input ends, all processes leave, except where
\* the root's part of the program ends without telling the others: it stops in a step of no
\* length, or exits because RM_RunCells has failed.  Then a worker may wait for it for ever.
AllLeave ==
  <>(at[Root] \in {"stopped", "exited"} \/ \A r \in Rank : at[r] = "done")
=============================================================================
