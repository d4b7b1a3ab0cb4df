---------------------- MODULE TransportProcessesProofs ----------------------
(***************************************************************************)
(* The root runs ahead of the workers: what it has sent waits in three     *)
(* queues for each of them.  The proof follows every worker to the state   *)
(* it will have when its queues are empty: that state is the one the root  *)
(* counts on.  The failure of a solution in a worker, which the root never *)
(* hears of, is excluded: FailuresInRoot.                                  *)
(***************************************************************************)
EXTENDS TransportProcesses, FiniteSetTheorems, SequenceTheorems, TLAPS

FailuresInRoot == Failing \subseteq {Root}

----------------------------------------------------------------------------
(* The same operators for a setup that does not change.                    *)

Comps(u)       == 1 .. u.ns
MappedIn(u, r) == {i \in Comps(u) : ComponentMap(u, i) = r}
PlaceIn(u, i)  == Cardinality({j \in MappedIn(u, ComponentMap(u, i)) : j <= i})
Count(u, r)    == Cardinality(MappedIn(u, r))
LocalsIn(u, r) == [k \in 1 .. Count(u, r) |-> CHOOSE i \in MappedIn(u, r) : PlaceIn(u, i) = k]
InGroupIn(u, r) == u.solute /\ r <= LastProcess(u)

\* The letters of a process: the value of each of its components, or always the same.
LettersIn(u, r, n, d) == [k \in 1 .. Count(u, r) |-> Msg(n, d[LocalsIn(u, r)[k]])]
SameLetters(u, r, n, v) == [k \in 1 .. Count(u, r) |-> Msg(n, v)]

----------------------------------------------------------------------------
(* The names of the routines and of what they exchange.                    *)

Routine == {"c_distribute", "p_distribute", "flow_distribute", "timestep_worker",
            "init3_distribute", "run_transport", "sbc_gather", "c_gather", "time_step_save"}

Name == Routine \cup {"set_fdtmth", "fdtmth", "break", "time", "p", "frac", "mfsbc", "flow", "dp",
                       "qfsbc", "deltim", "thru", "rd", "bc", "timchg", "itime", "sbc", "c"}

----------------------------------------------------------------------------
(* What a process has.                                                     *)

Fields == {"time", "p", "frac", "flow", "deltim", "bc", "old", "timchg"}
OwnT   == [Fields -> Nat]
WithT  == [deltim : {0}] \cup [deltim : Nat, data : OwnT, bcs : Nat, olds : Nat]
CT(i)  == [of : {i}, moved : Nat, reacted : Nat, bad : BOOLEAN, with : WithT]
AnyC   == UNION {CT(i) : i \in Nat}
XpT(i) == [c : CT(i), bc : Nat, old : Nat]
XpsT(u, r) == {x \in [MappedIn(u, r) -> UNION {XpT(i) : i \in Nat}] :
                 \A i \in MappedIn(u, r) : x[i] \in XpT(i)}
DataT(u) == {d \in [Comps(u) -> AnyC] : \A i \in Comps(u) : d[i] \in CT(i)}
Message  == [name : Name, value : Nat \cup AnyC]

CoreT(u, w)  == [at : {"loop", "stopped", "exited", "barrier", "done"}, itime : Nat,
                 own : OwnT, xp : XpsT(u, w)]
StateT(u, w) == [core : CoreT(u, w), up : Seq(Message),
                 world : Seq(Message), xpcomm : Seq(Message), mail : Seq(Message)]

Core(w)  == [at |-> at[w], itime |-> itime[w], own |-> own[w], xp |-> [i \in Mapped(w) |-> xp[i]]]
State(w) == [core |-> Core(w), up |-> up[w],
             world |-> world[w], xpcomm |-> xpcomm[w], mail |-> mail[w]]

----------------------------------------------------------------------------
(* What a worker makes of one call of the root.                            *)

PNamesIn(u, n) ==
  IF n <= 0 THEN <<"p", "frac">> \o When(u.fresur, <<"mfsbc">>)
  ELSE When(~u.steady, <<"p">> \o When(u.fresur, <<"frac", "mfsbc">>))
FlowNamesIn(u) ==
  <<"flow">> \o When(~u.steady, <<"dp">>) \o When(u.sbc, <<"qfsbc">>) \o <<"deltim">>

\* Messages with these names: v for all but the name n, x for that.
Filled(names, n, x, v) ==
  [k \in DOMAIN names |-> Msg(names[k], IF names[k] = n THEN x ELSE v)]

\* Component d as it is after its transport by a process that has o.
MovedIn(o, d) ==
  [d EXCEPT !.moved = @+1,
            !.with = [deltim |-> o.deltim, data |-> o, bcs |-> o.bc, olds |-> o.old]]

\* The routines of a transporter: what it takes from xp_comm, broadcasts and letters, and
\* what it sends.
Time(u, w, xs, ls, us, s, t) ==
  \E v \in Nat, d \in DataT(u) :
    /\ xs = <<Msg("time", v)>> /\ ls = LettersIn(u, w, "c", d) /\ us = <<>>
    /\ t.own = [s.own EXCEPT !.time = v]
    /\ t.xp = [i \in MappedIn(u, w) |-> [s.xp[i] EXCEPT !.c = d[i]]]
Pressure(u, w, xs, ls, us, s, t) ==
  \E x \in Nat, v \in Nat :
    /\ xs = Filled(PNamesIn(u, s.itime), "p", x, v) /\ ls = <<>> /\ us = <<>>
    /\ t.own = [f \in Fields |-> IF f \notin ToSet(PNamesIn(u, s.itime)) THEN s.own[f]
                                 ELSE IF f = "p" THEN x ELSE v]
    /\ t.xp = s.xp
Flows(u, w, xs, ls, us, s, t) ==
  \E x \in Nat, v \in Nat :
    /\ xs = Filled(FlowNamesIn(u), "deltim", x, v) /\ ls = <<>> /\ us = <<>>
    /\ t.own = [s.own EXCEPT !.flow = v, !.deltim = x]
    /\ t.xp = s.xp
TimeStep(u, w, xs, ls, us, s, t) ==
  \E x \in Nat, v \in Nat :
    /\ xs = <<Msg("itime", s.itime + 1), Msg("deltim", x), Msg("time", v)>>
    /\ ls = <<>> /\ us = <<>>
    /\ t.own = [s.own EXCEPT !.deltim = x, !.time = v]
    /\ t.xp = s.xp
LastBlock(u, w, xs, ls, us, s, t) ==
  /\ xs = <<Msg("thru", 1)>> /\ ls = <<>> /\ us = <<>>
  /\ t.own = s.own /\ t.xp = s.xp
OldBlock(u, w, xs, ls, us, s, t) ==
  \E x \in Nat, b \in Nat, g \in Nat :
    /\ xs = <<Msg("thru", 0), Msg("rd", 0), Msg("mfsbc", g), Msg("deltim", x),
              Msg("timchg", b)>>
    /\ ls = <<>> /\ us = <<>>
    /\ t.own = [s.own EXCEPT !.deltim = x, !.timchg = b]
    /\ t.xp = s.xp
NewBlock(u, w, xs, ls, us, s, t) ==
  \E x \in Nat, b \in Nat, g \in Nat :
    /\ xs = <<Msg("thru", 0), Msg("rd", 1), Msg("bc", b), Msg("mfsbc", g), Msg("deltim", x),
              Msg("timchg", b)>>
    /\ ls = SameLetters(u, w, "bc", b) /\ us = <<>>
    /\ t.own = [s.own EXCEPT !.bc = b, !.deltim = x, !.timchg = b]
    /\ t.xp = [i \in MappedIn(u, w) |-> [s.xp[i] EXCEPT !.bc = b]]
Moves(u, w, xs, ls, us, s, t) ==
  /\ xs = <<>> /\ ls = <<>> /\ us = <<>>
  /\ t.own = s.own
  /\ t.xp = [i \in MappedIn(u, w) |->
               [s.xp[i] EXCEPT !.c = [s.xp[i].c EXCEPT
                  !.moved = @+1,
                  !.with = [deltim |-> s.own.deltim, data |-> s.own,
                            bcs |-> s.xp[i].bc, olds |-> s.xp[i].old]]]]
Sbc(u, w, xs, ls, us, s, t) ==
  /\ xs = <<>> /\ ls = <<>> /\ us = When(u.sbc, SameLetters(u, w, "sbc", 0))
  /\ t.own = s.own /\ t.xp = s.xp
Answers(u, w, xs, ls, us, s, t) ==
  /\ xs = <<>> /\ ls = <<>>
  /\ us = LettersIn(u, w, "c", [i \in MappedIn(u, w) |-> s.xp[i].c])
  /\ t.own = s.own /\ t.xp = s.xp
Saved(u, w, xs, ls, us, s, t) ==
  /\ xs = <<>> /\ ls = <<>> /\ us = <<>>
  /\ t.own = [s.own EXCEPT !.old = s.own.bc]
  /\ t.xp = [i \in MappedIn(u, w) |-> [s.xp[i] EXCEPT !.old = s.xp[i].bc]]

\* In a transporter; in a process that is not one; the two that every process takes part in.
InRoutine(u, w, m, xs, ls, us, s, t) ==
  /\ t.at = s.at /\ t.itime = IF m = "timestep_worker" THEN s.itime + 1 ELSE s.itime
  /\ \/ m = "c_distribute" /\ Time(u, w, xs, ls, us, s, t)
     \/ m = "p_distribute" /\ Pressure(u, w, xs, ls, us, s, t)
     \/ m = "flow_distribute" /\ Flows(u, w, xs, ls, us, s, t)
     \/ m = "timestep_worker" /\ TimeStep(u, w, xs, ls, us, s, t)
     \/ m = "init3_distribute" /\ LastBlock(u, w, xs, ls, us, s, t)
     \/ m = "init3_distribute" /\ OldBlock(u, w, xs, ls, us, s, t)
     \/ m = "init3_distribute" /\ NewBlock(u, w, xs, ls, us, s, t)
     \/ m = "run_transport" /\ Moves(u, w, xs, ls, us, s, t)
     \/ m = "sbc_gather" /\ Sbc(u, w, xs, ls, us, s, t)
     \/ m = "c_gather" /\ Answers(u, w, xs, ls, us, s, t)
     \/ m = "time_step_save" /\ Saved(u, w, xs, ls, us, s, t)
TransporterCall(u, w, ms, xs, ls, us, s, t) ==
  \E m \in Routine : /\ InGroupIn(u, w) /\ ms = <<Msg(m, 0)>>
                     /\ InRoutine(u, w, m, xs, ls, us, s, t)
OtherCall(u, w, ms, xs, ls, us, s, t) ==
  \E m \in Routine : /\ ~InGroupIn(u, w) /\ ms = <<Msg(m, 0)>>
                     /\ xs = <<>> /\ ls = <<>> /\ us = <<>> /\ t = s
FdtmthCall(ms, xs, ls, us, s, t) ==
  /\ ms = <<Msg("set_fdtmth", 0), Msg("fdtmth", 0)>>
  /\ xs = <<>> /\ ls = <<>> /\ us = <<>> /\ t = s
BreakCall(ms, xs, ls, us, s, t) ==
  /\ ms = <<Msg("break", 0)>>
  /\ xs = <<>> /\ ls = <<>> /\ us = <<>> /\ t = [s EXCEPT !.at = "barrier"]
Makes(u, w, ms, xs, ls, us, s, t) ==
  \/ TransporterCall(u, w, ms, xs, ls, us, s, t) \/ OtherCall(u, w, ms, xs, ls, us, s, t)
  \/ FdtmthCall(ms, xs, ls, us, s, t) \/ BreakCall(ms, xs, ls, us, s, t)

\* A worker with s takes part in one call and has t.
Step(u, w, s, t) ==
  /\ s.core.at = "loop"
  /\ \E ms, xs, ls, us \in Seq(Message) :
       /\ s.world = ms \o t.world /\ s.xpcomm = xs \o t.xpcomm /\ s.mail = ls \o t.mail
       /\ t.up = s.up \o us
       /\ Makes(u, w, ms, xs, ls, us, s.core, t.core)

\* What never goes back.
Leads(s, t) ==
  /\ s.core.itime <= t.core.itime
  /\ Len(s.up) <= Len(t.up) /\ \A k \in 1 .. Len(s.up) : s.up[k] = t.up[k]

\* It comes from s to t in any number of calls.
Comes(u, w, s, t) ==
  \E n \in Nat, h \in [Nat -> StateT(u, w)] :
    /\ h[0] = s /\ h[n] = t
    /\ \A i \in 1 .. n : Step(u, w, h[i-1], h[i])
    /\ \A i, j \in 0 .. n : i <= j => Leads(h[i], h[j])

Idle(t) == t.world = <<>> /\ t.xpcomm = <<>> /\ t.mail = <<>>

----------------------------------------------------------------------------
(* What the root counts on: it is at a, in time step n, has o and d.       *)

Before == {"p", "read", "timestep", "flow", "transport"}
Behind == {"sbc", "sbc wait", "gather", "c wait"}

\* Where the program ends.  The root counts on no data any more.
Over == {"barrier", "done", "stopped", "exited"}
Ends == {"exit"} \cup Over

\* What is not yet distributed.
Old(u, a) ==
  IF a \in Ends THEN Fields
  ELSE (IF a \in {"save", "c"} THEN {"time"} ELSE {}) \cup
       (IF a \in {"save", "c", "p"} /\ ~u.steady
        THEN IF u.fresur THEN {"p", "frac"} ELSE {"p"} ELSE {})

\* The components of process r.
XpFollows(u, r, x, a, o, d) ==
  \A i \in MappedIn(u, r) :
    /\ x[i].bc = o.bc /\ x[i].old = o.old
    /\ a \in Before => x[i].c = d[i]
    /\ a \in Behind => x[i].c = MovedIn(o, d[i])

Sends(u, w, a, o, d) ==
  IF a = "sbc wait" THEN SameLetters(u, w, "sbc", 0)
  ELSE IF a = "c wait" THEN LettersIn(u, w, "c", [i \in Comps(u) |-> MovedIn(o, d[i])])
  ELSE <<>>

Follows(u, w, t, a, n, o, d) ==
  /\ t.core.at = IF a \in {"barrier", "done", "exited"} THEN a ELSE "loop"
  /\ t.up = Sends(u, w, a, o, d)
  /\ ~InGroupIn(u, w) => t.core.itime = 0
  /\ InGroupIn(u, w) =>
       /\ t.core.itime = IF a = "stopped" THEN n - 1 ELSE n
       /\ \A f \in Fields \ Old(u, a) : t.core.own[f] = o[f]
       /\ XpFollows(u, w, t.core.xp, a, o, d)

\* What is left in the queues then: nothing, or the beginning of the call that the root
\* has stopped in.
Unfinished(t, n) ==
  t.world = <<Msg("timestep_worker", 0)>> /\ t.xpcomm = <<Msg("itime", n)>> /\ t.mail = <<>>
Rests(u, w, t, a, n) ==
  IF a = "stopped" /\ InGroupIn(u, w) THEN Unfinished(t, n) ELSE Idle(t)

\* A worker comes to what the root counts on.
Sound(u, w, s, a, n, o, d) ==
  \E t \in StateT(u, w) :
    Comes(u, w, s, t) /\ Rests(u, w, t, a, n) /\ Follows(u, w, t, a, n, o, d)

RootAt == {"start", "flow0", "fdtmth", "c", "p", "read", "timestep", "flow", "transport", "sbc",
           "sbc wait", "gather", "c wait", "gathered", "save", "exit", "barrier", "done",
           "stopped", "exited"}
During == {"flow", "transport"} \cup Behind

Types ==
  /\ setup \in Setups
  /\ at \in [Rank -> RootAt \cup {"loop"}] /\ at[Root] \in RootAt
  /\ itime \in [Rank -> Nat] /\ itime[Root] \in 0 .. MaxSteps
  /\ own \in [Rank -> OwnT]
  /\ world \in [Worker -> Seq(Message)] /\ xpcomm \in [Worker -> Seq(Message)]
  /\ mail \in [Worker -> Seq(Message)] /\ up \in [Worker -> Seq(Message)]
  /\ xp \in [Component -> UNION {XpT(i) : i \in Nat}]
  /\ \A i \in Component : xp[i] \in XpT(i)
  /\ c \in DataT(setup)
  /\ errexe \in [Rank -> BOOLEAN] /\ errexi \in BOOLEAN

RootFactsAt(u, a, n, o, d, x) ==
  /\ a = "timestep" => n < MaxSteps
  /\ a \in {"sbc wait", "c wait"} => u.solute
  /\ a \in During \cup {"gathered"} => o.deltim = n
  /\ u.solute /\ a \in RootAt \ Ends =>
       \A i \in Comps(u) : d[i].moved = IF a \in During THEN n - 1 ELSE n
  /\ u.solute => XpFollows(u, Root, x, a, o, d)
RootFacts == RootFactsAt(setup, at[Root], itime[Root], own[Root], c, xp)

WorkersFollow ==
  \A w \in Worker : Sound(setup, w, State(w), at[Root], itime[Root], own[Root], c)

WorkersSucceed == \A w \in Worker : ~errexe[w]

Inv == Types /\ RootFacts /\ WorkersSucceed /\ WorkersFollow

----------------------------------------------------------------------------
(* Who transports what.                                                    *)

\* The first process is 0 or 1, and the last one exists.
LEMMA Processes ==
  ASSUME NEW u \in Setups
  PROVE  /\ u.tasks \in Nat \ {0} /\ u.ns \in Nat \ {0} /\ u.solute \in BOOLEAN
         /\ u.steady \in BOOLEAN /\ u.fresur \in BOOLEAN /\ u.sbc \in BOOLEAN
         /\ NProcesses(u) \in 1 .. u.tasks /\ FirstProcess(u) \in {0, 1}
         /\ LastProcess(u) \in 0 .. u.tasks - 1
         /\ \A i \in Comps(u) : ComponentMap(u, i) \in 0 .. LastProcess(u)
<1>1. /\ u.tasks \in Nat \ {0} /\ u.ns \in Nat \ {0} /\ u.transporters \in Nat \ {0}
      /\ u.solute \in BOOLEAN /\ u.steady \in BOOLEAN /\ u.fresur \in BOOLEAN /\ u.sbc \in BOOLEAN
  BY SetupsAssumption
<1> DEFINE S == {u.tasks, u.transporters, u.ns}
<1>2. \E x \in S : \A y \in S : x <= y  BY <1>1
<1>3. Min(S) \in S /\ \A y \in S : Min(S) <= y  BY <1>2 DEF Min
<1>4. NProcesses(u) \in 1 .. u.tasks  BY <1>1, <1>3 DEF NProcesses
<1>5. /\ FirstProcess(u) \in {0, 1} /\ FirstProcess(u) + NProcesses(u) <= u.tasks
      /\ FirstProcess(u) + NProcesses(u) >= 1
  BY <1>1, <1>4 DEF FirstProcess
<1>6. LastProcess(u) \in 0 .. u.tasks - 1 /\ LastProcess(u) = FirstProcess(u) + NProcesses(u) - 1
  BY <1>1, <1>4, <1>5 DEF LastProcess
<1>7. ASSUME NEW i \in Comps(u) PROVE ComponentMap(u, i) \in 0 .. LastProcess(u)
  <2>1. CASE NProcesses(u) > 1
    <3>1. (i-1) % NProcesses(u) \in 0 .. NProcesses(u) - 1  BY <1>1, <1>4 DEF Comps
    <3> QED  BY <1>1, <1>4, <1>5, <1>6, <2>1, <3>1 DEF ComponentMap
  <2>2. CASE ~(NProcesses(u) > 1)  BY <1>6, <2>2 DEF ComponentMap
  <2> QED  BY <2>1, <2>2
<1> QED  BY <1>1, <1>4, <1>5, <1>6, <1>7

\* The places of the elements of a finite set are the numbers from 1 on.
LEMMA Places ==
  ASSUME NEW S \in SUBSET Nat, IsFiniteSet(S)
  PROVE  /\ Cardinality(S) \in Nat
         /\ [x \in S |-> Cardinality({y \in S : y <= x})] \in Bijection(S, 1 .. Cardinality(S))
<1> DEFINE R(x) == {y \in S : y <= x}
           n == Cardinality(S)
           f == [x \in S |-> Cardinality(R(x))]
<1>1. n \in Nat  BY FS_CardinalityType
<1>2. ASSUME NEW x \in S PROVE IsFiniteSet(R(x)) /\ Cardinality(R(x)) \in 1 .. n
  <2>1. R(x) \in SUBSET S /\ x \in R(x)  OBVIOUS
  <2> HIDE DEF R
  <2>2. IsFiniteSet(R(x)) /\ Cardinality(R(x)) <= n  BY <2>1, FS_Subset
  <2>3. Cardinality(R(x)) \in Nat /\ Cardinality(R(x)) # 0
    BY <2>1, <2>2, FS_CardinalityType, FS_EmptySet
  <2> QED  BY <1>1, <2>2, <2>3
<1>3. ASSUME NEW x \in S, NEW y \in S, x < y PROVE Cardinality(R(x)) < Cardinality(R(y))
  <2>1. \A z \in S : z \in Nat /\ (z <= x => z <= y)  BY <1>3
  <2>2. R(x) \in SUBSET R(y)
    <3>1. \A z \in R(x) : z \in R(y)  BY <2>1
    <3> HIDE DEF R
    <3> QED  BY <3>1
  <2>3. x \in Int /\ y \in Int  OBVIOUS
  <2>4. y \in R(y) /\ y \notin R(x)  BY <1>3, <2>3
  <2> HIDE DEF R
  <2>5. Cardinality(R(x)) <= Cardinality(R(y)) /\ Cardinality(R(y)) # Cardinality(R(x))
    BY <1>2, <2>2, <2>4, FS_Subset
  <2> QED  BY <1>2, <2>5
<1> HIDE DEF R, n
<1>4. f \in [S -> 1 .. n] /\ \A x \in S : f[x] = Cardinality(R(x))  BY <1>2
<1> HIDE DEF f
<1>5. ASSUME NEW x \in S, NEW y \in S, x # y PROVE f[x] # f[y]
  <2>1. f[x] \in 1 .. n /\ f[y] \in 1 .. n  BY <1>4
  <2>2. x < y \/ y < x  BY <1>5
  <2> QED  BY <1>1, <1>3, <1>4, <2>1, <2>2
<1>6. f \in Injection(S, 1 .. n)  BY <1>4, <1>5 DEF Injection, IsInjective
<1>7. IsFiniteSet(1 .. n) /\ Cardinality(1 .. n) = n  BY <1>1, FS_Interval
<1>8. f \in Surjection(S, 1 .. n)  BY <1>6, <1>7, FS_Injection DEF n
<1> QED  BY <1>1, <1>6, <1>8 DEF Bijection, f, n, R

\* The letters of a process are those of its components, each at its place.
LEMMA LocalsFacts ==
  ASSUME NEW u \in Setups, NEW r
  PROVE  /\ Count(u, r) \in Nat /\ MappedIn(u, r) \subseteq Comps(u)
         /\ \A i \in MappedIn(u, r) : /\ PlaceIn(u, i) \in 1 .. Count(u, r)
                                      /\ LocalsIn(u, r)[PlaceIn(u, i)] = i
         /\ \A k \in 1 .. Count(u, r) : LocalsIn(u, r)[k] \in MappedIn(u, r)
         /\ Count(u, r) = 0 => MappedIn(u, r) = {}
         /\ LocalsIn(u, r) = [k \in 1 .. Count(u, r) |-> LocalsIn(u, r)[k]]
<1> DEFINE S == MappedIn(u, r)
           f == [x \in S |-> Cardinality({y \in S : y <= x})]
<1>1. S \in SUBSET Nat /\ S \in SUBSET (1 .. u.ns) /\ u.ns \in Nat
  BY Processes DEF MappedIn, Comps
<1>2. IsFiniteSet(S)
  <2>1. IsFiniteSet(1 .. u.ns)  BY <1>1, FS_Interval
  <2> HIDE DEF S
  <2> QED  BY <1>1, <2>1, FS_Subset
<1>3. Count(u, r) = Cardinality(S)  BY DEF Count
<1>4. \A i \in S : PlaceIn(u, i) = f[i]
  <2>1. \A i \in S : ComponentMap(u, i) = r  BY DEF MappedIn
  <2> QED  BY <2>1 DEF PlaceIn
<1> HIDE DEF S
<1>5. Cardinality(S) \in Nat /\ f \in Bijection(S, 1 .. Cardinality(S))  BY <1>1, <1>2, Places
<1> HIDE DEF f
<1>6. /\ \A i \in S : f[i] \in 1 .. Cardinality(S)
      /\ \A i, j \in S : f[i] = f[j] => i = j
      /\ \A k \in 1 .. Cardinality(S) : \E i \in S : f[i] = k
  BY <1>5 DEF Bijection, Injection, Surjection, IsInjective
<1>7. ASSUME NEW k \in 1 .. Count(u, r)
      PROVE  LocalsIn(u, r)[k] \in S /\ PlaceIn(u, LocalsIn(u, r)[k]) = k
  <2>1. \E i \in S : PlaceIn(u, i) = k  BY <1>3, <1>4, <1>6, <1>7
  <2>2. LocalsIn(u, r)[k] = CHOOSE i \in S : PlaceIn(u, i) = k  BY <1>7 DEF LocalsIn, S
  <2> QED  BY <2>1, <2>2
<1>8. ASSUME NEW i \in S
      PROVE  PlaceIn(u, i) \in 1 .. Count(u, r) /\ LocalsIn(u, r)[PlaceIn(u, i)] = i
  <2>1. PlaceIn(u, i) \in 1 .. Count(u, r)  BY <1>3, <1>4, <1>6
  <2> QED  BY <1>4, <1>6, <1>7, <2>1
<1>9. Count(u, r) = 0 => S = {}  BY <1>2, <1>3, FS_EmptySet
<1>10. LocalsIn(u, r) = [k \in 1 .. Count(u, r) |-> LocalsIn(u, r)[k]]  BY DEF LocalsIn
<1> QED  BY <1>1, <1>3, <1>5, <1>7, <1>8, <1>9, <1>10 DEF S, Comps

----------------------------------------------------------------------------
(* Coming to a state.                                                      *)

\* With more in the queues, and with the first letters of its own taken by the root.
Plus(s, a, x, l) ==
  [core |-> s.core, up |-> s.up,
   world |-> s.world \o a, xpcomm |-> s.xpcomm \o x, mail |-> s.mail \o l]
Drop(s, k) ==
  [core |-> s.core, up |-> SubSeq(s.up, k+1, Len(s.up)),
   world |-> s.world, xpcomm |-> s.xpcomm, mail |-> s.mail]

\* Queues of messages.
LEMMA QueueAssoc == \A a, b, d \in Seq(Message) : (a \o b) \o d = a \o (b \o d)
<1> DEFINE M == Message
<1> HIDE DEF M
<1>1. \A a, b, d \in Seq(M) : (a \o b) \o d = a \o (b \o d)  BY ConcatAssociative
<1> QED  BY <1>1 DEF M

\* Nothing added to a queue, on either side.
LEMMA QueueEmpty == \A a \in Seq(Message) : a \o <<>> = a /\ <<>> \o a = a
<1> DEFINE M == Message
<1> HIDE DEF M
<1>1. \A a \in Seq(M) : a \o <<>> = a /\ <<>> \o a = a  BY ConcatEmptySeq
<1> QED  BY <1>1 DEF M

\* What is left of a queue when its beginning is taken.
LEMMA QueueRest ==
  \A a, b \in Seq(Message) :
    a \o b \in Seq(Message) /\ SubSeq(a \o b, Len(a) + 1, Len(a \o b)) = b
<1> DEFINE M == Message
<1> HIDE DEF M
<1> SUFFICES ASSUME NEW a \in Seq(M), NEW b \in Seq(M)
             PROVE  a \o b \in Seq(M) /\ SubSeq(a \o b, Len(a) + 1, Len(a \o b)) = b
  BY DEF M
<1> DEFINE q == a \o b
           z == SubSeq(q, Len(a) + 1, Len(q))
<1>1. /\ q \in Seq(M) /\ Len(q) = Len(a) + Len(b) /\ Len(a) \in Nat /\ Len(b) \in Nat
      /\ \A i \in 1 .. Len(a) + Len(b) : q[i] = IF i <= Len(a) THEN a[i] ELSE b[i - Len(a)]
  BY ConcatProperties, LenProperties
<1> HIDE DEF q
<1>2. \A i \in Len(a) + 1 .. Len(q) : q[i] \in M
  <2>1. \A i \in Len(a) + 1 .. Len(q) : i \in 1 .. Len(q)  BY <1>1
  <2> QED  BY <1>1, <2>1, ElementOfSeq
<1>3. Len(a) + 1 \in Int /\ Len(q) \in Int  BY <1>1
<1>4. /\ z \in Seq(M) /\ Len(z) = IF Len(a) + 1 <= Len(q) THEN Len(q) - (Len(a) + 1) + 1 ELSE 0
      /\ \A i \in 1 .. Len(q) - (Len(a) + 1) + 1 : z[i] = q[(Len(a) + 1) + i - 1]
  BY <1>2, <1>3, SubSeqProperties
<1> HIDE DEF z
<1>5. Len(z) = Len(b) /\ Len(q) - (Len(a) + 1) + 1 = Len(b)  BY <1>1, <1>4
<1>6. ASSUME NEW i \in 1 .. Len(b) PROVE z[i] = b[i]
  <2>1. /\ (Len(a) + 1) + i - 1 = Len(a) + i /\ Len(a) + i \in 1 .. Len(a) + Len(b)
        /\ ~(Len(a) + i <= Len(a)) /\ (Len(a) + i) - Len(a) = i
    BY <1>1
  <2>2. z[i] = q[Len(a) + i]  BY <1>4, <1>5, <2>1
  <2> QED  BY <1>1, <2>1, <2>2
<1>7. z = b  BY <1>4, <1>5, <1>6, SeqEqual
<1> QED  BY <1>1, <1>7 DEF z, q

\* Leads is reflexive and transitive.
LEMMA LeadsFacts ==
  /\ \A u, w : \A s \in StateT(u, w) : Leads(s, s)
  /\ \A u, w : \A r, s, t \in StateT(u, w) : Leads(r, s) /\ Leads(s, t) => Leads(r, t)
<1>1. ASSUME NEW u, NEW w, NEW s \in StateT(u, w)
      PROVE  s.core.itime \in Nat /\ Len(s.up) \in Nat
  BY LenProperties DEF StateT, CoreT
<1>2. ASSUME NEW u, NEW w, NEW s \in StateT(u, w) PROVE Leads(s, s)  BY <1>1 DEF Leads
<1>3. ASSUME NEW u, NEW w, NEW r \in StateT(u, w), NEW s \in StateT(u, w),
             NEW t \in StateT(u, w), Leads(r, s), Leads(s, t)
      PROVE  Leads(r, t)
  <2>1. /\ r.core.itime \in Nat /\ s.core.itime \in Nat /\ t.core.itime \in Nat
        /\ Len(r.up) \in Nat /\ Len(s.up) \in Nat /\ Len(t.up) \in Nat
    BY <1>1
  <2>2. 1 .. Len(r.up) \subseteq 1 .. Len(s.up)  BY <1>3, <2>1 DEF Leads
  <2> QED  BY <1>3, <2>1, <2>2 DEF Leads
<1> QED  BY <1>2, <1>3

\* A call never goes back in the time steps or takes back what was sent.
LEMMA StepLeads ==
  ASSUME NEW u, NEW w, NEW s \in StateT(u, w), NEW t \in StateT(u, w), Step(u, w, s, t)
  PROVE  Leads(s, t)
<1>1. PICK ms \in Seq(Message), xs \in Seq(Message), ls \in Seq(Message), us \in Seq(Message) :
        t.up = s.up \o us /\ Makes(u, w, ms, xs, ls, us, s.core, t.core)
  BY DEF Step
<1>2. s.core \in CoreT(u, w) /\ t.core \in CoreT(u, w) /\ s.up \in Seq(Message)  BY DEF StateT
<1>3. s.core.itime <= t.core.itime
  <2>1. s.core.itime \in Nat /\ t.core.itime \in Nat  BY <1>2 DEF CoreT
  <2>2. CASE TransporterCall(u, w, ms, xs, ls, us, s.core, t.core)
    <3>1. \E m : t.core.itime = IF m = "timestep_worker" THEN s.core.itime + 1
                                  ELSE s.core.itime
      BY <2>2 DEF TransporterCall, InRoutine
    <3> QED  BY <2>1, <3>1
  <2>3. CASE t.core = s.core  BY <2>1, <2>3
  <2>4. CASE t.core = [s.core EXCEPT !.at = "barrier"]  BY <1>2, <2>1, <2>4 DEF CoreT
  <2> QED  BY <1>1, <2>2, <2>3, <2>4 DEF Makes, OtherCall, FdtmthCall, BreakCall
<1>4. /\ Len(s.up) \in Nat /\ Len(us) \in Nat /\ Len(t.up) = Len(s.up) + Len(us)
      /\ \A k \in 1 .. Len(s.up) : t.up[k] = s.up[k]
  BY <1>1, <1>2, ConcatProperties, LenProperties
<1> QED  BY <1>3, <1>4 DEF Leads

\* Without any call a worker stays where it is.
LEMMA ComesNone ==
  ASSUME NEW u, NEW w, NEW s \in StateT(u, w)
  PROVE  Comes(u, w, s, s)
<1> DEFINE h == [i \in Nat |-> s]
<1>1. h \in [Nat -> StateT(u, w)] /\ h[0] = s /\ \A i \in 0 .. 0 : h[i] = s  OBVIOUS
<1>2. \A i, j \in 0 .. 0 : i <= j => Leads(h[i], h[j])  BY <1>1, LeadsFacts
<1> HIDE DEF h
<1>3. 1 .. 0 = {} /\ 0 \in Nat  OBVIOUS
<1> QED  BY <1>1, <1>2, <1>3 DEF Comes

\* One call more.
LEMMA ComesStep ==
  ASSUME NEW u, NEW w, NEW s, NEW t \in StateT(u, w), NEW v \in StateT(u, w),
         Comes(u, w, s, t), Step(u, w, t, v)
  PROVE  Comes(u, w, s, v)
<1>1. PICK n \in Nat, h \in [Nat -> StateT(u, w)] :
        /\ h[0] = s /\ h[n] = t
        /\ \A i \in 1 .. n : Step(u, w, h[i-1], h[i])
        /\ \A i, j \in 0 .. n : i <= j => Leads(h[i], h[j])
  BY DEF Comes
<1> DEFINE g == [i \in Nat |-> IF i = n+1 THEN v ELSE h[i]]
<1>2. g \in [Nat -> StateT(u, w)] /\ g[n+1] = v /\ \A i \in 0 .. n : g[i] = h[i]  OBVIOUS
<1> HIDE DEF g
<1>3. g[0] = s  BY <1>1, <1>2
<1>4. ASSUME NEW i \in 1 .. n+1 PROVE Step(u, w, g[i-1], g[i])
  <2>1. CASE i = n+1
    <3>1. g[i-1] = t /\ g[i] = v
      <4>1. i-1 = n /\ n \in 0 .. n  BY <2>1
      <4> QED  BY <1>1, <1>2, <2>1, <4>1
    <3> QED  BY <3>1
  <2>2. CASE i # n+1
    <3>1. i \in 1 .. n /\ i-1 \in 0 .. n /\ i \in 0 .. n  BY <2>2
    <3> QED  BY <1>1, <1>2, <3>1
  <2> QED  BY <2>1, <2>2
<1>5. Leads(t, v) /\ Leads(v, v)  BY StepLeads, LeadsFacts
<1>6. ASSUME NEW i \in 0 .. n+1, NEW j \in 0 .. n+1, i <= j PROVE Leads(g[i], g[j])
  <2>1. CASE j # n+1
    <3>1. i \in 0 .. n /\ j \in 0 .. n  BY <1>6, <2>1
    <3> QED  BY <1>1, <1>2, <1>6, <3>1
  <2>2. CASE j = n+1 /\ i = n+1  BY <1>2, <1>5, <2>2
  <2>3. CASE j = n+1 /\ i # n+1
    <3>1. i \in 0 .. n /\ n \in 0 .. n /\ i <= n  BY <2>3
    <3>2. Leads(h[i], t) /\ h[i] \in StateT(u, w)  BY <1>1, <3>1
    <3>3. Leads(h[i], v)  BY <1>5, <3>2, LeadsFacts
    <3> QED  BY <1>2, <2>3, <3>1, <3>3
  <2> QED  BY <2>1, <2>2, <2>3
<1>7. n+1 \in Nat  OBVIOUS
<1> QED  BY <1>2, <1>3, <1>4, <1>6, <1>7 DEF Comes

\* The first call; whoever is not there yet has one before it.
LEMMA ComesFirst ==
  ASSUME NEW u, NEW w, NEW s, NEW t, Comes(u, w, s, t)
  PROVE  /\ s \in StateT(u, w) /\ t \in StateT(u, w) /\ Leads(s, t)
         /\ s # t => \E v \in StateT(u, w) : Step(u, w, s, v) /\ Comes(u, w, v, t)
<1>1. PICK n \in Nat, h \in [Nat -> StateT(u, w)] :
        /\ h[0] = s /\ h[n] = t
        /\ \A i \in 1 .. n : Step(u, w, h[i-1], h[i])
        /\ \A i, j \in 0 .. n : i <= j => Leads(h[i], h[j])
  BY DEF Comes
<1>2. s \in StateT(u, w) /\ t \in StateT(u, w)  BY <1>1
<1>3. Leads(s, t)
  <2>1. 0 \in 0 .. n /\ n \in 0 .. n /\ 0 <= n  OBVIOUS
  <2> QED  BY <1>1, <2>1
<1>4. ASSUME s # t PROVE \E v \in StateT(u, w) : Step(u, w, s, v) /\ Comes(u, w, v, t)
  <2> DEFINE g == [i \in Nat |-> h[i+1]]
  <2>1. n # 0 /\ n-1 \in Nat  BY <1>1, <1>4
  <2>2. g \in [Nat -> StateT(u, w)] /\ \A i \in Nat : g[i] = h[i+1]  OBVIOUS
  <2> HIDE DEF g
  <2>3. g[0] = h[1] /\ g[n-1] = t
    <3>1. (n-1)+1 = n /\ 0 \in Nat /\ 0+1 = 1  BY <2>1
    <3>2. g[n-1] = h[(n-1)+1] /\ g[0] = h[0+1]  BY <2>1, <2>2, <3>1
    <3> QED  BY <1>1, <3>1, <3>2
  <2>4. ASSUME NEW i \in 1 .. n-1 PROVE Step(u, w, g[i-1], g[i])
    <3>1. i+1 \in 1 .. n /\ (i+1)-1 = i /\ (i-1)+1 = i /\ i-1 \in Nat /\ i \in Nat  BY <2>1
    <3>2. g[i] = h[i+1] /\ g[i-1] = h[(i-1)+1]  BY <2>2, <3>1
    <3>3. Step(u, w, h[(i+1)-1], h[i+1])  BY <1>1, <3>1
    <3> QED  BY <3>1, <3>2, <3>3
  <2>5. ASSUME NEW i \in 0 .. n-1, NEW j \in 0 .. n-1, i <= j PROVE Leads(g[i], g[j])
    <3>1. i+1 \in 0 .. n /\ j+1 \in 0 .. n /\ i+1 <= j+1 /\ i \in Nat /\ j \in Nat  BY <2>1, <2>5
    <3> QED  BY <1>1, <2>2, <3>1
  <2>6. Comes(u, w, h[1], t)  BY <2>1, <2>2, <2>3, <2>4, <2>5 DEF Comes
  <2>7. Step(u, w, h[0], h[1])
    <3>1. 1 \in 1 .. n /\ 1-1 = 0  BY <2>1
    <3> QED  BY <1>1, <3>1
  <2> QED  BY <1>1, <2>6, <2>7
<1> QED  BY <1>2, <1>3, <1>4

\* A call with more in the queues.
LEMMA StepPlus ==
  ASSUME NEW u, NEW w, NEW r, NEW q \in StateT(u, w), Step(u, w, r, q),
         NEW a \in Seq(Message), NEW x \in Seq(Message), NEW l \in Seq(Message)
  PROVE  Step(u, w, Plus(r, a, x, l), Plus(q, a, x, l))
<1> DEFINE Assoc(m, e, f) == (m \o e) \o f = m \o (e \o f)
<1>1. \A m, e, f \in Seq(Message) : Assoc(m, e, f)  BY QueueAssoc, Zenon
<1> HIDE DEF Assoc
<1>2. q.world \in Seq(Message) /\ q.xpcomm \in Seq(Message) /\ q.mail \in Seq(Message)
  BY DEF StateT
<1>3. \A m \in Seq(Message) :
        Assoc(m, q.world, a) /\ Assoc(m, q.xpcomm, x) /\ Assoc(m, q.mail, l)
  BY <1>1, <1>2, Zenon
<1>4. PICK m1 \in Seq(Message), x1 \in Seq(Message), l1 \in Seq(Message), u1 \in Seq(Message) :
        /\ r.world = m1 \o q.world /\ r.xpcomm = x1 \o q.xpcomm /\ r.mail = l1 \o q.mail
        /\ q.up = r.up \o u1 /\ Makes(u, w, m1, x1, l1, u1, r.core, q.core)
  BY Zenon DEF Step
<1>5. Assoc(m1, q.world, a) /\ Assoc(x1, q.xpcomm, x) /\ Assoc(l1, q.mail, l)
  BY <1>3, Zenon
<1>6. \E ms, xs, ls, us \in Seq(Message) :
        /\ r.world \o a = ms \o (q.world \o a) /\ r.xpcomm \o x = xs \o (q.xpcomm \o x)
        /\ r.mail \o l = ls \o (q.mail \o l)
        /\ q.up = r.up \o us /\ Makes(u, w, ms, xs, ls, us, r.core, q.core)
  BY <1>4, <1>5, Zenon DEF Assoc
<1>7. r.core.at = "loop"  BY DEF Step
<1> QED  BY <1>6, <1>7 DEF Step, Plus

\* More is put into the queues.
LEMMA ComesPlus ==
  ASSUME NEW u, NEW w, NEW s, NEW t, Comes(u, w, s, t),
         NEW a \in Seq(Message), NEW x \in Seq(Message), NEW l \in Seq(Message)
  PROVE  /\ Comes(u, w, Plus(s, a, x, l), Plus(t, a, x, l))
         /\ Plus(t, a, x, l) \in StateT(u, w)
<1>1. PICK n \in Nat, h \in [Nat -> StateT(u, w)] :
        /\ h[0] = s /\ h[n] = t
        /\ \A i \in 1 .. n : Step(u, w, h[i-1], h[i])
        /\ \A i, j \in 0 .. n : i <= j => Leads(h[i], h[j])
  BY DEF Comes
<1> DEFINE P(r) == Plus(r, a, x, l)
           g == [i \in Nat |-> P(h[i])]
<1>2. ASSUME NEW r \in StateT(u, w)
      PROVE  /\ P(r) \in StateT(u, w) /\ P(r).core = r.core /\ P(r).up = r.up
             /\ P(r).world = r.world \o a /\ P(r).xpcomm = r.xpcomm \o x
             /\ P(r).mail = r.mail \o l
  <2>1. /\ r.world \in Seq(Message) /\ r.xpcomm \in Seq(Message) /\ r.mail \in Seq(Message)
        /\ r.core \in CoreT(u, w) /\ r.up \in Seq(Message)
    BY DEF StateT
  <2>2. r.world \o a \in Seq(Message) /\ r.xpcomm \o x \in Seq(Message)
        /\ r.mail \o l \in Seq(Message)
    BY <2>1, ConcatProperties
  <2> QED  BY <2>1, <2>2 DEF Plus, StateT
<1> HIDE DEF P
<1>3. g \in [Nat -> StateT(u, w)] /\ \A i \in Nat : g[i] = P(h[i])  BY <1>2
<1> HIDE DEF g
<1>4. g[0] = P(s) /\ g[n] = P(t)  BY <1>1, <1>3
<1>5. ASSUME NEW i \in 1 .. n PROVE Step(u, w, g[i-1], g[i])
  <2>1. i-1 \in Nat /\ i \in Nat /\ h[i-1] \in StateT(u, w) /\ h[i] \in StateT(u, w)
        /\ Step(u, w, h[i-1], h[i])
    BY <1>1
  <2>2. PICK r \in StateT(u, w), q \in StateT(u, w) :
          r = h[i-1] /\ q = h[i] /\ Step(u, w, r, q)
    BY <2>1
  <2>3. Step(u, w, P(r), P(q))  BY <2>2, StepPlus DEF P
  <2> QED  BY <1>3, <2>1, <2>2, <2>3
<1>6. ASSUME NEW i \in 0 .. n, NEW j \in 0 .. n, i <= j PROVE Leads(g[i], g[j])
  <2>1. h[i] \in StateT(u, w) /\ h[j] \in StateT(u, w) /\ g[i] = P(h[i]) /\ g[j] = P(h[j])
        /\ Leads(h[i], h[j])
    BY <1>1, <1>3, <1>6
  <2> QED  BY <1>2, <2>1 DEF Leads
<1>7. P(t) \in StateT(u, w)  BY <1>1, <1>2
<1> QED  BY <1>3, <1>4, <1>5, <1>6, <1>7 DEF Comes, P

\* The first letters are taken out, when they are there from the beginning.
LEMMA ComesDrop ==
  ASSUME NEW u, NEW w, NEW s, NEW t, Comes(u, w, s, t), NEW k \in 0 .. Len(s.up)
  PROVE  Comes(u, w, Drop(s, k), Drop(t, k)) /\ Drop(t, k) \in StateT(u, w)
<1>1. PICK n \in Nat, h \in [Nat -> StateT(u, w)] :
        /\ h[0] = s /\ h[n] = t
        /\ \A i \in 1 .. n : Step(u, w, h[i-1], h[i])
        /\ \A i, j \in 0 .. n : i <= j => Leads(h[i], h[j])
  BY DEF Comes
<1> DEFINE P(r) == Drop(r, k)
           g == [i \in Nat |-> IF i \in 0 .. n THEN P(h[i]) ELSE h[i]]
<1>2. ASSUME NEW r \in StateT(u, w), k <= Len(r.up)
      PROVE  /\ P(r) \in StateT(u, w) /\ P(r).core = r.core
             /\ Len(P(r).up) = Len(r.up) - k
             /\ \A i \in 1 .. Len(r.up) - k : P(r).up[i] = r.up[i+k]
             /\ P(r).world = r.world /\ P(r).xpcomm = r.xpcomm /\ P(r).mail = r.mail
  <2>1. /\ r.world \in Seq(Message) /\ r.xpcomm \in Seq(Message) /\ r.mail \in Seq(Message)
        /\ r.core \in CoreT(u, w) /\ r.up \in Seq(Message) /\ k \in Int /\ k >= 0
    BY DEF StateT
  <2>2. Len(r.up) \in Nat  BY <2>1, LenProperties
  <2>3. \A i \in k+1 .. Len(r.up) : r.up[i] \in Message
    <3>1. \A i \in k+1 .. Len(r.up) : i \in 1 .. Len(r.up)  BY <2>1, <2>2
    <3> QED  BY <2>1, <3>1, ElementOfSeq
  <2> DEFINE q == SubSeq(r.up, k+1, Len(r.up))
  <2>4. /\ q \in Seq(Message) /\ Len(q) = Len(r.up) - k
        /\ \A i \in 1 .. Len(r.up) - k : q[i] = r.up[i+k]
    <3>1. k+1 \in Int /\ Len(r.up) \in Int  BY <2>1, <2>2
    <3>2. /\ q \in Seq(Message) /\ Len(q) = IF k+1 <= Len(r.up) THEN Len(r.up)-(k+1)+1 ELSE 0
          /\ \A i \in 1 .. Len(r.up)-(k+1)+1 : q[i] = r.up[(k+1)+i-1]
      BY <2>3, <3>1, SubSeqProperties
    <3> HIDE DEF q
    <3>3. Len(r.up)-(k+1)+1 = Len(r.up) - k /\ \A i \in Int : (k+1)+i-1 = i+k  BY <2>1, <2>2
    <3> QED  BY <1>2, <2>1, <2>2, <3>2, <3>3
  <2> HIDE DEF q
  <2>5. P(r) = [core |-> r.core, up |-> q, world |-> r.world, xpcomm |-> r.xpcomm,
                mail |-> r.mail]
    BY DEF Drop, q
  <2>6. /\ P(r).core = r.core /\ P(r).up = q /\ P(r).world = r.world
        /\ P(r).xpcomm = r.xpcomm /\ P(r).mail = r.mail
    BY <2>5
  <2>7. P(r) \in StateT(u, w)  BY <2>1, <2>4, <2>5 DEF StateT
  <2> QED  BY <2>4, <2>6, <2>7
<1> HIDE DEF P
<1>3. ASSUME NEW i \in 0 .. n PROVE h[i] \in StateT(u, w) /\ k <= Len(h[i].up)
  <2>1. 0 \in 0 .. n /\ 0 <= i /\ h[i] \in StateT(u, w) /\ s \in StateT(u, w)  BY <1>1
  <2>2. Leads(s, h[i])  BY <1>1, <2>1
  <2>3. Len(s.up) \in Nat /\ Len(h[i].up) \in Nat  BY <2>1, LenProperties DEF StateT
  <2> QED  BY <2>1, <2>2, <2>3 DEF Leads
<1>4. g \in [Nat -> StateT(u, w)] /\ \A i \in 0 .. n : g[i] = P(h[i])  BY <1>2, <1>3
<1> HIDE DEF g
<1>5. g[0] = P(s) /\ g[n] = P(t)
  <2>1. 0 \in 0 .. n /\ n \in 0 .. n  OBVIOUS
  <2> QED  BY <1>1, <1>4, <2>1
<1>6. ASSUME NEW i \in 1 .. n PROVE Step(u, w, g[i-1], g[i])
  <2>1. i-1 \in 0 .. n /\ i \in 0 .. n /\ Step(u, w, h[i-1], h[i])  BY <1>1
  <2> DEFINE r == h[i-1]
             q == h[i]
  <2> HIDE DEF r, q
  <2>2. /\ r \in StateT(u, w) /\ q \in StateT(u, w) /\ Step(u, w, r, q)
        /\ k <= Len(r.up) /\ k <= Len(q.up)
    BY <1>3, <2>1 DEF r, q
  <2>3. PICK ms \in Seq(Message), xs \in Seq(Message), ls \in Seq(Message), us \in Seq(Message) :
          /\ r.world = ms \o q.world /\ r.xpcomm = xs \o q.xpcomm /\ r.mail = ls \o q.mail
          /\ q.up = r.up \o us /\ Makes(u, w, ms, xs, ls, us, r.core, q.core)
    BY <2>2 DEF Step
  <2>4. P(q).up = P(r).up \o us
    <3> DEFINE e == P(r).up
               f == P(q).up
    <3>1. e \in Seq(Message) /\ f \in Seq(Message) /\ r.up \in Seq(Message)
      BY <1>2, <2>2 DEF StateT
    <3>2. /\ Len(r.up) \in Nat /\ Len(us) \in Nat /\ Len(q.up) = Len(r.up) + Len(us)
          /\ \A j \in 1 .. Len(r.up) + Len(us) :
               q.up[j] = IF j <= Len(r.up) THEN r.up[j] ELSE us[j - Len(r.up)]
      BY <2>3, <3>1, ConcatProperties, LenProperties
    <3>3. /\ Len(e) = Len(r.up) - k /\ \A j \in 1 .. Len(r.up) - k : e[j] = r.up[j+k]
          /\ Len(f) = Len(q.up) - k /\ \A j \in 1 .. Len(q.up) - k : f[j] = q.up[j+k]
      BY <1>2, <2>2
    <3> HIDE DEF e, f
    <3>4. /\ e \o us \in Seq(Message) /\ Len(e \o us) = Len(e) + Len(us)
          /\ \A j \in 1 .. Len(e) + Len(us) :
               (e \o us)[j] = IF j <= Len(e) THEN e[j] ELSE us[j - Len(e)]
      BY <3>1, ConcatProperties
    <3>5. Len(f) = Len(e \o us) /\ k \in Int /\ k >= 0  BY <3>2, <3>3, <3>4
    <3>6. ASSUME NEW j \in 1 .. Len(f) PROVE f[j] = (e \o us)[j]
      <4>1. /\ j \in 1 .. Len(q.up) - k /\ j+k \in 1 .. Len(r.up) + Len(us)
            /\ j \in 1 .. Len(e) + Len(us) /\ j \in Int /\ Len(e) \in Int
        BY <3>2, <3>3, <3>5
      <4>2. f[j] = IF j+k <= Len(r.up) THEN r.up[j+k] ELSE us[(j+k) - Len(r.up)]
        BY <3>2, <3>3, <4>1
      <4>3. (e \o us)[j] = IF j <= Len(e) THEN e[j] ELSE us[j - Len(e)]  BY <3>4, <4>1
      <4>4. CASE j <= Len(e)
        <5>1. j+k <= Len(r.up) /\ j \in 1 .. Len(r.up) - k  BY <2>2, <3>2, <3>3, <3>5, <4>1, <4>4
        <5> QED  BY <3>3, <4>2, <4>3, <4>4, <5>1
      <4>5. CASE ~(j <= Len(e))
        <5>1. ~(j+k <= Len(r.up)) /\ (j+k) - Len(r.up) = j - Len(e)
          BY <2>2, <3>2, <3>3, <3>5, <4>1, <4>5
        <5> QED  BY <4>2, <4>3, <4>5, <5>1
      <4> QED  BY <4>4, <4>5
    <3>7. f = e \o us  BY <3>1, <3>4, <3>5, <3>6, SeqEqual
    <3> QED  BY <3>7 DEF e, f
  <2>5. r.core.at = "loop"  BY <2>2 DEF Step
  <2>6. Step(u, w, P(r), P(q))  BY <1>2, <2>2, <2>3, <2>4, <2>5 DEF Step
  <2> QED  BY <1>4, <2>1, <2>6 DEF r, q
<1>7. ASSUME NEW i \in 0 .. n, NEW j \in 0 .. n, i <= j PROVE Leads(g[i], g[j])
  <2>1. /\ h[i] \in StateT(u, w) /\ h[j] \in StateT(u, w) /\ g[i] = P(h[i]) /\ g[j] = P(h[j])
        /\ Leads(h[i], h[j]) /\ k <= Len(h[i].up) /\ k <= Len(h[j].up)
    BY <1>1, <1>3, <1>4, <1>7
  <2> DEFINE r == h[i]
             q == h[j]
  <2>2. Len(r.up) \in Nat /\ Len(q.up) \in Nat /\ k \in Int /\ k >= 0
    BY <2>1, LenProperties DEF StateT
  <2>3. /\ P(r).core = r.core /\ P(q).core = q.core
        /\ Len(P(r).up) = Len(r.up) - k /\ Len(P(q).up) = Len(q.up) - k
        /\ \A m \in 1 .. Len(r.up) - k : P(r).up[m] = r.up[m+k]
        /\ \A m \in 1 .. Len(q.up) - k : P(q).up[m] = q.up[m+k]
    BY <1>2, <2>1
  <2>4. /\ r.core.itime <= q.core.itime /\ Len(r.up) <= Len(q.up)
        /\ \A m \in 1 .. Len(r.up) : r.up[m] = q.up[m]
    BY <2>1 DEF Leads
  <2> HIDE DEF r, q
  <2>5. ASSUME NEW m \in 1 .. Len(r.up) - k PROVE P(r).up[m] = P(q).up[m]
    <3>1. m \in 1 .. Len(q.up) - k /\ m+k \in 1 .. Len(r.up)  BY <2>2, <2>4
    <3> QED  BY <2>3, <2>4, <3>1
  <2>6. Leads(P(r), P(q))
    <3>1. Len(P(r).up) <= Len(P(q).up)  BY <2>2, <2>3, <2>4
    <3> QED  BY <2>3, <2>4, <2>5, <3>1 DEF Leads
  <2> QED  BY <2>1, <2>6 DEF r, q
<1>8. P(t) \in StateT(u, w)
  <2>1. n \in 0 .. n  OBVIOUS
  <2> QED  BY <1>1, <1>2, <1>3, <2>1
<1> QED  BY <1>4, <1>5, <1>6, <1>7, <1>8 DEF Comes, P

----------------------------------------------------------------------------
(* Short sequences.                                                        *)

\* Sequences of a few elements.
LEMMA Joined ==
  ASSUME NEW S, NEW a \in Seq(S), NEW b \in Seq(S), NEW z \in Seq(S),
         Len(z) = Len(a) + Len(b),
         \A i \in 1 .. Len(a) : z[i] = a[i],
         \A i \in 1 .. Len(b) : z[Len(a) + i] = b[i]
  PROVE  a \o b = z
<1> DEFINE q == a \o b
<1>1. /\ q \in Seq(S) /\ Len(q) = Len(a) + Len(b) /\ Len(a) \in Nat /\ Len(b) \in Nat
      /\ \A i \in 1 .. Len(a) + Len(b) : q[i] = IF i <= Len(a) THEN a[i] ELSE b[i - Len(a)]
  BY ConcatProperties, LenProperties
<1> HIDE DEF q
<1>2. ASSUME NEW i \in 1 .. Len(q) PROVE q[i] = z[i]
  <2>1. CASE i <= Len(a)
    <3>1. i \in 1 .. Len(a)  BY <1>1, <2>1
    <3> QED  BY <1>1, <2>1, <3>1
  <2>2. CASE ~(i <= Len(a))
    <3>1. i - Len(a) \in 1 .. Len(b) /\ Len(a) + (i - Len(a)) = i  BY <1>1, <2>2
    <3> QED  BY <1>1, <2>2, <3>1
  <2> QED  BY <2>1, <2>2
<1>3. q = z  BY <1>1, <1>2, SeqEqual
<1> QED  BY <1>3 DEF q

\* Short sequences one after the other, written out: the provers do not compute them.
LEMMA TwoOne == \A e1, e2, e3 : <<e1, e2>> \o <<e3>> = <<e1, e2, e3>>
<1> SUFFICES ASSUME NEW e1, NEW e2, NEW e3
             PROVE  <<e1, e2>> \o <<e3>> = <<e1, e2, e3>>
  OBVIOUS
<1> DEFINE S == {e1, e2, e3}
           a == <<e1, e2>>
           b == <<e3>>
           z == <<e1, e2, e3>>
<1>1. a \in Seq(S) /\ b \in Seq(S) /\ z \in Seq(S)  OBVIOUS
<1>2. Len(a) = 2 /\ Len(b) = 1 /\ Len(z) = 3  OBVIOUS
<1>3. z[1] = a[1] /\ z[2] = a[2] /\ z[3] = b[1]  OBVIOUS
<1> HIDE DEF a, b, z, S
<1>4. \A i \in 1 .. Len(a) : z[i] = a[i]  BY <1>2, <1>3
<1>5. \A i \in 1 .. Len(b) : z[Len(a) + i] = b[i]  BY <1>2, <1>3
<1>6. Len(z) = Len(a) + Len(b)  BY <1>2
<1>7. a \o b = z  BY <1>1, <1>4, <1>5, <1>6, Joined, Zenon
<1> QED  BY <1>7 DEF a, b, z

LEMMA OneTwo == \A e1, e2, e3 : <<e1>> \o <<e2, e3>> = <<e1, e2, e3>>
<1> SUFFICES ASSUME NEW e1, NEW e2, NEW e3
             PROVE  <<e1>> \o <<e2, e3>> = <<e1, e2, e3>>
  OBVIOUS
<1> DEFINE S == {e1, e2, e3}
           a == <<e1>>
           b == <<e2, e3>>
           z == <<e1, e2, e3>>
<1>1. a \in Seq(S) /\ b \in Seq(S) /\ z \in Seq(S)  OBVIOUS
<1>2. Len(a) = 1 /\ Len(b) = 2 /\ Len(z) = 3  OBVIOUS
<1>3. z[1] = a[1] /\ z[2] = b[1] /\ z[3] = b[2]  OBVIOUS
<1> HIDE DEF a, b, z, S
<1>4. \A i \in 1 .. Len(a) : z[i] = a[i]  BY <1>2, <1>3
<1>5. \A i \in 1 .. Len(b) : z[Len(a) + i] = b[i]  BY <1>2, <1>3
<1>6. Len(z) = Len(a) + Len(b)  BY <1>2
<1>7. a \o b = z  BY <1>1, <1>4, <1>5, <1>6, Joined, Zenon
<1> QED  BY <1>7 DEF a, b, z

LEMMA ThreeOne == \A e1, e2, e3, e4 : <<e1, e2, e3>> \o <<e4>> = <<e1, e2, e3, e4>>
<1> SUFFICES ASSUME NEW e1, NEW e2, NEW e3, NEW e4
             PROVE  <<e1, e2, e3>> \o <<e4>> = <<e1, e2, e3, e4>>
  OBVIOUS
<1> DEFINE S == {e1, e2, e3, e4}
           a == <<e1, e2, e3>>
           b == <<e4>>
           z == <<e1, e2, e3, e4>>
<1>1. a \in Seq(S) /\ b \in Seq(S) /\ z \in Seq(S)  OBVIOUS
<1>2. Len(a) = 3 /\ Len(b) = 1 /\ Len(z) = 4  OBVIOUS
<1>3. z[1] = a[1] /\ z[2] = a[2] /\ z[3] = a[3] /\ z[4] = b[1]  OBVIOUS
<1> HIDE DEF a, b, z, S
<1>4. \A i \in 1 .. Len(a) : z[i] = a[i]  BY <1>2, <1>3
<1>5. \A i \in 1 .. Len(b) : z[Len(a) + i] = b[i]  BY <1>2, <1>3
<1>6. Len(z) = Len(a) + Len(b)  BY <1>2
<1>7. a \o b = z  BY <1>1, <1>4, <1>5, <1>6, Joined, Zenon
<1> QED  BY <1>7 DEF a, b, z

LEMMA TwoThree ==
  \A e1, e2, e3, e4, e5 :
    <<e1, e2>> \o <<e3, e4, e5>> = <<e1, e2, e3, e4, e5>>
<1> SUFFICES ASSUME NEW e1, NEW e2, NEW e3, NEW e4, NEW e5
             PROVE  <<e1, e2>> \o <<e3, e4, e5>> = <<e1, e2, e3, e4, e5>>
  OBVIOUS
<1> DEFINE S == {e1, e2, e3, e4, e5}
           a == <<e1, e2>>
           b == <<e3, e4, e5>>
           z == <<e1, e2, e3, e4, e5>>
<1>1. a \in Seq(S) /\ b \in Seq(S) /\ z \in Seq(S)  OBVIOUS
<1>2. Len(a) = 2 /\ Len(b) = 3 /\ Len(z) = 5  OBVIOUS
<1>3. z[1] = a[1] /\ z[2] = a[2] /\ z[3] = b[1] /\ z[4] = b[2] /\ z[5] = b[3]  OBVIOUS
<1> HIDE DEF a, b, z, S
<1>4. \A i \in 1 .. Len(a) : z[i] = a[i]  BY <1>2, <1>3
<1>5. \A i \in 1 .. Len(b) : z[Len(a) + i] = b[i]  BY <1>2, <1>3
<1>6. Len(z) = Len(a) + Len(b)  BY <1>2
<1>7. a \o b = z  BY <1>1, <1>4, <1>5, <1>6, Joined, Zenon
<1> QED  BY <1>7 DEF a, b, z

LEMMA OneThree == \A e1, e2, e3, e4 : <<e1>> \o <<e2, e3, e4>> = <<e1, e2, e3, e4>>
<1> SUFFICES ASSUME NEW e1, NEW e2, NEW e3, NEW e4
             PROVE  <<e1>> \o <<e2, e3, e4>> = <<e1, e2, e3, e4>>
  OBVIOUS
<1> DEFINE S == {e1, e2, e3, e4}
           a == <<e1>>
           b == <<e2, e3, e4>>
           z == <<e1, e2, e3, e4>>
<1>1. a \in Seq(S) /\ b \in Seq(S) /\ z \in Seq(S)  OBVIOUS
<1>2. Len(a) = 1 /\ Len(b) = 3 /\ Len(z) = 4  OBVIOUS
<1>3. z[1] = a[1] /\ z[2] = b[1] /\ z[3] = b[2] /\ z[4] = b[3]  OBVIOUS
<1> HIDE DEF a, b, z, S
<1>4. \A i \in 1 .. Len(a) : z[i] = a[i]  BY <1>2, <1>3
<1>5. \A i \in 1 .. Len(b) : z[Len(a) + i] = b[i]  BY <1>2, <1>3
<1>6. Len(z) = Len(a) + Len(b)  BY <1>2
<1>7. a \o b = z  BY <1>1, <1>4, <1>5, <1>6, Joined, Zenon
<1> QED  BY <1>7 DEF a, b, z

LEMMA OneFour == \A e1, e2, e3, e4, e5 : <<e1>> \o <<e2, e3, e4, e5>> = <<e1, e2, e3, e4, e5>>
<1> SUFFICES ASSUME NEW e1, NEW e2, NEW e3, NEW e4, NEW e5
             PROVE  <<e1>> \o <<e2, e3, e4, e5>> = <<e1, e2, e3, e4, e5>>
  OBVIOUS
<1> DEFINE S == {e1, e2, e3, e4, e5}
           a == <<e1>>
           b == <<e2, e3, e4, e5>>
           z == <<e1, e2, e3, e4, e5>>
<1>1. a \in Seq(S) /\ b \in Seq(S) /\ z \in Seq(S)  OBVIOUS
<1>2. Len(a) = 1 /\ Len(b) = 4 /\ Len(z) = 5  OBVIOUS
<1>3. z[1] = a[1] /\ z[2] = b[1] /\ z[3] = b[2] /\ z[4] = b[3] /\ z[5] = b[4]  OBVIOUS
<1> HIDE DEF a, b, z, S
<1>4. \A i \in 1 .. Len(a) : z[i] = a[i]  BY <1>2, <1>3
<1>5. \A i \in 1 .. Len(b) : z[Len(a) + i] = b[i]  BY <1>2, <1>3
<1>6. Len(z) = Len(a) + Len(b)  BY <1>2
<1>7. a \o b = z  BY <1>1, <1>4, <1>5, <1>6, Joined, Zenon
<1> QED  BY <1>7 DEF a, b, z

LEMMA OneFive ==
  \A e1, e2, e3, e4, e5, e6 :
    <<e1>> \o <<e2, e3, e4, e5, e6>> = <<e1, e2, e3, e4, e5, e6>>
<1> SUFFICES ASSUME NEW e1, NEW e2, NEW e3, NEW e4, NEW e5, NEW e6
             PROVE  <<e1>> \o <<e2, e3, e4, e5, e6>> = <<e1, e2, e3, e4, e5, e6>>
  OBVIOUS
<1> DEFINE S == {e1, e2, e3, e4, e5, e6}
           a == <<e1>>
           b == <<e2, e3, e4, e5, e6>>
           z == <<e1, e2, e3, e4, e5, e6>>
<1>1. a \in Seq(S) /\ b \in Seq(S) /\ z \in Seq(S)  OBVIOUS
<1>2. Len(a) = 1 /\ Len(b) = 5 /\ Len(z) = 6  OBVIOUS
<1>3. /\ z[1] = a[1] /\ z[2] = b[1] /\ z[3] = b[2] /\ z[4] = b[3]
      /\ z[5] = b[4] /\ z[6] = b[5]  OBVIOUS
<1> HIDE DEF a, b, z, S
<1>4. \A i \in 1 .. Len(a) : z[i] = a[i]  BY <1>2, <1>3
<1>5. \A i \in 1 .. Len(b) : z[Len(a) + i] = b[i]  BY <1>2, <1>3
<1>6. Len(z) = Len(a) + Len(b)  BY <1>2
<1>7. a \o b = z  BY <1>1, <1>4, <1>5, <1>6, Joined, Zenon
<1> QED  BY <1>7 DEF a, b, z

LEMMA OneOne == \A e1, e2 : <<e1>> \o <<e2>> = <<e1, e2>>
<1> SUFFICES ASSUME NEW e1, NEW e2
             PROVE  <<e1>> \o <<e2>> = <<e1, e2>>
  OBVIOUS
<1> DEFINE S == {e1, e2}
           a == <<e1>>
           b == <<e2>>
           z == <<e1, e2>>
<1>1. a \in Seq(S) /\ b \in Seq(S) /\ z \in Seq(S)  OBVIOUS
<1>2. Len(a) = 1 /\ Len(b) = 1 /\ Len(z) = 2  OBVIOUS
<1>3. z[1] = a[1] /\ z[2] = b[1]  OBVIOUS
<1> HIDE DEF a, b, z, S
<1>4. \A i \in 1 .. Len(a) : z[i] = a[i]  BY <1>2, <1>3
<1>5. \A i \in 1 .. Len(b) : z[Len(a) + i] = b[i]  BY <1>2, <1>3
<1>6. Len(z) = Len(a) + Len(b)  BY <1>2
<1>7. a \o b = z  BY <1>1, <1>4, <1>5, <1>6, Joined, Zenon
<1> QED  BY <1>7 DEF a, b, z

----------------------------------------------------------------------------
(* Messages and their names.                                               *)

\* What is a message.
LEMMA Letter ==
  /\ \A n \in Name, v \in Nat : Msg(n, v) \in Message
  /\ \A n \in Name, i \in Nat : \A v \in CT(i) : Msg(n, v) \in Message
<1>1. ASSUME NEW n \in Name, NEW v \in Nat PROVE Msg(n, v) \in Message
  BY DEF Msg, Message
<1>2. ASSUME NEW n \in Name, NEW i \in Nat, NEW v \in CT(i) PROVE Msg(n, v) \in Message
  <2>1. v \in AnyC  BY DEF AnyC
  <2> QED  BY <2>1 DEF Msg, Message
<1> QED  BY <1>1, <1>2

\* The two parts of a message.
LEMMA MsgFields == \A n, v : Msg(n, v).name = n /\ Msg(n, v).value = v
  BY DEF Msg

\* Messages are equal when both parts are.
LEMMA MsgEqual == \A m, n, x, v : Msg(m, x) = Msg(n, v) <=> m = n /\ x = v
  BY DEF Msg

\* The names that p_distribute and flow_distribute exchange, written out.
LEMMA NamesAre ==
  ASSUME NEW u \in Setups, NEW n
  PROVE  /\ PNamesIn(u, n) = IF n <= 0 THEN IF u.fresur THEN <<"p", "frac", "mfsbc">>
                                          ELSE <<"p", "frac">>
                             ELSE IF u.steady THEN <<>>
                             ELSE IF u.fresur THEN <<"p", "frac", "mfsbc">> ELSE <<"p">>
         /\ FlowNamesIn(u) = IF u.steady
                             THEN IF u.sbc THEN <<"flow", "qfsbc", "deltim">>
                                  ELSE <<"flow", "deltim">>
                             ELSE IF u.sbc THEN <<"flow", "dp", "qfsbc", "deltim">>
                                  ELSE <<"flow", "dp", "deltim">>
<1>1. u.steady \in BOOLEAN /\ u.fresur \in BOOLEAN /\ u.sbc \in BOOLEAN  BY Processes
<1>2. /\ <<"p", "frac">> \o <<"mfsbc">> = <<"p", "frac", "mfsbc">>
      /\ <<"p">> \o <<"frac", "mfsbc">> = <<"p", "frac", "mfsbc">>
      /\ <<"p">> \o <<>> = <<"p">> /\ <<"p", "frac">> \o <<>> = <<"p", "frac">>

  <2>1. <<"p", "frac">> \o <<"mfsbc">> = <<"p", "frac", "mfsbc">>  BY TwoOne, Zenon
  <2>2. <<"p">> \o <<"frac", "mfsbc">> = <<"p", "frac", "mfsbc">>  BY OneTwo, Zenon
  <2>3. <<"p">> \o <<>> = <<"p">>  OBVIOUS
  <2>4. <<"p", "frac">> \o <<>> = <<"p", "frac">>  OBVIOUS
  <2> QED  BY <2>1, <2>2, <2>3, <2>4
<1>3. /\ <<"flow">> \o <<>> = <<"flow">> /\ <<"flow">> \o <<"dp">> = <<"flow", "dp">>
      /\ <<"flow", "dp">> \o <<>> = <<"flow", "dp">>
      /\ <<"flow">> \o <<"qfsbc">> = <<"flow", "qfsbc">>
      /\ <<"flow", "dp">> \o <<"qfsbc">> = <<"flow", "dp", "qfsbc">>
      /\ <<"flow">> \o <<"deltim">> = <<"flow", "deltim">>
      /\ <<"flow", "dp">> \o <<"deltim">> = <<"flow", "dp", "deltim">>
      /\ <<"flow", "qfsbc">> \o <<"deltim">> = <<"flow", "qfsbc", "deltim">>
      /\ <<"flow", "dp", "qfsbc">> \o <<"deltim">> = <<"flow", "dp", "qfsbc", "deltim">>

  <2>1. <<"flow">> \o <<>> = <<"flow">>  OBVIOUS
  <2>2. <<"flow">> \o <<"dp">> = <<"flow", "dp">>  BY OneOne, Zenon
  <2>3. <<"flow", "dp">> \o <<>> = <<"flow", "dp">>  OBVIOUS
  <2>4. <<"flow">> \o <<"qfsbc">> = <<"flow", "qfsbc">>  BY OneOne, Zenon
  <2>5. <<"flow", "dp">> \o <<"qfsbc">> = <<"flow", "dp", "qfsbc">>  BY TwoOne, Zenon
  <2>6. <<"flow">> \o <<"deltim">> = <<"flow", "deltim">>  BY OneOne, Zenon
  <2>7. <<"flow", "dp">> \o <<"deltim">> = <<"flow", "dp", "deltim">>  BY TwoOne, Zenon
  <2>8. <<"flow", "qfsbc">> \o <<"deltim">> = <<"flow", "qfsbc", "deltim">>  BY TwoOne, Zenon
  <2>9. <<"flow", "dp", "qfsbc">> \o <<"deltim">> = <<"flow", "dp", "qfsbc", "deltim">>
    BY ThreeOne, Zenon
  <2> QED  BY <2>1, <2>2, <2>3, <2>4, <2>5, <2>6, <2>7, <2>8, <2>9
<1>4. PNamesIn(u, n) = IF n <= 0 THEN IF u.fresur THEN <<"p", "frac", "mfsbc">>
                                      ELSE <<"p", "frac">>
                       ELSE IF u.steady THEN <<>>
                       ELSE IF u.fresur THEN <<"p", "frac", "mfsbc">> ELSE <<"p">>
  <2>1. CASE u.fresur  BY <1>2, <2>1, Zenon DEF PNamesIn, When
  <2>2. CASE ~u.fresur  BY <1>2, <2>2, Zenon DEF PNamesIn, When
  <2> QED  BY <2>1, <2>2
<1>5. FlowNamesIn(u) = IF u.steady
                       THEN IF u.sbc THEN <<"flow", "qfsbc", "deltim">>
                            ELSE <<"flow", "deltim">>
                       ELSE IF u.sbc THEN <<"flow", "dp", "qfsbc", "deltim">>
                            ELSE <<"flow", "dp", "deltim">>
  <2>1. CASE u.steady /\ u.sbc  BY <1>3, <2>1, Zenon DEF FlowNamesIn, When
  <2>2. CASE u.steady /\ ~u.sbc  BY <1>3, <2>2, Zenon DEF FlowNamesIn, When
  <2>3. CASE ~u.steady /\ u.sbc  BY <1>3, <2>3, Zenon DEF FlowNamesIn, When
  <2>4. CASE ~u.steady /\ ~u.sbc  BY <1>3, <2>4, Zenon DEF FlowNamesIn, When
  <2> QED  BY <2>1, <2>2, <2>3, <2>4
<1> QED  BY <1>4, <1>5

\* The names that init3_distribute exchanges, written out: thru and rd decide which.
LEMMA BlockNamesAre ==
  /\ \A rd : BlockNames(TRUE, rd) = <<"thru">>
  /\ BlockNames(FALSE, FALSE) = <<"thru", "rd", "mfsbc", "deltim", "timchg">>
  /\ BlockNames(FALSE, TRUE) = <<"thru", "rd", "bc", "mfsbc", "deltim", "timchg">>
  /\ \A w : XpNames(w, "init3_distribute") =
       IF Carries(w, 1, "thru") THEN <<"thru">>
       ELSE IF Carries(w, 2, "rd")
       THEN <<"thru", "rd", "bc", "mfsbc", "deltim", "timchg">>
       ELSE <<"thru", "rd", "mfsbc", "deltim", "timchg">>
<1>1. /\ <<"thru">> \o <<>> = <<"thru">> /\ <<"rd">> \o <<>> = <<"rd">>
      /\ <<"rd">> \o <<"bc">> = <<"rd", "bc">>
      /\ <<"rd">> \o <<"mfsbc", "deltim", "timchg">> = <<"rd", "mfsbc", "deltim", "timchg">>
      /\ <<"rd", "bc">> \o <<"mfsbc", "deltim", "timchg">>
           = <<"rd", "bc", "mfsbc", "deltim", "timchg">>
      /\ <<"thru">> \o <<"rd", "mfsbc", "deltim", "timchg">>
           = <<"thru", "rd", "mfsbc", "deltim", "timchg">>
      /\ <<"thru">> \o <<"rd", "bc", "mfsbc", "deltim", "timchg">>
           = <<"thru", "rd", "bc", "mfsbc", "deltim", "timchg">>

  <2>1. <<"thru">> \o <<>> = <<"thru">>  OBVIOUS
  <2>2. <<"rd">> \o <<>> = <<"rd">>  OBVIOUS
  <2>3. <<"rd">> \o <<"bc">> = <<"rd", "bc">>  BY OneOne, Zenon
  <2>4. <<"rd">> \o <<"mfsbc", "deltim", "timchg">> = <<"rd", "mfsbc", "deltim", "timchg">>
    BY OneThree, Zenon
  <2>5. <<"rd", "bc">> \o <<"mfsbc", "deltim", "timchg">>
          = <<"rd", "bc", "mfsbc", "deltim", "timchg">>
    BY TwoThree, Zenon
  <2>6. <<"thru">> \o <<"rd", "mfsbc", "deltim", "timchg">>
          = <<"thru", "rd", "mfsbc", "deltim", "timchg">>
    BY OneFour, Zenon
  <2>7. <<"thru">> \o <<"rd", "bc", "mfsbc", "deltim", "timchg">>
          = <<"thru", "rd", "bc", "mfsbc", "deltim", "timchg">>
    BY OneFive, Zenon
  <2> QED  BY <2>1, <2>2, <2>3, <2>4, <2>5, <2>6, <2>7
<1>2. /\ \A rd : BlockNames(TRUE, rd) = <<"thru">>
      /\ BlockNames(FALSE, FALSE) = <<"thru", "rd", "mfsbc", "deltim", "timchg">>
      /\ BlockNames(FALSE, TRUE) = <<"thru", "rd", "bc", "mfsbc", "deltim", "timchg">>
  BY <1>1, Zenon DEF BlockNames, When
<1>3. ASSUME NEW w
      PROVE  XpNames(w, "init3_distribute") =
               IF Carries(w, 1, "thru") THEN <<"thru">>
               ELSE IF Carries(w, 2, "rd")
       THEN <<"thru", "rd", "bc", "mfsbc", "deltim", "timchg">>
               ELSE <<"thru", "rd", "mfsbc", "deltim", "timchg">>
  <2>1. XpNames(w, "init3_distribute") = BlockNames(Carries(w, 1, "thru"), Carries(w, 2, "rd"))
    BY DEF XpNames
  <2>2. CASE Carries(w, 1, "thru")  BY <1>1, <2>1, <2>2, Zenon DEF BlockNames, When
  <2>3. CASE ~Carries(w, 1, "thru") /\ Carries(w, 2, "rd")
    BY <1>1, <2>1, <2>3, Zenon DEF BlockNames, When
  <2>4. CASE ~Carries(w, 1, "thru") /\ ~Carries(w, 2, "rd")
    BY <1>1, <2>1, <2>4, Zenon DEF BlockNames, When
  <2> QED  BY <2>2, <2>3, <2>4
<1> QED  BY <1>2, <1>3

----------------------------------------------------------------------------
(* The setup in force.                                                     *)

\* With u the setup, the operators of the model are those above.
LEMMA InForce ==
  ASSUME NEW u, setup = u
  PROVE  /\ Component = Comps(u)
         /\ \A r : Mapped(r) = MappedIn(u, r) /\ Cardinality(Mapped(r)) = Count(u, r)
         /\ \A r : InGroup(r) <=> InGroupIn(u, r)
         /\ \A i : Place(i) = PlaceIn(u, i)
         /\ \A r : Locals(r) = LocalsIn(u, r)
         /\ \A r, n, v : Letters(r, n, v) = LettersIn(u, r, n, v)
         /\ \A r : PNames(r) = PNamesIn(u, itime[r])
         /\ FlowNames = FlowNamesIn(u)
<1>1. Component = Comps(u)  BY DEF Component, Comps
<1>2. \A r : Mapped(r) = MappedIn(u, r)  BY <1>1 DEF Mapped, MappedIn
<1>3. \A r : Cardinality(Mapped(r)) = Count(u, r)  BY <1>2 DEF Count
<1>4. \A r : InGroup(r) <=> InGroupIn(u, r)  BY DEF InGroup, InGroupIn
<1>5. \A i : Place(i) = PlaceIn(u, i)  BY <1>2 DEF Place, PlaceIn
<1>6. \A r : Locals(r) = LocalsIn(u, r)  BY <1>2, <1>3, <1>5 DEF Locals, LocalsIn
<1>7. ASSUME NEW r, NEW n, NEW v PROVE Letters(r, n, v) = LettersIn(u, r, n, v)
  <2>1. DOMAIN LocalsIn(u, r) = 1 .. Count(u, r)  BY DEF LocalsIn
  <2> QED  BY <1>6, <2>1 DEF Letters, LettersIn
<1>8. \A r : PNames(r) = PNamesIn(u, itime[r])  BY DEF PNames, PNamesIn
<1>9. FlowNames = FlowNamesIn(u)  BY DEF FlowNames, FlowNamesIn
<1> QED  BY <1>1, <1>2, <1>3, <1>4, <1>5, <1>6, <1>7, <1>8, <1>9

\* The same in the next state.
LEMMA InForceNext ==
  ASSUME NEW u, setup' = u
  PROVE  /\ Component' = Comps(u)
         /\ \A r : Mapped(r)' = MappedIn(u, r)
<1>1. Component' = Comps(u)  BY DEF Component, Comps
<1>2. \A r : Mapped(r)' = MappedIn(u, r)  BY <1>1 DEF Mapped, MappedIn
<1> QED  BY <1>1, <1>2

\* Where a worker is.
LEMMA Workers ==
  ASSUME NEW u \in Setups, setup = u
  PROVE  /\ Rank = 0 .. u.tasks - 1 /\ Worker = Rank \ {Root} /\ Root \in Rank
         /\ \A i \in Comps(u) : ComponentMap(u, i) \in Rank
         /\ \A w \in Worker : ~InGroupIn(u, w) /\ u.solute => MappedIn(u, w) = {}
<1>1. u.tasks \in Nat \ {0} /\ LastProcess(u) \in 0 .. u.tasks - 1
      /\ \A i \in Comps(u) : ComponentMap(u, i) \in 0 .. LastProcess(u)
  BY Processes
<1>2. Rank = 0 .. u.tasks - 1 /\ Root \in Rank  BY <1>1 DEF Rank, Root
<1>3. \A i \in Comps(u) : ComponentMap(u, i) \in Rank  BY <1>1, <1>2
<1>4. ASSUME NEW w \in Worker, ~InGroupIn(u, w), u.solute PROVE MappedIn(u, w) = {}
  <2>1. \A i \in Comps(u) : ComponentMap(u, i) <= LastProcess(u)  BY <1>1
  <2>2. ~(w <= LastProcess(u))  BY <1>4 DEF InGroupIn
  <2> QED  BY <2>1, <2>2 DEF MappedIn
<1> QED  BY <1>2, <1>3, <1>4 DEF Worker

----------------------------------------------------------------------------
(* The first call in the queue.                                            *)

\* The beginning of a queue stays at the front when more is added.
LEMMA QueueFront ==
  ASSUME NEW a \in Seq(Message), NEW b \in Seq(Message), NEW k \in 1 .. Len(a)
  PROVE  /\ (a \o b)[k] = a[k] /\ k \in DOMAIN (a \o b) /\ Len(a) <= Len(a \o b)
         /\ Len(a \o b) = Len(a) + Len(b) /\ Len(b) \in Nat /\ Len(a) \in Nat
<1> DEFINE M == Message
           q == a \o b
<1> HIDE DEF M
<1>1. a \in Seq(M) /\ b \in Seq(M)  BY DEF M
<1>2. /\ q \in Seq(M) /\ Len(q) = Len(a) + Len(b) /\ Len(a) \in Nat /\ Len(b) \in Nat
      /\ \A i \in 1 .. Len(a) + Len(b) : q[i] = IF i <= Len(a) THEN a[i] ELSE b[i - Len(a)]
  BY <1>1, ConcatProperties, LenProperties
<1> HIDE DEF q
<1>3. DOMAIN q = 1 .. Len(q)  BY <1>2, LenProperties
<1>4. k \in 1 .. Len(a) + Len(b) /\ k <= Len(a)  BY <1>2
<1> QED  BY <1>2, <1>3, <1>4 DEF q

\* A queue of one message.
LEMMA Single == \A x \in Message : <<x>> \in Seq(Message) /\ Len(<<x>>) = 1 /\ <<x>>[1] = x
<1> DEFINE M == Message
<1> HIDE DEF M
<1>1. \A x \in M : <<x>> \in Seq(M) /\ Len(<<x>>) = 1 /\ <<x>>[1] = x  OBVIOUS
<1> QED  BY <1>1 DEF M

\* The two calls that every process takes part in are not among the others.
LEMMA RoutineNames ==
  /\ \A m \in Routine : m \in Name
  /\ "set_fdtmth" \notin Routine /\ "break" \notin Routine /\ "break" \in Name
<1>1. ASSUME NEW m \in Routine PROVE m \in Name  BY DEF Name
<1>2. "set_fdtmth" \notin Routine  BY DEF Routine
<1>3. "break" \notin Routine  BY DEF Routine
<1>4. "break" \in Name  BY DEF Name
<1> QED  BY <1>1, <1>2, <1>3, <1>4

\* The call of a routine, with m its name.
LEMMA OneMessage ==
  ASSUME NEW q \in Seq(Message), NEW m \in Name
  PROVE  LET p == <<Msg(m, 0)>> \o q
         IN /\ p # <<>> /\ Head(p).name = m /\ Len(p) = Len(q) + 1
            /\ q = SubSeq(p, 2, Len(p)) /\ p[1] = Msg(m, 0)
<1> DEFINE a == <<Msg(m, 0)>>
           p == a \o q
<1>1. a \in Seq(Message) /\ Len(a) = 1 /\ a[1] = Msg(m, 0)
  <2>1. 0 \in Nat  OBVIOUS
  <2>2. Msg(m, 0) \in Message  BY <2>1, Letter, Zenon
  <2> QED  BY <2>2, Single, Zenon
<1> HIDE DEF a
<1>2. p \in Seq(Message) /\ SubSeq(p, Len(a) + 1, Len(p)) = q  BY <1>1, QueueRest, Zenon
<1>3. 1 \in 1 .. Len(a)  BY <1>1
<1>4. p[1] = a[1] /\ Len(p) = Len(a) + Len(q) /\ Len(q) \in Nat  BY <1>1, <1>3, QueueFront, Zenon
<1> HIDE DEF p
<1>5. p # <<>> /\ Head(p) = p[1]
  <2>1. Len(p) # 0  BY <1>1, <1>4
  <2>2. Len(<<>>) = 0  OBVIOUS
  <2>3. p # <<>>  BY <2>1, <2>2, Zenon
  <2> QED  BY <2>3 DEF Head
<1>6. Len(a) + 1 = 2 /\ Len(p) = Len(q) + 1  BY <1>1, <1>4
<1>7. Head(p).name = m  BY <1>1, <1>4, <1>5, MsgFields
<1>8. q = SubSeq(p, 2, Len(p))  BY <1>2, <1>6
<1> QED  BY <1>1, <1>4, <1>5, <1>6, <1>7, <1>8 DEF p, a

\* What the first call makes of s.
FirstCall(u, w, s, v) ==
  /\ s.core.at = "loop" /\ s.world # <<>> /\ Head(s.world) = s.world[1]
  /\ Head(s.world).name \in Routine \cup {"set_fdtmth", "break"}
  /\ Head(s.world).name \in Routine =>
       /\ v.world = SubSeq(s.world, 2, Len(s.world))
       /\ InGroupIn(u, w) =>
            \E xs, ls, us \in Seq(Message) :
              /\ s.xpcomm = xs \o v.xpcomm /\ s.mail = ls \o v.mail /\ v.up = s.up \o us
              /\ InRoutine(u, w, Head(s.world).name, xs, ls, us, s.core, v.core)
       /\ ~InGroupIn(u, w) =>
            \E e \in {<<>>} :
              /\ s.xpcomm = e \o v.xpcomm /\ s.mail = e \o v.mail /\ v.up = s.up \o e
              /\ v.core = s.core
  /\ Head(s.world).name = "set_fdtmth" =>
       /\ v.world = SubSeq(s.world, 3, Len(s.world))
       /\ \E e \in {<<>>} :
            /\ s.xpcomm = e \o v.xpcomm /\ s.mail = e \o v.mail /\ v.up = s.up \o e
            /\ v.core = s.core
  /\ Head(s.world).name = "break" =>
       /\ v.world = SubSeq(s.world, 2, Len(s.world))
       /\ \E e \in {<<>>} :
            /\ s.xpcomm = e \o v.xpcomm /\ s.mail = e \o v.mail /\ v.up = s.up \o e
            /\ v.core = [s.core EXCEPT !.at = "barrier"]

\* The name at the head of the queue says which call comes first.
LEMMA FirstName ==
  ASSUME NEW u, NEW w, NEW s, NEW v \in StateT(u, w), Step(u, w, s, v)
  PROVE  FirstCall(u, w, s, v)
<1>1. PICK ms \in Seq(Message), xs \in Seq(Message), ls \in Seq(Message), us \in Seq(Message) :
        /\ s.world = ms \o v.world /\ s.xpcomm = xs \o v.xpcomm /\ s.mail = ls \o v.mail
        /\ v.up = s.up \o us /\ Makes(u, w, ms, xs, ls, us, s.core, v.core)
  BY DEF Step
<1>2. v.world \in Seq(Message)  BY DEF StateT
<1>3. s.core.at = "loop"  BY DEF Step
<1>4. \A m \in Routine : m \in Name /\ m # "set_fdtmth" /\ m # "break"  BY RoutineNames
<1>5. ASSUME NEW m \in Name, ms = <<Msg(m, 0)>>
      PROVE  /\ s.world # <<>> /\ Head(s.world).name = m /\ Head(s.world) = s.world[1]
             /\ v.world = SubSeq(s.world, 2, Len(s.world))
  <2>1. s.world = <<Msg(m, 0)>> \o v.world  BY <1>1, <1>5
  <2>2. PICK q \in Seq(Message) : q = v.world  BY <1>2
  <2> DEFINE p == <<Msg(m, 0)>> \o q
  <2>3. /\ p # <<>> /\ Head(p).name = m /\ q = SubSeq(p, 2, Len(p)) /\ p[1] = Msg(m, 0)
    BY OneMessage
  <2>4. s.world = p  BY <2>1, <2>2
  <2> HIDE DEF p
  <2>5. Head(p) = p[1]  BY DEF Head
  <2> QED  BY <2>2, <2>3, <2>4, <2>5
<1>6. CASE TransporterCall(u, w, ms, xs, ls, us, s.core, v.core)
  <2>1. PICK m \in Routine : /\ InGroupIn(u, w) /\ ms = <<Msg(m, 0)>>
                             /\ InRoutine(u, w, m, xs, ls, us, s.core, v.core)
    BY <1>6 DEF TransporterCall
  <2>2. m \in Name /\ m # "set_fdtmth" /\ m # "break"  BY <1>4, <2>1
  <2>3. /\ s.world # <<>> /\ Head(s.world).name = m /\ Head(s.world) = s.world[1]
        /\ v.world = SubSeq(s.world, 2, Len(s.world))
    BY <1>5, <2>1, <2>2
  <2> QED  BY <1>1, <1>3, <2>1, <2>2, <2>3, Zenon DEF FirstCall
<1>7. CASE OtherCall(u, w, ms, xs, ls, us, s.core, v.core)
  <2>1. PICK m \in Routine : /\ ~InGroupIn(u, w) /\ ms = <<Msg(m, 0)>>
                             /\ xs = <<>> /\ ls = <<>> /\ us = <<>> /\ v.core = s.core
    BY <1>7 DEF OtherCall
  <2>2. m \in Name /\ m # "set_fdtmth" /\ m # "break"  BY <1>4, <2>1
  <2>3. /\ s.world # <<>> /\ Head(s.world).name = m /\ Head(s.world) = s.world[1]
        /\ v.world = SubSeq(s.world, 2, Len(s.world))
    BY <1>5, <2>1, <2>2
  <2> QED  BY <1>1, <1>3, <2>1, <2>2, <2>3, Zenon DEF FirstCall
<1>8. CASE FdtmthCall(ms, xs, ls, us, s.core, v.core)
  <2>1. /\ ms = <<Msg("set_fdtmth", 0), Msg("fdtmth", 0)>>
        /\ xs = <<>> /\ ls = <<>> /\ us = <<>> /\ v.core = s.core
    BY <1>8 DEF FdtmthCall
  <2>2. Len(ms) = 2 /\ 1 \in 1 .. Len(ms) /\ ms[1] = Msg("set_fdtmth", 0)  BY <2>1
  <2>3. PICK q \in Seq(Message) : q = v.world  BY <1>2
  <2> DEFINE p == ms \o q
  <2>4. s.world = p  BY <1>1, <2>3
  <2>5. p \in Seq(Message) /\ SubSeq(p, Len(ms) + 1, Len(p)) = q
    BY <1>1, <2>3, QueueRest, ZenonT(60)
  <2>6. p[1] = ms[1] /\ Len(ms) <= Len(p) /\ Len(p) = Len(ms) + Len(q) /\ Len(q) \in Nat
    BY <1>1, <2>2, <2>3, QueueFront, Zenon
  <2> HIDE DEF p
  <2>7. p # <<>> /\ Head(p) = p[1] /\ Len(ms) + 1 = 3  BY <2>2, <2>5, <2>6
  <2>8. Head(p).name = "set_fdtmth"  BY <2>2, <2>6, <2>7, MsgFields
  <2>9. q = SubSeq(p, 3, Len(p))  BY <2>5, <2>7
  <2>10. "set_fdtmth" \notin Routine  BY <1>4
  <2>11. "set_fdtmth" # "break"  OBVIOUS
  <2> QED  BY <1>1, <1>3, <2>1, <2>3, <2>4, <2>7, <2>8, <2>9, <2>10, <2>11, Zenon DEF FirstCall
<1>9. CASE BreakCall(ms, xs, ls, us, s.core, v.core)
  <2>1. /\ ms = <<Msg("break", 0)>> /\ xs = <<>> /\ ls = <<>> /\ us = <<>>
        /\ v.core = [s.core EXCEPT !.at = "barrier"]
    BY <1>9 DEF BreakCall
  <2>2. "break" \in Name /\ "break" \notin Routine /\ "set_fdtmth" # "break"  BY RoutineNames
  <2>3. /\ s.world # <<>> /\ Head(s.world).name = "break" /\ Head(s.world) = s.world[1]
        /\ v.world = SubSeq(s.world, 2, Len(s.world))
    BY <1>5, <2>1, <2>2
  <2> QED  BY <1>1, <1>3, <2>1, <2>2, <2>3, Zenon DEF FirstCall
<1> QED  BY <1>1, <1>6, <1>7, <1>8, <1>9 DEF Makes

----------------------------------------------------------------------------
(* What a worker has after a routine.                                      *)

\* The first message of a name among those taken is the only one, so that Got finds it.
LEMMA GotIs ==
  ASSUME NEW w, NEW xs \in Seq(Message), NEW q \in Seq(Message), xpcomm[w] = xs \o q,
         NEW k \in 1 .. Len(xs), \A j \in 1 .. Len(xs) : j # k => xs[j].name # xs[k].name
  PROVE  Got(w, xs[k].name) = xs[k].value
<1> DEFINE p == xs \o q
           n == xs[k].name
           P(i) == p[i].name = n /\ \A j \in 1 .. i-1 : p[j].name # n
<1>1. \A j \in 1 .. Len(xs) : p[j] = xs[j] /\ j \in DOMAIN p  BY QueueFront, Zenon
<1>2. Len(xs) \in Nat  BY LenProperties
<1>3. DOMAIN p = 1 .. Len(p) /\ Len(p) \in Nat
  <2>1. p \in Seq(Message)  BY QueueRest, Zenon
  <2> QED  BY <2>1, LenProperties
<1>4. p[k].name = n /\ p[k].value = xs[k].value  BY <1>1
<1> HIDE DEF p, n
<1>5. \A j \in 1 .. Len(xs) : j # k => p[j].name # n  BY <1>1 DEF n
<1>6. P(k)
  <2>1. \A j \in 1 .. k-1 : j \in 1 .. Len(xs) /\ j # k  BY <1>2
  <2> QED  BY <1>4, <1>5, <2>1
<1>7. ASSUME NEW i \in DOMAIN p, P(i) PROVE i = k
  <2>1. i \in Nat /\ i >= 1 /\ k \in Nat /\ k <= Len(xs) /\ k >= 1  BY <1>2, <1>3
  <2>2. ~(k < i)
    <3>1. k < i => k \in 1 .. i-1  BY <2>1
    <3> QED  BY <1>4, <1>7, <3>1
  <2>3. ~(i < k)
    <3>1. i < k => i \in 1 .. Len(xs) /\ i # k  BY <1>2, <2>1
    <3> QED  BY <1>5, <1>7, <3>1
  <2> QED  BY <2>1, <2>2, <2>3
<1>8. k \in DOMAIN p  BY <1>1
<1> HIDE DEF P
<1>9. (CHOOSE i \in DOMAIN p : P(i)) = k  BY <1>6, <1>7, <1>8
<1>10. Got(w, n) = p[CHOOSE i \in DOMAIN p : P(i)].value  BY DEF Got, P, p
<1> QED  BY <1>4, <1>9, <1>10 DEF n

\* The names that a routine expects are those of the messages, each once.
Labelled(xs, names) ==
  /\ Len(names) = Len(xs) /\ DOMAIN names = 1 .. Len(xs)
  /\ \A k \in 1 .. Len(xs) : xs[k].name = names[k]
  /\ \A j, k \in 1 .. Len(xs) : j # k => names[j] # names[k]

\* Got finds what was meant under every name of a routine.
LEMMA GotAll ==
  \A w, names : \A xs, q \in Seq(Message) :
    xpcomm[w] = xs \o q /\ Labelled(xs, names) =>
      \A k \in 1 .. Len(xs) : Got(w, names[k]) = xs[k].value
<1> SUFFICES ASSUME NEW w, NEW names, NEW xs \in Seq(Message), NEW q \in Seq(Message),
                    xpcomm[w] = xs \o q, Labelled(xs, names), NEW k \in 1 .. Len(xs)
             PROVE  Got(w, names[k]) = xs[k].value
  BY ZenonT(30)
<1>1. \A j \in 1 .. Len(xs) : j # k => xs[j].name # xs[k].name  BY DEF Labelled
<1>2. Got(w, xs[k].name) = xs[k].value  BY <1>1, GotIs
<1> QED  BY <1>2 DEF Labelled

\* The worker and what it is to become.
Acting(u, w, v) ==
  /\ u \in Setups /\ setup = u /\ w \in Worker /\ Types /\ ~errexe[w] /\ FailuresInRoot
  /\ v \in StateT(u, w) /\ Step(u, w, State(w), v)

\* A worker has the state v when each of its variables has v's part of it.
LEMMA StateBecomes ==
  ASSUME NEW u, NEW w, NEW v \in StateT(u, w), setup' = u,
         at'[w] = v.core.at, itime'[w] = v.core.itime, own'[w] = v.core.own,
         \A i \in MappedIn(u, w) : xp'[i] = v.core.xp[i],
         up'[w] = v.up, world'[w] = v.world, xpcomm'[w] = v.xpcomm, mail'[w] = v.mail
  PROVE  State(w)' = v
<1>1. Mapped(w)' = MappedIn(u, w)  BY InForceNext
<1>2. v.core.xp = [i \in MappedIn(u, w) |-> v.core.xp[i]]  BY DEF StateT, CoreT, XpsT
<1>3. [i \in Mapped(w)' |-> xp'[i]] = v.core.xp  BY <1>1, <1>2
<1>4. Core(w)' = [at |-> at'[w], itime |-> itime'[w], own |-> own'[w],
                  xp |-> [i \in Mapped(w)' |-> xp'[i]]]
  BY DEF Core
<1>5. v.core = [at |-> v.core.at, itime |-> v.core.itime, own |-> v.core.own, xp |-> v.core.xp]
  BY DEF StateT, CoreT
<1>6. Core(w)' = v.core  BY <1>3, <1>4, <1>5
<1>7. v = [core |-> v.core, up |-> v.up, world |-> v.world, xpcomm |-> v.xpcomm,
           mail |-> v.mail]
  BY DEF StateT
<1> QED  BY <1>6, <1>7 DEF State

\* The parts of the state of w.
Parts(u, w) ==
  /\ State(w).core = Core(w) /\ State(w).up = up[w] /\ State(w).world = world[w]
  /\ State(w).xpcomm = xpcomm[w] /\ State(w).mail = mail[w]
  /\ Core(w).at = at[w] /\ Core(w).itime = itime[w] /\ Core(w).own = own[w]
  /\ Core(w).xp = [i \in MappedIn(u, w) |-> xp[i]]

\* The parts of the state of a worker are its variables.
LEMMA StateParts ==
  ASSUME NEW u, setup = u, NEW w
  PROVE  Parts(u, w)
<1>1. Mapped(w) = MappedIn(u, w)  BY InForce
<1> QED  BY <1>1 DEF State, Core, Parts

\* The data a process has received.
LEMMA OwnIs ==
  ASSUME NEW w \in Rank, Types, NEW m, Received(w, m), NEW o \in OwnT,
         \A f \in Fields : o[f] = IF f \in ToSet(XpNames(w, m)) THEN Got(w, f) ELSE own[w][f]
  PROVE  own'[w] = o
<1>1. own \in [Rank -> OwnT]  BY DEF Types
<1>2. own[w] \in OwnT  BY <1>1
<1>3. DOMAIN own[w] = Fields  BY <1>2 DEF OwnT
<1>4. own'[w] = [f \in Fields |-> IF f \in ToSet(XpNames(w, m)) THEN Got(w, f) ELSE own[w][f]]
  BY <1>1, <1>3 DEF Received
<1>5. o = [f \in Fields |-> o[f]]  BY DEF OwnT
<1> QED  BY <1>4, <1>5

\* The worker takes xs and ls, and sends us.
Taking(u, w, v, m, xs, ls, us) ==
  /\ xpcomm[w] = xs \o v.xpcomm /\ mail[w] = ls \o v.mail /\ v.up = up[w] \o us
  /\ InRoutine(u, w, m, xs, ls, us, Core(w), v.core)
  /\ world'[w] = v.world
  /\ Len(XpNames(w, m)) = Len(xs) => xpcomm'[w] = v.xpcomm
  /\ Len(MailNames(w, m)) = Len(ls) => mail'[w] = v.mail

\* A routine takes as much as it expects.
LEMMA Took ==
  ASSUME NEW u, NEW w, NEW v, Acting(u, w, v), NEW m \in Routine, Takes(w, m)
  PROVE  \E xs, ls, us \in Seq(Message) : Taking(u, w, v, m, xs, ls, us)
<1>1. PICK s : s = State(w)  OBVIOUS
<1>2. /\ v \in StateT(u, w) /\ Step(u, w, s, v) /\ w \in Worker /\ setup = u /\ Types
  BY <1>1 DEF Acting
<1>3. /\ world[w] # <<>> /\ Head(world[w]).name = m /\ InGroup(w)
      /\ world' = Taken(world, w, 1)
      /\ xpcomm' = Taken(xpcomm, w, Len(XpNames(w, m)))
      /\ mail' = Taken(mail, w, Len(MailNames(w, m)))
  BY DEF Takes, Called
<1>4. /\ s.core = Core(w) /\ s.up = up[w] /\ s.world = world[w]
      /\ s.xpcomm = xpcomm[w] /\ s.mail = mail[w] /\ Core(w).at = at[w]
  BY <1>1, <1>2, StateParts DEF Parts
<1>5. InGroupIn(u, w)  BY <1>2, <1>3, InForce
<1>6. Head(s.world).name = m  BY <1>3, <1>4
<1>7. /\ s.core.at = "loop" /\ v.world = SubSeq(s.world, 2, Len(s.world))
      /\ \E xs, ls, us \in Seq(Message) :
           /\ s.xpcomm = xs \o v.xpcomm /\ s.mail = ls \o v.mail /\ v.up = s.up \o us
           /\ InRoutine(u, w, m, xs, ls, us, s.core, v.core)
  <2>1. FirstCall(u, w, s, v)  BY <1>2, FirstName
  <2> QED  BY <1>5, <1>6, <2>1, Zenon DEF FirstCall
<1>8. PICK xs \in Seq(Message), ls \in Seq(Message), us \in Seq(Message) :
           /\ s.xpcomm = xs \o v.xpcomm /\ s.mail = ls \o v.mail /\ v.up = s.up \o us
           /\ InRoutine(u, w, m, xs, ls, us, s.core, v.core)
  BY <1>7
<1>9. /\ world \in [Worker -> Seq(Message)] /\ xpcomm \in [Worker -> Seq(Message)]
      /\ mail \in [Worker -> Seq(Message)]
  BY <1>2 DEF Types
<1>10. v.xpcomm \in Seq(Message) /\ v.mail \in Seq(Message)  BY <1>2 DEF StateT
<1>11. world'[w] = SubSeq(world[w], 1+1, Len(world[w]))  BY <1>2, <1>3, <1>9 DEF Taken
<1>12. world'[w] = v.world
  <2>1. 1+1 = 2  OBVIOUS
  <2> QED  BY <1>4, <1>7, <1>11, <2>1
<1>13. xpcomm'[w] = SubSeq(xpcomm[w], Len(XpNames(w, m)) + 1, Len(xpcomm[w]))
  BY <1>2, <1>3, <1>9 DEF Taken
<1>14. mail'[w] = SubSeq(mail[w], Len(MailNames(w, m)) + 1, Len(mail[w]))
  BY <1>2, <1>3, <1>9 DEF Taken
<1>15. /\ SubSeq(xs \o v.xpcomm, Len(xs) + 1, Len(xs \o v.xpcomm)) = v.xpcomm
       /\ SubSeq(ls \o v.mail, Len(ls) + 1, Len(ls \o v.mail)) = v.mail
  BY <1>8, <1>10, QueueRest, Zenon
<1>16. Len(XpNames(w, m)) = Len(xs) => xpcomm'[w] = v.xpcomm
  BY <1>4, <1>8, <1>13, <1>15
<1>17. Len(MailNames(w, m)) = Len(ls) => mail'[w] = v.mail
  BY <1>4, <1>8, <1>14, <1>15
<1> QED  BY <1>2, <1>4, <1>7, <1>8, <1>12, <1>16, <1>17, Zenon DEF Taking

\* The fields of n are the messages with their names, or else those of o.
Gets(n, o, xs, names) ==
  /\ \A k \in 1 .. Len(xs) : names[k] \in Fields => n[names[k]] = xs[k].value
  /\ \A f \in Fields : (\A k \in 1 .. Len(xs) : names[k] # f) => n[f] = o[f]

\* What it takes becomes its own.
LEMMA OwnFollows ==
  ASSUME NEW u, NEW w, NEW v, Acting(u, w, v), NEW m,
         NEW xs \in Seq(Message), NEW ls, NEW us, Taking(u, w, v, m, xs, ls, us),
         Received(w, m), NEW names, XpNames(w, m) = names, Labelled(xs, names),
         Gets(v.core.own, own[w], xs, names)
  PROVE  /\ own'[w] = v.core.own /\ xpcomm'[w] = v.xpcomm
         /\ \A k \in 1 .. Len(xs) : Got(w, names[k]) = xs[k].value
<1>1. /\ v \in StateT(u, w) /\ w \in Rank /\ Types  BY DEF Acting, Worker
<1>2. v.xpcomm \in Seq(Message) /\ xpcomm[w] = xs \o v.xpcomm  BY <1>1 DEF StateT, Taking
<1>3. \A k \in 1 .. Len(xs) : Got(w, names[k]) = xs[k].value  BY <1>2, GotAll, Zenon
<1>4. v.core.own \in OwnT  BY <1>1 DEF StateT, CoreT
<1>5. PICK o \in OwnT : o = v.core.own  BY <1>4
<1>6. ASSUME NEW f \in Fields
      PROVE  o[f] = IF f \in ToSet(XpNames(w, m)) THEN Got(w, f) ELSE own[w][f]
  <2>1. DOMAIN names = 1 .. Len(xs)  BY DEF Labelled
  <2>2. f \in ToSet(XpNames(w, m)) <=> \E k \in 1 .. Len(xs) : f = names[k]
    BY <2>1 DEF ToSet
  <2>3. CASE f \in ToSet(XpNames(w, m))
    <3>1. PICK k \in 1 .. Len(xs) : f = names[k]  BY <2>2, <2>3
    <3> QED  BY <1>3, <1>5, <2>3, <3>1 DEF Gets
  <2>4. CASE f \notin ToSet(XpNames(w, m))
    <3>1. \A k \in 1 .. Len(xs) : names[k] # f  BY <2>2, <2>4
    <3> QED  BY <1>5, <2>4, <3>1 DEF Gets
  <2> QED  BY <2>3, <2>4
<1>7. own'[w] = o  BY <1>1, <1>6, OwnIs
<1>8. xpcomm'[w] = v.xpcomm  BY DEF Taking, Labelled
<1> QED  BY <1>3, <1>5, <1>7, <1>8

----------------------------------------------------------------------------
(* The routines of a worker.                                               *)

\* Lengths and elements of functions on 1 .. n.
LEMMA LettersFacts ==
  ASSUME NEW u \in Setups, NEW w, NEW n, NEW d
  PROVE  /\ Count(u, w) \in Nat
         /\ Len(LettersIn(u, w, n, d)) = Count(u, w)
         /\ Len(SameLetters(u, w, n, d)) = Count(u, w)
         /\ \A i \in MappedIn(u, w) :
              /\ PlaceIn(u, i) \in 1 .. Count(u, w)
              /\ LettersIn(u, w, n, d)[PlaceIn(u, i)] = Msg(n, d[i])
              /\ SameLetters(u, w, n, d)[PlaceIn(u, i)] = Msg(n, d)
<1>1. Count(u, w) \in Nat  BY LocalsFacts
<1>2. \A i \in MappedIn(u, w) :
        PlaceIn(u, i) \in 1 .. Count(u, w) /\ LocalsIn(u, w)[PlaceIn(u, i)] = i
  BY LocalsFacts
<1>3. Len(LettersIn(u, w, n, d)) = Count(u, w)  BY <1>1 DEF LettersIn
<1>4. Len(SameLetters(u, w, n, d)) = Count(u, w)  BY <1>1 DEF SameLetters
<1>5. \A i \in MappedIn(u, w) : LettersIn(u, w, n, d)[PlaceIn(u, i)] = Msg(n, d[i])
  BY <1>2 DEF LettersIn
<1>6. \A i \in MappedIn(u, w) : SameLetters(u, w, n, d)[PlaceIn(u, i)] = Msg(n, d)
  BY <1>2 DEF SameLetters
<1> QED  BY <1>1, <1>2, <1>3, <1>4, <1>5, <1>6

\* How many letters a worker waits for in each routine.
LEMMA AllNames ==
  ASSUME NEW u \in Setups, setup = u, NEW w
  PROVE  /\ Len(MailNames(w, "c_distribute")) = Count(u, w)
         /\ Len(MailNames(w, "init3_distribute")) =
              IF "bc" \in ToSet(XpNames(w, "init3_distribute")) THEN Count(u, w) ELSE 0
         /\ "bc" \notin ToSet(XpNames(w, "init3_distribute")) =>
              MailNames(w, "init3_distribute") = <<>>
         /\ \A m \in Routine \ {"c_distribute", "init3_distribute"} : MailNames(w, m) = <<>>
<1>1. DOMAIN Locals(w) = 1 .. Count(u, w) /\ Count(u, w) \in Nat
  <2>1. Locals(w) = LocalsIn(u, w)  BY InForce
  <2>2. DOMAIN LocalsIn(u, w) = 1 .. Count(u, w)  BY DEF LocalsIn
  <2> QED  BY <2>1, <2>2, LocalsFacts
<1>2. \A n : Len([k \in DOMAIN Locals(w) |-> n]) = Count(u, w)  BY <1>1
<1>3. MailNames(w, "c_distribute") = [k \in DOMAIN Locals(w) |-> "c"]  BY DEF MailNames
<1>4. MailNames(w, "init3_distribute") =
        IF "bc" \in ToSet(XpNames(w, "init3_distribute"))
        THEN [k \in DOMAIN Locals(w) |-> "bc"] ELSE <<>>
  BY DEF MailNames, When
<1>5. \A m \in Routine \ {"c_distribute", "init3_distribute"} : MailNames(w, m) = <<>>
  BY DEF MailNames
<1> QED  BY <1>2, <1>3, <1>4, <1>5

\* The action c_distribute of a worker makes of it what the call was meant to make.
LEMMA CDistributeFollows ==
  ASSUME NEW u, NEW w, NEW v, Acting(u, w, v), CDistributeWorker(w)
  PROVE  State(w)' = v
<1>1. /\ Takes(w, "c_distribute") /\ Received(w, "c_distribute")
      /\ xp' = [i \in Component |->
                  IF i \in Mapped(w) THEN [xp[i] EXCEPT !.c = mail[w][Place(i)].value] ELSE xp[i]]
      /\ setup' = setup /\ at' = at /\ up' = up /\ itime' = itime
  BY DEF CDistributeWorker
<1>2. /\ u \in Setups /\ setup = u /\ w \in Worker /\ w \in Rank /\ Types /\ v \in StateT(u, w)
  BY DEF Acting, Worker
<1>3. "c_distribute" \in Routine  BY DEF Routine
<1>4. PICK xs \in Seq(Message), ls \in Seq(Message), us \in Seq(Message) :
        Taking(u, w, v, "c_distribute", xs, ls, us)
  BY <1>1, <1>3, Took
<1>5. /\ v.core.at = Core(w).at /\ v.core.itime = Core(w).itime
      /\ Time(u, w, xs, ls, us, Core(w), v.core)
  <2>1. InRoutine(u, w, "c_distribute", xs, ls, us, Core(w), v.core)  BY <1>4 DEF Taking
  <2> QED  BY <2>1 DEF InRoutine
<1>6. PICK x \in Nat, d \in DataT(u) :
        /\ xs = <<Msg("time", x)>> /\ ls = LettersIn(u, w, "c", d) /\ us = <<>>
        /\ v.core.own = [Core(w).own EXCEPT !.time = x]
        /\ v.core.xp = [i \in MappedIn(u, w) |-> [Core(w).xp[i] EXCEPT !.c = d[i]]]
  BY <1>5 DEF Time
<1>7. /\ Core(w).at = at[w] /\ Core(w).itime = itime[w] /\ Core(w).own = own[w]
      /\ Core(w).xp = [i \in MappedIn(u, w) |-> xp[i]]
  <2>1. Parts(u, w)  BY <1>2, StateParts
  <2> QED  BY <2>1, Zenon DEF Parts
<1>8. XpNames(w, "c_distribute") = <<"time">>  BY DEF XpNames
<1>9. Labelled(xs, <<"time">>) /\ Len(xs) = 1  BY <1>6, MsgFields DEF Labelled
<1>10. /\ v.core.own["time"] = xs[1].value
       /\ \A f \in Fields : f # "time" => v.core.own[f] = own[w][f]
  <2>1. own[w] \in OwnT  BY <1>2 DEF Types
  <2>2. xs[1].value = x  BY <1>6, MsgFields
  <2>3. "time" \in Fields  BY DEF Fields
  <2> QED  BY <1>6, <1>7, <2>1, <2>2, <2>3 DEF OwnT
<1>11. own'[w] = v.core.own /\ xpcomm'[w] = v.xpcomm
  <2>1. PICK names : names = <<"time">>  OBVIOUS
  <2>2. \A k \in 1 .. Len(xs) : names[k] = "time" /\ k = 1 /\ 1 \in 1 .. Len(xs)  BY <1>9, <2>1
  <2>3. \A k \in 1 .. Len(xs) : names[k] \in Fields => v.core.own[names[k]] = xs[k].value
    BY <1>10, <2>2
  <2>4. \A f \in Fields : (\A k \in 1 .. Len(xs) : names[k] # f) => v.core.own[f] = own[w][f]
    <3>1. 1 \in 1 .. Len(xs) /\ names[1] = "time"  BY <1>9, <2>1
    <3> QED  BY <1>10, <3>1
  <2>5. Gets(v.core.own, own[w], xs, names)  BY <2>3, <2>4 DEF Gets
  <2>6. XpNames(w, "c_distribute") = names /\ Labelled(xs, names)  BY <1>8, <1>9, <2>1
  <2> QED  BY <1>1, <1>4, <2>5, <2>6, OwnFollows
<1>12. \A i \in MappedIn(u, w) : xp'[i] = v.core.xp[i]
  <2> SUFFICES ASSUME NEW i \in MappedIn(u, w) PROVE xp'[i] = v.core.xp[i]  OBVIOUS
  <2>1. i \in Component /\ i \in Mapped(w) /\ Place(i) = PlaceIn(u, i)
    BY <1>2, InForce, LocalsFacts
  <2>2. xp'[i] = [xp[i] EXCEPT !.c = mail[w][PlaceIn(u, i)].value]  BY <1>1, <2>1
  <2>3. mail[w][PlaceIn(u, i)] = Msg("c", d[i])
    <3>1. /\ PlaceIn(u, i) \in 1 .. Len(ls) /\ ls[PlaceIn(u, i)] = Msg("c", d[i])
      BY <1>2, <1>6, LettersFacts
    <3>2. v.mail \in Seq(Message)  BY <1>2 DEF StateT
    <3>3. (ls \o v.mail)[PlaceIn(u, i)] = ls[PlaceIn(u, i)]
      BY <3>1, <3>2, QueueFront, Zenon
    <3> QED  BY <1>4, <3>1, <3>3 DEF Taking
  <2>4. v.core.xp[i] = [xp[i] EXCEPT !.c = d[i]]  BY <1>6, <1>7
  <2> QED  BY <2>2, <2>3, <2>4, MsgFields
<1>13. mail'[w] = v.mail
  <2>1. Len(MailNames(w, "c_distribute")) = Len(ls)  BY <1>2, <1>6, AllNames, LettersFacts
  <2> QED  BY <1>4, <2>1 DEF Taking
<1>14. up'[w] = v.up
  <2>1. up[w] \in Seq(Message)  BY <1>2 DEF Types
  <2>2. up[w] \o <<>> = up[w]  BY <2>1, QueueEmpty, Zenon
  <2> QED  BY <1>1, <1>4, <1>6, <2>2 DEF Taking
<1> QED
  <2>1. /\ at'[w] = v.core.at /\ itime'[w] = v.core.itime /\ world'[w] = v.world /\ setup' = u
    BY <1>1, <1>2, <1>4, <1>5, <1>7 DEF Taking
  <2>2. v \in StateT(u, w)  BY <1>2
  <2> QED  BY <1>11, <1>12, <1>13, <1>14, <2>1, <2>2, StateBecomes

\* What has no messages.
LEMMA NothingUp ==
  ASSUME NEW u, NEW w, NEW v, Acting(u, w, v), NEW m, NEW xs, NEW ls, NEW us,
         Taking(u, w, v, m, xs, ls, us), us = <<>>, up' = up
  PROVE  up'[w] = v.up
<1>1. up[w] \in Seq(Message)  BY DEF Types, Acting
<1>2. up[w] \o <<>> = up[w]  BY <1>1, QueueEmpty, Zenon
<1> QED  BY <1>2 DEF Taking

\* A routine that takes no letters leaves them in the queue.
LEMMA NoMail ==
  ASSUME NEW u, NEW w, NEW v, Acting(u, w, v), NEW xs, NEW ls, NEW us,
         NEW m \in Routine \ {"c_distribute", "init3_distribute"},
         Taking(u, w, v, m, xs, ls, us), ls = <<>>
  PROVE  mail'[w] = v.mail
<1>1. MailNames(w, m) = <<>>  BY AllNames DEF Acting
<1>2. Len(MailNames(w, m)) = Len(ls)  BY <1>1
<1> QED  BY <1>2 DEF Taking

\* A routine that exchanges nothing leaves both queues alone.
LEMMA NoBroadcast ==
  ASSUME NEW u, NEW w, NEW v, Acting(u, w, v), NEW xs, NEW ls, NEW us,
         NEW m \in {"run_transport", "sbc_gather", "c_gather", "time_step_save"},
         Taking(u, w, v, m, xs, ls, us), xs = <<>>, ls = <<>>
  PROVE  xpcomm'[w] = v.xpcomm /\ mail'[w] = v.mail
<1>1. XpNames(w, m) = <<>>  BY DEF XpNames
<1>2. Len(XpNames(w, m)) = Len(xs)  BY <1>1
<1>3. xpcomm'[w] = v.xpcomm  BY <1>2 DEF Taking
<1>4. m \in Routine \ {"c_distribute", "init3_distribute"}  BY DEF Routine
<1> QED  BY <1>3, <1>4, NoMail

\* What an action leaves to say.
LEMMA ActingFacts ==
  ASSUME NEW u, NEW w, NEW v, Acting(u, w, v)
  PROVE  /\ u \in Setups /\ setup = u /\ w \in Worker /\ w \in Rank /\ w # Root /\ Types
         /\ v \in StateT(u, w) /\ own[w] \in OwnT /\ itime[w] \in Nat
         /\ \A i \in MappedIn(u, w) : i \in Component /\ i \in Mapped(w)
<1>1. /\ u \in Setups /\ setup = u /\ w \in Worker /\ w \in Rank /\ w # Root /\ Types
      /\ v \in StateT(u, w)
  BY DEF Acting, Worker
<1>2. own[w] \in OwnT /\ itime[w] \in Nat  BY <1>1 DEF Types
<1>3. \A i \in MappedIn(u, w) : i \in Component /\ i \in Mapped(w)
  BY <1>1, InForce, LocalsFacts
<1> QED  BY <1>1, <1>2, <1>3

\* A list of names, each once.
NameList(names) ==
  /\ DOMAIN names = 1 .. Len(names) /\ Len(names) \in Nat
  /\ \A j, k \in 1 .. Len(names) : j # k => names[j] # names[k]
  /\ \A k \in 1 .. Len(names) : names[k] \in Name

\* No name comes twice in the names of a routine.
LEMMA NameLists ==
  ASSUME NEW u \in Setups, NEW n
  PROVE  NameList(PNamesIn(u, n)) /\ NameList(FlowNamesIn(u))
<1>1. NameList(PNamesIn(u, n))
  <2>1. NameList(<<"p", "frac", "mfsbc">>)  BY DEF NameList, Name
  <2>2. NameList(<<"p", "frac">>)  BY DEF NameList, Name
  <2>3. NameList(<<"p">>)  BY DEF NameList, Name
  <2>4. NameList(<<>>)  BY DEF NameList
  <2> QED  BY <2>1, <2>2, <2>3, <2>4, NamesAre
<1>2. NameList(FlowNamesIn(u))
  <2>1. NameList(<<"flow", "qfsbc", "deltim">>)  BY DEF NameList, Name
  <2>2. NameList(<<"flow", "deltim">>)  BY DEF NameList, Name
  <2>3. NameList(<<"flow", "dp", "qfsbc", "deltim">>)  BY DEF NameList, Name
  <2>4. NameList(<<"flow", "dp", "deltim">>)  BY DEF NameList, Name
  <2> QED  BY <2>1, <2>2, <2>3, <2>4, NamesAre
<1> QED  BY <1>1, <1>2

\* The flow data and the time step are among those of flow_distribute, the others are no fields.
LEMMA FlowFields ==
  ASSUME NEW u \in Setups
  PROVE  /\ \A k \in 1 .. Len(FlowNamesIn(u)) :
              FlowNamesIn(u)[k] \in Fields => FlowNamesIn(u)[k] \in {"flow", "deltim"}
         /\ \E k \in 1 .. Len(FlowNamesIn(u)) : FlowNamesIn(u)[k] = "flow"
         /\ \E k \in 1 .. Len(FlowNamesIn(u)) : FlowNamesIn(u)[k] = "deltim"
<1> DEFINE Good(names) ==
             /\ \A k \in 1 .. Len(names) : names[k] \in Fields => names[k] \in {"flow", "deltim"}
             /\ \E k \in 1 .. Len(names) : names[k] = "flow"
             /\ \E k \in 1 .. Len(names) : names[k] = "deltim"
<1>0. ASSUME NEW names, Len(names) \in Nat, Len(names) > 1, names[1] = "flow",
             names[Len(names)] = "deltim",
             \A k \in 1 .. Len(names) : names[k] \in {"flow", "dp", "qfsbc", "deltim"}
      PROVE  Good(names)
  <2>1. 1 \in 1 .. Len(names) /\ Len(names) \in 1 .. Len(names)  BY <1>0
  <2>2. \A k \in 1 .. Len(names) : names[k] \in Fields => names[k] \in {"flow", "deltim"}
    BY <1>0 DEF Fields
  <2> QED  BY <1>0, <2>1, <2>2
<1> HIDE DEF Good
<1>1. Good(<<"flow", "qfsbc", "deltim">>)
  <2> DEFINE z == <<"flow", "qfsbc", "deltim">>
  <2>1. /\ Len(z) = 3 /\ z[1] = "flow" /\ z[Len(z)] = "deltim"
        /\ \A k \in 1 .. Len(z) : z[k] \in {"flow", "dp", "qfsbc", "deltim"}
    OBVIOUS
  <2> HIDE DEF z
  <2>2. Len(z) \in Nat /\ Len(z) > 1  BY <2>1
  <2>3. Good(z)  BY <1>0, <2>1, <2>2
  <2> QED  BY <2>3 DEF z
<1>2. Good(<<"flow", "deltim">>)
  <2> DEFINE z == <<"flow", "deltim">>
  <2>1. /\ Len(z) = 2 /\ z[1] = "flow" /\ z[Len(z)] = "deltim"
        /\ \A k \in 1 .. Len(z) : z[k] \in {"flow", "dp", "qfsbc", "deltim"}
    OBVIOUS
  <2> HIDE DEF z
  <2>2. Len(z) \in Nat /\ Len(z) > 1  BY <2>1
  <2>3. Good(z)  BY <1>0, <2>1, <2>2
  <2> QED  BY <2>3 DEF z
<1>3. Good(<<"flow", "dp", "qfsbc", "deltim">>)
  <2> DEFINE z == <<"flow", "dp", "qfsbc", "deltim">>
  <2>1. /\ Len(z) = 4 /\ z[1] = "flow" /\ z[Len(z)] = "deltim"
        /\ \A k \in 1 .. Len(z) : z[k] \in {"flow", "dp", "qfsbc", "deltim"}
    OBVIOUS
  <2> HIDE DEF z
  <2>2. Len(z) \in Nat /\ Len(z) > 1  BY <2>1
  <2>3. Good(z)  BY <1>0, <2>1, <2>2
  <2> QED  BY <2>3 DEF z
<1>4. Good(<<"flow", "dp", "deltim">>)
  <2> DEFINE z == <<"flow", "dp", "deltim">>
  <2>1. /\ Len(z) = 3 /\ z[1] = "flow" /\ z[Len(z)] = "deltim"
        /\ \A k \in 1 .. Len(z) : z[k] \in {"flow", "dp", "qfsbc", "deltim"}
    OBVIOUS
  <2> HIDE DEF z
  <2>2. Len(z) \in Nat /\ Len(z) > 1  BY <2>1
  <2>3. Good(z)  BY <1>0, <2>1, <2>2
  <2> QED  BY <2>3 DEF z
<1>5. Good(FlowNamesIn(u))  BY <1>1, <1>2, <1>3, <1>4, NamesAre
<1> QED  BY <1>5 DEF Good

\* What is found under each name of Filled.
LEMMA FilledFacts ==
  ASSUME NEW names, NameList(names), NEW n, NEW x, NEW y
  PROVE  /\ Labelled(Filled(names, n, x, y), names)
         /\ Len(Filled(names, n, x, y)) = Len(names)
         /\ \A k \in 1 .. Len(names) :
              Filled(names, n, x, y)[k].value = IF names[k] = n THEN x ELSE y
<1> DEFINE z == Filled(names, n, x, y)
<1>1. z = [k \in 1 .. Len(names) |-> Msg(names[k], IF names[k] = n THEN x ELSE y)]
  BY DEF Filled, NameList
<1>2. Len(z) = Len(names)  BY <1>1 DEF NameList
<1>3. \A k \in 1 .. Len(names) : /\ z[k].name = names[k]
                                 /\ z[k].value = IF names[k] = n THEN x ELSE y
  BY <1>1, MsgFields
<1> HIDE DEF z
<1>4. Labelled(z, names)  BY <1>2, <1>3 DEF Labelled, NameList
<1> QED  BY <1>2, <1>3, <1>4 DEF z

\* The same for p_distribute: both sides take the same branch, as they count the same steps.
LEMMA PressureFollows ==
  ASSUME NEW u, NEW w, NEW v, Acting(u, w, v), Takes(w, "p_distribute"),
         Received(w, "p_distribute"), UNCHANGED <<setup, at, up, itime, xp, c, errors>>
  PROVE  State(w)' = v
<1>1. /\ u \in Setups /\ setup = u /\ w \in Worker /\ w \in Rank /\ v \in StateT(u, w)
      /\ own[w] \in OwnT /\ itime[w] \in Nat
  BY ActingFacts
<1>2. "p_distribute" \in Routine \ {"c_distribute", "init3_distribute"}  BY DEF Routine
<1>3. PICK xs \in Seq(Message), ls \in Seq(Message), us \in Seq(Message) :
        Taking(u, w, v, "p_distribute", xs, ls, us)
  BY <1>2, Took
<1>4. /\ v.core.at = Core(w).at /\ v.core.itime = Core(w).itime
      /\ Pressure(u, w, xs, ls, us, Core(w), v.core)
  <2>1. InRoutine(u, w, "p_distribute", xs, ls, us, Core(w), v.core)  BY <1>3 DEF Taking
  <2> QED  BY <2>1 DEF InRoutine
<1>5. /\ Core(w).at = at[w] /\ Core(w).itime = itime[w] /\ Core(w).own = own[w]
      /\ Core(w).xp = [i \in MappedIn(u, w) |-> xp[i]]
  <2>1. Parts(u, w)  BY <1>1, StateParts
  <2> QED  BY <2>1, Zenon DEF Parts
<1>6. PICK names : names = PNamesIn(u, itime[w])  OBVIOUS
<1>7. PICK x \in Nat, y \in Nat :
        /\ xs = Filled(names, "p", x, y) /\ ls = <<>> /\ us = <<>>
        /\ v.core.own = [f \in Fields |-> IF f \notin ToSet(names) THEN own[w][f]
                                          ELSE IF f = "p" THEN x ELSE y]
        /\ v.core.xp = Core(w).xp
  BY <1>4, <1>5, <1>6 DEF Pressure
<1>8. XpNames(w, "p_distribute") = names
  <2>1. PNames(w) = PNamesIn(u, itime[w])  BY <1>1, InForce
  <2> QED  BY <1>6, <2>1 DEF XpNames
<1>9. NameList(names)  BY <1>1, <1>6, NameLists
<1>10. /\ Labelled(xs, names) /\ Len(xs) = Len(names)
       /\ \A k \in 1 .. Len(names) : xs[k].value = IF names[k] = "p" THEN x ELSE y
  BY <1>7, <1>9, FilledFacts
<1>11. Gets(v.core.own, own[w], xs, names)
  <2>1. \A f : f \in ToSet(names) <=> \E k \in 1 .. Len(names) : f = names[k]
    BY <1>9 DEF NameList, ToSet
  <2>2. ASSUME NEW k \in 1 .. Len(xs), names[k] \in Fields
        PROVE  v.core.own[names[k]] = xs[k].value
    <3>1. names[k] \in ToSet(names)  BY <1>10, <2>1
    <3> QED  BY <1>7, <1>10, <2>2, <3>1
  <2>3. ASSUME NEW f \in Fields, \A k \in 1 .. Len(xs) : names[k] # f
        PROVE  v.core.own[f] = own[w][f]
    <3>1. f \notin ToSet(names)  BY <1>10, <2>1, <2>3
    <3> QED  BY <1>7, <3>1
  <2> QED  BY <2>2, <2>3 DEF Gets
<1>12. own'[w] = v.core.own /\ xpcomm'[w] = v.xpcomm
  BY <1>3, <1>8, <1>10, <1>11, OwnFollows
<1>13. mail'[w] = v.mail  BY <1>2, <1>3, <1>7, NoMail
<1>14. up'[w] = v.up
  <2>1. up' = up  OBVIOUS
  <2> QED  BY <1>3, <1>7, <2>1, NothingUp
<1>15. \A i \in MappedIn(u, w) : xp'[i] = v.core.xp[i]
  <2>1. xp' = xp  OBVIOUS
  <2> QED  BY <1>5, <1>7, <2>1
<1>16. /\ at'[w] = v.core.at /\ itime'[w] = v.core.itime /\ world'[w] = v.world /\ setup' = u
  <2>1. at' = at /\ itime' = itime /\ setup' = setup  OBVIOUS
  <2> QED  BY <1>1, <1>3, <1>4, <1>5, <2>1 DEF Taking
<1> QED  BY <1>1, <1>12, <1>13, <1>14, <1>15, <1>16, StateBecomes

\* The same for flow_distribute.
LEMMA FlowsFollows ==
  ASSUME NEW u, NEW w, NEW v, Acting(u, w, v), Takes(w, "flow_distribute"),
         Received(w, "flow_distribute"), UNCHANGED <<setup, at, up, itime, xp, c, errors>>
  PROVE  State(w)' = v
<1>1. /\ u \in Setups /\ setup = u /\ w \in Worker /\ w \in Rank /\ v \in StateT(u, w)
      /\ own[w] \in OwnT /\ itime[w] \in Nat
  BY ActingFacts
<1>2. "flow_distribute" \in Routine \ {"c_distribute", "init3_distribute"}  BY DEF Routine
<1>3. PICK xs \in Seq(Message), ls \in Seq(Message), us \in Seq(Message) :
        Taking(u, w, v, "flow_distribute", xs, ls, us)
  BY <1>2, Took
<1>4. /\ v.core.at = Core(w).at /\ v.core.itime = Core(w).itime
      /\ Flows(u, w, xs, ls, us, Core(w), v.core)
  <2>1. InRoutine(u, w, "flow_distribute", xs, ls, us, Core(w), v.core)  BY <1>3 DEF Taking
  <2> QED  BY <2>1 DEF InRoutine
<1>5. /\ Core(w).at = at[w] /\ Core(w).itime = itime[w] /\ Core(w).own = own[w]
      /\ Core(w).xp = [i \in MappedIn(u, w) |-> xp[i]]
  <2>1. Parts(u, w)  BY <1>1, StateParts
  <2> QED  BY <2>1, Zenon DEF Parts
<1>6. PICK names : names = FlowNamesIn(u)  OBVIOUS
<1>7. PICK x \in Nat, y \in Nat :
        /\ xs = Filled(names, "deltim", x, y) /\ ls = <<>> /\ us = <<>>
        /\ v.core.own = [own[w] EXCEPT !.flow = y, !.deltim = x]
        /\ v.core.xp = Core(w).xp
  BY <1>4, <1>5, <1>6 DEF Flows
<1>8. XpNames(w, "flow_distribute") = names
  <2>1. FlowNames = FlowNamesIn(u)  BY <1>1, InForce
  <2> QED  BY <1>6, <2>1 DEF XpNames
<1>9. NameList(names)  BY <1>1, <1>6, NameLists
<1>10. /\ Labelled(xs, names) /\ Len(xs) = Len(names)
       /\ \A k \in 1 .. Len(names) : xs[k].value = IF names[k] = "deltim" THEN x ELSE y
  BY <1>7, <1>9, FilledFacts
<1>11. Gets(v.core.own, own[w], xs, names)
  <2>1. /\ \A k \in 1 .. Len(names) : names[k] \in Fields => names[k] \in {"flow", "deltim"}
        /\ \E k \in 1 .. Len(names) : names[k] = "flow"
        /\ \E k \in 1 .. Len(names) : names[k] = "deltim"
    BY <1>1, <1>6, FlowFields
  <2>2. /\ v.core.own["flow"] = y /\ v.core.own["deltim"] = x
        /\ \A f \in Fields \ {"flow", "deltim"} : v.core.own[f] = own[w][f]
    BY <1>1, <1>7 DEF OwnT, Fields
  <2>3. ASSUME NEW k \in 1 .. Len(xs), names[k] \in Fields
        PROVE  v.core.own[names[k]] = xs[k].value
    <3>1. names[k] \in {"flow", "deltim"}  BY <1>10, <2>1, <2>3
    <3> QED  BY <1>10, <2>2, <3>1
  <2>4. ASSUME NEW f \in Fields, \A k \in 1 .. Len(xs) : names[k] # f
        PROVE  v.core.own[f] = own[w][f]
    <3>1. f \notin {"flow", "deltim"}  BY <1>10, <2>1, <2>4
    <3> QED  BY <2>2, <3>1
  <2> QED  BY <2>3, <2>4 DEF Gets
<1>12. own'[w] = v.core.own /\ xpcomm'[w] = v.xpcomm
  BY <1>3, <1>8, <1>10, <1>11, OwnFollows
<1>13. mail'[w] = v.mail  BY <1>2, <1>3, <1>7, NoMail
<1>14. up'[w] = v.up
  <2>1. up' = up  OBVIOUS
  <2> QED  BY <1>3, <1>7, <2>1, NothingUp
<1>15. \A i \in MappedIn(u, w) : xp'[i] = v.core.xp[i]
  <2>1. xp' = xp  OBVIOUS
  <2> QED  BY <1>5, <1>7, <2>1
<1>16. /\ at'[w] = v.core.at /\ itime'[w] = v.core.itime /\ world'[w] = v.world /\ setup' = u
  <2>1. at' = at /\ itime' = itime /\ setup' = setup  OBVIOUS
  <2> QED  BY <1>1, <1>3, <1>4, <1>5, <2>1 DEF Taking
<1> QED  BY <1>1, <1>12, <1>13, <1>14, <1>15, <1>16, StateBecomes

\* The same for timestep_worker; the two counts agree, and the worker is not stopped.
LEMMA TimestepFollows ==
  ASSUME NEW u, NEW w, NEW v, Acting(u, w, v), TimestepWorker(w)
  PROVE  State(w)' = v
<1>1. /\ u \in Setups /\ setup = u /\ w \in Worker /\ w \in Rank /\ v \in StateT(u, w)
      /\ own[w] \in OwnT /\ itime[w] \in Nat /\ Types
  BY ActingFacts
<1>2. "timestep_worker" \in Routine \ {"c_distribute", "init3_distribute"}  BY DEF Routine
<1>3. PICK xs \in Seq(Message), ls \in Seq(Message), us \in Seq(Message) :
        Taking(u, w, v, "timestep_worker", xs, ls, us)
  BY <1>2, Took DEF TimestepWorker
<1>4. /\ v.core.at = Core(w).at /\ v.core.itime = Core(w).itime + 1
      /\ TimeStep(u, w, xs, ls, us, Core(w), v.core)
  <2>1. InRoutine(u, w, "timestep_worker", xs, ls, us, Core(w), v.core)  BY <1>3 DEF Taking
  <2> QED  BY <2>1 DEF InRoutine
<1>5. /\ Core(w).at = at[w] /\ Core(w).itime = itime[w] /\ Core(w).own = own[w]
      /\ Core(w).xp = [i \in MappedIn(u, w) |-> xp[i]]
  <2>1. Parts(u, w)  BY <1>1, StateParts
  <2> QED  BY <2>1, Zenon DEF Parts
<1>6. PICK names : names = <<"itime", "deltim", "time">>  OBVIOUS
<1>7. PICK x \in Nat, y \in Nat :
        /\ xs = <<Msg("itime", Core(w).itime + 1), Msg("deltim", x), Msg("time", y)>>
        /\ ls = <<>> /\ us = <<>>
        /\ v.core.own = [Core(w).own EXCEPT !.deltim = x, !.time = y]
        /\ v.core.xp = Core(w).xp
  BY <1>4, Zenon DEF TimeStep
<1>8. XpNames(w, "timestep_worker") = names  BY <1>6 DEF XpNames
<1>9. /\ Labelled(xs, names) /\ Len(xs) = 3 /\ xs[1].value = itime[w] + 1 /\ xs[2].value = x
      /\ xs[3].value = y /\ names[1] = "itime" /\ names[2] = "deltim" /\ names[3] = "time"
  <2>1. Len(xs) = 3 /\ Len(names) = 3 /\ DOMAIN names = 1 .. 3  BY <1>6, <1>7
  <2>2. names[1] = "itime" /\ names[2] = "deltim" /\ names[3] = "time"  BY <1>6
  <2>3. /\ xs[1] = Msg("itime", itime[w] + 1) /\ xs[2] = Msg("deltim", x)
        /\ xs[3] = Msg("time", y)
    BY <1>5, <1>7
  <2>4. /\ xs[1].name = "itime" /\ xs[2].name = "deltim" /\ xs[3].name = "time"
        /\ xs[1].value = itime[w] + 1 /\ xs[2].value = x /\ xs[3].value = y
    BY <2>3, MsgFields
  <2>5. Labelled(xs, names)  BY <2>1, <2>2, <2>4 DEF Labelled
  <2> QED  BY <2>1, <2>2, <2>4, <2>5
<1>10. Gets(v.core.own, own[w], xs, names)
  <2>1. /\ v.core.own["time"] = y /\ v.core.own["deltim"] = x /\ "itime" \notin Fields
        /\ \A f \in Fields \ {"time", "deltim"} : v.core.own[f] = own[w][f]
    BY <1>1, <1>5, <1>7 DEF OwnT, Fields
  <2>2. ASSUME NEW k \in 1 .. Len(xs), names[k] \in Fields
        PROVE  v.core.own[names[k]] = xs[k].value
    <3>1. k = 2 \/ k = 3  BY <1>9, <2>1, <2>2
    <3> QED  BY <1>9, <2>1, <3>1
  <2>3. ASSUME NEW f \in Fields, \A k \in 1 .. Len(xs) : names[k] # f
        PROVE  v.core.own[f] = own[w][f]
    <3>1. 2 \in 1 .. Len(xs) /\ 3 \in 1 .. Len(xs)  BY <1>9
    <3>2. f \notin {"time", "deltim"}  BY <1>9, <2>3, <3>1
    <3> QED  BY <2>1, <3>2
  <2> QED  BY <2>2, <2>3 DEF Gets
<1>11. /\ own'[w] = v.core.own /\ xpcomm'[w] = v.xpcomm
       /\ \A k \in 1 .. Len(xs) : Got(w, names[k]) = xs[k].value
  <2>1. Received(w, "timestep_worker")  BY DEF TimestepWorker
  <2>2. Labelled(xs, names)  BY <1>9
  <2> QED  BY <1>3, <1>8, <1>10, <2>1, <2>2, OwnFollows
<1>12. mail'[w] = v.mail  BY <1>2, <1>3, <1>7, NoMail
<1>13. up'[w] = v.up
  <2>1. up' = up  BY DEF TimestepWorker
  <2> QED  BY <1>3, <1>7, <2>1, NothingUp
<1>14. \A i \in MappedIn(u, w) : xp'[i] = v.core.xp[i]
  <2>1. xp' = xp  BY DEF TimestepWorker
  <2> QED  BY <1>5, <1>7, <2>1
<1>15. itime'[w] = itime[w] + 1  BY <1>1 DEF TimestepWorker, Types
<1>16. Got(w, "itime") = itime[w] + 1
  <2>1. 1 \in 1 .. Len(xs)  BY <1>9
  <2> QED  BY <1>9, <1>11, <2>1
<1>17. at'[w] = at[w]  BY <1>1, <1>15, <1>16 DEF TimestepWorker, Types
<1>18. /\ at'[w] = v.core.at /\ itime'[w] = v.core.itime /\ world'[w] = v.world /\ setup' = u
  <2>1. setup' = setup  BY DEF TimestepWorker
  <2> QED  BY <1>1, <1>3, <1>4, <1>5, <1>15, <1>17, <2>1 DEF Taking
<1> QED  BY <1>1, <1>11, <1>12, <1>13, <1>14, <1>18, StateBecomes

\* The queues of the worker begin with what it takes.
Fronts(w, xs, ls) ==
  /\ \A k \in 1 .. Len(xs) : xpcomm[w][k] = xs[k] /\ Len(xpcomm[w]) >= k
  /\ \A k \in 1 .. Len(ls) : mail[w][k] = ls[k]

\* What the call sent is what stands at the front of the worker's queues.
LEMMA FrontIs ==
  ASSUME NEW u, NEW w, NEW v, Acting(u, w, v), NEW m,
         NEW xs \in Seq(Message), NEW ls \in Seq(Message), NEW us,
         Taking(u, w, v, m, xs, ls, us)
  PROVE  Fronts(w, xs, ls)
<1>1. v.xpcomm \in Seq(Message) /\ v.mail \in Seq(Message)  BY ActingFacts DEF StateT
<1>2. xpcomm[w] = xs \o v.xpcomm /\ mail[w] = ls \o v.mail  BY DEF Taking
<1>3. ASSUME NEW k \in 1 .. Len(xs) PROVE xpcomm[w][k] = xs[k] /\ Len(xpcomm[w]) >= k
  <2>1. /\ (xs \o v.xpcomm)[k] = xs[k] /\ Len(xs) <= Len(xs \o v.xpcomm)
        /\ Len(xs \o v.xpcomm) = Len(xs) + Len(v.xpcomm) /\ Len(xs) \in Nat
        /\ Len(v.xpcomm) \in Nat
    BY <1>1, QueueFront, Zenon
  <2>2. Len(xpcomm[w]) = Len(xs) + Len(v.xpcomm) /\ xpcomm[w][k] = xs[k]  BY <1>2, <2>1, Zenon
  <2> QED  BY <2>1, <2>2
<1>4. ASSUME NEW k \in 1 .. Len(ls) PROVE mail[w][k] = ls[k]
  <2>1. (ls \o v.mail)[k] = ls[k]  BY <1>1, QueueFront, Zenon
  <2> QED  BY <1>2, <2>1, Zenon
<1> QED  BY <1>3, <1>4 DEF Fronts

\* The six messages of a block with new data.
LEMMA NewBlockFollows ==
  ASSUME NEW u, NEW w, NEW v, Acting(u, w, v), Init3Worker(w),
         NEW xs \in Seq(Message), NEW ls \in Seq(Message), NEW us,
         Taking(u, w, v, "init3_distribute", xs, ls, us),
         NewBlock(u, w, xs, ls, us, Core(w), v.core)
  PROVE  /\ own'[w] = v.core.own /\ xpcomm'[w] = v.xpcomm /\ mail'[w] = v.mail
         /\ us = <<>> /\ \A i \in MappedIn(u, w) : xp'[i] = v.core.xp[i]
<1>1. /\ u \in Setups /\ setup = u /\ w \in Worker /\ w \in Rank /\ v \in StateT(u, w)
      /\ own[w] \in OwnT /\ Types
  BY ActingFacts
<1>2. Core(w).own = own[w] /\ Core(w).xp = [i \in MappedIn(u, w) |-> xp[i]]
  <2>1. Parts(u, w)  BY <1>1, StateParts
  <2> QED  BY <2>1, Zenon DEF Parts
<1>3. PICK names : names = <<"thru", "rd", "bc", "mfsbc", "deltim", "timchg">>  OBVIOUS
<1>4. PICK x \in Nat, b \in Nat, g \in Nat :
        /\ xs = <<Msg("thru", 0), Msg("rd", 1), Msg("bc", b), Msg("mfsbc", g), Msg("deltim", x),
                  Msg("timchg", b)>>
        /\ ls = SameLetters(u, w, "bc", b) /\ us = <<>>
        /\ v.core.own = [Core(w).own EXCEPT !.bc = b, !.deltim = x, !.timchg = b]
        /\ v.core.xp = [i \in MappedIn(u, w) |-> [Core(w).xp[i] EXCEPT !.bc = b]]
  BY Zenon DEF NewBlock
<1>5. /\ Len(xs) = 6 /\ Len(names) = 6 /\ DOMAIN names = 1 .. 6
      /\ names[1] = "thru" /\ names[2] = "rd" /\ names[3] = "bc" /\ names[4] = "mfsbc"
      /\ names[5] = "deltim" /\ names[6] = "timchg"
  BY <1>3, <1>4
<1>6. /\ xs[1] = Msg("thru", 0) /\ xs[2] = Msg("rd", 1) /\ xs[3] = Msg("bc", b)
      /\ xs[4] = Msg("mfsbc", g) /\ xs[5] = Msg("deltim", x) /\ xs[6] = Msg("timchg", b)
  BY <1>4
<1>7. /\ xs[1].name = "thru" /\ xs[2].name = "rd" /\ xs[3].name = "bc"
      /\ xs[4].name = "mfsbc" /\ xs[5].name = "deltim" /\ xs[6].name = "timchg"
      /\ xs[3].value = b /\ xs[5].value = x /\ xs[6].value = b
  BY <1>6, MsgFields
<1>8. Labelled(xs, names)  BY <1>5, <1>7 DEF Labelled
<1>9. XpNames(w, "init3_distribute") = names
  <2>1. 1 \in 1 .. Len(xs) /\ 2 \in 1 .. Len(xs) /\ Fronts(w, xs, ls)  BY <1>5, FrontIs
  <2>2. xpcomm[w][1] = Msg("thru", 0) /\ xpcomm[w][2] = Msg("rd", 1) /\ Len(xpcomm[w]) >= 2
    BY <1>6, <2>1 DEF Fronts
  <2>3. ~Carries(w, 1, "thru") /\ Carries(w, 2, "rd")  BY <2>2, MsgEqual DEF Carries
  <2> QED  BY <1>3, <2>3, BlockNamesAre, Zenon
<1>10. Gets(v.core.own, own[w], xs, names)
  <2>1. /\ v.core.own["bc"] = b /\ v.core.own["deltim"] = x /\ v.core.own["timchg"] = b
        /\ "thru" \notin Fields /\ "rd" \notin Fields /\ "mfsbc" \notin Fields
        /\ \A f \in Fields \ {"bc", "deltim", "timchg"} : v.core.own[f] = own[w][f]
    BY <1>1, <1>2, <1>4, ZenonT(30) DEF OwnT, Fields
  <2>2. ASSUME NEW k \in 1 .. Len(xs), names[k] \in Fields
        PROVE  v.core.own[names[k]] = xs[k].value
    <3>1. k = 3 \/ k = 5 \/ k = 6  BY <1>5, <2>1, <2>2
    <3> QED  BY <1>5, <1>7, <2>1, <3>1
  <2>3. ASSUME NEW f \in Fields, \A k \in 1 .. Len(xs) : names[k] # f
        PROVE  v.core.own[f] = own[w][f]
    <3>1. 3 \in 1 .. Len(xs) /\ 5 \in 1 .. Len(xs) /\ 6 \in 1 .. Len(xs)  BY <1>5
    <3>2. f \notin {"bc", "deltim", "timchg"}  BY <1>5, <2>3, <3>1
    <3> QED  BY <2>1, <3>2
  <2> QED  BY <2>2, <2>3 DEF Gets
<1>11. own'[w] = v.core.own /\ xpcomm'[w] = v.xpcomm
  <2>1. Received(w, "init3_distribute")  BY DEF Init3Worker
  <2> QED  BY <1>8, <1>9, <1>10, <2>1, OwnFollows
<1>12. "bc" \in ToSet(XpNames(w, "init3_distribute"))
  <2>1. 3 \in DOMAIN names  BY <1>5
  <2> QED  BY <1>5, <1>9, <2>1 DEF ToSet
<1>13. Len(MailNames(w, "init3_distribute")) = Count(u, w)  BY <1>1, <1>12, AllNames
<1>14. mail'[w] = v.mail
  <2>1. Len(ls) = Count(u, w)  BY <1>1, <1>4, LettersFacts
  <2> QED  BY <1>13, <2>1 DEF Taking
<1>15. ASSUME NEW i \in MappedIn(u, w) PROVE xp'[i] = v.core.xp[i]
  <2>1. i \in Component /\ i \in Mapped(w) /\ Place(i) = PlaceIn(u, i)
    BY <1>1, ActingFacts, InForce
  <2>2. PlaceIn(u, i) \in 1 .. Count(u, w) /\ Len(ls) = Count(u, w) /\ Count(u, w) \in Nat
        /\ ls[PlaceIn(u, i)] = Msg("bc", b)
    BY <1>1, <1>4, LettersFacts
  <2>3. Len(MailNames(w, "init3_distribute")) # 0  BY <1>13, <2>2
  <2>4. MailNames(w, "init3_distribute") # <<>>
    <3>1. Len(<<>>) = 0  OBVIOUS
    <3> QED  BY <2>3, <3>1, Zenon
  <2>5. xp'[i] = [xp[i] EXCEPT !.bc = mail[w][PlaceIn(u, i)].value]
    BY <2>1, <2>4 DEF Init3Worker
  <2>6. mail[w][PlaceIn(u, i)] = Msg("bc", b)
    <3>1. Fronts(w, xs, ls)  BY FrontIs
    <3> QED  BY <2>2, <3>1 DEF Fronts
  <2>7. v.core.xp[i] = [xp[i] EXCEPT !.bc = b]  BY <1>2, <1>4
  <2> QED  BY <2>5, <2>6, <2>7, MsgFields
<1> QED  BY <1>4, <1>11, <1>14, <1>15

\* The same for init3_distribute without new boundary data: rd is false.
LEMMA OldBlockFollows ==
  ASSUME NEW u, NEW w, NEW v, Acting(u, w, v), Init3Worker(w),
         NEW xs \in Seq(Message), NEW ls \in Seq(Message), NEW us,
         Taking(u, w, v, "init3_distribute", xs, ls, us),
         OldBlock(u, w, xs, ls, us, Core(w), v.core)
  PROVE  /\ own'[w] = v.core.own /\ xpcomm'[w] = v.xpcomm /\ mail'[w] = v.mail
         /\ us = <<>> /\ \A i \in MappedIn(u, w) : xp'[i] = v.core.xp[i]
<1>1. /\ u \in Setups /\ setup = u /\ w \in Worker /\ w \in Rank /\ v \in StateT(u, w)
      /\ own[w] \in OwnT /\ Types
  BY ActingFacts
<1>2. Core(w).own = own[w] /\ Core(w).xp = [i \in MappedIn(u, w) |-> xp[i]]
  <2>1. Parts(u, w)  BY <1>1, StateParts
  <2> QED  BY <2>1, Zenon DEF Parts
<1>3. PICK names : names = <<"thru", "rd", "mfsbc", "deltim", "timchg">>  OBVIOUS
<1>4. PICK x \in Nat, b \in Nat, g \in Nat :
        /\ xs = <<Msg("thru", 0), Msg("rd", 0), Msg("mfsbc", g), Msg("deltim", x),
                  Msg("timchg", b)>>
        /\ ls = <<>> /\ us = <<>>
        /\ v.core.own = [Core(w).own EXCEPT !.deltim = x, !.timchg = b]
        /\ v.core.xp = Core(w).xp
  BY Zenon DEF OldBlock
<1>5. /\ Len(xs) = 5 /\ Len(names) = 5 /\ DOMAIN names = 1 .. 5
      /\ names[1] = "thru" /\ names[2] = "rd" /\ names[3] = "mfsbc" /\ names[4] = "deltim"
      /\ names[5] = "timchg"
  BY <1>3, <1>4
<1>6. /\ xs[1] = Msg("thru", 0) /\ xs[2] = Msg("rd", 0)
      /\ xs[3] = Msg("mfsbc", g) /\ xs[4] = Msg("deltim", x) /\ xs[5] = Msg("timchg", b)
  BY <1>4
<1>7. /\ xs[1].name = "thru" /\ xs[2].name = "rd" /\ xs[3].name = "mfsbc"
      /\ xs[4].name = "deltim" /\ xs[5].name = "timchg" /\ xs[4].value = x /\ xs[5].value = b
  BY <1>6, MsgFields
<1>8. Labelled(xs, names)  BY <1>5, <1>7 DEF Labelled
<1>9. XpNames(w, "init3_distribute") = names
  <2>1. 1 \in 1 .. Len(xs) /\ 2 \in 1 .. Len(xs) /\ Fronts(w, xs, ls)  BY <1>5, FrontIs
  <2>2. xpcomm[w][1] = Msg("thru", 0) /\ xpcomm[w][2] = Msg("rd", 0)
    BY <1>6, <2>1 DEF Fronts
  <2>3. ~Carries(w, 1, "thru") /\ ~Carries(w, 2, "rd")  BY <2>2, MsgEqual DEF Carries
  <2> QED  BY <1>3, <2>3, BlockNamesAre, Zenon
<1>10. Gets(v.core.own, own[w], xs, names)
  <2>1. /\ v.core.own["deltim"] = x /\ v.core.own["timchg"] = b
        /\ "thru" \notin Fields /\ "rd" \notin Fields /\ "mfsbc" \notin Fields
        /\ \A f \in Fields \ {"deltim", "timchg"} : v.core.own[f] = own[w][f]
    BY <1>1, <1>2, <1>4 DEF OwnT, Fields
  <2>2. ASSUME NEW k \in 1 .. Len(xs), names[k] \in Fields
        PROVE  v.core.own[names[k]] = xs[k].value
    <3>1. k = 4 \/ k = 5  BY <1>5, <2>1, <2>2
    <3> QED  BY <1>5, <1>7, <2>1, <3>1
  <2>3. ASSUME NEW f \in Fields, \A k \in 1 .. Len(xs) : names[k] # f
        PROVE  v.core.own[f] = own[w][f]
    <3>1. 4 \in 1 .. Len(xs) /\ 5 \in 1 .. Len(xs)  BY <1>5
    <3>2. f \notin {"deltim", "timchg"}  BY <1>5, <2>3, <3>1
    <3> QED  BY <2>1, <3>2
  <2> QED  BY <2>2, <2>3 DEF Gets
<1>11. own'[w] = v.core.own /\ xpcomm'[w] = v.xpcomm
  <2>1. Received(w, "init3_distribute")  BY DEF Init3Worker
  <2> QED  BY <1>8, <1>9, <1>10, <2>1, OwnFollows
<1>12. "bc" \notin ToSet(XpNames(w, "init3_distribute"))
  <2>1. \A k \in DOMAIN names : names[k] # "bc"  BY <1>5
  <2> QED  BY <1>9, <2>1 DEF ToSet
<1>13. MailNames(w, "init3_distribute") = <<>>  BY <1>1, <1>12, AllNames
<1>14. mail'[w] = v.mail
  <2>1. Len(MailNames(w, "init3_distribute")) = Len(ls)  BY <1>4, <1>13
  <2> QED  BY <2>1 DEF Taking
<1>15. ASSUME NEW i \in MappedIn(u, w) PROVE xp'[i] = v.core.xp[i]
  <2>1. i \in Component /\ i \in Mapped(w)  BY ActingFacts
  <2>2. xp'[i] = xp[i]  BY <1>13, <2>1 DEF Init3Worker
  <2> QED  BY <1>2, <1>4, <2>2
<1> QED  BY <1>4, <1>11, <1>14, <1>15

\* The same for init3_distribute at the end of the simulation: thru is true.
LEMMA LastBlockFollows ==
  ASSUME NEW u, NEW w, NEW v, Acting(u, w, v), Init3Worker(w),
         NEW xs \in Seq(Message), NEW ls \in Seq(Message), NEW us,
         Taking(u, w, v, "init3_distribute", xs, ls, us),
         LastBlock(u, w, xs, ls, us, Core(w), v.core)
  PROVE  /\ own'[w] = v.core.own /\ xpcomm'[w] = v.xpcomm /\ mail'[w] = v.mail
         /\ us = <<>> /\ \A i \in MappedIn(u, w) : xp'[i] = v.core.xp[i]
<1>1. /\ u \in Setups /\ setup = u /\ w \in Worker /\ w \in Rank /\ v \in StateT(u, w)
      /\ own[w] \in OwnT /\ Types
  BY ActingFacts
<1>2. Core(w).own = own[w] /\ Core(w).xp = [i \in MappedIn(u, w) |-> xp[i]]
  <2>1. Parts(u, w)  BY <1>1, StateParts
  <2> QED  BY <2>1, Zenon DEF Parts
<1>3. PICK names : names = <<"thru">>  OBVIOUS
<1>4. /\ xs = <<Msg("thru", 1)>> /\ ls = <<>> /\ us = <<>>
      /\ v.core.own = Core(w).own /\ v.core.xp = Core(w).xp
  BY Zenon DEF LastBlock
<1>5. Len(xs) = 1 /\ Len(names) = 1 /\ DOMAIN names = 1 .. 1 /\ names[1] = "thru"
  BY <1>3, <1>4
<1>6. xs[1] = Msg("thru", 1)  BY <1>4
<1>7. xs[1].name = "thru"  BY <1>6, MsgFields
<1>8. Labelled(xs, names)  BY <1>5, <1>7 DEF Labelled
<1>9. XpNames(w, "init3_distribute") = names
  <2>1. 1 \in 1 .. Len(xs) /\ Fronts(w, xs, ls)  BY <1>5, FrontIs
  <2>2. xpcomm[w][1] = Msg("thru", 1) /\ Len(xpcomm[w]) >= 1  BY <1>6, <2>1 DEF Fronts
  <2>3. Carries(w, 1, "thru")  BY <2>2 DEF Carries
  <2> QED  BY <1>3, <2>3, BlockNamesAre, Zenon
<1>10. Gets(v.core.own, own[w], xs, names)
  <2>1. "thru" \notin Fields  BY DEF Fields
  <2>2. \A k \in 1 .. Len(xs) : names[k] \notin Fields  BY <1>5, <2>1
  <2> QED  BY <1>2, <1>4, <2>2 DEF Gets
<1>11. own'[w] = v.core.own /\ xpcomm'[w] = v.xpcomm
  <2>1. Received(w, "init3_distribute")  BY DEF Init3Worker
  <2> QED  BY <1>8, <1>9, <1>10, <2>1, OwnFollows
<1>12. "bc" \notin ToSet(XpNames(w, "init3_distribute"))
  <2>1. \A k \in DOMAIN names : names[k] # "bc"  BY <1>5
  <2> QED  BY <1>9, <2>1 DEF ToSet
<1>13. MailNames(w, "init3_distribute") = <<>>  BY <1>1, <1>12, AllNames
<1>14. mail'[w] = v.mail
  <2>1. Len(MailNames(w, "init3_distribute")) = Len(ls)  BY <1>4, <1>13
  <2> QED  BY <2>1 DEF Taking
<1>15. ASSUME NEW i \in MappedIn(u, w) PROVE xp'[i] = v.core.xp[i]
  <2>1. i \in Component /\ i \in Mapped(w)  BY ActingFacts
  <2>2. xp'[i] = xp[i]  BY <1>13, <2>1 DEF Init3Worker
  <2> QED  BY <1>2, <1>4, <2>2
<1> QED  BY <1>4, <1>11, <1>14, <1>15

\* The three cases of init3_distribute together.
LEMMA Init3Follows ==
  ASSUME NEW u, NEW w, NEW v, Acting(u, w, v), Init3Worker(w)
  PROVE  State(w)' = v
<1>1. /\ u \in Setups /\ setup = u /\ w \in Worker /\ v \in StateT(u, w)  BY ActingFacts
<1>2. "init3_distribute" \in Routine  BY DEF Routine
<1>3. PICK xs \in Seq(Message), ls \in Seq(Message), us \in Seq(Message) :
        Taking(u, w, v, "init3_distribute", xs, ls, us)
  BY <1>2, Took DEF Init3Worker
<1>4. /\ v.core.at = Core(w).at /\ v.core.itime = Core(w).itime
      /\ \/ LastBlock(u, w, xs, ls, us, Core(w), v.core)
         \/ OldBlock(u, w, xs, ls, us, Core(w), v.core)
         \/ NewBlock(u, w, xs, ls, us, Core(w), v.core)
  <2>1. InRoutine(u, w, "init3_distribute", xs, ls, us, Core(w), v.core)  BY <1>3 DEF Taking
  <2> QED  BY <2>1 DEF InRoutine
<1>5. Core(w).at = at[w] /\ Core(w).itime = itime[w]
  <2>1. Parts(u, w)  BY <1>1, StateParts
  <2> QED  BY <2>1, Zenon DEF Parts
<1>6. /\ own'[w] = v.core.own /\ xpcomm'[w] = v.xpcomm /\ mail'[w] = v.mail
      /\ us = <<>> /\ \A i \in MappedIn(u, w) : xp'[i] = v.core.xp[i]
  BY <1>3, <1>4, LastBlockFollows, OldBlockFollows, NewBlockFollows
<1>7. up'[w] = v.up
  <2>1. up' = up  BY DEF Init3Worker
  <2> QED  BY <1>3, <1>6, <2>1, NothingUp
<1>8. /\ at'[w] = v.core.at /\ itime'[w] = v.core.itime /\ world'[w] = v.world /\ setup' = u
  <2>1. at' = at /\ itime' = itime /\ setup' = setup  BY DEF Init3Worker
  <2> QED  BY <1>1, <1>3, <1>4, <1>5, <2>1 DEF Taking
<1> QED  BY <1>1, <1>6, <1>7, <1>8, StateBecomes

\* The same for run_transport, which does not fail in a worker (FailuresInRoot).
LEMMA TransportFollows ==
  ASSUME NEW u, NEW w, NEW v, Acting(u, w, v), RunTransportWorker(w)
  PROVE  State(w)' = v /\ errexe' = errexe
<1>1. /\ u \in Setups /\ setup = u /\ w \in Worker /\ w \in Rank /\ w # Root /\ Types
      /\ v \in StateT(u, w) /\ own[w] \in OwnT
      /\ \A i \in MappedIn(u, w) : i \in Component /\ i \in Mapped(w)
  BY ActingFacts
<1>2. "run_transport" \in Routine /\ "run_transport" \in
        {"run_transport", "sbc_gather", "c_gather", "time_step_save"}
  BY DEF Routine
<1>3. PICK xs \in Seq(Message), ls \in Seq(Message), us \in Seq(Message) :
        Taking(u, w, v, "run_transport", xs, ls, us)
  BY <1>2, Took DEF RunTransportWorker
<1>4. /\ v.core.at = Core(w).at /\ v.core.itime = Core(w).itime
      /\ Moves(u, w, xs, ls, us, Core(w), v.core)
  <2>1. InRoutine(u, w, "run_transport", xs, ls, us, Core(w), v.core)  BY <1>3 DEF Taking
  <2> QED  BY <2>1 DEF InRoutine
<1>5. /\ Core(w).at = at[w] /\ Core(w).itime = itime[w] /\ Core(w).own = own[w]
      /\ Core(w).xp = [i \in MappedIn(u, w) |-> xp[i]]
  <2>1. Parts(u, w)  BY <1>1, StateParts
  <2> QED  BY <2>1, Zenon DEF Parts
<1>6. /\ xs = <<>> /\ ls = <<>> /\ us = <<>> /\ v.core.own = Core(w).own
      /\ v.core.xp = [i \in MappedIn(u, w) |->
           [Core(w).xp[i] EXCEPT !.c = [Core(w).xp[i].c EXCEPT
              !.moved = @+1,
              !.with = [deltim |-> Core(w).own.deltim, data |-> Core(w).own,
                        bcs |-> Core(w).xp[i].bc, olds |-> Core(w).xp[i].old]]]]
  BY <1>4 DEF Moves
<1>7. xpcomm'[w] = v.xpcomm /\ mail'[w] = v.mail
  <2>1. xs = <<>> /\ ls = <<>>  BY <1>6
  <2>2. Taking(u, w, v, "run_transport", xs, ls, us)  BY <1>3
  <2> QED  BY <1>2, <2>1, <2>2, NoBroadcast, Zenon
<1>8. up'[w] = v.up
  <2>1. up' = up  BY DEF RunTransportWorker
  <2> QED  BY <1>3, <1>6, <2>1, NothingUp, ZenonT(60)
<1>9. setup.solute /\ ~errexe[w] /\ w \notin Failing
  BY <1>1 DEF RunTransportWorker, Takes, InGroup, Acting, FailuresInRoot
<1>10. /\ errexe' = [errexe EXCEPT ![w] = @ \/ setup.ns+1 <= setup.ns]
       /\ xp' = [i \in Component |->
                   IF i \notin Mapped(w) \/ ~setup.solute THEN xp[i]
                   ELSE [xp[i] EXCEPT !.c =
                           [Moved(w, i) EXCEPT !.bad = @ \/ errexe[w] \/ i >= setup.ns+1]]]
  BY <1>9, ZenonT(30) DEF RunTransportWorker, Transports
<1>11. setup.ns \in Nat  BY <1>1, Processes
<1>12. errexe' = errexe
  <2>1. errexe \in [Rank -> BOOLEAN]  BY <1>1 DEF Types
  <2>2. ~(setup.ns+1 <= setup.ns)  BY <1>11
  <2> QED  BY <1>1, <1>9, <1>10, <2>1, <2>2
<1>13. ASSUME NEW i \in MappedIn(u, w) PROVE xp'[i] = v.core.xp[i]
  <2>1. i \in Component /\ i \in Mapped(w) /\ xp[i] \in XpT(i)  BY <1>1 DEF Types
  <2>2. i \in Nat /\ ~(i >= setup.ns+1)  BY <1>11, <2>1 DEF Component
  <2>3. xp'[i] = [xp[i] EXCEPT !.c =
                    [Moved(w, i) EXCEPT !.bad = @ \/ errexe[w] \/ i >= setup.ns+1]]
    BY <1>9, <1>10, <2>1
  <2>4. Moved(w, i).bad \in BOOLEAN /\ Moved(w, i) = [of |-> Moved(w, i).of,
          moved |-> Moved(w, i).moved, reacted |-> Moved(w, i).reacted,
          bad |-> Moved(w, i).bad, with |-> Moved(w, i).with]
    <3>1. PICK d \in CT(i) : d = xp[i].c  BY <2>1 DEF XpT
    <3>2. PICK y : y = [deltim |-> own[w].deltim, data |-> own[w],
                        bcs |-> xp[i].bc, olds |-> xp[i].old]
      OBVIOUS
    <3>3. Moved(w, i) = [d EXCEPT !.moved = @+1, !.with = y]  BY <3>1, <3>2 DEF Moved
    <3>4. /\ d = [of |-> d.of, moved |-> d.moved, reacted |-> d.reacted, bad |-> d.bad,
                  with |-> d.with]
          /\ d.bad \in BOOLEAN
      BY DEF CT
    <3>5. Moved(w, i) = [of |-> d.of, moved |-> d.moved + 1, reacted |-> d.reacted,
                         bad |-> d.bad, with |-> y]
      BY <3>3, <3>4
    <3> QED  BY <3>4, <3>5
  <2>5. (Moved(w, i).bad \/ errexe[w] \/ i >= setup.ns+1) = Moved(w, i).bad
    BY <1>9, <2>2, <2>4
  <2>6. [Moved(w, i) EXCEPT !.bad = @ \/ errexe[w] \/ i >= setup.ns+1] = Moved(w, i)
    BY <2>4, <2>5
  <2>7. v.core.xp[i] = [xp[i] EXCEPT !.c = Moved(w, i)]
    BY <1>5, <1>6, ZenonT(30) DEF Moved
  <2> QED  BY <2>3, <2>6, <2>7
<1>14. /\ at'[w] = v.core.at /\ itime'[w] = v.core.itime /\ world'[w] = v.world /\ setup' = u
       /\ own'[w] = v.core.own
  <2>1. at' = at /\ itime' = itime /\ setup' = setup /\ own' = own  BY DEF RunTransportWorker
  <2> QED  BY <1>1, <1>3, <1>4, <1>5, <1>6, <2>1 DEF Taking
<1> QED  BY <1>1, <1>7, <1>8, <1>12, <1>13, <1>14, StateBecomes

\* The same for time_step_save.
LEMMA SaveFollows ==
  ASSUME NEW u, NEW w, NEW v, Acting(u, w, v), TimeStepSaveWorker(w)
  PROVE  State(w)' = v
<1>1. /\ u \in Setups /\ setup = u /\ w \in Worker /\ w \in Rank /\ w # Root /\ Types
      /\ v \in StateT(u, w) /\ own[w] \in OwnT
      /\ \A i \in MappedIn(u, w) : i \in Component /\ i \in Mapped(w)
  BY ActingFacts
<1>2. "time_step_save" \in Routine /\ "time_step_save" \in
        {"run_transport", "sbc_gather", "c_gather", "time_step_save"}
  BY DEF Routine
<1>3. PICK xs \in Seq(Message), ls \in Seq(Message), us \in Seq(Message) :
        Taking(u, w, v, "time_step_save", xs, ls, us)
  BY <1>2, Took DEF TimeStepSaveWorker
<1>4. /\ v.core.at = Core(w).at /\ v.core.itime = Core(w).itime
      /\ Saved(u, w, xs, ls, us, Core(w), v.core)
  <2>1. InRoutine(u, w, "time_step_save", xs, ls, us, Core(w), v.core)  BY <1>3 DEF Taking
  <2> QED  BY <2>1 DEF InRoutine
<1>5. /\ Core(w).at = at[w] /\ Core(w).itime = itime[w] /\ Core(w).own = own[w]
      /\ Core(w).xp = [i \in MappedIn(u, w) |-> xp[i]]
  <2>1. Parts(u, w)  BY <1>1, StateParts
  <2> QED  BY <2>1, Zenon DEF Parts
<1>6. /\ xs = <<>> /\ ls = <<>> /\ us = <<>>
      /\ v.core.own = [Core(w).own EXCEPT !.old = Core(w).own.bc]
      /\ v.core.xp = [i \in MappedIn(u, w) |-> [Core(w).xp[i] EXCEPT !.old = Core(w).xp[i].bc]]
  BY <1>4 DEF Saved
<1>7. xpcomm'[w] = v.xpcomm /\ mail'[w] = v.mail
  <2>1. xs = <<>> /\ ls = <<>>  BY <1>6
  <2>2. Taking(u, w, v, "time_step_save", xs, ls, us)  BY <1>3
  <2> QED  BY <1>2, <2>1, <2>2, NoBroadcast, Zenon
<1>8. up'[w] = v.up
  <2>1. up' = up  BY DEF TimeStepSaveWorker
  <2> QED  BY <1>3, <1>6, <2>1, NothingUp
<1>9. InGroup(w)  BY DEF TimeStepSaveWorker, Takes
<1>10. own'[w] = v.core.own
  <2>1. own \in [Rank -> OwnT]  BY <1>1 DEF Types
  <2>2. own'[w] = [own[w] EXCEPT !.old = own[w].bc]
    BY <1>1, <1>9, <2>1 DEF TimeStepSaveWorker, Saves
  <2> QED  BY <1>5, <1>6, <2>2
<1>11. \A i \in MappedIn(u, w) : xp'[i] = v.core.xp[i]
  BY <1>1, <1>5, <1>6, <1>9 DEF TimeStepSaveWorker, Saves
<1>12. /\ at'[w] = v.core.at /\ itime'[w] = v.core.itime /\ world'[w] = v.world /\ setup' = u
  <2>1. at' = at /\ itime' = itime /\ setup' = setup  BY DEF TimeStepSaveWorker
  <2> QED  BY <1>1, <1>3, <1>4, <1>5, <2>1 DEF Taking
<1> QED  BY <1>1, <1>7, <1>8, <1>10, <1>11, <1>12, StateBecomes

\* The same for sbc_gather.
LEMMA SbcFollows ==
  ASSUME NEW u, NEW w, NEW v, Acting(u, w, v), SbcGatherWorker(w)
  PROVE  State(w)' = v
<1>1. /\ u \in Setups /\ setup = u /\ w \in Worker /\ w \in Rank /\ w # Root /\ Types
      /\ v \in StateT(u, w) /\ own[w] \in OwnT
      /\ \A i \in MappedIn(u, w) : i \in Component /\ i \in Mapped(w)
  BY ActingFacts
<1>2. "sbc_gather" \in Routine /\ "sbc_gather" \in
        {"run_transport", "sbc_gather", "c_gather", "time_step_save"}
  BY DEF Routine
<1>3. PICK xs \in Seq(Message), ls \in Seq(Message), us \in Seq(Message) :
        Taking(u, w, v, "sbc_gather", xs, ls, us)
  BY <1>2, Took DEF SbcGatherWorker
<1>4. /\ v.core.at = Core(w).at /\ v.core.itime = Core(w).itime
      /\ Sbc(u, w, xs, ls, us, Core(w), v.core)
  <2>1. InRoutine(u, w, "sbc_gather", xs, ls, us, Core(w), v.core)  BY <1>3 DEF Taking
  <2> QED  BY <2>1 DEF InRoutine
<1>5. /\ Core(w).at = at[w] /\ Core(w).itime = itime[w] /\ Core(w).own = own[w]
      /\ Core(w).xp = [i \in MappedIn(u, w) |-> xp[i]]
  <2>1. Parts(u, w)  BY <1>1, StateParts
  <2> QED  BY <2>1, Zenon DEF Parts
<1>6. /\ xs = <<>> /\ ls = <<>> /\ us = When(u.sbc, SameLetters(u, w, "sbc", 0))
      /\ v.core.own = Core(w).own /\ v.core.xp = Core(w).xp
  BY <1>4 DEF Sbc
<1>7. xpcomm'[w] = v.xpcomm /\ mail'[w] = v.mail
  <2>1. xs = <<>> /\ ls = <<>>  BY <1>6
  <2>2. Taking(u, w, v, "sbc_gather", xs, ls, us)  BY <1>3
  <2> QED  BY <1>2, <2>1, <2>2, NoBroadcast, Zenon
<1>8. up'[w] = v.up
  <2>1. DOMAIN Locals(w) = 1 .. Count(u, w)
    <3>1. Locals(w) = LocalsIn(u, w)  BY <1>1, InForce
    <3> QED  BY <3>1 DEF LocalsIn
  <2>2. [k \in DOMAIN Locals(w) |-> Msg("sbc", 0)] = SameLetters(u, w, "sbc", 0)
    BY <2>1 DEF SameLetters
  <2>3. up \in [Worker -> Seq(Message)]  BY <1>1 DEF Types
  <2>4. up'[w] = up[w] \o When(setup.sbc, [k \in DOMAIN Locals(w) |-> Msg("sbc", 0)])
    BY <1>1, <2>3, Zenon DEF SbcGatherWorker
  <2>5. v.up = up[w] \o us  BY <1>3 DEF Taking
  <2> QED  BY <1>1, <1>6, <2>2, <2>4, <2>5, Zenon
<1>9. \A i \in MappedIn(u, w) : xp'[i] = v.core.xp[i]
  <2>1. xp' = xp  BY DEF SbcGatherWorker
  <2> QED  BY <1>5, <1>6, <2>1
<1>10. /\ at'[w] = v.core.at /\ itime'[w] = v.core.itime /\ world'[w] = v.world /\ setup' = u
       /\ own'[w] = v.core.own
  <2>1. at' = at /\ itime' = itime /\ setup' = setup /\ own' = own  BY DEF SbcGatherWorker
  <2> QED  BY <1>1, <1>3, <1>4, <1>5, <1>6, <2>1 DEF Taking
<1> QED  BY <1>1, <1>7, <1>8, <1>9, <1>10, StateBecomes

\* The same for c_gather: the worker sends what its components have become.
LEMMA AnswersFollow ==
  ASSUME NEW u, NEW w, NEW v, Acting(u, w, v), CGatherWorker(w)
  PROVE  State(w)' = v
<1>1. /\ u \in Setups /\ setup = u /\ w \in Worker /\ w \in Rank /\ w # Root /\ Types
      /\ v \in StateT(u, w) /\ own[w] \in OwnT
      /\ \A i \in MappedIn(u, w) : i \in Component /\ i \in Mapped(w)
  BY ActingFacts
<1>2. "c_gather" \in Routine /\ "c_gather" \in
        {"run_transport", "sbc_gather", "c_gather", "time_step_save"}
  BY DEF Routine
<1>3. PICK xs \in Seq(Message), ls \in Seq(Message), us \in Seq(Message) :
        Taking(u, w, v, "c_gather", xs, ls, us)
  BY <1>2, Took DEF CGatherWorker
<1>4. /\ v.core.at = Core(w).at /\ v.core.itime = Core(w).itime
      /\ Answers(u, w, xs, ls, us, Core(w), v.core)
  <2>1. InRoutine(u, w, "c_gather", xs, ls, us, Core(w), v.core)  BY <1>3 DEF Taking
  <2> QED  BY <2>1 DEF InRoutine
<1>5. /\ Core(w).at = at[w] /\ Core(w).itime = itime[w] /\ Core(w).own = own[w]
      /\ Core(w).xp = [i \in MappedIn(u, w) |-> xp[i]]
  <2>1. Parts(u, w)  BY <1>1, StateParts
  <2> QED  BY <2>1, Zenon DEF Parts
<1>6. /\ xs = <<>> /\ ls = <<>>
      /\ us = LettersIn(u, w, "c", [i \in MappedIn(u, w) |-> Core(w).xp[i].c])
      /\ v.core.own = Core(w).own /\ v.core.xp = Core(w).xp
  BY <1>4 DEF Answers
<1>7. xpcomm'[w] = v.xpcomm /\ mail'[w] = v.mail
  <2>1. xs = <<>> /\ ls = <<>>  BY <1>6
  <2>2. Taking(u, w, v, "c_gather", xs, ls, us)  BY <1>3
  <2> QED  BY <1>2, <2>1, <2>2, NoBroadcast, Zenon
<1>8. up'[w] = v.up
  <2>1. Letters(w, "c", [i \in Component |-> xp[i].c])
          = LettersIn(u, w, "c", [i \in Component |-> xp[i].c])
    BY <1>1, InForce
  <2>2. LettersIn(u, w, "c", [i \in Component |-> xp[i].c]) = us
    <3>1. \A k \in 1 .. Count(u, w) : LocalsIn(u, w)[k] \in MappedIn(u, w)
      BY <1>1, LocalsFacts
    <3>2. \A k \in 1 .. Count(u, w) :
            [i \in Component |-> xp[i].c][LocalsIn(u, w)[k]]
              = [i \in MappedIn(u, w) |-> Core(w).xp[i].c][LocalsIn(u, w)[k]]
      BY <1>1, <1>5, <3>1
    <3> QED  BY <1>6, <3>2 DEF LettersIn
  <2>3. up \in [Worker -> Seq(Message)]  BY <1>1 DEF Types
  <2>4. up'[w] = up[w] \o Letters(w, "c", [i \in Component |-> xp[i].c])
    BY <1>1, <2>3, Zenon DEF CGatherWorker
  <2>5. v.up = up[w] \o us  BY <1>3 DEF Taking
  <2> QED  BY <2>1, <2>2, <2>4, <2>5, Zenon
<1>9. \A i \in MappedIn(u, w) : xp'[i] = v.core.xp[i]
  <2>1. xp' = xp  BY DEF CGatherWorker
  <2> QED  BY <1>5, <1>6, <2>1
<1>10. /\ at'[w] = v.core.at /\ itime'[w] = v.core.itime /\ world'[w] = v.world /\ setup' = u
       /\ own'[w] = v.core.own
  <2>1. at' = at /\ itime' = itime /\ setup' = setup /\ own' = own  BY DEF CGatherWorker
  <2> QED  BY <1>1, <1>3, <1>4, <1>5, <1>6, <2>1 DEF Taking
<1> QED  BY <1>1, <1>7, <1>8, <1>9, <1>10, StateBecomes

\* A call that exchanges nothing on xp_comm.
LEMMA NothingTaken ==
  ASSUME NEW u, NEW w, NEW v, Acting(u, w, v), NEW e \in {<<>>},
         xpcomm[w] = e \o v.xpcomm, mail[w] = e \o v.mail, v.up = up[w] \o e
  PROVE  v.xpcomm = xpcomm[w] /\ v.mail = mail[w] /\ v.up = up[w]
<1>1. v.xpcomm \in Seq(Message) /\ v.mail \in Seq(Message)  BY ActingFacts DEF StateT
<1>2. up[w] \in Seq(Message)  BY ActingFacts DEF Types
<1>3. <<>> \o v.xpcomm = v.xpcomm /\ <<>> \o v.mail = v.mail /\ up[w] \o <<>> = up[w]
  BY <1>1, <1>2, QueueEmpty, Zenon
<1>4. e = <<>>  OBVIOUS
<1> QED  BY <1>3, <1>4, Zenon

\* What is known of a worker that acts.
LEMMA FirstOf ==
  ASSUME NEW u, NEW w, NEW v, Acting(u, w, v)
  PROVE  /\ FirstCall(u, w, State(w), v) /\ Parts(u, w)
         /\ u \in Setups /\ setup = u /\ w \in Worker /\ w \in Rank /\ w # Root /\ Types
         /\ v \in StateT(u, w) /\ (InGroup(w) <=> InGroupIn(u, w))
<1>1. /\ u \in Setups /\ setup = u /\ w \in Worker /\ w \in Rank /\ w # Root /\ Types
      /\ v \in StateT(u, w)
  BY ActingFacts
<1>2. Parts(u, w) /\ (InGroup(w) <=> InGroupIn(u, w))  BY <1>1, StateParts, InForce
<1>3. Step(u, w, State(w), v)  BY DEF Acting
<1>4. PICK s : s = State(w)  OBVIOUS
<1>5. Step(u, w, s, v)  BY <1>3, <1>4
<1>6. FirstCall(u, w, s, v)  BY <1>1, <1>5, FirstName
<1> QED  BY <1>1, <1>2, <1>4, <1>6

\* All but the queue of calls stays.
LEMMA StaysFollows ==
  ASSUME NEW u, NEW w, NEW v, Acting(u, w, v), NEW k \in Nat,
         world' = Taken(world, w, k), v.world = SubSeq(world[w], k+1, Len(world[w])),
         v.xpcomm = xpcomm[w], v.mail = mail[w], v.up = up[w], v.core = Core(w),
         UNCHANGED <<setup, at, xpcomm, mail, up, itime, own, xp>>
  PROVE  State(w)' = v
<1>1. /\ setup = u /\ w \in Worker /\ Types /\ v \in StateT(u, w)
      /\ \A i \in MappedIn(u, w) : i \in Component /\ i \in Mapped(w)
  BY ActingFacts
<1>2. world \in [Worker -> Seq(Message)]  BY <1>1 DEF Types
<1>3. world'[w] = SubSeq(world[w], k+1, Len(world[w]))  BY <1>1, <1>2 DEF Taken
<1>4. /\ setup' = setup /\ at' = at /\ xpcomm' = xpcomm /\ mail' = mail /\ up' = up
      /\ itime' = itime /\ own' = own /\ xp' = xp
  OBVIOUS
<1>5. /\ Core(w).at = at[w] /\ Core(w).itime = itime[w] /\ Core(w).own = own[w]
      /\ Core(w).xp = [i \in MappedIn(u, w) |-> xp[i]]
  <2>1. Parts(u, w)  BY <1>1, StateParts
  <2> QED  BY <2>1, Zenon DEF Parts
<1>6. \A i \in MappedIn(u, w) : xp'[i] = v.core.xp[i]  BY <1>4, <1>5
<1>7. /\ setup' = u /\ at'[w] = v.core.at /\ itime'[w] = v.core.itime /\ own'[w] = v.core.own
      /\ up'[w] = v.up /\ world'[w] = v.world /\ xpcomm'[w] = v.xpcomm /\ mail'[w] = v.mail
  BY <1>1, <1>3, <1>4, <1>5
<1> QED  BY <1>1, <1>6, <1>7, StateBecomes, ZenonT(60)

\* A process that is not a transporter leaves the routine at once.
LEMMA NotInGroupFollows ==
  ASSUME NEW u, NEW w, NEW v, Acting(u, w, v), NotInGroup(w)
  PROVE  State(w)' = v
<1>1. /\ FirstCall(u, w, State(w), v) /\ Parts(u, w) /\ (InGroup(w) <=> InGroupIn(u, w))
  BY FirstOf
<1>2. /\ ~InGroup(w) /\ Head(world[w]).name \notin {"set_fdtmth", "break"}
      /\ world' = Taken(world, w, 1)
      /\ UNCHANGED <<setup, at, xpcomm, mail, up, itime, own, xp>>
  BY DEF NotInGroup
<1>3. /\ State(w).world = world[w] /\ State(w).xpcomm = xpcomm[w] /\ State(w).mail = mail[w]
      /\ State(w).up = up[w] /\ State(w).core = Core(w)
  BY <1>1, Zenon DEF Parts
<1>4. PICK s : s = State(w)  OBVIOUS
<1>5. FirstCall(u, w, s, v) /\ Head(s.world).name \notin {"set_fdtmth", "break"}
  BY <1>1, <1>2, <1>3, <1>4
<1>6. Head(s.world).name \in Routine
  <2>1. Head(s.world).name \in Routine \cup {"set_fdtmth", "break"}  BY <1>5, Zenon DEF FirstCall
  <2> QED  BY <1>5, <2>1
<1>7. v.world = SubSeq(s.world, 2, Len(s.world))  BY <1>5, <1>6, Zenon DEF FirstCall
<1>8. \E e \in {<<>>} : /\ s.xpcomm = e \o v.xpcomm /\ s.mail = e \o v.mail
                        /\ v.up = s.up \o e /\ v.core = s.core
  BY <1>1, <1>2, <1>5, <1>6, Zenon DEF FirstCall
<1>9. PICK e \in {<<>>} : /\ xpcomm[w] = e \o v.xpcomm /\ mail[w] = e \o v.mail
                          /\ v.up = up[w] \o e /\ v.core = Core(w)
  BY <1>3, <1>4, <1>8
<1>10. v.xpcomm = xpcomm[w] /\ v.mail = mail[w] /\ v.up = up[w]  BY <1>9, NothingTaken
<1>11. v.world = SubSeq(world[w], 1+1, Len(world[w]))  BY <1>3, <1>4, <1>7
<1>12. 1 \in Nat  OBVIOUS
<1> QED  BY <1>2, <1>9, <1>10, <1>11, <1>12, StaysFollows

\* The same for set_fdtmth.
LEMMA FdtmthFollows ==
  ASSUME NEW u, NEW w, NEW v, Acting(u, w, v), SetFdtmthWorker(w)
  PROVE  State(w)' = v
<1>1. FirstCall(u, w, State(w), v) /\ Parts(u, w)  BY FirstOf
<1>2. /\ Head(world[w]).name = "set_fdtmth"
      /\ world' = Taken(world, w, 2)
      /\ UNCHANGED <<setup, at, xpcomm, mail, up, itime, own, xp>>
  BY DEF SetFdtmthWorker, Called
<1>3. /\ State(w).world = world[w] /\ State(w).xpcomm = xpcomm[w] /\ State(w).mail = mail[w]
      /\ State(w).up = up[w] /\ State(w).core = Core(w)
  BY <1>1, Zenon DEF Parts
<1>4. PICK s : s = State(w)  OBVIOUS
<1>5. FirstCall(u, w, s, v) /\ Head(s.world).name = "set_fdtmth"
  BY <1>1, <1>2, <1>3, <1>4
<1>7. v.world = SubSeq(s.world, 3, Len(s.world))  BY <1>5, Zenon DEF FirstCall
<1>8. \E e \in {<<>>} : /\ s.xpcomm = e \o v.xpcomm /\ s.mail = e \o v.mail
                        /\ v.up = s.up \o e /\ v.core = s.core
  BY <1>5, Zenon DEF FirstCall
<1>9. PICK e \in {<<>>} : /\ xpcomm[w] = e \o v.xpcomm /\ mail[w] = e \o v.mail
                          /\ v.up = up[w] \o e /\ v.core = Core(w)
  BY <1>3, <1>4, <1>8
<1>10. v.xpcomm = xpcomm[w] /\ v.mail = mail[w] /\ v.up = up[w]  BY <1>9, NothingTaken
<1>11. v.world = SubSeq(world[w], 2+1, Len(world[w]))  BY <1>3, <1>4, <1>7
<1>12. 2 \in Nat  OBVIOUS
<1> QED  BY <1>2, <1>9, <1>10, <1>11, <1>12, StaysFollows

\* The same for the end of the worker's loop.
LEMMA LeaveFollows ==
  ASSUME NEW u, NEW w, NEW v, Acting(u, w, v), LeaveLoop(w)
  PROVE  State(w)' = v
<1>1. /\ FirstCall(u, w, State(w), v) /\ Parts(u, w)
      /\ setup = u /\ w \in Worker /\ w \in Rank /\ Types /\ v \in StateT(u, w)
  BY FirstOf
<1>2. /\ Head(world[w]).name = "break"
      /\ world' = Taken(world, w, 1) /\ at' = [at EXCEPT ![w] = "barrier"]
      /\ UNCHANGED <<setup, xpcomm, mail, up, itime, own, xp>>
  BY DEF LeaveLoop, Called
<1>3. /\ State(w).world = world[w] /\ State(w).xpcomm = xpcomm[w] /\ State(w).mail = mail[w]
      /\ State(w).up = up[w] /\ State(w).core = Core(w)
      /\ Core(w).at = at[w] /\ Core(w).itime = itime[w] /\ Core(w).own = own[w]
      /\ Core(w).xp = [i \in MappedIn(u, w) |-> xp[i]]
  BY <1>1, Zenon DEF Parts
<1>4. PICK s : s = State(w)  OBVIOUS
<1>5. FirstCall(u, w, s, v) /\ Head(s.world).name = "break"
  BY <1>1, <1>2, <1>3, <1>4
<1>6. v.world = SubSeq(s.world, 2, Len(s.world))  BY <1>5, Zenon DEF FirstCall
<1>7. \E e \in {<<>>} : /\ s.xpcomm = e \o v.xpcomm /\ s.mail = e \o v.mail
                        /\ v.up = s.up \o e /\ v.core = [s.core EXCEPT !.at = "barrier"]
  BY <1>5, Zenon DEF FirstCall
<1>8. PICK e \in {<<>>} : /\ xpcomm[w] = e \o v.xpcomm /\ mail[w] = e \o v.mail
                          /\ v.up = up[w] \o e /\ v.core = [Core(w) EXCEPT !.at = "barrier"]
  BY <1>3, <1>4, <1>7
<1>9. v.xpcomm = xpcomm[w] /\ v.mail = mail[w] /\ v.up = up[w]
  <2>1. xpcomm[w] = e \o v.xpcomm /\ mail[w] = e \o v.mail /\ v.up = up[w] \o e  BY <1>8, Zenon
  <2> HIDE <1>8
  <2> QED  BY <2>1, NothingTaken
<1>10. /\ v.core.at = "barrier" /\ v.core.itime = Core(w).itime /\ v.core.own = Core(w).own
       /\ v.core.xp = Core(w).xp
  BY <1>8 DEF Core
<1>11. world'[w] = SubSeq(world[w], 1+1, Len(world[w])) /\ at'[w] = "barrier"
  BY <1>1, <1>2 DEF Taken, Types
<1>12. /\ setup' = setup /\ xpcomm' = xpcomm /\ mail' = mail /\ up' = up
       /\ itime' = itime /\ own' = own /\ xp' = xp
  BY <1>2
<1>13. \A i \in MappedIn(u, w) : xp'[i] = v.core.xp[i]  BY <1>3, <1>10, <1>12
<1>14. /\ setup' = u /\ at'[w] = v.core.at /\ itime'[w] = v.core.itime /\ own'[w] = v.core.own
       /\ up'[w] = v.up /\ world'[w] = v.world /\ xpcomm'[w] = v.xpcomm /\ mail'[w] = v.mail
  <2>1. world'[w] = v.world  BY <1>3, <1>4, <1>6, <1>11
  <2> QED  BY <1>1, <1>3, <1>9, <1>10, <1>11, <1>12, <2>1
<1> QED  BY <1>1, <1>13, <1>14, StateBecomes

\* Whatever a worker does, it does what it was called for.
LEMMA WorkerFollows ==
  ASSUME NEW u, NEW w, NEW v, Acting(u, w, v), WorkerStep(w)
  PROVE  State(w)' = v /\ errexe' = errexe
<1>1. CASE NotInGroup(w)  BY <1>1, NotInGroupFollows DEF NotInGroup, errors
<1>2. CASE SetFdtmthWorker(w)  BY <1>2, FdtmthFollows DEF SetFdtmthWorker, errors
<1>3. CASE CDistributeWorker(w)  BY <1>3, CDistributeFollows DEF CDistributeWorker, errors
<1>4. CASE FlowWorker(w)
  <2>1. UNCHANGED <<setup, at, up, itime, xp, c, errors>>  BY <1>4 DEF FlowWorker
  <2>2. PICK m \in {"p_distribute", "flow_distribute"} : Takes(w, m) /\ Received(w, m)
    BY <1>4 DEF FlowWorker
  <2>3. CASE m = "p_distribute"  BY <2>1, <2>2, <2>3, PressureFollows DEF errors
  <2>4. CASE m = "flow_distribute"  BY <2>1, <2>2, <2>4, FlowsFollows DEF errors
  <2> QED  BY <2>2, <2>3, <2>4
<1>5. CASE Init3Worker(w)  BY <1>5, Init3Follows DEF Init3Worker, errors
<1>6. CASE TimestepWorker(w)  BY <1>6, TimestepFollows DEF TimestepWorker, errors
<1>7. CASE RunTransportWorker(w)  BY <1>7, TransportFollows
<1>8. CASE SbcGatherWorker(w)  BY <1>8, SbcFollows DEF SbcGatherWorker, errors
<1>9. CASE CGatherWorker(w)  BY <1>9, AnswersFollow DEF CGatherWorker, errors
<1>10. CASE TimeStepSaveWorker(w)  BY <1>10, SaveFollows DEF TimeStepSaveWorker, errors
<1>11. CASE LeaveLoop(w)  BY <1>11, LeaveFollows DEF LeaveLoop, errors
<1> QED  BY <1>1, <1>2, <1>3, <1>4, <1>5, <1>6, <1>7, <1>8, <1>9, <1>10, <1>11 DEF WorkerStep

----------------------------------------------------------------------------
(* What the step of a worker leaves alone.                                 *)

Framed(w) ==
  /\ setup' = setup /\ c' = c /\ errexi' = errexi
  /\ at' = [at EXCEPT ![w] = at'[w]] /\ itime' = [itime EXCEPT ![w] = itime'[w]]
  /\ own' = [own EXCEPT ![w] = own'[w]] /\ up' = [up EXCEPT ![w] = up'[w]]
  /\ world' = [world EXCEPT ![w] = world'[w]]
  /\ xpcomm' = [xpcomm EXCEPT ![w] = xpcomm'[w]]
  /\ mail' = [mail EXCEPT ![w] = mail'[w]]
  /\ xp' = [i \in Component |-> IF i \in Mapped(w) THEN xp'[i] ELSE xp[i]]

\* Taking from its queues a worker leaves those of the others alone.
LEMMA TakesFrame ==
  ASSUME NEW w \in Worker, Types, NEW m, Takes(w, m)
  PROVE  /\ world' = [world EXCEPT ![w] = world'[w]]
         /\ xpcomm' = [xpcomm EXCEPT ![w] = xpcomm'[w]]
         /\ mail' = [mail EXCEPT ![w] = mail'[w]]
<1>1. /\ world \in [Worker -> Seq(Message)] /\ xpcomm \in [Worker -> Seq(Message)]
      /\ mail \in [Worker -> Seq(Message)]
  BY DEF Types
<1>2. \E a, x, l : /\ world' = [world EXCEPT ![w] = a] /\ xpcomm' = [xpcomm EXCEPT ![w] = x]
                   /\ mail' = [mail EXCEPT ![w] = l]
  BY DEF Takes, Taken
<1> QED  BY <1>1, <1>2

\* What a worker receives changes its own data only.
LEMMA ReceivedFrame ==
  ASSUME NEW w \in Worker, Types, NEW m, Received(w, m)
  PROVE  own' = [own EXCEPT ![w] = own'[w]]
<1>1. own \in [Rank -> OwnT] /\ w \in Rank  BY DEF Types, Worker
<1>2. \E o : own' = [own EXCEPT ![w] = o]  BY DEF Received
<1> QED  BY <1>1, <1>2

\* An action of a worker changes nothing that belongs to another process.
LEMMA WorkerFrame ==
  ASSUME NEW w \in Worker, Types, WorkerStep(w)
  PROVE  Framed(w)
<1>1. /\ world \in [Worker -> Seq(Message)] /\ xpcomm \in [Worker -> Seq(Message)]
      /\ mail \in [Worker -> Seq(Message)] /\ up \in [Worker -> Seq(Message)]
      /\ at \in [Rank -> RootAt \cup {"loop"}] /\ itime \in [Rank -> Nat]
      /\ own \in [Rank -> OwnT] /\ w \in Rank
      /\ xp \in [Component -> UNION {XpT(i) : i \in Nat}]
  BY DEF Types, Worker
<1>2. /\ world = [world EXCEPT ![w] = world[w]] /\ xpcomm = [xpcomm EXCEPT ![w] = xpcomm[w]]
      /\ mail = [mail EXCEPT ![w] = mail[w]] /\ up = [up EXCEPT ![w] = up[w]]
      /\ at = [at EXCEPT ![w] = at[w]] /\ itime = [itime EXCEPT ![w] = itime[w]]
      /\ own = [own EXCEPT ![w] = own[w]]
      /\ xp = [i \in Component |-> IF i \in Mapped(w) THEN xp[i] ELSE xp[i]]
  BY <1>1
<1>3. CASE NotInGroup(w)
  <2>1. \E a : world' = [world EXCEPT ![w] = a]  BY <1>3 DEF NotInGroup, Taken
  <2>2. world' = [world EXCEPT ![w] = world'[w]]  BY <1>1, <2>1
  <2> QED  BY <1>2, <1>3, <2>2 DEF NotInGroup, errors, Framed
<1>4. CASE SetFdtmthWorker(w)
  <2>1. \E a : world' = [world EXCEPT ![w] = a]  BY <1>4 DEF SetFdtmthWorker, Taken
  <2>2. world' = [world EXCEPT ![w] = world'[w]]  BY <1>1, <2>1
  <2> QED  BY <1>2, <1>4, <2>2 DEF SetFdtmthWorker, errors, Framed
<1>5. CASE CDistributeWorker(w)
  <2>1. own' = [own EXCEPT ![w] = own'[w]]  BY <1>5, ReceivedFrame DEF CDistributeWorker
  <2>2. /\ world' = [world EXCEPT ![w] = world'[w]]
        /\ xpcomm' = [xpcomm EXCEPT ![w] = xpcomm'[w]]
        /\ mail' = [mail EXCEPT ![w] = mail'[w]]
    BY <1>5, TakesFrame DEF CDistributeWorker
  <2>3. xp' = [i \in Component |-> IF i \in Mapped(w) THEN xp'[i] ELSE xp[i]]
    BY <1>5 DEF CDistributeWorker
  <2> QED  BY <1>2, <1>5, <2>1, <2>2, <2>3 DEF CDistributeWorker, errors, Framed
<1>6. CASE FlowWorker(w)
  <2>1. PICK m : Takes(w, m) /\ Received(w, m)  BY <1>6 DEF FlowWorker
  <2>2. own' = [own EXCEPT ![w] = own'[w]]  BY <2>1, ReceivedFrame
  <2>3. /\ world' = [world EXCEPT ![w] = world'[w]]
        /\ xpcomm' = [xpcomm EXCEPT ![w] = xpcomm'[w]]
        /\ mail' = [mail EXCEPT ![w] = mail'[w]]
    BY <2>1, TakesFrame
  <2> QED  BY <1>2, <1>6, <2>2, <2>3 DEF FlowWorker, errors, Framed
<1>7. CASE Init3Worker(w)
  <2>1. own' = [own EXCEPT ![w] = own'[w]]  BY <1>7, ReceivedFrame DEF Init3Worker
  <2>2. /\ world' = [world EXCEPT ![w] = world'[w]]
        /\ xpcomm' = [xpcomm EXCEPT ![w] = xpcomm'[w]]
        /\ mail' = [mail EXCEPT ![w] = mail'[w]]
    BY <1>7, TakesFrame DEF Init3Worker
  <2>3. xp' = [i \in Component |-> IF i \in Mapped(w) THEN xp'[i] ELSE xp[i]]
    BY <1>7 DEF Init3Worker
  <2> QED  BY <1>2, <1>7, <2>1, <2>2, <2>3 DEF Init3Worker, errors, Framed
<1>8. CASE TimestepWorker(w)
  <2>1. own' = [own EXCEPT ![w] = own'[w]]  BY <1>8, ReceivedFrame DEF TimestepWorker
  <2>2. /\ world' = [world EXCEPT ![w] = world'[w]]
        /\ xpcomm' = [xpcomm EXCEPT ![w] = xpcomm'[w]]
        /\ mail' = [mail EXCEPT ![w] = mail'[w]]
    BY <1>8, TakesFrame DEF TimestepWorker
  <2>3. /\ itime' = [itime EXCEPT ![w] = @+1]
        /\ at' = [at EXCEPT ![w] = IF itime'[w] = Got(w, "itime") THEN @ ELSE "stopped"]
    BY <1>8 DEF TimestepWorker
  <2>4. itime' = [itime EXCEPT ![w] = itime'[w]] /\ at' = [at EXCEPT ![w] = at'[w]]
    BY <1>1, <2>3
  <2> QED  BY <1>2, <1>8, <2>1, <2>2, <2>4 DEF TimestepWorker, errors, Framed
<1>9. CASE RunTransportWorker(w)
  <2>2. /\ world' = [world EXCEPT ![w] = world'[w]]
        /\ xpcomm' = [xpcomm EXCEPT ![w] = xpcomm'[w]]
        /\ mail' = [mail EXCEPT ![w] = mail'[w]]
    BY <1>9, TakesFrame DEF RunTransportWorker
  <2>3. PICK k : xp' = [i \in Component |->
                IF i \notin Mapped(w) \/ ~setup.solute THEN xp[i]
                ELSE [xp[i] EXCEPT !.c = [Moved(w, i) EXCEPT !.bad = @ \/ errexe[w] \/ i >= k]]]
    BY <1>9 DEF RunTransportWorker, Transports
  <2>4. xp' = [i \in Component |-> IF i \in Mapped(w) THEN xp'[i] ELSE xp[i]]  BY <2>3
  <2> QED  BY <1>2, <1>9, <2>2, <2>4 DEF RunTransportWorker, errors, Framed
<1>10. CASE SbcGatherWorker(w)
  <2>1. \E a : up' = [up EXCEPT ![w] = a]  BY <1>10 DEF SbcGatherWorker
  <2>2. up' = [up EXCEPT ![w] = up'[w]]  BY <1>1, <2>1
  <2>3. /\ world' = [world EXCEPT ![w] = world'[w]]
        /\ xpcomm' = [xpcomm EXCEPT ![w] = xpcomm'[w]]
        /\ mail' = [mail EXCEPT ![w] = mail'[w]]
    BY <1>10, TakesFrame DEF SbcGatherWorker
  <2> QED  BY <1>2, <1>10, <2>2, <2>3 DEF SbcGatherWorker, errors, Framed
<1>11. CASE CGatherWorker(w)
  <2>1. \E a : up' = [up EXCEPT ![w] = a]  BY <1>11 DEF CGatherWorker
  <2>2. up' = [up EXCEPT ![w] = up'[w]]  BY <1>1, <2>1
  <2>3. /\ world' = [world EXCEPT ![w] = world'[w]]
        /\ xpcomm' = [xpcomm EXCEPT ![w] = xpcomm'[w]]
        /\ mail' = [mail EXCEPT ![w] = mail'[w]]
    BY <1>11, TakesFrame DEF CGatherWorker
  <2> QED  BY <1>2, <1>11, <2>2, <2>3 DEF CGatherWorker, errors, Framed
<1>12. CASE TimeStepSaveWorker(w)
  <2>1. /\ own' = [own EXCEPT ![w].old = IF InGroup(w) THEN own[w].bc ELSE @]
        /\ xp' = [i \in Component |->
              IF InGroup(w) /\ i \in Mapped(w) THEN [xp[i] EXCEPT !.old = xp[i].bc] ELSE xp[i]]
    BY <1>12 DEF TimeStepSaveWorker, Saves
  <2>2. own' = [own EXCEPT ![w] = own'[w]]  BY <1>1, <2>1
  <2>3. xp' = [i \in Component |-> IF i \in Mapped(w) THEN xp'[i] ELSE xp[i]]  BY <2>1
  <2>4. /\ world' = [world EXCEPT ![w] = world'[w]]
        /\ xpcomm' = [xpcomm EXCEPT ![w] = xpcomm'[w]]
        /\ mail' = [mail EXCEPT ![w] = mail'[w]]
    BY <1>12, TakesFrame DEF TimeStepSaveWorker
  <2> QED  BY <1>2, <1>12, <2>2, <2>3, <2>4 DEF TimeStepSaveWorker, errors, Framed
<1>13. CASE LeaveLoop(w)
  <2>1. \E a : world' = [world EXCEPT ![w] = a]  BY <1>13 DEF LeaveLoop, Taken
  <2>2. world' = [world EXCEPT ![w] = world'[w]]  BY <1>1, <2>1
  <2>3. at' = [at EXCEPT ![w] = at'[w]]  BY <1>1, <1>13 DEF LeaveLoop
  <2> QED  BY <1>2, <1>13, <2>2, <2>3 DEF LeaveLoop, errors, Framed
<1> QED
  BY <1>3, <1>4, <1>5, <1>6, <1>7, <1>8, <1>9, <1>10, <1>11, <1>12, <1>13 DEF WorkerStep

\* The parts of the state of a worker in the next state.
LEMMA StatePartsNext ==
  ASSUME NEW u, setup' = u, NEW w
  PROVE  Parts(u, w)'
<1>1. Mapped(w)' = MappedIn(u, w)  BY InForceNext
<1> QED  BY <1>1 DEF State, Core, Parts

\* No component is mapped to two processes.
LEMMA MappedOnce ==
  \A u, r, w : r # w => \A i \in MappedIn(u, r) : i \notin MappedIn(u, w)
  BY DEF MappedIn

\* A worker acts only when it is called.
LEMMA WorkerCalled ==
  ASSUME NEW w, WorkerStep(w)
  PROVE  world[w] # <<>>
<1>1. \A m : Takes(w, m) => world[w] # <<>>  BY DEF Takes, Called
<1> QED
  BY <1>1 DEF WorkerStep, NotInGroup, SetFdtmthWorker, CDistributeWorker, FlowWorker, Init3Worker,
     TimestepWorker, RunTransportWorker, SbcGatherWorker, CGatherWorker, TimeStepSaveWorker,
     LeaveLoop, Called

\* An action of a worker keeps the types.
LEMMA WorkerTypes ==
  ASSUME NEW u, NEW w, NEW v, Acting(u, w, v), WorkerStep(w)
  PROVE  Types'
<1>1. /\ u \in Setups /\ setup = u /\ w \in Worker /\ w \in Rank /\ w # Root /\ Types
      /\ v \in StateT(u, w)
  BY ActingFacts
<1>2. State(w)' = v /\ errexe' = errexe /\ Framed(w)  BY <1>1, WorkerFollows, WorkerFrame
<1>3. setup' = u /\ setup' = setup  BY <1>1, <1>2 DEF Framed
<1>4. /\ at'[w] = v.core.at /\ itime'[w] = v.core.itime /\ own'[w] = v.core.own
      /\ up'[w] = v.up /\ world'[w] = v.world /\ xpcomm'[w] = v.xpcomm /\ mail'[w] = v.mail
      /\ v.core.xp = [i \in MappedIn(u, w) |-> xp'[i]]
  <2>1. Parts(u, w)'  BY <1>3, StatePartsNext
  <2>2. /\ State(w)'.core = Core(w)' /\ State(w)'.up = up'[w] /\ State(w)'.world = world'[w]
        /\ State(w)'.xpcomm = xpcomm'[w] /\ State(w)'.mail = mail'[w]
        /\ Core(w)'.at = at'[w] /\ Core(w)'.itime = itime'[w] /\ Core(w)'.own = own'[w]
        /\ Core(w)'.xp = [i \in MappedIn(u, w) |-> xp'[i]]
    BY <2>1, Zenon DEF Parts
  <2> QED  BY <1>2, <2>2
<1>5. /\ v.core.at \in {"loop", "stopped", "exited", "barrier", "done"} /\ v.core.itime \in Nat
      /\ v.core.own \in OwnT /\ v.core.xp \in XpsT(u, w) /\ v.up \in Seq(Message)
      /\ v.world \in Seq(Message) /\ v.xpcomm \in Seq(Message) /\ v.mail \in Seq(Message)
  BY <1>1 DEF StateT, CoreT
<1>6. Rank' = Rank /\ Worker' = Worker /\ Component' = Component
  BY <1>3 DEF Rank, Worker, Component
<1>7. at' \in [Rank -> RootAt \cup {"loop"}] /\ at'[Root] = at[Root]
  <2>1. at \in [Rank -> RootAt \cup {"loop"}]  BY <1>1 DEF Types
  <2>2. v.core.at \in RootAt \cup {"loop"}  BY <1>5 DEF RootAt
  <2>3. Root \in Rank  BY <1>1, Workers
  <2> QED  BY <1>1, <1>2, <1>4, <2>1, <2>2, <2>3 DEF Framed
<1>8. itime' \in [Rank -> Nat] /\ itime'[Root] = itime[Root]
  <2>1. itime \in [Rank -> Nat] /\ Root \in Rank  BY <1>1, Workers DEF Types
  <2> QED  BY <1>1, <1>2, <1>4, <1>5, <2>1 DEF Framed
<1>9. own' \in [Rank -> OwnT]
  <2>1. own \in [Rank -> OwnT]  BY <1>1 DEF Types
  <2> QED  BY <1>1, <1>2, <1>4, <1>5, <2>1 DEF Framed
<1>10. /\ world' \in [Worker -> Seq(Message)] /\ xpcomm' \in [Worker -> Seq(Message)]
       /\ mail' \in [Worker -> Seq(Message)] /\ up' \in [Worker -> Seq(Message)]
  <2>1. /\ world \in [Worker -> Seq(Message)] /\ xpcomm \in [Worker -> Seq(Message)]
        /\ mail \in [Worker -> Seq(Message)] /\ up \in [Worker -> Seq(Message)]
    BY <1>1 DEF Types
  <2> QED  BY <1>1, <1>2, <1>4, <1>5, <2>1 DEF Framed
<1>11. \A i \in Component : xp'[i] \in XpT(i)
  <2>1. Mapped(w) = MappedIn(u, w)  BY <1>1, InForce
  <2>2. \A i \in MappedIn(u, w) : xp'[i] \in XpT(i)
    <3>1. \A i \in MappedIn(u, w) : v.core.xp[i] \in XpT(i)  BY <1>5 DEF XpsT
    <3> QED  BY <1>4, <3>1
  <2>3. xp' = [i \in Component |-> IF i \in Mapped(w) THEN xp'[i] ELSE xp[i]]
    BY <1>2 DEF Framed
  <2>4. \A i \in Component : i \notin Mapped(w) => xp'[i] = xp[i]  BY <2>3
  <2>5. \A i \in Component : xp[i] \in XpT(i)  BY <1>1 DEF Types
  <2> QED  BY <2>1, <2>2, <2>4, <2>5
<1>12. xp' \in [Component -> UNION {XpT(i) : i \in Nat}]
  <2>1. xp' = [i \in Component |-> IF i \in Mapped(w) THEN xp'[i] ELSE xp[i]]
    BY <1>2 DEF Framed
  <2>2. xp' = [i \in Component |-> xp'[i]]  BY <2>1
  <2>3. Component \subseteq Nat  BY DEF Component
  <2>4. \A i \in Component : xp'[i] \in UNION {XpT(j) : j \in Nat}  BY <1>11, <2>3
  <2> QED  BY <2>2, <2>4
<1>13. c' \in DataT(setup') /\ errexe' \in [Rank -> BOOLEAN] /\ errexi' \in BOOLEAN
  BY <1>1, <1>2, <1>3 DEF Framed, Types
<1>14. at[Root] \in RootAt /\ itime[Root] \in 0 .. MaxSteps /\ setup \in Setups  BY <1>1 DEF Types
<1> QED
  BY <1>3, <1>6, <1>7, <1>8, <1>9, <1>10, <1>11, <1>12, <1>13, <1>14 DEF Types

\* Whom a step leaves alone keeps its state.
LEMMA OthersStay ==
  ASSUME NEW u \in Setups, setup = u, Types, NEW w \in Worker, Framed(w)
  PROVE  /\ \A r \in Worker : r # w => State(r)' = State(r)
         /\ at'[Root] = at[Root] /\ itime'[Root] = itime[Root] /\ own'[Root] = own[Root]
         /\ \A i \in MappedIn(u, Root) : xp'[i] = xp[i]
<1>1. /\ setup' = u /\ Root \in Rank /\ w # Root /\ w \in Rank
      /\ Mapped(w) = MappedIn(u, w)
  BY Workers, InForce DEF Framed, Worker
<1>2. ASSUME NEW r \in Rank, r # w
      PROVE  /\ at'[r] = at[r] /\ itime'[r] = itime[r] /\ own'[r] = own[r]
             /\ \A i \in MappedIn(u, r) : xp'[i] = xp[i]
  <2>1. at'[r] = at[r] /\ itime'[r] = itime[r] /\ own'[r] = own[r]
    BY <1>1, <1>2 DEF Framed, Types
  <2>2. ASSUME NEW i \in MappedIn(u, r) PROVE xp'[i] = xp[i]
    <3>1. i \in Component /\ i \notin Mapped(w)
      <4>1. i \in Comps(u) /\ i \notin MappedIn(u, w)  BY <1>2, MappedOnce DEF MappedIn
      <4> QED  BY <1>1, <4>1, InForce
    <3>2. xp' = [j \in Component |-> IF j \in Mapped(w) THEN xp'[j] ELSE xp[j]]  BY DEF Framed
    <3> QED  BY <3>1, <3>2
  <2> QED  BY <2>1, <2>2
<1>3. ASSUME NEW r \in Worker, r # w PROVE State(r)' = State(r)
  <2>1. r \in Rank  BY DEF Worker
  <2>2. /\ up'[r] = up[r] /\ world'[r] = world[r] /\ xpcomm'[r] = xpcomm[r]
        /\ mail'[r] = mail[r]
    BY <1>3 DEF Framed, Types
  <2>3. Mapped(r)' = MappedIn(u, r) /\ Mapped(r) = MappedIn(u, r)
    BY <1>1, InForce, InForceNext
  <2>4. [i \in Mapped(r)' |-> xp'[i]] = [i \in Mapped(r) |-> xp[i]]  BY <1>2, <1>3, <2>1, <2>3
  <2>5. Core(r)' = Core(r)  BY <1>2, <1>3, <2>1, <2>4 DEF Core
  <2> QED  BY <2>2, <2>5 DEF State
<1> QED  BY <1>1, <1>2, <1>3

\* A worker that takes its part in all calls has nothing left.
LEMMA RestsIdle ==
  ASSUME NEW u, NEW w, NEW t, NEW a, NEW n, a # "stopped" \/ ~InGroupIn(u, w)
  PROVE  Rests(u, w, t, a, n) <=> Idle(t)
  BY DEF Rests

\* A worker waits for ever in the call that the root has stopped in.
LEMMA UnfinishedStays ==
  ASSUME NEW w \in Worker, InGroup(w), NEW n,
         world[w] = <<Msg("timestep_worker", 0)>>, xpcomm[w] = <<Msg("itime", n)>>
  PROVE  ~WorkerStep(w)
<1>1. Head(world[w]).name = "timestep_worker"  BY DEF Msg
<1>2. ~NotInGroup(w)  BY DEF NotInGroup
<1>3. ~SetFdtmthWorker(w) /\ ~LeaveLoop(w)  BY <1>1 DEF SetFdtmthWorker, LeaveLoop, Called
<1>4. \A m : Takes(w, m) => m = "timestep_worker"  BY <1>1 DEF Takes, Called
<1>5. ~Takes(w, "timestep_worker")
  <2>1. XpNames(w, "timestep_worker") = <<"itime", "deltim", "time">>  BY DEF XpNames
  <2>2. Takes(w, "timestep_worker")
          => Len(xpcomm[w]) >= Len(<<"itime", "deltim", "time">>)
    BY <2>1, Zenon DEF Takes, Ready
  <2>3. Len(<<"itime", "deltim", "time">>) = 3 /\ Len(xpcomm[w]) = 1  OBVIOUS
  <2>4. ~(Len(xpcomm[w]) >= Len(<<"itime", "deltim", "time">>))  BY <2>3
  <2> QED  BY <2>2, <2>4, Zenon
<1>6. \A m : ~Takes(w, m)  BY <1>4, <1>5
<1> QED  BY <1>2, <1>3, <1>6 DEF WorkerStep, CDistributeWorker, FlowWorker, Init3Worker,
     TimestepWorker, RunTransportWorker, SbcGatherWorker, CGatherWorker, TimeStepSaveWorker

\* An action of a worker keeps the invariant: it has one call less before it.
LEMMA WorkerInv ==
  ASSUME Inv, FailuresInRoot, NEW w \in Worker, WorkerStep(w)
  PROVE  Inv'
<1>1. Types /\ RootFacts /\ WorkersSucceed /\ WorkersFollow  BY DEF Inv
<1>2. PICK u : u = setup  OBVIOUS
<1>3. u \in Setups /\ setup = u  BY <1>1, <1>2 DEF Types
<1>4. PICK a, n, o, d : a = at[Root] /\ n = itime[Root] /\ o = own[Root] /\ d = c  OBVIOUS
<1>5. \A r \in Worker : Sound(u, r, State(r), a, n, o, d)  BY <1>1, <1>2, <1>4 DEF WorkersFollow
<1>6. PICK s : s = State(w)  OBVIOUS
<1>7. Sound(u, w, s, a, n, o, d)  BY <1>5, <1>6
<1>8. PICK t \in StateT(u, w) :
        Comes(u, w, s, t) /\ Rests(u, w, t, a, n) /\ Follows(u, w, t, a, n, o, d)
  BY <1>7 DEF Sound
<1>9. s # t
  <2>1. s.world = world[w] /\ s.xpcomm = xpcomm[w]
    <3>1. Parts(u, w)  BY <1>3, StateParts
    <3> QED  BY <1>6, <3>1 DEF Parts
  <2>2. CASE Idle(t)
    <3>1. t.world = <<>>  BY <2>2 DEF Idle
    <3> QED  BY <2>1, <3>1, WorkerCalled
  <2>3. CASE ~Idle(t)
    <3>1. InGroupIn(u, w) /\ Unfinished(t, n)  BY <1>8, <2>3 DEF Rests
    <3>2. InGroup(w)  BY <1>3, <3>1 DEF InGroup, InGroupIn
    <3> QED  BY <2>1, <3>1, <3>2, UnfinishedStays DEF Unfinished
  <2> QED  BY <2>2, <2>3
<1>10. PICK v \in StateT(u, w) : Step(u, w, s, v) /\ Comes(u, w, v, t)
  BY <1>8, <1>9, ComesFirst
<1>11. Acting(u, w, v)  BY <1>1, <1>3, <1>6, <1>10 DEF Acting, WorkersSucceed
<1>12. State(w)' = v /\ errexe' = errexe /\ Types'  BY <1>11, WorkerFollows, WorkerTypes
<1>13. Framed(w)  BY <1>1, WorkerFrame
<1>14. /\ \A r \in Worker : r # w => State(r)' = State(r)
       /\ at'[Root] = at[Root] /\ itime'[Root] = itime[Root] /\ own'[Root] = own[Root]
       /\ \A i \in MappedIn(u, Root) : xp'[i] = xp[i]
  BY <1>1, <1>3, <1>13, OthersStay
<1>15. setup' = u /\ c' = c /\ errexi' = errexi  BY <1>3, <1>13 DEF Framed
<1>16. Rank' = Rank /\ Worker' = Worker /\ Component' = Component
  BY <1>3, <1>15 DEF Rank, Worker, Component
<1>17. WorkersFollow'
  <2>1. ASSUME NEW r \in Worker PROVE Sound(u, r, State(r)', a, n, o, d)
    <3>1. CASE r = w  BY <1>8, <1>10, <1>12, <3>1 DEF Sound
    <3>2. CASE r # w  BY <1>5, <1>14, <3>2
    <3> QED  BY <3>1, <3>2
  <2> QED  BY <1>4, <1>14, <1>15, <1>16, <2>1 DEF WorkersFollow
<1>18. WorkersSucceed'  BY <1>1, <1>12, <1>16 DEF WorkersSucceed
<1>19. RootFacts'
  <2>1. XpFollows(u, Root, xp, a, o, d) => XpFollows(u, Root, xp', a, o, d)
    BY <1>14 DEF XpFollows
  <2>2. RootFactsAt(u, a, n, o, d, xp)  BY <1>1, <1>3, <1>4 DEF RootFacts
  <2>3. RootFactsAt(u, a, n, o, d, xp')  BY <2>1, <2>2 DEF RootFactsAt
  <2> QED  BY <1>4, <1>14, <1>15, <2>3 DEF RootFacts
<1> QED  BY <1>12, <1>17, <1>18, <1>19 DEF Inv

----------------------------------------------------------------------------
(* What a worker that follows the root makes of the next call.             *)

CoreOf(n, o, x) == [at |-> "loop", itime |-> n, own |-> o, xp |-> x]
IdleOf(k, q) == [core |-> k, up |-> q, world |-> <<>>, xpcomm |-> <<>>, mail |-> <<>>]

\* From t, routine m with xs and ls takes a transporter where the root counts on it.
Obeys(u, w, m, xs, ls, t, a, n, o, d) ==
  \E k \in CoreT(u, w), us \in Seq(Message) :
    /\ InRoutine(u, w, m, xs, ls, us, t.core, k)
    /\ Follows(u, w, IdleOf(k, t.up \o us), a, n, o, d)

\* The transporters of a process have their type when each of its components has.
LEMMA XpsIs ==
  ASSUME NEW u \in Setups, NEW w, NEW x, x = [i \in MappedIn(u, w) |-> x[i]],
         \A i \in MappedIn(u, w) : x[i] \in XpT(i)
  PROVE  x \in XpsT(u, w)
<1>1. \A i \in MappedIn(u, w) : i \in Nat  BY LocalsFacts DEF Comps
<1>2. \A i \in MappedIn(u, w) : x[i] \in UNION {XpT(j) : j \in Nat}  BY <1>1
<1> QED  BY <1>2 DEF XpsT

\* A core made of typed parts is typed.
LEMMA CoreOfT ==
  ASSUME NEW u \in Setups, NEW w, NEW n \in Nat, NEW o \in OwnT, NEW x \in XpsT(u, w)
  PROVE  CoreOf(n, o, x) \in CoreT(u, w)
  BY DEF CoreOf, CoreT

\* What is known of a transporter that follows the root.
Following(u, w, t, a, n, o, d) ==
  /\ u \in Setups /\ InGroupIn(u, w) /\ t \in StateT(u, w) /\ a \notin Over
  /\ n \in Nat /\ o \in OwnT /\ d \in DataT(u)
  /\ Follows(u, w, t, a, n, o, d)

Known(u, w, t, a, n, o, d) ==
  /\ u \in Setups /\ n \in Nat /\ o \in OwnT /\ d \in DataT(u) /\ InGroupIn(u, w)
  /\ t.core.at = "loop" /\ t.core.itime = n /\ t.core.own \in OwnT
  /\ t.core.xp \in XpsT(u, w) /\ t.up \in Seq(Message) /\ t.up = Sends(u, w, a, o, d)
  /\ \A f \in Fields \ Old(u, a) : t.core.own[f] = o[f]
  /\ XpFollows(u, w, t.core.xp, a, o, d)
  /\ t.core.xp = [i \in MappedIn(u, w) |-> t.core.xp[i]]
  /\ \A i \in MappedIn(u, w) : t.core.xp[i] \in XpT(i) /\ d[i] \in CT(i) /\ i \in Nat
  /\ t.core = CoreOf(n, t.core.own, t.core.xp)

\* The facts about a transporter that follows the root, spelled out.
LEMMA FollowingFacts ==
  ASSUME NEW u, NEW w, NEW t, NEW a, NEW n, NEW o, NEW d, Following(u, w, t, a, n, o, d)
  PROVE  Known(u, w, t, a, n, o, d)
<1>1. /\ u \in Setups /\ n \in Nat /\ o \in OwnT /\ d \in DataT(u) /\ t \in StateT(u, w)
      /\ a \notin Over /\ InGroupIn(u, w) /\ Follows(u, w, t, a, n, o, d)
  BY DEF Following
<1>2. t.core \in CoreT(u, w) /\ t.up \in Seq(Message)  BY <1>1 DEF StateT
<1>3. t.core.own \in OwnT /\ t.core.xp \in XpsT(u, w)  BY <1>2 DEF CoreT
<1>4. /\ t.core.at = "loop" /\ t.up = Sends(u, w, a, o, d) /\ t.core.itime = n
      /\ \A f \in Fields \ Old(u, a) : t.core.own[f] = o[f]
      /\ XpFollows(u, w, t.core.xp, a, o, d)
  BY <1>1 DEF Follows, Over
<1>5. /\ t.core.xp = [i \in MappedIn(u, w) |-> t.core.xp[i]]
      /\ \A i \in MappedIn(u, w) : t.core.xp[i] \in XpT(i)
  BY <1>3 DEF XpsT
<1>6. \A i \in MappedIn(u, w) : i \in Comps(u) /\ i \in Nat  BY <1>1, LocalsFacts DEF Comps
<1>7. \A i \in MappedIn(u, w) : d[i] \in CT(i)  BY <1>1, <1>6 DEF DataT
<1>8. t.core = CoreOf(n, t.core.own, t.core.xp)  BY <1>2, <1>4 DEF CoreT, CoreOf
<1> QED  BY <1>1, <1>2, <1>3, <1>4, <1>5, <1>6, <1>7, <1>8 DEF Known

\* To follow the root anew.
LEMMA FollowsAnew ==
  ASSUME NEW u, NEW w, InGroupIn(u, w), NEW n, NEW o, NEW x, NEW q, NEW a, NEW o2, NEW d,
         a \notin Over, q = Sends(u, w, a, o2, d),
         \A f \in Fields \ Old(u, a) : o[f] = o2[f], XpFollows(u, w, x, a, o2, d)
  PROVE  Follows(u, w, IdleOf(CoreOf(n, o, x), q), a, n, o2, d)
<1>1. /\ IdleOf(CoreOf(n, o, x), q).core = CoreOf(n, o, x)
      /\ IdleOf(CoreOf(n, o, x), q).up = q
  BY DEF IdleOf
<1>2. /\ CoreOf(n, o, x).at = "loop" /\ CoreOf(n, o, x).itime = n /\ CoreOf(n, o, x).own = o
      /\ CoreOf(n, o, x).xp = x
  BY DEF CoreOf
<1> QED  BY <1>1, <1>2 DEF Follows, Over

\* Letters are expected from a worker only while the root waits for them.
LEMMA NoSends ==
  \A u, w, a, o, d : a \notin {"sbc wait", "c wait"} => Sends(u, w, a, o, d) = <<>>
  BY DEF Sends

\* Nothing is sent, and nothing was.
LEMMA SendsNothing ==
  ASSUME NEW u, NEW w, NEW t, NEW a, NEW n, NEW o, NEW d, Known(u, w, t, a, n, o, d),
         a \notin {"sbc wait", "c wait"}
  PROVE  /\ t.up \o <<>> = <<>> /\ <<>> \in Seq(Message)
         /\ \A e \in RootAt \ {"sbc wait", "c wait"} : \A p, q :
              t.up \o <<>> = Sends(u, w, e, p, q)
<1>1. t.up = <<>>
  <2>1. t.up = Sends(u, w, a, o, d)  BY Zenon DEF Known
  <2> QED  BY <2>1, NoSends, Zenon
<1>2. <<>> \in Seq(Message)  BY EmptySeq, Zenon
<1>3. <<>> \o <<>> = <<>>  BY <1>2, QueueEmpty, Zenon
<1>4. \A e \in RootAt \ {"sbc wait", "c wait"} : \A p, q : Sends(u, w, e, p, q) = <<>>
  BY NoSends
<1> QED  BY <1>1, <1>2, <1>3, <1>4, Zenon

\* The state that c_distribute leads to is the one the root counts on after it.
LEMMA TimeAnswered ==
  ASSUME NEW u, NEW w, NEW t, NEW n, NEW o, NEW d, Following(u, w, t, "c", n, o, d)
  PROVE  Obeys(u, w, "c_distribute", <<Msg("time", o.time)>>, LettersIn(u, w, "c", d),
                  t, "p", n, o, d)
<1>1. Known(u, w, t, "c", n, o, d)  BY FollowingFacts
<1> DEFINE q == [t.core.own EXCEPT !.time = o.time]
           x == [i \in MappedIn(u, w) |-> [t.core.xp[i] EXCEPT !.c = d[i]]]
           k == CoreOf(n, q, x)
<1>2. o.time \in Nat /\ q \in OwnT  BY <1>1 DEF Known, OwnT, Fields
<1>3. \A i \in MappedIn(u, w) : x[i] \in XpT(i)  BY <1>1 DEF Known, XpT
<1>4. x \in XpsT(u, w)
  <2>1. x = [i \in MappedIn(u, w) |-> x[i]]  OBVIOUS
  <2> HIDE DEF x
  <2> QED  BY <1>1, <1>3, <2>1, XpsIs DEF Known
<1>5. k \in CoreT(u, w)
  <2> HIDE DEF q, x
  <2> QED  BY <1>1, <1>2, <1>4, CoreOfT DEF Known
<1>6. /\ k.at = t.core.at /\ k.itime = t.core.itime /\ k.own = q /\ k.xp = x
  BY <1>1 DEF Known, CoreOf
<1>7. InRoutine(u, w, "c_distribute", <<Msg("time", o.time)>>, LettersIn(u, w, "c", d), <<>>,
                t.core, k)
  <2>1. Time(u, w, <<Msg("time", o.time)>>, LettersIn(u, w, "c", d), <<>>, t.core, k)
    BY <1>1, <1>2, <1>6 DEF Known, Time
  <2> HIDE DEF k
  <2> QED  BY <1>6, <2>1 DEF InRoutine
<1>8. t.up \o <<>> = Sends(u, w, "p", o, d) /\ <<>> \in Seq(Message)
  <2>1. "p" \in RootAt \ {"sbc wait", "c wait"} /\ "c" \notin {"sbc wait", "c wait"}  BY DEF RootAt
  <2> QED  BY <1>1, <2>1, SendsNothing
<1>9. \A f \in Fields \ Old(u, "p") : q[f] = o[f]
  BY <1>1 DEF Known, Old, OwnT, Ends, Over
<1>10. XpFollows(u, w, x, "p", o, d)
  BY <1>1 DEF Known, XpFollows, Before, Behind, XpT
<1>11. Follows(u, w, IdleOf(k, t.up \o <<>>), "p", n, o, d)
  <2> HIDE DEF q, x
  <2>1. InGroupIn(u, w) /\ "p" \notin Over  BY DEF Following, Over
  <2> QED  BY <1>8, <1>9, <1>10, <2>1, FollowsAnew
<1> QED
  <2> HIDE DEF k
  <2> QED  BY <1>5, <1>7, <1>8, <1>11 DEF Obeys

\* The data of the process and of its components are where the root counts on them.
Fits(u, w, q, x, a, o, d) ==
  /\ q \in OwnT /\ x \in XpsT(u, w)
  /\ \A f \in Fields \ Old(u, a) : q[f] = o[f]
  /\ XpFollows(u, w, x, a, o, d)

\* How a state that a call leads to is shown to follow the root.
LEMMA Obeying ==
  ASSUME NEW u, NEW w, NEW t, NEW a, NEW n, NEW o, NEW d, Known(u, w, t, a, n, o, d),
         NEW b, b \notin Over, NEW n2 \in Nat, NEW o2, NEW d2,
         NEW q, NEW x, Fits(u, w, q, x, b, o2, d2),
         NEW m, NEW xs, NEW ls, NEW us \in Seq(Message),
         InRoutine(u, w, m, xs, ls, us, t.core, CoreOf(n2, q, x)),
         t.up \o us = Sends(u, w, b, o2, d2)
  PROVE  Obeys(u, w, m, xs, ls, t, b, n2, o2, d2)
<1>1. CoreOf(n2, q, x) \in CoreT(u, w)  BY CoreOfT DEF Fits, Known
<1>2. Follows(u, w, IdleOf(CoreOf(n2, q, x), t.up \o us), b, n2, o2, d2)
  <2>1. /\ InGroupIn(u, w) /\ \A f \in Fields \ Old(u, b) : q[f] = o2[f]
        /\ XpFollows(u, w, x, b, o2, d2)
    BY DEF Fits, Known
  <2> QED  BY <2>1, FollowsAnew
<1> QED  BY <1>1, <1>2, Zenon DEF Obeys

\* The same for p_distribute.
LEMMA PressureAnswered ==
  ASSUME NEW u, NEW w, NEW t, NEW n, NEW o, NEW d, Following(u, w, t, "p", n, o, d)
  PROVE  Obeys(u, w, "p_distribute", Filled(PNamesIn(u, n), "p", o.p, o.frac), <<>>,
               t, "read", n, o, d)
<1>1. Known(u, w, t, "p", n, o, d)  BY FollowingFacts
<1> DEFINE names == PNamesIn(u, n)
           q == [f \in Fields |-> IF f \notin ToSet(names) THEN t.core.own[f]
                                 ELSE IF f = "p" THEN o.p ELSE o.frac]
           x == t.core.xp
           xs == Filled(names, "p", o.p, o.frac)
<1>2. u \in Setups /\ n \in Nat /\ o.p \in Nat /\ o.frac \in Nat /\ t.core.own \in OwnT
  BY <1>1 DEF Known, OwnT, Fields
<1>3. q \in OwnT  BY <1>2 DEF OwnT
<1>4. ToSet(names) \subseteq {"p", "frac", "mfsbc"}
      /\ (Old(u, "p") # {} => "p" \in ToSet(names))
      /\ ("frac" \in Old(u, "p") => "frac" \in ToSet(names))
  <2>0. u.steady \in BOOLEAN /\ u.fresur \in BOOLEAN  BY <1>2, Processes
  <2>1. CASE names = <<"p", "frac", "mfsbc">>  BY <2>1 DEF ToSet, Old, Ends, Over
  <2>2. CASE names = <<"p", "frac">> /\ ~u.fresur
    BY <2>2 DEF ToSet, Old, Ends, Over
  <2>3. CASE names = <<>> /\ u.steady  BY <2>3 DEF ToSet, Old, Ends, Over
  <2>4. CASE names = <<"p">> /\ ~u.fresur  BY <2>4 DEF ToSet, Old, Ends, Over
  <2> QED  BY <1>2, <2>0, <2>1, <2>2, <2>3, <2>4, NamesAre
<1>5. \A f \in Fields \ Old(u, "read") : q[f] = o[f]
  <2>1. \A f \in Fields \ Old(u, "p") : t.core.own[f] = o[f]  BY <1>1 DEF Known
  <2>2. Old(u, "p") \subseteq {"p", "frac"}  BY DEF Old, Ends, Over
  <2>3. \A f \in Fields : f \in ToSet(names) => f = "p" \/ f = "frac"  BY <1>4 DEF Fields
  <2> HIDE DEF names
  <2> QED  BY <1>4, <2>1, <2>2, <2>3
<1>6. Fits(u, w, q, x, "read", o, d)
  <2>1. XpFollows(u, w, x, "read", o, d)  BY <1>1 DEF Known, XpFollows, Before, Behind
  <2> HIDE DEF q
  <2> QED  BY <1>1, <1>3, <1>5, <2>1 DEF Fits, Known
<1> HIDE DEF q
<1>7. InRoutine(u, w, "p_distribute", xs, <<>>, <<>>, t.core, CoreOf(n, q, x))
  <2>1. t.core.at = "loop" /\ t.core.itime = n  BY <1>1 DEF Known
  <2>2. Pressure(u, w, xs, <<>>, <<>>, t.core, CoreOf(n, q, x))
    BY <1>2, <2>1 DEF Pressure, CoreOf, q
  <2> QED  BY <2>1, <2>2 DEF InRoutine, CoreOf
<1>8. t.up \o <<>> = Sends(u, w, "read", o, d) /\ <<>> \in Seq(Message)
  <2>1. "read" \in RootAt \ {"sbc wait", "c wait"} /\ "p" \notin {"sbc wait", "c wait"}
    BY DEF RootAt
  <2> QED  BY <1>1, <2>1, SendsNothing
<1> QED
  <2> HIDE DEF xs, x, names
  <2>1. "read" \notin Over  BY DEF Over
  <2>2. Obeys(u, w, "p_distribute", xs, <<>>, t, "read", n, o, d)
    BY <1>1, <1>2, <1>6, <1>7, <1>8, <2>1, Obeying
  <2> QED  BY <2>2 DEF xs, names

\* The same for flow_distribute.
LEMMA FlowsAnswered ==
  ASSUME NEW u, NEW w, NEW t, NEW a, NEW n, NEW o, NEW d, Following(u, w, t, a, n, o, d),
         NEW b, \/ a = "flow0" /\ b \in {"fdtmth", "exit"}
                \/ a = "flow" /\ b = "transport",
         NEW y \in Nat
  PROVE  Obeys(u, w, "flow_distribute", Filled(FlowNamesIn(u), "deltim", o.deltim, y), <<>>,
               t, b, n, [o EXCEPT !.flow = y], d)
<1>1. Known(u, w, t, a, n, o, d)  BY FollowingFacts
<1> DEFINE q == [t.core.own EXCEPT !.flow = y, !.deltim = o.deltim]
           o2 == [o EXCEPT !.flow = y]
           x == t.core.xp
           xs == Filled(FlowNamesIn(u), "deltim", o.deltim, y)
<1>2. o \in OwnT /\ t.core.own \in OwnT /\ o.deltim \in Nat /\ n \in Nat
  BY <1>1 DEF Known, OwnT, Fields
<1>3. q \in OwnT /\ o2.bc = o.bc /\ o2.old = o.old  BY <1>2 DEF OwnT, Fields
<1>4. \A f \in Fields \ Old(u, b) : q[f] = o2[f]
  <2>1. \A f \in Fields : t.core.own[f] = o[f]  BY <1>1 DEF Known, Old, Ends, Over
  <2> QED  BY <1>2, <2>1 DEF OwnT, Fields
<1>5. Fits(u, w, q, x, b, o2, d)
  <2>1. XpFollows(u, w, x, b, o2, d)
    <3> HIDE DEF o2
    <3> QED  BY <1>1, <1>3 DEF Known, XpFollows, Before, Behind
  <2> HIDE DEF q, o2
  <2> QED  BY <1>1, <1>3, <1>4, <2>1 DEF Fits, Known
<1> HIDE DEF q, o2
<1>6. InRoutine(u, w, "flow_distribute", xs, <<>>, <<>>, t.core, CoreOf(n, q, x))
  <2>1. t.core.at = "loop" /\ t.core.itime = n  BY <1>1 DEF Known
  <2>2. Flows(u, w, xs, <<>>, <<>>, t.core, CoreOf(n, q, x))
    BY <1>2 DEF Flows, CoreOf, q
  <2> QED  BY <2>1, <2>2 DEF InRoutine, CoreOf
<1>7. t.up \o <<>> = Sends(u, w, b, o2, d) /\ <<>> \in Seq(Message)
  <2>1. b \in RootAt \ {"sbc wait", "c wait"} /\ a \notin {"sbc wait", "c wait"}
    BY DEF RootAt
  <2> QED  BY <1>1, <2>1, SendsNothing
<1> QED
  <2> HIDE DEF xs, x
  <2>1. b \notin Over  BY DEF Over
  <2>2. Obeys(u, w, "flow_distribute", xs, <<>>, t, b, n, o2, d)
    BY <1>1, <1>2, <1>5, <1>6, <1>7, <2>1, Obeying
  <2> QED  BY <2>2 DEF xs, o2

\* The same for timestep_worker.
LEMMA TimestepAnswered ==
  ASSUME NEW u, NEW w, NEW t, NEW n, NEW o, NEW d, Following(u, w, t, "timestep", n, o, d),
         NEW b \in {"flow", "transport"}
  PROVE  Obeys(u, w, "timestep_worker",
               <<Msg("itime", n+1), Msg("deltim", n+1), Msg("time", o.time)>>, <<>>,
               t, b, n+1, [o EXCEPT !.deltim = n+1], d)
<1>1. Known(u, w, t, "timestep", n, o, d)  BY FollowingFacts
<1> DEFINE q == [t.core.own EXCEPT !.deltim = n+1, !.time = o.time]
           o2 == [o EXCEPT !.deltim = n+1]
           x == t.core.xp
           xs == <<Msg("itime", n+1), Msg("deltim", n+1), Msg("time", o.time)>>
<1>2. o \in OwnT /\ t.core.own \in OwnT /\ o.time \in Nat /\ n \in Nat /\ n+1 \in Nat
  BY <1>1 DEF Known, OwnT, Fields
<1>3. q \in OwnT /\ o2.bc = o.bc /\ o2.old = o.old  BY <1>2 DEF OwnT, Fields
<1>4. \A f \in Fields \ Old(u, b) : q[f] = o2[f]
  <2>1. \A f \in Fields : t.core.own[f] = o[f]  BY <1>1 DEF Known, Old, Ends, Over
  <2> QED  BY <1>2, <2>1 DEF OwnT, Fields
<1>5. Fits(u, w, q, x, b, o2, d)
  <2>1. XpFollows(u, w, x, b, o2, d)
    <3> HIDE DEF o2
    <3> QED  BY <1>1, <1>3 DEF Known, XpFollows, Before, Behind
  <2> HIDE DEF q, o2
  <2> QED  BY <1>1, <1>3, <1>4, <2>1 DEF Fits, Known
<1> HIDE DEF q, o2
<1>6. InRoutine(u, w, "timestep_worker", xs, <<>>, <<>>, t.core, CoreOf(n+1, q, x))
  <2>1. t.core.at = "loop" /\ t.core.itime = n  BY <1>1 DEF Known
  <2>2. TimeStep(u, w, xs, <<>>, <<>>, t.core, CoreOf(n+1, q, x))
    BY <1>2, <2>1 DEF TimeStep, CoreOf, q
  <2> QED  BY <2>1, <2>2 DEF InRoutine, CoreOf
<1>7. t.up \o <<>> = Sends(u, w, b, o2, d) /\ <<>> \in Seq(Message)
  <2>1. b \in RootAt \ {"sbc wait", "c wait"} /\ "timestep" \notin {"sbc wait", "c wait"}
    BY DEF RootAt
  <2> QED  BY <1>1, <2>1, SendsNothing
<1> QED
  <2> HIDE DEF xs, x
  <2>1. b \notin Over  BY DEF Over
  <2>2. Obeys(u, w, "timestep_worker", xs, <<>>, t, b, n+1, o2, d)
    BY <1>1, <1>2, <1>5, <1>6, <1>7, <2>1, Obeying
  <2> QED  BY <2>2 DEF xs, o2

\* The same for init3_distribute at the end of the simulation.
LEMMA LastBlockAnswered ==
  ASSUME NEW u, NEW w, NEW t, NEW n, NEW o, NEW d, Following(u, w, t, "read", n, o, d)
  PROVE  Obeys(u, w, "init3_distribute", <<Msg("thru", 1)>>, <<>>, t, "exit", n, o, d)
<1>1. Known(u, w, t, "read", n, o, d)  BY FollowingFacts
<1> DEFINE q == t.core.own
           x == t.core.xp
<1>2. n \in Nat  BY <1>1 DEF Known
<1>3. Fits(u, w, q, x, "exit", o, d)
  <2>1. XpFollows(u, w, x, "exit", o, d)  BY <1>1 DEF Known, XpFollows, Before, Behind
  <2>2. \A f \in Fields : q[f] = o[f]  BY <1>1 DEF Known, Old, Ends, Over
  <2> QED  BY <1>1, <2>1, <2>2 DEF Fits, Known
<1>4. InRoutine(u, w, "init3_distribute", <<Msg("thru", 1)>>, <<>>, <<>>, t.core, CoreOf(n, q, x))
  <2>1. t.core.at = "loop" /\ t.core.itime = n  BY <1>1 DEF Known
  <2>2. LastBlock(u, w, <<Msg("thru", 1)>>, <<>>, <<>>, t.core, CoreOf(n, q, x))
    BY DEF LastBlock, CoreOf
  <2> QED  BY <2>1, <2>2 DEF InRoutine, CoreOf
<1>5. t.up \o <<>> = Sends(u, w, "exit", o, d) /\ <<>> \in Seq(Message)
  <2>1. "exit" \in RootAt \ {"sbc wait", "c wait"} /\ "read" \notin {"sbc wait", "c wait"}
    BY DEF RootAt
  <2> QED  BY <1>1, <2>1, SendsNothing
<1>6. "exit" \notin Over  BY DEF Over
<1> HIDE DEF q, x
<1> QED  BY <1>1, <1>2, <1>3, <1>4, <1>5, <1>6, Obeying

OldBlockMessages(o, y) ==
  <<Msg("thru", 0), Msg("rd", 0), Msg("mfsbc", o.frac), Msg("deltim", o.deltim),
    Msg("timchg", y)>>
NewBlockMessages(o, y) ==
  <<Msg("thru", 0), Msg("rd", 1), Msg("bc", y), Msg("mfsbc", o.frac), Msg("deltim", o.deltim),
    Msg("timchg", y)>>

\* The same for init3_distribute without new boundary data.
LEMMA OldBlockAnswered ==
  ASSUME NEW u, NEW w, NEW t, NEW n, NEW o, NEW d, Following(u, w, t, "read", n, o, d),
         NEW y \in Nat
  PROVE  Obeys(u, w, "init3_distribute", OldBlockMessages(o, y), <<>>, t, "read", n,
               [o EXCEPT !.timchg = y], d)
<1>1. Known(u, w, t, "read", n, o, d)  BY FollowingFacts
<1> DEFINE q == [t.core.own EXCEPT !.deltim = o.deltim, !.timchg = y]
           o2 == [o EXCEPT !.timchg = y]
           x == t.core.xp
           xs == OldBlockMessages(o, y)
<1>2. o \in OwnT /\ t.core.own \in OwnT /\ o.deltim \in Nat /\ o.frac \in Nat /\ n \in Nat
  BY <1>1 DEF Known, OwnT, Fields
<1>3. q \in OwnT /\ o2.bc = o.bc /\ o2.old = o.old  BY <1>2 DEF OwnT, Fields
<1>4. \A f \in Fields : q[f] = o2[f]
  <2>1. \A f \in Fields : t.core.own[f] = o[f]  BY <1>1 DEF Known, Old, Ends, Over
  <2> QED  BY <1>2, <2>1 DEF OwnT, Fields
<1>5. Fits(u, w, q, x, "read", o2, d)
  <2>1. XpFollows(u, w, x, "read", o2, d)
    <3> HIDE DEF o2
    <3> QED  BY <1>1, <1>3 DEF Known, XpFollows, Before, Behind
  <2> HIDE DEF q, o2
  <2> QED  BY <1>1, <1>3, <1>4, <2>1 DEF Fits, Known
<1> HIDE DEF q, o2
<1>6. InRoutine(u, w, "init3_distribute", xs, <<>>, <<>>, t.core, CoreOf(n, q, x))
  <2>1. t.core.at = "loop" /\ t.core.itime = n  BY <1>1 DEF Known
  <2>2. OldBlock(u, w, xs, <<>>, <<>>, t.core, CoreOf(n, q, x))
    BY <1>2 DEF OldBlock, CoreOf, q, OldBlockMessages
  <2> QED  BY <2>1, <2>2 DEF InRoutine, CoreOf
<1>7. t.up \o <<>> = Sends(u, w, "read", o2, d) /\ <<>> \in Seq(Message)
  <2>1. "read" \in RootAt \ {"sbc wait", "c wait"} /\ "read" \notin {"sbc wait", "c wait"}
    BY DEF RootAt
  <2> QED  BY <1>1, <2>1, SendsNothing
<1> QED
  <2> HIDE DEF xs, x
  <2>1. "read" \notin Over  BY DEF Over
  <2>2. Obeys(u, w, "init3_distribute", xs, <<>>, t, "read", n, o2, d)
    BY <1>1, <1>2, <1>5, <1>6, <1>7, <2>1, Obeying
  <2> QED  BY <2>2 DEF xs, o2

\* The same for init3_distribute with new boundary data.
LEMMA NewBlockAnswered ==
  ASSUME NEW u, NEW w, NEW t, NEW a, NEW n, NEW o, NEW d, Following(u, w, t, a, n, o, d),
         NEW b, \/ a = "start" /\ b = "flow0"
                \/ a = "read" /\ b \in {"read", "timestep"},
         NEW y \in Nat
  PROVE  Obeys(u, w, "init3_distribute", NewBlockMessages(o, y), SameLetters(u, w, "bc", y),
               t, b, n, [o EXCEPT !.timchg = y, !.bc = y], d)
<1>1. Known(u, w, t, a, n, o, d)  BY FollowingFacts
<1> DEFINE q == [t.core.own EXCEPT !.bc = y, !.deltim = o.deltim, !.timchg = y]
           o2 == [o EXCEPT !.timchg = y, !.bc = y]
           x == [i \in MappedIn(u, w) |-> [t.core.xp[i] EXCEPT !.bc = y]]
           xs == NewBlockMessages(o, y)
           ls == SameLetters(u, w, "bc", y)
<1>2. o \in OwnT /\ t.core.own \in OwnT /\ o.deltim \in Nat /\ o.frac \in Nat /\ n \in Nat
  BY <1>1 DEF Known, OwnT, Fields
<1>3. q \in OwnT /\ o2.bc = y /\ o2.old = o.old  BY <1>2 DEF OwnT, Fields
<1>4. \A f \in Fields : q[f] = o2[f]
  <2>1. \A f \in Fields : t.core.own[f] = o[f]  BY <1>1 DEF Known, Old, Ends, Over
  <2> QED  BY <1>2, <2>1 DEF OwnT, Fields
<1>5. x \in XpsT(u, w)
  <2>1. \A i \in MappedIn(u, w) : x[i] \in XpT(i)  BY <1>1 DEF Known, XpT
  <2>2. x = [i \in MappedIn(u, w) |-> x[i]]  OBVIOUS
  <2> HIDE DEF x
  <2> QED  BY <1>1, <2>1, <2>2, XpsIs DEF Known
<1>6. Fits(u, w, q, x, b, o2, d)
  <2>1. XpFollows(u, w, x, b, o2, d)
    <3> HIDE DEF o2
    <3> QED  BY <1>1, <1>3 DEF Known, XpFollows, Before, Behind, XpT
  <2> HIDE DEF q, o2, x
  <2> QED  BY <1>3, <1>4, <1>5, <2>1 DEF Fits
<1> HIDE DEF q, o2
<1>7. InRoutine(u, w, "init3_distribute", xs, ls, <<>>, t.core, CoreOf(n, q, x))
  <2>1. t.core.at = "loop" /\ t.core.itime = n  BY <1>1 DEF Known
  <2>2. NewBlock(u, w, xs, ls, <<>>, t.core, CoreOf(n, q, x))
    BY <1>2 DEF NewBlock, CoreOf, q, NewBlockMessages
  <2> HIDE DEF x
  <2> QED  BY <2>1, <2>2 DEF InRoutine, CoreOf
<1>8. t.up \o <<>> = Sends(u, w, b, o2, d) /\ <<>> \in Seq(Message)
  <2>1. b \in RootAt \ {"sbc wait", "c wait"} /\ a \notin {"sbc wait", "c wait"}
    BY DEF RootAt
  <2> QED  BY <1>1, <2>1, SendsNothing
<1> QED
  <2> HIDE DEF xs, x, ls
  <2>1. b \notin Over  BY DEF Over
  <2>2. Obeys(u, w, "init3_distribute", xs, ls, t, b, n, o2, d)
    BY <1>1, <1>2, <1>6, <1>7, <1>8, <2>1, Obeying
  <2> QED  BY <2>2 DEF xs, o2, ls

\* A component that has been transported is still itself.
LEMMA MovedType ==
  ASSUME NEW o \in OwnT, NEW i, NEW e \in CT(i)
  PROVE  MovedIn(o, e) \in CT(i)
<1>1. o.deltim \in Nat /\ o.bc \in Nat /\ o.old \in Nat  BY DEF OwnT, Fields
<1> DEFINE y == [deltim |-> o.deltim, data |-> o, bcs |-> o.bc, olds |-> o.old]
<1>2. y \in WithT  BY <1>1 DEF WithT
<1> HIDE DEF y
<1>3. MovedIn(o, e) = [e EXCEPT !.moved = @+1, !.with = y]  BY DEF MovedIn, y
<1>4. e = [of |-> e.of, moved |-> e.moved, reacted |-> e.reacted, bad |-> e.bad, with |-> e.with]
  BY DEF CT
<1>5. MovedIn(o, e) = [of |-> e.of, moved |-> e.moved + 1, reacted |-> e.reacted,
                       bad |-> e.bad, with |-> y]
  BY <1>3, <1>4
<1>6. e.of = i /\ e.moved + 1 \in Nat /\ e.reacted \in Nat /\ e.bad \in BOOLEAN  BY DEF CT
<1> QED  BY <1>2, <1>5, <1>6 DEF CT

\* The same for run_transport: every component of the worker is transported once.
LEMMA MovesAnswered ==
  ASSUME NEW u, NEW w, NEW t, NEW n, NEW o, NEW d, Following(u, w, t, "transport", n, o, d),
         NEW b \in {"sbc", "exit"}
  PROVE  Obeys(u, w, "run_transport", <<>>, <<>>, t, b, n, o, d)
<1>1. Known(u, w, t, "transport", n, o, d)  BY FollowingFacts
<1> DEFINE x == [i \in MappedIn(u, w) |-> [t.core.xp[i] EXCEPT !.c = [t.core.xp[i].c EXCEPT
                  !.moved = @+1,
                  !.with = [deltim |-> t.core.own.deltim, data |-> t.core.own,
                            bcs |-> t.core.xp[i].bc, olds |-> t.core.xp[i].old]]]]
           q == t.core.own
<1>2. o \in OwnT /\ t.core.own \in OwnT /\ n \in Nat  BY <1>1 DEF Known
<1>3. q = o
  <2>1. \A f \in Fields : t.core.own[f] = o[f]  BY <1>1 DEF Known, Old, Ends, Over
  <2> QED  BY <1>2, <2>1 DEF OwnT
<1>4. ASSUME NEW i \in MappedIn(u, w)
      PROVE  x[i] \in XpT(i) /\ x[i].bc = o.bc /\ x[i].old = o.old /\ x[i].c = MovedIn(o, d[i])
  <2>1. PICK e \in XpT(i) : e = t.core.xp[i]  BY <1>1 DEF Known
  <2>2. e.bc = o.bc /\ e.old = o.old /\ e.c = d[i]
    BY <1>1, <2>1 DEF Known, XpFollows, Before
  <2>3. x[i] = [e EXCEPT !.c = [e.c EXCEPT !.moved = @+1,
                  !.with = [deltim |-> o.deltim, data |-> o, bcs |-> e.bc, olds |-> e.old]]]
    BY <1>3, <2>1
  <2> HIDE DEF x
  <2>4. x[i] = [e EXCEPT !.c = MovedIn(o, d[i])]  BY <2>2, <2>3 DEF MovedIn
  <2>5. d[i] \in CT(i)  BY <1>1 DEF Known
  <2>6. MovedIn(o, d[i]) \in CT(i)
    <3>1. PICK f \in CT(i) : f = d[i]  BY <2>5
    <3> QED  BY <1>2, <3>1, MovedType
  <2> QED  BY <2>2, <2>4, <2>6 DEF XpT
<1>5. x \in XpsT(u, w)
  <2>1. x = [i \in MappedIn(u, w) |-> x[i]]  OBVIOUS
  <2> HIDE DEF x
  <2> QED  BY <1>1, <1>4, <2>1, XpsIs DEF Known
<1>6. Fits(u, w, q, x, b, o, d)
  <2>1. XpFollows(u, w, x, b, o, d)
    <3> HIDE DEF x
    <3> QED  BY <1>4 DEF XpFollows, Before, Behind
  <2> HIDE DEF q, x
  <2> QED  BY <1>2, <1>3, <1>5, <2>1 DEF Fits
<1>7. InRoutine(u, w, "run_transport", <<>>, <<>>, <<>>, t.core, CoreOf(n, q, x))
  <2>1. t.core.at = "loop" /\ t.core.itime = n  BY <1>1 DEF Known
  <2>2. Moves(u, w, <<>>, <<>>, <<>>, t.core, CoreOf(n, q, x))  BY DEF Moves, CoreOf
  <2> HIDE DEF x
  <2> QED  BY <2>1, <2>2 DEF InRoutine, CoreOf
<1>8. t.up \o <<>> = Sends(u, w, b, o, d) /\ <<>> \in Seq(Message)
  <2>1. b \in RootAt \ {"sbc wait", "c wait"} /\ "transport" \notin {"sbc wait", "c wait"}
    BY DEF RootAt
  <2> QED  BY <1>1, <2>1, SendsNothing
<1> HIDE DEF x, q
<1>9. b \notin Over  BY DEF Over
<1> QED  BY <1>1, <1>2, <1>6, <1>7, <1>8, <1>9, Obeying

\* The same for time_step_save.
LEMMA SavedAnswered ==
  ASSUME NEW u, NEW w, NEW t, NEW n, NEW o, NEW d, Following(u, w, t, "save", n, o, d),
         NEW b \in {"c", "exit"}
  PROVE  Obeys(u, w, "time_step_save", <<>>, <<>>, t, b, n, [o EXCEPT !.old = o.bc], d)
<1>1. Known(u, w, t, "save", n, o, d)  BY FollowingFacts
<1> DEFINE x == [i \in MappedIn(u, w) |-> [t.core.xp[i] EXCEPT !.old = t.core.xp[i].bc]]
           q == [t.core.own EXCEPT !.old = t.core.own.bc]
           o2 == [o EXCEPT !.old = o.bc]
<1>2. o \in OwnT /\ t.core.own \in OwnT /\ n \in Nat  BY <1>1 DEF Known
<1>3. q \in OwnT /\ o2.bc = o.bc /\ o2.old = o.bc  BY <1>2 DEF OwnT, Fields
<1>4. \A f \in Fields \ Old(u, b) : q[f] = o2[f]
  <2>1. \A f \in Fields \ Old(u, "save") : t.core.own[f] = o[f]  BY <1>1 DEF Known
  <2>2. Old(u, "save") \subseteq Old(u, b) /\ "bc" \notin Old(u, "save")
    BY DEF Old, Ends, Over, Fields
  <2>3. t.core.own.bc = o.bc  BY <2>1, <2>2 DEF Fields
  <2> QED  BY <1>2, <2>1, <2>2, <2>3 DEF OwnT, Fields
<1>5. \A i \in MappedIn(u, w) : x[i] \in XpT(i) /\ x[i].bc = o.bc /\ x[i].old = o.bc
  BY <1>1 DEF Known, XpFollows, XpT
<1>6. x \in XpsT(u, w)
  <2>1. x = [i \in MappedIn(u, w) |-> x[i]]  OBVIOUS
  <2> HIDE DEF x
  <2> QED  BY <1>1, <1>5, <2>1, XpsIs DEF Known
<1>7. Fits(u, w, q, x, b, o2, d)
  <2>1. XpFollows(u, w, x, b, o2, d)
    <3> HIDE DEF x, o2
    <3> QED  BY <1>3, <1>5 DEF XpFollows, Before, Behind
  <2> HIDE DEF q, x, o2
  <2> QED  BY <1>3, <1>4, <1>6, <2>1 DEF Fits
<1>8. InRoutine(u, w, "time_step_save", <<>>, <<>>, <<>>, t.core, CoreOf(n, q, x))
  <2>1. t.core.at = "loop" /\ t.core.itime = n  BY <1>1 DEF Known
  <2>2. Saved(u, w, <<>>, <<>>, <<>>, t.core, CoreOf(n, q, x))  BY DEF Saved, CoreOf
  <2> HIDE DEF x, q
  <2> QED  BY <2>1, <2>2 DEF InRoutine, CoreOf
<1>9. t.up \o <<>> = Sends(u, w, b, o2, d) /\ <<>> \in Seq(Message)
  <2>1. b \in RootAt \ {"sbc wait", "c wait"} /\ "save" \notin {"sbc wait", "c wait"}
    BY DEF RootAt
  <2> QED  BY <1>1, <2>1, SendsNothing
<1>10. b \notin Over  BY DEF Over
<1> HIDE DEF x, q, o2
<1>11. Obeys(u, w, "time_step_save", <<>>, <<>>, t, b, n, o2, d)
  BY <1>1, <1>2, <1>7, <1>8, <1>9, <1>10, Obeying
<1> QED  BY <1>11 DEF o2

\* The letters of a process are messages.
LEMMA LettersType ==
  ASSUME NEW u \in Setups, NEW w, NEW n \in Name
  PROVE  /\ \A v \in Nat : SameLetters(u, w, n, v) \in Seq(Message)
         /\ \A d : (\A i \in MappedIn(u, w) : d[i] \in CT(i)) =>
              LettersIn(u, w, n, d) \in Seq(Message)
<1> DEFINE M == Message
<1>1. Count(u, w) \in Nat /\ \A k \in 1 .. Count(u, w) : LocalsIn(u, w)[k] \in MappedIn(u, w)
      /\ \A i \in MappedIn(u, w) : i \in Nat
  BY LocalsFacts DEF Comps
<1>2. ASSUME NEW v \in Nat PROVE SameLetters(u, w, n, v) \in Seq(M)
  <2>1. Msg(n, v) \in M  BY Letter
  <2> HIDE DEF M
  <2> QED  BY <1>1, <2>1 DEF SameLetters
<1>3. ASSUME NEW d, \A i \in MappedIn(u, w) : d[i] \in CT(i)
      PROVE  LettersIn(u, w, n, d) \in Seq(M)
  <2>1. \A k \in 1 .. Count(u, w) : Msg(n, d[LocalsIn(u, w)[k]]) \in M
    BY <1>1, <1>3, Letter
  <2> HIDE DEF M
  <2> QED  BY <1>1, <2>1 DEF LettersIn
<1> QED  BY <1>2, <1>3 DEF M

\* The root waits for the letters of the gather, if there are any.
LEMMA SbcAnswered ==
  ASSUME NEW u, NEW w, NEW t, NEW n, NEW o, NEW d, Following(u, w, t, "sbc", n, o, d),
         NEW b, b = IF u.solute /\ u.sbc THEN "sbc wait" ELSE "gather"
  PROVE  Obeys(u, w, "sbc_gather", <<>>, <<>>, t, b, n, o, d)
<1>1. Known(u, w, t, "sbc", n, o, d)  BY FollowingFacts
<1> DEFINE q == t.core.own
           x == t.core.xp
           us == When(u.sbc, SameLetters(u, w, "sbc", 0))
<1>2. u \in Setups /\ n \in Nat /\ u.solute  BY <1>1 DEF Known, InGroupIn
<1>3. Fits(u, w, q, x, b, o, d)
  <2>1. XpFollows(u, w, x, b, o, d)  BY <1>1 DEF Known, XpFollows, Before, Behind
  <2>2. \A f \in Fields : q[f] = o[f]  BY <1>1 DEF Known, Old, Ends, Over
  <2> QED  BY <1>1, <2>1, <2>2 DEF Fits, Known
<1>4. us \in Seq(Message)
  <2>1. <<>> \in Seq(Message)  BY EmptySeq, Zenon
  <2>2. "sbc" \in Name /\ 0 \in Nat  BY DEF Name
  <2>3. SameLetters(u, w, "sbc", 0) \in Seq(Message)  BY <1>2, <2>2, LettersType
  <2> QED  BY <2>1, <2>3 DEF When
<1>5. t.up \o us = Sends(u, w, b, o, d)
  <2>1. t.up = <<>>
    <3>1. t.up = Sends(u, w, "sbc", o, d)  BY <1>1, Zenon DEF Known
    <3> QED  BY <3>1, NoSends, Zenon
  <2>2. <<>> \o us = us  BY <1>4, QueueEmpty, Zenon
  <2>3. Sends(u, w, b, o, d) = us
    <3>1. u.sbc \in BOOLEAN  BY <1>2, Processes
    <3>2. CASE u.sbc  BY <1>2, <3>2 DEF Sends, When
    <3>3. CASE ~u.sbc  BY <1>2, <3>3 DEF Sends, When
    <3> QED  BY <3>1, <3>2, <3>3
  <2> QED  BY <2>1, <2>2, <2>3, Zenon
<1>6. InRoutine(u, w, "sbc_gather", <<>>, <<>>, us, t.core, CoreOf(n, q, x))
  <2>1. t.core.at = "loop" /\ t.core.itime = n  BY <1>1 DEF Known
  <2>2. Sbc(u, w, <<>>, <<>>, us, t.core, CoreOf(n, q, x))  BY DEF Sbc, CoreOf
  <2> HIDE DEF us
  <2> QED  BY <2>1, <2>2 DEF InRoutine, CoreOf
<1>7. b \notin Over  BY DEF Over
<1> HIDE DEF us, q, x
<1> QED  BY <1>1, <1>2, <1>3, <1>4, <1>5, <1>6, <1>7, Obeying

\* The same for c_gather: the root will have every component of the worker as transported.
LEMMA AnswersAnswered ==
  ASSUME NEW u, NEW w, NEW t, NEW n, NEW o, NEW d, Following(u, w, t, "gather", n, o, d)
  PROVE  Obeys(u, w, "c_gather", <<>>, <<>>, t, "c wait", n, o, d)
<1>1. Known(u, w, t, "gather", n, o, d)  BY FollowingFacts
<1> DEFINE q == t.core.own
           x == t.core.xp
           us == LettersIn(u, w, "c", [i \in MappedIn(u, w) |-> t.core.xp[i].c])
<1>2. u \in Setups /\ n \in Nat  BY <1>1 DEF Known
<1>3. Fits(u, w, q, x, "c wait", o, d)
  <2>1. XpFollows(u, w, x, "c wait", o, d)  BY <1>1 DEF Known, XpFollows, Before, Behind
  <2>2. \A f \in Fields : q[f] = o[f]  BY <1>1 DEF Known, Old, Ends, Over
  <2> QED  BY <1>1, <2>1, <2>2 DEF Fits, Known
<1>4. us \in Seq(Message)
  <2>1. "c" \in Name  BY DEF Name
  <2>2. \A i \in MappedIn(u, w) : [j \in MappedIn(u, w) |-> t.core.xp[j].c][i] \in CT(i)
    BY <1>1 DEF Known, XpT
  <2> QED  BY <1>2, <2>1, <2>2, LettersType
<1>5. t.up \o us = Sends(u, w, "c wait", o, d)
  <2>1. t.up = <<>>
    <3>1. t.up = Sends(u, w, "gather", o, d)  BY <1>1, Zenon DEF Known
    <3> QED  BY <3>1, NoSends, Zenon
  <2>2. <<>> \o us = us  BY <1>4, QueueEmpty, Zenon
  <2>3. Sends(u, w, "c wait", o, d) = us
    <3>1. \A i \in MappedIn(u, w) : t.core.xp[i].c = MovedIn(o, d[i]) /\ i \in Comps(u)
      BY <1>1, <1>2, LocalsFacts DEF Known, XpFollows, Behind
    <3>2. \A k \in 1 .. Count(u, w) : LocalsIn(u, w)[k] \in MappedIn(u, w)
      BY <1>2, LocalsFacts
    <3>3. \A k \in 1 .. Count(u, w) :
            [i \in Comps(u) |-> MovedIn(o, d[i])][LocalsIn(u, w)[k]]
              = [i \in MappedIn(u, w) |-> t.core.xp[i].c][LocalsIn(u, w)[k]]
      BY <3>1, <3>2
    <3> QED  BY <3>3 DEF Sends, LettersIn
  <2> QED  BY <2>1, <2>2, <2>3, Zenon
<1>6. InRoutine(u, w, "c_gather", <<>>, <<>>, us, t.core, CoreOf(n, q, x))
  <2>1. t.core.at = "loop" /\ t.core.itime = n  BY <1>1 DEF Known
  <2>2. Answers(u, w, <<>>, <<>>, us, t.core, CoreOf(n, q, x))  BY DEF Answers, CoreOf
  <2> HIDE DEF us
  <2> QED  BY <2>1, <2>2 DEF InRoutine, CoreOf
<1>7. "c wait" \notin Over  BY DEF Over
<1> HIDE DEF us, q, x
<1> QED  BY <1>1, <1>2, <1>3, <1>4, <1>5, <1>6, <1>7, Obeying

----------------------------------------------------------------------------
(* The calls of the root.                                                  *)

\* What a call makes of every worker that follows the root.
CallFits(u, w, ms, x, l, a, n, o, d, b, n2, o2, d2) ==
  \A t \in StateT(u, w) : Idle(t) /\ Follows(u, w, t, a, n, o, d) =>
    \E k \in CoreT(u, w), us \in Seq(Message) :
      /\ Makes(u, w, ms, x, l, us, t.core, k)
      /\ Follows(u, w, IdleOf(k, t.up \o us), b, n2, o2, d2)

\* A call added to the queues of a worker leads it from where the root was to where it is.
LEMMA CallSound ==
  ASSUME NEW u, NEW w, NEW s, NEW a, NEW n, NEW o, NEW d, NEW b, NEW n2, NEW o2, NEW d2,
         Sound(u, w, s, a, n, o, d), a \notin Over, b # "stopped" \/ ~InGroupIn(u, w),
         NEW ms \in Seq(Message), NEW x \in Seq(Message), NEW l \in Seq(Message),
         CallFits(u, w, ms, x, l, a, n, o, d, b, n2, o2, d2)
  PROVE  Sound(u, w, Plus(s, ms, x, l), b, n2, o2, d2)
<1>0. <<>> \in Seq(Message)  BY EmptySeq, Zenon
<1>1. ms \in Seq(Message) /\ x \in Seq(Message) /\ l \in Seq(Message)  OBVIOUS
<1>2. PICK t \in StateT(u, w) : Comes(u, w, s, t) /\ Idle(t) /\ Follows(u, w, t, a, n, o, d)
  BY RestsIdle DEF Sound, Over
<1> DEFINE p == Plus(t, ms, x, l)
<1>3. Comes(u, w, Plus(s, ms, x, l), p) /\ p \in StateT(u, w)  BY <1>2, ComesPlus
<1>4. /\ p.core = t.core /\ p.up = t.up /\ p.world = ms \o <<>> /\ p.xpcomm = x \o <<>>
      /\ p.mail = l \o <<>> /\ t.core.at = "loop" /\ t.up \in Seq(Message)
      /\ t.core \in CoreT(u, w)
  <2>1. p.core = t.core /\ p.up = t.up  BY DEF Plus
  <2>2. p.world = ms /\ p.xpcomm = x /\ p.mail = l
    <3>1. t.world = <<>> /\ t.xpcomm = <<>> /\ t.mail = <<>>  BY <1>2 DEF Idle
    <3>2. <<>> \o ms = ms /\ <<>> \o x = x /\ <<>> \o l = l  BY <1>1, QueueEmpty, Zenon
    <3>3. p.world = t.world \o ms /\ p.xpcomm = t.xpcomm \o x /\ p.mail = t.mail \o l
      BY DEF Plus
    <3> QED  BY <3>1, <3>2, <3>3, Zenon
  <2>3. ms \o <<>> = ms /\ x \o <<>> = x /\ l \o <<>> = l  BY <1>1, QueueEmpty, Zenon
  <2>4. t.core.at = "loop"  BY <1>2 DEF Follows, Over
  <2>5. t.up \in Seq(Message) /\ t.core \in CoreT(u, w)  BY DEF StateT
  <2> QED  BY <2>1, <2>2, <2>3, <2>4, <2>5, Zenon
<1> HIDE DEF p
<1>5. PICK k \in CoreT(u, w), us \in Seq(Message) :
        /\ Makes(u, w, ms, x, l, us, t.core, k)
        /\ Follows(u, w, IdleOf(k, t.up \o us), b, n2, o2, d2)
  BY <1>2, Zenon DEF CallFits
<1> DEFINE v == IdleOf(k, t.up \o us)
<1>6. t.up \o us \in Seq(Message)  BY <1>4, ConcatProperties
<1>7. /\ v.core = k /\ v.up = t.up \o us /\ v.world = <<>> /\ v.xpcomm = <<>> /\ v.mail = <<>>
  BY DEF IdleOf
<1>8. v \in StateT(u, w)  BY <1>0, <1>6, Zenon DEF StateT, IdleOf
<1>9. Follows(u, w, v, b, n2, o2, d2)  BY <1>5
<1> HIDE DEF v
<1>10. /\ p.world = ms \o v.world /\ p.xpcomm = x \o v.xpcomm /\ p.mail = l \o v.mail
       /\ v.up = p.up \o us /\ Makes(u, w, ms, x, l, us, p.core, v.core)
       /\ p.core.at = "loop"
  BY <1>4, <1>5, <1>7, Zenon
<1>11. Step(u, w, p, v)  BY <1>10, Zenon DEF Step
<1>12. Idle(v)  BY <1>7, Zenon DEF Idle
<1>13. PICK z : z = Plus(s, ms, x, l)  OBVIOUS
<1>14. Comes(u, w, z, v)  BY <1>3, <1>8, <1>11, <1>13, ComesStep
<1>15. Sound(u, w, z, b, n2, o2, d2)  BY <1>8, <1>9, <1>12, <1>14, RestsIdle DEF Sound
<1> QED  BY <1>13, <1>15

\* The call of a routine, in a transporter and elsewhere.
Callable(u, w, m, xs, ls, a, n, o, d, b, n2, o2, d2) ==
  /\ InGroupIn(u, w) =>
       \A t \in StateT(u, w) : Following(u, w, t, a, n, o, d) =>
         Obeys(u, w, m, xs, ls, t, b, n2, o2, d2)
  /\ ~InGroupIn(u, w) => Sends(u, w, a, o, d) = Sends(u, w, b, o2, d2)

\* Whether the call has something for it or not, the worker ends where the root counts on it.
LEMMA ToldFits ==
  ASSUME NEW u \in Setups, NEW w, NEW a, NEW n \in Nat, NEW o \in OwnT, NEW d \in DataT(u),
         NEW b, NEW n2, NEW o2, NEW d2, a \notin Over, b \notin Over \ {"stopped"},
         NEW m \in Routine, NEW xs, NEW ls,
         Callable(u, w, m, xs, ls, a, n, o, d, b, n2, o2, d2)
  PROVE  CallFits(u, w, <<Msg(m, 0)>>, When(InGroupIn(u, w), xs), When(InGroupIn(u, w), ls),
                  a, n, o, d, b, n2, o2, d2)
<1>0. <<>> \in Seq(Message)  BY EmptySeq, Zenon
<1>1. a \notin Over /\ b \notin {"barrier", "done", "exited"}  BY DEF Over
<1> DEFINE ms == <<Msg(m, 0)>>
           x == When(InGroupIn(u, w), xs)
           l == When(InGroupIn(u, w), ls)
<1> HIDE DEF ms, x, l
<1>2. ASSUME NEW t \in StateT(u, w), Idle(t), Follows(u, w, t, a, n, o, d)
      PROVE  \E k \in CoreT(u, w), us \in Seq(Message) :
               /\ Makes(u, w, ms, x, l, us, t.core, k)
               /\ Follows(u, w, IdleOf(k, t.up \o us), b, n2, o2, d2)
  <2>1. t.core \in CoreT(u, w) /\ t.up \in Seq(Message)  BY DEF StateT
  <2>2. t.core.at = "loop"  BY <1>1, <1>2 DEF Follows, Over
  <2>3. CASE InGroupIn(u, w)
    <3>1. Following(u, w, t, a, n, o, d)  BY <1>1, <1>2, <2>3 DEF Following
    <3>2. Obeys(u, w, m, xs, ls, t, b, n2, o2, d2)  BY <1>2, <2>3, <3>1 DEF Callable
    <3>3. PICK k \in CoreT(u, w), us \in Seq(Message) :
            /\ InRoutine(u, w, m, xs, ls, us, t.core, k)
            /\ Follows(u, w, IdleOf(k, t.up \o us), b, n2, o2, d2)
      BY <3>2, Zenon DEF Obeys
    <3>4. x = xs /\ l = ls  BY <2>3 DEF When, x, l
    <3>5. Makes(u, w, ms, x, l, us, t.core, k)
      BY <2>3, <3>3, <3>4, Zenon DEF Makes, TransporterCall, ms
    <3> QED  BY <3>3, <3>5, Zenon
  <2>4. CASE ~InGroupIn(u, w)
    <3>1. x = <<>> /\ l = <<>>  BY <2>4 DEF When, x, l
    <3>2. Makes(u, w, ms, x, l, <<>>, t.core, t.core)
      BY <2>4, <3>1, Zenon DEF Makes, OtherCall, ms
    <3>3. t.up \o <<>> = t.up  BY <2>1, QueueEmpty, Zenon
    <3>4. Follows(u, w, IdleOf(t.core, t.up), b, n2, o2, d2)
      <4>1. IdleOf(t.core, t.up).core = t.core /\ IdleOf(t.core, t.up).up = t.up  BY DEF IdleOf
      <4>2. t.up = Sends(u, w, b, o2, d2)  BY <1>2, <2>4 DEF Follows, Callable
      <4> QED  BY <1>1, <1>2, <2>2, <2>4, <4>1, <4>2 DEF Follows
    <3> QED  BY <1>0, <2>1, <3>2, <3>3, <3>4, Zenon
  <2> QED  BY <2>3, <2>4
<1> QED  BY <1>2 DEF CallFits, ms, x, l

----------------------------------------------------------------------------
(* What a step of the root leaves alone.                                   *)

Here(u, a, n, o, d) ==
  /\ setup = u /\ at[Root] = a /\ itime[Root] = n /\ own[Root] = o /\ c = d

\* The root comes to b, with n2 and o2.
RootMoves(b, n2, o2) ==
  /\ setup' = setup
  /\ at' = [at EXCEPT ![Root] = b] /\ itime' = [itime EXCEPT ![Root] = n2]
  /\ own' = [own EXCEPT ![Root] = o2]
  /\ xp' = [i \in Component |-> IF i \in Mapped(Root) THEN xp'[i] ELSE xp[i]]
  /\ errexe' = [errexe EXCEPT ![Root] = errexe'[Root]]

\* What it comes to has the right types.
RootTyped(u, b, n2, o2, d2) ==
  /\ b \in RootAt /\ n2 \in 0 .. MaxSteps /\ o2 \in OwnT /\ d2 \in DataT(u)
  /\ \A i \in MappedIn(u, Root) : xp'[i] \in XpT(i)
  /\ errexe'[Root] \in BOOLEAN /\ errexi' \in BOOLEAN

QueuesTyped ==
  /\ world \in [Worker -> Seq(Message)] /\ xpcomm \in [Worker -> Seq(Message)]
  /\ mail \in [Worker -> Seq(Message)] /\ up \in [Worker -> Seq(Message)]

\* An action of the root keeps the types, and no worker fails by it.
LEMMA RootTypes ==
  ASSUME NEW u, setup = u, Inv, NEW b, NEW n2, NEW o2, NEW d2, RootMoves(b, n2, o2), c' = d2,
         RootTyped(u, b, n2, o2, d2), QueuesTyped'
  PROVE  Types' /\ WorkersSucceed'
<1>1. Types /\ WorkersSucceed /\ u \in Setups  BY DEF Inv, Types
<1>2. /\ setup' = u /\ Rank' = Rank /\ Worker' = Worker /\ Component' = Component
      /\ Component = Comps(u) /\ Mapped(Root) = MappedIn(u, Root) /\ Root \in Rank
      /\ Worker = Rank \ {Root} /\ Root \notin Worker
  <2>1. setup' = u  BY DEF RootMoves
  <2>2. Rank' = Rank /\ Worker' = Worker /\ Component' = Component
    BY <2>1 DEF Rank, Worker, Component
  <2> QED  BY <1>1, <2>1, <2>2, Workers, InForce
<1>3. at' \in [Rank -> RootAt \cup {"loop"}] /\ at'[Root] \in RootAt
  BY <1>1, <1>2 DEF Types, RootMoves, RootTyped
<1>4. itime' \in [Rank -> Nat] /\ itime'[Root] \in 0 .. MaxSteps
  <2>1. 0 .. MaxSteps \subseteq Nat  OBVIOUS
  <2> QED  BY <1>1, <1>2, <2>1 DEF Types, RootMoves, RootTyped
<1>5. own' \in [Rank -> OwnT]  BY <1>1, <1>2 DEF Types, RootMoves, RootTyped
<1>6. \A i \in Component : xp'[i] \in XpT(i)
  <2>1. \A i \in Component : i \notin Mapped(Root) => xp'[i] = xp[i]
    <3>1. xp' = [i \in Component |-> IF i \in Mapped(Root) THEN xp'[i] ELSE xp[i]]
      BY DEF RootMoves
    <3> QED  BY <3>1
  <2>2. \A i \in Component : xp[i] \in XpT(i)  BY <1>1 DEF Types
  <2> QED  BY <1>2, <2>1, <2>2 DEF RootTyped
<1>7. xp' \in [Component -> UNION {XpT(i) : i \in Nat}]
  <2>1. xp' = [i \in Component |-> IF i \in Mapped(Root) THEN xp'[i] ELSE xp[i]]
    BY DEF RootMoves
  <2>2. xp' = [i \in Component |-> xp'[i]]  BY <2>1
  <2>3. Component \subseteq Nat  BY DEF Component
  <2>4. \A i \in Component : xp'[i] \in UNION {XpT(j) : j \in Nat}  BY <1>6, <2>3
  <2> QED  BY <2>2, <2>4
<1>8. errexe' \in [Rank -> BOOLEAN] /\ errexi' \in BOOLEAN /\ c' \in DataT(u)
  <2>1. PICK e \in BOOLEAN : e = errexe'[Root]  BY DEF RootTyped
  <2>2. errexe' = [errexe EXCEPT ![Root] = e]  BY <2>1 DEF RootMoves
  <2> QED  BY <1>1, <1>2, <2>2 DEF Types, RootTyped
<1>9. WorkersSucceed'
  <2>1. \A w \in Worker : errexe'[w] = errexe[w]  BY <1>1, <1>2 DEF Types, RootMoves
  <2> QED  BY <1>1, <1>2, <2>1 DEF WorkersSucceed
<1>10. Types'
  BY <1>1, <1>2, <1>3, <1>4, <1>5, <1>6, <1>7, <1>8 DEF Types, QueuesTyped
<1> QED  BY <1>9, <1>10

\* A worker does not move when the root does.
LEMMA WorkersStay ==
  ASSUME NEW u, setup = u, Inv, NEW b, NEW n2, NEW o2, RootMoves(b, n2, o2), NEW w \in Worker
  PROVE  Core(w)' = Core(w)
<1>1. Types /\ u \in Setups  BY DEF Inv, Types
<1>2. /\ setup' = u /\ w \in Rank /\ w # Root
  BY <1>1, Workers DEF RootMoves
<1>3. at'[w] = at[w] /\ itime'[w] = itime[w] /\ own'[w] = own[w]
  BY <1>1, <1>2 DEF Types, RootMoves
<1>4. /\ Mapped(w)' = MappedIn(u, w) /\ Mapped(w) = MappedIn(u, w)
      /\ Mapped(Root) = MappedIn(u, Root) /\ Component = Comps(u)
  BY <1>1, <1>2, InForce, InForceNext
<1>5. ASSUME NEW i \in MappedIn(u, w) PROVE xp'[i] = xp[i]
  <2>1. i \in Component /\ i \notin Mapped(Root)
    <3>1. i \in Comps(u) /\ i \notin MappedIn(u, Root)  BY <1>2, MappedOnce DEF MappedIn
    <3> QED  BY <1>4, <3>1
  <2>2. xp' = [j \in Component |-> IF j \in Mapped(Root) THEN xp'[j] ELSE xp[j]]
    BY DEF RootMoves
  <2> QED  BY <2>1, <2>2
<1>6. [i \in Mapped(w)' |-> xp'[i]] = [i \in Mapped(w) |-> xp[i]]  BY <1>4, <1>5
<1> QED  BY <1>3, <1>6 DEF Core

\* What a worker has after a call.
LEMMA ToldState ==
  ASSUME NEW u, setup = u, Inv, NEW b, NEW n2, NEW o2, RootMoves(b, n2, o2), up' = up,
         NEW m, NEW xs, NEW L, Tell(m, xs, L), NEW w \in Worker, Msg(m, 0) \in Message
  PROVE  State(w)' = Plus(State(w), <<Msg(m, 0)>>, When(InGroupIn(u, w), xs),
                                    When(InGroupIn(u, w), L[w]))
<1>1. Core(w)' = Core(w)  BY WorkersStay
<1>2. InGroup(w) = InGroupIn(u, w)  BY DEF InGroup, InGroupIn
<1>3. world'[w] = world[w] \o <<Msg(m, 0)>>
  <2>1. world'[w] = Append(world[w], Msg(m, 0))  BY DEF Tell
  <2>2. world[w] \in Seq(Message)  BY DEF Inv, Types
  <2> DEFINE e == Msg(m, 0)
             q == world[w]
             M == Message
  <2>3. q \in Seq(M) /\ e \in M  BY <2>2
  <2> HIDE DEF e, q, M
  <2>4. Append(q, e) = q \o <<e>>  BY <2>3, AppendIsConcat
  <2> QED  BY <2>1, <2>4 DEF e, q
<1>4. xpcomm'[w] = xpcomm[w] \o When(InGroupIn(u, w), xs)
  <2>1. xpcomm' = [v \in Worker |-> xpcomm[v] \o When(InGroup(v), xs)]  BY DEF Tell
  <2>2. xpcomm'[w] = xpcomm[w] \o When(InGroup(w), xs)  BY <2>1, Zenon
  <2> QED  BY <1>2, <2>2, Zenon
<1>5. mail'[w] = mail[w] \o When(InGroupIn(u, w), L[w])
  <2>1. mail' = [v \in Worker |-> mail[v] \o When(InGroup(v), L[v])]  BY DEF Tell
  <2>2. mail'[w] = mail[w] \o When(InGroup(w), L[w])  BY <2>1, Zenon
  <2> QED  BY <1>2, <2>2, Zenon
<1>6. up'[w] = up[w]  OBVIOUS
<1> QED  BY <1>1, <1>3, <1>4, <1>5, <1>6, Zenon DEF State, Plus

\* What an action of the root has to show for the invariant.
LEMMA RootInv ==
  ASSUME NEW u, setup = u, Inv, NEW b, NEW n2, NEW o2, NEW d2, RootMoves(b, n2, o2), c' = d2,
         RootTyped(u, b, n2, o2, d2), QueuesTyped', RootFactsAt(u, b, n2, o2, d2, xp'),
         \A w \in Worker : Sound(u, w, State(w)', b, n2, o2, d2)
  PROVE  Inv'
<1>1. Types' /\ WorkersSucceed'  BY RootTypes
<1>2. /\ setup' = u /\ Worker' = Worker
      /\ at'[Root] = b /\ itime'[Root] = n2 /\ own'[Root] = o2
  <2>1. setup' = u /\ Types /\ u \in Setups  BY DEF RootMoves, Inv, Types
  <2>2. Worker' = Worker  BY <2>1 DEF Rank, Worker
  <2>3. Root \in Rank  BY <2>1, Workers
  <2> QED  BY <2>1, <2>2, <2>3 DEF Types, RootMoves
<1>3. WorkersFollow'  BY <1>2 DEF WorkersFollow
<1>4. RootFacts'  BY <1>2 DEF RootFacts
<1> QED  BY <1>1, <1>3, <1>4 DEF Inv

\* What is sent with a call.
Sendable(u, m, xs, L) ==
  /\ m \in Routine /\ xs \in Seq(Message)
  /\ \A w \in Worker : L[w] \in Seq(Message)

\* The root makes a call.
Calls(u, a, n, o, d, b, n2, o2, d2, m, xs, L) ==
  /\ Inv /\ Here(u, a, n, o, d) /\ RootMoves(b, n2, o2) /\ c' = d2 /\ up' = up
  /\ Tell(m, xs, L) /\ Sendable(u, m, xs, L)
  /\ {a, b} \cap Over = {}
  /\ RootTyped(u, b, n2, o2, d2) /\ RootFactsAt(u, b, n2, o2, d2, xp')
  /\ \A w \in Worker : Callable(u, w, m, xs, L[w], a, n, o, d, b, n2, o2, d2)

\* A conditional part of a message is a sequence of messages.
LEMMA SomeOf ==
  \A e : \A q \in Seq(Message) : When(e, q) \in Seq(Message)
<1>1. <<>> \in Seq(Message)  BY EmptySeq, Zenon
<1> QED  BY <1>1, Zenon DEF When

\* The root comes to b and tells the workers: each of them, its queues a call longer, comes to
\* what the root counts on.
RootTells(u, b, n2, o2, d2, m, xs, L) ==
  /\ Inv /\ setup = u /\ RootMoves(b, n2, o2) /\ c' = d2 /\ up' = up
  /\ Tell(m, xs, L) /\ Sendable(u, m, xs, L)
  /\ RootTyped(u, b, n2, o2, d2) /\ RootFactsAt(u, b, n2, o2, d2, xp')
  /\ \A w \in Worker :
       Sound(u, w, Plus(State(w), <<Msg(m, 0)>>, When(InGroupIn(u, w), xs),
                                  When(InGroupIn(u, w), L[w])), b, n2, o2, d2)

\* Then it keeps the invariant.
LEMMA SentInv ==
  ASSUME NEW u, NEW b, NEW n2, NEW o2, NEW d2, NEW m, NEW xs, NEW L,
         RootTells(u, b, n2, o2, d2, m, xs, L)
  PROVE  Inv'
<1>1. /\ Inv /\ setup = u /\ RootMoves(b, n2, o2) /\ c' = d2 /\ up' = up
      /\ Tell(m, xs, L) /\ m \in Routine /\ xs \in Seq(Message)
      /\ RootTyped(u, b, n2, o2, d2) /\ RootFactsAt(u, b, n2, o2, d2, xp')
      /\ \A w \in Worker : L[w] \in Seq(Message)
  BY DEF RootTells, Sendable
<1>2. \A w \in Worker :
        Sound(u, w, Plus(State(w), <<Msg(m, 0)>>, When(InGroupIn(u, w), xs),
                                   When(InGroupIn(u, w), L[w])), b, n2, o2, d2)
  BY DEF RootTells
<1>3. Types  BY <1>1 DEF Inv
<1>4. Msg(m, 0) \in Message
  <2>1. m \in Name  BY <1>1, RoutineNames
  <2> QED  BY <2>1, Letter
<1>5. <<Msg(m, 0)>> \in Seq(Message)  BY <1>4, Single
<1>6. ASSUME NEW w \in Worker
      PROVE  /\ Sound(u, w, State(w)', b, n2, o2, d2)
             /\ State(w)'.world \in Seq(Message) /\ State(w)'.xpcomm \in Seq(Message)
             /\ State(w)'.mail \in Seq(Message)
  <2>1. PICK l, s : l = L[w] /\ s = State(w)  OBVIOUS
  <2> DEFINE ms == <<Msg(m, 0)>>
             x  == When(InGroupIn(u, w), xs)
             y  == When(InGroupIn(u, w), l)
  <2>2. ms \in Seq(Message) /\ x \in Seq(Message) /\ y \in Seq(Message)
    <3>1. l \in Seq(Message)  BY <1>1, <2>1
    <3> QED  BY <1>1, <1>5, <3>1, SomeOf
  <2>3. State(w)' = Plus(s, ms, x, y)
    <3>1. State(w)' = Plus(State(w), <<Msg(m, 0)>>, When(InGroupIn(u, w), xs),
                                    When(InGroupIn(u, w), L[w]))
      BY <1>1, <1>4, ToldState
    <3> QED  BY <2>1, <3>1, Zenon
  <2>4. Sound(u, w, Plus(s, ms, x, y), b, n2, o2, d2)
    <3>1. Sound(u, w, Plus(State(w), <<Msg(m, 0)>>, When(InGroupIn(u, w), xs),
                                    When(InGroupIn(u, w), L[w])), b, n2, o2, d2)
      BY <1>2, Zenon
    <3> QED  BY <2>1, <3>1, Zenon
  <2> HIDE DEF ms, x, y
  <2>5. PICK z : z = Plus(s, ms, x, y)  OBVIOUS
  <2>6. z.world \in Seq(Message) /\ z.xpcomm \in Seq(Message) /\ z.mail \in Seq(Message)
    <3>1. s.world \in Seq(Message) /\ s.xpcomm \in Seq(Message) /\ s.mail \in Seq(Message)
      BY <1>3, <2>1 DEF State, Types
    <3>2. z.world = s.world \o ms /\ z.xpcomm = s.xpcomm \o x /\ z.mail = s.mail \o y
      BY <2>5, Zenon DEF Plus
    <3> QED  BY <2>2, <3>1, <3>2, ConcatProperties
  <2> QED  BY <2>3, <2>4, <2>5, <2>6
<1>7. QueuesTyped'
  <2>1. setup' = u /\ Worker' = Worker  BY <1>1 DEF RootMoves, Rank, Worker
  <2>2. ASSUME NEW w \in Worker
        PROVE  /\ world'[w] \in Seq(Message) /\ xpcomm'[w] \in Seq(Message)
               /\ mail'[w] \in Seq(Message)
    <3>1. State(w)'.world = world'[w] /\ State(w)'.xpcomm = xpcomm'[w]
          /\ State(w)'.mail = mail'[w]
      BY DEF State
    <3> QED  BY <1>6, <3>1
  <2>3. /\ world' = [w \in Worker |-> world'[w]] /\ xpcomm' = [w \in Worker |-> xpcomm'[w]]
        /\ mail' = [w \in Worker |-> mail'[w]]
    <3> DEFINE A(w) == Append(world[w], Msg(m, 0))
               B(w) == xpcomm[w] \o When(InGroup(w), xs)
               C(w) == mail[w] \o When(InGroup(w), L[w])
    <3>1. /\ world' = [w \in Worker |-> A(w)] /\ xpcomm' = [w \in Worker |-> B(w)]
          /\ mail' = [w \in Worker |-> C(w)]
      BY <1>1, Zenon DEF Tell
    <3> HIDE DEF A, B, C
    <3> QED  BY <3>1
  <2>4. up' \in [Worker -> Seq(Message)]  BY <1>1, <1>3 DEF Types
  <2> QED  BY <2>1, <2>2, <2>3, <2>4 DEF QueuesTyped
<1>8. \A w \in Worker : Sound(u, w, State(w)', b, n2, o2, d2)  BY <1>6
<1> QED  BY <1>1, <1>7, <1>8, RootInv

\* A routine that the root calls keeps the invariant if every worker is led to where it is.
LEMMA ToldInv ==
  ASSUME NEW u, NEW a, NEW n, NEW o, NEW d, NEW b, NEW n2, NEW o2, NEW d2, NEW m, NEW xs, NEW L,
         Calls(u, a, n, o, d, b, n2, o2, d2, m, xs, L)
  PROVE  Inv'
<1>1. /\ Inv /\ setup = u /\ at[Root] = a /\ itime[Root] = n /\ own[Root] = o /\ c = d
      /\ m \in Routine /\ xs \in Seq(Message) /\ {a, b} \cap Over = {}
  BY DEF Calls, Here, Sendable
<1>2. /\ \A w \in Worker : Callable(u, w, m, xs, L[w], a, n, o, d, b, n2, o2, d2)
      /\ \A w \in Worker : L[w] \in Seq(Message)
  BY DEF Calls, Sendable
<1>3. /\ u \in Setups /\ n \in Nat /\ o \in OwnT /\ d \in DataT(u) /\ Root \in Rank
      /\ WorkersFollow /\ Types
  <2>1. Types /\ WorkersFollow /\ u \in Setups  BY <1>1 DEF Inv, Types
  <2>2. Root \in Rank  BY <1>1, <2>1, Workers
  <2> QED  BY <1>1, <2>1, <2>2 DEF Types
<1>4. <<Msg(m, 0)>> \in Seq(Message)
  <2>1. m \in Name  BY <1>1, RoutineNames
  <2> QED  BY <2>1, Letter, Single
<1>5. ASSUME NEW w \in Worker
      PROVE  Sound(u, w, Plus(State(w), <<Msg(m, 0)>>, When(InGroupIn(u, w), xs),
                                        When(InGroupIn(u, w), L[w])), b, n2, o2, d2)
  <2>1. PICK l, s : l = L[w] /\ s = State(w)  OBVIOUS
  <2>2. l \in Seq(Message) /\ Callable(u, w, m, xs, l, a, n, o, d, b, n2, o2, d2)
    BY <1>2, <2>1
  <2> DEFINE ms == <<Msg(m, 0)>>
             x  == When(InGroupIn(u, w), xs)
             y  == When(InGroupIn(u, w), l)
  <2>3. a \notin Over /\ b \notin Over  BY <1>1
  <2>4. CallFits(u, w, ms, x, y, a, n, o, d, b, n2, o2, d2)
    BY <1>1, <1>3, <2>2, <2>3, ToldFits
  <2>5. ms \in Seq(Message) /\ x \in Seq(Message) /\ y \in Seq(Message)
    BY <1>1, <1>4, <2>2, SomeOf
  <2> HIDE DEF ms, x, y
  <2>6. b # "stopped"  BY <2>3 DEF Over
  <2>7. Sound(u, w, s, a, n, o, d)  BY <1>1, <1>3, <2>1 DEF WorkersFollow
  <2>8. Sound(u, w, Plus(s, ms, x, y), b, n2, o2, d2)
    BY <2>3, <2>4, <2>5, <2>6, <2>7, CallSound
  <2> QED  BY <2>1, <2>8, Zenon DEF ms, x, y
<1>6. RootTells(u, b, n2, o2, d2, m, xs, L)  BY <1>5, Zenon DEF Calls, RootTells, Here
<1> QED  BY <1>6, SentInv

----------------------------------------------------------------------------
(* The steps of the root.                                                  *)

RootHas(u, a, n, o, d) ==
  /\ u \in Setups /\ setup = u /\ a \in RootAt /\ n \in 0 .. MaxSteps /\ n \in Nat
  /\ o \in OwnT /\ d \in DataT(u) /\ Root \in Rank /\ RootFactsAt(u, a, n, o, d, xp)
  /\ \A i \in MappedIn(u, Root) : xp[i] \in XpT(i)
  /\ errexe[Root] \in BOOLEAN /\ errexi \in BOOLEAN
  /\ errexe = [errexe EXCEPT ![Root] = errexe[Root]]
  /\ itime = [itime EXCEPT ![Root] = n] /\ own = [own EXCEPT ![Root] = o]
  /\ xp = [i \in Component |-> IF i \in Mapped(Root) THEN xp[i] ELSE xp[i]]
  /\ at[Root] = a /\ itime[Root] = n /\ own[Root] = o /\ c = d
  /\ \A i : i \in Component <=> i \in Comps(u)
  /\ \A i : i \in Mapped(Root) <=> i \in MappedIn(u, Root)
  /\ MappedIn(u, Root) \subseteq Comps(u)

\* What the invariant says of the root.
LEMMA RootHere ==
  ASSUME NEW u, NEW a, NEW n, NEW o, NEW d, Inv, Here(u, a, n, o, d)
  PROVE  RootHas(u, a, n, o, d)
<1>1. Types /\ RootFacts /\ setup = u /\ at[Root] = a /\ itime[Root] = n /\ own[Root] = o /\ c = d
  BY DEF Inv, Here
<1>2. u \in Setups  BY <1>1 DEF Types
<1>3. /\ Root \in Rank /\ Component = Comps(u) /\ Mapped(Root) = MappedIn(u, Root)
      /\ MappedIn(u, Root) \subseteq Comps(u)
  BY <1>1, <1>2, Workers, InForce, LocalsFacts
<1>4. /\ a \in RootAt /\ n \in 0 .. MaxSteps /\ n \in Nat /\ o \in OwnT /\ d \in DataT(u)
      /\ errexe[Root] \in BOOLEAN /\ errexi \in BOOLEAN
      /\ \A i \in MappedIn(u, Root) : xp[i] \in XpT(i)
  BY <1>1, <1>3 DEF Types
<1>5. /\ errexe = [errexe EXCEPT ![Root] = errexe[Root]]
      /\ itime = [itime EXCEPT ![Root] = n] /\ own = [own EXCEPT ![Root] = o]
      /\ xp = [i \in Component |-> IF i \in Mapped(Root) THEN xp[i] ELSE xp[i]]
  BY <1>1, <1>3 DEF Types
<1>6. RootFactsAt(u, a, n, o, d, xp)  BY <1>1 DEF RootFacts
<1> QED  BY <1>1, <1>2, <1>3, <1>4, <1>5, <1>6 DEF RootHas

\* What the root's names stand for.
LEMMA RootValues ==
  ASSUME NEW o, own[Root] = o, NEW n, itime[Root] = n
  PROVE  /\ RootValue("time") = o.time /\ RootValue("p") = o.p /\ RootValue("frac") = o.frac
         /\ RootValue("mfsbc") = o.frac /\ RootValue("flow") = o.flow /\ RootValue("dp") = o.flow
         /\ RootValue("qfsbc") = o.flow /\ RootValue("deltim") = o.deltim
         /\ RootValue("itime") = n
  BY DEF RootValue

\* A setup that says nothing moves the data of the root's components.
SameRoot(b) ==
  /\ setup' = setup /\ at' = [at EXCEPT ![Root] = b]
  /\ UNCHANGED <<itime, own, xp, errors>>

\* An action of the root that changes only where it is.
LEMMA SameRootMoves ==
  ASSUME NEW u, NEW a, NEW n, NEW o, NEW d, RootHas(u, a, n, o, d), NEW b \in RootAt, SameRoot(b)
  PROVE  RootMoves(b, n, o) /\ RootTyped(u, b, n, o, d)
<1>1. /\ setup' = setup /\ at' = [at EXCEPT ![Root] = b] /\ itime' = itime /\ own' = own
      /\ xp' = xp /\ errexe' = errexe /\ errexi' = errexi
  BY DEF SameRoot, errors
<1>2. RootMoves(b, n, o)
  <2>1. xp' = [i \in Component |-> IF i \in Mapped(Root) THEN xp'[i] ELSE xp[i]]
    BY <1>1, Zenon DEF RootHas
  <2>2. errexe' = [errexe EXCEPT ![Root] = errexe'[Root]]  BY <1>1, Zenon DEF RootHas
  <2>3. itime' = [itime EXCEPT ![Root] = n] /\ own' = [own EXCEPT ![Root] = o]
    BY <1>1, Zenon DEF RootHas
  <2> QED  BY <1>1, <2>1, <2>2, <2>3, Zenon DEF RootMoves
<1>3. RootTyped(u, b, n, o, d)
  <2>1. /\ b \in RootAt /\ n \in 0 .. MaxSteps /\ o \in OwnT /\ d \in DataT(u)
        /\ errexe[Root] \in BOOLEAN /\ errexi \in BOOLEAN
    BY Zenon DEF RootHas
  <2>2. \A i \in MappedIn(u, Root) : xp[i] \in XpT(i)  BY Zenon DEF RootHas
  <2> QED  BY <1>1, <2>1, <2>2 DEF RootTyped
<1> QED  BY <1>2, <1>3

\* The root's c_distribute.
LEMMA CDistributeInv ==
  ASSUME Inv, CDistribute
  PROVE  Inv'
<1>1. PICK u, a, n, o, d : Here(u, a, n, o, d)  BY Zenon DEF Here
<1>2. RootHas(u, a, n, o, d)  BY <1>1, RootHere
<1>3. /\ u \in Setups /\ setup = u /\ n \in Nat /\ n \in 0 .. MaxSteps /\ o \in OwnT
      /\ d \in DataT(u) /\ a = at[Root] /\ c = d /\ own[Root] = o /\ itime[Root] = n
      /\ RootFactsAt(u, a, n, o, d, xp)
  BY <1>2, Zenon DEF RootHas
<1>4. /\ Goes(Root, "c", "p")
      /\ Tell("c_distribute", Load(<<"time">>), [w \in Worker |-> Letters(w, "c", c)])
      /\ xp' = [i \in Component |->
                  IF i \in Mapped(Root) THEN [xp[i] EXCEPT !.c = c[i]] ELSE xp[i]]
      /\ setup' = setup /\ up' = up /\ itime' = itime /\ own' = own /\ c' = c
      /\ errexe' = errexe /\ errexi' = errexi
  BY DEF CDistribute, errors
<1>5. a = "c" /\ at' = [at EXCEPT ![Root] = "p"]  BY <1>3, <1>4 DEF Goes
<1>6. PICK xs, L : xs = <<Msg("time", o.time)>> /\ L = [w \in Worker |-> LettersIn(u, w, "c", d)]
  OBVIOUS
<1>7. Tell("c_distribute", xs, L)
  <2>1. Load(<<"time">>) = xs
    <3>1. RootValue("time") = o.time  BY <1>3, RootValues
    <3> QED  BY <1>6, <3>1 DEF Load
  <2>2. [w \in Worker |-> Letters(w, "c", c)] = L  BY <1>3, <1>6, InForce
  <2> QED  BY <1>4, <2>1, <2>2
<1>8. Sendable(u, "c_distribute", xs, L)
  <2>1. xs \in Seq(Message)
    <3>1. o.time \in Nat /\ "time" \in Name  BY <1>3 DEF OwnT, Fields, Name
    <3> QED  BY <1>6, <3>1, Letter, Single
  <2>2. ASSUME NEW w \in Worker PROVE L[w] \in Seq(Message)
    <3>1. PICK v : v = w  OBVIOUS
    <3>2. \A i \in MappedIn(u, v) : d[i] \in CT(i)  BY <1>3, LocalsFacts DEF DataT
    <3>3. "c" \in Name  BY DEF Name
    <3>4. LettersIn(u, v, "c", d) \in Seq(Message)  BY <1>3, <3>2, <3>3, LettersType
    <3> QED  BY <1>6, <3>1, <3>4
  <2>3. "c_distribute" \in Routine  BY DEF Routine
  <2> QED  BY <2>1, <2>2, <2>3 DEF Sendable
<1>9. \A i \in MappedIn(u, Root) : xp'[i] = [xp[i] EXCEPT !.c = d[i]] /\ d[i] \in CT(i)
                                   /\ xp[i] \in XpT(i)
  BY <1>2, <1>3, <1>4 DEF RootHas, DataT
<1>10. RootMoves("p", n, o)
  <2>1. xp' = [i \in Component |-> IF i \in Mapped(Root) THEN xp'[i] ELSE xp[i]]
    BY <1>4
  <2>2. errexe' = [errexe EXCEPT ![Root] = errexe'[Root]]  BY <1>2, <1>4, Zenon DEF RootHas
  <2>3. itime' = [itime EXCEPT ![Root] = n] /\ own' = [own EXCEPT ![Root] = o]
    BY <1>2, <1>4, Zenon DEF RootHas
  <2> QED  BY <1>4, <1>5, <2>1, <2>2, <2>3, Zenon DEF RootMoves
<1>11. RootTyped(u, "p", n, o, d)
  <2>1. \A i \in MappedIn(u, Root) : xp'[i] \in XpT(i)  BY <1>9 DEF XpT
  <2>2. errexe'[Root] \in BOOLEAN /\ errexi' \in BOOLEAN  BY <1>2, <1>4 DEF RootHas
  <2>3. "p" \in RootAt  BY DEF RootAt
  <2> QED  BY <1>3, <2>1, <2>2, <2>3 DEF RootTyped
<1>12. RootFactsAt(u, "p", n, o, d, xp')
  <2>1. u.solute => XpFollows(u, Root, xp', "p", o, d)
    <3>1. u.solute => XpFollows(u, Root, xp, "c", o, d)  BY <1>3, <1>5 DEF RootFactsAt
    <3> QED  BY <1>9, <3>1 DEF XpFollows, Before, Behind, XpT
  <2> QED  BY <1>3, <1>5, <2>1 DEF RootFactsAt, RootAt, During, Behind, Ends, Over
<1>13. ASSUME NEW w \in Worker
       PROVE  Callable(u, w, "c_distribute", xs, L[w], a, n, o, d, "p", n, o, d)
  <2>1. PICK v, l : v = w /\ l = LettersIn(u, v, "c", d)  OBVIOUS
  <2>2. ASSUME NEW t, Following(u, v, t, "c", n, o, d)
        PROVE  Obeys(u, v, "c_distribute", xs, l, t, "p", n, o, d)
    BY <1>6, <2>1, <2>2, TimeAnswered
  <2>3. Sends(u, v, "c", o, d) = Sends(u, v, "p", o, d)  BY NoSends
  <2>4. Callable(u, v, "c_distribute", xs, l, "c", n, o, d, "p", n, o, d)
    BY <2>2, <2>3 DEF Callable
  <2> QED  BY <1>5, <1>6, <2>1, <2>4
<1> QED
  <2>1. {a, "p"} \cap Over = {}  BY <1>5 DEF Over
  <2>2. Calls(u, a, n, o, d, "p", n, o, d, "c_distribute", xs, L)
    BY <1>1, <1>3, <1>4, <1>7, <1>8, <1>10, <1>11, <1>12, <1>13, <2>1 DEF Calls
  <2> QED  BY <2>2, ToldInv

\* The root broadcasts xs in routine m.
Broadcasts(u, a, n, o, d, b, n2, o2, m, xs) ==
  /\ Inv /\ Here(u, a, n, o, d) /\ RootMoves(b, n2, o2) /\ c' = c /\ up' = up
  /\ Broadcast(m, xs) /\ m \in Routine /\ xs \in Seq(Message)
  /\ {a, b} \cap Over = {}
  /\ RootTyped(u, b, n2, o2, d) /\ RootFactsAt(u, b, n2, o2, d, xp')

Obeyed(u, a, n, o, d, b, n2, o2, m, xs) ==
  \A v \in Worker :
    /\ \A t \in StateT(u, v) : Following(u, v, t, a, n, o, d) =>
         Obeys(u, v, m, xs, <<>>, t, b, n2, o2, d)
    /\ ~InGroupIn(u, v) => Sends(u, v, a, o, d) = Sends(u, v, b, o2, d)

\* A routine without letters keeps the invariant if transporters obey it.
LEMMA BroadcastInv ==
  ASSUME NEW u, NEW a, NEW n, NEW o, NEW d, NEW b, NEW n2, NEW o2, NEW m, NEW xs,
         Broadcasts(u, a, n, o, d, b, n2, o2, m, xs), Obeyed(u, a, n, o, d, b, n2, o2, m, xs)
  PROVE  Inv'
<1>1. PICK L : L = [w \in Worker |-> <<>>]  OBVIOUS
<1>2. \A w \in Worker : L[w] = <<>>  BY <1>1, Zenon
<1>3. Tell(m, xs, L)  BY <1>1 DEF Broadcasts, Broadcast
<1>4. Sendable(u, m, xs, L)
  <2>1. \A w \in Worker : L[w] \in Seq(Message)
    <3>1. <<>> \in Seq(Message)  BY EmptySeq, Zenon
    <3> QED  BY <1>2, <3>1, Zenon
  <2> QED  BY <2>1 DEF Sendable, Broadcasts
<1>5. ASSUME NEW w \in Worker
      PROVE  Callable(u, w, m, xs, L[w], a, n, o, d, b, n2, o2, d)
  <2>1. L[w] = <<>>  BY <1>2
  <2>2. Callable(u, w, m, xs, <<>>, a, n, o, d, b, n2, o2, d)  BY DEF Callable, Obeyed
  <2> QED  BY <2>1, <2>2, Zenon
<1>6. Calls(u, a, n, o, d, b, n2, o2, d, m, xs, L)
  <2>1. c' = d  BY DEF Broadcasts, Here
  <2> QED  BY <1>3, <1>4, <1>5, <2>1 DEF Broadcasts, Calls
<1> QED  BY <1>6, ToldInv

\* Arrays with the root's values.
LEMMA FilledType ==
  ASSUME NEW u \in Setups, NEW x \in Nat, NEW y \in Nat
  PROVE  /\ \A n : Filled(PNamesIn(u, n), "p", x, y) \in Seq(Message)
         /\ Filled(FlowNamesIn(u), "deltim", x, y) \in Seq(Message)
<1>1. ASSUME NEW names \in Seq(Name), NEW n
      PROVE  Filled(names, n, x, y) \in Seq(Message)
  <2> DEFINE M == Message
  <2>1. \A k \in 1 .. Len(names) : names[k] \in Name  BY ElementOfSeq
  <2>2. \A k \in 1 .. Len(names) : Msg(names[k], IF names[k] = n THEN x ELSE y) \in M
    BY <2>1, Letter
  <2>3. DOMAIN names = 1 .. Len(names) /\ Len(names) \in Nat  BY LenProperties
  <2>4. Filled(names, n, x, y)
          = [k \in 1 .. Len(names) |-> Msg(names[k], IF names[k] = n THEN x ELSE y)]
    BY <2>3 DEF Filled
  <2> HIDE DEF M
  <2>5. Filled(names, n, x, y) \in Seq(M)  BY <2>2, <2>3, <2>4
  <2> QED  BY <2>5 DEF M
<1>2. ASSUME NEW n PROVE PNamesIn(u, n) \in Seq(Name)
  <2>1. /\ <<>> \in Seq(Name) /\ <<"p">> \in Seq(Name) /\ <<"p", "frac">> \in Seq(Name)
        /\ <<"p", "frac", "mfsbc">> \in Seq(Name)
    BY DEF Name
  <2> QED  BY <2>1, NamesAre
<1>3. FlowNamesIn(u) \in Seq(Name)
  <2>1. /\ <<"flow", "qfsbc", "deltim">> \in Seq(Name) /\ <<"flow", "deltim">> \in Seq(Name)
        /\ <<"flow", "dp", "qfsbc", "deltim">> \in Seq(Name)
        /\ <<"flow", "dp", "deltim">> \in Seq(Name)
    BY DEF Name
  <2> QED  BY <2>1, NamesAre
<1> QED  BY <1>1, <1>2, <1>3

\* What the root broadcasts is what its variables hold under the names.
LEMMA LoadIs ==
  ASSUME NEW u \in Setups, setup = u, NEW o, own[Root] = o, NEW n, itime[Root] = n
  PROVE  /\ Load(PNames(Root)) = Filled(PNamesIn(u, n), "p", o.p, o.frac)
         /\ Load(FlowNames) = Filled(FlowNamesIn(u), "deltim", o.deltim, o.flow)
<1>1. /\ RootValue("p") = o.p /\ RootValue("frac") = o.frac /\ RootValue("mfsbc") = o.frac
      /\ RootValue("flow") = o.flow /\ RootValue("dp") = o.flow
      /\ RootValue("qfsbc") = o.flow /\ RootValue("deltim") = o.deltim
  BY RootValues
<1>2. PNames(Root) = PNamesIn(u, n) /\ FlowNames = FlowNamesIn(u)  BY InForce
<1>3. ASSUME NEW names, NEW l, NEW x, NEW y,
             \A k \in DOMAIN names : RootValue(names[k]) = IF names[k] = l THEN x ELSE y
      PROVE  Load(names) = Filled(names, l, x, y)
  <2> HIDE <1>1
  <2> QED  BY <1>3 DEF Load, Filled
<1>4. \A k \in DOMAIN PNamesIn(u, n) :
        PNamesIn(u, n)[k] = "p" \/ PNamesIn(u, n)[k] = "frac" \/ PNamesIn(u, n)[k] = "mfsbc"
  <2> DEFINE P(s) == \A k \in DOMAIN s : s[k] = "p" \/ s[k] = "frac" \/ s[k] = "mfsbc"
  <2>1. P(<<>>) /\ P(<<"p">>) /\ P(<<"p", "frac">>) /\ P(<<"p", "frac", "mfsbc">>)  OBVIOUS
  <2> HIDE DEF P
  <2>2. P(PNamesIn(u, n))  BY <2>1, NamesAre
  <2> QED  BY <2>2 DEF P
<1>5. \A k \in DOMAIN FlowNamesIn(u) :
        \/ FlowNamesIn(u)[k] = "flow" \/ FlowNamesIn(u)[k] = "dp"
        \/ FlowNamesIn(u)[k] = "qfsbc" \/ FlowNamesIn(u)[k] = "deltim"
  <2> DEFINE P(s) == \A k \in DOMAIN s : \/ s[k] = "flow" \/ s[k] = "dp"
                                         \/ s[k] = "qfsbc" \/ s[k] = "deltim"
  <2>1. /\ P(<<"flow", "qfsbc", "deltim">>) /\ P(<<"flow", "deltim">>)
        /\ P(<<"flow", "dp", "qfsbc", "deltim">>) /\ P(<<"flow", "dp", "deltim">>)
    OBVIOUS
  <2> HIDE DEF P
  <2>2. P(FlowNamesIn(u))  BY <2>1, NamesAre
  <2> QED  BY <2>2 DEF P
<1>6. \A k \in DOMAIN PNamesIn(u, n) : RootValue(PNamesIn(u, n)[k]) =
        IF PNamesIn(u, n)[k] = "p" THEN o.p ELSE o.frac
  BY <1>1, <1>4
<1>7. \A k \in DOMAIN FlowNamesIn(u) : RootValue(FlowNamesIn(u)[k]) =
        IF FlowNamesIn(u)[k] = "deltim" THEN o.deltim ELSE o.flow
  BY <1>1, <1>5
<1>8. Load(PNamesIn(u, n)) = Filled(PNamesIn(u, n), "p", o.p, o.frac)
  <2>1. PICK names, x, y : names = PNamesIn(u, n) /\ x = o.p /\ y = o.frac  OBVIOUS
  <2> QED  BY <1>3, <1>6, <2>1
<1>9. Load(FlowNamesIn(u)) = Filled(FlowNamesIn(u), "deltim", o.deltim, o.flow)
  BY <1>3, <1>7
<1> QED  BY <1>2, <1>8, <1>9

\* The root's p_distribute.
LEMMA PDistributeInv ==
  ASSUME Inv, PDistribute
  PROVE  Inv'
<1>1. PICK u, a, n, o, d : Here(u, a, n, o, d)  BY Zenon DEF Here
<1>2. RootHas(u, a, n, o, d)  BY <1>1, RootHere
<1>3. /\ u \in Setups /\ setup = u /\ n \in Nat /\ o \in OwnT
      /\ a = at[Root] /\ own[Root] = o /\ itime[Root] = n
      /\ RootFactsAt(u, a, n, o, d, xp)
  BY <1>2, Zenon DEF RootHas
<1>4. a = "p" /\ SameRoot("read") /\ up' = up /\ c' = c
      /\ Broadcast("p_distribute", Load(PNames(Root)))
  BY <1>3 DEF PDistribute, Goes, SameRoot, errors
<1>5. PICK xs : xs = Filled(PNamesIn(u, n), "p", o.p, o.frac)  OBVIOUS
<1>6. Broadcast("p_distribute", xs)
  <2>1. Load(PNames(Root)) = xs  BY <1>3, <1>5, LoadIs
  <2> QED  BY <1>4, <2>1
<1>7. xs \in Seq(Message) /\ "p_distribute" \in Routine
  <2>1. o.p \in Nat /\ o.frac \in Nat  BY <1>3 DEF OwnT, Fields
  <2>2. Filled(PNamesIn(u, n), "p", o.p, o.frac) \in Seq(Message)  BY <1>3, <2>1, FilledType
  <2> QED  BY <1>5, <2>2 DEF Routine
<1>8. RootMoves("read", n, o) /\ RootTyped(u, "read", n, o, d)
  <2>1. "read" \in RootAt  BY DEF RootAt
  <2> QED  BY <1>2, <1>4, <2>1, SameRootMoves
<1>9. RootFactsAt(u, "read", n, o, d, xp')
  <2>1. xp' = xp  BY <1>4 DEF SameRoot
  <2> QED
    BY <1>3, <1>4, <2>1 DEF RootFactsAt, RootAt, During, Behind, XpFollows, Before, Ends, Over
<1>10. Obeyed(u, a, n, o, d, "read", n, o, "p_distribute", xs)
  <2>1. ASSUME NEW v, NEW t, Following(u, v, t, "p", n, o, d)
        PROVE  Obeys(u, v, "p_distribute", xs, <<>>, t, "read", n, o, d)
    BY <1>5, <2>1, PressureAnswered
  <2>2. \A v : Sends(u, v, "p", o, d) = Sends(u, v, "read", o, d)  BY NoSends
  <2> QED  BY <1>4, <2>1, <2>2, Zenon DEF Obeyed
<1> QED
  <2>1. {a, "read"} \cap Over = {}  BY <1>4 DEF Over
  <2>2. Broadcasts(u, a, n, o, d, "read", n, o, "p_distribute", xs)
    BY <1>1, <1>4, <1>6, <1>7, <1>8, <1>9, <2>1 DEF Broadcasts
  <2> QED  BY <1>10, <2>2, BroadcastInv

\* The root's flow_distribute before the loop.
LEMMA InitialFlowInv ==
  ASSUME Inv, InitialFlow
  PROVE  Inv'
<1>1. PICK u, a, n, o, d : Here(u, a, n, o, d)  BY Zenon DEF Here
<1>2. RootHas(u, a, n, o, d)  BY <1>1, RootHere
<1>3. /\ u \in Setups /\ setup = u /\ n \in Nat /\ o \in OwnT
      /\ a = at[Root] /\ own[Root] = o /\ itime[Root] = n
      /\ RootFactsAt(u, a, n, o, d, xp)
  BY <1>2, Zenon DEF RootHas
<1>4. PICK b : b = IF u.solute \/ ~u.steady THEN "fdtmth" ELSE "exit"  OBVIOUS
<1>5. a = "flow0" /\ SameRoot(b) /\ up' = up /\ c' = c
      /\ Broadcast("flow_distribute", Load(FlowNames))
  BY <1>3, <1>4 DEF InitialFlow, Goes, SameRoot, errors
<1>6. PICK xs : xs = Filled(FlowNamesIn(u), "deltim", o.deltim, o.flow)  OBVIOUS
<1>7. Broadcast("flow_distribute", xs)
  <2>1. Load(FlowNames) = xs  BY <1>3, <1>6, LoadIs
  <2> QED  BY <1>5, <2>1
<1>8. o.deltim \in Nat /\ o.flow \in Nat  BY <1>3 DEF OwnT, Fields
<1>9. xs \in Seq(Message) /\ "flow_distribute" \in Routine
  <2>1. Filled(FlowNamesIn(u), "deltim", o.deltim, o.flow) \in Seq(Message)
    BY <1>3, <1>8, FilledType
  <2> QED  BY <1>6, <2>1 DEF Routine
<1>10. b \in {"fdtmth", "exit"} /\ b \in RootAt  BY <1>4 DEF RootAt
<1>11. RootMoves(b, n, o) /\ RootTyped(u, b, n, o, d)  BY <1>2, <1>5, <1>10, SameRootMoves
<1>12. RootFactsAt(u, b, n, o, d, xp')
  <2>1. xp' = xp  BY <1>5 DEF SameRoot
  <2> QED
    BY <1>3, <1>5, <1>10, <2>1
      DEF RootFactsAt, RootAt, During, Behind, XpFollows, Before, Ends, Over
<1>13. Obeyed(u, a, n, o, d, b, n, o, "flow_distribute", xs)
  <2>0. PICK y \in Nat : y = o.flow  BY <1>8
  <2>1. [o EXCEPT !.flow = y] = o  BY <1>3, <2>0 DEF OwnT, Fields
  <2>2. ASSUME NEW v, NEW t, Following(u, v, t, "flow0", n, o, d)
        PROVE  Obeys(u, v, "flow_distribute", xs, <<>>, t, b, n, o, d)
    <3>1. Obeys(u, v, "flow_distribute", Filled(FlowNamesIn(u), "deltim", o.deltim, y), <<>>,
                t, b, n, [o EXCEPT !.flow = y], d)
      BY <1>10, <2>2, FlowsAnswered
    <3> QED  BY <1>6, <2>0, <2>1, <3>1
  <2>3. \A v : Sends(u, v, "flow0", o, d) = Sends(u, v, b, o, d)  BY <1>10, NoSends
  <2> QED  BY <1>5, <2>2, <2>3, Zenon DEF Obeyed
<1> QED
  <2>1. {a, b} \cap Over = {}  BY <1>5, <1>10 DEF Over
  <2>2. Broadcasts(u, a, n, o, d, b, n, o, "flow_distribute", xs)
    BY <1>1, <1>5, <1>7, <1>9, <1>11, <1>12, <2>1 DEF Broadcasts
  <2> QED  BY <1>13, <2>2, BroadcastInv

\* The block that ends the simulation.
LEMMA EndOfBlocksInv ==
  ASSUME Inv, EndOfBlocks
  PROVE  Inv'
<1>1. PICK u, a, n, o, d : Here(u, a, n, o, d)  BY Zenon DEF Here
<1>2. RootHas(u, a, n, o, d)  BY <1>1, RootHere
<1>3. /\ u \in Setups /\ setup = u /\ a = at[Root] /\ RootFactsAt(u, a, n, o, d, xp)
  BY <1>2, Zenon DEF RootHas
<1>4. PICK xs : xs = <<Msg("thru", 1)>>  OBVIOUS
<1>5. a = "read" /\ SameRoot("exit") /\ up' = up /\ c' = c
      /\ Broadcast("init3_distribute", xs)
  BY <1>3, <1>4 DEF EndOfBlocks, Goes, SameRoot, errors
<1>6. xs \in Seq(Message) /\ "init3_distribute" \in Routine
  <2>1. "thru" \in Name  BY DEF Name
  <2>2. Msg("thru", 1) \in Message  BY <2>1, Letter
  <2> QED  BY <1>4, <2>2, Single DEF Routine
<1>7. RootMoves("exit", n, o) /\ RootTyped(u, "exit", n, o, d)
  <2>1. "exit" \in RootAt  BY DEF RootAt
  <2> QED  BY <1>2, <1>5, <2>1, SameRootMoves
<1>8. RootFactsAt(u, "exit", n, o, d, xp')
  <2>1. xp' = xp  BY <1>5 DEF SameRoot
  <2> QED
    BY <1>3, <1>5, <2>1 DEF RootFactsAt, RootAt, During, Behind, XpFollows, Before, Ends, Over
<1>9. Obeyed(u, a, n, o, d, "exit", n, o, "init3_distribute", xs)
  <2>1. ASSUME NEW v, NEW t, Following(u, v, t, "read", n, o, d)
        PROVE  Obeys(u, v, "init3_distribute", xs, <<>>, t, "exit", n, o, d)
    BY <1>4, <2>1, LastBlockAnswered
  <2>2. \A v : Sends(u, v, "read", o, d) = Sends(u, v, "exit", o, d)  BY NoSends
  <2> QED  BY <1>5, <2>1, <2>2, Zenon DEF Obeyed
<1> QED
  <2>1. {a, "exit"} \cap Over = {}  BY <1>5 DEF Over
  <2>2. Broadcasts(u, a, n, o, d, "exit", n, o, "init3_distribute", xs)
    BY <1>1, <1>5, <1>6, <1>7, <1>8, <2>1 DEF Broadcasts
  <2> QED  BY <1>9, <2>2, BroadcastInv

\* The flow equation and flow_distribute.
LEMMA FlowInv ==
  ASSUME Inv, Flow
  PROVE  Inv'
<1>1. PICK u, a, n, o, d : Here(u, a, n, o, d)  BY Zenon DEF Here
<1>2. RootHas(u, a, n, o, d)  BY <1>1, RootHere
<1>3. /\ u \in Setups /\ setup = u /\ n \in Nat /\ n \in 0 .. MaxSteps /\ o \in OwnT
      /\ d \in DataT(u)
      /\ a = at[Root] /\ own[Root] = o /\ itime[Root] = n /\ Root \in Rank
      /\ RootFactsAt(u, a, n, o, d, xp)
  BY <1>2, Zenon DEF RootHas
<1>4. /\ a = "flow" /\ at' = [at EXCEPT ![Root] = "transport"]
      /\ own' = [own EXCEPT ![Root].flow = itime[Root]]
      /\ Broadcast("flow_distribute", [k \in DOMAIN FlowNames |-> Msg(FlowNames[k], itime[Root])])
      /\ errexe' \in {errexe, [errexe EXCEPT ![Root] = TRUE]}
      /\ setup' = setup /\ up' = up /\ itime' = itime /\ xp' = xp /\ c' = c /\ errexi' = errexi
  BY <1>3 DEF Flow, Goes
<1>5. PICK o2 : o2 = [o EXCEPT !.flow = n]  OBVIOUS
<1>6. o2 \in OwnT /\ o2.deltim = o.deltim /\ o2.bc = o.bc /\ o2.old = o.old /\ o.deltim \in Nat
  BY <1>3, <1>5 DEF OwnT, Fields
<1>7. o.deltim = n  BY <1>3, <1>4 DEF RootFactsAt, During, Ends, Over
<1>8. PICK xs : xs = Filled(FlowNamesIn(u), "deltim", n, n)  OBVIOUS
<1>9. Broadcast("flow_distribute", xs)
  <2>1. FlowNames = FlowNamesIn(u)  BY <1>3, InForce
  <2>2. [k \in DOMAIN FlowNames |-> Msg(FlowNames[k], itime[Root])] = xs
    <3>1. PICK names : names = FlowNamesIn(u)  OBVIOUS
    <3> QED  BY <1>3, <1>8, <2>1, <3>1 DEF Filled
  <2> QED  BY <1>4, <2>2
<1>10. xs \in Seq(Message) /\ "flow_distribute" \in Routine
  <2>1. Filled(FlowNamesIn(u), "deltim", n, n) \in Seq(Message)  BY <1>3, FilledType
  <2> QED  BY <1>8, <2>1 DEF Routine
<1>11. RootMoves("transport", n, o2)
  <2>1. xp' = [i \in Component |-> IF i \in Mapped(Root) THEN xp'[i] ELSE xp[i]]
    BY <1>2, <1>4, Zenon DEF RootHas
  <2>2. errexe' = [errexe EXCEPT ![Root] = errexe'[Root]]
    <3>1. errexe = [errexe EXCEPT ![Root] = errexe[Root]]  BY <1>2, Zenon DEF RootHas
    <3>2. Inv /\ Root \in Rank  BY <1>3
    <3> QED  BY <1>4, <3>1, <3>2 DEF Inv, Types
  <2>3. itime' = [itime EXCEPT ![Root] = n]  BY <1>2, <1>4, Zenon DEF RootHas
  <2>4. own' = [own EXCEPT ![Root] = o2]
    <3>1. own' = [own EXCEPT ![Root] = [own[Root] EXCEPT !.flow = itime[Root]]]  BY <1>4
    <3> QED  BY <1>3, <1>5, <3>1
  <2> QED  BY <1>4, <2>1, <2>2, <2>3, <2>4, Zenon DEF RootMoves
<1>12. RootTyped(u, "transport", n, o2, d)
  <2>1. \A i \in MappedIn(u, Root) : xp'[i] \in XpT(i)  BY <1>2, <1>4 DEF RootHas
  <2>2. errexe'[Root] \in BOOLEAN /\ errexi' \in BOOLEAN
    BY <1>2, <1>3, <1>4 DEF RootHas, Inv, Types
  <2>3. "transport" \in RootAt  BY DEF RootAt
  <2> QED  BY <1>3, <1>6, <2>1, <2>2, <2>3 DEF RootTyped
<1>13. RootFactsAt(u, "transport", n, o2, d, xp')
  BY <1>3, <1>4, <1>6 DEF RootFactsAt, RootAt, During, Behind, XpFollows, Before, Ends, Over
<1>14. Obeyed(u, a, n, o, d, "transport", n, o2, "flow_distribute", xs)
  <2>1. ASSUME NEW v, NEW t, Following(u, v, t, "flow", n, o, d)
        PROVE  Obeys(u, v, "flow_distribute", xs, <<>>, t, "transport", n, o2, d)
    <3>1. Obeys(u, v, "flow_distribute", Filled(FlowNamesIn(u), "deltim", o.deltim, n), <<>>,
                t, "transport", n, [o EXCEPT !.flow = n], d)
      BY <1>3, <2>1, FlowsAnswered
    <3> QED  BY <1>5, <1>7, <1>8, <3>1
  <2>2. \A v : Sends(u, v, "flow", o, d) = Sends(u, v, "transport", o2, d)
    <3>1. \A v : Sends(u, v, "flow", o, d) = <<>>  BY DEF Sends
    <3>2. \A v : Sends(u, v, "transport", o2, d) = <<>>  BY DEF Sends
    <3> QED  BY <3>1, <3>2, Zenon
  <2> QED  BY <1>4, <2>1, <2>2, Zenon DEF Obeyed
<1> QED
  <2>1. {a, "transport"} \cap Over = {}  BY <1>4 DEF Over
  <2>2. Broadcasts(u, a, n, o, d, "transport", n, o2, "flow_distribute", xs)
    BY <1>1, <1>4, <1>9, <1>10, <1>11, <1>12, <1>13, <2>1 DEF Broadcasts
  <2> QED  BY <1>14, <2>2, BroadcastInv

\* The beginning of a step: the root counts it before the workers do.
LEMMA TimestepInv ==
  ASSUME Inv, Timestep
  PROVE  Inv'
<1>1. PICK u, a, n, o, d : Here(u, a, n, o, d)  BY Zenon DEF Here
<1>2. RootHas(u, a, n, o, d)  BY <1>1, RootHere
<1>3. /\ u \in Setups /\ setup = u /\ n \in Nat /\ n \in 0 .. MaxSteps /\ o \in OwnT
      /\ d \in DataT(u)
      /\ a = at[Root] /\ own[Root] = o /\ itime[Root] = n /\ Root \in Rank
      /\ RootFactsAt(u, a, n, o, d, xp)
  BY <1>2, Zenon DEF RootHas
<1>4. PICK b : b = IF u.steady THEN "transport" ELSE "flow"  OBVIOUS
<1>5. /\ a = "timestep" /\ at' = [at EXCEPT ![Root] = b]
      /\ itime' = [itime EXCEPT ![Root] = n+1] /\ itime'[Root] = n+1
      /\ own' = [own EXCEPT ![Root].deltim = itime'[Root]]
      /\ Broadcast("timestep_worker",
           <<Msg("itime", itime'[Root]), Msg("deltim", itime'[Root]), Msg("time", own[Root].time)>>)
      /\ setup' = setup /\ up' = up /\ xp' = xp /\ c' = c /\ errexe' = errexe /\ errexi' = errexi
  <2>1. /\ a = "timestep" /\ at' = [at EXCEPT ![Root] = b]
        /\ itime' = [itime EXCEPT ![Root] = @+1]
        /\ own' = [own EXCEPT ![Root].deltim = itime'[Root]]
        /\ Broadcast("timestep_worker",
             <<Msg("itime", itime'[Root]), Msg("deltim", itime'[Root]),
               Msg("time", own[Root].time)>>)
        /\ setup' = setup /\ up' = up /\ xp' = xp /\ c' = c /\ errexe' = errexe
        /\ errexi' = errexi
    BY <1>3, <1>4 DEF Timestep, Goes, errors
  <2>2. itime' = [itime EXCEPT ![Root] = n+1]  BY <1>3, <2>1
  <2>3. itime'[Root] = n+1  BY <1>3, <2>2 DEF Inv, Types
  <2> QED  BY <2>1, <2>2, <2>3
<1>6. PICK o2 : o2 = [o EXCEPT !.deltim = n+1]  OBVIOUS
<1>7. o2 \in OwnT /\ o2.deltim = n+1 /\ o2.bc = o.bc /\ o2.old = o.old /\ o.time \in Nat
  BY <1>3, <1>6 DEF OwnT, Fields
<1>8. PICK xs : xs = <<Msg("itime", n+1), Msg("deltim", n+1), Msg("time", o.time)>>  OBVIOUS
<1>9. Broadcast("timestep_worker", xs)  BY <1>3, <1>5, <1>8
<1>10. xs \in Seq(Message) /\ "timestep_worker" \in Routine
  <2>1. "itime" \in Name /\ "deltim" \in Name /\ "time" \in Name /\ n+1 \in Nat
    BY <1>3 DEF Name
  <2> DEFINE M == Message
  <2>2. Msg("itime", n+1) \in M /\ Msg("deltim", n+1) \in M /\ Msg("time", o.time) \in M
    BY <1>7, <2>1, Letter
  <2> HIDE DEF M
  <2>3. xs \in Seq(M)  BY <1>8, <2>2
  <2> QED  BY <2>3 DEF M, Routine
<1>11. b \in {"flow", "transport"} /\ b \in RootAt  BY <1>4 DEF RootAt
<1>12. n < MaxSteps /\ n+1 \in 0 .. MaxSteps
  <2>1. n < MaxSteps  BY <1>3, <1>5 DEF RootFactsAt
  <2>2. MaxSteps \in Nat  BY TransportBounds
  <2> QED  BY <1>3, <2>1, <2>2
<1>13. RootMoves(b, n+1, o2)
  <2>1. xp' = [i \in Component |-> IF i \in Mapped(Root) THEN xp'[i] ELSE xp[i]]
    BY <1>2, <1>5, Zenon DEF RootHas
  <2>2. errexe' = [errexe EXCEPT ![Root] = errexe'[Root]]  BY <1>2, <1>5, Zenon DEF RootHas
  <2>3. own' = [own EXCEPT ![Root] = o2]
    <3>1. own' = [own EXCEPT ![Root] = [own[Root] EXCEPT !.deltim = itime'[Root]]]  BY <1>5
    <3> QED  BY <1>3, <1>5, <1>6, <3>1
  <2> QED  BY <1>5, <2>1, <2>2, <2>3, Zenon DEF RootMoves
<1>14. RootTyped(u, b, n+1, o2, d)
  <2>1. \A i \in MappedIn(u, Root) : xp'[i] \in XpT(i)  BY <1>2, <1>5 DEF RootHas
  <2>2. errexe'[Root] \in BOOLEAN /\ errexi' \in BOOLEAN  BY <1>2, <1>5 DEF RootHas
  <2> QED  BY <1>3, <1>7, <1>11, <1>12, <2>1, <2>2 DEF RootTyped
<1>15. RootFactsAt(u, b, n+1, o2, d, xp')
  <2>1. \A i \in Comps(u) : u.solute => d[i].moved = n
    BY <1>3, <1>5 DEF RootFactsAt, RootAt, During, Behind, Ends, Over
  <2>2. u.solute => XpFollows(u, Root, xp', b, o2, d)
    BY <1>3, <1>5, <1>7, <1>11 DEF RootFactsAt, XpFollows, Before, Behind, Ends, Over
  <2>3. (n+1) - 1 = n  BY <1>3
  <2>4. b \in During /\ b # "timestep" /\ b \notin {"sbc wait", "c wait"}  BY <1>11 DEF During
  <2> QED  BY <1>7, <2>1, <2>2, <2>3, <2>4 DEF RootFactsAt
<1>16. Obeyed(u, a, n, o, d, b, n+1, o2, "timestep_worker", xs)
  <2>1. ASSUME NEW v, NEW t, Following(u, v, t, "timestep", n, o, d)
        PROVE  Obeys(u, v, "timestep_worker", xs, <<>>, t, b, n+1, o2, d)
    <3>1. Obeys(u, v, "timestep_worker",
                <<Msg("itime", n+1), Msg("deltim", n+1), Msg("time", o.time)>>, <<>>,
                t, b, n+1, [o EXCEPT !.deltim = n+1], d)
      BY <1>11, <2>1, TimestepAnswered
    <3> QED  BY <1>6, <1>8, <3>1
  <2>2. \A v : Sends(u, v, "timestep", o, d) = Sends(u, v, b, o2, d)
    <3>1. \A v : Sends(u, v, "timestep", o, d) = <<>>  BY DEF Sends
    <3>2. \A v : Sends(u, v, b, o2, d) = <<>>  BY <1>11 DEF Sends
    <3> QED  BY <3>1, <3>2, Zenon
  <2> QED  BY <1>5, <2>1, <2>2, Zenon DEF Obeyed
<1> QED
  <2>1. {a, b} \cap Over = {}  BY <1>5, <1>11 DEF Over
  <2>2. PICK k : k = n+1  OBVIOUS
  <2>3. Broadcasts(u, a, n, o, d, b, k, o2, "timestep_worker", xs)
    BY <1>1, <1>5, <1>9, <1>10, <1>13, <1>14, <1>15, <2>1, <2>2 DEF Broadcasts
  <2> QED  BY <1>16, <2>2, <2>3, BroadcastInv

\* The root's sbc_gather.
LEMMA SbcGatherInv ==
  ASSUME Inv, SbcGather
  PROVE  Inv'
<1>1. PICK u, a, n, o, d : Here(u, a, n, o, d)  BY Zenon DEF Here
<1>2. RootHas(u, a, n, o, d)  BY <1>1, RootHere
<1>3. /\ u \in Setups /\ setup = u /\ a = at[Root] /\ RootFactsAt(u, a, n, o, d, xp)
  BY <1>2, Zenon DEF RootHas
<1>4. PICK b, xs : b = (IF u.solute /\ u.sbc THEN "sbc wait" ELSE "gather") /\ xs = <<>>  OBVIOUS
<1>5. a = "sbc" /\ SameRoot(b) /\ up' = up /\ c' = c /\ Broadcast("sbc_gather", xs)
  BY <1>3, <1>4 DEF SbcGather, Goes, SameRoot, errors
<1>6. xs \in Seq(Message) /\ "sbc_gather" \in Routine
  <2>1. <<>> \in Seq(Message)  BY EmptySeq, Zenon
  <2> QED  BY <1>4, <2>1 DEF Routine
<1>7. b \in RootAt /\ b \in {"sbc wait", "gather"}  BY <1>4 DEF RootAt
<1>8. RootMoves(b, n, o) /\ RootTyped(u, b, n, o, d)  BY <1>2, <1>5, <1>7, SameRootMoves
<1>9. RootFactsAt(u, b, n, o, d, xp')
  <2>1. xp' = xp  BY <1>5 DEF SameRoot
  <2>2. b = "sbc wait" => u.solute  BY <1>4
  <2> QED
    BY <1>3, <1>5, <1>7, <2>1, <2>2
      DEF RootFactsAt, RootAt, During, Behind, XpFollows, Before, Ends, Over
<1>10. Obeyed(u, a, n, o, d, b, n, o, "sbc_gather", xs)
  <2>1. ASSUME NEW v, NEW t, Following(u, v, t, "sbc", n, o, d)
        PROVE  Obeys(u, v, "sbc_gather", xs, <<>>, t, b, n, o, d)
    BY <1>4, <2>1, SbcAnswered
  <2>2. ASSUME NEW v \in Worker, ~InGroupIn(u, v)
        PROVE  Sends(u, v, "sbc", o, d) = Sends(u, v, b, o, d)
    <3>1. CASE b = "sbc wait"
      <4>1. MappedIn(u, v) = {}  BY <1>3, <1>4, <2>2, <3>1, Workers
      <4>2. Count(u, v) = 0  BY <4>1, FS_EmptySet DEF Count
      <4>3. SameLetters(u, v, "sbc", 0) = <<>>  BY <4>2 DEF SameLetters
      <4> QED  BY <3>1, <4>3 DEF Sends
    <3>2. CASE b = "gather"  BY <3>2 DEF Sends
    <3> QED  BY <1>7, <3>1, <3>2
  <2> QED  BY <1>5, <2>1, <2>2, Zenon DEF Obeyed
<1> QED
  <2>1. {a, b} \cap Over = {}  BY <1>5, <1>7 DEF Over
  <2>2. Broadcasts(u, a, n, o, d, b, n, o, "sbc_gather", xs)
    BY <1>1, <1>5, <1>6, <1>8, <1>9, <2>1 DEF Broadcasts
  <2> QED  BY <1>10, <2>2, BroadcastInv

\* The root's c_gather.
LEMMA CGatherInv ==
  ASSUME Inv, CGather
  PROVE  Inv'
<1>1. PICK u, a, n, o, d : Here(u, a, n, o, d)  BY Zenon DEF Here
<1>2. RootHas(u, a, n, o, d)  BY <1>1, RootHere
<1>3. /\ u \in Setups /\ setup = u /\ a = at[Root] /\ RootFactsAt(u, a, n, o, d, xp)
  BY <1>2, Zenon DEF RootHas
<1>4. PICK b, xs : b = (IF u.solute THEN "c wait" ELSE "gathered") /\ xs = <<>>  OBVIOUS
<1>5. a = "gather" /\ SameRoot(b) /\ up' = up /\ c' = c /\ Broadcast("c_gather", xs)
  BY <1>3, <1>4 DEF CGather, Goes, SameRoot, errors
<1>6. xs \in Seq(Message) /\ "c_gather" \in Routine
  <2>1. <<>> \in Seq(Message)  BY EmptySeq, Zenon
  <2> QED  BY <1>4, <2>1 DEF Routine
<1>7. b \in RootAt /\ b \in {"c wait", "gathered"}  BY <1>4 DEF RootAt
<1>8. RootMoves(b, n, o) /\ RootTyped(u, b, n, o, d)  BY <1>2, <1>5, <1>7, SameRootMoves
<1>9. RootFactsAt(u, b, n, o, d, xp')
  <2>1. xp' = xp  BY <1>5 DEF SameRoot
  <2>2. (b = "c wait" <=> u.solute)  BY <1>4
  <2> QED
    BY <1>3, <1>5, <1>7, <2>1, <2>2
      DEF RootFactsAt, RootAt, During, Behind, XpFollows, Before, Ends, Over
<1>10. Obeyed(u, a, n, o, d, b, n, o, "c_gather", xs)
  <2>1. ASSUME NEW v, NEW t, Following(u, v, t, "gather", n, o, d)
        PROVE  Obeys(u, v, "c_gather", xs, <<>>, t, b, n, o, d)
    <3>1. b = "c wait"
      <4>1. u.solute  BY <2>1 DEF Following, InGroupIn
      <4> QED  BY <1>4, <4>1
    <3> QED  BY <1>4, <2>1, <3>1, AnswersAnswered
  <2>2. ASSUME NEW v \in Worker, ~InGroupIn(u, v)
        PROVE  Sends(u, v, "gather", o, d) = Sends(u, v, b, o, d)
    <3>1. CASE b = "c wait"
      <4>1. MappedIn(u, v) = {}  BY <1>3, <1>4, <2>2, <3>1, Workers
      <4>2. Count(u, v) = 0  BY <4>1, FS_EmptySet DEF Count
      <4>3. \A e : LettersIn(u, v, "c", e) = <<>>  BY <4>2 DEF LettersIn
      <4> QED  BY <3>1, <4>3 DEF Sends
    <3>2. CASE b = "gathered"  BY <3>2 DEF Sends
    <3> QED  BY <1>7, <3>1, <3>2
  <2> QED  BY <1>5, <2>1, <2>2, Zenon DEF Obeyed
<1> QED
  <2>1. {a, b} \cap Over = {}  BY <1>5, <1>7 DEF Over
  <2>2. Broadcasts(u, a, n, o, d, b, n, o, "c_gather", xs)
    BY <1>1, <1>5, <1>6, <1>8, <1>9, <2>1 DEF Broadcasts
  <2> QED  BY <1>10, <2>2, BroadcastInv

\* The root's time_step_save, for its own components and through the workers for theirs.
LEMMA TimeStepSaveInv ==
  ASSUME Inv, TimeStepSave
  PROVE  Inv'
<1>1. PICK u, a, n, o, d : Here(u, a, n, o, d)  BY Zenon DEF Here
<1>2. RootHas(u, a, n, o, d)  BY <1>1, RootHere
<1>3. /\ u \in Setups /\ setup = u /\ n \in Nat /\ n \in 0 .. MaxSteps /\ o \in OwnT
      /\ d \in DataT(u)
      /\ a = at[Root] /\ own[Root] = o /\ itime[Root] = n /\ Root \in Rank
      /\ RootFactsAt(u, a, n, o, d, xp)
  BY <1>2, Zenon DEF RootHas
<1>4. InGroup(Root) <=> u.solute
  <2>1. LastProcess(u) \in 0 .. u.tasks - 1 /\ u.tasks \in Nat  BY <1>3, Processes
  <2>2. InGroup(Root) <=> InGroupIn(u, Root)  BY <1>3, InForce
  <2> QED  BY <2>1, <2>2 DEF InGroupIn, Root
<1>5. PICK o2, xs, b : /\ o2 = (IF u.solute THEN [o EXCEPT !.old = o.bc] ELSE o) /\ xs = <<>>
                       /\ b = IF errexe[Root] THEN "exit" ELSE "c"
  OBVIOUS
<1>6. o2 \in OwnT /\ o2.deltim = o.deltim /\ o2.bc = o.bc /\ (u.solute => o2.old = o.bc)
  BY <1>3, <1>5 DEF OwnT, Fields
<1>7. /\ a = "save" /\ at' = [at EXCEPT ![Root] = b]
      /\ own' = [own EXCEPT ![Root] = o2]
      /\ xp' = [i \in Component |->
                  IF InGroup(Root) /\ i \in Mapped(Root) THEN [xp[i] EXCEPT !.old = xp[i].bc]
                  ELSE xp[i]]
      /\ Broadcast("time_step_save", xs)
      /\ setup' = setup /\ up' = up /\ itime' = itime /\ c' = c
      /\ errexe' = errexe /\ errexi' = errexi
  <2>1. /\ a = "save" /\ at' = [at EXCEPT ![Root] = b]
        /\ own' = [own EXCEPT ![Root] =
                     [own[Root] EXCEPT !.old = IF InGroup(Root) THEN own[Root].bc ELSE @]]
        /\ xp' = [i \in Component |->
                    IF InGroup(Root) /\ i \in Mapped(Root) THEN [xp[i] EXCEPT !.old = xp[i].bc]
                    ELSE xp[i]]
        /\ Broadcast("time_step_save", xs)
        /\ setup' = setup /\ up' = up /\ itime' = itime /\ c' = c
        /\ errexe' = errexe /\ errexi' = errexi
    BY <1>3, <1>5 DEF TimeStepSave, Saves, Goes, errors
  <2>2. [own[Root] EXCEPT !.old = IF InGroup(Root) THEN own[Root].bc ELSE @] = o2
    BY <1>3, <1>4, <1>5 DEF OwnT
  <2> QED  BY <2>1, <2>2
<1>8. xs \in Seq(Message) /\ "time_step_save" \in Routine
  <2>1. <<>> \in Seq(Message)  BY EmptySeq, Zenon
  <2> QED  BY <1>5, <2>1 DEF Routine
<1>9. \A i \in MappedIn(u, Root) :
        /\ xp[i] \in XpT(i)
        /\ xp'[i] = IF u.solute THEN [xp[i] EXCEPT !.old = xp[i].bc] ELSE xp[i]
  BY <1>2, <1>4, <1>7 DEF RootHas
<1>10. RootMoves(b, n, o2)
  <2>1. xp' = [i \in Component |-> IF i \in Mapped(Root) THEN xp'[i] ELSE xp[i]]
    BY <1>7
  <2>2. errexe' = [errexe EXCEPT ![Root] = errexe'[Root]]  BY <1>2, <1>7, Zenon DEF RootHas
  <2>3. itime' = [itime EXCEPT ![Root] = n]  BY <1>2, <1>7, Zenon DEF RootHas
  <2> QED  BY <1>7, <2>1, <2>2, <2>3, Zenon DEF RootMoves
<1>11. RootTyped(u, b, n, o2, d)
  <2>1. \A i \in MappedIn(u, Root) : xp'[i] \in XpT(i)  BY <1>9 DEF XpT
  <2>2. errexe'[Root] \in BOOLEAN /\ errexi' \in BOOLEAN  BY <1>2, <1>7 DEF RootHas
  <2>3. b \in RootAt  BY <1>5 DEF RootAt
  <2> QED  BY <1>3, <1>6, <2>1, <2>2, <2>3 DEF RootTyped
<1>12. RootFactsAt(u, b, n, o2, d, xp')
  <2>1. u.solute => XpFollows(u, Root, xp', b, o2, d)
    <3>1. u.solute => XpFollows(u, Root, xp, "save", o, d)  BY <1>3, <1>7 DEF RootFactsAt
    <3> QED  BY <1>5, <1>6, <1>9, <3>1 DEF XpFollows, Before, Behind, XpT
  <2> QED  BY <1>3, <1>5, <1>6, <1>7, <2>1 DEF RootFactsAt, RootAt, During, Behind, Ends, Over
<1>13. Obeyed(u, a, n, o, d, b, n, o2, "time_step_save", xs)
  <2>1. ASSUME NEW v, NEW t, Following(u, v, t, "save", n, o, d)
        PROVE  Obeys(u, v, "time_step_save", xs, <<>>, t, b, n, o2, d)
    <3>1. Obeys(u, v, "time_step_save", <<>>, <<>>, t, b, n, [o EXCEPT !.old = o.bc], d)
      BY <1>5, <2>1, SavedAnswered
    <3>2. u.solute  BY <2>1 DEF Following, InGroupIn
    <3> QED  BY <1>5, <3>1, <3>2
  <2>2. \A v : Sends(u, v, "save", o, d) = Sends(u, v, b, o2, d)
    <3>1. \A v : Sends(u, v, "save", o, d) = <<>>  BY DEF Sends
    <3>2. \A v : Sends(u, v, b, o2, d) = <<>>  BY <1>5 DEF Sends
    <3> QED  BY <3>1, <3>2, Zenon
  <2> QED  BY <1>7, <2>1, <2>2, Zenon DEF Obeyed
<1> QED
  <2>1. {a, b} \cap Over = {}  BY <1>5, <1>7 DEF Over
  <2>2. Broadcasts(u, a, n, o, d, b, n, o2, "time_step_save", xs)
    BY <1>1, <1>7, <1>8, <1>10, <1>11, <1>12, <2>1 DEF Broadcasts
  <2> QED  BY <1>13, <2>2, BroadcastInv

\* The root's own components.
LEMMA RootTransports ==
  ASSUME NEW u, NEW n, NEW o, NEW d, RootHas(u, "transport", n, o, d), Transports(Root),
         Types
  PROVE  /\ xp' = [i \in Component |-> IF i \in Mapped(Root) THEN xp'[i] ELSE xp[i]]
         /\ errexe' = [errexe EXCEPT ![Root] = errexe'[Root]] /\ errexe'[Root] \in BOOLEAN
         /\ \A i \in MappedIn(u, Root) : xp'[i] \in XpT(i)
         /\ u.solute => \A i \in MappedIn(u, Root) : xp'[i].bc = o.bc /\ xp'[i].old = o.old
         /\ u.solute /\ ~errexe'[Root] =>
              \A i \in MappedIn(u, Root) : xp'[i].c = MovedIn(o, d[i])
<1>1. /\ u \in Setups /\ setup = u /\ o \in OwnT /\ own[Root] = o /\ Root \in Rank
      /\ errexe[Root] \in BOOLEAN
  BY Zenon DEF RootHas
<1>2. /\ u.solute => XpFollows(u, Root, xp, "transport", o, d)
      /\ \A i \in MappedIn(u, Root) : /\ xp[i] \in XpT(i) /\ i \in Component /\ i \in Mapped(Root)
                                      /\ i \in Comps(u)
  BY DEF RootHas, RootFactsAt, Ends, Over
<1>3. errexe = [errexe EXCEPT ![Root] = errexe[Root]]  BY Zenon DEF RootHas
<1>4. PICK k \in {setup.ns+1} \cup (IF Root \in Failing /\ setup.solute THEN Mapped(Root) ELSE {}) :
        /\ errexe' = [errexe EXCEPT ![Root] = @ \/ k <= setup.ns]
        /\ xp' = [i \in Component |->
             IF i \notin Mapped(Root) \/ ~setup.solute THEN xp[i]
             ELSE [xp[i] EXCEPT !.c =
                    [Moved(Root, i) EXCEPT !.bad = @ \/ errexe[Root] \/ i >= k]]]
  BY Zenon DEF Transports
<1>5. u.ns \in Nat /\ k \in Nat
  <2>1. u.ns \in Nat \ {0}  BY <1>1, Processes
  <2>2. \A i \in Mapped(Root) : i \in Nat  BY DEF Mapped, Component
  <2> QED  BY <1>1, <1>4, <2>1, <2>2
<1>6. /\ xp' = [i \in Component |-> IF i \in Mapped(Root) THEN xp'[i] ELSE xp[i]]
  BY <1>4
<1>7. PICK e \in BOOLEAN : e <=> (errexe[Root] \/ k <= u.ns)  BY <1>1
<1>8. errexe' = [errexe EXCEPT ![Root] = e] /\ errexe'[Root] = e
  <2>1. (errexe[Root] \/ k <= u.ns) = e  BY <1>7
  <2>2. errexe' = [errexe EXCEPT ![Root] = e]  BY <1>1, <1>4, <2>1
  <2>4. errexe'[Root] = e  BY <1>1, <2>2 DEF Types
  <2> QED  BY <2>2, <2>4
<1>9. ASSUME u.solute, NEW i \in MappedIn(u, Root)
      PROVE  /\ xp'[i] \in XpT(i) /\ xp'[i].bc = o.bc /\ xp'[i].old = o.old
             /\ ~e => xp'[i].c = MovedIn(o, d[i])
  <2>1. PICK y \in XpT(i) : y = xp[i]  BY <1>2
  <2>2. y.bc = o.bc /\ y.old = o.old /\ y.c = d[i] /\ y.c \in CT(i)
    BY <1>2, <1>9, <2>1 DEF XpFollows, Before, XpT
  <2>3. Moved(Root, i) = MovedIn(o, y.c)  BY <1>1, <2>1, <2>2 DEF Moved, MovedIn
  <2>4. PICK z \in CT(i) : z = MovedIn(o, y.c)
    <3>1. PICK f \in CT(i) : f = y.c  BY <2>2
    <3> QED  BY <1>1, <3>1, MovedType
  <2>5. PICK g \in BOOLEAN : g <=> (z.bad \/ errexe[Root] \/ i >= k)  BY DEF CT
  <2>6. (z.bad \/ errexe[Root] \/ i >= k) = g  BY <2>5
  <2>7. xp'[i] = [y EXCEPT !.c = [z EXCEPT !.bad = g]]
    <3>1. xp'[i] = [xp[i] EXCEPT !.c =
                      [Moved(Root, i) EXCEPT !.bad = @ \/ errexe[Root] \/ i >= k]]
      BY <1>1, <1>2, <1>4, <1>9
    <3> QED  BY <2>1, <2>3, <2>4, <2>6, <3>1
  <2>8. [z EXCEPT !.bad = g] \in CT(i)  BY DEF CT
  <2>9. xp'[i] \in XpT(i) /\ xp'[i].bc = o.bc /\ xp'[i].old = o.old
        /\ xp'[i].c = [z EXCEPT !.bad = g]
    BY <2>2, <2>7, <2>8 DEF XpT
  <2>10. ASSUME ~e PROVE [z EXCEPT !.bad = g] = z
    <3>1. ~errexe[Root] /\ ~(k <= u.ns)  BY <1>7, <2>10
    <3>2. i \in 1 .. u.ns  BY <1>2 DEF Comps
    <3>3. ~(i >= k)  BY <1>5, <3>1, <3>2
    <3>4. z.bad \in BOOLEAN  BY DEF CT
    <3>5. g = z.bad  BY <2>5, <3>1, <3>3, <3>4
    <3> QED  BY <3>5 DEF CT
  <2> QED  BY <2>2, <2>4, <2>9, <2>10
<1>10. ASSUME ~u.solute, NEW i \in MappedIn(u, Root) PROVE xp'[i] \in XpT(i)
  BY <1>1, <1>2, <1>4, <1>10
<1>11. errexe' = [errexe EXCEPT ![Root] = errexe'[Root]]  BY <1>8
<1> QED  BY <1>6, <1>8, <1>9, <1>10, <1>11

\* The root's run_transport; its own failure ends the loop before anything is gathered.
LEMMA RunTransportInv ==
  ASSUME Inv, RunTransport
  PROVE  Inv'
<1>1. PICK u, a, n, o, d : Here(u, a, n, o, d)  BY Zenon DEF Here
<1>2. RootHas(u, a, n, o, d)  BY <1>1, RootHere
<1>3. /\ u \in Setups /\ setup = u /\ n \in 0 .. MaxSteps /\ o \in OwnT
      /\ d \in DataT(u) /\ a = at[Root] /\ RootFactsAt(u, a, n, o, d, xp)
  BY <1>2, Zenon DEF RootHas
<1>4. PICK b, xs : b = (IF errexe'[Root] \/ errexi THEN "exit" ELSE "sbc") /\ xs = <<>>
  OBVIOUS
<1>5. /\ a = "transport" /\ at' = [at EXCEPT ![Root] = b] /\ Transports(Root)
      /\ Broadcast("run_transport", xs)
      /\ setup' = setup /\ up' = up /\ itime' = itime /\ own' = own /\ c' = c
      /\ errexi' = errexi
  BY <1>3, <1>4 DEF RunTransport, Goes
<1>6. /\ xp' = [i \in Component |-> IF i \in Mapped(Root) THEN xp'[i] ELSE xp[i]]
      /\ errexe' = [errexe EXCEPT ![Root] = errexe'[Root]] /\ errexe'[Root] \in BOOLEAN
      /\ \A i \in MappedIn(u, Root) : xp'[i] \in XpT(i)
      /\ u.solute => \A i \in MappedIn(u, Root) : xp'[i].bc = o.bc /\ xp'[i].old = o.old
      /\ u.solute /\ ~errexe'[Root] =>
           \A i \in MappedIn(u, Root) : xp'[i].c = MovedIn(o, d[i])
  <2>1. Types  BY DEF Inv
  <2> QED  BY <1>2, <1>5, <2>1, RootTransports
<1>7. xs \in Seq(Message) /\ "run_transport" \in Routine
  <2>1. <<>> \in Seq(Message)  BY EmptySeq, Zenon
  <2> QED  BY <1>4, <2>1 DEF Routine
<1>8. b \in {"sbc", "exit"} /\ b \in RootAt /\ (b = "sbc" => ~errexe'[Root])
  BY <1>4 DEF RootAt
<1>9. RootMoves(b, n, o)
  <2>1. itime' = [itime EXCEPT ![Root] = n] /\ own' = [own EXCEPT ![Root] = o]
    BY <1>2, <1>5, Zenon DEF RootHas
  <2> QED  BY <1>5, <1>6, <2>1, Zenon DEF RootMoves
<1>10. RootTyped(u, b, n, o, d)
  <2>1. errexi' \in BOOLEAN  BY <1>2, <1>5 DEF RootHas
  <2> QED  BY <1>3, <1>6, <1>8, <2>1 DEF RootTyped
<1>11. RootFactsAt(u, b, n, o, d, xp')
  <2>1. u.solute => XpFollows(u, Root, xp', b, o, d)
    BY <1>6, <1>8 DEF XpFollows, Before, Behind
  <2> QED  BY <1>3, <1>5, <1>8, <2>1 DEF RootFactsAt, RootAt, During, Behind, Ends, Over
<1>12. Obeyed(u, a, n, o, d, b, n, o, "run_transport", xs)
  <2>1. ASSUME NEW v, NEW t, Following(u, v, t, "transport", n, o, d)
        PROVE  Obeys(u, v, "run_transport", xs, <<>>, t, b, n, o, d)
    BY <1>4, <1>8, <2>1, MovesAnswered
  <2>2. \A v : Sends(u, v, "transport", o, d) = Sends(u, v, b, o, d)  BY <1>8, NoSends
  <2> QED  BY <1>5, <2>1, <2>2, Zenon DEF Obeyed
<1> QED
  <2>1. {a, b} \cap Over = {}  BY <1>5, <1>8 DEF Over
  <2>2. Broadcasts(u, a, n, o, d, b, n, o, "run_transport", xs)
    BY <1>1, <1>5, <1>7, <1>9, <1>10, <1>11, <2>1 DEF Broadcasts
  <2> QED  BY <1>12, <2>2, BroadcastInv

\* The values of a block of boundary data.
BlockValue(o, rd, y, n) ==
  CASE n = "thru" -> 0 [] n = "rd" -> (IF rd THEN 1 ELSE 0)
    [] n = "mfsbc" -> o.frac [] n = "deltim" -> o.deltim [] OTHER -> y
BlockMessages(o, rd, y) == IF rd THEN NewBlockMessages(o, y) ELSE OldBlockMessages(o, y)

\* A block of boundary data is a sequence of messages.
LEMMA BlockMessagesType ==
  \A o \in OwnT, y \in Nat, rd \in BOOLEAN : BlockMessages(o, rd, y) \in Seq(Message)
<1> DEFINE M == Message
<1> SUFFICES ASSUME NEW o \in OwnT, NEW y \in Nat, NEW rd \in BOOLEAN
             PROVE  BlockMessages(o, rd, y) \in Seq(M)
  OBVIOUS
<1>1. /\ "thru" \in Name /\ "rd" \in Name /\ "bc" \in Name /\ "deltim" \in Name
      /\ "timchg" \in Name /\ "mfsbc" \in Name /\ o.deltim \in Nat /\ o.frac \in Nat
  BY DEF Name, OwnT, Fields
<1>2. /\ Msg("thru", 0) \in M /\ Msg("rd", 0) \in M /\ Msg("rd", 1) \in M /\ Msg("bc", y) \in M
      /\ Msg("deltim", o.deltim) \in M /\ Msg("timchg", y) \in M
      /\ Msg("mfsbc", o.frac) \in M
  <2>1. 0 \in Nat /\ 1 \in Nat  OBVIOUS
  <2> QED  BY <1>1, <2>1, Letter
<1> HIDE DEF M
<1>3. NewBlockMessages(o, y) \in Seq(M) /\ OldBlockMessages(o, y) \in Seq(M)
  BY <1>2 DEF NewBlockMessages, OldBlockMessages
<1> QED  BY <1>3 DEF BlockMessages

\* What the root and every worker make of a block.
BlockOwn(o, rd, y) == IF rd THEN [o EXCEPT !.timchg = y, !.bc = y] ELSE [o EXCEPT !.timchg = y]
BlockLetters(u, w, rd, y) == When(rd, SameLetters(u, w, "bc", y))

\* What SendBlock does, with the setup and the root's data named.
LEMMA BlockSent ==
  ASSUME NEW u \in Setups, setup = u, NEW o, own[Root] = o, o \in OwnT, Root \in Rank, Types,
         NEW rd \in BOOLEAN, SendBlock(rd), NEW y, y = o.timchg + 1
  PROVE  /\ y \in Nat /\ own' = [own EXCEPT ![Root] = BlockOwn(o, rd, y)]
         /\ xp' = [i \in Component |->
                     IF rd /\ i \in Mapped(Root) THEN [xp[i] EXCEPT !.bc = y] ELSE xp[i]]
         /\ Tell("init3_distribute", BlockMessages(o, rd, y),
                 [w \in Worker |-> BlockLetters(u, w, rd, y)])
<1>1. y \in Nat  BY DEF OwnT, Fields
<1>2. own' = [own EXCEPT ![Root].timchg = own[Root].timchg + 1,
                         ![Root].bc = IF rd THEN own[Root].timchg + 1 ELSE @]
  BY DEF SendBlock
<1>3. own' = [own EXCEPT ![Root] = BlockOwn(o, rd, y)]
  <2>1. CASE rd  BY <1>2, <2>1 DEF BlockOwn, Types, OwnT
  <2>2. CASE ~rd
    <3>1. own' = [own EXCEPT ![Root] =
                    [[own[Root] EXCEPT !.timchg = own[Root].timchg + 1] EXCEPT !.bc = @]]
      BY <1>2, <2>2 DEF Types
    <3>2. [[o EXCEPT !.timchg = y] EXCEPT !.bc = @] = [o EXCEPT !.timchg = y]
      BY DEF OwnT, Fields
    <3> QED  BY <2>2, <3>1, <3>2 DEF BlockOwn
  <2> QED  BY <2>1, <2>2
<1>4. xp' = [i \in Component |->
               IF rd /\ i \in Mapped(Root) THEN [xp[i] EXCEPT !.bc = y] ELSE xp[i]]
  BY DEF SendBlock
<1>5. Tell("init3_distribute",
           [k \in DOMAIN BlockNames(FALSE, rd) |->
              Msg(BlockNames(FALSE, rd)[k], BlockValue(o, rd, y, BlockNames(FALSE, rd)[k]))],
           [w \in Worker |-> When(rd, Letters(w, "bc", [i \in Component |-> y]))])
  BY DEF SendBlock, BlockValue
<1>6. [k \in DOMAIN BlockNames(FALSE, rd) |->
         Msg(BlockNames(FALSE, rd)[k], BlockValue(o, rd, y, BlockNames(FALSE, rd)[k]))]
        = BlockMessages(o, rd, y)
  <2>1. CASE rd
    <3> DEFINE names == <<"thru", "rd", "bc", "mfsbc", "deltim", "timchg">>
    <3>1. BlockNames(FALSE, rd) = names  BY <2>1, BlockNamesAre
    <3>2. /\ BlockValue(o, rd, y, "thru") = 0 /\ BlockValue(o, rd, y, "rd") = 1
          /\ BlockValue(o, rd, y, "bc") = y /\ BlockValue(o, rd, y, "deltim") = o.deltim
          /\ BlockValue(o, rd, y, "timchg") = y /\ BlockValue(o, rd, y, "mfsbc") = o.frac
      BY <2>1 DEF BlockValue
    <3>3. [k \in DOMAIN names |-> Msg(names[k], BlockValue(o, rd, y, names[k]))]
            = NewBlockMessages(o, y)
      BY <3>2 DEF NewBlockMessages
    <3> HIDE DEF names
    <3> QED  BY <2>1, <3>1, <3>3 DEF BlockMessages
  <2>2. CASE ~rd
    <3> DEFINE names == <<"thru", "rd", "mfsbc", "deltim", "timchg">>
    <3>1. BlockNames(FALSE, rd) = names
      <4>1. rd = FALSE  BY <2>2
      <4> QED  BY <4>1, BlockNamesAre
    <3>2. /\ BlockValue(o, rd, y, "thru") = 0 /\ BlockValue(o, rd, y, "rd") = 0
          /\ BlockValue(o, rd, y, "deltim") = o.deltim
          /\ BlockValue(o, rd, y, "timchg") = y /\ BlockValue(o, rd, y, "mfsbc") = o.frac
      BY <2>2 DEF BlockValue
    <3>3. [k \in DOMAIN names |-> Msg(names[k], BlockValue(o, rd, y, names[k]))]
            = OldBlockMessages(o, y)
      BY <3>2 DEF OldBlockMessages
    <3> HIDE DEF names
    <3> QED  BY <2>2, <3>1, <3>3 DEF BlockMessages
  <2> QED  BY <2>1, <2>2
<1>7. ASSUME NEW w PROVE Letters(w, "bc", [i \in Component |-> y]) = SameLetters(u, w, "bc", y)
  <2>0. PICK f : f = [i \in Component |-> y]  OBVIOUS
  <2>1. Letters(w, "bc", f) = LettersIn(u, w, "bc", f) /\ Component = Comps(u)  BY InForce
  <2>2. \A k \in 1 .. Count(u, w) : LocalsIn(u, w)[k] \in Comps(u)  BY LocalsFacts
  <2>3. \A k \in 1 .. Count(u, w) : f[LocalsIn(u, w)[k]] = y  BY <2>0, <2>1, <2>2
  <2> QED  BY <2>0, <2>1, <2>3 DEF LettersIn, SameLetters
<1>8. [w \in Worker |-> When(rd, Letters(w, "bc", [i \in Component |-> y]))]
        = [w \in Worker |-> BlockLetters(u, w, rd, y)]
  BY <1>7, Zenon DEF BlockLetters
<1>9. Tell("init3_distribute", BlockMessages(o, rd, y),
                 [w \in Worker |-> BlockLetters(u, w, rd, y)])
  BY <1>5, <1>6, <1>8, Zenon
<1> QED  BY <1>1, <1>3, <1>4, <1>9

\* The root reads a block at a and comes to b.
ReadsBlock(u, a, n, o, d, b, rd) ==
  /\ Inv /\ Here(u, a, n, o, d) /\ at' = [at EXCEPT ![Root] = b] /\ SendBlock(rd)
  /\ setup' = setup /\ up' = up /\ itime' = itime /\ c' = c
  /\ errexe' = errexe /\ errexi' \in BOOLEAN
  /\ \/ a = "start" /\ b = "flow0" /\ rd
     \/ a = "read" /\ b = "timestep" /\ rd /\ n < MaxSteps
     \/ a = "read" /\ b = "read"

\* A block that is read and distributed keeps the invariant.
LEMMA BlockInv ==
  ASSUME NEW u, NEW a, NEW n, NEW o, NEW d, NEW b, NEW rd \in BOOLEAN,
         ReadsBlock(u, a, n, o, d, b, rd)
  PROVE  Inv'
<1>1. /\ Inv /\ Here(u, a, n, o, d) /\ at' = [at EXCEPT ![Root] = b] /\ SendBlock(rd)
      /\ setup' = setup /\ up' = up /\ itime' = itime /\ c' = c
      /\ errexe' = errexe /\ errexi' \in BOOLEAN
  BY DEF ReadsBlock
<1>2. \/ a = "start" /\ b = "flow0" /\ rd
      \/ a = "read" /\ b = "timestep" /\ rd /\ n < MaxSteps
      \/ a = "read" /\ b = "read"
  BY DEF ReadsBlock
<1>3. RootHas(u, a, n, o, d)  BY <1>1, RootHere
<1>4. /\ u \in Setups /\ setup = u /\ n \in Nat /\ n \in 0 .. MaxSteps /\ o \in OwnT
      /\ d \in DataT(u) /\ c = d /\ own[Root] = o /\ Root \in Rank
      /\ RootFactsAt(u, a, n, o, d, xp)
  BY <1>3, Zenon DEF RootHas
<1>5. PICK y : y = o.timchg + 1  OBVIOUS
<1>6. /\ y \in Nat /\ own' = [own EXCEPT ![Root] = BlockOwn(o, rd, y)]
      /\ xp' = [i \in Component |->
                  IF rd /\ i \in Mapped(Root) THEN [xp[i] EXCEPT !.bc = y] ELSE xp[i]]
      /\ Tell("init3_distribute", BlockMessages(o, rd, y),
              [w \in Worker |-> BlockLetters(u, w, rd, y)])
  <2>1. Types  BY <1>1 DEF Inv
  <2> QED  BY <1>1, <1>4, <1>5, <2>1, BlockSent
<1>7. PICK o2, xs, L : /\ o2 = BlockOwn(o, rd, y) /\ xs = BlockMessages(o, rd, y)
                       /\ L = [w \in Worker |-> BlockLetters(u, w, rd, y)]
  OBVIOUS
<1>8. Tell("init3_distribute", xs, L) /\ own' = [own EXCEPT ![Root] = o2]  BY <1>6, <1>7
<1>9. /\ o2 \in OwnT /\ o2.deltim = o.deltim /\ o2.old = o.old
      /\ o2.bc = IF rd THEN y ELSE o.bc
  BY <1>4, <1>6, <1>7 DEF BlockOwn, OwnT, Fields
<1>10. Sendable(u, "init3_distribute", xs, L)
  <2>1. xs \in Seq(Message)  BY <1>4, <1>6, <1>7, BlockMessagesType
  <2>2. ASSUME NEW w \in Worker PROVE L[w] \in Seq(Message)
    <3>1. PICK v : v = w  OBVIOUS
    <3>2. "bc" \in Name  BY DEF Name
    <3>3. SameLetters(u, v, "bc", y) \in Seq(Message)  BY <1>4, <1>6, <3>2, LettersType
    <3>4. BlockLetters(u, v, rd, y) \in Seq(Message)  BY <3>3, SomeOf DEF BlockLetters
    <3> QED  BY <1>7, <3>1, <3>4
  <2>3. "init3_distribute" \in Routine  BY DEF Routine
  <2> QED  BY <2>1, <2>2, <2>3 DEF Sendable
<1>11. \A i \in MappedIn(u, Root) :
         xp'[i] = (IF rd THEN [xp[i] EXCEPT !.bc = y] ELSE xp[i]) /\ xp[i] \in XpT(i)
  BY <1>3, <1>6 DEF RootHas
<1>12. b \in RootAt /\ {a, b} \cap Over = {}  BY <1>2 DEF RootAt, Over
<1>13. RootMoves(b, n, o2)
  <2>1. xp' = [i \in Component |-> IF i \in Mapped(Root) THEN xp'[i] ELSE xp[i]]
    BY <1>6
  <2>2. errexe' = [errexe EXCEPT ![Root] = errexe'[Root]]  BY <1>1, <1>3, Zenon DEF RootHas
  <2>3. itime' = [itime EXCEPT ![Root] = n]  BY <1>1, <1>3, Zenon DEF RootHas
  <2> QED  BY <1>1, <1>8, <2>1, <2>2, <2>3, Zenon DEF RootMoves
<1>14. RootTyped(u, b, n, o2, d)
  <2>1. \A i \in MappedIn(u, Root) : xp'[i] \in XpT(i)  BY <1>6, <1>11 DEF XpT
  <2>2. errexe'[Root] \in BOOLEAN  BY <1>1, <1>3 DEF RootHas
  <2> QED  BY <1>1, <1>4, <1>9, <1>12, <2>1, <2>2 DEF RootTyped
<1>15. RootFactsAt(u, b, n, o2, d, xp')
  <2>1. ASSUME u.solute PROVE XpFollows(u, Root, xp', b, o2, d)
    <3>1. XpFollows(u, Root, xp, a, o, d)  BY <1>4, <2>1 DEF RootFactsAt
    <3>2. ASSUME NEW i \in MappedIn(u, Root)
          PROVE  xp'[i].bc = o2.bc /\ xp'[i].old = o2.old /\ xp'[i].c = xp[i].c
      <4>1. PICK e \in XpT(i) : e = xp[i]  BY <1>11
      <4>2. e.bc = o.bc /\ e.old = o.old  BY <3>1, <4>1 DEF XpFollows
      <4> QED  BY <1>9, <1>11, <4>1, <4>2 DEF XpT
    <3> QED  BY <1>2, <3>1, <3>2 DEF XpFollows, Before, Behind
  <2> QED  BY <1>2, <1>4, <1>9, <2>1 DEF RootFactsAt, RootAt, During, Behind, Ends, Over
<1>16. ASSUME NEW w \in Worker
       PROVE  Callable(u, w, "init3_distribute", xs, L[w], a, n, o, d, b, n, o2, d)
  <2>1. PICK v, l : v = w /\ l = BlockLetters(u, v, rd, y)  OBVIOUS
  <2>2. ASSUME NEW t, Following(u, v, t, a, n, o, d)
        PROVE  Obeys(u, v, "init3_distribute", xs, l, t, b, n, o2, d)
    <3>1. CASE rd
      <4>1. /\ xs = NewBlockMessages(o, y) /\ l = SameLetters(u, v, "bc", y)
            /\ o2 = [o EXCEPT !.timchg = y, !.bc = y]
        BY <1>7, <2>1, <3>1 DEF BlockMessages, BlockLetters, BlockOwn, When
      <4>2. Obeys(u, v, "init3_distribute", NewBlockMessages(o, y), SameLetters(u, v, "bc", y),
                  t, b, n, [o EXCEPT !.timchg = y, !.bc = y], d)
        BY <1>2, <1>6, <2>2, NewBlockAnswered
      <4> QED  BY <4>1, <4>2
    <3>2. CASE ~rd
      <4>1. /\ xs = OldBlockMessages(o, y) /\ l = <<>> /\ o2 = [o EXCEPT !.timchg = y]
            /\ a = "read" /\ b = "read"
        BY <1>2, <1>7, <2>1, <3>2 DEF BlockMessages, BlockLetters, BlockOwn, When
      <4>2. Obeys(u, v, "init3_distribute", OldBlockMessages(o, y), <<>>, t, "read", n,
                  [o EXCEPT !.timchg = y], d)
        BY <1>6, <2>2, <4>1, OldBlockAnswered
      <4> QED  BY <4>1, <4>2
    <3> QED  BY <3>1, <3>2
  <2>3. Sends(u, v, a, o, d) = Sends(u, v, b, o2, d)
    <3>1. Sends(u, v, a, o, d) = <<>>  BY <1>2 DEF Sends
    <3>2. Sends(u, v, b, o2, d) = <<>>  BY <1>2 DEF Sends
    <3> QED  BY <3>1, <3>2, Zenon
  <2>4. Callable(u, v, "init3_distribute", xs, l, a, n, o, d, b, n, o2, d)
    BY <2>2, <2>3 DEF Callable
  <2> QED  BY <1>7, <2>1, <2>4
<1> QED
  <2>1. Calls(u, a, n, o, d, b, n, o2, d, "init3_distribute", xs, L)
    BY <1>1, <1>4, <1>8, <1>10, <1>12, <1>13, <1>14, <1>15, <1>16 DEF Calls
  <2> QED  BY <2>1, ToldInv

\* The three actions that read a block.
LEMMA BlocksInv ==
  ASSUME Inv, SteadyFlow \/ ReadBlock \/ ReadBlockWrong
  PROVE  Inv'
<1>1. PICK u, a, n, o, d : Here(u, a, n, o, d)  BY Zenon DEF Here
<1>2. /\ at[Root] = a /\ itime[Root] = n /\ own[Root] = o /\ errexi \in BOOLEAN
  BY <1>1 DEF Here, Inv, Types
<1>3. CASE SteadyFlow
  <2>1. ReadsBlock(u, a, n, o, d, "flow0", TRUE)
    BY <1>1, <1>2, <1>3 DEF SteadyFlow, Goes, errors, ReadsBlock
  <2> QED  BY <2>1, BlockInv
<1>4. CASE ReadBlock
  <2>1. PICK rd \in {own[Root].timchg = 0, TRUE} : SendBlock(rd)  BY <1>4 DEF ReadBlock
  <2>2. rd \in BOOLEAN  OBVIOUS
  <2>3. ReadsBlock(u, a, n, o, d, "read", rd)
    BY <1>1, <1>2, <1>4, <2>1 DEF ReadBlock, Goes, errors, ReadsBlock
  <2> QED  BY <2>2, <2>3, BlockInv
<1>5. CASE ReadBlockWrong
  <2>1. ReadsBlock(u, a, n, o, d, "timestep", TRUE)
    BY <1>1, <1>2, <1>5 DEF ReadBlockWrong, Goes, ReadsBlock
  <2> QED  BY <2>1, BlockInv
<1> QED  BY <1>3, <1>4, <1>5

----------------------------------------------------------------------------
(* The steps in which the root calls nobody.                               *)

\* The root goes on, and the workers come where it counts on them as before.
Quietly(u, a, n, o, d, b, o2, d2) ==
  /\ Inv /\ Here(u, a, n, o, d) /\ RootMoves(b, n, o2) /\ c' = d2
  /\ "stopped" \notin {a, b}
  /\ world' = world /\ xpcomm' = xpcomm /\ mail' = mail /\ up' = up
  /\ RootTyped(u, b, n, o2, d2) /\ RootFactsAt(u, b, n, o2, d2, xp')
  /\ \A w \in Worker : \A t \in StateT(u, w) :
       Follows(u, w, t, a, n, o, d) => Follows(u, w, t, b, n, o2, d2)

\* An action of the root that sends nothing keeps the invariant.
LEMMA QuietInv ==
  ASSUME NEW u, NEW a, NEW n, NEW o, NEW d, NEW b, NEW o2, NEW d2,
         Quietly(u, a, n, o, d, b, o2, d2)
  PROVE  Inv'
<1>1. /\ Inv /\ setup = u /\ at[Root] = a /\ itime[Root] = n /\ own[Root] = o /\ c = d
      /\ RootMoves(b, n, o2) /\ c' = d2
      /\ world' = world /\ xpcomm' = xpcomm /\ mail' = mail /\ up' = up
      /\ RootTyped(u, b, n, o2, d2) /\ RootFactsAt(u, b, n, o2, d2, xp')
      /\ "stopped" \notin {a, b}
  BY DEF Quietly, Here
<1>2. \A w \in Worker : \A t \in StateT(u, w) :
        Follows(u, w, t, a, n, o, d) => Follows(u, w, t, b, n, o2, d2)
  BY DEF Quietly
<1>3. Types /\ WorkersFollow  BY <1>1 DEF Inv
<1>4. QueuesTyped'
  <2>1. Worker' = Worker  BY <1>1 DEF RootMoves, Rank, Worker
  <2> QED  BY <1>1, <1>3, <2>1 DEF Types, QueuesTyped
<1>5. ASSUME NEW w \in Worker PROVE Sound(u, w, State(w)', b, n, o2, d2)
  <2>1. PICK v, s : v = w /\ s = State(w)  OBVIOUS
  <2>2. State(w)' = s
    <3>1. Core(w)' = Core(w)  BY <1>1, WorkersStay
    <3> QED  BY <1>1, <2>1, <3>1 DEF State
  <2>3. Sound(u, v, s, a, n, o, d)  BY <1>1, <1>3, <2>1 DEF WorkersFollow
  <2>4. Sound(u, v, s, b, n, o2, d2)
    <3>1. PICK t \in StateT(u, v) : Comes(u, v, s, t) /\ Idle(t) /\ Follows(u, v, t, a, n, o, d)
      BY <1>1, <2>3, RestsIdle DEF Sound
    <3>2. Follows(u, v, t, b, n, o2, d2)  BY <1>2, <2>1, <3>1
    <3> QED  BY <1>1, <3>1, <3>2, RestsIdle DEF Sound
  <2> QED  BY <2>1, <2>2, <2>4
<1>6. \A w \in Worker : Sound(u, w, State(w)', b, n, o2, d2)  BY <1>5
<1> QED  BY <1>1, <1>4, <1>6, RootInv

\* The end of the reading of blocks.
LEMMA BlocksReadInv ==
  ASSUME Inv, BlocksRead
  PROVE  Inv'
<1>1. PICK u, a, n, o, d : Here(u, a, n, o, d)  BY Zenon DEF Here
<1>2. RootHas(u, a, n, o, d)  BY <1>1, RootHere
<1>3. /\ u \in Setups /\ setup = u /\ a = at[Root] /\ n = itime[Root]
      /\ RootFactsAt(u, a, n, o, d, xp)
  BY <1>2, Zenon DEF RootHas
<1>4. /\ a = "read" /\ SameRoot("timestep") /\ c' = c /\ n < MaxSteps
      /\ world' = world /\ xpcomm' = xpcomm /\ mail' = mail /\ up' = up
  BY <1>3 DEF BlocksRead, Goes, SameRoot, errors, down
<1>5. "timestep" \in RootAt  BY DEF RootAt
<1>6. RootMoves("timestep", n, o) /\ RootTyped(u, "timestep", n, o, d)
  BY <1>2, <1>4, <1>5, SameRootMoves
<1>7. RootFactsAt(u, "timestep", n, o, d, xp')
  <2>1. xp' = xp  BY <1>4 DEF SameRoot
  <2> QED
    BY <1>3, <1>4, <2>1 DEF RootFactsAt, RootAt, During, Behind, XpFollows, Before, Ends, Over
<1>8. ASSUME NEW w \in Worker, NEW t \in StateT(u, w), Follows(u, w, t, "read", n, o, d)
      PROVE  Follows(u, w, t, "timestep", n, o, d)
  BY <1>8 DEF Follows, Sends, Old, XpFollows, Before, Behind, Ends, Over
<1> QED
  <2>1. c' = d  BY <1>1, <1>4 DEF Here
  <2>2. Quietly(u, a, n, o, d, "timestep", o, d)
    BY <1>1, <1>4, <1>6, <1>7, <1>8, <2>1 DEF Quietly
  <2> QED  BY <2>2, QuietInv

\* A failure before the step is counted.
LEMMA FlowFailsInv ==
  ASSUME Inv, FlowFails
  PROVE  Inv'
<1>1. PICK u, a, n, o, d : Here(u, a, n, o, d)  BY Zenon DEF Here
<1>2. RootHas(u, a, n, o, d)  BY <1>1, RootHere
<1>3. /\ u \in Setups /\ setup = u /\ a = at[Root] /\ n = itime[Root] /\ Root \in Rank
      /\ n \in 0 .. MaxSteps /\ o \in OwnT /\ d \in DataT(u)
      /\ RootFactsAt(u, a, n, o, d, xp) /\ errexi \in BOOLEAN
      /\ itime = [itime EXCEPT ![Root] = n] /\ own = [own EXCEPT ![Root] = o]
      /\ xp = [i \in Component |-> IF i \in Mapped(Root) THEN xp[i] ELSE xp[i]]
  BY <1>2, Zenon DEF RootHas
<1>4. /\ a = "timestep" /\ at' = [at EXCEPT ![Root] = "exit"] /\ c' = c /\ setup' = setup
      /\ world' = world /\ xpcomm' = xpcomm /\ mail' = mail /\ up' = up
      /\ itime' = itime /\ own' = own /\ xp' = xp /\ errexi' = errexi
      /\ errexe' = [errexe EXCEPT ![Root] = TRUE]
  BY <1>3 DEF FlowFails, Goes, down
<1>5. errexe'[Root] = TRUE  BY <1>3, <1>4 DEF Inv, Types
<1>6. RootMoves("exit", n, o)
  <2>1. xp' = [i \in Component |-> IF i \in Mapped(Root) THEN xp'[i] ELSE xp[i]]
    BY <1>3, <1>4, Zenon
  <2>2. errexe' = [errexe EXCEPT ![Root] = errexe'[Root]]  BY <1>4, <1>5
  <2>3. itime' = [itime EXCEPT ![Root] = n] /\ own' = [own EXCEPT ![Root] = o]
    BY <1>3, <1>4, Zenon
  <2> QED  BY <1>4, <2>1, <2>2, <2>3, Zenon DEF RootMoves
<1>7. RootTyped(u, "exit", n, o, d)
  <2>1. \A i \in MappedIn(u, Root) : xp'[i] \in XpT(i)  BY <1>2, <1>4 DEF RootHas
  <2>2. "exit" \in RootAt  BY DEF RootAt
  <2> QED  BY <1>3, <1>4, <1>5, <2>1, <2>2 DEF RootTyped
<1>8. RootFactsAt(u, "exit", n, o, d, xp')
  BY <1>3, <1>4 DEF RootFactsAt, RootAt, During, Behind, XpFollows, Before, Ends, Over
<1>9. ASSUME NEW w \in Worker, NEW t \in StateT(u, w), Follows(u, w, t, "timestep", n, o, d)
      PROVE  Follows(u, w, t, "exit", n, o, d)
  BY <1>9 DEF Follows, Sends, Old, XpFollows, Before, Behind, Ends, Over
<1> QED
  <2>1. c' = d  BY <1>1, <1>4 DEF Here
  <2>2. Quietly(u, a, n, o, d, "exit", o, d)
    BY <1>1, <1>4, <1>6, <1>7, <1>8, <1>9, <2>1 DEF Quietly
  <2> QED  BY <2>2, QuietInv

\* The reactions, which change the root's concentrations and times only.
LEMMA ReactInv ==
  ASSUME Inv, React
  PROVE  Inv'
<1>1. PICK u, a, n, o, d : Here(u, a, n, o, d)  BY Zenon DEF Here
<1>2. RootHas(u, a, n, o, d)  BY <1>1, RootHere
<1>3. /\ u \in Setups /\ setup = u /\ a = at[Root] /\ n = itime[Root] /\ Root \in Rank
      /\ n \in 0 .. MaxSteps /\ n \in Nat /\ o \in OwnT /\ d \in DataT(u) /\ own[Root] = o /\ c = d
      /\ RootFactsAt(u, a, n, o, d, xp)
      /\ errexe[Root] \in BOOLEAN /\ errexi \in BOOLEAN
      /\ errexe = [errexe EXCEPT ![Root] = errexe[Root]]
      /\ itime = [itime EXCEPT ![Root] = n]
      /\ xp = [i \in Component |-> IF i \in Mapped(Root) THEN xp[i] ELSE xp[i]]
  BY <1>2, Zenon DEF RootHas
<1>4. PICK ok \in BOOLEAN :
        /\ own' = [own EXCEPT ![Root] =
                     [own[Root] EXCEPT !.time = @+1,
                           !.p = IF setup.steady THEN @ ELSE itime[Root],
                           !.frac = IF setup.steady \/ ~setup.fresur \/ ~ok THEN @
                                    ELSE itime[Root]]]
        /\ errexe' = [errexe EXCEPT ![Root] = @ \/ ~ok]
  <2>1. setup.steady \in BOOLEAN  BY <1>3, Processes
  <2> QED  BY <2>1 DEF React
<1>0. PICK o2, e : /\ o2 = [o EXCEPT !.time = @+1,
                              !.p = IF u.steady THEN @ ELSE n,
                              !.frac = IF u.steady \/ ~u.fresur \/ ~ok THEN @ ELSE n]
                   /\ e = (errexe[Root] \/ ~ok)
  OBVIOUS
<1>5. /\ a = "gathered" /\ at' = [at EXCEPT ![Root] = "save"] /\ setup' = setup
      /\ world' = world /\ xpcomm' = xpcomm /\ mail' = mail /\ up' = up
      /\ itime' = itime /\ xp' = xp /\ errexi' = errexi
      /\ errexe' = [errexe EXCEPT ![Root] = e] /\ e \in BOOLEAN /\ errexe'[Root] = e
      /\ own' = [own EXCEPT ![Root] = o2]
      /\ c' = IF u.solute THEN [i \in Component |-> [c[i] EXCEPT !.reacted = @+1]] ELSE c
  <2>1. own' = [own EXCEPT ![Root] = o2]  BY <1>0, <1>3, <1>4
  <2>2. errexe' = [errexe EXCEPT ![Root] = e] /\ e \in BOOLEAN  BY <1>0, <1>3, <1>4
  <2>3. errexe'[Root] = e  BY <1>3, <2>2 DEF Inv, Types
  <2> QED  BY <1>3, <2>1, <2>2, <2>3 DEF React, Goes, down
<1>6. /\ o2 \in OwnT /\ o2.deltim = o.deltim /\ o2.bc = o.bc /\ o2.old = o.old
      /\ \A f \in Fields \ Old(u, "save") : o2[f] = o[f]
  <2>1. o2 \in OwnT
    <3>1. o.time + 1 \in Nat /\ o.p \in Nat /\ o.frac \in Nat  BY <1>3 DEF OwnT, Fields
    <3>2. PICK x \in Nat, y \in Nat, z \in Nat :
            /\ x = o.time + 1 /\ y = (IF u.steady THEN o.p ELSE n)
            /\ z = IF u.steady \/ ~u.fresur \/ ~ok THEN o.frac ELSE n
      BY <1>3, <3>1
    <3>3. o2 = [o EXCEPT !.time = x, !.p = y, !.frac = z]  BY <1>0, <1>3, <3>2 DEF OwnT, Fields
    <3> QED  BY <1>3, <3>3 DEF OwnT
  <2>2. o2.deltim = o.deltim /\ o2.bc = o.bc /\ o2.old = o.old  BY <1>0, <1>3 DEF OwnT, Fields
  <2>3. \A f \in Fields : f \notin {"time", "p", "frac"} => o2[f] = o[f]
    BY <1>0, <1>3 DEF OwnT, Fields
  <2>4. /\ (u.steady => o2.p = o.p)
        /\ (u.steady \/ ~u.fresur => o2.frac = o.frac)
    BY <1>0, <1>3 DEF OwnT, Fields
  <2>5. ASSUME NEW f \in Fields \ Old(u, "save") PROVE o2[f] = o[f]
    <3>1. f # "time"  BY DEF Old, Ends, Over
    <3>2. f = "p" => u.steady  BY DEF Old, Ends, Over
    <3>3. f = "frac" => u.steady \/ ~u.fresur  BY DEF Old, Ends, Over
    <3> QED  BY <2>3, <2>4, <3>1, <3>2, <3>3
  <2> QED  BY <2>1, <2>2, <2>5
<1>7. PICK d2 : d2 = IF u.solute THEN [i \in Comps(u) |-> [d[i] EXCEPT !.reacted = @+1]] ELSE d
  OBVIOUS
<1>8. c' = d2
  <2>1. Component = Comps(u)  BY <1>3, InForce
  <2> QED  BY <1>3, <1>5, <1>7, <2>1
<1>9. d2 \in DataT(u) /\ \A i \in Comps(u) : d2[i].moved = d[i].moved
  <2>1. ASSUME NEW i \in Comps(u), u.solute PROVE d2[i] \in CT(i) /\ d2[i].moved = d[i].moved
    <3>1. d2[i] = [d[i] EXCEPT !.reacted = @+1] /\ d[i] \in CT(i)  BY <1>3, <1>7, <2>1 DEF DataT
    <3> QED  BY <3>1 DEF CT
  <2>2. CASE u.solute
    <3>1. \A i \in Comps(u) : i \in Nat
      <4>1. u.ns \in Nat \ {0}  BY <1>3, Processes
      <4> QED  BY <4>1 DEF Comps
    <3>2. \A i \in Comps(u) : d2[i] \in AnyC  BY <2>1, <2>2, <3>1 DEF AnyC
    <3>3. d2 = [i \in Comps(u) |-> d2[i]]  BY <1>7, <2>2
    <3>4. d2 \in [Comps(u) -> AnyC]  BY <3>2, <3>3
    <3> QED  BY <2>1, <2>2, <3>4 DEF DataT
  <2>3. CASE ~u.solute  BY <1>3, <1>7, <2>3
  <2> QED  BY <2>2, <2>3
<1>10. RootMoves("save", n, o2)
  <2>1. xp' = [i \in Component |-> IF i \in Mapped(Root) THEN xp'[i] ELSE xp[i]]
    BY <1>3, <1>5, Zenon
  <2>2. errexe' = [errexe EXCEPT ![Root] = errexe'[Root]]  BY <1>5
  <2>3. itime' = [itime EXCEPT ![Root] = n]  BY <1>3, <1>5, Zenon
  <2> QED  BY <1>5, <2>1, <2>2, <2>3, Zenon DEF RootMoves
<1>11. RootTyped(u, "save", n, o2, d2)
  <2>1. \A i \in MappedIn(u, Root) : xp'[i] \in XpT(i)  BY <1>2, <1>5 DEF RootHas
  <2>2. "save" \in RootAt  BY DEF RootAt
  <2> QED  BY <1>3, <1>5, <1>6, <1>9, <2>1, <2>2 DEF RootTyped
<1>12. RootFactsAt(u, "save", n, o2, d2, xp')
  <2>1. u.solute => \A i \in Comps(u) : d2[i].moved = n
    BY <1>3, <1>5, <1>9 DEF RootFactsAt, RootAt, During, Behind, Ends, Over
  <2>2. u.solute => XpFollows(u, Root, xp', "save", o2, d2)
    <3>1. u.solute => XpFollows(u, Root, xp, "gathered", o, d)  BY <1>3, <1>5 DEF RootFactsAt
    <3> QED  BY <1>5, <1>6, <3>1 DEF XpFollows, Before, Behind
  <2>3. "save" \notin During \cup {"gathered"}  BY DEF During, Behind
  <2> QED  BY <2>1, <2>2, <2>3 DEF RootFactsAt
<1>13. ASSUME NEW w \in Worker, NEW t \in StateT(u, w), Follows(u, w, t, "gathered", n, o, d)
       PROVE  Follows(u, w, t, "save", n, o2, d2)
  <2>1. t.core.at = "loop" /\ t.up = <<>> /\ (~InGroupIn(u, w) => t.core.itime = 0)
    BY <1>13 DEF Follows, Sends
  <2>2. ASSUME InGroupIn(u, w)
        PROVE  /\ t.core.itime = n
               /\ \A f \in Fields : t.core.own[f] = o[f]
               /\ XpFollows(u, w, t.core.xp, "gathered", o, d)
    BY <1>13, <2>2 DEF Follows, Old, Ends, Over
  <2>3. ASSUME InGroupIn(u, w) PROVE XpFollows(u, w, t.core.xp, "save", o2, d2)
    BY <1>6, <2>2, <2>3 DEF XpFollows, Before, Behind
  <2>4. ASSUME InGroupIn(u, w) PROVE \A f \in Fields \ Old(u, "save") : t.core.own[f] = o2[f]
    BY <1>6, <2>2, <2>4
  <2>5. Sends(u, w, "save", o2, d2) = <<>>  BY DEF Sends
  <2> QED  BY <2>1, <2>2, <2>3, <2>4, <2>5 DEF Follows
<1> QED
  <2>2. Quietly(u, a, n, o, d, "save", o2, d2)
    BY <1>1, <1>5, <1>8, <1>10, <1>11, <1>12, <1>13 DEF Quietly
  <2> QED  BY <2>2, QuietInv

----------------------------------------------------------------------------
(* The letters of the workers.                                             *)

Waits == {"sbc wait", "c wait"}

\* While the root waits, it waits for one letter for each component of a worker.
LEMMA SendsAll ==
  ASSUME NEW u \in Setups, NEW w, NEW a \in Waits, NEW o, NEW d
  PROVE  Len(Sends(u, w, a, o, d)) = Count(u, w) /\ Count(u, w) \in Nat
<1>1. CASE a = "sbc wait"
  <2>1. Sends(u, w, a, o, d) = SameLetters(u, w, "sbc", 0)  BY <1>1 DEF Sends
  <2> QED  BY <2>1, LettersFacts
<1>2. CASE a = "c wait"
  <2>1. Sends(u, w, a, o, d) = LettersIn(u, w, "c", [i \in Comps(u) |-> MovedIn(o, d[i])])
    BY <1>2 DEF Sends
  <2> QED  BY <2>1, LettersFacts
<1> QED  BY <1>1, <1>2 DEF Waits

\* What has come is what the root counts on.
Came(u, w, s, q) ==
  /\ Count(u, w) \in 0 .. Len(s.up)
  /\ \A k \in 1 .. Count(u, w) : s.up[k] = q[k]

\* When as many letters have come as there are components, they are those the root waits for.
LEMMA LettersCame ==
  ASSUME NEW u \in Setups, NEW w, NEW s, NEW a \in Waits, NEW n, NEW o, NEW d,
         Sound(u, w, s, a, n, o, d), Len(s.up) >= Count(u, w)
  PROVE  Came(u, w, s, Sends(u, w, a, o, d))
<1>1. PICK t \in StateT(u, w) : Comes(u, w, s, t) /\ Idle(t) /\ Follows(u, w, t, a, n, o, d)
  BY RestsIdle DEF Sound, Waits
<1>2. s \in StateT(u, w) /\ Leads(s, t)  BY <1>1, ComesFirst
<1>3. t.up = Sends(u, w, a, o, d)  BY <1>1 DEF Follows
<1>4. Len(t.up) = Count(u, w) /\ Count(u, w) \in Nat  BY <1>3, SendsAll
<1>5. Len(s.up) \in Nat  BY <1>2, LenProperties DEF StateT
<1>6. Len(s.up) = Count(u, w)  BY <1>2, <1>4, <1>5 DEF Leads
<1>7. \A k \in 1 .. Count(u, w) : s.up[k] = t.up[k]  BY <1>2, <1>6 DEF Leads
<1>8. Count(u, w) \in 0 .. Len(s.up)  BY <1>4, <1>6
<1>9. PICK q : q = Sends(u, w, a, o, d)  OBVIOUS
<1>10. \A k \in 1 .. Count(u, w) : s.up[k] = q[k]  BY <1>3, <1>7, <1>9
<1>11. Came(u, w, s, q)  BY <1>8, <1>10 DEF Came
<1> QED  BY <1>9, <1>11

\* With its letters taken a worker comes to have none.
LEMMA Received0 ==
  ASSUME NEW u \in Setups, NEW w, NEW s, NEW a \in Waits, NEW n, NEW o, NEW d,
         Sound(u, w, s, a, n, o, d), Len(s.up) >= Count(u, w),
         NEW b, b # "stopped", NEW d2,
         \A t \in StateT(u, w) : Follows(u, w, t, a, n, o, d) =>
            \A v : v.core = t.core /\ v.up = <<>> => Follows(u, w, v, b, n, o, d2)
  PROVE  Sound(u, w, Drop(s, Count(u, w)), b, n, o, d2)
         /\ Drop(s, Count(u, w)) \in StateT(u, w)
<1>1. PICK t \in StateT(u, w) : Comes(u, w, s, t) /\ Idle(t) /\ Follows(u, w, t, a, n, o, d)
  BY RestsIdle DEF Sound, Waits
<1>2. PICK k : k = Count(u, w)  OBVIOUS
<1>3. k \in 0 .. Len(s.up)  BY <1>2, LettersCame DEF Came
<1>4. Comes(u, w, Drop(s, k), Drop(t, k)) /\ Drop(t, k) \in StateT(u, w)  BY <1>1, <1>3, ComesDrop
<1>5. PICK v : v = Drop(t, k)  OBVIOUS
<1>6. Len(t.up) = k /\ k \in Nat
  <2>1. t.up = Sends(u, w, a, o, d)  BY <1>1 DEF Follows
  <2> QED  BY <1>2, <2>1, SendsAll
<1>7. v.core = t.core /\ v.world = t.world /\ v.xpcomm = t.xpcomm /\ v.mail = t.mail
      /\ v.up = SubSeq(t.up, k+1, Len(t.up))
  BY <1>5 DEF Drop
<1>8. v.up = <<>>
  <2>1. v.up \in Seq(Message)  BY <1>4, <1>5 DEF StateT
  <2>2. v.up = SubSeq(t.up, k+1, k)  BY <1>6, <1>7
  <2> QED  BY <1>6, <2>2
<1>9. Idle(v)  BY <1>1, <1>7 DEF Idle
<1>10. Follows(u, w, v, b, n, o, d2)  BY <1>1, <1>7, <1>8
<1>11. PICK z : z = Drop(s, k)  OBVIOUS
<1>12. Comes(u, w, z, v) /\ v \in StateT(u, w)  BY <1>4, <1>5, <1>11
<1>13. Sound(u, w, z, b, n, o, d2)  BY <1>9, <1>10, <1>12, RestsIdle DEF Sound
<1>14. z \in StateT(u, w)  BY <1>12, ComesFirst
<1> QED  BY <1>2, <1>11, <1>13, <1>14

\* The root takes the letters it waits for.
Gathers(u, a, n, o, d, b, d2) ==
  /\ Inv /\ Here(u, a, n, o, d) /\ RootMoves(b, n, o) /\ c' = d2 /\ a \in Waits
  /\ b # "stopped"
  /\ world' = world /\ xpcomm' = xpcomm /\ mail' = mail /\ TakeLetters
  /\ \A w \in Worker : Len(up[w]) >= Count(u, w)
  /\ RootTyped(u, b, n, o, d2) /\ RootFactsAt(u, b, n, o, d2, xp')
  /\ \A w \in Worker : \A t \in StateT(u, w) : Follows(u, w, t, a, n, o, d) =>
       \A v : v.core = t.core /\ v.up = <<>> => Follows(u, w, v, b, n, o, d2)

\* Taking the letters keeps the invariant: nothing is left of them.
LEMMA GatherInv ==
  ASSUME NEW u, NEW a, NEW n, NEW o, NEW d, NEW b, NEW d2, Gathers(u, a, n, o, d, b, d2)
  PROVE  Inv'
<1>1. /\ Inv /\ setup = u /\ at[Root] = a /\ itime[Root] = n /\ own[Root] = o /\ c = d
      /\ RootMoves(b, n, o) /\ c' = d2 /\ a \in Waits /\ b # "stopped"
      /\ world' = world /\ xpcomm' = xpcomm /\ mail' = mail /\ TakeLetters
      /\ RootTyped(u, b, n, o, d2) /\ RootFactsAt(u, b, n, o, d2, xp')
  BY DEF Gathers, Here
<1>2. /\ \A w \in Worker : Len(up[w]) >= Count(u, w)
      /\ \A w \in Worker : \A t \in StateT(u, w) : Follows(u, w, t, a, n, o, d) =>
           \A v : v.core = t.core /\ v.up = <<>> => Follows(u, w, v, b, n, o, d2)
  BY Zenon DEF Gathers
<1>3. Types /\ WorkersFollow /\ u \in Setups  BY <1>1 DEF Inv, Types
<1>4. up' = [w \in Worker |-> SubSeq(up[w], Count(u, w)+1, Len(up[w]))]
  <2>1. \A w : Cardinality(Mapped(w)) = Count(u, w)  BY <1>1, InForce
  <2> QED  BY <1>1, <2>1 DEF TakeLetters
<1>5. ASSUME NEW w \in Worker
      PROVE  Sound(u, w, State(w)', b, n, o, d2) /\ State(w)'.up \in Seq(Message)
  <2>1. PICK v, s : v = w /\ s = State(w)  OBVIOUS
  <2>2. State(w)' = Drop(s, Count(u, v))
    <3>1. Core(w)' = Core(w)  BY <1>1, WorkersStay
    <3>2. up'[w] = SubSeq(up[w], Count(u, w)+1, Len(up[w]))  BY <1>4
    <3> QED  BY <1>1, <2>1, <3>1, <3>2 DEF State, Drop
  <2>3. Sound(u, v, s, a, n, o, d)  BY <1>1, <1>3, <2>1 DEF WorkersFollow
  <2>4. Len(s.up) >= Count(u, v)  BY <1>2, <2>1 DEF State
  <2>5. \A t \in StateT(u, v) : Follows(u, v, t, a, n, o, d) =>
          \A z : z.core = t.core /\ z.up = <<>> => Follows(u, v, z, b, n, o, d2)
    BY <1>2, <2>1
  <2>6. PICK z : z = Drop(s, Count(u, v))  OBVIOUS
  <2>7. Sound(u, v, Drop(s, Count(u, v)), b, n, o, d2) /\ Drop(s, Count(u, v)) \in StateT(u, v)
    BY <1>1, <1>3, <2>3, <2>4, <2>5, Received0
  <2>8. z.up \in Seq(Message)  BY <2>6, <2>7 DEF StateT
  <2> QED  BY <2>1, <2>2, <2>6, <2>7, <2>8
<1>6. QueuesTyped'
  <2>1. Worker' = Worker  BY <1>1 DEF RootMoves, Rank, Worker
  <2>2. \A w \in Worker : up'[w] \in Seq(Message)  BY <1>5 DEF State
  <2>3. up' \in [Worker -> Seq(Message)]
    <3>1. up' = [w \in Worker |-> up'[w]]  BY <1>4
    <3> QED  BY <2>2, <3>1
  <2> QED  BY <1>1, <1>3, <2>1, <2>3 DEF Types, QueuesTyped
<1>7. \A w \in Worker : Sound(u, w, State(w)', b, n, o, d2)  BY <1>5
<1> QED  BY <1>1, <1>6, <1>7, RootInv

\* The letters of sbc_gather.
LEMMA SbcReceiveInv ==
  ASSUME Inv, SbcReceive
  PROVE  Inv'
<1>1. PICK u, a, n, o, d : Here(u, a, n, o, d)  BY Zenon DEF Here
<1>2. RootHas(u, a, n, o, d)  BY <1>1, RootHere
<1>3. /\ u \in Setups /\ setup = u /\ a = at[Root] /\ RootFactsAt(u, a, n, o, d, xp)
  BY <1>2, Zenon DEF RootHas
<1>4. /\ a = "sbc wait" /\ SameRoot("gather") /\ c' = c /\ Arrived("sbc") /\ TakeLetters
      /\ world' = world /\ xpcomm' = xpcomm /\ mail' = mail
  BY <1>3 DEF SbcReceive, Goes, SameRoot, errors, down
<1>5. "gather" \in RootAt /\ a \in Waits  BY <1>4 DEF RootAt, Waits
<1>6. RootMoves("gather", n, o) /\ RootTyped(u, "gather", n, o, d)
  BY <1>2, <1>4, <1>5, SameRootMoves
<1>7. RootFactsAt(u, "gather", n, o, d, xp')
  <2>1. xp' = xp  BY <1>4 DEF SameRoot
  <2> QED
    BY <1>3, <1>4, <2>1 DEF RootFactsAt, RootAt, During, Behind, XpFollows, Before, Ends, Over
<1>8. \A w \in Worker : Len(up[w]) >= Count(u, w)
  <2>1. \A w : Cardinality(Mapped(w)) = Count(u, w)  BY <1>3, InForce
  <2> QED  BY <1>4, <2>1 DEF Arrived
<1>9. ASSUME NEW w \in Worker, NEW t \in StateT(u, w), Follows(u, w, t, "sbc wait", n, o, d),
             NEW v, v.core = t.core, v.up = <<>>
      PROVE  Follows(u, w, v, "gather", n, o, d)
  BY <1>9 DEF Follows, Sends, Old, XpFollows, Before, Behind, Ends, Over
<1> QED
  <2>1. c' = d  BY <1>1, <1>4 DEF Here
  <2>2. Gathers(u, a, n, o, d, "gather", d)
    BY <1>1, <1>4, <1>5, <1>6, <1>7, <1>8, <1>9, <2>1 DEF Gathers
  <2> QED  BY <2>2, GatherInv

\* What every component is after the transport of the step.
AllMoved(u, o, d) == [i \in Comps(u) |-> MovedIn(o, d[i])]

\* Transported components keep their types and count one transport more.
LEMMA AllMovedType ==
  ASSUME NEW u \in Setups, NEW o \in OwnT, NEW d \in DataT(u)
  PROVE  /\ AllMoved(u, o, d) \in DataT(u)
         /\ \A i \in Comps(u) : AllMoved(u, o, d)[i].moved = d[i].moved + 1
<1> DEFINE e == AllMoved(u, o, d)
<1>1. ASSUME NEW i \in Comps(u) PROVE e[i] \in CT(i) /\ e[i].moved = d[i].moved + 1
  <2>1. PICK f \in CT(i) : f = d[i]  BY DEF DataT
  <2>2. e[i] = MovedIn(o, f)  BY <2>1 DEF AllMoved
  <2>3. MovedIn(o, f).moved = f.moved + 1  BY DEF MovedIn, CT
  <2>4. MovedIn(o, f) \in CT(i)  BY MovedType
  <2> QED  BY <2>1, <2>2, <2>3, <2>4
<1>2. \A i \in Comps(u) : i \in Nat
  <2>1. u.ns \in Nat \ {0}  BY Processes
  <2> QED  BY <2>1 DEF Comps
<1>3. e = [i \in Comps(u) |-> e[i]]  BY DEF AllMoved
<1> HIDE DEF e
<1>4. \A i \in Comps(u) : e[i] \in AnyC  BY <1>1, <1>2 DEF AnyC
<1>5. e \in [Comps(u) -> AnyC]  BY <1>3, <1>4
<1>6. e \in DataT(u)  BY <1>1, <1>5 DEF DataT
<1> QED  BY <1>1, <1>6 DEF e

\* The root puts down every component as its process has transported it.
LEMMA Gathered ==
  ASSUME Inv, CReceive, NEW u, NEW a, NEW n, NEW o, NEW d, Here(u, a, n, o, d)
  PROVE  /\ c' = AllMoved(u, o, d) /\ u.solute /\ o.deltim = n
         /\ \A i \in Comps(u) : d[i].moved = n - 1
<1>1. RootHas(u, a, n, o, d)  BY RootHere
<1>2. /\ u \in Setups /\ setup = u /\ a = at[Root] /\ RootFactsAt(u, a, n, o, d, xp)
      /\ own[Root] = o /\ itime[Root] = n /\ c = d
  BY <1>1, Zenon DEF RootHas
<1>3. /\ a = "c wait" /\ Arrived("c")
      /\ c' = [i \in Component |->
                IF ComponentMap(setup, i) = Root THEN xp[i].c
                ELSE up[ComponentMap(setup, i)][Place(i)].value]
  BY <1>2 DEF CReceive, Goes
<1>4. u.solute /\ XpFollows(u, Root, xp, "c wait", o, d) /\ o.deltim = n
      /\ \A i \in Comps(u) : d[i].moved = n - 1
  BY <1>2, <1>3 DEF RootFactsAt, RootAt, During, Behind, Ends, Over
<1>5. ASSUME NEW i \in Comps(u)
      PROVE  (IF ComponentMap(setup, i) = Root THEN xp[i].c
              ELSE up[ComponentMap(setup, i)][Place(i)].value) = MovedIn(o, d[i])
  <2>1. CASE ComponentMap(u, i) = Root
    <3>1. i \in MappedIn(u, Root)  BY <2>1 DEF MappedIn
    <3>2. xp[i].c = MovedIn(o, d[i])  BY <1>4, <3>1 DEF XpFollows, Behind
    <3> QED  BY <1>2, <2>1, <3>2
  <2>2. CASE ComponentMap(u, i) # Root
    <3>1. PICK w : w = ComponentMap(u, i)  OBVIOUS
    <3>2. w \in Worker /\ i \in MappedIn(u, w)
      BY <1>2, <2>2, <3>1, Workers DEF MappedIn
    <3>3. PICK s : s = State(w)  OBVIOUS
    <3>4. Sound(u, w, s, a, n, o, d)
      BY <1>2, <3>2, <3>3 DEF Inv, WorkersFollow
    <3>5. s.up = up[w]  BY <3>3 DEF State
    <3>6. Len(s.up) >= Count(u, w)
      <4>1. Cardinality(Mapped(w)) = Count(u, w)  BY <1>2, InForce
      <4> QED  BY <1>3, <3>2, <3>5, <4>1 DEF Arrived
    <3>7. a \in Waits  BY <1>3 DEF Waits
    <3>8. Came(u, w, s, Sends(u, w, a, o, d))
      <4>1. u \in Setups  BY <1>2
      <4> QED  BY <3>4, <3>6, <3>7, <4>1, LettersCame
    <3>9. PICK e : e = AllMoved(u, o, d)  OBVIOUS
    <3>10. Sends(u, w, a, o, d) = LettersIn(u, w, "c", e)
      BY <1>3, <3>9 DEF Sends, AllMoved
    <3>11. /\ PlaceIn(u, i) \in 1 .. Count(u, w)
           /\ LettersIn(u, w, "c", e)[PlaceIn(u, i)] = Msg("c", e[i])
      BY <1>2, <3>2, LettersFacts
    <3>12. s.up[PlaceIn(u, i)] = Msg("c", e[i])  BY <3>8, <3>10, <3>11 DEF Came
    <3>13. Place(i) = PlaceIn(u, i)  BY <1>2, InForce
    <3>14. up[w][Place(i)].value = e[i]  BY <3>5, <3>12, <3>13, MsgFields
    <3>15. e[i] = MovedIn(o, d[i])  BY <3>9 DEF AllMoved
    <3> QED  BY <1>2, <2>2, <3>1, <3>14, <3>15
  <2> QED  BY <2>1, <2>2
<1>6. Component = Comps(u)  BY <1>2, InForce
<1>7. c' = AllMoved(u, o, d)  BY <1>3, <1>5, <1>6, Zenon DEF AllMoved
<1> QED  BY <1>4, <1>7

\* The letters of c_gather.
LEMMA CReceiveInv ==
  ASSUME Inv, CReceive
  PROVE  Inv'
<1>1. PICK u, a, n, o, d : Here(u, a, n, o, d)  BY Zenon DEF Here
<1>2. RootHas(u, a, n, o, d)  BY <1>1, RootHere
<1>3. /\ u \in Setups /\ setup = u /\ a = at[Root] /\ RootFactsAt(u, a, n, o, d, xp)
      /\ n \in Nat /\ n \in 0 .. MaxSteps /\ o \in OwnT /\ d \in DataT(u)
  BY <1>2, Zenon DEF RootHas
<1>4. /\ a = "c wait" /\ SameRoot("gathered") /\ Arrived("c") /\ TakeLetters
      /\ world' = world /\ xpcomm' = xpcomm /\ mail' = mail
  BY <1>3 DEF CReceive, Goes, SameRoot, errors, down
<1>5. "gathered" \in RootAt /\ a \in Waits  BY <1>4 DEF RootAt, Waits
<1>6. PICK d2 : d2 = AllMoved(u, o, d)  OBVIOUS
<1>7. /\ c' = d2 /\ u.solute /\ o.deltim = n /\ \A i \in Comps(u) : d[i].moved = n - 1
  BY <1>1, <1>6, Gathered
<1>8. d2 \in DataT(u) /\ \A i \in Comps(u) : d2[i].moved = n
  <2>1. d2 \in DataT(u) /\ \A i \in Comps(u) : d2[i].moved = d[i].moved + 1
    BY <1>3, <1>6, AllMovedType
  <2>2. (n - 1) + 1 = n  BY <1>3
  <2> QED  BY <1>7, <2>1, <2>2
<1>9. RootMoves("gathered", n, o) /\ RootTyped(u, "gathered", n, o, d2)
  <2>1. RootMoves("gathered", n, o) /\ RootTyped(u, "gathered", n, o, d)
    BY <1>2, <1>4, <1>5, SameRootMoves
  <2> QED  BY <1>8, <2>1 DEF RootTyped
<1>10. RootFactsAt(u, "gathered", n, o, d2, xp')
  <2>1. xp' = xp  BY <1>4 DEF SameRoot
  <2>2. XpFollows(u, Root, xp, "c wait", o, d)  BY <1>3, <1>4, <1>7 DEF RootFactsAt
  <2>3. XpFollows(u, Root, xp, "gathered", o, d2)  BY <2>2 DEF XpFollows, Before, Behind
  <2>4. "gathered" \notin During  BY DEF During, Behind
  <2> QED  BY <1>7, <1>8, <2>1, <2>3, <2>4 DEF RootFactsAt
<1>11. \A w \in Worker : Len(up[w]) >= Count(u, w)
  <2>1. \A w : Cardinality(Mapped(w)) = Count(u, w)  BY <1>3, InForce
  <2> QED  BY <1>4, <2>1 DEF Arrived
<1>12. ASSUME NEW w \in Worker, NEW t \in StateT(u, w), Follows(u, w, t, "c wait", n, o, d),
              NEW v, v.core = t.core, v.up = <<>>
       PROVE  Follows(u, w, v, "gathered", n, o, d2)
  <2>1. /\ t.core.at = "loop" /\ (~InGroupIn(u, w) => t.core.itime = 0)
    BY <1>12 DEF Follows
  <2>2. ASSUME InGroupIn(u, w)
        PROVE  /\ t.core.itime = n
               /\ \A f \in Fields \ Old(u, "gathered") : t.core.own[f] = o[f]
               /\ XpFollows(u, w, t.core.xp, "gathered", o, d2)
    BY <1>12, <2>2 DEF Follows, Old, XpFollows, Before, Behind, Ends, Over
  <2>3. Sends(u, w, "gathered", o, d2) = <<>>  BY DEF Sends
  <2> QED  BY <1>12, <2>1, <2>2, <2>3 DEF Follows
<1> QED
  <2>1. Gathers(u, a, n, o, d, "gathered", d2)
    BY <1>1, <1>4, <1>5, <1>7, <1>9, <1>10, <1>11, <1>12 DEF Gathers
  <2> QED  BY <2>1, GatherInv

----------------------------------------------------------------------------
(* The calls that every worker takes part in.                              *)

\* The root sends ms to all.
AsksAll(u, a, n, o, d, b, ms) ==
  /\ Inv /\ Here(u, a, n, o, d) /\ RootMoves(b, n, o) /\ c' = d /\ ms \in Seq(Message)
  /\ world' = [w \in Worker |-> world[w] \o ms] /\ xpcomm' = xpcomm /\ mail' = mail /\ up' = up
  /\ a \notin Over /\ b # "stopped"
  /\ RootTyped(u, b, n, o, d) /\ RootFactsAt(u, b, n, o, d, xp')
  /\ \A w \in Worker : CallFits(u, w, ms, <<>>, <<>>, a, n, o, d, b, n, o, d)

\* A call that every process takes part in keeps the invariant.
LEMMA AskedInv ==
  ASSUME NEW u, NEW a, NEW n, NEW o, NEW d, NEW b, NEW ms, AsksAll(u, a, n, o, d, b, ms)
  PROVE  Inv'
<1>1. /\ Inv /\ setup = u /\ at[Root] = a /\ itime[Root] = n /\ own[Root] = o /\ c = d
      /\ RootMoves(b, n, o) /\ c' = d /\ ms \in Seq(Message)
      /\ world' = [w \in Worker |-> world[w] \o ms] /\ xpcomm' = xpcomm /\ mail' = mail /\ up' = up
      /\ a \notin Over /\ b # "stopped"
      /\ RootTyped(u, b, n, o, d) /\ RootFactsAt(u, b, n, o, d, xp')
  BY Zenon DEF AsksAll, Here
<1>2. \A w \in Worker : CallFits(u, w, ms, <<>>, <<>>, a, n, o, d, b, n, o, d)
  BY Zenon DEF AsksAll
<1>3. Types /\ WorkersFollow  BY <1>1 DEF Inv
<1>4. PICK e \in Seq(Message) : e = <<>>  BY EmptySeq, Zenon
<1>5. ASSUME NEW w \in Worker
      PROVE  Sound(u, w, State(w)', b, n, o, d) /\ world'[w] \in Seq(Message)
  <2>1. PICK v, s : v = w /\ s = State(w)  OBVIOUS
  <2>2. /\ world[w] \in Seq(Message) /\ xpcomm[w] \in Seq(Message) /\ mail[w] \in Seq(Message)
    BY <1>3 DEF Types
  <2>3. world'[w] = world[w] \o ms  BY <1>1, Zenon
  <2>4. State(w)' = Plus(s, ms, e, e)
    <3>1. Core(w)' = Core(w)  BY <1>1, WorkersStay
    <3>2. xpcomm[w] \o e = xpcomm[w] /\ mail[w] \o e = mail[w]
      BY <1>4, <2>2, QueueEmpty, Zenon
    <3>3. s.core = Core(w) /\ s.up = up[w] /\ s.world = world[w] /\ s.xpcomm = xpcomm[w]
          /\ s.mail = mail[w]
      BY <2>1 DEF State
    <3>4. State(w)' = [core |-> Core(w), up |-> up[w], world |-> world[w] \o ms,
                       xpcomm |-> xpcomm[w], mail |-> mail[w]]
      BY <1>1, <2>3, <3>1, Zenon DEF State
    <3> QED  BY <3>2, <3>3, <3>4, Zenon DEF Plus
  <2>5. Sound(u, v, s, a, n, o, d)  BY <1>1, <1>3, <2>1 DEF WorkersFollow
  <2>6. CallFits(u, v, ms, e, e, a, n, o, d, b, n, o, d)  BY <1>2, <1>4, <2>1, Zenon
  <2>7. Sound(u, v, Plus(s, ms, e, e), b, n, o, d)  BY <1>1, <1>4, <2>5, <2>6, CallSound
  <2>8. world'[w] \in Seq(Message)
    <3>1. \A p, q \in Seq(Message) : p \o q \in Seq(Message)  BY QueueRest, Zenon
    <3> QED  BY <1>1, <2>2, <2>3, <3>1, Zenon
  <2> QED  BY <2>1, <2>4, <2>7, <2>8, Zenon
<1>6. QueuesTyped'
  <2>1. Worker' = Worker  BY <1>1 DEF RootMoves, Rank, Worker
  <2>2. world' = [w \in Worker |-> world'[w]]
    <3> DEFINE A(w) == world[w] \o ms
    <3>1. world' = [w \in Worker |-> A(w)]  BY <1>1, Zenon
    <3> HIDE DEF A
    <3> QED  BY <3>1
  <2>3. world' \in [Worker -> Seq(Message)]  BY <1>5, <2>2
  <2> QED  BY <1>1, <1>3, <2>1, <2>3 DEF Types, QueuesTyped
<1>7. \A w \in Worker : Sound(u, w, State(w)', b, n, o, d)  BY <1>5
<1> QED  BY <1>1, <1>6, <1>7, RootInv

\* The root's set_fdtmth.
LEMMA SetFdtmthInv ==
  ASSUME Inv, SetFdtmth
  PROVE  Inv'
<1>1. PICK u, a, n, o, d : Here(u, a, n, o, d)  BY Zenon DEF Here
<1>2. RootHas(u, a, n, o, d)  BY <1>1, RootHere
<1>3. /\ u \in Setups /\ setup = u /\ a = at[Root] /\ RootFactsAt(u, a, n, o, d, xp)
  BY <1>2, Zenon DEF RootHas
<1>4. PICK ms : ms = <<Msg("set_fdtmth", 0), Msg("fdtmth", 0)>>  OBVIOUS
<1>5. /\ a = "fdtmth" /\ SameRoot("c") /\ c' = c
      /\ world' = [w \in Worker |-> world[w] \o ms] /\ xpcomm' = xpcomm /\ mail' = mail /\ up' = up
  BY <1>3, <1>4, Zenon DEF SetFdtmth, Goes, SameRoot, errors
<1>6. ms \in Seq(Message)
  <2> DEFINE M == Message
  <2>1. "set_fdtmth" \in Name /\ "fdtmth" \in Name /\ 0 \in Nat  BY DEF Name
  <2>2. Msg("set_fdtmth", 0) \in M /\ Msg("fdtmth", 0) \in M  BY <2>1, Letter
  <2> HIDE DEF M
  <2>3. ms \in Seq(M)  BY <1>4, <2>2
  <2> QED  BY <2>3 DEF M
<1>7. "c" \in RootAt  BY DEF RootAt
<1>8. RootMoves("c", n, o) /\ RootTyped(u, "c", n, o, d)  BY <1>2, <1>5, <1>7, SameRootMoves
<1>9. RootFactsAt(u, "c", n, o, d, xp')
  <2>1. xp' = xp  BY <1>5 DEF SameRoot
  <2> QED
    BY <1>3, <1>5, <2>1 DEF RootFactsAt, RootAt, During, Behind, XpFollows, Before, Ends, Over
<1>10. ASSUME NEW w \in Worker
       PROVE  CallFits(u, w, ms, <<>>, <<>>, "fdtmth", n, o, d, "c", n, o, d)
  <2>1. ASSUME NEW t \in StateT(u, w), Follows(u, w, t, "fdtmth", n, o, d)
        PROVE  \E k \in CoreT(u, w), us \in Seq(Message) :
                 /\ Makes(u, w, ms, <<>>, <<>>, us, t.core, k)
                 /\ Follows(u, w, IdleOf(k, t.up \o us), "c", n, o, d)
    <3>1. t.core \in CoreT(u, w) /\ t.up \in Seq(Message)  BY DEF StateT
    <3>2. Makes(u, w, ms, <<>>, <<>>, <<>>, t.core, t.core)
      BY <1>4, Zenon DEF Makes, FdtmthCall
    <3>3. t.up \o <<>> = t.up /\ <<>> \in Seq(Message)  BY <3>1, EmptySeq, QueueEmpty, Zenon
    <3>4. PICK y : y = IdleOf(t.core, t.up)  OBVIOUS
    <3>5. y.core = t.core /\ y.up = t.up  BY <3>4 DEF IdleOf
    <3>6. Follows(u, w, y, "c", n, o, d)
      BY <2>1, <3>5 DEF Follows, Sends, Old, XpFollows, Before, Behind, Ends, Over
    <3> QED  BY <3>1, <3>2, <3>3, <3>4, <3>6, Zenon
  <2> QED  BY <2>1, Zenon DEF CallFits
<1> QED
  <2>1. c' = d  BY <1>1, <1>5 DEF Here
  <2>2. a \notin Over  BY <1>5 DEF Over
  <2>3. AsksAll(u, a, n, o, d, "c", ms)
    BY <1>1, <1>5, <1>6, <1>8, <1>9, <1>10, <2>1, <2>2, Zenon DEF AsksAll
  <2> QED  BY <2>3, AskedInv

\* The end of the loop.
LEMMA MpiWorkerBreakInv ==
  ASSUME Inv, MpiWorkerBreak
  PROVE  Inv'
<1>1. PICK u, a, n, o, d : Here(u, a, n, o, d)  BY Zenon DEF Here
<1>2. RootHas(u, a, n, o, d)  BY <1>1, RootHere
<1>3. /\ u \in Setups /\ setup = u /\ a = at[Root] /\ RootFactsAt(u, a, n, o, d, xp)
  BY <1>2, Zenon DEF RootHas
<1>4. PICK ms : ms = <<Msg("break", 0)>>  OBVIOUS
<1>5. /\ a = "exit" /\ SameRoot("barrier") /\ c' = c /\ up' = up /\ Broadcast("break", <<>>)
  BY <1>3, Zenon DEF MpiWorkerBreak, Goes, SameRoot, errors
<1>6. Msg("break", 0) \in Message /\ ms \in Seq(Message)
  <2>1. 0 \in Nat  OBVIOUS
  <2>2. Msg("break", 0) \in Message  BY <2>1, RoutineNames, Letter
  <2> QED  BY <1>4, <2>2, Single
<1>7. /\ world' = [w \in Worker |-> world[w] \o ms] /\ xpcomm' = xpcomm /\ mail' = mail
  <2>1. /\ world' = [w \in Worker |-> Append(world[w], Msg("break", 0))]
        /\ xpcomm' = [w \in Worker |-> xpcomm[w] \o When(InGroup(w), <<>>)]
        /\ mail' = [w \in Worker |-> mail[w] \o When(InGroup(w), [v \in Worker |-> <<>>][w])]
    BY <1>5, Zenon DEF Broadcast, Tell
  <2>2. /\ world \in [Worker -> Seq(Message)] /\ xpcomm \in [Worker -> Seq(Message)]
        /\ mail \in [Worker -> Seq(Message)]
    BY DEF Inv, Types
  <2>3. ASSUME NEW w \in Worker PROVE Append(world[w], Msg("break", 0)) = world[w] \o ms
    <3> DEFINE e == Msg("break", 0)
               q == world[w]
               M == Message
    <3>1. q \in Seq(M) /\ e \in M  BY <1>6, <2>2
    <3> HIDE DEF e, q, M
    <3>2. Append(q, e) = q \o <<e>>  BY <3>1, AppendIsConcat
    <3> QED  BY <1>4, <3>2 DEF e, q
  <2>4. ASSUME NEW w \in Worker
        PROVE  /\ xpcomm[w] \o When(InGroup(w), <<>>) = xpcomm[w]
               /\ mail[w] \o When(InGroup(w), [v \in Worker |-> <<>>][w]) = mail[w]
    <3>1. xpcomm[w] \in Seq(Message) /\ mail[w] \in Seq(Message)  BY <2>2
    <3>2. When(InGroup(w), <<>>) = <<>>  BY Zenon DEF When
    <3>3. [v \in Worker |-> <<>>][w] = <<>>  BY Zenon
    <3> QED  BY <3>1, <3>2, <3>3, QueueEmpty, Zenon
  <2>5. world' = [w \in Worker |-> world[w] \o ms]
    <3> DEFINE A(w) == Append(world[w], Msg("break", 0))
               B(w) == world[w] \o ms
    <3>1. world' = [w \in Worker |-> A(w)] /\ \A w \in Worker : A(w) = B(w)  BY <2>1, <2>3
    <3> HIDE DEF A, B
    <3>2. world' = [w \in Worker |-> B(w)]  BY <3>1
    <3> QED  BY <3>2 DEF B
  <2>6. xpcomm' = xpcomm /\ mail' = mail
    <3> DEFINE A(w) == xpcomm[w] \o When(InGroup(w), <<>>)
               B(w) == mail[w] \o When(InGroup(w), [v \in Worker |-> <<>>][w])
    <3>1. xpcomm' = [w \in Worker |-> A(w)] /\ mail' = [w \in Worker |-> B(w)]
      BY <2>1, Zenon
    <3>2. \A w \in Worker : A(w) = xpcomm[w] /\ B(w) = mail[w]  BY <2>4
    <3> HIDE DEF A, B
    <3> QED  BY <2>2, <3>1, <3>2
  <2> QED  BY <2>5, <2>6
<1>8. "barrier" \in RootAt  BY DEF RootAt
<1>9. RootMoves("barrier", n, o) /\ RootTyped(u, "barrier", n, o, d)
  BY <1>2, <1>5, <1>8, SameRootMoves
<1>10. RootFactsAt(u, "barrier", n, o, d, xp')
  <2>1. xp' = xp  BY <1>5 DEF SameRoot
  <2> QED
    BY <1>3, <1>5, <2>1 DEF RootFactsAt, RootAt, During, Behind, XpFollows, Before, Ends, Over
<1>11. ASSUME NEW w \in Worker
       PROVE  CallFits(u, w, ms, <<>>, <<>>, "exit", n, o, d, "barrier", n, o, d)
  <2>1. ASSUME NEW t \in StateT(u, w), Follows(u, w, t, "exit", n, o, d)
        PROVE  \E k \in CoreT(u, w), us \in Seq(Message) :
                 /\ Makes(u, w, ms, <<>>, <<>>, us, t.core, k)
                 /\ Follows(u, w, IdleOf(k, t.up \o us), "barrier", n, o, d)
    <3>1. t.core \in CoreT(u, w) /\ t.up \in Seq(Message)  BY DEF StateT
    <3>2. PICK k : k = [t.core EXCEPT !.at = "barrier"]  OBVIOUS
    <3>3. /\ k \in CoreT(u, w) /\ k.at = "barrier" /\ k.itime = t.core.itime
          /\ k.own = t.core.own /\ k.xp = t.core.xp
      BY <3>1, <3>2 DEF CoreT
    <3>4. Makes(u, w, ms, <<>>, <<>>, <<>>, t.core, k)
      BY <1>4, <3>2, Zenon DEF Makes, BreakCall
    <3>5. t.up \o <<>> = t.up /\ <<>> \in Seq(Message)  BY <3>1, EmptySeq, QueueEmpty, Zenon
    <3>6. PICK y : y = IdleOf(k, t.up)  OBVIOUS
    <3>7. y.core = k /\ y.up = t.up  BY <3>6 DEF IdleOf
    <3>8. Follows(u, w, y, "barrier", n, o, d)
      BY <2>1, <3>3, <3>7 DEF Follows, Sends, Old, XpFollows, Before, Behind, Ends, Over
    <3> QED  BY <3>3, <3>4, <3>5, <3>6, <3>8, Zenon
  <2> QED  BY <2>1, Zenon DEF CallFits
<1> QED
  <2>1. c' = d  BY <1>1, <1>5 DEF Here
  <2>2. a \notin Over  BY <1>5 DEF Over
  <2>3. AsksAll(u, a, n, o, d, "barrier", ms)
    BY <1>1, <1>5, <1>6, <1>7, <1>9, <1>10, <1>11, <2>1, <2>2, Zenon DEF AsksAll
  <2> QED  BY <2>3, AskedInv

----------------------------------------------------------------------------
(* The end of both programs.                                               *)

\* The worker has nothing left to do.
AtRest(s) == s.core.at # "loop" \/ s.world = <<>>

\* Then it is where the root counts on it.
LEMMA RestsThere ==
  ASSUME NEW u, NEW w, NEW s, NEW a, NEW n, NEW o, NEW d, Sound(u, w, s, a, n, o, d),
         a # "stopped", AtRest(s)
  PROVE  s \in StateT(u, w) /\ Idle(s) /\ Follows(u, w, s, a, n, o, d)
<1>1. PICK t \in StateT(u, w) : Comes(u, w, s, t) /\ Idle(t) /\ Follows(u, w, t, a, n, o, d)
  BY RestsIdle DEF Sound
<1>2. s \in StateT(u, w) /\ (s # t => \E v \in StateT(u, w) : Step(u, w, s, v))
  BY <1>1, ComesFirst
<1>3. ASSUME NEW v \in StateT(u, w), Step(u, w, s, v) PROVE FALSE
  <2>1. s.core.at = "loop" /\ s.world = <<>>  BY <1>3 DEF Step, AtRest
  <2>2. PICK ms, xs, ls, us \in Seq(Message) :
          s.world = ms \o v.world /\ Makes(u, w, ms, xs, ls, us, s.core, v.core)
    BY <1>3 DEF Step
  <2>3. Len(ms) # 0
    <3>1. \E e1, e2 : ms = <<e1>> \/ ms = <<e1, e2>>
      BY <2>2, Zenon DEF Makes, TransporterCall, OtherCall, FdtmthCall, BreakCall
    <3>2. PICK e1, e2 : ms = <<e1>> \/ ms = <<e1, e2>>  BY <3>1
    <3>3. Len(<<e1>>) = 1 /\ Len(<<e1, e2>>) = 2  OBVIOUS
    <3>4. PICK k : k = Len(ms)  OBVIOUS
    <3>5. k = 1 \/ k = 2  BY <3>2, <3>3, <3>4, Zenon
    <3>6. k # 0  BY <3>5
    <3> QED  BY <3>4, <3>6, Zenon
  <2>4. v.world \in Seq(Message)  BY DEF StateT
  <2>5. PICK q : q = v.world  OBVIOUS
  <2>6. q \in Seq(Message) /\ <<>> = ms \o q  BY <2>1, <2>2, <2>4, <2>5
  <2>7. Len(ms \o q) = Len(ms) + Len(q) /\ Len(q) \in Nat /\ Len(ms) \in Nat
    BY <2>6, ConcatProperties, LenProperties
  <2>8. Len(<<>>) = 0  OBVIOUS
  <2> QED  BY <2>3, <2>6, <2>7, <2>8
<1>4. s = t  BY <1>2, <1>3
<1> QED  BY <1>1, <1>4

\* The two ways in which all processes end together.
Ending(a, b) == <<a, b>> \in {<<"barrier", "done">>, <<"gathered", "exited">>}

\* The worker ends with what it has.
LEMMA Leaves ==
  ASSUME NEW u, NEW w, NEW s \in StateT(u, w), NEW a, NEW b, NEW n, NEW o, NEW d, Idle(s),
         Follows(u, w, s, a, n, o, d), Ending(a, b),
         NEW z, z = [s EXCEPT !.core = [s.core EXCEPT !.at = b]]
  PROVE  Sound(u, w, z, b, n, o, d)
<1>1. PICK k : k = [s.core EXCEPT !.at = b]  OBVIOUS
<1>2. s.core \in CoreT(u, w)  BY DEF StateT
<1>3. /\ k \in CoreT(u, w) /\ k.at = b /\ k.itime = s.core.itime /\ k.own = s.core.own
      /\ k.xp = s.core.xp
  BY <1>1, <1>2 DEF CoreT, Ending
<1>4. z = [s EXCEPT !.core = k]  BY <1>1
<1>5. /\ z \in StateT(u, w) /\ z.core = k /\ z.up = s.up /\ z.world = s.world
      /\ z.xpcomm = s.xpcomm /\ z.mail = s.mail
  BY <1>3, <1>4 DEF StateT
<1>6. Idle(z)  BY <1>5 DEF Idle
<1>7. Follows(u, w, z, b, n, o, d)
  <2>1. a \in {"barrier", "gathered"} /\ b \in {"done", "exited"}  BY DEF Ending
  <2>2. s.up = <<>> /\ Sends(u, w, b, o, d) = <<>>  BY <2>1 DEF Follows, Sends
  <2>3. XpFollows(u, w, s.core.xp, a, o, d) => XpFollows(u, w, s.core.xp, b, o, d)
    BY <2>1 DEF XpFollows, Before, Behind
  <2>4. Fields \ Old(u, b) = {}  BY <2>1 DEF Old, Ends, Over
  <2>5. /\ ~InGroupIn(u, w) => s.core.itime = 0
        /\ InGroupIn(u, w) => s.core.itime = n /\ XpFollows(u, w, s.core.xp, a, o, d)
    BY <2>1 DEF Follows
  <2> QED  BY <1>3, <1>5, <2>1, <2>2, <2>3, <2>4, <2>5 DEF Follows
<1>8. Comes(u, w, z, z)  BY <1>5, ComesNone
<1>9. b # "stopped"  BY DEF Ending
<1> QED  BY <1>5, <1>6, <1>7, <1>8, <1>9, RestsIdle DEF Sound

\* All processes end, and no worker has anything left to do.
AllEnd(b) ==
  /\ Ending(at[Root], b) /\ \A w \in Worker : at[w] # "loop" \/ world[w] = <<>>
  /\ at' = [r \in Rank |-> b]
  /\ setup' = setup /\ world' = world /\ xpcomm' = xpcomm /\ mail' = mail /\ up' = up
  /\ itime' = itime /\ own' = own /\ xp' = xp /\ c' = c /\ errexe' = errexe
  /\ errexi' = errexi

\* This keeps the invariant.
LEMMA AllEndInv ==
  ASSUME Inv, NEW b, AllEnd(b)
  PROVE  Inv'
<1>1. PICK u, a, n, o, d : Here(u, a, n, o, d)  BY Zenon DEF Here
<1>2. RootHas(u, a, n, o, d)  BY <1>1, RootHere
<1>3. /\ u \in Setups /\ setup = u /\ a = at[Root] /\ RootFactsAt(u, a, n, o, d, xp)
      /\ Root \in Rank /\ itime[Root] = n /\ own[Root] = o /\ c = d
  BY <1>2, Zenon DEF RootHas
<1>4. /\ Ending(a, b) /\ at' = [r \in Rank |-> b]
      /\ setup' = setup /\ world' = world /\ xpcomm' = xpcomm /\ mail' = mail /\ up' = up
      /\ itime' = itime /\ own' = own /\ xp' = xp /\ c' = c /\ errexe' = errexe
      /\ errexi' = errexi
  BY <1>3 DEF AllEnd
<1>5. /\ Rank' = Rank /\ Worker' = Worker /\ Component' = Component /\ Worker \subseteq Rank
  BY <1>4 DEF Rank, Worker, Component
<1>6. Types /\ WorkersSucceed /\ WorkersFollow  BY DEF Inv
<1>7. Types'
  <2>1. b \in RootAt  BY <1>4 DEF Ending, RootAt
  <2>2. at' \in [Rank -> RootAt \cup {"loop"}] /\ at'[Root] = b
    BY <1>3, <1>4, <2>1
  <2> QED  BY <1>4, <1>5, <1>6, <2>1, <2>2 DEF Types
<1>8. WorkersSucceed'  BY <1>4, <1>5, <1>6 DEF WorkersSucceed
<1>9. RootFacts'
  <2>1. RootFactsAt(u, b, n, o, d, xp')
    BY <1>3, <1>4 DEF Ending, RootFactsAt, RootAt, During, Behind, XpFollows, Before, Ends, Over
  <2> QED  BY <1>3, <1>4, <2>1 DEF RootFacts
<1>10. ASSUME NEW w \in Worker PROVE Sound(u, w, State(w)', b, n, o, d)
  <2>1. PICK v, s : v = w /\ s = State(w)  OBVIOUS
  <2>2. Sound(u, v, s, a, n, o, d)  BY <1>3, <1>6, <2>1 DEF WorkersFollow
  <2>3. AtRest(s)
    <3>1. at[w] # "loop" \/ world[w] = <<>>  BY DEF AllEnd
    <3>2. s.core.at = at[w] /\ s.world = world[w]  BY <2>1 DEF State, Core
    <3> QED  BY <3>1, <3>2 DEF AtRest
  <2>4. s \in StateT(u, v) /\ Idle(s) /\ Follows(u, v, s, a, n, o, d)
    <3>1. a # "stopped"  BY <1>4 DEF Ending
    <3> QED  BY <2>2, <2>3, <3>1, RestsThere
  <2>5. PICK z : z = [s EXCEPT !.core = [s.core EXCEPT !.at = b]]  OBVIOUS
  <2>6. Sound(u, v, z, b, n, o, d)  BY <1>4, <2>4, <2>5, Leaves
  <2>7. State(w)' = z
    <3>1. Mapped(w)' = Mapped(w)  BY <1>3, <1>4, InForce, InForceNext
    <3>2. [i \in Mapped(w)' |-> xp'[i]] = [i \in Mapped(w) |-> xp[i]]  BY <1>4, <3>1
    <3>3. at'[w] = b  BY <1>4, <1>5
    <3>4. PICK x : x = [i \in Mapped(w) |-> xp[i]]  OBVIOUS
    <3>5. Core(w) = [at |-> at[w], itime |-> itime[w], own |-> own[w], xp |-> x]
      BY <3>4, Zenon DEF Core
    <3>6. Core(w)' = [at |-> b, itime |-> itime[w], own |-> own[w], xp |-> x]
      <4>1. Core(w)' = [at |-> at'[w], itime |-> itime'[w], own |-> own'[w],
                        xp |-> [i \in Mapped(w)' |-> xp'[i]]]
        BY Zenon DEF Core
      <4> QED  BY <1>4, <3>2, <3>3, <3>4, <4>1, Zenon
    <3>7. Core(w)' = [Core(w) EXCEPT !.at = b]  BY <3>5, <3>6
    <3>8. /\ State(w) = [core |-> Core(w), up |-> up[w],
                         world |-> world[w], xpcomm |-> xpcomm[w], mail |-> mail[w]]
          /\ State(w)' = [core |-> Core(w)', up |-> up[w],
                          world |-> world[w], xpcomm |-> xpcomm[w], mail |-> mail[w]]
      BY <1>4, Zenon DEF State
    <3> QED  BY <2>1, <2>5, <3>7, <3>8
  <2> QED  BY <2>1, <2>6, <2>7
<1>11. WorkersFollow'
  <2>1. at'[Root] = b  BY <1>3, <1>4
  <2> QED  BY <1>3, <1>4, <1>5, <1>10, <2>1 DEF WorkersFollow
<1> QED  BY <1>7, <1>8, <1>9, <1>11 DEF Inv

\* The barrier.
LEMMA BarrierInv ==
  ASSUME Inv, Barrier
  PROVE  Inv'
<1>1. Root \in Rank /\ Worker \subseteq Rank
  <2>1. PICK u : u = setup  OBVIOUS
  <2> QED  BY <2>1, Workers DEF Inv, Types, Worker
<1>2. Ending(at[Root], "done") /\ \A w \in Worker : at[w] # "loop"
  BY <1>1 DEF Barrier, Ending
<1>3. AllEnd("done")  BY <1>2 DEF Barrier, AllEnd, down, errors
<1> QED  BY <1>3, AllEndInv

\* RM_RunCells fails, and every process exits.
LEMMA ReactFailsInv ==
  ASSUME Inv, ReactFails
  PROVE  Inv'
<1>1. AllEnd("exited")
  BY DEF ReactFails, RunCellsStarts, AllEnd, Ending, down, errors
<1> QED  BY <1>1, AllEndInv

----------------------------------------------------------------------------
(* The stop in a step of no length.                                        *)

\* A transporter that has answered all calls waits in this one for the length of the step.
LEMMA StopsHere ==
  ASSUME NEW u, NEW w, InGroupIn(u, w), NEW s, NEW n \in Nat, NEW o, NEW d,
         Sound(u, w, s, "timestep", n, o, d), NEW ms \in Seq(Message), NEW x \in Seq(Message),
         NEW l \in Seq(Message),
         ms = <<Msg("timestep_worker", 0)>>, x = <<Msg("itime", n+1)>>, l = <<>>
  PROVE  Sound(u, w, Plus(s, ms, x, l), "stopped", n+1, o, d)
<1>1. PICK t \in StateT(u, w) :
        Comes(u, w, s, t) /\ Idle(t) /\ Follows(u, w, t, "timestep", n, o, d)
  BY RestsIdle DEF Sound
<1>2. PICK p, z : p = Plus(t, ms, x, l) /\ z = Plus(s, ms, x, l)  OBVIOUS
<1>3. Comes(u, w, z, p) /\ p \in StateT(u, w)  BY <1>1, <1>2, ComesPlus
<1>4. p.core = t.core /\ p.up = t.up  BY <1>2 DEF Plus
<1>5. Unfinished(p, n+1)
  <2>1. t.world = <<>> /\ t.xpcomm = <<>> /\ t.mail = <<>>  BY <1>1 DEF Idle
  <2>2. <<>> \o ms = ms /\ <<>> \o x = x /\ <<>> \o l = l  BY QueueEmpty, Zenon
  <2>3. p.world = t.world \o ms /\ p.xpcomm = t.xpcomm \o x /\ p.mail = t.mail \o l
    BY <1>2 DEF Plus
  <2>4. p.world = ms /\ p.xpcomm = x /\ p.mail = l  BY <2>1, <2>2, <2>3, Zenon
  <2> QED  BY <2>4 DEF Unfinished
<1>6. Rests(u, w, p, "stopped", n+1)  BY <1>5 DEF Rests
<1>7. Follows(u, w, p, "stopped", n+1, o, d)
  <2>1. (n+1) - 1 = n  OBVIOUS
  <2> QED  BY <1>1, <1>4, <2>1 DEF Follows, Sends, Old, XpFollows, Before, Behind, Ends, Over
<1>8. Sound(u, w, z, "stopped", n+1, o, d)  BY <1>3, <1>6, <1>7 DEF Sound
<1> QED  BY <1>2, <1>8

\* The root stops.
LEMMA TimestepStopsInv ==
  ASSUME Inv, TimestepStops
  PROVE  Inv'
<1>1. PICK u, a, n, o, d : Here(u, a, n, o, d)  BY Zenon DEF Here
<1>2. RootHas(u, a, n, o, d)  BY <1>1, RootHere
<1>3. /\ u \in Setups /\ setup = u /\ n \in Nat /\ n \in 0 .. MaxSteps /\ o \in OwnT
      /\ d \in DataT(u) /\ c = d
      /\ a = at[Root] /\ own[Root] = o /\ itime[Root] = n /\ Root \in Rank
      /\ RootFactsAt(u, a, n, o, d, xp) /\ own = [own EXCEPT ![Root] = o]
  BY <1>2, Zenon DEF RootHas
<1>4. PICK xs, L : xs = <<Msg("itime", n+1)>> /\ L = [w \in Worker |-> <<>>]  OBVIOUS
<1>5. /\ a = "timestep" /\ at' = [at EXCEPT ![Root] = "stopped"]
      /\ itime' = [itime EXCEPT ![Root] = n+1]
      /\ Tell("timestep_worker", xs, L)
      /\ setup' = setup /\ up' = up /\ own' = own /\ xp' = xp /\ c' = d /\ errexe' = errexe
      /\ errexi' = errexi
  <2>1. /\ a = "timestep" /\ at' = [at EXCEPT ![Root] = "stopped"]
        /\ itime' = [itime EXCEPT ![Root] = @+1]
        /\ Broadcast("timestep_worker", <<Msg("itime", itime'[Root])>>)
        /\ setup' = setup /\ up' = up /\ own' = own /\ xp' = xp /\ c' = d /\ errexe' = errexe
        /\ errexi' = errexi
    BY <1>3 DEF TimestepStops, Goes, errors
  <2>2. itime' = [itime EXCEPT ![Root] = n+1]  BY <1>3, <2>1
  <2>3. itime'[Root] = n+1  BY <1>3, <2>2 DEF Inv, Types
  <2> QED  BY <1>4, <2>1, <2>2, <2>3 DEF Broadcast
<1>6. PICK m : m = n+1  OBVIOUS
<1>7. m \in Nat /\ m \in 0 .. MaxSteps
  <2>1. n < MaxSteps  BY <1>3, <1>5 DEF RootFactsAt
  <2>2. MaxSteps \in Nat  BY TransportBounds
  <2> QED  BY <1>3, <1>6, <2>1, <2>2
<1>8. RootMoves("stopped", m, o)
  <2>1. xp' = [i \in Component |-> IF i \in Mapped(Root) THEN xp'[i] ELSE xp[i]]
    BY <1>2, <1>5, Zenon DEF RootHas
  <2>2. errexe' = [errexe EXCEPT ![Root] = errexe'[Root]]  BY <1>2, <1>5, Zenon DEF RootHas
  <2> QED  BY <1>3, <1>5, <1>6, <2>1, <2>2, Zenon DEF RootMoves
<1>9. RootTyped(u, "stopped", m, o, d)
  <2>1. \A i \in MappedIn(u, Root) : xp'[i] \in XpT(i)  BY <1>2, <1>5 DEF RootHas
  <2>2. errexe'[Root] \in BOOLEAN /\ errexi' \in BOOLEAN  BY <1>2, <1>5 DEF RootHas
  <2>3. "stopped" \in RootAt  BY DEF RootAt
  <2> QED  BY <1>3, <1>7, <2>1, <2>2, <2>3 DEF RootTyped
<1>10. RootFactsAt(u, "stopped", m, o, d, xp')
  BY <1>3, <1>5 DEF RootFactsAt, RootAt, During, Behind, XpFollows, Before, Ends, Over
<1>11. PICK ms, e : ms = <<Msg("timestep_worker", 0)>> /\ e = <<>>  OBVIOUS
<1>12. /\ xs \in Seq(Message) /\ ms \in Seq(Message) /\ e \in Seq(Message)
       /\ "timestep_worker" \in Routine
  <2>1. "itime" \in Name /\ "timestep_worker" \in Routine /\ 0 \in Nat  BY DEF Name, Routine
  <2>2. "timestep_worker" \in Name  BY <2>1, RoutineNames
  <2>3. Msg("itime", m) \in Message /\ Msg("timestep_worker", 0) \in Message
    BY <1>7, <2>1, <2>2, Letter
  <2>4. xs \in Seq(Message) /\ ms \in Seq(Message)  BY <1>4, <1>6, <1>11, <2>3, Single
  <2> QED  BY <1>11, <2>1, <2>4, EmptySeq, Zenon
<1>13. ASSUME NEW w \in Worker
       PROVE  Sound(u, w, Plus(State(w), ms, When(InGroupIn(u, w), xs),
                                             When(InGroupIn(u, w), L[w])), "stopped", m, o, d)
  <2>1. PICK s : s = State(w)  OBVIOUS
  <2>2. Sound(u, w, s, "timestep", n, o, d)  BY <1>3, <1>5, <2>1 DEF Inv, WorkersFollow
  <2>3. L[w] = e  BY <1>4, <1>11
  <2>4. CASE InGroupIn(u, w)
    <3>1. When(InGroupIn(u, w), xs) = xs /\ When(InGroupIn(u, w), L[w]) = e
      BY <2>3, <2>4 DEF When
    <3>2. Sound(u, w, Plus(s, ms, xs, e), "stopped", n+1, o, d)
      BY <1>3, <1>4, <1>11, <1>12, <2>2, <2>4, StopsHere
    <3> QED  BY <1>6, <2>1, <3>1, <3>2
  <2>5. CASE ~InGroupIn(u, w)
    <3> DEFINE x == When(InGroupIn(u, w), xs)
               l == When(InGroupIn(u, w), L[w])
    <3>1. Callable(u, w, "timestep_worker", xs, L[w], "timestep", n, o, d, "stopped", m, o, d)
      BY <2>5 DEF Callable, Sends
    <3>2. "timestep" \notin Over /\ "stopped" \notin Over \ {"stopped"}  BY DEF Over
    <3>3. CallFits(u, w, <<Msg("timestep_worker", 0)>>, x, l, "timestep", n, o, d,
                   "stopped", m, o, d)
      BY <1>3, <1>12, <3>1, <3>2, ToldFits
    <3>4. x = e /\ l = e  BY <1>11, <2>5 DEF When
    <3> HIDE DEF x, l
    <3>5. CallFits(u, w, ms, x, l, "timestep", n, o, d, "stopped", m, o, d)  BY <1>11, <3>3
    <3>6. Sound(u, w, Plus(s, ms, x, l), "stopped", m, o, d)
      BY <1>12, <2>2, <2>5, <3>2, <3>4, <3>5, CallSound
    <3> QED  BY <2>1, <3>6 DEF x, l
  <2> QED  BY <2>4, <2>5
<1>14. Sendable(u, "timestep_worker", xs, L)
  <2>1. \A w \in Worker : L[w] \in Seq(Message)  BY <1>4, <1>11, <1>12
  <2> QED  BY <1>12, <2>1 DEF Sendable
<1>15. RootTells(u, "stopped", m, o, d, "timestep_worker", xs, L)
  BY <1>3, <1>5, <1>8, <1>9, <1>10, <1>11, <1>13, <1>14, Zenon DEF RootTells
<1> QED  BY <1>15, SentInv

----------------------------------------------------------------------------
(* Every step.                                                             *)

\* The invariant is inductive: one case for each action.
LEMMA InvNext ==
  ASSUME Inv, FailuresInRoot, [Next]_vars
  PROVE  Inv'
<1>1. CASE SteadyFlow \/ ReadBlock \/ ReadBlockWrong  BY <1>1, BlocksInv
<1>2. CASE InitialFlow  BY <1>2, InitialFlowInv
<1>3. CASE SetFdtmth  BY <1>3, SetFdtmthInv
<1>4. CASE CDistribute  BY <1>4, CDistributeInv
<1>5. CASE PDistribute  BY <1>5, PDistributeInv
<1>6. CASE EndOfBlocks  BY <1>6, EndOfBlocksInv
<1>7. CASE BlocksRead  BY <1>7, BlocksReadInv
<1>8. CASE FlowFails  BY <1>8, FlowFailsInv
<1>9. CASE Timestep  BY <1>9, TimestepInv
<1>10. CASE Flow  BY <1>10, FlowInv
<1>11. CASE RunTransport  BY <1>11, RunTransportInv
<1>12. CASE SbcGather  BY <1>12, SbcGatherInv
<1>13. CASE SbcReceive  BY <1>13, SbcReceiveInv
<1>14. CASE CGather  BY <1>14, CGatherInv
<1>15. CASE CReceive  BY <1>15, CReceiveInv
<1>16. CASE React  BY <1>16, ReactInv
<1>17. CASE TimeStepSave  BY <1>17, TimeStepSaveInv
<1>18. CASE MpiWorkerBreak  BY <1>18, MpiWorkerBreakInv
<1>19. CASE Barrier  BY <1>19, BarrierInv
<1>20. CASE \E w \in Worker : WorkerStep(w)  BY <1>20, WorkerInv
<1>22. CASE TimestepStops  BY <1>22, TimestepStopsInv
<1>23. CASE ReactFails  BY <1>23, ReactFailsInv
<1>21. CASE UNCHANGED vars
  <2>1. /\ setup' = setup /\ at' = at /\ world' = world /\ xpcomm' = xpcomm /\ mail' = mail
        /\ up' = up /\ itime' = itime /\ own' = own /\ xp' = xp /\ c' = c
        /\ errexe' = errexe /\ errexi' = errexi
    BY <1>21 DEF vars, errors
  <2>2. Rank' = Rank /\ Worker' = Worker /\ Component' = Component
    BY <2>1 DEF Rank, Worker, Component
  <2>3. Types'  BY <2>1, <2>2 DEF Inv, Types
  <2>4. RootFacts' /\ WorkersSucceed'  BY <2>1, <2>2 DEF Inv, RootFacts, WorkersSucceed
  <2>5. ASSUME NEW w \in Worker PROVE State(w)' = State(w)
    <3>1. Mapped(w)' = Mapped(w)  BY <2>1, <2>2 DEF Mapped
    <3>2. Core(w)' = Core(w)  BY <2>1, <3>1 DEF Core
    <3> QED  BY <2>1, <3>2 DEF State
  <2>6. WorkersFollow'  BY <2>1, <2>2, <2>5 DEF Inv, WorkersFollow
  <2> QED  BY <2>3, <2>4, <2>6 DEF Inv
<1> QED
  BY <1>1, <1>2, <1>3, <1>4, <1>5, <1>6, <1>7, <1>8, <1>9, <1>10, <1>11, <1>12, <1>13, <1>14,
     <1>15, <1>16, <1>17, <1>18, <1>19, <1>20, <1>21, <1>22, <1>23, Zenon DEF Next, RootStep

----------------------------------------------------------------------------
(* The first state.                                                        *)

Zero == [time |-> 0, p |-> 0, frac |-> 0, flow |-> 0, deltim |-> 0, bc |-> 0, old |-> 0,
         timchg |-> 0]
Fresh(i) == [of |-> i, moved |-> 0, reacted |-> 0, bad |-> FALSE, with |-> [deltim |-> 0]]

\* What is there before the first call is of the types given above.
LEMMA FirstValues ==
  /\ Zero \in OwnT /\ Zero.bc = 0 /\ Zero.old = 0
  /\ \A i \in Nat : /\ Fresh(i) \in CT(i) /\ Fresh(i) \in AnyC /\ Fresh(i).moved = 0
                    /\ Fresh(i).reacted = 0 /\ ~Fresh(i).bad
  /\ \A i \in Nat : /\ [c |-> Fresh(i), bc |-> 0, old |-> 0] \in XpT(i)
                    /\ [c |-> Fresh(i), bc |-> 0, old |-> 0] \in UNION {XpT(j) : j \in Nat}
                    /\ [c |-> Fresh(i), bc |-> 0, old |-> 0].bc = 0
                    /\ [c |-> Fresh(i), bc |-> 0, old |-> 0].old = 0
<1>1. Zero \in OwnT /\ Zero.bc = 0 /\ Zero.old = 0  BY DEF Zero, OwnT, Fields
<1>2. [deltim |-> 0] \in WithT  BY DEF WithT
<1>3. ASSUME NEW i \in Nat
      PROVE  Fresh(i) \in CT(i) /\ Fresh(i).moved = 0 /\ Fresh(i).reacted = 0 /\ ~Fresh(i).bad
  <2>1. PICK e \in WithT : e = [deltim |-> 0]  BY <1>2
  <2>2. Fresh(i) = [of |-> i, moved |-> 0, reacted |-> 0, bad |-> FALSE, with |-> e]
    BY <2>1, Zenon DEF Fresh
  <2> QED  BY <2>2 DEF CT
<1>4. ASSUME NEW i \in Nat PROVE Fresh(i) \in AnyC  BY <1>3 DEF AnyC
<1>5. ASSUME NEW i \in Nat
      PROVE  /\ [c |-> Fresh(i), bc |-> 0, old |-> 0] \in XpT(i)
             /\ [c |-> Fresh(i), bc |-> 0, old |-> 0] \in UNION {XpT(j) : j \in Nat}
             /\ [c |-> Fresh(i), bc |-> 0, old |-> 0].bc = 0
             /\ [c |-> Fresh(i), bc |-> 0, old |-> 0].old = 0
  <2>1. PICK e \in CT(i) : e = Fresh(i)  BY <1>3
  <2>2. PICK x : x = [c |-> e, bc |-> 0, old |-> 0]  OBVIOUS
  <2>3. x \in XpT(i) /\ x.bc = 0 /\ x.old = 0  BY <2>2 DEF XpT
  <2>4. x \in UNION {XpT(j) : j \in Nat}  BY <2>3
  <2> QED  BY <2>1, <2>2, <2>3, <2>4
<1> QED  BY <1>1, <1>3, <1>4, <1>5

\* The invariant holds at first: every worker is already where the root counts on it.
LEMMA InvInit ==
  ASSUME Init
  PROVE  Inv
<1>1. PICK u : u = setup  OBVIOUS
<1>2. u \in Setups  BY <1>1 DEF Init
<1>3. PICK a : a = at[Root]  OBVIOUS
<1>4. Component = Comps(u)  BY <1>1, InForce
<1>5. /\ Rank = 0 .. u.tasks - 1 /\ Worker = Rank \ {Root} /\ Root \in Rank
  BY <1>1, <1>2, Workers
<1>6. /\ at = [r \in Rank |-> IF r # Root THEN "loop"
                             ELSE IF setup.steady THEN "start" ELSE "flow0"]
      /\ world = [w \in Worker |-> <<>>] /\ xpcomm = world /\ mail = world /\ up = world
      /\ itime = [r \in Rank |-> 0] /\ own = [r \in Rank |-> Zero]
      /\ errexe = [r \in Rank |-> FALSE] /\ errexi = FALSE
  BY Zenon DEF Init, Zero
<1>7. /\ c = [i \in Component |-> Fresh(i)]
      /\ xp = [i \in Component |-> [c |-> c[i], bc |-> 0, old |-> 0]]
  BY Zenon DEF Init, Fresh
<1>8. a \in {"start", "flow0"} /\ at[Root] = a /\ \A w \in Worker : at[w] = "loop"
  BY <1>3, <1>5, <1>6
<1>9. \A i \in Comps(u) : i \in Nat
  <2>1. u.ns \in Nat \ {0}  BY <1>2, Processes
  <2> QED  BY <2>1 DEF Comps
<1>10. \A i \in Comps(u) : c[i] = Fresh(i)  BY <1>4, <1>7
<1>11. \A i \in Comps(u) : xp[i] = [c |-> Fresh(i), bc |-> 0, old |-> 0]
  BY <1>4, <1>7, <1>10
<1>12. <<>> \in Seq(Message)  BY EmptySeq, Zenon
<1>13. c \in DataT(u)
  <2>1. \A i \in Comps(u) : c[i] \in CT(i) /\ c[i] \in AnyC  BY <1>9, <1>10, FirstValues
  <2>2. c = [i \in Comps(u) |-> c[i]]  BY <1>4, <1>7
  <2>3. c \in [Comps(u) -> AnyC]  BY <2>1, <2>2
  <2> QED  BY <2>1, <2>3 DEF DataT
<1>14. \A i \in Comps(u) : /\ xp[i] \in XpT(i) /\ xp[i] \in UNION {XpT(j) : j \in Nat}
                           /\ xp[i].bc = 0 /\ xp[i].old = 0
  BY <1>9, <1>11, FirstValues
<1>15. Types
  <2>1. \A r \in Rank : at[r] \in RootAt \cup {"loop"}
    BY <1>6 DEF RootAt
  <2>2. at = [r \in Rank |-> at[r]]  BY <1>6
  <2>3. at \in [Rank -> RootAt \cup {"loop"}]  BY <2>1, <2>2
  <2>4. at[Root] \in RootAt  BY <1>8 DEF RootAt
  <2>5. itime \in [Rank -> Nat] /\ itime[Root] = 0  BY <1>5, <1>6
  <2>6. itime[Root] \in 0 .. MaxSteps
    <3>1. MaxSteps \in Nat  BY TransportBounds
    <3> QED  BY <2>5, <3>1
  <2>7. own \in [Rank -> OwnT]  BY <1>6, FirstValues
  <2>8. /\ world \in [Worker -> Seq(Message)] /\ xpcomm \in [Worker -> Seq(Message)]
        /\ mail \in [Worker -> Seq(Message)] /\ up \in [Worker -> Seq(Message)]
    BY <1>6, <1>12
  <2>9. xp \in [Component -> UNION {XpT(i) : i \in Nat}]
    <3>1. xp = [i \in Component |-> xp[i]]  BY <1>7
    <3> QED  BY <1>4, <1>14, <3>1
  <2>10. \A i \in Component : xp[i] \in XpT(i)  BY <1>4, <1>14
  <2>11. errexe \in [Rank -> BOOLEAN] /\ errexi \in BOOLEAN  BY <1>6
  <2>12. setup \in Setups /\ c \in DataT(setup)  BY <1>1, <1>2, <1>13
  <2> QED  BY <2>3, <2>4, <2>5, <2>6, <2>7, <2>8, <2>9, <2>10, <2>11, <2>12 DEF Types
<1>16. itime[Root] = 0 /\ own[Root] = Zero  BY <1>5, <1>6
<1>17. a \notin Before /\ a \notin Behind /\ a \notin During
  BY <1>8 DEF Before, Behind, During
<1>18. ASSUME NEW r PROVE \A i \in MappedIn(u, r) : i \in Comps(u)  BY DEF MappedIn
<1>19. RootFacts
  <2>1. \A i \in Comps(u) : c[i].moved = 0  BY <1>9, <1>10, FirstValues
  <2>2. XpFollows(u, Root, xp, a, Zero, c)
    BY <1>14, <1>17, <1>18, FirstValues DEF XpFollows
  <2>3. RootFactsAt(u, a, 0, Zero, c, xp)
    BY <1>8, <1>17, <2>1, <2>2 DEF RootFactsAt
  <2> QED  BY <1>1, <1>8, <1>16, <2>3 DEF RootFacts
<1>20. WorkersSucceed
  <2>1. \A w \in Worker : w \in Rank  BY <1>5
  <2> QED  BY <1>6, <2>1 DEF WorkersSucceed
<1>21. ASSUME NEW w \in Worker PROVE Sound(u, w, State(w), a, 0, Zero, c)
  <2>1. PICK v, s : v = w /\ s = State(w)  OBVIOUS
  <2>2. PICK x : x = [i \in MappedIn(u, v) |-> xp[i]]  OBVIOUS
  <2>3. x \in XpsT(u, v)
    BY <1>14, <1>18, <2>2 DEF XpsT
  <2>4. PICK k : k = [at |-> "loop", itime |-> 0, own |-> Zero, xp |-> x]  OBVIOUS
  <2>5. Core(w) = k
    <3>1. Mapped(w) = MappedIn(u, v)  BY <1>1, <2>1, InForce
    <3>2. [i \in Mapped(w) |-> xp[i]] = x  BY <2>2, <3>1
    <3>3. at[w] = "loop" /\ itime[w] = 0 /\ own[w] = Zero  BY <1>5, <1>6, <1>8
    <3> QED  BY <2>4, <3>2, <3>3, Zenon DEF Core
  <2>6. s = [core |-> k, up |-> <<>>, world |-> <<>>, xpcomm |-> <<>>, mail |-> <<>>]
    <3>1. world[w] = <<>> /\ xpcomm[w] = <<>> /\ mail[w] = <<>> /\ up[w] = <<>>
      BY <1>6
    <3> QED  BY <2>1, <2>5, <3>1, Zenon DEF State
  <2>7. k \in CoreT(u, v) /\ k.at = "loop" /\ k.itime = 0 /\ k.own = Zero /\ k.xp = x
    BY <2>3, <2>4, FirstValues DEF CoreT
  <2>8. /\ s \in StateT(u, v) /\ s.core = k /\ s.up = <<>> /\ Idle(s)
    <3>1. PICK e \in Seq(Message) : e = <<>>  BY <1>12, Zenon
    <3>2. s = [core |-> k, up |-> e, world |-> e, xpcomm |-> e, mail |-> e]
      BY <2>6, <3>1, Zenon
    <3>3. /\ s \in StateT(u, v) /\ s.core = k /\ s.up = e /\ s.world = e
          /\ s.xpcomm = e /\ s.mail = e
      BY <2>7, <3>2 DEF StateT
    <3> QED  BY <3>1, <3>3, Zenon DEF Idle
  <2>9. PICK d : d = c  OBVIOUS
  <2>10. XpFollows(u, v, x, a, Zero, d)
    BY <1>14, <1>17, <1>18, <2>2, FirstValues DEF XpFollows
  <2>11. Sends(u, v, a, Zero, d) = <<>>  BY <1>8, Zenon DEF Sends
  <2>12. Follows(u, v, s, a, 0, Zero, d)
    BY <1>8, <2>7, <2>8, <2>10, <2>11 DEF Follows
  <2>13. Comes(u, v, s, s)  BY <2>8, ComesNone
  <2>14. Sound(u, v, s, a, 0, Zero, d)  BY <1>8, <2>8, <2>12, <2>13, RestsIdle DEF Sound
  <2> QED  BY <2>1, <2>9, <2>14
<1>22. WorkersFollow  BY <1>1, <1>8, <1>16, <1>21 DEF WorkersFollow
<1> QED  BY <1>15, <1>19, <1>20, <1>22 DEF Inv

----------------------------------------------------------------------------
(* What follows from the invariant.                                        *)

\* No worker is ahead of the root in the steps.
LEMMA NotAhead ==
  ASSUME Inv, NEW w \in Worker
  PROVE  itime[w] <= itime[Root]
<1>1. Types /\ WorkersFollow  BY DEF Inv
<1>2. PICK n : n = itime[Root]  OBVIOUS
<1>3. n \in Nat /\ itime[w] \in Nat /\ MaxSteps \in Nat
  <2>1. MaxSteps \in Nat  BY TransportBounds
  <2>2. w \in Rank /\ n \in 0 .. MaxSteps  BY <1>1, <1>2 DEF Types, Worker
  <2> QED  BY <1>1, <2>1, <2>2 DEF Types
<1>4. PICK u, v, s, a, o, d : /\ u = setup /\ v = w /\ s = State(w) /\ a = at[Root]
                              /\ o = own[Root] /\ d = c
  OBVIOUS
<1>5. Sound(u, v, s, a, n, o, d)  BY <1>1, <1>2, <1>4 DEF WorkersFollow
<1>6. PICK t \in StateT(u, v) : Comes(u, v, s, t) /\ Follows(u, v, t, a, n, o, d)
  BY <1>5 DEF Sound
<1>7. Leads(s, t)  BY <1>6, ComesFirst
<1>8. t.core.itime \in {0, n, n-1}  BY <1>6 DEF Follows
<1>9. s.core.itime = itime[w]
  <2>1. s.core = Core(w)  BY <1>4 DEF State
  <2>2. Core(w).itime = itime[w]  BY DEF Core
  <2> QED  BY <2>1, <2>2
<1>10. itime[w] <= t.core.itime  BY <1>7, <1>9 DEF Leads
<1> QED  BY <1>2, <1>3, <1>8, <1>10

\* The invariant implies the types.
LEMMA InvTypeOK == Inv => TypeOK
<1> SUFFICES ASSUME Inv PROVE TypeOK  OBVIOUS
<1>1. Types  BY DEF Inv
<1>2. at \in [Rank -> {"start", "flow0", "fdtmth", "c", "p", "read", "timestep", "flow",
                      "transport", "sbc", "sbc wait", "gather", "c wait", "gathered", "save",
                      "exit", "loop", "barrier", "stopped", "exited", "done"}]
  BY <1>1 DEF Types, RootAt
<1>3. itime \in [Rank -> 0 .. MaxSteps]
  <2>1. MaxSteps \in Nat  BY TransportBounds
  <2>2. itime \in [Rank -> Nat] /\ itime[Root] \in 0 .. MaxSteps  BY <1>1 DEF Types
  <2>3. ASSUME NEW r \in Rank PROVE itime[r] \in 0 .. MaxSteps
    <3>1. CASE r = Root  BY <2>2, <3>1
    <3>2. CASE r # Root
      <4>1. itime[r] <= itime[Root]  BY <2>3, <3>2, NotAhead DEF Worker
      <4>2. itime[r] \in Nat  BY <2>2
      <4> QED  BY <2>1, <2>2, <4>1, <4>2
    <3> QED  BY <3>1, <3>2
  <2> QED  BY <2>2, <2>3
<1>4. own \in [Rank -> [{"time", "p", "frac", "flow", "deltim", "bc", "old", "timchg"} -> Nat]]
  BY <1>1 DEF Types, OwnT, Fields
<1>5. ASSUME NEW i \in Component PROVE xp[i].c.of = i /\ c[i].of = i
  <2>1. xp[i] \in XpT(i)  BY <1>1 DEF Types
  <2>2. xp[i].c \in CT(i)  BY <2>1 DEF XpT
  <2>3. i \in Comps(setup)  BY DEF Component, Comps
  <2>4. c[i] \in CT(i)  BY <1>1, <2>3 DEF Types, DataT
  <2>5. \A e \in CT(i) : e.of = i  BY DEF CT
  <2> QED  BY <2>2, <2>4, <2>5
<1> QED  BY <1>1, <1>2, <1>3, <1>4, <1>5 DEF Types, TypeOK

----------------------------------------------------------------------------
(* One process does the same.                                              *)

\* The components are known by their numbers, and there is a first one.
LEMMA TheComponents ==
  ASSUME Inv
  PROVE  /\ DOMAIN c = Comps(setup) /\ 1 \in Comps(setup)
         /\ setup \in Setups /\ setup.solute \in BOOLEAN
<1>1. setup \in Setups /\ c \in DataT(setup)  BY DEF Inv, Types
<1>2. PICK u : u = setup  OBVIOUS
<1>3. u.ns \in Nat \ {0} /\ u.solute \in BOOLEAN  BY <1>1, <1>2, Processes
<1>4. 1 \in Comps(u)  BY <1>3 DEF Comps
<1> QED  BY <1>1, <1>2, <1>3, <1>4 DEF DataT

\* The components are transported and have not yet reacted.
InBetween == setup.solute /\ at[Root] \in {"gathered", "exited"}

\* The first state is one of the serial loop.
LEMMA SerialFirst ==
  ASSUME Inv, Init
  PROVE  Serial!SerialInit
<1>1. c = [i \in Component |-> Fresh(i)]  BY Zenon DEF Init, Fresh
<1>2. DOMAIN c = Comps(setup) /\ 1 \in Comps(setup)  BY TheComponents
<1>3. Component = Comps(setup)  BY DEF Component, Comps
<1>4. \A i \in Comps(setup) : i \in Nat
  <2>1. PICK u : u = setup  OBVIOUS
  <2>2. u.ns \in Nat \ {0}  BY <2>1, Processes DEF Init
  <2> QED  BY <2>1, <2>2 DEF Comps
<1>5. \A i \in Comps(setup) : c[i].moved = 0 /\ c[i].reacted = 0 /\ ~c[i].bad
  BY <1>1, <1>3, <1>4, FirstValues
<1>6. Root \in Rank
  <2>1. PICK u : u = setup  OBVIOUS
  <2> QED  BY <2>1, Workers DEF Init
<1>7. at[Root] \notin {"gathered", "exited"}  BY <1>6 DEF Init
<1> QED  BY <1>2, <1>5, <1>7 DEF Serial!SerialInit, Serial!Component

\* What a step does that neither transports nor reacts.
Unseen ==
  /\ c' = c /\ setup' = setup
  /\ setup.solute => (at'[Root] \in {"gathered", "exited"} <=> at[Root] \in {"gathered", "exited"})

\* Such a step is none of the serial loop.
LEMMA UnseenStutters ==
  ASSUME Inv, Unseen
  PROVE  UNCHANGED Serial!svars
<1>1. setup.solute \in BOOLEAN  BY TheComponents
<1>2. /\ c' = c /\ setup' = setup
      /\ setup.solute =>
           (at'[Root] \in {"gathered", "exited"} <=> at[Root] \in {"gathered", "exited"})
  BY DEF Unseen
<1>3. c'[1].moved = c[1].moved  BY <1>2
<1>4. (IF InBetween THEN "transported" ELSE "reacted")'
        = IF InBetween THEN "transported" ELSE "reacted"
  BY <1>1, <1>2 DEF InBetween
<1> QED  BY <1>2, <1>3, <1>4 DEF Serial!svars, InBetween

\* When the root has gathered, the serial loop has transported: all components, once, with
\* the same data.
LEMMA CReceiveTransports ==
  ASSUME Inv, CReceive
  PROVE  Serial!Transport
<1>1. PICK u, a, n, o, d : Here(u, a, n, o, d)  BY Zenon DEF Here
<1>2. RootHas(u, a, n, o, d)  BY <1>1, RootHere
<1>3. /\ u \in Setups /\ setup = u /\ a = at[Root] /\ Root \in Rank /\ c = d
      /\ n \in Nat /\ n \in 0 .. MaxSteps /\ o \in OwnT /\ d \in DataT(u)
      /\ at \in [Rank -> RootAt \cup {"loop"}]
  BY <1>2, Zenon DEF RootHas, Inv, Types
<1>4. at[Root] = "c wait" /\ at' = [at EXCEPT ![Root] = "gathered"] /\ setup' = setup
  BY DEF CReceive, Goes
<1>5. PICK e : e = AllMoved(u, o, d)  OBVIOUS
<1>6. /\ c' = e /\ u.solute /\ o.deltim = n /\ \A i \in Comps(u) : d[i].moved = n - 1
  BY <1>1, <1>5, Gathered
<1>7. \A i \in Comps(u) : e[i].moved = d[i].moved + 1  BY <1>3, <1>5, AllMovedType
<1>8. DOMAIN c = Comps(u) /\ 1 \in Comps(u)  BY <1>3, TheComponents
<1>9. PICK data : data = [deltim |-> o.deltim, data |-> o, bcs |-> o.bc, olds |-> o.old]
  OBVIOUS
<1>10. \A i \in Comps(u) : e[i] = [d[i] EXCEPT !.moved = @+1, !.with = data]
  BY <1>5, <1>9 DEF AllMoved, MovedIn
<1>11. e = [i \in Comps(u) |-> [d[i] EXCEPT !.moved = @+1, !.with = data]]
  BY <1>5, <1>9, Zenon DEF AllMoved, MovedIn
<1>12. e[1].with = data
  <2>1. PICK f \in CT(1) : f = d[1]  BY <1>3, <1>8 DEF DataT
  <2>2. e[1] = [f EXCEPT !.moved = @+1, !.with = data]  BY <1>8, <1>10, <2>1
  <2> QED  BY <2>2 DEF CT
<1>13. e[1].moved = d[1].moved + 1 /\ data.deltim = n /\ e[1].moved = n
  <2>1. e[1].moved = d[1].moved + 1 /\ d[1].moved = n - 1  BY <1>6, <1>7, <1>8
  <2>2. data.deltim = n  BY <1>6, <1>9
  <2> QED  BY <1>3, <2>1, <2>2
<1>14. data \in {c'[i].with : i \in Serial!Component}
  BY <1>6, <1>8, <1>12 DEF Serial!Component
<1>15. c' = [i \in Serial!Component |-> [c[i] EXCEPT !.moved = @+1, !.with = data]]
  BY <1>3, <1>6, <1>8, <1>11, Zenon DEF Serial!Component
<1>16. data.deltim = c'[1].moved /\ c'[1].moved = c[1].moved + 1
  BY <1>3, <1>6, <1>13
<1>17. (IF InBetween THEN "transported" ELSE "reacted") = "reacted"
  BY <1>4 DEF InBetween
<1>18. (IF InBetween THEN "transported" ELSE "reacted")'
         = "transported"
  <2>1. at'[Root] = "gathered" /\ setup'.solute  BY <1>3, <1>4, <1>6
  <2> QED  BY <2>1 DEF InBetween
<1> QED  BY <1>14, <1>15, <1>16, <1>17, <1>18, Zenon DEF Serial!Transport, InBetween

\* The reactions are those of the serial loop; without solute there are no components to
\* react.
LEMMA ReactReacts ==
  ASSUME Inv, React
  PROVE  Serial!React \/ UNCHANGED Serial!svars
<1>1. /\ at[Root] = "gathered" /\ at' = [at EXCEPT ![Root] = "save"] /\ setup' = setup
      /\ c' = IF setup.solute THEN [i \in Component |-> [c[i] EXCEPT !.reacted = @+1]] ELSE c
  BY DEF React, Goes
<1>2. Root \in Rank /\ at \in [Rank -> RootAt \cup {"loop"}]
  <2>1. PICK u : u = setup  OBVIOUS
  <2>2. Types  BY DEF Inv
  <2> QED  BY <2>1, <2>2, Workers DEF Types
<1>3. at'[Root] = "save"  BY <1>1, <1>2
<1>4. DOMAIN c = Comps(setup) /\ 1 \in Comps(setup) /\ setup.solute \in BOOLEAN
  BY TheComponents
<1>5. CASE setup.solute
  <2>1. PICK d : d = c  OBVIOUS
  <2>2. d \in DataT(setup)  BY <2>1 DEF Inv, Types
  <2>3. c' = [i \in Serial!Component |-> [c[i] EXCEPT !.reacted = @+1]]
    BY <1>1, <1>4, <1>5, Zenon DEF Serial!Component, Component, Comps
  <2>4. c'[1].moved = c[1].moved
    <3>1. PICK f \in CT(1) : f = d[1]  BY <1>4, <2>2 DEF DataT
    <3>2. c'[1] = [f EXCEPT !.reacted = @+1]
      BY <1>4, <2>1, <2>3, <3>1 DEF Serial!Component
    <3> QED  BY <2>1, <3>1, <3>2 DEF CT
  <2>5. (IF InBetween THEN "transported" ELSE "reacted")
          = "transported"
    BY <1>1, <1>5 DEF InBetween
  <2>6. (IF InBetween THEN "transported" ELSE "reacted")'
          = "reacted"
    BY <1>3 DEF InBetween
  <2> QED  BY <2>3, <2>4, <2>5, <2>6, Zenon DEF Serial!React, InBetween
<1>6. CASE ~setup.solute
  <2>1. Unseen  BY <1>1, <1>6 DEF Unseen
  <2> QED  BY <2>1, UnseenStutters
<1> QED  BY <1>4, <1>5, <1>6

\* A step of the root that goes from one place to another, neither of them in between.
LEMMA Passes ==
  ASSUME Inv, c' = c, setup' = setup, NEW a, NEW b, Goes(Root, a, b),
         a \notin {"gathered", "exited"}, setup.solute => b \notin {"gathered", "exited"}
  PROVE  Unseen
<1>1. Root \in Rank /\ at \in [Rank -> RootAt \cup {"loop"}]
  <2>1. PICK u : u = setup  OBVIOUS
  <2>2. Types  BY DEF Inv
  <2> QED  BY <2>1, <2>2, Workers DEF Types
<1>2. at'[Root] = b /\ at[Root] = a  BY <1>1 DEF Goes
<1> QED  BY <1>2 DEF Unseen

\* Each step of the processes is one step of the serial loop or none.
LEMMA SerialStep ==
  ASSUME Inv, [Next]_vars
  PROVE  [Serial!Transport \/ Serial!React]_Serial!svars
<1>0. setup.solute \in BOOLEAN  BY TheComponents
<1>1. CASE SteadyFlow
  <2>1. c' = c /\ setup' = setup /\ Goes(Root, "start", "flow0")  BY <1>1 DEF SteadyFlow
  <2> QED  BY <2>1, Passes, UnseenStutters
<1>2. CASE InitialFlow
  <2>1. PICK b : b = IF setup.solute \/ ~setup.steady THEN "fdtmth" ELSE "exit"  OBVIOUS
  <2>2. c' = c /\ setup' = setup /\ Goes(Root, "flow0", b)
    BY <1>2, <2>1 DEF InitialFlow, errors
  <2>3. b \notin {"gathered", "exited"}  BY <2>1
  <2> QED  BY <2>2, <2>3, Passes, UnseenStutters
<1>3. CASE SetFdtmth
  <2>1. c' = c /\ setup' = setup /\ Goes(Root, "fdtmth", "c")  BY <1>3 DEF SetFdtmth
  <2> QED  BY <2>1, Passes, UnseenStutters
<1>4. CASE CDistribute
  <2>1. c' = c /\ setup' = setup /\ Goes(Root, "c", "p")  BY <1>4 DEF CDistribute
  <2> QED  BY <2>1, Passes, UnseenStutters
<1>5. CASE PDistribute
  <2>1. c' = c /\ setup' = setup /\ Goes(Root, "p", "read")  BY <1>5 DEF PDistribute
  <2> QED  BY <2>1, Passes, UnseenStutters
<1>6. CASE ReadBlock
  <2>1. c' = c /\ setup' = setup /\ Goes(Root, "read", "read")  BY <1>6 DEF ReadBlock
  <2> QED  BY <2>1, Passes, UnseenStutters
<1>7. CASE ReadBlockWrong
  <2>1. c' = c /\ setup' = setup /\ Goes(Root, "read", "timestep")
    BY <1>7 DEF ReadBlockWrong
  <2> QED  BY <2>1, Passes, UnseenStutters
<1>8. CASE EndOfBlocks
  <2>1. c' = c /\ setup' = setup /\ Goes(Root, "read", "exit")  BY <1>8 DEF EndOfBlocks
  <2> QED  BY <2>1, Passes, UnseenStutters
<1>9. CASE BlocksRead
  <2>1. c' = c /\ setup' = setup /\ Goes(Root, "read", "timestep")  BY <1>9 DEF BlocksRead
  <2> QED  BY <2>1, Passes, UnseenStutters
<1>10. CASE FlowFails
  <2>1. c' = c /\ setup' = setup /\ Goes(Root, "timestep", "exit")  BY <1>10 DEF FlowFails
  <2> QED  BY <2>1, Passes, UnseenStutters
<1>11. CASE Timestep
  <2>1. PICK b : b = IF setup.steady THEN "transport" ELSE "flow"  OBVIOUS
  <2>2. c' = c /\ setup' = setup /\ Goes(Root, "timestep", b)
    BY <1>11, <2>1 DEF Timestep
  <2>3. b \notin {"gathered", "exited"}  BY <2>1
  <2> QED  BY <2>2, <2>3, Passes, UnseenStutters
<1>12. CASE Flow
  <2>1. c' = c /\ setup' = setup /\ Goes(Root, "flow", "transport")  BY <1>12 DEF Flow
  <2> QED  BY <2>1, Passes, UnseenStutters
<1>13. CASE RunTransport
  <2>1. PICK b : b = IF errexe'[Root] \/ errexi THEN "exit" ELSE "sbc"  OBVIOUS
  <2>2. c' = c /\ setup' = setup /\ Goes(Root, "transport", b)
    BY <1>13, <2>1 DEF RunTransport
  <2>3. b \notin {"gathered", "exited"}  BY <2>1
  <2> QED  BY <2>2, <2>3, Passes, UnseenStutters
<1>14. CASE SbcGather
  <2>1. PICK b : b = IF setup.solute /\ setup.sbc THEN "sbc wait" ELSE "gather"  OBVIOUS
  <2>2. c' = c /\ setup' = setup /\ Goes(Root, "sbc", b)  BY <1>14, <2>1 DEF SbcGather
  <2>3. b \notin {"gathered", "exited"}  BY <2>1
  <2> QED  BY <2>2, <2>3, Passes, UnseenStutters
<1>15. CASE SbcReceive
  <2>1. c' = c /\ setup' = setup /\ Goes(Root, "sbc wait", "gather")
    BY <1>15 DEF SbcReceive
  <2> QED  BY <2>1, Passes, UnseenStutters
<1>16. CASE CGather
  <2>1. PICK b : b = IF setup.solute THEN "c wait" ELSE "gathered"  OBVIOUS
  <2>2. c' = c /\ setup' = setup /\ Goes(Root, "gather", b)  BY <1>16, <2>1 DEF CGather
  <2>3. setup.solute => b \notin {"gathered", "exited"}  BY <2>1
  <2> QED  BY <2>2, <2>3, Passes, UnseenStutters
<1>17. CASE CReceive  BY <1>17, CReceiveTransports
<1>18. CASE React  BY <1>18, ReactReacts
<1>19. CASE TimeStepSave
  <2>1. PICK b : b = IF errexe[Root] THEN "exit" ELSE "c"  OBVIOUS
  <2>2. c' = c /\ setup' = setup /\ Goes(Root, "save", b)  BY <1>19, <2>1 DEF TimeStepSave
  <2>3. b \notin {"gathered", "exited"}  BY <2>1
  <2> QED  BY <2>2, <2>3, Passes, UnseenStutters
<1>20. CASE MpiWorkerBreak
  <2>1. c' = c /\ setup' = setup /\ Goes(Root, "exit", "barrier")
    BY <1>20 DEF MpiWorkerBreak
  <2> QED  BY <2>1, Passes, UnseenStutters
<1>21. Root \in Rank
  <2>1. PICK u : u = setup  OBVIOUS
  <2> QED  BY <2>1, Workers DEF Inv, Types
<1>22. CASE Barrier
  <2>1. c' = c /\ setup' = setup /\ at[Root] = "barrier" /\ at'[Root] = "done"
    BY <1>21, <1>22 DEF Barrier
  <2>2. Unseen  BY <2>1 DEF Unseen
  <2> QED  BY <2>2, UnseenStutters
<1>23. ASSUME NEW w \in Worker, WorkerStep(w) PROVE UNCHANGED Serial!svars
  <2>1. PICK u : u = setup  OBVIOUS
  <2>2. Types /\ u \in Setups  BY <2>1 DEF Inv, Types
  <2>3. Framed(w)  BY <1>23, <2>2, WorkerFrame
  <2>4. at'[Root] = at[Root]  BY <2>1, <2>2, <2>3, OthersStay
  <2>5. Unseen  BY <2>3, <2>4 DEF Unseen, Framed
  <2> QED  BY <2>5, UnseenStutters
<1>24. CASE UNCHANGED vars
  <2>1. c' = c /\ setup' = setup /\ at' = at  BY <1>24 DEF vars
  <2>2. Unseen  BY <2>1 DEF Unseen
  <2> QED  BY <2>2, UnseenStutters
<1>25. CASE TimestepStops
  <2>1. c' = c /\ setup' = setup /\ Goes(Root, "timestep", "stopped")
    BY <1>25 DEF TimestepStops
  <2> QED  BY <2>1, Passes, UnseenStutters
<1>26. CASE ReactFails
  <2>1. c' = c /\ setup' = setup /\ at[Root] = "gathered" /\ at'[Root] = "exited"
    BY <1>21, <1>26 DEF ReactFails
  <2>2. Unseen  BY <2>1 DEF Unseen
  <2> QED  BY <2>2, UnseenStutters
<1>27. RootStep => [Serial!Transport \/ Serial!React]_Serial!svars
  BY <1>1, <1>2, <1>3, <1>4, <1>5, <1>6, <1>7, <1>8, <1>9, <1>10, <1>11, <1>12, <1>13, <1>14,
     <1>15, <1>16, <1>17, <1>18, <1>19, <1>20, <1>25, <1>26 DEF RootStep
<1> QED  BY <1>22, <1>23, <1>24, <1>27 DEF Next

----------------------------------------------------------------------------
(* The theorems.                                                           *)

\* The invariant: each worker is on the way to what the root counts on.
LEMMA InvAlways == FailuresInRoot => (Spec => []Inv)
<1> SUFFICES ASSUME FailuresInRoot PROVE Spec => []Inv  OBVIOUS
<1>1. Init => Inv  BY InvInit
<1>2. Inv /\ [Next]_vars => Inv'  BY InvNext
<1> QED  BY <1>1, <1>2, PTL DEF Spec

\* In every process of every setup, whatever the order in which the workers take part in the
\* calls of the root, the variables keep their types, and no worker is ahead of the root's
\* number of time steps, provided solutions fail in the root only.
THEOREM TypeCorrect == FailuresInRoot => (Spec => []TypeOK)
<1> SUFFICES ASSUME FailuresInRoot PROVE Spec => []TypeOK  OBVIOUS
<1>1. Spec => []Inv  BY InvAlways
<1>2. Inv => TypeOK  BY InvTypeOK
<1> QED  BY <1>1, <1>2, PTL

\* The processes of the MPI build do together what one process does (c_distribute, the
\* transports of each process, c_gather and the reactions): for any number of processes,
\* transporters and components, however far the root runs ahead, provided solutions fail in
\* the root only.
THEOREM SerialImplemented == FailuresInRoot => (Spec => SameAsSerial)
<1> SUFFICES ASSUME FailuresInRoot PROVE Spec => Serial!SerialSpec  BY DEF SameAsSerial
<1>1. Spec => []Inv  BY InvAlways
<1>2. Init => Inv  BY InvInit
<1>3. Inv /\ Init => Serial!SerialInit  BY SerialFirst
<1>4. Inv /\ [Next]_vars => [Serial!Transport \/ Serial!React]_Serial!svars  BY SerialStep
<1> QED  BY <1>1, <1>2, <1>3, <1>4, PTL DEF Spec, Serial!SerialSpec
=============================================================================
