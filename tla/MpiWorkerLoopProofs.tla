------------------------ MODULE MpiWorkerLoopProofs ------------------------
(***************************************************************************)
(* What keeps the processes of the MPI build together, for any number of   *)
(* processes, calls, ranges and saved states, and with every fault that    *)
(* MpiWorkerLoop knows.                                                    *)
(*                                                                         *)
(* The messages on their way to a worker determine where it will be when   *)
(* it has taken them all.  The invariant says that this is where the root  *)
(* is, or that the worker is waiting for what never comes or is lost.      *)
(***************************************************************************)
EXTENDS MpiWorkerLoop, SequenceTheorems, TLAPS

----------------------------------------------------------------------------
(* A worker by itself.                                                     *)

WorkerAt == {"loop", "fraction", "mask", "saturation", "save", "apply", "delete",
             "checked", "ran", "balancing", "newmask", "newsaturation", "leaving",
             "ended", "lost"}
Method   == {"fraction", "mask", "saturation", "save", "apply", "delete"}
Call     == (Method \cup {"run"}) \X Nat
Part     == [value : {0, 1}, cut : Cuts]

\* What can be on its way to a worker, and to the root.
Message ==
  [kind : {"method"}, value : Method \cup {"run", "break"}] \cup
  [kind : {"value"}, value : Nat] \cup [kind : {"part"}, value : Part] \cup
  [kind : {"count"}, value : BOOLEAN] \cup [kind : {"cut"}, value : Cuts \cup {NoCut}] \cup
  [kind : {"leave"}, value : {0}]
Answer ==
  [kind : {"error"}, value : BOOLEAN] \cup [kind : {"time", "here"}, value : {0}]

\* All that a worker has.
StateT ==
  [at : WorkerAt, fraction : {0, 1}, cut : Cuts, saved : [StateIds -> Cuts \cup {NoState}],
   check : BOOLEAN, part : [Arrays -> Part], log : Seq(Call), result : {"none", "ok", "fail"}]

State(w) ==
  [at |-> at[w], fraction |-> fraction[w], cut |-> cut[w], saved |-> saved[w],
   check |-> needCheck[w], part |-> part[w], log |-> log[w], result |-> result[w]]

\* Where it has just sent something to the root and waits for what comes back.
Replies(s) == s.at \in {"checked", "ran", "balancing", "leaving"}

\* The message is of the kind that the worker takes part in next.
Fits(s, m) ==
  /\ s.at \in DOMAIN Expected
  /\ m.kind = Expected[s.at]
  /\ m.kind = "part" => m.value.cut = s.cut

NoZero(s) == 0 \notin StateIds \/ s.saved[0] = NoState

AfterAt(s, m) ==
  IF ~ Fits(s, m) THEN "lost"
  ELSE IF s.at = "loop" THEN
    IF m.value = "break" THEN "ended"
    ELSE IF m.value = "run" THEN (IF s.check THEN "checked" ELSE "ran")
    ELSE IF m.value \in {"apply", "delete"} /\ NoZero(s) THEN "loop"
    ELSE m.value
  ELSE IF s.at \in {"checked", "ran"} THEN
    IF m.value = TRUE THEN "leaving"
    ELSE IF s.at = "checked" THEN "ran"
    ELSE IF s.fraction = 0 THEN "leaving" ELSE "balancing"
  ELSE IF s.at = "balancing" THEN
    IF m.value = NoCut THEN "loop" ELSE IF m.value = s.cut THEN "leaving" ELSE "newmask"
  ELSE IF s.at = "newmask" THEN "newsaturation"
  ELSE IF s.at = "newsaturation" THEN "leaving"
  ELSE "loop"

AfterFraction(s, m) == IF Fits(s, m) /\ s.at = "fraction" THEN m.value ELSE s.fraction

AfterCut(s, m) ==
  IF Fits(s, m) /\ s.at = "apply" THEN s.saved[m.value]
  ELSE IF Fits(s, m) /\ s.at = "balancing" /\ m.value # NoCut THEN m.value
  ELSE s.cut

AfterSaved(s, m) ==
  IF Fits(s, m) /\ s.at = "save" THEN [s.saved EXCEPT ![m.value] = s.cut]
  ELSE IF Fits(s, m) /\ s.at = "delete" THEN [s.saved EXCEPT ![m.value] = NoState]
  ELSE s.saved

AfterCheck(s, m) ==
  IF Fits(s, m) /\ s.at = "loop" /\ m.value = "run" THEN FALSE ELSE s.check

AfterPart(s, m) ==
  IF Fits(s, m) /\ s.at \in {"mask", "newmask"} THEN [s.part EXCEPT !["mask"] = m.value]
  ELSE IF Fits(s, m) /\ s.at \in {"saturation", "newsaturation"}
  THEN [s.part EXCEPT !["saturation"] = m.value]
  ELSE s.part

AfterLog(s, m) ==
  IF Fits(s, m) /\ s.at = "loop" /\ m.value = "run" THEN Append(s.log, <<"run", 0>>)
  ELSE IF Fits(s, m) /\ s.at \in Arrays THEN Append(s.log, <<s.at, m.value.value>>)
  ELSE IF Fits(s, m) /\ s.at \in Method \ Arrays THEN Append(s.log, <<s.at, m.value>>)
  ELSE s.log

AfterResult(s, m) ==
  IF Fits(s, m) /\ s.at \in {"checked", "ran"} THEN (IF m.value = TRUE THEN "fail" ELSE "ok")
  ELSE IF Fits(s, m) /\ s.at = "balancing" /\ m.value = NoCut THEN "fail"
  ELSE s.result

\* What the worker has after it has taken the message, if no transfer fails.
After(s, m) ==
  [at |-> AfterAt(s, m), fraction |-> AfterFraction(s, m), cut |-> AfterCut(s, m),
   saved |-> AfterSaved(s, m), check |-> AfterCheck(s, m), part |-> AfterPart(s, m),
   log |-> AfterLog(s, m), result |-> AfterResult(s, m)]

\* What it has after a transfer has failed at this worker only.
AfterFailure(s) ==
  [at |-> "loop", fraction |-> s.fraction, cut |-> s.cut, saved |-> s.saved,
   check |-> s.check, part |-> s.part, log |-> s.log, result |-> "fail"]

Prefix(s, t) == Len(s) <= Len(t) /\ \A i \in 1 .. Len(s) : s[i] = t[i]

\* What never changes back while messages are taken.
Leads(s, t) == Prefix(s.log, t.log) /\ (s.at = "lost" => t.at = "lost")

\* A worker with s comes to t by taking the messages ch, and sends nothing in between.
Drains(s, ch, t) ==
  \E h \in [Nat -> StateT] :
    /\ h[0] = s /\ h[Len(ch)] = t
    /\ \A i \in 1 .. Len(ch) : h[i] = After(h[i-1], ch[i]) /\ Leads(h[i-1], t)
    /\ \A i \in 1 .. Len(ch) - 1 : ~ Replies(h[i])

----------------------------------------------------------------------------
(* Taking messages.                                                        *)

LEMMA ExpectedFacts ==
  /\ DOMAIN Expected = {"loop", "fraction", "mask", "saturation", "save", "apply", "delete",
       "checked", "ran", "gathering", "balancing", "newmask", "newsaturation", "joining",
       "failing", "leaving"}
  /\ Expected["loop"] = "method" /\ Expected["fraction"] = "value"
  /\ Expected["mask"] = "part" /\ Expected["saturation"] = "part"
  /\ Expected["save"] = "value" /\ Expected["apply"] = "value" /\ Expected["delete"] = "value"
  /\ Expected["checked"] = "count" /\ Expected["ran"] = "count"
  /\ Expected["balancing"] = "cut" /\ Expected["newmask"] = "part"
  /\ Expected["newsaturation"] = "part" /\ Expected["leaving"] = "leave"
  BY DEF Expected

LEMMA Ranks ==
  /\ Root \in Rank /\ Root \notin Worker /\ \A w \in Worker : w \in Rank /\ w # Root
  /\ \E w \in Worker : TRUE
  BY TasksAssumption DEF Root, Rank, Worker

\* A message of some kind has a value of this kind.
LEMMA MessageFacts ==
  ASSUME NEW m \in Message
  PROVE  /\ m.kind \in {"method", "value", "part", "count", "cut", "leave"}
         /\ m.kind = "method" => m.value \in Method \cup {"run", "break"}
         /\ m.kind = "value" => m.value \in Nat
         /\ m.kind = "part" => m.value \in Part
         /\ m.kind = "count" => m.value \in BOOLEAN
         /\ m.kind = "cut" => m.value \in Cuts \cup {NoCut}
  BY DEF Message

LEMMA StateEqual ==
  ASSUME NEW s \in StateT, NEW t \in StateT,
         s.at = t.at, s.fraction = t.fraction, s.cut = t.cut, s.saved = t.saved,
         s.check = t.check, s.part = t.part, s.log = t.log, s.result = t.result
  PROVE  s = t
  BY DEF StateT

LEMMA PrefixFacts ==
  /\ \A s : Len(s) \in Int => Prefix(s, s)
  /\ \A s, t, u : Len(s) \in Int /\ Len(t) \in Int /\ Len(u) \in Int
                   /\ Prefix(s, t) /\ Prefix(t, u) => Prefix(s, u)
  /\ \A s \in Seq(Call), c \in Call : Prefix(s, Append(s, c))
  BY DEF Prefix

LEMMA LeadsFacts ==
  ASSUME NEW s \in StateT, NEW t \in StateT, NEW u \in StateT
  PROVE  /\ Leads(s, s)
         /\ Leads(s, t) /\ Leads(t, u) => Leads(s, u)
<1>1. Len(s.log) \in Int /\ Len(t.log) \in Int /\ Len(u.log) \in Int
  BY LenProperties DEF StateT
<1> QED  BY <1>1, PrefixFacts DEF Leads

\* The argument is one that the method can have.
Proper(s, m) ==
  /\ s.at = "fraction" => m.value \in {0, 1}
  /\ s.at \in {"save", "apply", "delete"} => m.value \in StateIds
  /\ s.at = "apply" => s.saved[m.value] # NoState

\* The parts of what a worker has after a message.
LEMMA AfterFields ==
  \A s, m : /\ After(s, m).at = AfterAt(s, m) /\ After(s, m).fraction = AfterFraction(s, m)
            /\ After(s, m).cut = AfterCut(s, m) /\ After(s, m).saved = AfterSaved(s, m)
            /\ After(s, m).check = AfterCheck(s, m) /\ After(s, m).part = AfterPart(s, m)
            /\ After(s, m).log = AfterLog(s, m) /\ After(s, m).result = AfterResult(s, m)
  BY DEF After

LEMMA AfterIsState ==
  ASSUME NEW s \in StateT, NEW m \in Message, Fits(s, m) => Proper(s, m)
  PROVE  After(s, m) \in StateT /\ Leads(s, After(s, m))
<1>1. /\ s.at \in WorkerAt /\ s.fraction \in {0, 1} /\ s.cut \in Cuts
      /\ s.saved \in [StateIds -> Cuts \cup {NoState}] /\ s.check \in BOOLEAN
      /\ s.part \in [Arrays -> Part] /\ s.log \in Seq(Call)
      /\ s.result \in {"none", "ok", "fail"}
  BY DEF StateT
<1>2. ASSUME Fits(s, m)
      PROVE  /\ s.at = "loop" => m.value \in Method \cup {"run", "break"}
             /\ s.at \in {"fraction", "save", "apply", "delete"} => m.value \in Nat
             /\ s.at \in {"mask", "saturation", "newmask", "newsaturation"} => m.value \in Part
             /\ s.at = "balancing" => m.value \in Cuts \cup {NoCut}
  BY <1>2, MessageFacts, ExpectedFacts DEF Fits
<1>3. AfterAt(s, m) \in WorkerAt
  BY <1>1, <1>2 DEF AfterAt, WorkerAt, Method
<1>4. AfterFraction(s, m) \in {0, 1}  BY <1>1 DEF AfterFraction, Proper
<1>5. AfterCut(s, m) \in Cuts  BY <1>1, <1>2 DEF AfterCut, Proper
<1>6. AfterSaved(s, m) \in [StateIds -> Cuts \cup {NoState}]
  BY <1>1 DEF AfterSaved, Proper
<1>7. AfterCheck(s, m) \in BOOLEAN  BY <1>1 DEF AfterCheck
<1>8. AfterPart(s, m) \in [Arrays -> Part]  BY <1>1, <1>2 DEF AfterPart, Arrays
<1>9. AfterResult(s, m) \in {"none", "ok", "fail"}  BY <1>1 DEF AfterResult
<1>10. AfterLog(s, m) = s.log \/ \E c \in Call : AfterLog(s, m) = Append(s.log, c)
  <2>1. CASE Fits(s, m) /\ s.at = "loop" /\ m.value = "run"
    BY <2>1 DEF AfterLog, Call
  <2>2. CASE Fits(s, m) /\ s.at \in Arrays
    <3>1. m.value \in Part /\ m.value.value \in Nat  BY <1>2, <2>2 DEF Arrays, Part
    <3>2. <<s.at, m.value.value>> \in Call  BY <2>2, <3>1 DEF Call, Method, Arrays
    <3> QED  BY <2>2, <3>2 DEF AfterLog, Arrays
  <2>3. CASE Fits(s, m) /\ s.at \in Method \ Arrays
    <3>1. <<s.at, m.value>> \in Call  BY <1>2, <2>3 DEF Call, Method, Arrays
    <3> QED  BY <2>3, <3>1 DEF AfterLog, Method
  <2> QED  BY <2>1, <2>2, <2>3 DEF AfterLog
<1>11. AfterLog(s, m) \in Seq(Call) /\ Prefix(s.log, AfterLog(s, m))
  <2>1. Len(s.log) \in Int  BY <1>1, LenProperties
  <2>2. \A c \in Call : Append(s.log, c) \in Seq(Call)  BY <1>1, AppendProperties
  <2> QED  BY <1>1, <1>10, <2>1, <2>2, PrefixFacts
<1>12. s.at = "lost" => AfterAt(s, m) = "lost"  BY ExpectedFacts DEF AfterAt, Fits
<1> HIDE DEF WorkerAt, Call
<1>13. After(s, m) \in StateT
  BY <1>3, <1>4, <1>5, <1>6, <1>7, <1>8, <1>9, <1>11 DEF After, StateT
<1> QED  BY <1>11, <1>12, <1>13 DEF After, Leads

\* Nothing to take.
LEMMA DrainNone ==
  /\ \A s \in StateT : Drains(s, <<>>, s)
  /\ \A s, t : Drains(s, <<>>, t) => s = t
<1>1. ASSUME NEW s \in StateT PROVE Drains(s, <<>>, s)
  <2> DEFINE h == [i \in Nat |-> s]
  <2>1. h \in [Nat -> StateT] /\ h[0] = s  OBVIOUS
  <2> HIDE DEF h
  <2>2. Len(<<>>) = 0 /\ 1 .. 0 = {} /\ 1 .. 0-1 = {}  OBVIOUS
  <2> QED  BY <2>1, <2>2 DEF Drains
<1>2. \A s, t : Drains(s, <<>>, t) => s = t  BY DEF Drains
<1> QED  BY <1>1, <1>2

\* One message more.
LEMMA DrainAppend ==
  ASSUME NEW s, NEW ch \in Seq(Message), NEW t, Drains(s, ch, t), NEW m \in Message,
         ch = <<>> \/ ~ Replies(t), Fits(t, m) => Proper(t, m), t \in StateT
  PROVE  Drains(s, Append(ch, m), After(t, m))
<1> DEFINE n == Len(ch)
           u == After(t, m)
           c == Append(ch, m)
<1>1. PICK h \in [Nat -> StateT] :
        /\ h[0] = s /\ h[n] = t
        /\ \A i \in 1 .. n : h[i] = After(h[i-1], ch[i]) /\ Leads(h[i-1], t)
        /\ \A i \in 1 .. n - 1 : ~ Replies(h[i])
  BY DEF Drains
<1>2. u \in StateT /\ Leads(t, u)  BY AfterIsState
<1>3. n \in Nat /\ c \in Seq(Message) /\ Len(c) = n+1 /\ c[n+1] = m
      /\ \A i \in 1 .. n : c[i] = ch[i]
  BY AppendProperties, LenProperties
<1> HIDE DEF n, u, c
<1> DEFINE g == [i \in Nat |-> IF i = n+1 THEN u ELSE h[i]]
<1>4. g \in [Nat -> StateT] /\ g[n+1] = u /\ \A i \in 0 .. n : g[i] = h[i]
  BY <1>2, <1>3
<1> HIDE DEF g
<1>5. g[0] = s  BY <1>1, <1>3, <1>4
<1>6. ASSUME NEW i \in 1 .. n+1 PROVE g[i] = After(g[i-1], c[i]) /\ Leads(g[i-1], u)
  <2>1. CASE i = n+1
    <3>1. i-1 = n /\ n \in 0 .. n  BY <1>3, <2>1
    <3>2. g[i-1] = t  BY <1>1, <1>4, <3>1
    <3>3. g[i] = u /\ c[i] = m  BY <1>3, <1>4, <2>1
    <3> QED  BY <1>2, <3>2, <3>3 DEF u
  <2>2. CASE i # n+1
    <3>1. i \in 1 .. n /\ i-1 \in 0 .. n /\ i \in 0 .. n  BY <1>3, <2>2
    <3>2. Leads(h[i-1], t) /\ h[i-1] \in StateT  BY <1>1, <3>1
    <3>3. Leads(h[i-1], u)  BY <1>2, <3>2, LeadsFacts
    <3> QED  BY <1>1, <1>3, <1>4, <3>1, <3>3
  <2> QED  BY <2>1, <2>2
<1>7. ASSUME NEW i \in 1 .. n PROVE ~ Replies(g[i])
  <2>1. CASE i = n
    <3>1. ch # <<>>  BY <1>3, <1>7, <2>1 DEF n
    <3> QED  BY <1>1, <1>3, <1>4, <2>1, <3>1
  <2>2. CASE i # n
    <3>1. i \in 1 .. n-1 /\ i \in 0 .. n  BY <1>3, <2>2
    <3> QED  BY <1>1, <1>4, <3>1
  <2> QED  BY <2>1, <2>2
<1>8. (n+1) - 1 = n  BY <1>3
<1>9. Drains(s, c, u)  BY <1>3, <1>4, <1>5, <1>6, <1>7, <1>8 DEF Drains
<1> QED  BY <1>9 DEF c, u

\* The first message is taken.
LEMMA DrainHead ==
  ASSUME NEW s, NEW ch \in Seq(Message), ch # <<>>, NEW t, Drains(s, ch, t)
  PROVE  /\ s \in StateT /\ After(s, Head(ch)) \in StateT /\ Leads(s, t)
         /\ Leads(After(s, Head(ch)), t)
         /\ Drains(After(s, Head(ch)), Tail(ch), t)
         /\ Tail(ch) # <<>> => ~ Replies(After(s, Head(ch)))
<1> DEFINE n == Len(ch)
           c == Tail(ch)
<1>1. PICK h \in [Nat -> StateT] :
        /\ h[0] = s /\ h[n] = t
        /\ \A i \in 1 .. n : h[i] = After(h[i-1], ch[i]) /\ Leads(h[i-1], t)
        /\ \A i \in 1 .. n - 1 : ~ Replies(h[i])
  BY DEF Drains
<1>2. n \in Nat \ {0} /\ c \in Seq(Message) /\ Len(c) = n-1 /\ Head(ch) = ch[1]
      /\ \A i \in 1 .. n-1 : c[i] = ch[i+1]
  BY HeadTailProperties, LenProperties, EmptySeq
<1> HIDE DEF n, c
<1> DEFINE g == [i \in Nat |-> h[i+1]]
<1>3. g \in [Nat -> StateT] /\ \A i \in Nat : g[i] = h[i+1]  OBVIOUS
<1> HIDE DEF g
<1>4. 1 \in 1 .. n /\ 1-1 = 0 /\ h[1] = After(s, Head(ch)) /\ Leads(s, t) /\ h[1] \in StateT
  BY <1>1, <1>2
<1>5. g[0] = h[1] /\ g[n-1] = t
  <2>1. n-1 \in Nat /\ (n-1)+1 = n /\ 0 \in Nat /\ 0+1 = 1  BY <1>2
  <2>2. g[n-1] = h[(n-1)+1] /\ g[0] = h[0+1]  BY <1>3, <2>1
  <2> QED  BY <1>1, <2>1, <2>2
<1>6. ASSUME NEW i \in 1 .. n-1 PROVE g[i] = After(g[i-1], c[i]) /\ Leads(g[i-1], t)
  <2>1. i+1 \in 1 .. n /\ (i+1)-1 = i /\ (i-1)+1 = i /\ i \in Nat /\ i-1 \in Nat  BY <1>2
  <2>2. g[i] = h[i+1] /\ g[i-1] = h[i] /\ c[i] = ch[i+1]
    <3>1. g[i-1] = h[(i-1)+1]  BY <1>3, <2>1
    <3> QED  BY <1>2, <1>3, <2>1, <3>1
  <2>3. h[i+1] = After(h[(i+1)-1], ch[i+1]) /\ Leads(h[(i+1)-1], t)  BY <1>1, <2>1
  <2> QED  BY <2>1, <2>2, <2>3
<1>7. ASSUME NEW i \in 1 .. (n-1)-1 PROVE ~ Replies(g[i])
  <2>1. i+1 \in 1 .. n-1 /\ i \in Nat  BY <1>2
  <2> QED  BY <1>1, <1>3, <2>1
<1>8. Drains(h[1], c, t)  BY <1>2, <1>3, <1>5, <1>6, <1>7 DEF Drains
<1>9. c # <<>> => ~ Replies(h[1])
  <2>1. c # <<>> => 1 \in 1 .. n-1  BY <1>2, EmptySeq
  <2> QED  BY <1>1, <2>1
<1>10. Leads(h[1], t)
  <2>1. CASE n = 1  BY <1>1, <1>4, <2>1, LeadsFacts
  <2>2. CASE n # 1
    <3>1. 2 \in 1 .. n /\ 2-1 = 1  BY <1>2, <2>2
    <3> QED  BY <1>1, <3>1
  <2> QED  BY <2>1, <2>2
<1> QED  BY <1>1, <1>4, <1>8, <1>9, <1>10 DEF c

\* A worker that is lost takes nothing.
LEMMA DrainLost ==
  ASSUME NEW s \in StateT, s.at = "lost", NEW ch \in Seq(Message)
  PROVE  Drains(s, ch, s)
<1> DEFINE h == [i \in Nat |-> s]
<1>1. h \in [Nat -> StateT] /\ \A i \in Nat : h[i] = s  OBVIOUS
<1>2. ASSUME NEW m \in Message PROVE After(s, m) = s
  <2>1. ~ Fits(s, m)  BY ExpectedFacts DEF Fits
  <2>2. After(s, m) \in StateT  BY <2>1, AfterIsState
  <2> QED
    BY <2>1, <2>2, StateEqual DEF After, AfterAt, AfterFraction, AfterCut, AfterSaved,
       AfterCheck, AfterPart, AfterLog, AfterResult
<1>3. ~ Replies(s) /\ Leads(s, s)  BY LeadsFacts DEF Replies
<1> HIDE DEF h
<1>4. Len(ch) \in Nat /\ \A i \in 1 .. Len(ch) : ch[i] \in Message /\ i \in Nat /\ i-1 \in Nat
  BY LenProperties, ElementOfSeq
<1>5. \A i \in 1 .. Len(ch) : h[i] = After(h[i-1], ch[i]) /\ Leads(h[i-1], s)
  BY <1>1, <1>2, <1>3, <1>4
<1>6. \A i \in 1 .. Len(ch) - 1 : ~ Replies(h[i])
  <2>1. \A i \in 1 .. Len(ch) - 1 : i \in Nat  BY <1>4
  <2> QED  BY <1>1, <1>3, <2>1
<1> QED  BY <1>1, <1>4, <1>5, <1>6 DEF Drains

----------------------------------------------------------------------------
(* A worker and the root.                                                  *)

\* Where a worker is when it has taken all that has been sent.
Follower ==
  [loop |-> "loop", ended |-> "ended", checked |-> "checked", ran |-> "ran",
   gathering |-> "balancing", joining |-> "leaving", failing |-> "leaving"]

\* The client has not applied a state.
NoApply == \A i \in 1 .. Len(log[Root]) : log[Root][i][1] # "apply"

Follows(t) ==
  /\ t.at = Follower[at[Root]]
  /\ t.fraction = fraction[Root] /\ t.cut = cut[Root] /\ t.saved = saved[Root]
  /\ t.check = needCheck[Root] /\ t.log = log[Root]
  /\ at[Root] \in {"loop", "ended"} => t.result = result[Root]
  /\ at[Root] \in {"gathering", "joining"} => t.result = "ok"
  /\ at[Root] = "failing" => t.result = "fail"
  /\ NoApply => \A a \in Arrays : t.part[a] = [value |-> array[a], cut |-> cut[Root]]

\* The worker is lost, or waits for an array that the root will not send.
Astray(t) ==
  /\ ~ Careful
  /\ Prefix(t.log, log[Root])
  /\ t.at = "lost" \/ (t.at \in {"mask", "newmask"} /\ at[Root] \in {"loop", "ended"})

Sound(s, ch) == \E t \in StateT : Drains(s, ch, t) /\ (Follows(t) \/ Astray(t))

\* The worker may find that a transfer fails.
Branches(w) ==
  /\ at[w] = "balancing" /\ chan[w] # <<>> /\ Head(chan[w]).kind = "cut"
  /\ TransfersFail /\ Head(chan[w]).value \notin {NoCut, cut[w]}

\* What a worker that has nothing to take has sent to the root.
Answers(w) ==
  CASE at[w] \in {"checked", "ran"} -> {<<Msg("error", e)>> : e \in BOOLEAN}
    [] at[w] = "balancing"          -> {<<Msg("time", 0)>>}
    [] at[w] = "leaving"            -> {<<Msg("here", 0)>>}
    [] OTHER                        -> {<<>>}

WorkerInv(w) ==
  /\ Sound(State(w), chan[w])
  /\ Branches(w) => Sound(AfterFailure(State(w)), Tail(chan[w]))
  /\ up[w] \in (IF chan[w] = <<>> THEN Answers(w) ELSE {<<>>})

Types ==
  /\ at \in [Rank -> DOMAIN Expected \cup {"ended", "lost"}] /\ at[Root] \in DOMAIN Follower
  /\ chan \in [Worker -> Seq(Message)] /\ up \in [Worker -> Seq(Answer)]
  /\ fraction \in [Rank -> {0, 1}] /\ cut \in [Rank -> Cuts]
  /\ saved \in [Rank -> [StateIds -> Cuts \cup {NoState}]]
  /\ needCheck \in [Rank -> BOOLEAN] /\ array \in [Arrays -> {0, 1}]
  /\ part \in [Worker -> [Arrays -> Part]]
  /\ log \in [Rank -> Seq(Call)] /\ Len(log[Root]) <= MaxCalls
  /\ result \in [Rank -> {"none", "ok", "fail"}]

Inv == Types /\ \A w \in Worker : WorkerInv(w)

----------------------------------------------------------------------------
(* A step of a worker.                                                     *)

\* Worker w comes to have s, and nobody else changes.
Becomes(w, s) ==
  /\ at' = [at EXCEPT ![w] = s.at] /\ fraction' = [fraction EXCEPT ![w] = s.fraction]
  /\ cut' = [cut EXCEPT ![w] = s.cut] /\ saved' = [saved EXCEPT ![w] = s.saved]
  /\ needCheck' = [needCheck EXCEPT ![w] = s.check] /\ part' = [part EXCEPT ![w] = s.part]
  /\ log' = [log EXCEPT ![w] = s.log] /\ result' = [result EXCEPT ![w] = s.result]
  /\ array' = array

LEMMA WorkerFacts ==
  ASSUME Inv, NEW w \in Worker
  PROVE  /\ Types /\ WorkerInv(w) /\ State(w) \in StateT
         /\ chan[w] \in Seq(Message) /\ up[w] \in Seq(Answer)
         /\ chan[w] # <<>> => Head(chan[w]) \in Message /\ Tail(chan[w]) \in Seq(Message)
<1>1. Types /\ WorkerInv(w)  BY DEF Inv
<1>2. chan[w] \in Seq(Message) /\ up[w] \in Seq(Answer)  BY <1>1 DEF Types
<1>3. State(w) \in StateT  BY <1>1 DEF WorkerInv, Sound, Drains
<1> QED  BY <1>1, <1>2, <1>3, HeadTailProperties

LEMMA BecomesInv ==
  ASSUME Inv, NEW w \in Worker, NEW s \in StateT, Becomes(w, s),
         NEW c \in Seq(Message), chan' = [chan EXCEPT ![w] = c],
         NEW a \in Seq(Answer), up' = [up EXCEPT ![w] = a],
         Sound(s, c), s.at = "balancing" => c = <<>>,
         c # <<>> => a = <<>>, c = <<>> => a \in Answers(w)'
  PROVE  Inv'
<1>1. Types  BY DEF Inv
<1>2. Types'
  <2>1. s.at \in DOMAIN Expected \cup {"ended", "lost"}
    BY ExpectedFacts DEF StateT, WorkerAt
  <2>2. at' \in [Rank -> DOMAIN Expected \cup {"ended", "lost"}] /\ at'[Root] = at[Root]
        /\ log' \in [Rank -> Seq(Call)] /\ log'[Root] = log[Root]
    BY <1>1, <2>1, Ranks DEF Types, Becomes, StateT
  <2>3. /\ fraction' \in [Rank -> {0, 1}] /\ cut' \in [Rank -> Cuts]
        /\ saved' \in [Rank -> [StateIds -> Cuts \cup {NoState}]]
        /\ needCheck' \in [Rank -> BOOLEAN] /\ array' \in [Arrays -> {0, 1}]
        /\ part' \in [Worker -> [Arrays -> Part]]
        /\ result' \in [Rank -> {"none", "ok", "fail"}]
    BY <1>1, Ranks DEF Types, Becomes, StateT
  <2>4. chan' \in [Worker -> Seq(Message)] /\ up' \in [Worker -> Seq(Answer)]
    BY <1>1 DEF Types
  <2> QED  BY <1>1, <2>2, <2>3, <2>4 DEF Types
<1>3. /\ at'[Root] = at[Root] /\ fraction'[Root] = fraction[Root] /\ cut'[Root] = cut[Root]
      /\ saved'[Root] = saved[Root] /\ needCheck'[Root] = needCheck[Root]
      /\ log'[Root] = log[Root] /\ result'[Root] = result[Root] /\ array' = array
  BY <1>1, Ranks DEF Types, Becomes
<1>4. ASSUME NEW t PROVE (Follows(t) => Follows(t)') /\ (Astray(t) => Astray(t)')
  BY <1>3 DEF Follows, Astray, NoApply
<1>5. WorkerInv(w)'
  <2>1. /\ at'[w] = s.at /\ fraction'[w] = s.fraction /\ cut'[w] = s.cut
        /\ saved'[w] = s.saved /\ needCheck'[w] = s.check /\ part'[w] = s.part
        /\ log'[w] = s.log /\ result'[w] = s.result
    BY <1>1, Ranks DEF Types, Becomes
  <2>2. chan'[w] = c /\ up'[w] = a  BY <1>1 DEF Types
  <2>3. State(w)' = s  BY <2>1 DEF State, StateT
  <2>4. Sound(State(w), chan[w])'  BY <1>4, <2>2, <2>3 DEF Sound
  <2>5. ~ Branches(w)'  BY <2>1, <2>2 DEF Branches
  <2> QED  BY <2>2, <2>4, <2>5 DEF WorkerInv
<1>6. ASSUME NEW v \in Worker, v # w PROVE WorkerInv(v)'
  <2>1. /\ at'[v] = at[v] /\ fraction'[v] = fraction[v] /\ cut'[v] = cut[v]
        /\ saved'[v] = saved[v] /\ needCheck'[v] = needCheck[v] /\ part'[v] = part[v]
        /\ log'[v] = log[v] /\ result'[v] = result[v]
    BY <1>1, <1>6, Ranks DEF Types, Becomes
  <2>2. chan'[v] = chan[v] /\ up'[v] = up[v]  BY <1>1, <1>6 DEF Types
  <2>3. State(v)' = State(v)  BY <2>1 DEF State
  <2>4. WorkerInv(v)  BY DEF Inv
  <2>5. \A x, y : Sound(x, y) => Sound(x, y)'  BY <1>4 DEF Sound
  <2>6. Sound(State(v), chan[v])'  BY <2>2, <2>3, <2>4 , <1>4 DEF WorkerInv, Sound
  <2>7. Branches(v)' => Branches(v)  BY <2>1, <2>2 DEF Branches
  <2>8. AfterFailure(State(v))' = AfterFailure(State(v))  BY <2>3 DEF AfterFailure
  <2>9. Branches(v)' => Sound(AfterFailure(State(v)), Tail(chan[v]))'
    BY <1>4, <2>2, <2>4, <2>7, <2>8 DEF WorkerInv, Sound
  <2>10. Answers(v)' = Answers(v)  BY <2>1 DEF Answers
  <2> QED  BY <2>2, <2>4, <2>6, <2>9, <2>10 DEF WorkerInv
<1> QED  BY <1>2, <1>5, <1>6 DEF Inv

\* Worker w takes the message that comes next, as the others expect it to.
LEMMA TakeInv ==
  ASSUME Inv, NEW w \in Worker, chan[w] # <<>>,
         Becomes(w, After(State(w), Head(chan[w]))), Take(w),
         \/ at'[w] \notin {"checked", "ran", "balancing", "leaving"} /\ up' = up
         \/ at'[w] \in {"checked", "ran"} /\ \E e \in BOOLEAN : Reply(w, "error", e)
         \/ at'[w] = "balancing" /\ Reply(w, "time", 0)
         \/ at'[w] = "leaving" /\ Reply(w, "here", 0)
  PROVE  Inv'
<1> DEFINE s == After(State(w), Head(chan[w]))
           c == Tail(chan[w])
<1>1. /\ Types /\ chan[w] \in Seq(Message) /\ c \in Seq(Message) /\ up[w] = <<>>
      /\ at'[w] = s.at
  BY WorkerFacts, Ranks DEF WorkerInv, Types, Becomes
<1>2. PICK t \in StateT : Drains(State(w), chan[w], t) /\ (Follows(t) \/ Astray(t))
  BY WorkerFacts DEF WorkerInv, Sound
<1>3. s \in StateT /\ Sound(s, c) /\ (c # <<>> => ~ Replies(s))
  BY <1>1, <1>2, DrainHead DEF Sound
<1>4. PICK a \in Seq(Answer) : /\ up' = [up EXCEPT ![w] = a]
                              /\ (Replies(s) => a \in Answers(w)')
                              /\ (~ Replies(s) => a = <<>>)
  <2>1. CASE ~ Replies(s)
    <3>1. up' = up  BY <1>1, <2>1 DEF Replies
    <3>2. up' = [up EXCEPT ![w] = <<>>] /\ <<>> \in Seq(Answer)  BY <1>1, <3>1 DEF Types
    <3> QED  BY <2>1, <3>2
  <2>2. CASE Replies(s)
    <3>1. PICK k, v : Reply(w, k, v) /\ <<Msg(k, v)>> \in Answers(w)' /\ Msg(k, v) \in Answer
      BY <1>1, <2>2 DEF Replies, Answers, Answer, Msg
    <3>2. up' = [up EXCEPT ![w] = <<Msg(k, v)>>]
      BY <1>1, <3>1 DEF Reply, Types
    <3>3. <<Msg(k, v)>> \in Seq(Answer)  BY <3>1
    <3> QED  BY <2>2, <3>1, <3>2, <3>3
  <2> QED  BY <2>1, <2>2
<1>5. ~ Replies(s) => Answers(w)' = {<<>>}  BY <1>1 DEF Replies, Answers
<1>6. chan' = [chan EXCEPT ![w] = c]  BY DEF Take
<1>7. s.at = "balancing" => c = <<>>  BY <1>3 DEF Replies
<1>8. Becomes(w, s)  OBVIOUS
<1>9. c # <<>> => a = <<>>  BY <1>3, <1>4
<1>10. c = <<>> => a \in Answers(w)'  BY <1>4, <1>5
<1> HIDE DEF s, c
<1> QED  BY <1>1, <1>3, <1>4, <1>6, <1>7, <1>8, <1>9, <1>10, BecomesInv

LEMMA SameExcept ==
  ASSUME NEW D, NEW S, NEW f \in [D -> S], NEW x \in D
  PROVE  [f EXCEPT ![x] = f[x]] = f
  OBVIOUS

\* What each action of a worker relies on.
LEMMA TakeFacts ==
  ASSUME Inv, NEW w \in Worker, chan[w] # <<>>
  PROVE  /\ Head(chan[w]) \in Message
         /\ at[w] \in WorkerAt
         /\ State(w).at = at[w] /\ State(w).fraction = fraction[w] /\ State(w).cut = cut[w]
         /\ State(w).saved = saved[w] /\ State(w).check = needCheck[w]
         /\ State(w).part = part[w] /\ State(w).log = log[w] /\ State(w).result = result[w]
<1>1. Head(chan[w]) \in Message /\ State(w) \in StateT  BY WorkerFacts
<1>2. at[w] \in WorkerAt  BY <1>1 DEF State, StateT
<1> QED  BY <1>1, <1>2 DEF State

\* A variable that does not change may as well be said to change at w to what it is.
LEMMA Unchanged ==
  ASSUME Inv, NEW w \in Worker
  PROVE  /\ [fraction EXCEPT ![w] = fraction[w]] = fraction
         /\ [cut EXCEPT ![w] = cut[w]] = cut /\ [saved EXCEPT ![w] = saved[w]] = saved
         /\ [needCheck EXCEPT ![w] = needCheck[w]] = needCheck
         /\ [part EXCEPT ![w] = part[w]] = part /\ [log EXCEPT ![w] = log[w]] = log
         /\ [result EXCEPT ![w] = result[w]] = result
<1>1. w \in Rank /\ Types  BY Ranks DEF Inv
<1> QED  BY <1>1, SameExcept DEF Types

LEMMA TakeMethodInv == \A w \in Worker : Inv /\ TakeMethod(w) => Inv'
<1> SUFFICES ASSUME NEW w \in Worker, Inv, TakeMethod(w) PROVE Inv'  OBVIOUS
<1> DEFINE s == State(w)
           m == Head(chan[w])
           u == After(s, m)
<1>1. chan[w] # <<>> /\ at[w] = "loop" /\ m.kind = "method" /\ m.value \notin {"break", "run"}
  BY DEF TakeMethod, Comes, Value
<1>2. m.value \in Method  BY <1>1, TakeFacts, MessageFacts
<1>3. Fits(s, m) /\ s.at = "loop"  BY <1>1, TakeFacts, ExpectedFacts DEF Fits
<1>4. NoZero(s) <=> 0 \notin StateIds \/ saved[w][0] = NoState
  BY <1>1, TakeFacts DEF NoZero
<1>5. at' = [at EXCEPT ![w] = u.at]
  BY <1>1, <1>3, <1>4 DEF TakeMethod, Value, After, AfterAt
<1>6. /\ u.fraction = s.fraction /\ u.cut = s.cut
      /\ u.saved = s.saved /\ u.check = s.check
      /\ u.part = s.part /\ u.log = s.log /\ u.result = s.result
  BY <1>1, <1>3 DEF After, AfterFraction, AfterCut, AfterSaved, AfterCheck, AfterPart,
     AfterLog, AfterResult, Arrays, Method
<1>7. Becomes(w, u)
  <2>1. UNCHANGED <<fraction, cut, saved, needCheck, part, log, result, array>>
    BY DEF TakeMethod, settings
  <2>2. /\ u.fraction = fraction[w] /\ u.cut = cut[w] /\ u.saved = saved[w]
        /\ u.check = needCheck[w] /\ u.part = part[w] /\ u.log = log[w]
        /\ u.result = result[w]
    BY <1>1, <1>6, TakeFacts
  <2> HIDE DEF u
  <2> QED  BY <1>5, <2>1, <2>2, Unchanged DEF Becomes
<1>8. at'[w] \notin {"checked", "ran", "balancing", "leaving"}
  <2>1. at'[w] = "loop" \/ at'[w] = m.value
    BY <1>1, WorkerFacts, Ranks DEF TakeMethod, Value, Types
  <2> QED  BY <1>2, <2>1 DEF Method
<1>9. up' = up /\ Take(w)  BY DEF TakeMethod
<1> HIDE DEF s, m, u
<1> QED  BY <1>1, <1>7, <1>8, <1>9, TakeInv DEF s, m, u

LEMMA BreakInv == \A w \in Worker : Inv /\ Break(w) => Inv'
<1> SUFFICES ASSUME NEW w \in Worker, Inv, Break(w) PROVE Inv'  OBVIOUS
<1> DEFINE s == State(w)
           m == Head(chan[w])
           u == After(s, m)
<1>1. chan[w] # <<>> /\ at[w] = "loop" /\ m.kind = "method" /\ m.value = "break"
  BY DEF Break, Comes, Value
<1>3. Fits(s, m) /\ s.at = "loop"  BY <1>1, TakeFacts, ExpectedFacts DEF Fits
<1>5. at' = [at EXCEPT ![w] = u.at] /\ u.at = "ended"
  BY <1>1, <1>3 DEF Break, Value, After, AfterAt
<1>6. /\ u.fraction = s.fraction /\ u.cut = s.cut
      /\ u.saved = s.saved /\ u.check = s.check
      /\ u.part = s.part /\ u.log = s.log /\ u.result = s.result
  BY <1>1, <1>3 DEF After, AfterFraction, AfterCut, AfterSaved, AfterCheck, AfterPart,
     AfterLog, AfterResult, Arrays, Method
<1>7. Becomes(w, u)
  <2>1. UNCHANGED <<fraction, cut, saved, needCheck, part, log, result, array>>
    BY DEF Break, settings
  <2>2. /\ u.fraction = fraction[w] /\ u.cut = cut[w] /\ u.saved = saved[w]
        /\ u.check = needCheck[w] /\ u.part = part[w] /\ u.log = log[w]
        /\ u.result = result[w]
    BY <1>1, <1>6, TakeFacts
  <2> HIDE DEF u
  <2> QED  BY <1>5, <2>1, <2>2, Unchanged DEF Becomes
<1>8. at'[w] = "ended"  BY <1>5, WorkerFacts, Ranks DEF Types
<1>9. up' = up /\ Take(w)  BY DEF Break
<1> HIDE DEF s, m, u
<1> QED  BY <1>1, <1>7, <1>8, <1>9, TakeInv DEF s, m, u

LEMMA TakeFractionInv == \A w \in Worker : Inv /\ TakeFraction(w) => Inv'
<1> SUFFICES ASSUME NEW w \in Worker, Inv, TakeFraction(w) PROVE Inv'  OBVIOUS
<1> DEFINE s == State(w)
           m == Head(chan[w])
           u == After(s, m)
<1>1. chan[w] # <<>> /\ at[w] = "fraction" /\ m.kind = "value"
  BY ExpectedFacts DEF TakeFraction, Done, Comes, Value, Arrays
<1>2. Fits(s, m) /\ s.at = at[w]  BY <1>1, TakeFacts, ExpectedFacts DEF Fits, Arrays
<1>3. /\ u.at = "loop"
      /\ u.fraction = m.value
      /\ u.log = Append(s.log, <<"fraction", m.value>>)
      /\ u.cut = s.cut
      /\ u.saved = s.saved
      /\ u.check = s.check
      /\ u.part = s.part
      /\ u.result = s.result
  BY ZenonT(100), <1>1, <1>2 DEF After, AfterAt, AfterFraction, AfterCut, AfterSaved,
     AfterCheck, AfterPart, AfterLog, AfterResult, Arrays, Method
<1>4. Becomes(w, u)
  <2>1. /\ cut' = cut /\ saved' = saved /\ needCheck' = needCheck /\ part' = part
        /\ result' = result /\ array' = array
        /\ at' = [at EXCEPT ![w] = u.at]
        /\ fraction' = [fraction EXCEPT ![w] = u.fraction]
        /\ log' = [log EXCEPT ![w] = u.log]
    BY <1>1, <1>3, TakeFacts DEF TakeFraction, Done, Logged, Value
  <2>2. /\ u.cut = cut[w]
        /\ u.saved = saved[w]
        /\ u.check = needCheck[w]
        /\ u.part = part[w]
        /\ u.result = result[w]
    BY <1>1, <1>3, TakeFacts
  <2> HIDE DEF u
  <2> QED  BY <2>1, <2>2, Unchanged DEF Becomes
<1>5. at'[w] = "loop" /\ up' = up /\ Take(w)
  BY <1>1, WorkerFacts, Ranks DEF Types, Done, TakeFraction
<1> HIDE DEF s, m, u
<1> QED  BY <1>1, <1>4, <1>5, TakeInv DEF s, m, u

LEMMA TakePartInv == \A w \in Worker, a \in Arrays : Inv /\ TakePart(w, a) => Inv'
<1> SUFFICES ASSUME NEW w \in Worker, NEW a \in Arrays, Inv, TakePart(w, a) PROVE Inv'  OBVIOUS
<1> DEFINE s == State(w)
           m == Head(chan[w])
           u == After(s, m)
<1>1. chan[w] # <<>> /\ at[w] = a /\ m.kind = "part" /\ m.value.cut = cut[w]
  BY ExpectedFacts DEF TakePart, Done, Comes, Value, Arrays
<1>2. Fits(s, m) /\ s.at = at[w]  BY <1>1, TakeFacts, ExpectedFacts DEF Fits, Arrays
<1>3. /\ u.at = "loop"
      /\ u.part = [s.part EXCEPT ![a] = m.value]
      /\ u.log = Append(s.log, <<a, m.value.value>>)
      /\ u.fraction = s.fraction
      /\ u.cut = s.cut
      /\ u.saved = s.saved
      /\ u.check = s.check
      /\ u.result = s.result
  BY ZenonT(100), <1>1, <1>2 DEF After, AfterAt, AfterFraction, AfterCut, AfterSaved,
     AfterCheck, AfterPart, AfterLog, AfterResult, Arrays, Method
<1>4. Becomes(w, u)
  <2>1. /\ fraction' = fraction /\ cut' = cut /\ saved' = saved /\ needCheck' = needCheck
        /\ result' = result /\ array' = array
        /\ at' = [at EXCEPT ![w] = u.at]
        /\ part' = [part EXCEPT ![w] = u.part]
        /\ log' = [log EXCEPT ![w] = u.log]
    BY <1>1, <1>3, TakeFacts DEF TakePart, Done, Logged, Value
  <2>2. /\ u.fraction = fraction[w]
        /\ u.cut = cut[w]
        /\ u.saved = saved[w]
        /\ u.check = needCheck[w]
        /\ u.result = result[w]
    BY <1>1, <1>3, TakeFacts
  <2> HIDE DEF u
  <2> QED  BY <2>1, <2>2, Unchanged DEF Becomes
<1>5. at'[w] = "loop" /\ up' = up /\ Take(w)
  BY <1>1, WorkerFacts, Ranks DEF Types, Done, TakePart
<1> HIDE DEF s, m, u
<1> QED  BY <1>1, <1>4, <1>5, TakeInv DEF s, m, u

LEMMA TakeSaveInv == \A w \in Worker : Inv /\ TakeSave(w) => Inv'
<1> SUFFICES ASSUME NEW w \in Worker, Inv, TakeSave(w) PROVE Inv'  OBVIOUS
<1> DEFINE s == State(w)
           m == Head(chan[w])
           u == After(s, m)
<1>1. chan[w] # <<>> /\ at[w] = "save" /\ m.kind = "value"
  BY ExpectedFacts DEF TakeSave, Done, Comes, Value, Arrays
<1>2. Fits(s, m) /\ s.at = at[w]  BY <1>1, TakeFacts, ExpectedFacts DEF Fits, Arrays
<1>3. /\ u.at = "loop"
      /\ u.saved = [s.saved EXCEPT ![m.value] = s.cut]
      /\ u.log = Append(s.log, <<"save", m.value>>)
      /\ u.fraction = s.fraction
      /\ u.cut = s.cut
      /\ u.check = s.check
      /\ u.part = s.part
      /\ u.result = s.result
  BY ZenonT(100), <1>1, <1>2 DEF After, AfterAt, AfterFraction, AfterCut, AfterSaved,
     AfterCheck, AfterPart, AfterLog, AfterResult, Arrays, Method
<1>4. Becomes(w, u)
  <2>1. /\ fraction' = fraction /\ cut' = cut /\ needCheck' = needCheck /\ part' = part
        /\ result' = result /\ array' = array
        /\ at' = [at EXCEPT ![w] = u.at]
        /\ saved' = [saved EXCEPT ![w] = u.saved]
        /\ log' = [log EXCEPT ![w] = u.log]
    BY <1>1, <1>3, TakeFacts DEF TakeSave, Done, Logged, Value
  <2>2. /\ u.fraction = fraction[w]
        /\ u.cut = cut[w]
        /\ u.check = needCheck[w]
        /\ u.part = part[w]
        /\ u.result = result[w]
    BY <1>1, <1>3, TakeFacts
  <2> HIDE DEF u
  <2> QED  BY <2>1, <2>2, Unchanged DEF Becomes
<1>5. at'[w] = "loop" /\ up' = up /\ Take(w)
  BY <1>1, WorkerFacts, Ranks DEF Types, Done, TakeSave
<1> HIDE DEF s, m, u
<1> QED  BY <1>1, <1>4, <1>5, TakeInv DEF s, m, u

LEMMA TakeApplyInv == \A w \in Worker : Inv /\ TakeApply(w) => Inv'
<1> SUFFICES ASSUME NEW w \in Worker, Inv, TakeApply(w) PROVE Inv'  OBVIOUS
<1> DEFINE s == State(w)
           m == Head(chan[w])
           u == After(s, m)
<1>1. chan[w] # <<>> /\ at[w] = "apply" /\ m.kind = "value"
  BY ExpectedFacts DEF TakeApply, Done, Comes, Value, Arrays
<1>2. Fits(s, m) /\ s.at = at[w]  BY <1>1, TakeFacts, ExpectedFacts DEF Fits, Arrays
<1>3. /\ u.at = "loop"
      /\ u.cut = s.saved[m.value]
      /\ u.log = Append(s.log, <<"apply", m.value>>)
      /\ u.fraction = s.fraction
      /\ u.saved = s.saved
      /\ u.check = s.check
      /\ u.part = s.part
      /\ u.result = s.result
  BY ZenonT(100), <1>1, <1>2 DEF After, AfterAt, AfterFraction, AfterCut, AfterSaved,
     AfterCheck, AfterPart, AfterLog, AfterResult, Arrays, Method
<1>4. Becomes(w, u)
  <2>1. /\ fraction' = fraction /\ saved' = saved /\ needCheck' = needCheck
        /\ part' = part /\ result' = result /\ array' = array
        /\ at' = [at EXCEPT ![w] = u.at]
        /\ cut' = [cut EXCEPT ![w] = u.cut]
        /\ log' = [log EXCEPT ![w] = u.log]
    BY <1>1, <1>3, TakeFacts DEF TakeApply, Done, Logged, Value
  <2>2. /\ u.fraction = fraction[w]
        /\ u.saved = saved[w]
        /\ u.check = needCheck[w]
        /\ u.part = part[w]
        /\ u.result = result[w]
    BY <1>1, <1>3, TakeFacts
  <2> HIDE DEF u
  <2> QED  BY <2>1, <2>2, Unchanged DEF Becomes
<1>5. at'[w] = "loop" /\ up' = up /\ Take(w)
  BY <1>1, WorkerFacts, Ranks DEF Types, Done, TakeApply
<1> HIDE DEF s, m, u
<1> QED  BY <1>1, <1>4, <1>5, TakeInv DEF s, m, u

LEMMA TakeDeleteInv == \A w \in Worker : Inv /\ TakeDelete(w) => Inv'
<1> SUFFICES ASSUME NEW w \in Worker, Inv, TakeDelete(w) PROVE Inv'  OBVIOUS
<1> DEFINE s == State(w)
           m == Head(chan[w])
           u == After(s, m)
<1>1. chan[w] # <<>> /\ at[w] = "delete" /\ m.kind = "value"
  BY ExpectedFacts DEF TakeDelete, Done, Comes, Value, Arrays
<1>2. Fits(s, m) /\ s.at = at[w]  BY <1>1, TakeFacts, ExpectedFacts DEF Fits, Arrays
<1>3. /\ u.at = "loop"
      /\ u.saved = [s.saved EXCEPT ![m.value] = NoState]
      /\ u.log = Append(s.log, <<"delete", m.value>>)
      /\ u.fraction = s.fraction
      /\ u.cut = s.cut
      /\ u.check = s.check
      /\ u.part = s.part
      /\ u.result = s.result
  BY ZenonT(100), <1>1, <1>2 DEF After, AfterAt, AfterFraction, AfterCut, AfterSaved,
     AfterCheck, AfterPart, AfterLog, AfterResult, Arrays, Method
<1>4. Becomes(w, u)
  <2>1. /\ fraction' = fraction /\ cut' = cut /\ needCheck' = needCheck /\ part' = part
        /\ result' = result /\ array' = array
        /\ at' = [at EXCEPT ![w] = u.at]
        /\ saved' = [saved EXCEPT ![w] = u.saved]
        /\ log' = [log EXCEPT ![w] = u.log]
    BY <1>1, <1>3, TakeFacts DEF TakeDelete, Done, Logged, Value
  <2>2. /\ u.fraction = fraction[w]
        /\ u.cut = cut[w]
        /\ u.check = needCheck[w]
        /\ u.part = part[w]
        /\ u.result = result[w]
    BY <1>1, <1>3, TakeFacts
  <2> HIDE DEF u
  <2> QED  BY <2>1, <2>2, Unchanged DEF Becomes
<1>5. at'[w] = "loop" /\ up' = up /\ Take(w)
  BY <1>1, WorkerFacts, Ranks DEF Types, Done, TakeDelete
<1> HIDE DEF s, m, u
<1> QED  BY <1>1, <1>4, <1>5, TakeInv DEF s, m, u

LEMMA LeaveInv == \A w \in Worker : Inv /\ Leave(w) => Inv'
<1> SUFFICES ASSUME NEW w \in Worker, Inv, Leave(w) PROVE Inv'  OBVIOUS
<1> DEFINE s == State(w)
           m == Head(chan[w])
           u == After(s, m)
<1>1. chan[w] # <<>> /\ at[w] = "leaving" /\ m.kind = "leave"
  BY ExpectedFacts DEF Leave, Comes
<1>2. Fits(s, m) /\ s.at = at[w]  BY <1>1, TakeFacts, ExpectedFacts DEF Fits, Arrays
<1>3. /\ u.at = "loop"
      /\ u.fraction = s.fraction
      /\ u.cut = s.cut
      /\ u.saved = s.saved
      /\ u.check = s.check
      /\ u.part = s.part
      /\ u.log = s.log
      /\ u.result = s.result
  BY ZenonT(100), <1>1, <1>2 DEF After, AfterAt, AfterFraction, AfterCut, AfterSaved,
     AfterCheck, AfterPart, AfterLog, AfterResult, Arrays, Method
<1>4. Becomes(w, u)
  <2>1. /\ fraction' = fraction /\ cut' = cut /\ saved' = saved /\ needCheck' = needCheck
        /\ part' = part /\ log' = log /\ result' = result /\ array' = array
        /\ at' = [at EXCEPT ![w] = u.at]
    BY <1>1, <1>3, TakeFacts DEF Leave, At, settings
  <2>2. /\ u.fraction = fraction[w]
        /\ u.cut = cut[w]
        /\ u.saved = saved[w]
        /\ u.check = needCheck[w]
        /\ u.part = part[w]
        /\ u.log = log[w]
        /\ u.result = result[w]
    BY <1>1, <1>3, TakeFacts
  <2> HIDE DEF u
  <2> QED  BY <2>1, <2>2, Unchanged DEF Becomes
<1>5. at'[w] = "loop" /\ up' = up /\ Take(w)
  BY <1>1, WorkerFacts, Ranks DEF Types, Leave, At
<1> HIDE DEF s, m, u
<1> QED  BY <1>1, <1>4, <1>5, TakeInv DEF s, m, u

LEMMA TakeRunInv == \A w \in Worker : Inv /\ TakeRun(w) => Inv'
<1> SUFFICES ASSUME NEW w \in Worker, Inv, TakeRun(w) PROVE Inv'  OBVIOUS
<1> DEFINE s == State(w)
           m == Head(chan[w])
           u == After(s, m)
<1>1. chan[w] # <<>> /\ at[w] = "loop" /\ m.kind = "method" /\ m.value = "run"
  BY ExpectedFacts DEF TakeRun, Comes, Value
<1>2. Fits(s, m) /\ s.at = at[w]  BY <1>1, TakeFacts, ExpectedFacts DEF Fits, Arrays
<1>3. /\ u.at = IF needCheck[w] THEN "checked" ELSE "ran"
      /\ u.check = FALSE
      /\ u.log = Append(s.log, <<"run", 0>>)
      /\ u.fraction = s.fraction
      /\ u.cut = s.cut
      /\ u.saved = s.saved
      /\ u.part = s.part
      /\ u.result = s.result
  BY ZenonT(100), <1>1, <1>2, TakeFacts DEF After, AfterAt, AfterFraction, AfterCut,
     AfterSaved, AfterCheck, AfterPart, AfterLog, AfterResult, Arrays, Method
<1>4. Becomes(w, u)
  <2>1. /\ fraction' = fraction /\ cut' = cut /\ saved' = saved /\ part' = part
        /\ result' = result /\ array' = array
        /\ at' = [at EXCEPT ![w] = u.at]
        /\ needCheck' = [needCheck EXCEPT ![w] = u.check]
        /\ log' = [log EXCEPT ![w] = u.log]
    BY <1>1, <1>3, TakeFacts DEF TakeRun, At, Logged
  <2>2. /\ u.fraction = fraction[w]
        /\ u.cut = cut[w]
        /\ u.saved = saved[w]
        /\ u.part = part[w]
        /\ u.result = result[w]
    BY <1>1, <1>3, TakeFacts
  <2> HIDE DEF u
  <2> QED  BY <2>1, <2>2, Unchanged DEF Becomes
<1>5. at'[w] \in {"checked", "ran"} /\ (\E e \in BOOLEAN : Reply(w, "error", e)) /\ Take(w)
  BY <1>1, WorkerFacts, Ranks DEF Types, TakeRun, At
<1> HIDE DEF s, m, u
<1> QED  BY <1>1, <1>4, <1>5, TakeInv DEF s, m, u

LEMMA TakeNewPartInv == \A w \in Worker, a \in Arrays : Inv /\ TakeNewPart(w, a) => Inv'
<1> SUFFICES ASSUME NEW w \in Worker, NEW a \in Arrays, Inv, TakeNewPart(w, a)
             PROVE  Inv'
  OBVIOUS
<1> DEFINE s == State(w)
           m == Head(chan[w])
           u == After(s, m)
<1>1. chan[w] # <<>> /\ at[w] = (IF a = "mask" THEN "newmask" ELSE "newsaturation")
      /\ m.kind = "part" /\ m.value.cut = cut[w]
  BY ExpectedFacts DEF TakeNewPart, Comes, Value
<1>2. Fits(s, m) /\ s.at = at[w]  BY <1>1, TakeFacts, ExpectedFacts DEF Fits, Arrays
<1>3. /\ u.at = (IF a = "mask" THEN "newsaturation" ELSE "leaving")
      /\ u.part = [s.part EXCEPT ![a] = m.value]
      /\ u.fraction = s.fraction /\ u.cut = s.cut /\ u.saved = s.saved
      /\ u.check = s.check /\ u.log = s.log /\ u.result = s.result
  BY ZenonT(100), <1>1, <1>2, TakeFacts DEF After, AfterAt, AfterFraction, AfterCut,
     AfterSaved, AfterCheck, AfterPart, AfterLog, AfterResult, Arrays, Method
<1>4. Becomes(w, u)
  <2>1. /\ fraction' = fraction /\ cut' = cut /\ saved' = saved /\ needCheck' = needCheck
        /\ log' = log /\ result' = result /\ array' = array
        /\ at' = [at EXCEPT ![w] = u.at]
        /\ part' = [part EXCEPT ![w] = u.part]
    BY <1>1, <1>3, TakeFacts DEF TakeNewPart, At, Value
  <2>2. /\ u.fraction = fraction[w]
        /\ u.cut = cut[w]
        /\ u.saved = saved[w]
        /\ u.check = needCheck[w]
        /\ u.log = log[w]
        /\ u.result = result[w]
    BY <1>1, <1>3, TakeFacts
  <2> HIDE DEF u
  <2> QED  BY <2>1, <2>2, Unchanged DEF Becomes
<1>5. Take(w) /\ at'[w] = u.at
  BY <1>4, WorkerFacts, Ranks DEF Types, Becomes, TakeNewPart
<1>6. \/ at'[w] = "newsaturation" /\ up' = up
      \/ at'[w] = "leaving" /\ Reply(w, "here", 0)
  BY <1>1, <1>3, <1>5, TakeFacts DEF TakeNewPart
<1> HIDE DEF s, m, u
<1> QED  BY <1>1, <1>4, <1>5, <1>6, TakeInv DEF s, m, u

LEMMA TakeCountInv == \A w \in Worker : Inv /\ TakeCount(w) => Inv'
<1> SUFFICES ASSUME NEW w \in Worker, Inv, TakeCount(w) PROVE Inv'  OBVIOUS
<1> DEFINE s == State(w)
           m == Head(chan[w])
           u == After(s, m)
<1>1. chan[w] # <<>> /\ at[w] \in {"checked", "ran"} /\ m.kind = "count" /\ m.value \in BOOLEAN
  BY ExpectedFacts, TakeFacts, MessageFacts DEF TakeCount, Comes, Value
<1>2. Fits(s, m) /\ s.at = at[w]  BY <1>1, TakeFacts, ExpectedFacts DEF Fits, Arrays
<1>3. /\ u.at = (IF m.value THEN "leaving" ELSE IF at[w] = "checked" THEN "ran"
                ELSE IF fraction[w] = 0 THEN "leaving" ELSE "balancing")
      /\ u.result = (IF m.value THEN "fail" ELSE "ok")
      /\ u.fraction = s.fraction /\ u.cut = s.cut /\ u.saved = s.saved
      /\ u.check = s.check /\ u.part = s.part /\ u.log = s.log
  BY ZenonT(100), <1>1, <1>2, TakeFacts DEF After, AfterAt, AfterFraction, AfterCut,
     AfterSaved, AfterCheck, AfterPart, AfterLog, AfterResult, Arrays, Method
<1>4. Becomes(w, u)
  <2>1. /\ fraction' = fraction /\ cut' = cut /\ saved' = saved /\ needCheck' = needCheck
        /\ part' = part /\ log' = log /\ array' = array
        /\ at' = [at EXCEPT ![w] = u.at]
        /\ result' = [result EXCEPT ![w] = u.result]
    BY <1>1, <1>3, TakeFacts DEF TakeCount, At, Returns, Failed, Value, settings
  <2>2. /\ u.fraction = fraction[w]
        /\ u.cut = cut[w]
        /\ u.saved = saved[w]
        /\ u.check = needCheck[w]
        /\ u.part = part[w]
        /\ u.log = log[w]
    BY <1>1, <1>3, TakeFacts
  <2> HIDE DEF u
  <2> QED  BY <2>1, <2>2, Unchanged DEF Becomes
<1>5. Take(w) /\ at'[w] = u.at
  BY <1>4, WorkerFacts, Ranks DEF Types, Becomes, TakeCount, Value
<1>6. \/ at'[w] = "ran" /\ \E e \in BOOLEAN : Reply(w, "error", e)
      \/ at'[w] = "balancing" /\ Reply(w, "time", 0)
      \/ at'[w] = "leaving" /\ Reply(w, "here", 0)
  BY <1>1, <1>3, <1>5, TakeFacts DEF TakeCount, Value
<1> HIDE DEF s, m, u
<1> QED  BY <1>1, <1>4, <1>5, <1>6, TakeInv DEF s, m, u

LEMMA TakeCutInv == \A w \in Worker : Inv /\ TakeCut(w) => Inv'
<1> SUFFICES ASSUME NEW w \in Worker, Inv, TakeCut(w) PROVE Inv'  OBVIOUS
<1> DEFINE s == State(w)
           m == Head(chan[w])
           u == After(s, m)
<1>1. chan[w] # <<>> /\ at[w] = "balancing" /\ m.kind = "cut" /\ m.value # NoCut
  BY ExpectedFacts DEF TakeCut, Comes, Value
<1>2. Fits(s, m) /\ s.at = at[w]  BY <1>1, TakeFacts, ExpectedFacts DEF Fits, Arrays
<1>3. /\ u.at = (IF m.value = cut[w] THEN "leaving" ELSE "newmask")
      /\ u.cut = m.value
      /\ u.fraction = s.fraction /\ u.saved = s.saved /\ u.check = s.check
      /\ u.part = s.part /\ u.log = s.log /\ u.result = s.result
  BY ZenonT(100), <1>1, <1>2, TakeFacts DEF After, AfterAt, AfterFraction, AfterCut,
     AfterSaved, AfterCheck, AfterPart, AfterLog, AfterResult, Arrays, Method
<1>4. Becomes(w, u)
  <2>1. /\ fraction' = fraction /\ saved' = saved /\ needCheck' = needCheck
        /\ part' = part /\ log' = log /\ result' = result /\ array' = array
        /\ at' = [at EXCEPT ![w] = u.at]
        /\ cut' = [cut EXCEPT ![w] = u.cut]
    BY <1>1, <1>3, TakeFacts DEF TakeCut, At, Value
  <2>2. /\ u.fraction = fraction[w]
        /\ u.saved = saved[w]
        /\ u.check = needCheck[w]
        /\ u.part = part[w]
        /\ u.log = log[w]
        /\ u.result = result[w]
    BY <1>1, <1>3, TakeFacts
  <2> HIDE DEF u
  <2> QED  BY <2>1, <2>2, Unchanged DEF Becomes
<1>5. Take(w) /\ at'[w] = u.at
  BY <1>4, WorkerFacts, Ranks DEF Types, Becomes, TakeCut, Value
<1>6. \/ at'[w] = "newmask" /\ up' = up
      \/ at'[w] = "leaving" /\ Reply(w, "here", 0)
  BY <1>1, <1>3, <1>5, TakeFacts DEF TakeCut, Value
<1> HIDE DEF s, m, u
<1> QED  BY <1>1, <1>4, <1>5, <1>6, TakeInv DEF s, m, u


\* The root has not chosen ranges, or a transfer fails at this worker: it is back in the
\* loop, on the other branch in the second case.
LEMMA TakeFailureInv == \A w \in Worker : Inv /\ TakeFailure(w) => Inv'
<1> SUFFICES ASSUME NEW w \in Worker, Inv, TakeFailure(w) PROVE Inv'  OBVIOUS
<1> DEFINE s == State(w)
           m == Head(chan[w])
           u == After(s, m)
           f == AfterFailure(s)
<1>1. chan[w] # <<>> /\ at[w] = "balancing" /\ m.kind = "cut"
  BY DEF TakeFailure, Comes, Value
<1>2. Fits(s, m) /\ s.at = at[w]  BY <1>1, TakeFacts, ExpectedFacts DEF Fits, Arrays
<1>3. Becomes(w, f)
  <2>1. /\ fraction' = fraction /\ cut' = cut /\ saved' = saved /\ needCheck' = needCheck
        /\ part' = part /\ log' = log /\ array' = array
        /\ at' = [at EXCEPT ![w] = f.at] /\ result' = [result EXCEPT ![w] = f.result]
    BY DEF TakeFailure, At, Returns, Failed, settings, AfterFailure
  <2>2. /\ f.fraction = fraction[w] /\ f.cut = cut[w] /\ f.saved = saved[w]
        /\ f.check = needCheck[w] /\ f.part = part[w] /\ f.log = log[w]
    BY <1>1, TakeFacts DEF AfterFailure
  <2> HIDE DEF f
  <2> QED  BY <2>1, <2>2, Unchanged DEF Becomes
<1>4. Take(w) /\ at'[w] = "loop" /\ up' = up
  BY WorkerFacts, Ranks DEF Types, TakeFailure, At
<1>5. CASE m.value = NoCut
  <2>1. u = f
    BY <1>1, <1>2, <1>5, ExpectedFacts DEF AfterFailure, After, AfterAt, AfterFraction,
       AfterCut, AfterSaved, AfterCheck, AfterPart, AfterLog, AfterResult, Arrays, Method
  <2> HIDE DEF s, m, u, f
  <2> QED  BY <1>1, <1>3, <1>4, <2>1, TakeInv DEF s, m, u
<1>6. CASE m.value # NoCut
  <2>1. Branches(w)  BY <1>1, <1>6 DEF Branches, TakeFailure, Value
  <2>2. Sound(f, Tail(chan[w]))  BY <2>1, WorkerFacts DEF WorkerInv
  <2>3. f \in StateT  BY <2>2 DEF Sound, Drains
  <2>4. Types /\ up[w] = <<>> /\ Tail(chan[w]) \in Seq(Message)
    BY <1>1, WorkerFacts DEF WorkerInv
  <2>5. up' = [up EXCEPT ![w] = <<>>] /\ <<>> \in Seq(Answer)  BY <1>4, <2>4 DEF Types
  <2>6. <<>> \in Answers(w)'  BY <1>4 DEF Answers
  <2>7. chan' = [chan EXCEPT ![w] = Tail(chan[w])]  BY <1>4 DEF Take
  <2>8. f.at = "loop"  BY DEF AfterFailure
  <2> HIDE DEF s, m, u, f
  <2> QED  BY <1>3, <2>2, <2>3, <2>4, <2>5, <2>6, <2>7, <2>8, BecomesInv
<1> QED  BY <1>5, <1>6

\* Nothing fits any more: this happens only where the client or a transfer has failed.
LEMMA MismatchInv == \A w \in Worker : Inv /\ Mismatch(w) => Inv'
<1> SUFFICES ASSUME NEW w \in Worker, Inv, Mismatch(w) PROVE Inv'  OBVIOUS
<1> DEFINE s == State(w)
           m == Head(chan[w])
           u == After(s, m)
<1>1. chan[w] # <<>>  BY DEF Mismatch
<1>2. ~ Fits(s, m)
  <2>1. s.at = at[w] /\ s.cut = cut[w]  BY <1>1, TakeFacts
  <2> QED  BY <1>1, <2>1 DEF Mismatch, Value, Fits
<1>3. u.at = "lost" /\ u.fraction = s.fraction /\ u.cut = s.cut /\ u.saved = s.saved
      /\ u.check = s.check /\ u.part = s.part /\ u.log = s.log /\ u.result = s.result
  BY ZenonT(100), <1>2 DEF After, AfterAt, AfterFraction, AfterCut, AfterSaved,
     AfterCheck, AfterPart, AfterLog, AfterResult
<1>4. Becomes(w, u)
  <2>1. /\ fraction' = fraction /\ cut' = cut /\ saved' = saved /\ needCheck' = needCheck
        /\ part' = part /\ log' = log /\ result' = result /\ array' = array
        /\ at' = [at EXCEPT ![w] = u.at]
    BY <1>3 DEF Mismatch, settings
  <2>2. /\ u.fraction = fraction[w] /\ u.cut = cut[w] /\ u.saved = saved[w]
        /\ u.check = needCheck[w] /\ u.part = part[w] /\ u.log = log[w]
        /\ u.result = result[w]
    BY <1>1, <1>3, TakeFacts
  <2> HIDE DEF u
  <2> QED  BY <2>1, <2>2, Unchanged DEF Becomes
<1>5. Types /\ chan[w] \in Seq(Message) /\ up[w] = <<>>
  BY <1>1, WorkerFacts DEF WorkerInv
<1>6. PICK t \in StateT : Drains(s, chan[w], t) /\ (Follows(t) \/ Astray(t))
  BY WorkerFacts DEF WorkerInv, Sound
<1>7. u \in StateT /\ Leads(u, t)  BY <1>1, <1>5, <1>6, DrainHead
<1>8. Astray(t)
  <2>1. t.at = "lost"  BY <1>3, <1>7 DEF Leads
  <2>2. at[Root] \in DOMAIN Follower  BY <1>5 DEF Types
  <2>3. ~ Follows(t)  BY <2>1, <2>2 DEF Follows, Follower
  <2> QED  BY <1>6, <2>3
<1>9. Astray(u)
  <2>1. Prefix(u.log, t.log) /\ Prefix(t.log, log[Root])  BY <1>7, <1>8 DEF Leads, Astray
  <2>2. log[Root] \in Seq(Call)  BY <1>5, Ranks DEF Types
  <2>3. Len(u.log) \in Int /\ Len(t.log) \in Int /\ Len(log[Root]) \in Int
    BY <1>6, <1>7, <2>2, LenProperties DEF StateT
  <2>4. Prefix(u.log, log[Root])  BY <2>1, <2>3, PrefixFacts
  <2> QED  BY <1>3, <1>8, <2>4 DEF Astray
<1>10. Sound(u, chan[w])  BY <1>3, <1>5, <1>7, <1>9, DrainLost DEF Sound
<1>11. chan' = [chan EXCEPT ![w] = chan[w]] /\ up' = [up EXCEPT ![w] = <<>>]
       /\ <<>> \in Seq(Answer)
  BY <1>5 DEF Types, Mismatch
<1> HIDE DEF s, m, u
<1> QED  BY <1>1, <1>3, <1>4, <1>5, <1>7, <1>10, <1>11, BecomesInv

\* A worker's step keeps the invariant.
LEMMA WorkerStep == \A w \in Worker : Inv /\ MpiWorker(w) => Inv'
  BY TakeMethodInv, BreakInv, MismatchInv, TakeFractionInv, TakeSaveInv, TakeApplyInv,
     TakeDeleteInv, TakePartInv, TakeNewPartInv, TakeRunInv, TakeCountInv, TakeCutInv,
     TakeFailureInv, LeaveInv DEF MpiWorker

----------------------------------------------------------------------------
(* What the root sends.                                                    *)

LEMMA MsgFacts ==
  /\ \A k, v : Msg(k, v).kind = k /\ Msg(k, v).value = v
  /\ \A v \in Method \cup {"run", "break"} : Msg("method", v) \in Message
  /\ \A v \in Nat : Msg("value", v) \in Message
  /\ \A v \in Part : Msg("part", v) \in Message
  /\ \A v \in BOOLEAN : Msg("count", v) \in Message
  /\ \A v \in Cuts \cup {NoCut} : Msg("cut", v) \in Message
  /\ Msg("leave", 0) \in Message
  BY DEF Msg, Message

\* One, two or three messages are added to what is on its way.
LEMMA DrainOne ==
  ASSUME NEW s, NEW ch \in Seq(Message), NEW t \in StateT, Drains(s, ch, t),
         ch = <<>> \/ ~ Replies(t),
         NEW m \in Message, Fits(t, m) => Proper(t, m)
  PROVE  Drains(s, ch \o <<m>>, After(t, m)) /\ After(t, m) \in StateT
<1>1. ch \o <<m>> = Append(ch, m)  OBVIOUS
<1> QED  BY <1>1, DrainAppend, AfterIsState

LEMMA DrainTwo ==
  ASSUME NEW s, NEW ch \in Seq(Message), NEW t \in StateT, Drains(s, ch, t),
         ch = <<>> \/ ~ Replies(t),
         NEW m \in Message, Fits(t, m) => Proper(t, m),
         NEW n \in Message, ~ Replies(After(t, m)),
         Fits(After(t, m), n) => Proper(After(t, m), n)
  PROVE  /\ Drains(s, ch \o <<m, n>>, After(After(t, m), n))
         /\ After(After(t, m), n) \in StateT
<1> DEFINE u == After(t, m)
           c == ch \o <<m>>
<1>1. Drains(s, c, u) /\ u \in StateT  BY DrainOne
<1>2. c \in Seq(Message)  OBVIOUS
<1>3. ch \o <<m, n>> = c \o <<n>>  OBVIOUS
<1>4. ~ Replies(u) /\ (Fits(u, n) => Proper(u, n))  OBVIOUS
<1> HIDE DEF u, c
<1>5. Drains(s, c \o <<n>>, After(u, n)) /\ After(u, n) \in StateT
  BY <1>1, <1>2, <1>4, DrainOne
<1> QED  BY <1>3, <1>5 DEF u

LEMMA DrainThree ==
  ASSUME NEW s, NEW ch \in Seq(Message), NEW t \in StateT, Drains(s, ch, t),
         ch = <<>> \/ ~ Replies(t),
         NEW m \in Message, Fits(t, m) => Proper(t, m),
         NEW n \in Message, ~ Replies(After(t, m)),
         Fits(After(t, m), n) => Proper(After(t, m), n),
         NEW o \in Message, ~ Replies(After(After(t, m), n)),
         Fits(After(After(t, m), n), o) => Proper(After(After(t, m), n), o)
  PROVE  /\ Drains(s, ch \o <<m, n, o>>, After(After(After(t, m), n), o))
         /\ After(After(After(t, m), n), o) \in StateT
<1> DEFINE u == After(After(t, m), n)
           c == ch \o <<m, n>>
<1>1. Drains(s, c, u) /\ u \in StateT  BY DrainTwo
<1>2. c \in Seq(Message)  OBVIOUS
<1>3. ch \o <<m, n, o>> = c \o <<o>>  OBVIOUS
<1>4. ~ Replies(u) /\ (Fits(u, o) => Proper(u, o))  OBVIOUS
<1> HIDE DEF u, c
<1>5. Drains(s, c \o <<o>>, After(u, o)) /\ After(u, o) \in StateT
  BY <1>1, <1>2, <1>4, DrainOne
<1> QED  BY <1>3, <1>5 DEF u

\* What does not fit loses the worker.
LEMMA AfterMisfit ==
  ASSUME NEW s \in StateT, NEW m \in Message, ~ Fits(s, m)
  PROVE  /\ After(s, m) \in StateT /\ After(s, m).at = "lost" /\ After(s, m).log = s.log
         /\ ~ Replies(After(s, m))
<1>1. After(s, m) \in StateT  BY AfterIsState
<1>2. After(s, m).at = "lost" /\ After(s, m).log = s.log
  BY DEF After, AfterAt, AfterLog
<1> QED  BY <1>1, <1>2 DEF Replies

\* A worker that waits for an array, or is lost, is lost when a method is called.
LEMMA AstrayMisfits ==
  ASSUME NEW s, s.at \in {"lost", "mask", "newmask"}, NEW m, m.kind # "part"
  PROVE  ~ Fits(s, m) /\ ~ Replies(s)
  BY ExpectedFacts DEF Fits, Replies

LEMMA LostMisfits == \A s, m : s.at = "lost" => ~ Fits(s, m)
  BY ExpectedFacts DEF Fits

LEMMA HeadTailConcat ==
  ASSUME NEW s \in Seq(Message), s # <<>>, NEW t \in Seq(Message)
  PROVE  Head(s \o t) = Head(s) /\ Tail(s \o t) = Tail(s) \o t
<1> DEFINE n == Len(s)
           k == Len(t)
<1>1. /\ Tail(s) \in Seq(Message) /\ Len(Tail(s)) = n-1 /\ n \in Nat \ {0} /\ k \in Nat
      /\ \A i \in 1 .. n-1 : Tail(s)[i] = s[i+1]
  BY HeadTailProperties, EmptySeq, LenProperties
<1>2. /\ s \o t \in Seq(Message) /\ Len(s \o t) = n+k /\ s \o t # <<>>
      /\ \A i \in 1 .. n+k : (s \o t)[i] = IF i <= n THEN s[i] ELSE t[i-n]
  BY ConcatProperties, ConcatEqualIffEmpty
<1>3. /\ Tail(s \o t) \in Seq(Message) /\ Len(Tail(s \o t)) = n+k-1
      /\ \A i \in 1 .. n+k-1 : Tail(s \o t)[i] = (s \o t)[i+1]
  BY <1>2, HeadTailProperties
<1>4. /\ Tail(s) \o t \in Seq(Message) /\ Len(Tail(s) \o t) = n-1+k
      /\ \A i \in 1 .. n-1+k : (Tail(s) \o t)[i] = IF i <= n-1 THEN Tail(s)[i] ELSE t[i-(n-1)]
  BY <1>1, ConcatProperties
<1> HIDE DEF n, k
<1>5. ASSUME NEW i \in 1 .. n+k-1 PROVE Tail(s \o t)[i] = (Tail(s) \o t)[i]
  <2>1. i+1 \in 1 .. n+k /\ i \in 1 .. n-1+k /\ (i+1)-n = i-(n-1)  BY <1>1
  <2>2. CASE i <= n-1
    <3>1. i+1 <= n /\ i \in 1 .. n-1  BY <1>1, <2>2
    <3> QED  BY <1>1, <1>2, <1>3, <1>4, <2>1, <2>2, <3>1
  <2>3. CASE ~ (i <= n-1)
    <3>1. ~ (i+1 <= n)  BY <1>1, <2>3
    <3> QED  BY <1>2, <1>3, <1>4, <2>1, <2>3, <3>1
  <2> QED  BY <2>2, <2>3
<1>6. n+k-1 = n-1+k  BY <1>1
<1>7. Tail(s \o t) = Tail(s) \o t  BY <1>3, <1>4, <1>5, <1>6, SeqEqual
<1>8. Head(s \o t) = Head(s)
  <2>1. 1 \in 1 .. n+k /\ 1 <= n  BY <1>1
  <2> QED  BY <1>2, <2>1
<1> QED  BY <1>7, <1>8

LEMMA PrefixTrans ==
  ASSUME NEW s \in Seq(Call), NEW t \in Seq(Call), NEW u \in Seq(Call),
         Prefix(s, t), Prefix(t, u)
  PROVE  Prefix(s, u)
  BY LenProperties, PrefixFacts

\* The same, after the step.
StillSound(s, ch) ==
  \E t \in StateT : Drains(s, ch, t) /\ (Follows(t)' \/ Astray(t)')

\* After a call of one message, whatever has been on its way.
LEMMA CallOne ==
  ASSUME Types, Types', at[Root] = "loop", Prefix(log[Root], log'[Root]),
         NEW m \in Message, m.kind = "method",
         \A t \in StateT : Follows(t) =>
           Follows(After(t, m))' \/ Astray(After(t, m))'
  PROVE  \A s : \A ch \in Seq(Message) : Sound(s, ch) => StillSound(s, ch \o <<m>>)
<1> SUFFICES ASSUME NEW s, NEW ch \in Seq(Message), Sound(s, ch)
             PROVE  StillSound(s, ch \o <<m>>)
  OBVIOUS
<1>1. PICK t \in StateT : Drains(s, ch, t) /\ (Follows(t) \/ Astray(t))  BY DEF Sound
<1>2. t.at \in {"loop", "lost", "mask", "newmask"} /\ ~ Replies(t)
  BY <1>1 DEF Follows, Astray, Follower, Replies
<1>3. Fits(t, m) => Proper(t, m)  BY <1>2, ExpectedFacts DEF Fits, Proper
<1>4. Drains(s, ch \o <<m>>, After(t, m)) /\ After(t, m) \in StateT
  BY <1>1, <1>2, <1>3, DrainOne
<1>5. Follows(After(t, m))' \/ Astray(After(t, m))'
  <2>1. CASE Follows(t)  BY <2>1
  <2>2. CASE Astray(t)
    <3>1. t.at \in {"lost", "mask", "newmask"}  BY <2>2 DEF Astray
    <3>2. After(t, m).at = "lost" /\ After(t, m).log = t.log
      BY <3>1, AstrayMisfits, AfterMisfit
    <3>3. t.log \in Seq(Call) /\ log[Root] \in Seq(Call) /\ log'[Root] \in Seq(Call)
      BY Ranks DEF Types, StateT
    <3>4. Prefix(t.log, log'[Root])  BY <2>2, <3>3, PrefixTrans DEF Astray
    <3> QED  BY <2>2, <3>2, <3>4 DEF Astray
  <2> QED  BY <1>1, <2>1, <2>2
<1> HIDE DEF Drains, Follows, Astray
<1> QED  BY <1>4, <1>5 DEF StillSound

\* After a call of two.
LEMMA CallTwo ==
  ASSUME Types, Types', at[Root] = "loop", Prefix(log[Root], log'[Root]),
         NEW m \in Message, m.kind = "method", NEW n \in Message,
         \A t \in StateT : Follows(t) =>
           /\ ~ Replies(After(t, m))
           /\ Fits(After(t, m), n) => Proper(After(t, m), n)
           /\ Follows(After(After(t, m), n))' \/ Astray(After(After(t, m), n))'
  PROVE  \A s : \A ch \in Seq(Message) : Sound(s, ch) => StillSound(s, ch \o <<m, n>>)
<1> SUFFICES ASSUME NEW s, NEW ch \in Seq(Message), Sound(s, ch)
             PROVE  StillSound(s, ch \o <<m, n>>)
  OBVIOUS
<1>1. PICK t \in StateT : Drains(s, ch, t) /\ (Follows(t) \/ Astray(t))  BY DEF Sound
<1> DEFINE u == After(t, m)
<1>2. t.at \in {"loop", "lost", "mask", "newmask"} /\ ~ Replies(t)
  BY <1>1 DEF Follows, Astray, Follower, Replies
<1>3. Fits(t, m) => Proper(t, m)  BY <1>2, ExpectedFacts DEF Fits, Proper
<1>4. u \in StateT  BY <1>3, AfterIsState
<1>5. /\ ~ Replies(u) /\ (Fits(u, n) => Proper(u, n))
      /\ Follows(After(u, n))' \/ Astray(After(u, n))'
  <2>1. CASE Follows(t)  BY <2>1
  <2>2. CASE Astray(t)
    <3>1. t.at \in {"lost", "mask", "newmask"}  BY <2>2 DEF Astray
    <3>2. u.at = "lost" /\ u.log = t.log /\ ~ Replies(u)
      BY <3>1, AstrayMisfits, AfterMisfit
    <3> HIDE DEF u
    <3>3. ~ Fits(u, n)  BY <3>2, LostMisfits
    <3>4. After(u, n).at = "lost" /\ After(u, n).log = t.log
      BY <1>4, <3>2, <3>3, AfterMisfit
    <3>5. t.log \in Seq(Call) /\ log[Root] \in Seq(Call) /\ log'[Root] \in Seq(Call)
      BY Ranks DEF Types, StateT
    <3>6. Prefix(t.log, log'[Root])  BY <2>2, <3>5, PrefixTrans DEF Astray
    <3>7. Astray(After(u, n))'  BY <2>2, <3>4, <3>6 DEF Astray
    <3> QED  BY <3>2, <3>3, <3>7
  <2> QED  BY <1>1, <2>1, <2>2
<1>6. Drains(s, ch \o <<m, n>>, After(u, n)) /\ After(u, n) \in StateT
  BY <1>1, <1>2, <1>3, <1>5, DrainTwo
<1> HIDE DEF Drains, Follows, Astray, u
<1> QED  BY <1>5, <1>6 DEF StillSound

\* Nothing changes at the workers when the root takes a step.
WorkersKeep == \A w \in Worker : State(w)' = State(w)

\* The client has called a method.
LEMMA CallInv ==
  ASSUME Inv, Types', at[Root] = "loop", WorkersKeep, up' = up,
         NEW ms \in Seq(Message), ms # <<>>, Head(ms).kind = "method", Send(ms),
         \A s : \A ch \in Seq(Message) : Sound(s, ch) => StillSound(s, ch \o ms)
  PROVE  Inv'
<1> SUFFICES ASSUME NEW w \in Worker PROVE WorkerInv(w)'
  BY DEF Inv
<1>1. Types /\ WorkerInv(w) /\ State(w) \in StateT /\ chan[w] \in Seq(Message)
  BY WorkerFacts
<1>2. chan'[w] = chan[w] \o ms /\ chan'[w] # <<>>
  <2>1. chan'[w] = chan[w] \o ms  BY DEF Send
  <2> QED  BY <1>1, <2>1, ConcatEqualIffEmpty
<1>3. State(w)' = State(w) /\ at'[w] = at[w] /\ cut'[w] = cut[w]
  <2>1. State(w)' = State(w)  BY DEF WorkersKeep
  <2>2. State(w).at = at[w] /\ State(w).cut = cut[w] /\ State(w)'.at = at'[w]
        /\ State(w)'.cut = cut'[w]
    BY DEF State
  <2> QED  BY <2>1, <2>2
<1>4. Sound(State(w), chan[w])'
  <2>1. StillSound(State(w), chan[w] \o ms)  BY <1>1 DEF WorkerInv
  <2> QED  BY <1>2, <1>3, <2>1 DEF Sound, StillSound
<1>5. up'[w] = <<>>
  <2>1. CASE chan[w] # <<>>  BY <1>1, <2>1 DEF WorkerInv
  <2>2. CASE chan[w] = <<>>
    <3>1. PICK t \in StateT : Drains(State(w), <<>>, t) /\ (Follows(t) \/ Astray(t))
      BY <1>1, <2>2 DEF WorkerInv, Sound
    <3>2. t = State(w)  BY <3>1, DrainNone
    <3>3. at[w] \in {"loop", "mask", "newmask", "lost"}
      BY <3>1, <3>2 DEF State, Follows, Astray, Follower
    <3> QED  BY <1>1, <2>2, <3>3 DEF WorkerInv, Answers
  <2> QED  BY <2>1, <2>2
<1>6. Branches(w)' => Sound(AfterFailure(State(w)), Tail(chan[w]))'
  <2> SUFFICES ASSUME Branches(w)'
               PROVE  Sound(AfterFailure(State(w)), Tail(chan[w]))'
    OBVIOUS
  <2>1. chan[w] # <<>>
    <3> SUFFICES ASSUME chan[w] = <<>> PROVE FALSE  OBVIOUS
    <3>1. chan'[w] = ms  BY <1>2, ConcatEmptySeq
    <3> QED  BY <3>1 DEF Branches
  <2>2. Head(chan'[w]) = Head(chan[w]) /\ Tail(chan'[w]) = Tail(chan[w]) \o ms
        /\ Tail(chan[w]) \in Seq(Message)
    BY <1>1, <1>2, <2>1, HeadTailConcat, HeadTailProperties
  <2>3. Branches(w)  BY <1>3, <2>1, <2>2 DEF Branches
  <2>4. StillSound(AfterFailure(State(w)), Tail(chan[w]) \o ms)
    BY <1>1, <2>2, <2>3 DEF WorkerInv
  <2>5. AfterFailure(State(w))' = AfterFailure(State(w))  BY <1>3 DEF AfterFailure
  <2> QED  BY <2>2, <2>4, <2>5 DEF Sound, StillSound
<1> QED  BY <1>2, <1>4, <1>5, <1>6 DEF WorkerInv

----------------------------------------------------------------------------
(* The client's calls.                                                     *)

\* What a worker that follows the root has when it is called for method x.
Called(u, x) ==
  /\ u.at = x /\ u.fraction = fraction[Root] /\ u.cut = cut[Root] /\ u.saved = saved[Root]
  /\ u.check = needCheck[Root] /\ u.log = log[Root] /\ u.result = result[Root]
  /\ NoApply => \A a \in Arrays : u.part[a] = [value |-> array[a], cut |-> cut[Root]]

LEMMA SendTypes ==
  ASSUME Types, NEW ms \in Seq(Message), Send(ms)
  PROVE  chan' \in [Worker -> Seq(Message)]
<1>1. \A w \in Worker : chan[w] \o ms \in Seq(Message)  BY ConcatProperties DEF Types
<1> QED  BY <1>1 DEF Send

\* The number of the method, and then its argument.
LEMMA CallTwoInv ==
  ASSUME Inv, Types', at[Root] = "loop", WorkersKeep, up' = up,
         Prefix(log[Root], log'[Root]), NEW x \in Method, NEW n \in Message,
         n.kind # "method", Send(<<Msg("method", x), n>>),
         \A u \in StateT : Called(u, x) =>
           Fits(u, n) /\ Proper(u, n) /\ Follows(After(u, n))',
         x \in {"apply", "delete"} =>
           \A t \in StateT : t.saved = saved[Root] /\ NoZero(t) => ~ Careful
  PROVE  Inv'
<1> DEFINE m == Msg("method", x)
<1>1. m \in Message /\ m.kind = "method" /\ m.value = x  BY MsgFacts
<1>2. Types  BY DEF Inv
<1> HIDE DEF m
<1>3. ASSUME NEW t \in StateT, Follows(t)
      PROVE  /\ ~ Replies(After(t, m))
             /\ Fits(After(t, m), n) => Proper(After(t, m), n)
             /\ Follows(After(After(t, m), n))' \/ Astray(After(After(t, m), n))'
  <2> DEFINE u == After(t, m)
  <2>1. t.at = "loop" /\ Fits(t, m)
    BY <1>1, <1>3, ExpectedFacts DEF Follows, Follower, Fits
  <2>2. u \in StateT  BY <1>1, <2>1, AfterIsState DEF Proper
  <2>3. /\ u.fraction = t.fraction /\ u.cut = t.cut /\ u.saved = t.saved
        /\ u.check = t.check /\ u.part = t.part /\ u.log = t.log /\ u.result = t.result
        /\ u.at = IF x \in {"apply", "delete"} /\ NoZero(t) THEN "loop" ELSE x
    <3>1. u.at = IF x \in {"apply", "delete"} /\ NoZero(t) THEN "loop" ELSE x
      BY <1>1, <2>1, AfterFields DEF AfterAt, Method
    <3>2. u.fraction = t.fraction /\ u.cut = t.cut /\ u.saved = t.saved
      BY <2>1, AfterFields DEF AfterFraction, AfterCut, AfterSaved
    <3>3. u.check = t.check /\ u.log = t.log
      BY <1>1, <2>1, AfterFields DEF AfterCheck, AfterLog, Arrays, Method
    <3>4. u.part = t.part /\ u.result = t.result
      BY <2>1, AfterFields DEF AfterPart, AfterResult
    <3> QED  BY <3>1, <3>2, <3>3, <3>4
  <2> HIDE DEF u
  <2>4. ~ Replies(u)  BY <2>3 DEF Replies, Method
  <2>5. CASE ~ (x \in {"apply", "delete"} /\ NoZero(t))
    <3>1. Called(u, x)  BY <1>3, <2>3, <2>5 DEF Called, Follows
    <3> QED  BY <2>2, <2>4, <3>1 DEF u
  <2>6. CASE x \in {"apply", "delete"} /\ NoZero(t)
    <3>1. ~ Fits(u, n)  BY <2>3, <2>6, ExpectedFacts DEF Fits
    <3>2. After(u, n).at = "lost" /\ After(u, n).log = t.log
      BY <2>2, <2>3, <3>1, AfterMisfit
    <3>3. ~ Careful /\ t.log = log[Root]  BY <1>3, <2>6 DEF Follows
    <3>4. Astray(After(u, n))'  BY <3>2, <3>3 DEF Astray, Careful
    <3> QED  BY <2>4, <3>1, <3>4 DEF u
  <2> QED  BY <2>5, <2>6
<1>4. \A s : \A ch \in Seq(Message) : Sound(s, ch) => StillSound(s, ch \o <<m, n>>)
  BY <1>1, <1>2, <1>3, CallTwo
<1>5. <<m, n>> \in Seq(Message) /\ <<m, n>> # <<>> /\ Head(<<m, n>>) = m  BY <1>1
<1>6. Send(<<m, n>>)  BY DEF m
<1> HIDE DEF Types, Send
<1> QED  BY <1>1, <1>4, <1>5, <1>6, CallInv

\* The root has written the call down.
LEMMA LogFacts ==
  ASSUME Types, Len(log[Root]) < MaxCalls, NEW m \in Method \cup {"run"}, NEW v \in Nat,
         Logged(Root, m, v)
  PROVE  /\ log' \in [Rank -> Seq(Call)] /\ log'[Root] = Append(log[Root], <<m, v>>)
         /\ Len(log'[Root]) <= MaxCalls /\ Prefix(log[Root], log'[Root])
         /\ NoApply' => NoApply /\ m # "apply"
<1>1. log[Root] \in Seq(Call) /\ Root \in Rank /\ <<m, v>> \in Call  BY Ranks DEF Types, Call
<1>2. /\ log'[Root] = Append(log[Root], <<m, v>>) /\ log' \in [Rank -> Seq(Call)]
  BY <1>1 DEF Types, Logged
<1>3. /\ Len(log'[Root]) = Len(log[Root]) + 1 /\ Len(log[Root]) \in Nat
      /\ log'[Root][Len(log[Root]) + 1] = <<m, v>>
      /\ \A i \in 1 .. Len(log[Root]) : log'[Root][i] = log[Root][i]
  BY <1>1, <1>2, AppendProperties, LenProperties
<1>4. Len(log'[Root]) <= MaxCalls  BY <1>3, BoundAssumption
<1>5. Prefix(log[Root], log'[Root])  BY <1>1, <1>2, PrefixFacts
<1>6. NoApply' => NoApply /\ m # "apply"
  <2> SUFFICES ASSUME NoApply' PROVE NoApply /\ m # "apply"  OBVIOUS
  <2>1. \A i \in 1 .. Len(log[Root]) + 1 : log'[Root][i][1] # "apply"
    BY <1>3 DEF NoApply
  <2>2. Len(log[Root]) + 1 \in 1 .. Len(log[Root]) + 1  BY <1>3
  <2>3. m # "apply"  BY <1>3, <2>1, <2>2
  <2>4. \A i \in 1 .. Len(log[Root]) : i \in 1 .. Len(log[Root]) + 1  BY <1>3
  <2>5. NoApply  BY <1>3, <2>1, <2>4 DEF NoApply
  <2> QED  BY <2>3, <2>5
<1> QED  BY <1>2, <1>4, <1>5, <1>6

LEMMA SetRebalanceFractionInv == \A f \in {0, 1} : Inv /\ SetRebalanceFraction(f) => Inv'
<1> SUFFICES ASSUME NEW f \in {0, 1}, Inv, SetRebalanceFraction(f) PROVE Inv'  OBVIOUS
<1> DEFINE n == Msg("value", f)
<1>1. Types  BY DEF Inv
<1>2. n \in Message /\ n.kind = "value" /\ n.value = f /\ f \in Nat  BY MsgFacts
<1>3. /\ log' \in [Rank -> Seq(Call)] /\ log'[Root] = Append(log[Root], <<"fraction", f>>)
      /\ Len(log'[Root]) <= MaxCalls /\ Prefix(log[Root], log'[Root]) /\ (NoApply' => NoApply)
  BY <1>1, <1>2, LogFacts DEF SetRebalanceFraction, Idle, Method
<1>4. at[Root] = "loop" /\ up' = up /\ Send(<<Msg("method", "fraction"), n>>)
  BY DEF SetRebalanceFraction, Idle
<1> HIDE DEF n
<1>5. chan' \in [Worker -> Seq(Message)]
  <2>1. <<Msg("method", "fraction"), n>> \in Seq(Message)  BY <1>2, MsgFacts DEF Method
  <2> QED  BY <1>1, <1>4, <2>1, SendTypes
<1>6. Types'  BY <1>1, <1>3, <1>5, Ranks DEF Types, SetRebalanceFraction
<1>7. WorkersKeep  BY <1>1, Ranks DEF Types, SetRebalanceFraction, Logged, WorkersKeep, State
<1>8. ASSUME NEW u \in StateT, Called(u, "fraction")
      PROVE  Fits(u, n) /\ Proper(u, n) /\ Follows(After(u, n))'
  <2>1. u.at = "fraction" /\ Fits(u, n) /\ Proper(u, n)
    BY <1>2, <1>8, ExpectedFacts DEF Called, Fits, Proper
  <2> DEFINE v == After(u, n)
  <2>2. /\ v.at = "loop" /\ v.fraction = n.value
        /\ v.log = Append(u.log, <<"fraction", n.value>>)
        /\ v.cut = u.cut /\ v.saved = u.saved /\ v.check = u.check /\ v.part = u.part
        /\ v.result = u.result
    <3>1. v.at = "loop"
      BY <2>1, AfterFields DEF AfterAt, Method
    <3>2. v.fraction = n.value
      BY <2>1, AfterFields DEF AfterFraction
    <3>3. v.log = Append(u.log, <<"fraction", n.value>>)
      BY <2>1, AfterFields DEF AfterLog, Arrays, Method
    <3>4. /\ v.cut = u.cut /\ v.saved = u.saved /\ v.check = u.check
          /\ v.part = u.part /\ v.result = u.result
      BY <2>1, AfterFields DEF AfterCut, AfterSaved, AfterCheck, AfterPart, AfterResult
    <3> QED  BY <3>1, <3>2, <3>3, <3>4
  <2> HIDE DEF v
  <2>3. /\ at'[Root] = "loop" /\ fraction'[Root] = f /\ cut'[Root] = cut[Root]
        /\ saved'[Root] = saved[Root] /\ needCheck'[Root] = needCheck[Root]
        /\ array' = array /\ result'[Root] = result[Root]
    BY <1>1, Ranks DEF Types, SetRebalanceFraction, Idle
  <2>4. Follows(v)'  BY <1>2, <1>3, <1>8, <2>2, <2>3 DEF Follows, Follower, Called
  <2> QED  BY <2>1, <2>4 DEF v
<1> HIDE DEF Types, Send
<1> QED  BY <1>2, <1>3, <1>4, <1>6, <1>7, <1>8, CallTwoInv DEF Method

LEMMA SetSaturationInv == \A b \in {0, 1} : Inv /\ SetSaturation(b) => Inv'
<1> SUFFICES ASSUME NEW b \in {0, 1}, Inv, SetSaturation(b) PROVE Inv'  OBVIOUS
<1>1. Types  BY DEF Inv
<1>2. PICK n \in Message : n = Scattered(b)
  BY <1>1, Ranks, MsgFacts DEF Scattered, Types, Part
<1>9. n.kind = "part" /\ n.value = [value |-> b, cut |-> cut[Root]] /\ n.value.value = b
      /\ n.value.cut = cut[Root] /\ b \in Nat
  BY <1>2, MsgFacts DEF Scattered
<1>3. /\ log' \in [Rank -> Seq(Call)] /\ log'[Root] = Append(log[Root], <<"saturation", b>>)
      /\ Len(log'[Root]) <= MaxCalls /\ Prefix(log[Root], log'[Root])
      /\ NoApply' => NoApply /\ "saturation" # "apply"
  BY <1>1, <1>9, LogFacts DEF SetSaturation, Idle, Method
<1>4. at[Root] = "loop" /\ up' = up /\ Send(<<Msg("method", "saturation"), n>>)
  BY <1>2 DEF SetSaturation, Idle
<1>5. chan' \in [Worker -> Seq(Message)]
  <2>1. <<Msg("method", "saturation"), n>> \in Seq(Message)  BY <1>2, MsgFacts DEF Method
  <2> QED  BY <1>1, <1>4, <2>1, SendTypes
<1>6. Types'  BY <1>1, <1>3, <1>5, Ranks DEF Types, SetSaturation, Arrays
<1>7. WorkersKeep  BY <1>1, Ranks DEF Types, SetSaturation, Logged, WorkersKeep, State
<1>8. ASSUME NEW u \in StateT, Called(u, "saturation")
      PROVE  Fits(u, n) /\ Proper(u, n) /\ Follows(After(u, n))'
  <2>1. u.at = "saturation" /\ Fits(u, n) /\ Proper(u, n)
    BY <1>2, <1>8, <1>9, ExpectedFacts DEF Called, Fits, Proper
  <2> DEFINE v == After(u, n)
  <2>2. /\ v.at = "loop" /\ v.log = Append(u.log, <<"saturation", n.value.value>>)
        /\ v.part = [u.part EXCEPT !["saturation"] = n.value]
        /\ v.fraction = u.fraction /\ v.cut = u.cut /\ v.saved = u.saved
        /\ v.check = u.check /\ v.result = u.result
    <3>1. v.at = "loop"
      BY <2>1, AfterFields DEF AfterAt, Method
    <3>2. v.log = Append(u.log, <<"saturation", n.value.value>>)
      BY <2>1, AfterFields DEF AfterLog, Arrays, Method
    <3>3. v.part = [u.part EXCEPT !["saturation"] = n.value]
      BY <2>1, AfterFields DEF AfterPart
    <3>4. /\ v.fraction = u.fraction /\ v.cut = u.cut /\ v.saved = u.saved
          /\ v.check = u.check /\ v.result = u.result
      BY <2>1, AfterFields
      DEF AfterFraction, AfterCut, AfterSaved, AfterCheck, AfterResult
    <3> QED  BY <3>1, <3>2, <3>3, <3>4
  <2> HIDE DEF v
  <2>3. /\ at'[Root] = "loop" /\ fraction'[Root] = fraction[Root] /\ cut'[Root] = cut[Root]
        /\ saved'[Root] = saved[Root] /\ needCheck'[Root] = needCheck[Root]
        /\ array' = [array EXCEPT !["saturation"] = b] /\ result'[Root] = result[Root]
    BY <1>1, Ranks DEF Types, SetSaturation, Idle
  <2>4. NoApply' => \A a \in Arrays : v.part[a] = [value |-> array'[a], cut |-> cut'[Root]]
    <3>1. u.part \in [Arrays -> Part] /\ array \in [Arrays -> {0, 1}]
      BY <1>1 DEF StateT, Types
    <3>2. NoApply' => \A a \in Arrays : u.part[a] = [value |-> array[a], cut |-> cut[Root]]
      BY <1>3, <1>8 DEF Called
    <3> QED  BY <1>9, <2>2, <2>3, <3>1, <3>2
  <2>5. Follows(v)'
    BY <1>3, <1>8, <1>9, <2>2, <2>3, <2>4 DEF Follows, Follower, Called
  <2> QED  BY <2>1, <2>5 DEF v
<1> HIDE DEF Types, Send
<1> QED  BY <1>2, <1>3, <1>4, <1>6, <1>7, <1>8, <1>9, CallTwoInv DEF Method

LEMMA SetPrintChemistryMaskInv == \A b \in {0, 1} : Inv /\ SetPrintChemistryMask(b) => Inv'
<1> SUFFICES ASSUME NEW b \in {0, 1}, Inv, SetPrintChemistryMask(b) PROVE Inv'  OBVIOUS
<1>1. Types  BY DEF Inv
<1>2. PICK n \in Message : n = Scattered(b)
  BY <1>1, Ranks, MsgFacts DEF Scattered, Types, Part
<1>9. n.kind = "part" /\ n.value = [value |-> b, cut |-> cut[Root]] /\ n.value.value = b
      /\ n.value.cut = cut[Root] /\ b \in Nat
  BY <1>2, MsgFacts DEF Scattered
<1>3. /\ log' \in [Rank -> Seq(Call)] /\ log'[Root] = Append(log[Root], <<"mask", b>>)
      /\ Len(log'[Root]) <= MaxCalls /\ Prefix(log[Root], log'[Root])
      /\ NoApply' => NoApply /\ "mask" # "apply"
  BY <1>1, <1>9, LogFacts DEF SetPrintChemistryMask, Idle, Method
<1>4. at[Root] = "loop" /\ up' = up /\ Send(<<Msg("method", "mask"), n>>)
  BY <1>2 DEF SetPrintChemistryMask, Idle
<1>5. chan' \in [Worker -> Seq(Message)]
  <2>1. <<Msg("method", "mask"), n>> \in Seq(Message)  BY <1>2, MsgFacts DEF Method
  <2> QED  BY <1>1, <1>4, <2>1, SendTypes
<1>6. Types'  BY <1>1, <1>3, <1>5, Ranks DEF Types, SetPrintChemistryMask, Arrays
<1>7. WorkersKeep  BY <1>1, Ranks DEF Types, SetPrintChemistryMask, Logged, WorkersKeep, State
<1>8. ASSUME NEW u \in StateT, Called(u, "mask")
      PROVE  Fits(u, n) /\ Proper(u, n) /\ Follows(After(u, n))'
  <2>1. u.at = "mask" /\ Fits(u, n) /\ Proper(u, n)
    BY <1>2, <1>8, <1>9, ExpectedFacts DEF Called, Fits, Proper
  <2> DEFINE v == After(u, n)
  <2>2. /\ v.at = "loop" /\ v.log = Append(u.log, <<"mask", n.value.value>>)
        /\ v.part = [u.part EXCEPT !["mask"] = n.value]
        /\ v.fraction = u.fraction /\ v.cut = u.cut /\ v.saved = u.saved
        /\ v.check = u.check /\ v.result = u.result
    <3>1. v.at = "loop"
      BY <2>1, AfterFields DEF AfterAt, Method
    <3>2. v.log = Append(u.log, <<"mask", n.value.value>>)
      BY <2>1, AfterFields DEF AfterLog, Arrays, Method
    <3>3. v.part = [u.part EXCEPT !["mask"] = n.value]
      BY <2>1, AfterFields DEF AfterPart
    <3>4. /\ v.fraction = u.fraction /\ v.cut = u.cut /\ v.saved = u.saved
          /\ v.check = u.check /\ v.result = u.result
      BY <2>1, AfterFields
      DEF AfterFraction, AfterCut, AfterSaved, AfterCheck, AfterResult
    <3> QED  BY <3>1, <3>2, <3>3, <3>4
  <2> HIDE DEF v
  <2>3. /\ at'[Root] = "loop" /\ fraction'[Root] = fraction[Root] /\ cut'[Root] = cut[Root]
        /\ saved'[Root] = saved[Root] /\ needCheck'[Root] = needCheck[Root]
        /\ array' = [array EXCEPT !["mask"] = b] /\ result'[Root] = result[Root]
    BY <1>1, Ranks DEF Types, SetPrintChemistryMask, Idle
  <2>4. NoApply' => \A a \in Arrays : v.part[a] = [value |-> array'[a], cut |-> cut'[Root]]
    <3>1. u.part \in [Arrays -> Part] /\ array \in [Arrays -> {0, 1}]
      BY <1>1 DEF StateT, Types
    <3>2. NoApply' => \A a \in Arrays : u.part[a] = [value |-> array[a], cut |-> cut[Root]]
      BY <1>3, <1>8 DEF Called
    <3> QED  BY <1>9, <2>2, <2>3, <3>1, <3>2
  <2>5. Follows(v)'
    BY <1>3, <1>8, <1>9, <2>2, <2>3, <2>4 DEF Follows, Follower, Called
  <2> QED  BY <2>1, <2>5 DEF v
<1> HIDE DEF Types, Send
<1> QED  BY <1>2, <1>3, <1>4, <1>6, <1>7, <1>8, <1>9, CallTwoInv DEF Method

LEMMA StateSaveInv == \A s \in StateIds : Inv /\ StateSave(s) => Inv'
<1> SUFFICES ASSUME NEW s \in StateIds, Inv, StateSave(s) PROVE Inv'  OBVIOUS
<1> DEFINE n == Msg("value", s)
<1>1. Types  BY DEF Inv
<1>2. n \in Message /\ n.kind = "value" /\ n.value = s /\ s \in Nat
  BY MsgFacts, BoundAssumption
<1>3. /\ log' \in [Rank -> Seq(Call)] /\ log'[Root] = Append(log[Root], <<"save", s>>)
      /\ Len(log'[Root]) <= MaxCalls /\ Prefix(log[Root], log'[Root])
      /\ NoApply' => NoApply /\ "save" # "apply"
  BY <1>1, <1>2, LogFacts DEF StateSave, Idle, Method
<1>4. at[Root] = "loop" /\ up' = up /\ Send(<<Msg("method", "save"), n>>)
  BY DEF StateSave, Idle
<1> HIDE DEF n
<1>5. chan' \in [Worker -> Seq(Message)]
  <2>1. <<Msg("method", "save"), n>> \in Seq(Message)  BY <1>2, MsgFacts DEF Method
  <2> QED  BY <1>1, <1>4, <2>1, SendTypes
<1>6. Types'  BY <1>1, <1>3, <1>5, Ranks DEF Types, StateSave
<1>7. WorkersKeep  BY <1>1, Ranks DEF Types, StateSave, Logged, WorkersKeep, State
<1>8. ASSUME NEW u \in StateT, Called(u, "save")
      PROVE  Fits(u, n) /\ Proper(u, n) /\ Follows(After(u, n))'
  <2>1. u.at = "save" /\ Fits(u, n) /\ Proper(u, n)
    BY <1>2, <1>8, ExpectedFacts DEF Called, Fits, Proper
  <2> DEFINE v == After(u, n)
  <2>2. /\ v.at = "loop" /\ v.log = Append(u.log, <<"save", n.value>>)
        /\ v.saved = [u.saved EXCEPT ![n.value] = u.cut]
        /\ v.fraction = u.fraction /\ v.cut = u.cut /\ v.check = u.check
        /\ v.part = u.part /\ v.result = u.result
    <3>1. v.at = "loop"
      BY <2>1, AfterFields DEF AfterAt, Method
    <3>2. v.log = Append(u.log, <<"save", n.value>>)
      BY <2>1, AfterFields DEF AfterLog, Arrays, Method
    <3>3. v.saved = [u.saved EXCEPT ![n.value] = u.cut]
      BY <2>1, AfterFields DEF AfterSaved
    <3>4. /\ v.fraction = u.fraction /\ v.cut = u.cut /\ v.check = u.check
          /\ v.part = u.part /\ v.result = u.result
      BY <2>1, AfterFields DEF AfterFraction, AfterCut, AfterCheck, AfterPart, AfterResult
    <3> QED  BY <3>1, <3>2, <3>3, <3>4
  <2> HIDE DEF v
  <2>3. /\ at'[Root] = "loop" /\ fraction'[Root] = fraction[Root] /\ cut'[Root] = cut[Root]
        /\ saved'[Root] = [saved[Root] EXCEPT ![s] = cut[Root]]
        /\ needCheck'[Root] = needCheck[Root]
        /\ array' = array /\ result'[Root] = result[Root]
    BY <1>1, Ranks DEF Types, StateSave, Idle
  <2>4. Follows(v)'  BY <1>2, <1>3, <1>8, <2>2, <2>3 DEF Follows, Follower, Called
  <2> QED  BY <2>1, <2>4 DEF v
<1> HIDE DEF Types, Send
<1> QED  BY <1>2, <1>3, <1>4, <1>6, <1>7, <1>8, CallTwoInv DEF Method

LEMMA StateApplyInv == \A s \in StateIds : Inv /\ StateApply(s) => Inv'
<1> SUFFICES ASSUME NEW s \in StateIds, Inv, StateApply(s) PROVE Inv'  OBVIOUS
<1> DEFINE n == Msg("value", s)
<1>1. Types  BY DEF Inv
<1>2. n \in Message /\ n.kind = "value" /\ n.value = s /\ s \in Nat
  BY MsgFacts, BoundAssumption
<1>3. /\ log' \in [Rank -> Seq(Call)] /\ log'[Root] = Append(log[Root], <<"apply", s>>)
      /\ Len(log'[Root]) <= MaxCalls /\ Prefix(log[Root], log'[Root])
      /\ NoApply' => NoApply /\ "apply" # "apply"
  BY <1>1, <1>2, LogFacts DEF StateApply, Idle, Method
<1>4. at[Root] = "loop" /\ up' = up /\ Send(<<Msg("method", "apply"), n>>)
  BY DEF StateApply, Idle
<1> HIDE DEF n
<1>5. chan' \in [Worker -> Seq(Message)]
  <2>1. <<Msg("method", "apply"), n>> \in Seq(Message)  BY <1>2, MsgFacts DEF Method
  <2> QED  BY <1>1, <1>4, <2>1, SendTypes
<1>6. Types'  BY <1>1, <1>3, <1>5, Ranks DEF Types, StateApply, MayUse
<1>7. WorkersKeep  BY <1>1, Ranks DEF Types, StateApply, Logged, WorkersKeep, State
<1>8. ASSUME NEW u \in StateT, Called(u, "apply")
      PROVE  Fits(u, n) /\ Proper(u, n) /\ Follows(After(u, n))'
  <2>1. u.at = "apply" /\ Fits(u, n) /\ Proper(u, n)
    BY <1>2, <1>8, ExpectedFacts DEF Called, Fits, Proper, StateApply, MayUse
  <2> DEFINE v == After(u, n)
  <2>2. /\ v.at = "loop" /\ v.log = Append(u.log, <<"apply", n.value>>)
        /\ v.fraction = u.fraction /\ v.saved = u.saved /\ v.check = u.check
        /\ v.part = u.part /\ v.result = u.result
    <3>1. v.at = "loop"
      BY <2>1, AfterFields DEF AfterAt, Method
    <3>2. v.log = Append(u.log, <<"apply", n.value>>)
      BY <2>1, AfterFields DEF AfterLog, Arrays, Method
    <3>3. /\ v.fraction = u.fraction /\ v.saved = u.saved /\ v.check = u.check
          /\ v.part = u.part /\ v.result = u.result
      BY <2>1, AfterFields
      DEF AfterFraction, AfterSaved, AfterCheck, AfterPart, AfterResult
    <3> QED  BY <3>1, <3>2, <3>3
  <2>5. v.cut = u.saved[n.value]  BY <2>1 DEF After, AfterCut
  <2> HIDE DEF v
  <2>3. /\ at'[Root] = "loop" /\ fraction'[Root] = fraction[Root]
        /\ cut'[Root] = saved[Root][s]
        /\ saved'[Root] = saved[Root] /\ needCheck'[Root] = needCheck[Root]
        /\ array' = array /\ result'[Root] = result[Root]
    BY <1>1, Ranks DEF Types, StateApply, Idle
  <2>4. Follows(v)'  BY <1>2, <1>3, <1>8, <2>2, <2>3, <2>5 DEF Follows, Follower, Called
  <2> QED  BY <2>1, <2>4 DEF v
<1>9. \A t \in StateT : t.saved = saved[Root] /\ NoZero(t) => ~ Careful
  BY DEF StateApply, MayUse, NoZero, Careful
<1> HIDE DEF Types, Send
<1> QED  BY <1>2, <1>3, <1>4, <1>6, <1>7, <1>8, <1>9, CallTwoInv DEF Method

LEMMA StateDeleteInv == \A s \in StateIds : Inv /\ StateDelete(s) => Inv'
<1> SUFFICES ASSUME NEW s \in StateIds, Inv, StateDelete(s) PROVE Inv'  OBVIOUS
<1> DEFINE n == Msg("value", s)
<1>1. Types  BY DEF Inv
<1>2. n \in Message /\ n.kind = "value" /\ n.value = s /\ s \in Nat
  BY MsgFacts, BoundAssumption
<1>3. /\ log' \in [Rank -> Seq(Call)] /\ log'[Root] = Append(log[Root], <<"delete", s>>)
      /\ Len(log'[Root]) <= MaxCalls /\ Prefix(log[Root], log'[Root])
      /\ NoApply' => NoApply /\ "delete" # "apply"
  BY <1>1, <1>2, LogFacts DEF StateDelete, Idle, Method
<1>4. at[Root] = "loop" /\ up' = up /\ Send(<<Msg("method", "delete"), n>>)
  BY DEF StateDelete, Idle
<1> HIDE DEF n
<1>5. chan' \in [Worker -> Seq(Message)]
  <2>1. <<Msg("method", "delete"), n>> \in Seq(Message)  BY <1>2, MsgFacts DEF Method
  <2> QED  BY <1>1, <1>4, <2>1, SendTypes
<1>6. Types'  BY <1>1, <1>3, <1>5, Ranks DEF Types, StateDelete
<1>7. WorkersKeep  BY <1>1, Ranks DEF Types, StateDelete, Logged, WorkersKeep, State
<1>8. ASSUME NEW u \in StateT, Called(u, "delete")
      PROVE  Fits(u, n) /\ Proper(u, n) /\ Follows(After(u, n))'
  <2>1. u.at = "delete" /\ Fits(u, n) /\ Proper(u, n)
    BY <1>2, <1>8, ExpectedFacts DEF Called, Fits, Proper
  <2> DEFINE v == After(u, n)
  <2>2. /\ v.at = "loop" /\ v.log = Append(u.log, <<"delete", n.value>>)
        /\ v.saved = [u.saved EXCEPT ![n.value] = NoState]
        /\ v.fraction = u.fraction /\ v.cut = u.cut /\ v.check = u.check
        /\ v.part = u.part /\ v.result = u.result
    <3>1. v.at = "loop"
      BY <2>1, AfterFields DEF AfterAt, Method
    <3>2. v.log = Append(u.log, <<"delete", n.value>>)
      BY <2>1, AfterFields DEF AfterLog, Arrays, Method
    <3>3. v.saved = [u.saved EXCEPT ![n.value] = NoState]
      BY <2>1, AfterFields DEF AfterSaved
    <3>4. /\ v.fraction = u.fraction /\ v.cut = u.cut /\ v.check = u.check
          /\ v.part = u.part /\ v.result = u.result
      BY <2>1, AfterFields DEF AfterFraction, AfterCut, AfterCheck, AfterPart, AfterResult
    <3> QED  BY <3>1, <3>2, <3>3, <3>4
  <2> HIDE DEF v
  <2>3. /\ at'[Root] = "loop" /\ fraction'[Root] = fraction[Root] /\ cut'[Root] = cut[Root]
        /\ saved'[Root] = [saved[Root] EXCEPT ![s] = NoState]
        /\ needCheck'[Root] = needCheck[Root]
        /\ array' = array /\ result'[Root] = result[Root]
    BY <1>1, Ranks DEF Types, StateDelete, Idle
  <2>4. Follows(v)'  BY <1>2, <1>3, <1>8, <2>2, <2>3 DEF Follows, Follower, Called
  <2> QED  BY <2>1, <2>4 DEF v
<1>9. \A t \in StateT : t.saved = saved[Root] /\ NoZero(t) => ~ Careful
  BY DEF StateDelete, MayUse, NoZero, Careful
<1> HIDE DEF Types, Send
<1> QED  BY <1>2, <1>3, <1>4, <1>6, <1>7, <1>8, <1>9, CallTwoInv DEF Method

\* The workers have the number of the method, and wait for an array that never comes.
LEMMA SetPrintChemistryMaskRefusedInv == Inv /\ SetPrintChemistryMaskRefused => Inv'
<1> SUFFICES ASSUME Inv, SetPrintChemistryMaskRefused PROVE Inv'  OBVIOUS
<1> DEFINE m == Msg("method", "mask")
<1>1. Types  BY DEF Inv
<1>2. m \in Message /\ m.kind = "method" /\ m.value = "mask"  BY MsgFacts DEF Method
<1>3. /\ at' = at /\ fraction' = fraction /\ cut' = cut /\ saved' = saved /\ part' = part
      /\ needCheck' = needCheck /\ array' = array /\ log' = log /\ result' = result
      /\ up' = up /\ at[Root] = "loop" /\ Send(<<m>>) /\ ~ Careful
  BY DEF SetPrintChemistryMaskRefused, Idle, settings, Careful
<1> HIDE DEF m
<1>4. Types'
  <2>1. chan' \in [Worker -> Seq(Message)]
    <3>1. <<m>> \in Seq(Message)  BY <1>2
    <3> QED  BY <1>1, <1>2, <1>3, <3>1, SendTypes
  <2> QED  BY <1>1, <1>3, <2>1 DEF Types
<1>5. WorkersKeep  BY <1>3 DEF WorkersKeep, State
<1>6. log[Root] \in Seq(Call) /\ Prefix(log[Root], log[Root])
  BY <1>1, Ranks, LenProperties, PrefixFacts DEF Types
<1>7. ASSUME NEW t \in StateT, Follows(t) PROVE Astray(After(t, m))'
  <2>1. t.at = "loop" /\ t.log = log[Root] /\ Fits(t, m)
    BY <1>2, <1>3, <1>7, ExpectedFacts DEF Follows, Follower, Fits
  <2>2. After(t, m).at = "mask" /\ After(t, m).log = t.log
    BY <1>2, <2>1 DEF After, AfterAt, AfterLog, Arrays, Method
  <2> QED  BY <1>3, <1>6, <2>1, <2>2 DEF Astray, Careful
<1>8. \A s : \A ch \in Seq(Message) : Sound(s, ch) => StillSound(s, ch \o <<m>>)
  BY <1>1, <1>2, <1>3, <1>4, <1>6, <1>7, CallOne
<1>9. <<m>> \in Seq(Message) /\ <<m>> # <<>> /\ Head(<<m>>) = m  BY <1>2
<1> HIDE DEF Types, Send
<1> QED  BY <1>2, <1>3, <1>4, <1>5, <1>8, <1>9, CallInv

LEMMA MpiWorkerBreakInv == Inv /\ MpiWorkerBreak => Inv'
<1> SUFFICES ASSUME Inv, MpiWorkerBreak PROVE Inv'  OBVIOUS
<1> DEFINE m == Msg("method", "break")
<1>1. Types  BY DEF Inv
<1>2. m \in Message /\ m.kind = "method" /\ m.value = "break"  BY MsgFacts
<1>3. /\ fraction' = fraction /\ cut' = cut /\ saved' = saved /\ part' = part
      /\ needCheck' = needCheck /\ array' = array /\ log' = log /\ result' = result
      /\ up' = up /\ at[Root] = "loop" /\ Send(<<m>>)
      /\ at' = [at EXCEPT ![Root] = "ended"] /\ at'[Root] = "ended"
  BY <1>1, Ranks DEF MpiWorkerBreak, settings, Types
<1> HIDE DEF m
<1>4. Types'
  <2>1. chan' \in [Worker -> Seq(Message)]
    <3>1. <<m>> \in Seq(Message)  BY <1>2
    <3> QED  BY <1>1, <1>2, <1>3, <3>1, SendTypes
  <2> QED  BY <1>1, <1>3, <2>1 DEF Types, Follower
<1>5. WorkersKeep  BY <1>1, <1>3, Ranks DEF WorkersKeep, State, Types
<1>6. log[Root] \in Seq(Call) /\ Prefix(log[Root], log[Root])
  BY <1>1, Ranks, LenProperties, PrefixFacts DEF Types
<1>7. ASSUME NEW t \in StateT, Follows(t) PROVE Follows(After(t, m))'
  <2>1. t.at = "loop" /\ Fits(t, m)
    BY <1>2, <1>3, <1>7, ExpectedFacts DEF Follows, Follower, Fits
  <2> DEFINE v == After(t, m)
  <2>2. /\ v.at = "ended" /\ v.fraction = t.fraction /\ v.cut = t.cut /\ v.saved = t.saved
        /\ v.check = t.check /\ v.part = t.part /\ v.log = t.log /\ v.result = t.result
    <3>1. v.at = "ended"
      BY <1>2, <2>1, AfterFields DEF AfterAt, Method
    <3>2. /\ v.fraction = t.fraction /\ v.cut = t.cut /\ v.saved = t.saved
          /\ v.check = t.check /\ v.part = t.part /\ v.log = t.log
          /\ v.result = t.result
      BY <1>2, <2>1, AfterFields
      DEF AfterFraction, AfterCut, AfterSaved, AfterCheck, AfterPart, AfterLog,
          AfterResult, Arrays, Method
    <3> QED  BY <3>1, <3>2
  <2> HIDE DEF v
  <2>3. Follows(v)'  BY <1>3, <1>7, <2>2 DEF Follows, Follower, NoApply
  <2> QED  BY <2>3 DEF v
<1>8. \A s : \A ch \in Seq(Message) : Sound(s, ch) => StillSound(s, ch \o <<m>>)
  BY <1>1, <1>2, <1>3, <1>4, <1>6, <1>7, CallOne
<1>9. <<m>> \in Seq(Message) /\ <<m>> # <<>> /\ Head(<<m>>) = m  BY <1>2
<1> HIDE DEF Types, Send
<1> QED  BY <1>2, <1>3, <1>4, <1>5, <1>8, <1>9, CallInv

LEMMA RunCellsInv == Inv /\ RunCells => Inv'
<1> SUFFICES ASSUME Inv, RunCells PROVE Inv'  OBVIOUS
<1> DEFINE m == Msg("method", "run")
           p == IF needCheck[Root] THEN "checked" ELSE "ran"
<1>1. Types  BY DEF Inv
<1>2. m \in Message /\ m.kind = "method" /\ m.value = "run"  BY MsgFacts
<1>3. /\ log' \in [Rank -> Seq(Call)] /\ log'[Root] = Append(log[Root], <<"run", 0>>)
      /\ Len(log'[Root]) <= MaxCalls /\ Prefix(log[Root], log'[Root]) /\ (NoApply' => NoApply)
  BY <1>1, LogFacts DEF RunCells, Idle
<1>4. /\ fraction' = fraction /\ cut' = cut /\ saved' = saved /\ part' = part
      /\ array' = array /\ result' = result /\ up' = up /\ at[Root] = "loop" /\ Send(<<m>>)
      /\ at' = [at EXCEPT ![Root] = p] /\ at'[Root] = p
      /\ needCheck' = [needCheck EXCEPT ![Root] = FALSE] /\ needCheck'[Root] = FALSE
      /\ log' = [log EXCEPT ![Root] = Append(@, <<"run", 0>>)]
  BY <1>1, Ranks DEF RunCells, Idle, Types, At, Logged
<1> HIDE DEF m
<1>5. Types'
  <2>1. chan' \in [Worker -> Seq(Message)]
    <3>1. <<m>> \in Seq(Message)  BY <1>2
    <3> QED  BY <1>1, <1>2, <1>4, <3>1, SendTypes
  <2> QED  BY <1>1, <1>3, <1>4, <2>1, ExpectedFacts DEF Types, Follower
<1>6. WorkersKeep  BY <1>1, <1>4, Ranks DEF WorkersKeep, State, Types
<1>7. ASSUME NEW t \in StateT, Follows(t) PROVE Follows(After(t, m))'
  <2>1. t.at = "loop" /\ Fits(t, m) /\ t.check = needCheck[Root]
    BY <1>2, <1>4, <1>7, ExpectedFacts DEF Follows, Follower, Fits
  <2> DEFINE v == After(t, m)
  <2>2. /\ v.at = p /\ v.fraction = t.fraction /\ v.cut = t.cut /\ v.saved = t.saved
        /\ v.check = FALSE /\ v.part = t.part /\ v.log = Append(t.log, <<"run", 0>>)
    <3>1. v.at = p
      BY <1>2, <2>1, AfterFields DEF AfterAt, Method
    <3>2. v.check = FALSE
      BY <1>2, <2>1, AfterFields DEF AfterCheck
    <3>3. v.log = Append(t.log, <<"run", 0>>)
      BY <1>2, <2>1, AfterFields DEF AfterLog, Arrays, Method
    <3>4. /\ v.fraction = t.fraction /\ v.cut = t.cut /\ v.saved = t.saved
          /\ v.part = t.part
      BY <1>2, <2>1, AfterFields DEF AfterFraction, AfterCut, AfterSaved, AfterPart
    <3> QED  BY <3>1, <3>2, <3>3, <3>4
  <2> HIDE DEF v
  <2>3. p \in {"checked", "ran"}  OBVIOUS
  <2> HIDE DEF p
  <2>4. v.at = Follower[at'[Root]]  BY <1>4, <2>2, <2>3 DEF Follower
  <2>5. at'[Root] \notin {"loop", "ended", "gathering", "joining", "failing"}
    BY <1>4, <2>3
  <2>6. Follows(v)'  BY <1>3, <1>4, <1>7, <2>2, <2>4, <2>5 DEF Follows
  <2> QED  BY <2>6 DEF v
<1>8. \A s : \A ch \in Seq(Message) : Sound(s, ch) => StillSound(s, ch \o <<m>>)
  BY <1>1, <1>2, <1>3, <1>4, <1>5, <1>7, CallOne
<1>9. <<m>> \in Seq(Message) /\ <<m>> # <<>> /\ Head(<<m>>) = m  BY <1>2
<1> HIDE DEF Types, Send
<1> QED  BY <1>2, <1>4, <1>5, <1>6, <1>8, <1>9, CallInv

\* A step of the client keeps the invariant.
LEMMA ClientStep == Inv /\ Client => Inv'
  BY SetRebalanceFractionInv, SetSaturationInv, SetPrintChemistryMaskInv, StateSaveInv,
     SetPrintChemistryMaskRefusedInv, StateApplyInv, StateDeleteInv, RunCellsInv,
     MpiWorkerBreakInv DEF Client

----------------------------------------------------------------------------
(* RunCells at the root, after the workers have answered.                  *)

\* When all have sent something, each is where the root expects it to be.
LEMMA AllAnswered ==
  ASSUME Inv, at[Root] \notin {"loop", "ended"}, NEW k, AllSent(k)
  PROVE  /\ \A w \in Worker : chan[w] = <<>> /\ Follows(State(w)) /\ State(w) \in StateT
         /\ TakeAll => up' = [w \in Worker |-> <<>>]
<1>1. ASSUME NEW w \in Worker
      PROVE  chan[w] = <<>> /\ Follows(State(w)) /\ State(w) \in StateT /\ Tail(up[w]) = <<>>
  <2>1. WorkerInv(w) /\ State(w) \in StateT /\ up[w] # <<>>  BY WorkerFacts DEF AllSent
  <2>2. chan[w] = <<>> /\ up[w] \in Answers(w)  BY <2>1 DEF WorkerInv
  <2>3. Follows(State(w)) \/ Astray(State(w))
    BY <2>1, <2>2, DrainNone DEF WorkerInv, Sound
  <2>4. at[w] # "lost"  BY <2>1, <2>2 DEF Answers
  <2>5. ~ Astray(State(w))  BY <2>4 DEF Astray, State
  <2>6. Tail(up[w]) = <<>>
    <3>1. PICK x : up[w] = <<x>>  BY <2>1, <2>2 DEF Answers
    <3> QED  BY <3>1
  <2> QED  BY <2>1, <2>2, <2>3, <2>5, <2>6
<1>2. TakeAll => up' = [w \in Worker |-> <<>>]  BY <1>1 DEF TakeAll
<1> QED  BY <1>1, <1>2

\* It goes on, and tells them how.
LEMMA CollectInv ==
  ASSUME Inv, Types', at[Root] \notin {"loop", "ended"}, NEW k, AllSent(k), TakeAll,
         WorkersKeep, NEW ms \in Seq(Message), ms # <<>>, Send(ms),
         \A s \in StateT : Follows(s) =>
           /\ StillSound(s, ms)
           /\ s.at = "balancing" /\ Head(ms).kind = "cut" /\ TransfersFail
                /\ Head(ms).value \notin {NoCut, s.cut} =>
                StillSound(AfterFailure(s), Tail(ms))
  PROVE  Inv'
<1> SUFFICES ASSUME NEW w \in Worker PROVE WorkerInv(w)'  BY DEF Inv
<1>1. chan[w] = <<>> /\ Follows(State(w)) /\ State(w) \in StateT /\ up'[w] = <<>>
  BY AllAnswered
<1>2. chan'[w] = ms
  <2>1. chan'[w] = <<>> \o ms  BY <1>1 DEF Send
  <2> QED  BY <2>1, ConcatEmptySeq
<1>3. State(w)' = State(w) /\ at'[w] = State(w).at /\ cut'[w] = State(w).cut
  <2>1. State(w)' = State(w)  BY DEF WorkersKeep
  <2>2. State(w)'.at = at'[w] /\ State(w)'.cut = cut'[w]  BY DEF State
  <2> QED  BY <2>1, <2>2
<1>4. StillSound(State(w), ms)  BY <1>1
<1>5. Sound(State(w), chan[w])'  BY <1>2, <1>3, <1>4 DEF Sound, StillSound
<1>6. AfterFailure(State(w))' = AfterFailure(State(w))  BY <1>3 DEF AfterFailure
<1>7. Branches(w)' => StillSound(AfterFailure(State(w)), Tail(ms))
  BY <1>1, <1>2, <1>3 DEF Branches
<1>8. Branches(w)' => Sound(AfterFailure(State(w)), Tail(chan[w]))'
  BY <1>2, <1>6, <1>7 DEF Sound, StillSound
<1> QED  BY <1>1, <1>2, <1>5, <1>8 DEF WorkerInv

LEMMA StillOne ==
  ASSUME NEW s \in StateT, NEW m \in Message, Fits(s, m) => Proper(s, m),
         Follows(After(s, m))' \/ Astray(After(s, m))'
  PROVE  StillSound(s, <<m>>)
<1>1. Drains(s, <<>>, s) /\ <<>> \in Seq(Message)  BY DrainNone
<1>2. Drains(s, <<>> \o <<m>>, After(s, m)) /\ After(s, m) \in StateT  BY <1>1, DrainOne
<1>3. <<>> \o <<m>> = <<m>>  OBVIOUS
<1> HIDE DEF Drains, Follows, Astray
<1> QED  BY <1>2, <1>3 DEF StillSound

LEMMA HandleErrorsInv == Inv /\ HandleErrors => Inv'
<1> SUFFICES ASSUME Inv, HandleErrors PROVE Inv'  OBVIOUS
<1>1. Types /\ at[Root] \in {"checked", "ran"} /\ AllSent("error") /\ TakeAll
  BY DEF Inv, HandleErrors
<1>2. up' = [w \in Worker |-> <<>>]  BY <1>1, AllAnswered
<1> DEFINE q(e) == IF e THEN "failing" ELSE IF at[Root] = "checked" THEN "ran"
                   ELSE IF fraction[Root] = 0 THEN "joining" ELSE "gathering"
<1>3. PICK e \in BOOLEAN : Send(<<Msg("count", e)>>) /\ At(Root, q(e))
  <2>1. PICK mine \in BOOLEAN :
          LET errors == mine \/ \E w \in Worker : Head(up[w]).value
          IN  Send(<<Msg("count", errors)>>) /\ At(Root, q(errors))
    BY DEF HandleErrors
  <2> DEFINE f == mine \/ \E w \in Worker : Head(up[w]).value
  <2>2. f \in BOOLEAN  OBVIOUS
  <2> QED  BY <2>1, <2>2
<1> DEFINE m == Msg("count", e)
<1>5. m \in Message /\ m.kind = "count" /\ m.value = e  BY MsgFacts
<1>6. /\ fraction' = fraction /\ cut' = cut /\ saved' = saved /\ part' = part
      /\ needCheck' = needCheck /\ array' = array /\ log' = log /\ result' = result
      /\ at' = [at EXCEPT ![Root] = q(e)] /\ at'[Root] = q(e) /\ Send(<<m>>)
  BY <1>1, <1>3, Ranks DEF HandleErrors, settings, Types, At
<1> HIDE DEF m
<1>7. Types'
  <2>1. <<m>> \in Seq(Message)  BY <1>5
  <2>2. chan' \in [Worker -> Seq(Message)]  BY <1>1, <1>6, <2>1, SendTypes
  <2>3. up' \in [Worker -> Seq(Answer)]  BY <1>2
  <2>4. q(e) \in {"failing", "ran", "joining", "gathering"}  OBVIOUS
  <2> HIDE DEF q
  <2>5. at' \in [Rank -> DOMAIN Expected \cup {"ended", "lost"}]
        /\ at'[Root] \in DOMAIN Follower
    <3>1. q(e) \in DOMAIN Expected /\ q(e) \in DOMAIN Follower
      BY <2>4, ExpectedFacts DEF Follower
    <3>2. at \in [Rank -> DOMAIN Expected \cup {"ended", "lost"}]  BY <1>1 DEF Types
    <3> QED  BY <1>6, <3>1, <3>2
  <2> QED  BY <1>1, <1>6, <2>2, <2>3, <2>5 DEF Types
<1>8. WorkersKeep  BY <1>1, <1>6, Ranks DEF WorkersKeep, State, Types
<1>9. ASSUME NEW s \in StateT, Follows(s) PROVE StillSound(s, <<m>>) /\ s.at # "balancing"
  <2>1. s.at = at[Root] /\ s.fraction = fraction[Root]
    BY <1>1, <1>9 DEF Follows, Follower
  <2>2. Fits(s, m) /\ Proper(s, m)
    BY <1>1, <1>5, <2>1, ExpectedFacts DEF Fits, Proper
  <2> DEFINE v == After(s, m)
  <2>3. /\ v.at = (IF m.value = TRUE THEN "leaving" ELSE IF s.at = "checked" THEN "ran"
                   ELSE IF s.fraction = 0 THEN "leaving" ELSE "balancing")
        /\ v.fraction = s.fraction /\ v.cut = s.cut /\ v.saved = s.saved
        /\ v.check = s.check /\ v.part = s.part /\ v.log = s.log
        /\ v.result = (IF m.value = TRUE THEN "fail" ELSE "ok")
    <3>1. v.at = (IF m.value = TRUE THEN "leaving" ELSE IF s.at = "checked" THEN "ran"
                  ELSE IF s.fraction = 0 THEN "leaving" ELSE "balancing")
      BY <1>1, <2>1, <2>2, AfterFields DEF AfterAt, Method
    <3>2. v.result = (IF m.value = TRUE THEN "fail" ELSE "ok")
      BY <1>1, <2>1, <2>2, AfterFields DEF AfterResult
    <3>3. /\ v.fraction = s.fraction /\ v.cut = s.cut /\ v.saved = s.saved
          /\ v.check = s.check /\ v.part = s.part /\ v.log = s.log
      BY <1>1, <2>1, <2>2, AfterFields
      DEF AfterFraction, AfterCut, AfterSaved, AfterCheck, AfterPart, AfterLog, Arrays,
          Method
    <3> QED  BY <3>1, <3>2, <3>3
  <2> HIDE DEF v
  <2>4. v.at = Follower[at'[Root]]  BY <1>1, <1>5, <1>6, <2>1, <2>3 DEF Follower
  <2>5. /\ at'[Root] \notin {"loop", "ended"} /\ (at'[Root] = "failing" => v.result = "fail")
        /\ at'[Root] \in {"gathering", "joining"} => v.result = "ok"
    BY <1>1, <1>5, <1>6, <2>3
  <2>6. Follows(v)'  BY <1>6, <1>9, <2>3, <2>4, <2>5 DEF Follows, NoApply
  <2> QED  BY <1>1, <1>5, <2>1, <2>2, <2>6, StillOne DEF v
<1>10. <<m>> \in Seq(Message) /\ <<m>> # <<>> /\ Head(<<m>>) = m  BY <1>5
<1> HIDE DEF Types, Send
<1> QED  BY <1>1, <1>6, <1>7, <1>8, <1>9, <1>10, CollectInv

LEMMA RebalanceFailsInv == Inv /\ RebalanceFails => Inv'
<1> SUFFICES ASSUME Inv, RebalanceFails PROVE Inv'  OBVIOUS
<1>1. Types /\ at[Root] = "gathering" /\ AllSent("time") /\ TakeAll
  BY DEF Inv, RebalanceFails
<1>2. up' = [w \in Worker |-> <<>>]  BY <1>1, AllAnswered
<1> DEFINE m == Msg("cut", NoCut)
<1>3. m \in Message /\ m.kind = "cut" /\ m.value = NoCut  BY MsgFacts
<1>4. /\ fraction' = fraction /\ cut' = cut /\ saved' = saved /\ part' = part
      /\ needCheck' = needCheck /\ array' = array /\ log' = log
      /\ at' = [at EXCEPT ![Root] = "loop"] /\ at'[Root] = "loop" /\ Send(<<m>>)
      /\ result' = [result EXCEPT ![Root] = "fail"] /\ result'[Root] = "fail"
  BY <1>1, Ranks DEF RebalanceFails, settings, Types, At, Returns, Failed
<1> HIDE DEF m
<1>5. Types'
  <2>1. <<m>> \in Seq(Message)  BY <1>3
  <2>2. chan' \in [Worker -> Seq(Message)]  BY <1>1, <1>4, <2>1, SendTypes
  <2>3. up' \in [Worker -> Seq(Answer)]  BY <1>2
  <2> QED  BY <1>1, <1>4, <2>2, <2>3, ExpectedFacts DEF Types, Follower
<1>6. WorkersKeep  BY <1>1, <1>4, Ranks DEF WorkersKeep, State, Types
<1>7. ASSUME NEW s \in StateT, Follows(s) PROVE StillSound(s, <<m>>)
  <2>1. s.at = "balancing"  BY <1>1, <1>7 DEF Follows, Follower
  <2>2. Fits(s, m) /\ Proper(s, m)  BY <1>3, <2>1, ExpectedFacts DEF Fits, Proper
  <2> DEFINE v == After(s, m)
  <2>3. /\ v.at = "loop" /\ v.result = "fail" /\ v.fraction = s.fraction /\ v.cut = s.cut
        /\ v.saved = s.saved /\ v.check = s.check /\ v.part = s.part /\ v.log = s.log
    <3>1. v.at = "loop"
      BY <1>3, <2>1, <2>2, AfterFields DEF AfterAt, Method
    <3>2. v.result = "fail"
      BY <1>3, <2>1, <2>2, AfterFields DEF AfterResult
    <3>3. /\ v.fraction = s.fraction /\ v.cut = s.cut /\ v.saved = s.saved
          /\ v.check = s.check /\ v.part = s.part /\ v.log = s.log
      BY <1>3, <2>1, <2>2, AfterFields
      DEF AfterFraction, AfterCut, AfterSaved, AfterCheck, AfterPart, AfterLog, Arrays,
          Method
    <3> QED  BY <3>1, <3>2, <3>3
  <2> HIDE DEF v
  <2>4. Follows(v)'  BY <1>4, <1>7, <2>3 DEF Follows, Follower, NoApply
  <2> QED  BY <1>3, <2>2, <2>4, StillOne DEF v
<1>8. <<m>> \in Seq(Message) /\ <<m>> # <<>> /\ Head(<<m>>) = m  BY <1>3
<1> HIDE DEF Types, Send
<1> QED  BY <1>1, <1>3, <1>4, <1>5, <1>6, <1>7, <1>8, CollectInv

LEMMA JoinInv == Inv /\ Join => Inv'
<1> SUFFICES ASSUME Inv, Join PROVE Inv'  OBVIOUS
<1>1. Types /\ at[Root] \in {"joining", "failing"} /\ AllSent("here") /\ TakeAll
  BY DEF Inv, Join
<1>2. up' = [w \in Worker |-> <<>>]  BY <1>1, AllAnswered
<1> DEFINE m == Msg("leave", 0)
           r == IF at[Root] = "failing" THEN "fail" ELSE "ok"
<1>3. m \in Message /\ m.kind = "leave"  BY MsgFacts
<1>4. /\ fraction' = fraction /\ cut' = cut /\ saved' = saved /\ part' = part
      /\ needCheck' = needCheck /\ array' = array /\ log' = log
      /\ at' = [at EXCEPT ![Root] = "loop"] /\ at'[Root] = "loop" /\ Send(<<m>>)
      /\ result' = [result EXCEPT ![Root] = r] /\ result'[Root] = r
  BY <1>1, Ranks DEF Join, settings, Types, At, Returns, Failed
<1> HIDE DEF m
<1>5. Types'
  <2>1. <<m>> \in Seq(Message)  BY <1>3
  <2>2. chan' \in [Worker -> Seq(Message)]  BY <1>1, <1>4, <2>1, SendTypes
  <2>3. up' \in [Worker -> Seq(Answer)]  BY <1>2
  <2> QED  BY <1>1, <1>4, <2>2, <2>3, ExpectedFacts DEF Types, Follower
<1>6. WorkersKeep  BY <1>1, <1>4, Ranks DEF WorkersKeep, State, Types
<1>7. ASSUME NEW s \in StateT, Follows(s) PROVE StillSound(s, <<m>>) /\ s.at # "balancing"
  <2>1. s.at = "leaving" /\ s.result = r  BY <1>1, <1>7 DEF Follows, Follower
  <2>2. Fits(s, m) /\ Proper(s, m)  BY <1>3, <2>1, ExpectedFacts DEF Fits, Proper
  <2> DEFINE v == After(s, m)
  <2>3. /\ v.at = "loop" /\ v.result = s.result /\ v.fraction = s.fraction
        /\ v.cut = s.cut /\ v.saved = s.saved /\ v.check = s.check /\ v.part = s.part
        /\ v.log = s.log
    <3>1. v.at = "loop"
      BY <2>1, <2>2, AfterFields DEF AfterAt, Method
    <3>2. /\ v.result = s.result /\ v.fraction = s.fraction /\ v.cut = s.cut
          /\ v.saved = s.saved /\ v.check = s.check /\ v.part = s.part
          /\ v.log = s.log
      BY <2>1, <2>2, AfterFields
      DEF AfterResult, AfterFraction, AfterCut, AfterSaved, AfterCheck, AfterPart,
          AfterLog, Arrays, Method
    <3> QED  BY <3>1, <3>2
  <2> HIDE DEF v, r
  <2>4. Follows(v)'  BY <1>4, <1>7, <2>1, <2>3 DEF Follows, Follower, NoApply
  <2> QED  BY <2>1, <2>2, <1>3, <2>4, StillOne DEF v
<1>8. <<m>> \in Seq(Message) /\ <<m>> # <<>> /\ Head(<<m>>) = m  BY <1>3
<1> HIDE DEF Types, Send
<1> QED  BY <1>1, <1>3, <1>4, <1>5, <1>6, <1>7, <1>8, CollectInv

\* The cut was found but a transfer fails at the root: it leaves, and the workers that
\* have the cut wait for arrays; one where a transfer fails as well leaves with the root.
LEMMA TransferFailsAtRootInv == \A c \in Cuts : Inv /\ TransferFailsAtRoot(c) => Inv'
<1> SUFFICES ASSUME NEW c \in Cuts, Inv, TransferFailsAtRoot(c) PROVE Inv'  OBVIOUS
<1>1. Types /\ at[Root] = "gathering" /\ AllSent("time") /\ TakeAll /\ c # cut[Root]
      /\ ~ Careful
  BY DEF Inv, TransferFailsAtRoot, Careful
<1>2. up' = [w \in Worker |-> <<>>]  BY <1>1, AllAnswered
<1> DEFINE m == Msg("cut", c)
<1>3. m \in Message /\ m.kind = "cut" /\ m.value = c /\ c # NoCut
  BY MsgFacts, CutsAssumption
<1>4. /\ fraction' = fraction /\ cut' = cut /\ saved' = saved /\ part' = part
      /\ needCheck' = needCheck /\ array' = array /\ log' = log
      /\ at' = [at EXCEPT ![Root] = "loop"] /\ at'[Root] = "loop" /\ Send(<<m>>)
      /\ result' = [result EXCEPT ![Root] = "fail"] /\ result'[Root] = "fail"
  BY <1>1, Ranks DEF TransferFailsAtRoot, settings, Types, At, Returns, Failed
<1> HIDE DEF m
<1>5. Types'
  <2>1. <<m>> \in Seq(Message)  BY <1>3
  <2>2. chan' \in [Worker -> Seq(Message)]  BY <1>1, <1>4, <2>1, SendTypes
  <2>3. up' \in [Worker -> Seq(Answer)]  BY <1>2
  <2> QED  BY <1>1, <1>4, <2>2, <2>3, ExpectedFacts DEF Types, Follower
<1>6. WorkersKeep  BY <1>1, <1>4, Ranks DEF WorkersKeep, State, Types
<1>7. ASSUME NEW s \in StateT, Follows(s)
      PROVE  StillSound(s, <<m>>) /\ StillSound(AfterFailure(s), <<>>)
  <2>1. s.at = "balancing" /\ s.cut = cut[Root] /\ s.log = log[Root]
    BY <1>1, <1>7 DEF Follows, Follower
  <2>2. Fits(s, m) /\ Proper(s, m)  BY <1>3, <2>1, ExpectedFacts DEF Fits, Proper
  <2>3. After(s, m).at = "newmask" /\ After(s, m).log = s.log
    BY <1>1, <1>3, <2>1, <2>2 DEF After, AfterAt, AfterLog, Arrays, Method
  <2>4. Astray(After(s, m))'
    <3>1. log[Root] \in Seq(Call)  BY <1>1, Ranks DEF Types
    <3>2. Prefix(s.log, log[Root])  BY <2>1, <3>1, LenProperties, PrefixFacts
    <3> QED  BY <1>1, <1>4, <2>3, <3>2 DEF Astray, Careful
  <2>5. StillSound(s, <<m>>)  BY <1>3, <2>2, <2>4, StillOne
  <2> DEFINE f == AfterFailure(s)
  <2>6. /\ f.at = "loop" /\ f.fraction = s.fraction /\ f.cut = s.cut /\ f.saved = s.saved
        /\ f.check = s.check /\ f.part = s.part /\ f.log = s.log /\ f.result = "fail"
        /\ f \in StateT
    BY DEF AfterFailure, StateT, WorkerAt
  <2> HIDE DEF f
  <2>7. Follows(f)'  BY <1>4, <1>7, <2>6 DEF Follows, Follower, NoApply
  <2>8. Drains(f, <<>>, f)  BY <2>6, DrainNone
  <2> HIDE DEF Drains, Follows, Astray
  <2>9. StillSound(f, <<>>)  BY <2>6, <2>7, <2>8 DEF StillSound
  <2> QED  BY <2>5, <2>9 DEF f
<1>8. <<m>> \in Seq(Message) /\ <<m>> # <<>> /\ Head(<<m>>) = m /\ Tail(<<m>>) = <<>>
  BY <1>3
<1> HIDE DEF Types, Send
<1> QED  BY <1>1, <1>4, <1>5, <1>6, <1>7, <1>8, CollectInv

LEMMA ThreeMessages ==
  ASSUME NEW x \in Message, NEW y \in Message, NEW z \in Message
  PROVE  <<x>> \o <<y, z>> = <<x, y, z>>
<1>1. <<x>> \in Seq(Message) /\ <<y, z>> \in Seq(Message) /\ <<x, y, z>> \in Seq(Message)
      /\ Len(<<x>>) = 1 /\ Len(<<y, z>>) = 2 /\ Len(<<x, y, z>>) = 3
  OBVIOUS
<1> DEFINE s == <<x>> \o <<y, z>>
<1>2. /\ s \in Seq(Message) /\ Len(s) = 3
      /\ \A i \in 1 .. 3 : s[i] = IF i <= 1 THEN <<x>>[i] ELSE <<y, z>>[i-1]
  BY <1>1, ConcatProperties
<1> HIDE DEF s
<1>3. \A i \in 1 .. 3 : s[i] = <<x, y, z>>[i]
  <2>1. s[1] = x /\ s[2] = <<y, z>>[1] /\ s[3] = <<y, z>>[2]  BY <1>2
  <2> QED  BY <2>1
<1>4. s = <<x, y, z>>  BY <1>1, <1>2, <1>3, SeqEqual
<1> QED  BY <1>4 DEF s

\* The root has moved to the cut c: every worker takes it and, if it is a new one, both
\* arrays, unless a transfer fails there, which loses this worker.
LEMMA RebalanceInv == \A c \in Cuts : Inv /\ Rebalance(c) => Inv'
<1> SUFFICES ASSUME NEW c \in Cuts, Inv, Rebalance(c) PROVE Inv'  OBVIOUS
<1>1. Types /\ at[Root] = "gathering" /\ AllSent("time") /\ TakeAll  BY DEF Inv, Rebalance
<1>2. up' = [w \in Worker |-> <<>>]  BY <1>1, AllAnswered
<1>3. /\ fraction' = fraction /\ saved' = saved /\ part' = part /\ needCheck' = needCheck
      /\ array' = array /\ log' = log /\ result' = result
      /\ at' = [at EXCEPT ![Root] = "joining"] /\ at'[Root] = "joining"
      /\ cut' = [cut EXCEPT ![Root] = c] /\ cut'[Root] = c
  BY <1>1, Ranks DEF Rebalance, Types, At
<1>4. WorkersKeep  BY <1>1, <1>3, Ranks DEF WorkersKeep, State, Types
<1>5. ASSUME chan' \in [Worker -> Seq(Message)] PROVE Types'
  <2>1. up' \in [Worker -> Seq(Answer)]  BY <1>2
  <2> QED  BY <1>1, <1>3, <1>5, <2>1, ExpectedFacts DEF Types, Follower
<1> DEFINE m == Msg("cut", c)
<1>6. m \in Message /\ m.kind = "cut" /\ m.value = c /\ c # NoCut
  BY MsgFacts, CutsAssumption
<1>7. ASSUME NEW s \in StateT, Follows(s)
      PROVE  s.at = "balancing" /\ s.cut = cut[Root] /\ s.result = "ok" /\ s.log = log[Root]
             /\ Fits(s, m) /\ Proper(s, m)
  BY <1>1, <1>6, <1>7, ExpectedFacts DEF Follows, Follower, Fits, Proper
<1>8. ASSUME NEW s \in StateT, Follows(s)
      PROVE  /\ After(s, m).at = (IF c = s.cut THEN "leaving" ELSE "newmask")
             /\ After(s, m).cut = c /\ After(s, m).fraction = s.fraction
             /\ After(s, m).saved = s.saved /\ After(s, m).check = s.check
             /\ After(s, m).part = s.part /\ After(s, m).log = s.log
             /\ After(s, m).result = s.result /\ After(s, m) \in StateT
  <2>1. s.at = "balancing" /\ Fits(s, m) /\ Proper(s, m)  BY <1>7, <1>8
  <2>2. After(s, m) \in StateT  BY <1>6, <2>1, AfterIsState
  <2> HIDE DEF m
  <2>3. /\ After(s, m).at = (IF m.value = s.cut THEN "leaving" ELSE "newmask")
        /\ After(s, m).cut = m.value
    BY <1>6, <2>1 DEF After, AfterAt, AfterCut
  <2>4. /\ After(s, m).fraction = s.fraction
        /\ After(s, m).saved = s.saved /\ After(s, m).check = s.check
        /\ After(s, m).part = s.part /\ After(s, m).log = s.log
        /\ After(s, m).result = s.result
    BY <1>6, <2>1 DEF After, AfterFraction, AfterSaved, AfterCheck,
       AfterPart, AfterLog, AfterResult, Arrays, Method
  <2> QED  BY <1>6, <2>2, <2>3, <2>4
<1>9. CASE c = cut[Root]
  <2> HIDE DEF m
  <2>1. Send(<<m>>)
    <3>1. <<m>> \o <<>> = <<m>>  OBVIOUS
    <3> QED  BY <1>9, <3>1 DEF Rebalance, m
  <2>2. <<m>> \in Seq(Message) /\ <<m>> # <<>> /\ Head(<<m>>) = m  BY <1>6
  <2>3. Types'  BY <1>1, <1>5, <2>1, <2>2, SendTypes
  <2>4. ASSUME NEW s \in StateT, Follows(s) PROVE StillSound(s, <<m>>) /\ m.value = s.cut
    <3>1. Follows(After(s, m))'
      BY <1>3, <1>7, <1>8, <1>9, <2>4 DEF Follows, Follower, NoApply
    <3> QED  BY <1>6, <1>7, <1>9, <2>4, <3>1, StillOne
  <2> HIDE DEF Types, Send
  <2> QED  BY <1>1, <1>4, <2>1, <2>2, <2>3, <2>4, CollectInv
<1>10. CASE c # cut[Root]
  <2>1. array["mask"] \in {0, 1} /\ array["saturation"] \in {0, 1}
    BY <1>1 DEF Types, Arrays
  <2>2. PICK a \in Message : a = Msg("part", [value |-> array["mask"], cut |-> c])
    BY <2>1, MsgFacts DEF Part
  <2>3. PICK b \in Message : b = Msg("part", [value |-> array["saturation"], cut |-> c])
    BY <2>1, MsgFacts DEF Part
  <2>4. /\ a.kind = "part" /\ a.value = [value |-> array["mask"], cut |-> c]
        /\ b.kind = "part" /\ b.value = [value |-> array["saturation"], cut |-> c]
        /\ a.value.cut = c /\ b.value.cut = c
    BY <2>2, <2>3, MsgFacts
  <2>5. NewParts(c) = <<a, b>>  BY <2>2, <2>3 DEF NewParts
  <2> HIDE DEF m
  <2>6. Send(<<m, a, b>>)
    <3>1. <<m>> \o <<a, b>> = <<m, a, b>>  BY <1>6, ThreeMessages
    <3>2. Send(<<m>> \o NewParts(c))  BY <1>10 DEF Rebalance, m
    <3> QED  BY <2>5, <3>1, <3>2
  <2>7. <<m, a, b>> \in Seq(Message) /\ <<m, a, b>> # <<>> /\ Head(<<m, a, b>>) = m
        /\ Tail(<<m, a, b>>) = <<a, b>>
    BY <1>6
  <2>8. Types'  BY <1>1, <1>5, <2>6, <2>7, SendTypes
  <2>9. ASSUME NEW s \in StateT, Follows(s) PROVE StillSound(s, <<m, a, b>>)
    <3> DEFINE u == After(s, m)
               v == After(u, a)
               x == After(v, b)
    <3>1. u.at = "newmask" /\ u.cut = c /\ u \in StateT  BY <1>7, <1>8, <1>10, <2>9
    <3>2. ~ Replies(u) /\ Fits(u, a) /\ Proper(u, a)
      BY <2>4, <3>1, ExpectedFacts DEF Replies, Fits, Proper
    <3>3. v \in StateT  BY <3>1, <3>2, AfterIsState
    <3> HIDE DEF u
    <3>4. /\ v.at = "newsaturation" /\ v.cut = u.cut /\ v.fraction = u.fraction
          /\ v.saved = u.saved /\ v.check = u.check /\ v.log = u.log /\ v.result = u.result
          /\ v.part = [u.part EXCEPT !["mask"] = a.value]
      <4>1. v.at = "newsaturation"
        BY <3>1, <3>2, AfterFields DEF AfterAt, Method
      <4>2. v.part = [u.part EXCEPT !["mask"] = a.value]
        BY <3>1, <3>2, AfterFields DEF AfterPart
      <4>3. /\ v.cut = u.cut /\ v.fraction = u.fraction /\ v.saved = u.saved
            /\ v.check = u.check /\ v.log = u.log /\ v.result = u.result
        BY <3>1, <3>2, AfterFields
        DEF AfterCut, AfterFraction, AfterSaved, AfterCheck, AfterLog, AfterResult,
            Arrays, Method
      <4> QED  BY <4>1, <4>2, <4>3
    <3> HIDE DEF v
    <3>5. ~ Replies(v) /\ Fits(v, b) /\ Proper(v, b)
      BY <2>4, <3>1, <3>4, ExpectedFacts DEF Replies, Fits, Proper
    <3>6. /\ x.at = "leaving" /\ x.cut = v.cut /\ x.fraction = v.fraction
          /\ x.saved = v.saved /\ x.check = v.check /\ x.log = v.log /\ x.result = v.result
          /\ x.part = [v.part EXCEPT !["saturation"] = b.value]
      <4>1. v.at = "newsaturation" /\ Fits(v, b)  BY <3>4, <3>5
      <4>2. x.at = "leaving"  BY <4>1, AfterFields DEF AfterAt, Method
      <4>3. x.part = [v.part EXCEPT !["saturation"] = b.value]
        BY <4>1, AfterFields DEF AfterPart
      <4>4. x.cut = v.cut /\ x.fraction = v.fraction /\ x.saved = v.saved
        BY <4>1, AfterFields DEF AfterCut, AfterFraction, AfterSaved
      <4>5. x.check = v.check /\ x.log = v.log /\ x.result = v.result
        BY <4>1, AfterFields DEF AfterCheck, AfterLog, AfterResult, Arrays, Method
      <4> QED  BY <4>2, <4>3, <4>4, <4>5
    <3> HIDE DEF x
    <3>7. \A y \in Arrays : x.part[y] = [value |-> array'[y], cut |-> cut'[Root]]
      <4>1. u.part \in [Arrays -> Part]  BY <3>1 DEF StateT
      <4> QED  BY <1>3, <2>4, <3>4, <3>6, <4>1 DEF Arrays
    <3>8. /\ x.fraction = s.fraction /\ x.saved = s.saved /\ x.check = s.check
          /\ x.log = s.log /\ x.result = "ok" /\ x.cut = c
      BY <1>7, <1>8, <2>9, <3>1, <3>4, <3>6 DEF u
    <3>9. Follows(x)'
      BY <1>3, <2>9, <3>6, <3>7, <3>8 DEF Follows, Follower
    <3>10. Drains(s, <<>>, s) /\ <<>> \in Seq(Message) /\ <<>> \o <<m, a, b>> = <<m, a, b>>
      BY DrainNone
    <3>11. /\ Drains(s, <<>> \o <<m, a, b>>, After(After(After(s, m), a), b))
           /\ After(After(After(s, m), a), b) \in StateT
      BY <1>6, <1>7, <2>9, <3>2, <3>5, <3>10, DrainThree DEF u, v
    <3> HIDE DEF Drains, Follows, Astray
    <3> QED  BY <3>9, <3>10, <3>11 DEF StillSound, u, v, x
  <2>10. ASSUME NEW s \in StateT, Follows(s), TransfersFail
         PROVE  StillSound(AfterFailure(s), <<a, b>>)
    <3> DEFINE f == AfterFailure(s)
               u == After(f, a)
               v == After(u, b)
    <3>1. f.at = "loop" /\ f.log = s.log /\ f \in StateT
      BY DEF AfterFailure, StateT, WorkerAt
    <3> HIDE DEF f
    <3>2. ~ Fits(f, a) /\ ~ Replies(f)  BY <2>4, <3>1, ExpectedFacts DEF Fits, Replies
    <3>3. u.at = "lost" /\ u.log = f.log /\ u \in StateT /\ ~ Replies(u)
      BY <3>1, <3>2, AfterMisfit
    <3> HIDE DEF u
    <3>4. ~ Fits(u, b)  BY <3>3, LostMisfits
    <3>5. v.at = "lost" /\ v.log = u.log /\ v \in StateT  BY <3>3, <3>4, AfterMisfit
    <3>6. Drains(f, <<>>, f) /\ <<>> \in Seq(Message) /\ <<>> \o <<a, b>> = <<a, b>>
      BY <3>1, DrainNone
    <3>7. Drains(f, <<>> \o <<a, b>>, After(After(f, a), b))
      BY <3>1, <3>2, <3>3, <3>4, <3>6, DrainTwo DEF u
    <3> HIDE DEF v
    <3>8. log[Root] \in Seq(Call) /\ Prefix(log[Root], log[Root])
      BY <1>1, Ranks, LenProperties, PrefixFacts DEF Types
    <3>9. Astray(v)'
      BY <1>3, <1>7, <2>10, <3>1, <3>3, <3>5, <3>8 DEF Astray, Careful
    <3> HIDE DEF Drains, Follows, Astray
    <3> QED  BY <3>5, <3>6, <3>7, <3>9 DEF StillSound, f, u, v
  <2> HIDE DEF Types, Send
  <2> QED  BY <1>1, <1>4, <2>6, <2>7, <2>8, <2>9, <2>10, CollectInv
<1> QED  BY <1>9, <1>10

\* A step of the root inside RunCells keeps the invariant.
LEMMA RootStep == Inv /\ RootGoesOn => Inv'
  BY HandleErrorsInv, RebalanceFailsInv, JoinInv, RebalanceInv, TransferFailsAtRootInv
  DEF RootGoesOn

----------------------------------------------------------------------------
(* The invariant holds, and what follows from it.                          *)

LEMMA InitInv == Init => Inv
<1> SUFFICES ASSUME Init PROVE Inv  OBVIOUS
<1>1. PICK c \in Cuts :
        cut = [r \in Rank |-> c] /\
        part = [w \in Worker |-> [a \in Arrays |-> [value |-> 0, cut |-> c]]]
  BY DEF Init
<1>2. [a \in Arrays |-> [value |-> 0, cut |-> c]] \in [Arrays -> Part]  BY DEF Part
<1>3. Types
  <2>1. at \in [Rank -> DOMAIN Expected \cup {"ended", "lost"}] /\ at[Root] \in DOMAIN Follower
    BY Ranks, ExpectedFacts DEF Init, Follower
  <2>2. chan \in [Worker -> Seq(Message)] /\ up \in [Worker -> Seq(Answer)]
    BY EmptySeq DEF Init
  <2>3. log \in [Rank -> Seq(Call)] /\ Len(log[Root]) <= MaxCalls
    BY EmptySeq, Ranks, BoundAssumption DEF Init
  <2>4. /\ fraction \in [Rank -> {0, 1}] /\ cut \in [Rank -> Cuts]
        /\ saved \in [Rank -> [StateIds -> Cuts \cup {NoState}]]
        /\ needCheck \in [Rank -> BOOLEAN] /\ array \in [Arrays -> {0, 1}]
        /\ part \in [Worker -> [Arrays -> Part]]
        /\ result \in [Rank -> {"none", "ok", "fail"}]
    BY <1>1, <1>2 DEF Init
  <2> QED  BY <2>1, <2>2, <2>3, <2>4 DEF Types
<1>4. ASSUME NEW w \in Worker PROVE WorkerInv(w)
  <2> DEFINE s == State(w)
  <2>1. /\ s.at = "loop" /\ s.fraction = fraction[Root] /\ s.cut = cut[Root]
        /\ s.saved = saved[Root] /\ s.check = needCheck[Root] /\ s.log = log[Root]
        /\ s.result = result[Root] /\ at[Root] = "loop" /\ at[w] = "loop"
        /\ chan[w] = <<>> /\ up[w] = <<>>
    BY <1>1, Ranks DEF State, Init
  <2>2. s \in StateT
    <3>1. at[w] \in WorkerAt  BY <2>1 DEF WorkerAt
    <3> QED  BY <1>3, <3>1, Ranks DEF State, StateT, Types
  <2>3. \A a \in Arrays : s.part[a] = [value |-> array[a], cut |-> cut[Root]]
    BY <1>1, Ranks DEF State, Init
  <2> HIDE DEF s
  <2>4. Follows(s)  BY <2>1, <2>3 DEF Follows, Follower
  <2>5. Drains(s, <<>>, s)  BY <2>2, DrainNone
  <2>6. Sound(s, chan[w])  BY <2>1, <2>2, <2>4, <2>5 DEF Sound
  <2>7. ~ Branches(w)  BY <2>1 DEF Branches
  <2>8. up[w] \in Answers(w)  BY <2>1 DEF Answers
  <2> QED  BY <2>1, <2>6, <2>7, <2>8 DEF WorkerInv, s
<1> QED  BY <1>3, <1>4 DEF Inv

LEMMA StutterInv == Inv /\ UNCHANGED vars => Inv'
<1> SUFFICES ASSUME Inv, UNCHANGED vars PROVE Inv'  OBVIOUS
<1>1. /\ at' = at /\ chan' = chan /\ up' = up /\ fraction' = fraction /\ array' = array
      /\ part' = part /\ cut' = cut /\ saved' = saved /\ needCheck' = needCheck
      /\ log' = log /\ result' = result
  BY DEF vars
<1>2. Types'  BY <1>1 DEF Inv, Types
<1>3. ASSUME NEW t PROVE (Follows(t) => Follows(t)') /\ (Astray(t) => Astray(t)')
  BY <1>1 DEF Follows, Astray, NoApply
<1>4. ASSUME NEW w \in Worker PROVE WorkerInv(w)'
  <2>1. WorkerInv(w)  BY DEF Inv
  <2>2. State(w)' = State(w) /\ AfterFailure(State(w))' = AfterFailure(State(w))
    BY <1>1 DEF State
  <2>3. Sound(State(w), chan[w])'  BY <1>1, <1>3, <2>1, <2>2 DEF WorkerInv, Sound
  <2>4. Branches(w)' => Branches(w)  BY <1>1 DEF Branches
  <2>5. Branches(w)' => Sound(AfterFailure(State(w)), Tail(chan[w]))'
    BY <1>1, <1>3, <2>1, <2>2, <2>4 DEF WorkerInv, Sound
  <2>6. Answers(w)' = Answers(w)  BY <1>1 DEF Answers
  <2> QED  BY <1>1, <2>1, <2>3, <2>5, <2>6 DEF WorkerInv
<1> QED  BY <1>2, <1>4 DEF Inv

LEMMA InvAlways == Spec => []Inv
<1>1. Inv /\ [Next]_vars => Inv'  BY ClientStep, RootStep, WorkerStep, StutterInv DEF Next
<1> QED  BY <1>1, InitInv, PTL DEF Spec

\* The calls a worker has made are the first of the root's.
LEMMA LogOfWorker ==
  ASSUME Inv, NEW w \in Worker
  PROVE  /\ Prefix(log[w], log[Root])
         /\ log[w] \in Seq(Call) /\ log[Root] \in Seq(Call)
<1>1. Types /\ WorkerInv(w) /\ State(w) \in StateT /\ chan[w] \in Seq(Message)
  BY WorkerFacts
<1>2. log[w] \in Seq(Call) /\ log[Root] \in Seq(Call)  BY <1>1, Ranks DEF Types
<1>3. PICK t \in StateT : Drains(State(w), chan[w], t) /\ (Follows(t) \/ Astray(t))
  BY <1>1 DEF WorkerInv, Sound
<1>4. Leads(State(w), t)
  <2>1. CASE chan[w] = <<>>  BY <1>1, <1>3, <2>1, DrainNone, LeadsFacts
  <2>2. CASE chan[w] # <<>>  BY <1>1, <1>3, <2>2, DrainHead
  <2> QED  BY <2>1, <2>2
<1>5. Prefix(log[w], t.log)  BY <1>4 DEF Leads, State
<1>6. t.log = log[Root] \/ Prefix(t.log, log[Root])  BY <1>3 DEF Follows, Astray
<1>7. t.log \in Seq(Call)  BY DEF StateT
<1> QED  BY <1>2, <1>5, <1>6, <1>7, PrefixTrans

\* TypeOK: the settings, the channels and the logs have their types in every state, and
\* the bound on the calls of the root bounds the calls of every process.
THEOREM TypeCorrect == Spec => []TypeOK
<1>1. Inv => TypeOK
  <2> SUFFICES ASSUME Inv PROVE TypeOK  OBVIOUS
  <2>1. Types  BY DEF Inv
  <2>2. ASSUME NEW w \in Worker, NEW i \in DOMAIN chan[w]
        PROVE  chan[w][i].kind \in {"method", "value", "part", "count", "cut", "leave"}
    <3>1. chan[w] \in Seq(Message)  BY <2>1 DEF Types
    <3>2. chan[w][i] \in Message  BY <2>2, <3>1, LenProperties, ElementOfSeq
    <3> QED  BY <3>2, MessageFacts
  <2>3. ASSUME NEW w \in Worker, NEW i \in DOMAIN up[w]
        PROVE  up[w][i].kind \in {"error", "time", "here"}
    <3>1. up[w] \in Seq(Answer)  BY <2>1 DEF Types
    <3>2. up[w][i] \in Answer  BY <2>3, <3>1, LenProperties, ElementOfSeq
    <3> QED  BY <3>2 DEF Answer
  <2>4. ASSUME NEW r \in Rank PROVE Len(log[r]) <= MaxCalls
    <3>1. CASE r = Root  BY <2>1, <3>1 DEF Types
    <3>2. CASE r # Root
      <4>1. r \in Worker  BY <3>2, TasksAssumption DEF Rank, Worker, Root
      <4>2. Prefix(log[r], log[Root]) /\ Len(log[r]) \in Nat /\ Len(log[Root]) \in Nat
        BY <4>1, LogOfWorker, LenProperties
      <4>3. MaxCalls \in Nat  BY BoundAssumption
      <4> QED  BY <2>1, <4>2, <4>3 DEF Prefix, Types
    <3> QED  BY <3>1, <3>2
  <2> QED  BY <2>1, <2>2, <2>3, <2>4 DEF TypeOK, Types
<1> QED  BY <1>1, InvAlways, PTL

\* SameCalls: whatever the client calls and whatever fails, no worker makes a call the
\* root has not made, or one with other arguments, or two in another order.
THEOREM SameCallsAlways == Spec => []SameCalls
<1>1. Inv => SameCalls
  <2> SUFFICES ASSUME Inv, NEW w \in Worker PROVE IsPrefix(log[w], log[Root])
    BY DEF SameCalls
  <2> DEFINE s == log[w]
             t == log[Root]
             n == Len(s)
  <2>1. Prefix(s, t) /\ s \in Seq(Call) /\ t \in Seq(Call)  BY LogOfWorker
  <2> HIDE DEF s, t
  <2>2. n \in Nat /\ Len(t) \in Nat /\ n <= Len(t) /\ \A i \in 1 .. n : s[i] = t[i]
    BY <2>1, LenProperties DEF Prefix
  <2>3. \A i \in 1 .. n : s[i] \in Call /\ t[i] \in Call
    BY <2>1, <2>2, ElementOfSeq
  <2> HIDE DEF n
  <2>4. /\ SubSeq(s, 1, n) \in Seq(Call) /\ Len(SubSeq(s, 1, n)) = n
        /\ \A i \in 1 .. n : SubSeq(s, 1, n)[i] = s[i]
    BY <2>2, <2>3, SubSeqProperties
  <2>5. /\ SubSeq(t, 1, n) \in Seq(Call) /\ Len(SubSeq(t, 1, n)) = n
        /\ \A i \in 1 .. n : SubSeq(t, 1, n)[i] = t[i]
    BY <2>2, <2>3, SubSeqProperties
  <2>6. SubSeq(s, 1, n) = SubSeq(t, 1, n)  BY <2>2, <2>4, <2>5, SeqEqual
  <2>7. IsPrefix(s, t)  BY <2>2, <2>6 DEF IsPrefix, n
  <2> QED  BY <2>7 DEF s, t
<1> QED  BY <1>1, InvAlways, PTL

\* What a worker in the loop with nothing to take has.
LEMMA QuietFacts ==
  ASSUME Inv, Quiet, NEW w \in Worker
  PROVE  Follows(State(w)) /\ up[w] = <<>> /\ at[Root] = "loop"
<1>1. WorkerInv(w) /\ chan[w] = <<>> /\ at[w] = "loop" /\ at[Root] = "loop"
  BY WorkerFacts DEF Quiet
<1>2. Follows(State(w)) \/ Astray(State(w))  BY <1>1, DrainNone DEF WorkerInv, Sound
<1>3. ~ Astray(State(w))  BY <1>1 DEF Astray, State
<1>4. up[w] = <<>>  BY <1>1 DEF WorkerInv, Answers
<1> QED  BY <1>1, <1>2, <1>3, <1>4

\* ProcessesAgree: whenever all processes are back in the loop and nothing is under way,
\* they have the same settings, ranges and saved states and the same result, after
\* refused masks, states that were not there and failed transfers as well.
THEOREM AgreeAlways == Spec => []ProcessesAgree
<1>1. Inv => ProcessesAgree
  <2> SUFFICES ASSUME Inv, Quiet, NEW w \in Worker
               PROVE  /\ fraction[w] = fraction[Root] /\ cut[w] = cut[Root]
                      /\ saved[w] = saved[Root] /\ needCheck[w] = needCheck[Root]
                      /\ result[w] = result[Root] /\ up[w] = <<>>
    BY DEF ProcessesAgree
  <2>1. Follows(State(w)) /\ up[w] = <<>> /\ at[Root] = "loop"  BY QuietFacts
  <2> QED  BY <2>1 DEF Follows, State
<1> QED  BY <1>1, InvAlways, PTL

\* PartsFollow: whenever nothing is under way, every worker has the values of the cells
\* of its range, unless the client has applied a state.
THEOREM PartsFollowAlways == Spec => []PartsFollow
<1>1. Inv => PartsFollow
  <2>1. ASSUME Inv PROVE DOMAIN log[Root] = 1 .. Len(log[Root])
    <3>1. PICK w \in Worker : TRUE  BY Ranks
    <3>2. log[Root] \in Seq(Call)  BY <2>1, <3>1, LogOfWorker
    <3> QED  BY <3>2, LenProperties
  <2> SUFFICES ASSUME Inv, Quiet, NoApply, NEW w \in Worker, NEW a \in Arrays
               PROVE  part[w][a] = [value |-> array[a], cut |-> cut[w]]
    BY <2>1 DEF PartsFollow, PartsAreCurrent, NoApply
  <2>2. Follows(State(w))  BY QuietFacts
  <2> QED  BY <2>2 DEF Follows, State
<1> QED  BY <1>1, InvAlways, PTL

\* NobodyLost: if the client passes masks of the right size, has saved a state 0 before
\* it uses one, and no transfer fails, no worker meets an operation it does not expect.
THEOREM NobodyLostIfCareful == Careful => (Spec => []NobodyLost)
<1> SUFFICES ASSUME Careful PROVE Spec => []NobodyLost  OBVIOUS
<1>1. Inv => NobodyLost
  <2> SUFFICES ASSUME Inv, NEW w \in Worker, at[w] = "lost" PROVE FALSE
    BY DEF NobodyLost
  <2>1. Types /\ WorkerInv(w) /\ State(w) \in StateT /\ chan[w] \in Seq(Message)
    BY WorkerFacts
  <2>2. PICK t \in StateT : Drains(State(w), chan[w], t) /\ (Follows(t) \/ Astray(t))
    BY <2>1 DEF WorkerInv, Sound
  <2>3. Leads(State(w), t)
    <3>1. CASE chan[w] = <<>>  BY <2>1, <2>2, <3>1, DrainNone, LeadsFacts
    <3>2. CASE chan[w] # <<>>  BY <2>1, <2>2, <3>2, DrainHead
    <3> QED  BY <3>1, <3>2
  <2>4. t.at = "lost"  BY <2>3 DEF Leads, State
  <2>5. ~ Follows(t)  BY <2>1, <2>4 DEF Types, Follows, Follower
  <2> QED  BY <2>2, <2>5 DEF Astray
<1> QED  BY <1>1, InvAlways, PTL
=============================================================================
