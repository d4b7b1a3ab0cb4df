------------------------ MODULE UnsaturatedZoneProofs ------------------------
(***************************************************************************)
(* That no solids are lost between the two reservoirs of a cell as long as *)
(* the option is never turned off, for any cells, workers, saturations and *)
(* saved states; that the reactive fraction is equal to the saturation as  *)
(* long as no saved state is applied; and, also when the option is turned  *)
(* off again, that no amount becomes negative.                             *)
(***************************************************************************)
EXTENDS UnsaturatedZone, TLAPS

----------------------------------------------------------------------------
(* Arithmetic.                                                             *)

\* A fraction of an amount is an amount between nothing and all of it.
LEMMA FractionBounds ==
  ASSUME NEW x \in Nat, NEW a \in Nat, NEW b \in Nat, b > 0, a <= b
  PROVE  Fraction(x, a, b) \in 0 .. x
<1> DEFINE q == (x * a) \div b
           r == (x * a) % b
<1>1. x * a \in Nat /\ x * a <= x * b  OBVIOUS
<1>2. q \in Nat /\ r \in 0 .. b - 1 /\ x * a = b * q + r  BY <1>1
<1>3. q <= x
  <2>1. SUFFICES ASSUME q >= x + 1 PROVE FALSE  BY <1>2
  <2>2. b * q >= b * (x + 1)  BY <2>1, <1>2
  <2>3. b * (x + 1) = x * b + b  OBVIOUS
  <2> QED  BY <2>2, <2>3, <1>1, <1>2
<1> QED  BY <1>2, <1>3 DEF Fraction

\* A fraction of a multiple of its denominator is exact.
LEMMA FractionExact ==
  ASSUME NEW k \in Nat, NEW a \in Nat, NEW b \in Nat, b > 0
  PROVE  Fraction(k * b, a, b) = k * a
<1>1. (k * b) * a = b * (k * a)  OBVIOUS
<1>2. k * a \in Nat  OBVIOUS
<1>3. \A y \in Nat : (b * y) \div b = y  OBVIOUS
<1> QED  BY <1>1, <1>2, <1>3 DEF Fraction

----------------------------------------------------------------------------
(* The inductive invariant: the solids are complete and in one place, now  *)
(* and in every saved state, and before the option is turned on no uz_bin  *)
(* has an entry, so that rebalancing without carrying entries is harmless. *)

Amount(entry) == IF entry = Gone THEN 0 ELSE entry

Sound(own, amount, bins) ==
  /\ \A c \in Cell : amount[c] + Amount(bins[own[c]][c]) = Parts
  /\ \A c \in Cell, w \in Task : w # own[c] => bins[w][c] = Gone

Unused(bins) == \A c \in Cell, w \in Task : bins[w][c] = Gone

SavedSound ==
  \A s \in StateIds : saved[s] # Nothing =>
    Sound(saved[s].owner, saved[s].sz, saved[s].uz)

UnusedBefore ==
  ~ partition =>
    /\ Unused(uz)
    /\ \A s \in StateIds : saved[s] # Nothing => Unused(saved[s].uz)

Inv == TypeOK /\ Sound(owner, sz, uz) /\ SavedSound /\ UnusedBefore

\* PartitionUZ splits what the cell has.
LEMMA PartitionSplits ==
  ASSUME TypeOK, NEW c \in Cell
  PROVE  /\ InWater(c) \in Nat
         /\ InBin(c) \in Nat \cup {Gone}
         /\ InWater(c) + Amount(InBin(c)) = sz[c] + Entry(owner[c], c)
<1> DEFINE u == Entry(owner[c], c)
<1>1. /\ owner[c] \in Task /\ sz[c] \in Nat /\ uz[owner[c]][c] \in Nat \cup {Gone}
      /\ saturation[c] \in 0 .. Full /\ old[c] \in 0 .. Full /\ Full \in Nat
  BY FullAssumption DEF TypeOK, Bins, Level
<1>2. u \in Nat /\ u = Amount(uz[owner[c]][c]) /\ Entry(owner[c], c) = u
  BY <1>1 DEF Entry, Amount, Gone
<1>3. CASE ~ Moves(c)
  <2>1. InWater(c) = sz[c] /\ InBin(c) = uz[owner[c]][c]
    BY <1>3, <1>1 DEF InWater, InBin, Moves, Wetting, Draining
  <2> QED  BY <2>1, <1>1, <1>2
<1>4. CASE Wetting(c)
  <2> DEFINE f == Fraction(u, Full - saturation[c], Full - old[c])
  <2>1. Moves(c) /\ ~ Draining(c)  BY <1>1, <1>4 DEF Moves, Wetting, Draining
  <2>2. InWater(c) = sz[c] + u - f  BY <2>1, <1>4 DEF InWater
  <2>3. /\ Full - saturation[c] \in Nat /\ Full - old[c] \in Nat
        /\ Full - old[c] > 0 /\ Full - saturation[c] <= Full - old[c]
    BY <1>1, <1>4 DEF Wetting
  <2>4. f \in 0 .. u  BY <2>3, <1>2, FractionBounds
  <2>5. CASE saturation[c] = Full
    <3>1. f = 0
      <4>1. Full - saturation[c] = 0  BY <2>5, <1>1
      <4>2. u * 0 = 0  BY <1>2
      <4>3. \A b \in Nat : b > 0 => 0 \div b = 0  OBVIOUS
      <4> QED  BY <4>1, <4>2, <4>3, <2>3 DEF Fraction
    <3>2. InBin(c) = Gone  BY <2>1, <2>5 DEF InBin
    <3> HIDE DEF f, u
    <3> QED  BY <3>1, <3>2, <2>2, <1>1, <1>2 DEF Amount, Gone
  <2>6. CASE saturation[c] # Full
    <3>1. InBin(c) = sz[c] + u - InWater(c)  BY <2>1, <2>6 DEF InBin
    <3> HIDE DEF f, u
    <3> QED  BY <3>1, <2>2, <2>4, <1>1, <1>2 DEF Amount, Gone
  <2> QED  BY <2>5, <2>6
<1>5. CASE Draining(c)
  <2> DEFINE f == Fraction(sz[c], saturation[c], old[c])
  <2>1. Moves(c) /\ ~ Wetting(c) /\ saturation[c] # Full
    BY <1>1, <1>5 DEF Moves, Wetting, Draining
  <2>2. InWater(c) = f  BY <2>1, <1>5 DEF InWater
  <2>3. saturation[c] \in Nat /\ old[c] \in Nat /\ old[c] > 0 /\ saturation[c] <= old[c]
    BY <1>1, <1>5 DEF Draining
  <2>4. f \in 0 .. sz[c]  BY <2>3, <1>1, FractionBounds
  <2>5. InBin(c) = sz[c] + u - InWater(c)  BY <2>1 DEF InBin
  <2> HIDE DEF f, u
  <2> QED  BY <2>2, <2>4, <2>5, <1>1, <1>2 DEF Amount, Gone
<1>6. ~ Moves(c) \/ Wetting(c) \/ Draining(c)  BY <1>1 DEF Moves, Wetting, Draining
<1> QED  BY <1>3, <1>4, <1>5, <1>6

\* RebalanceLoad takes every entry to the cell's new worker and leaves none behind.
LEMMA CarriedFollows ==
  ASSUME TypeOK, Sound(owner, sz, uz), NEW o \in [Cell -> Task],
         NEW bins, bins = [w \in Task |-> Partitioned(w)],
         NEW c \in Cell, NEW w \in Task
  PROVE  Carried(bins, o, w)[c] = IF w = o[c] THEN InBin(c) ELSE Gone
<1>1. owner[c] \in Task /\ o[c] \in Task  BY DEF TypeOK
<1>2. \A v \in Task : bins[v][c] = IF owner[c] = v THEN InBin(c) ELSE Gone
  BY DEF Partitioned, Sound
<1> QED  BY <1>1, <1>2 DEF Carried

----------------------------------------------------------------------------
(* The invariant holds.                                                    *)

LEMMA InvInit == Init => Inv
<1> SUFFICES ASSUME Init PROVE Inv  OBVIOUS
<1>1. TypeOK
  <2>1. owner \in [Cell -> Task] /\ sz \in [Cell -> Nat]
    BY PartsAssumption DEF Init
  <2>2. Full \in Level  BY FullAssumption DEF Level
  <2>3. saturation \in [Cell -> Level] /\ old \in [Cell -> Level]
    BY <2>2 DEF Init
  <2>4. uz \in Bins  BY DEF Init, Bins
  <2>5. saved \in [StateIds -> SavedState \cup {Nothing}]  BY DEF Init
  <2>6. partition \in BOOLEAN /\ atRun \in BOOLEAN /\ restored \in BOOLEAN  BY DEF Init
  <2> QED  BY <2>1, <2>3, <2>4, <2>5, <2>6 DEF TypeOK
<1>2. Sound(owner, sz, uz) /\ Unused(uz)
  BY PartsAssumption DEF Init, Sound, Amount, Unused
<1>3. \A s \in StateIds : saved[s] = Nothing  BY DEF Init
<1> QED  BY <1>1, <1>2, <1>3 DEF Inv, SavedSound, UnusedBefore

LEMMA RunCellsKeeps ==
  ASSUME Inv, RunCells PROVE Inv'
<1> USE DEF Inv
<1>1. CASE partition
  <2> DEFINE bins == [w \in Task |-> Partitioned(w)]
  <2>0. /\ sz' = [c \in Cell |-> InWater(c)]
        /\ uz' = [w \in Task |-> Carried(bins, owner', w)]
        /\ old' = saturation /\ owner' \in [Cell -> Task]
        /\ atRun' = TRUE /\ partition' = partition
        /\ saturation' = saturation /\ saved' = saved /\ restored' = restored
    BY <1>1 DEF RunCells
  <2>1. \A c \in Cell : /\ InWater(c) \in Nat
                         /\ InBin(c) \in Nat \cup {Gone}
                         /\ InWater(c) + Amount(InBin(c)) = Parts
    BY PartitionSplits DEF Sound, Entry, Amount
  <2>2. \A c \in Cell, w \in Task :
          uz'[w][c] = IF w = owner'[c] THEN InBin(c) ELSE Gone
    <3>1. ASSUME NEW o \in [Cell -> Task], NEW c \in Cell, NEW w \in Task
          PROVE  Carried(bins, o, w)[c] = IF w = o[c] THEN InBin(c) ELSE Gone
      BY CarriedFollows
    <3> QED  BY <2>0, <3>1
  <2>3. uz' \in Bins
    <3>1. \A w \in Task : uz'[w] = Carried(bins, owner', w)  BY <2>0
    <3>2. \A w \in Task : uz'[w] = [c \in Cell |-> uz'[w][c]]  BY <3>1 DEF Carried
    <3>3. \A c \in Cell, w \in Task : uz'[w][c] \in Nat \cup {Gone}  BY <2>1, <2>2
    <3>4. \A w \in Task : uz'[w] \in [Cell -> Nat \cup {Gone}]  BY <3>2, <3>3
    <3> QED  BY <2>0, <3>4 DEF Bins
  <2>4. TypeOK'  BY <2>0, <2>1, <2>3 DEF TypeOK
  <2>5. Sound(owner', sz', uz')  BY <2>0, <2>1, <2>2 DEF Sound
  <2>6. SavedSound' /\ UnusedBefore'  BY <1>1, <2>0 DEF SavedSound, UnusedBefore
  <2> QED  BY <2>4, <2>5, <2>6
<1>2. CASE ~ partition
  <2>0. /\ owner' \in [Cell -> Task] /\ atRun' = TRUE
        /\ UNCHANGED <<sz, uz, old, saturation, partition, restored, saved>>
    BY <1>2 DEF RunCells
  <2>1. Unused(uz)  BY <1>2 DEF UnusedBefore
  <2>2. owner \in [Cell -> Task]  BY DEF TypeOK
  <2>3. \A c \in Cell : sz[c] + Amount(Gone) = Parts
    BY <2>1, <2>2 DEF Sound, Unused
  <2>4. Sound(owner', sz, uz)  BY <2>0, <2>1, <2>3 DEF Sound, Unused
  <2>5. TypeOK'  BY <2>0 DEF TypeOK
  <2> QED  BY <2>0, <2>4, <2>5 DEF SavedSound, UnusedBefore
<1> QED  BY <1>1, <1>2

LEMMA StatesKeep ==
  ASSUME Inv, NEW s \in StateIds, StateSave(s) \/ StateApply(s) PROVE Inv'
<1> USE DEF Inv
<1>1. CASE StateSave(s)
  <2> DEFINE now == [owner |-> owner, sz |-> sz, uz |-> uz]
  <2>0. /\ saved' = [saved EXCEPT ![s] = now] /\ atRun' = FALSE
        /\ UNCHANGED <<owner, sz, uz, saturation, old, partition, restored>>
    BY <1>1 DEF StateSave
  <2>1. now \in SavedState  BY DEF TypeOK, SavedState
  <2>2. TypeOK'  BY <2>0, <2>1 DEF TypeOK
  <2>3. ASSUME NEW t \in StateIds PROVE saved'[t] = IF t = s THEN now ELSE saved[t]
    BY <2>0 DEF TypeOK
  <2>4. now.owner = owner /\ now.sz = sz /\ now.uz = uz  OBVIOUS
  <2> HIDE DEF now
  <2>5. SavedSound'  BY <2>3, <2>4 DEF SavedSound
  <2>6. UnusedBefore'  BY <2>0, <2>3, <2>4 DEF UnusedBefore
  <2> QED  BY <2>0, <2>2, <2>5, <2>6
<1>2. CASE StateApply(s)
  <2>0. /\ saved[s] # Nothing /\ owner' = saved[s].owner /\ sz' = saved[s].sz
        /\ uz' = saved[s].uz /\ atRun' = FALSE /\ restored' = TRUE
        /\ UNCHANGED <<saturation, old, partition, saved>>
    BY <1>2 DEF StateApply
  <2>1. saved[s] \in SavedState  BY <2>0 DEF TypeOK
  <2>2. TypeOK'  BY <2>0, <2>1 DEF TypeOK, SavedState
  <2>3. Sound(owner', sz', uz')  BY <2>0 DEF SavedSound
  <2>4. SavedSound' /\ UnusedBefore'  BY <2>0 DEF SavedSound, UnusedBefore
  <2> QED  BY <2>2, <2>3, <2>4
<1> QED  BY <1>1, <1>2

LEMMA InvStep ==
  ASSUME ~ MayTurnOff, Inv, [Next]_vars PROVE Inv'
<1> USE DEF Inv
<1>1. CASE SetSaturation
  BY <1>1 DEF SetSaturation, TypeOK, SavedSound, UnusedBefore
<1>2. CASE RunCells
  BY <1>2, RunCellsKeeps
<1>3. ASSUME NEW tf \in BOOLEAN, SetPartitionUZSolids(tf) PROVE Inv'
  <2>1. /\ partition' = TRUE /\ atRun' = FALSE
        /\ UNCHANGED <<owner, sz, uz, saturation, old, restored, saved>>
    BY <1>3 DEF SetPartitionUZSolids
  <2> QED  BY <2>1 DEF TypeOK, SavedSound, UnusedBefore
<1>4. ASSUME NEW s \in StateIds, StateSave(s) \/ StateApply(s) PROVE Inv'
  BY <1>4, StatesKeep
<1>5. CASE UNCHANGED vars
  BY <1>5 DEF vars, TypeOK, SavedSound, UnusedBefore
<1> QED  BY <1>1, <1>2, <1>3, <1>4, <1>5 DEF Next

LEMMA InvHolds == ASSUME ~ MayTurnOff PROVE Spec => []Inv
<1>1. Init => Inv  BY InvInit
<1>2. Inv /\ [Next]_vars => Inv'  BY InvStep
<1> QED  BY <1>1, <1>2, PTL DEF Spec

\* The solids of a cell are never lost or doubled, however the saturation, the
\* load balancing and the saved states move them, if the option stays on once it
\* is on.
THEOREM SolidsAreKept == ASSUME ~ MayTurnOff PROVE Spec => []SolidsKept
<1>1. Inv => SolidsKept  BY DEF Inv, Sound, SolidsKept, Entry, Amount
<1> QED  BY <1>1, InvHolds, PTL

\* Under the same condition no worker keeps an entry of a cell that it does not run.
THEOREM EntriesStayWithOwner == ASSUME ~ MayTurnOff PROVE Spec => []OneReservoir
<1>1. Inv => OneReservoir  BY DEF Inv, Sound, OneReservoir
<1> QED  BY <1>1, InvHolds, PTL

----------------------------------------------------------------------------
(* No amount is ever negative, also when the option is turned off and on   *)
(* again, where entries can be left behind and solids can be lost.         *)

LEMMA RunCellsTypes ==
  ASSUME TypeOK, RunCells PROVE TypeOK'
<1>1. CASE partition
  <2> DEFINE bins == [w \in Task |-> Partitioned(w)]
  <2>1. /\ sz' = [c \in Cell |-> InWater(c)]
        /\ uz' = [w \in Task |-> Carried(bins, owner', w)]
        /\ old' = saturation /\ owner' \in [Cell -> Task]
        /\ atRun' = TRUE /\ partition' = partition
        /\ saturation' = saturation /\ saved' = saved /\ restored' = restored
    BY <1>1 DEF RunCells
  <2>2. ASSUME NEW c \in Cell, NEW w \in Task PROVE bins[w][c] \in Nat \cup {Gone}
    <3>1. InBin(c) \in Nat \cup {Gone}  BY PartitionSplits
    <3>2. uz[w][c] \in Nat \cup {Gone}  BY DEF TypeOK, Bins
    <3> QED  BY <3>1, <3>2 DEF Partitioned
  <2> HIDE DEF bins
  <2>3. ASSUME NEW w \in Task, NEW c \in Cell
        PROVE  Carried(bins, owner', w)[c] \in Nat \cup {Gone}
    <3>1. owner[c] \in Task /\ owner'[c] \in Task  BY <2>1 DEF TypeOK
    <3> QED  BY <2>2, <3>1 DEF Carried
  <2>4. uz' \in Bins
    <3>1. ASSUME NEW w \in Task PROVE uz'[w] \in [Cell -> Nat \cup {Gone}]
      <4>1. uz'[w] = [c \in Cell |-> Carried(bins, owner', w)[c]]  BY <2>1 DEF Carried
      <4> QED  BY <2>3, <4>1
    <3> QED  BY <2>1, <3>1 DEF Bins
  <2>5. sz' \in [Cell -> Nat]  BY <2>1, PartitionSplits
  <2> QED  BY <2>1, <2>4, <2>5 DEF TypeOK
<1>2. CASE ~ partition  BY <1>2 DEF RunCells, TypeOK
<1> QED  BY <1>1, <1>2

LEMMA TypesStep ==
  ASSUME TypeOK, [Next]_vars PROVE TypeOK'
<1>1. CASE SetSaturation  BY <1>1 DEF SetSaturation, TypeOK
<1>2. CASE RunCells  BY <1>2, RunCellsTypes
<1>3. ASSUME NEW tf \in BOOLEAN, SetPartitionUZSolids(tf) PROVE TypeOK'
  BY <1>3 DEF SetPartitionUZSolids, TypeOK
<1>4. ASSUME NEW s \in StateIds, StateSave(s) PROVE TypeOK'
  <2>1. [owner |-> owner, sz |-> sz, uz |-> uz] \in SavedState  BY DEF TypeOK, SavedState
  <2> QED  BY <1>4, <2>1 DEF StateSave, TypeOK
<1>5. ASSUME NEW s \in StateIds, StateApply(s) PROVE TypeOK'
  <2>1. saved[s] \in SavedState  BY <1>5 DEF StateApply, TypeOK
  <2> QED  BY <1>5, <2>1 DEF StateApply, TypeOK, SavedState
<1>6. CASE UNCHANGED vars  BY <1>6 DEF vars, TypeOK
<1> QED  BY <1>1, <1>2, <1>3, <1>4, <1>5, <1>6 DEF Next

\* The amounts in the instances, in every uz_bin and in the saved states stay
\* amounts, whatever the client calls.
THEOREM TypeCorrect == Spec => []TypeOK
<1>1. Init => TypeOK  BY InvInit DEF Inv
<1> QED  BY <1>1, TypesStep, PTL DEF Spec

----------------------------------------------------------------------------
(* The reactive fraction.                                                  *)

\* Until a state is applied, the solids are split by the old saturation.
Follows == ~ restored => \A c \in Cell : sz[c] * Full = old[c] * Parts

AtRun == partition /\ atRun => old = saturation

LEMMA FollowsStep ==
  ASSUME NEW k \in Nat, Parts = k * Full, Inv, Follows, partition, ~ restored, NEW c \in Cell
  PROVE  InWater(c) * Full = saturation[c] * Parts
<1> DEFINE u == Entry(owner[c], c)
           s == saturation[c]
<1>1. /\ owner[c] \in Task /\ sz[c] \in Nat /\ uz[owner[c]][c] \in Nat \cup {Gone}
      /\ s \in 0 .. Full /\ old[c] \in 0 .. Full /\ Full \in Nat /\ Full > 0
  BY FullAssumption DEF Inv, TypeOK, Bins, Level
<1>2. u \in Nat /\ sz[c] + u = k * Full
  BY <1>1 DEF Inv, Entry, Amount, Sound, Gone
<1>3. sz[c] = k * old[c]
  <2>1. sz[c] * Full = (k * old[c]) * Full  BY <1>1 DEF Follows
  <2>2. \A a, b, d \in Nat : d > 0 /\ a * d = b * d => a = b  OBVIOUS
  <2>3. k * old[c] \in Nat  BY <1>1
  <2> QED  BY <1>1, <2>1, <2>2, <2>3
<1>4. u = k * (Full - old[c])
  <2> DEFINE x == k * old[c]
             y == k * (Full - old[c])
             z == k * Full
  <2>1. x \in Int /\ y \in Int /\ z \in Int /\ z = x + y  BY <1>1
  <2>2. u \in Int /\ x + u = z  BY <1>2, <1>3
  <2> HIDE DEF u, x, y, z
  <2>3. u = y  BY <2>1, <2>2
  <2> QED  BY <2>3 DEF y
<1>5. InWater(c) = k * s
  <2>1. CASE ~ Moves(c)
    BY <2>1, <1>1, <1>3 DEF InWater, Moves, Wetting, Draining
  <2>2. CASE Wetting(c)
    <3>1. Moves(c) /\ ~ Draining(c)  BY <1>1, <2>2 DEF Moves, Wetting, Draining
    <3>2. InWater(c) = sz[c] + u - Fraction(u, Full - s, Full - old[c])
      BY <3>1, <2>2 DEF InWater
    <3>3. Full - s \in Nat /\ Full - old[c] \in Nat /\ Full - old[c] > 0
      BY <1>1, <2>2 DEF Wetting
    <3>4. Fraction(u, Full - s, Full - old[c]) = k * (Full - s)
      BY <3>3, <1>4, FractionExact
    <3>5. k * Full - k * (Full - s) = k * s  BY <1>1
    <3>6. k * Full \in Int /\ k * (Full - s) \in Int  BY <1>1
    <3> HIDE DEF u, s
    <3> QED  BY <3>2, <3>4, <3>5, <3>6, <1>2, <1>1
  <2>3. CASE Draining(c)
    <3>1. Moves(c) /\ ~ Wetting(c)  BY <1>1, <2>3 DEF Moves, Wetting, Draining
    <3>2. InWater(c) = Fraction(sz[c], s, old[c])  BY <3>1, <2>3 DEF InWater
    <3>3. s \in Nat /\ old[c] \in Nat /\ old[c] > 0  BY <1>1, <2>3 DEF Draining
    <3> QED  BY <3>2, <3>3, <1>3, FractionExact
  <2> QED  BY <1>1, <2>1, <2>2, <2>3 DEF Moves, Wetting, Draining
<1>6. (k * s) * Full = s * (k * Full)  BY <1>1
<1> QED  BY <1>5, <1>6

LEMMA FollowsHolds ==
  ASSUME ~ MayTurnOff, NEW k \in Nat, Parts = k * Full
  PROVE  Spec => [](Follows /\ AtRun)
<1> DEFINE FInv == Inv /\ Follows /\ AtRun
<1>1. Init => FInv
  <2> SUFFICES ASSUME Init PROVE FInv  OBVIOUS
  <2>1. Parts * Full = Full * Parts  BY FullAssumption, PartsAssumption
  <2> QED  BY <2>1, InvInit DEF Init, Follows, AtRun
<1>2. FInv /\ [Next]_vars => FInv'
  <2> SUFFICES ASSUME FInv, [Next]_vars PROVE Follows' /\ AtRun'
    BY InvStep
  <2>1. CASE SetSaturation
    BY <2>1 DEF SetSaturation, Follows, AtRun
  <2>2. CASE RunCells
    <3>1. CASE partition
      <4>1. ~ restored => \A c \in Cell : InWater(c) * Full = saturation[c] * Parts
        BY <3>1, FollowsStep
      <4>2. sz' = [c \in Cell |-> InWater(c)] /\ old' = saturation
            /\ saturation' = saturation /\ restored' = restored
        BY <2>2, <3>1 DEF RunCells
      <4> QED  BY <4>1, <4>2 DEF Follows, AtRun
    <3>2. CASE ~ partition
      BY <2>2, <3>2 DEF RunCells, Follows, AtRun
    <3> QED  BY <3>1, <3>2
  <2>3. ASSUME NEW tf \in BOOLEAN, SetPartitionUZSolids(tf) PROVE Follows' /\ AtRun'
    BY <2>3 DEF SetPartitionUZSolids, Follows, AtRun
  <2>4. ASSUME NEW s \in StateIds, StateSave(s) \/ StateApply(s) PROVE Follows' /\ AtRun'
    BY <2>4 DEF StateSave, StateApply, Follows, AtRun
  <2>5. CASE UNCHANGED vars
    BY <2>5 DEF vars, Follows, AtRun
  <2> QED  BY <2>1, <2>2, <2>3, <2>4, <2>5 DEF Next
<1> QED  BY <1>1, <1>2, PTL DEF Spec

\* With the option on, the fraction of the solids RunCells leaves in reach of the
\* water is the saturation, after any history of saturations, rebalancing and saved
\* states, until a state is applied.
THEOREM FractionIsSaturation ==
  ASSUME ~ MayTurnOff, NEW k \in Nat, Parts = k * Full
  PROVE  Spec => []FractionUntilRestored
<1>1. Follows /\ AtRun => FractionUntilRestored
  BY DEF Follows, AtRun, ReactiveFraction, FractionUntilRestored
<1> QED  BY <1>1, FollowsHolds, PTL
=============================================================================
