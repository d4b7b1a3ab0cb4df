--------------------------- MODULE UnsaturatedZone ---------------------------
(***************************************************************************)
(* The solids of partially saturated cells in the threaded build.  A cell  *)
(* keeps the solids its water can reach in the worker's PHREEQC instance   *)
(* and the others in the worker's uz_bin; PartitionUZ, called for every    *)
(* cell at the start of RunCells, moves solids between the two when the    *)
(* saturation has changed, RebalanceLoad carries both to another worker,   *)
(* and StateSave/StateApply take them back in time.                        *)
(*                                                                         *)
(* Saturations are the levels 0 .. Full (0 stands for 1e-6 and less), the  *)
(* solids of a cell a number of parts.  Reactions are left out: they would *)
(* change the amount in the instance, never what is in uz_bin.             *)
(***************************************************************************)
EXTENDS Integers, FiniteSets

CONSTANTS
  Cell,        \* the reaction cells
  Task,        \* the workers
  Full,        \* the saturation 1.0
  Parts,       \* the solids of one cell
  StateIds,    \* the integers the client passes to StateSave
  MayTurnOff   \* whether the client ever turns the option off again

ASSUME FullAssumption == Full \in Nat \ {0}
ASSUME PartsAssumption == Parts \in Nat
ASSUME WorkerAssumption == Task # {}
ASSUME OptionAssumption == MayTurnOff \in BOOLEAN

Level == 0 .. Full
Gone == -1          \* no entry in uz_bin
Nothing == <<>>

VARIABLES
  owner,       \* the worker whose range has the cell
  sz,          \* solids of the cell in its worker's PHREEQC instance
  uz,          \* uz_bin of every worker
  saturation,  \* saturation_root
  old,         \* old_saturation_root, 1.0 before it is given a size
  partition,   \* partition_uz_solids
  atRun,       \* whether the last call was RunCells
  restored,    \* whether a saved state has ever been applied
  saved        \* state_map

vars == <<owner, sz, uz, saturation, old, partition, atRun, restored, saved>>

Entry(w, c) == IF uz[w][c] = Gone THEN 0 ELSE uz[w][c]

\* Faulty variant: the old saturations are left without a value.
InitWithoutOld ==
  /\ owner \in [Cell -> Task]
  /\ sz = [c \in Cell |-> Parts]
  /\ uz = [w \in Task |-> [c \in Cell |-> Gone]]
  /\ saturation = [c \in Cell |-> Full]
  /\ old = [c \in Cell |-> -1]
  /\ partition = FALSE
  /\ atRun = FALSE
  /\ restored = FALSE
  /\ saved = [s \in StateIds |-> Nothing]

\* Every cell is saturated and no uz_bin has an entry; the option is off.
Init ==
  /\ owner \in [Cell -> Task]
  /\ sz = [c \in Cell |-> Parts]
  /\ uz = [w \in Task |-> [c \in Cell |-> Gone]]
  /\ saturation = [c \in Cell |-> Full]
  /\ old = [c \in Cell |-> Full]
  /\ partition = FALSE
  /\ atRun = FALSE
  /\ restored = FALSE
  /\ saved = [s \in StateIds |-> Nothing]

----------------------------------------------------------------------------
(* PartitionUZ.                                                            *)

Fraction(amount, a, b) == (amount * a) \div b

Moves(c)    == old[c] # saturation[c]
Wetting(c)  == old[c] < saturation[c]
Draining(c) == saturation[c] < old[c]

\* Faulty variant: a draining cell keeps what it should give away.
InWaterWrongWay(c) ==
  LET s == saturation[c]
      u == Entry(owner[c], c)
  IN  CASE ~ Moves(c) -> sz[c]
        [] Wetting(c) -> sz[c] + u - Fraction(u, Full - s, Full - old[c])
        [] Draining(c) -> Fraction(sz[c], old[c] - s, old[c])

\* The solids in reach of the water after PartitionUZ: a cell that gets wetter
\* keeps a fraction of what was in uz_bin there, a draining one keeps a fraction
\* of what was in the instance.  The branches of the code for a saturated and a
\* dry cell are the ends of the two: all of it, or nothing.
InWater(c) ==
  LET s == saturation[c]
      u == Entry(owner[c], c)
  IN  CASE ~ Moves(c) -> sz[c]
        [] Wetting(c) -> sz[c] + u - Fraction(u, Full - s, Full - old[c])
        [] Draining(c) -> Fraction(sz[c], s, old[c])

\* The rest; the entry of a cell that became saturated is removed.
InBin(c) ==
  IF ~ Moves(c) THEN uz[owner[c]][c]
  ELSE IF saturation[c] = Full THEN Gone
  ELSE sz[c] + Entry(owner[c], c) - InWater(c)

\* uz_bin of worker w when all cells have been partitioned.
Partitioned(w) == [c \in Cell |-> IF owner[c] = w THEN InBin(c) ELSE uz[w][c]]

----------------------------------------------------------------------------
(* RebalanceLoad: cell c goes from owner[c] to o[c], with its entry when the *)
(* option is on.                                                           *)

\* Faulty variant: the entry of a cell that changes workers is only copied.
CarriedByCopy(bins, o, w) ==
  [c \in Cell |->
     IF o[c] = w /\ o[c] # owner[c] /\ bins[owner[c]][c] # Gone
     THEN bins[owner[c]][c] ELSE bins[w][c]]

\* Add copies an entry that exists over the one in the new worker, Remove deletes
\* it from the old worker.
Carried(bins, o, w) ==
  [c \in Cell |->
     IF o[c] = owner[c] THEN bins[w][c]
     ELSE IF w = o[c] /\ bins[owner[c]][c] # Gone THEN bins[owner[c]][c]
     ELSE IF w = owner[c] THEN Gone ELSE bins[w][c]]

----------------------------------------------------------------------------
(* The calls of the client.                                                *)

SetSaturation ==
  /\ saturation' \in [Cell -> Level]
  /\ atRun' = FALSE
  /\ UNCHANGED <<owner, sz, uz, old, partition, restored, saved>>

\* RunCells partitions every cell, notes the saturations, and ends with
\* RebalanceLoad, which may give any cell to any worker.
RunCells ==
  /\ owner' \in [Cell -> Task]
  /\ IF partition
     THEN /\ sz' = [c \in Cell |-> InWater(c)]
          /\ uz' = LET bins == [w \in Task |-> Partitioned(w)]
                   IN  [w \in Task |-> Carried(bins, owner', w)]
          /\ old' = saturation
     ELSE UNCHANGED <<sz, uz, old>>
  /\ atRun' = TRUE
  /\ UNCHANGED <<saturation, partition, restored, saved>>

SetPartitionUZSolids(tf) ==
  /\ tf \/ MayTurnOff
  /\ partition' = tf
  /\ atRun' = FALSE
  /\ UNCHANGED <<owner, sz, uz, saturation, old, restored, saved>>

StateSave(s) ==
  /\ saved' = [saved EXCEPT ![s] = [owner |-> owner, sz |-> sz, uz |-> uz]]
  /\ atRun' = FALSE
  /\ UNCHANGED <<owner, sz, uz, saturation, old, partition, restored>>

\* Faulty variant: uz_bin is not put back.
StateApplyWithoutBins(s) ==
  /\ saved[s] # Nothing
  /\ owner' = saved[s].owner
  /\ sz' = saved[s].sz
  /\ atRun' = FALSE
  /\ restored' = TRUE
  /\ UNCHANGED <<uz, saturation, old, partition, saved>>

\* The ranges, the chemistry and uz_bin are put back; old_saturation_root is not.
StateApply(s) ==
  /\ saved[s] # Nothing
  /\ owner' = saved[s].owner
  /\ sz' = saved[s].sz
  /\ uz' = saved[s].uz
  /\ atRun' = FALSE
  /\ restored' = TRUE
  /\ UNCHANGED <<saturation, old, partition, saved>>

Next ==
  \/ SetSaturation
  \/ RunCells
  \/ \E tf \in BOOLEAN : SetPartitionUZSolids(tf)
  \/ \E s \in StateIds : StateSave(s) \/ StateApply(s)

Spec == Init /\ [][Next]_vars

----------------------------------------------------------------------------
(* Properties.                                                             *)

Bins == [Task -> [Cell -> Nat \cup {Gone}]]
SavedState == [owner : [Cell -> Task], sz : [Cell -> Nat], uz : Bins]

\* The variables have their types; in particular no amount is negative.
TypeOK ==
  /\ owner \in [Cell -> Task]
  /\ sz \in [Cell -> Nat]
  /\ uz \in Bins
  /\ saturation \in [Cell -> Level]
  /\ old \in [Cell -> Level]
  /\ partition \in BOOLEAN /\ atRun \in BOOLEAN /\ restored \in BOOLEAN
  /\ saved \in [StateIds -> SavedState \cup {Nothing}]

\* No solids appear or vanish: what a cell has in the instance and in the uz_bin
\* of its worker is always what it began with, whichever way the cell and its two
\* reservoirs have moved between workers and back to saved states.
SolidsKept == \A c \in Cell : sz[c] + Entry(owner[c], c) = Parts

\* Only the worker that runs a cell has an entry for it in its uz_bin, so that no
\* left-over entry can come back to life when the cell returns.
OneReservoir == \A c \in Cell, w \in Task : w # owner[c] => uz[w][c] = Gone

\* With the option on, the fraction of the solids that RunCells makes available for
\* reaction is equal to the saturation.
ReactiveFraction ==
  partition /\ atRun => \A c \in Cell : sz[c] * Full = saturation[c] * Parts

\* The same, as long as no saved state has been applied.
FractionUntilRestored == ~ restored => ReactiveFraction

\* With the option off, all solids are reactive regardless of saturation.  This does
\* not hold once the option has been on (MayTurnOff = TRUE).
AllReactiveWhenOff == ~ partition /\ atRun => \A c \in Cell : sz[c] = Parts
=============================================================================
