------------------------- MODULE RestartFilesProofs -------------------------
(***************************************************************************)
(* For any number of cells, workers, steps and runs, and wherever a run is *)
(* cut off: as long as no write fails unnoticed, one of the two restart    *)
(* files holds all cells as of the last write that was finished; and, also *)
(* when writes fail, what a run takes from the files comes to the worker   *)
(* that owns the cell, and to no other.                                    *)
(***************************************************************************)
EXTENDS RestartFiles, WellFoundedInduction, TLAPS

Writing == {"dump", "dumped", "removed", "renamed"}
Places == {"none", "read", "restored", "stepped", "written"} \cup Writing

Counters == /\ pc \in Places /\ clock \in Nat /\ kept \in Nat /\ faults \in Nat
            /\ kept <= clock

\* The file being written is of this step, and is finished before FileRename.
TempOfStep == /\ pc \in Writing => "temp" \in DOMAIN disk /\ disk["temp"].time = clock
              /\ pc \in Writing \ {"dump"} => Whole("temp")

\* What FileRename has made room for.
RoomMade == /\ pc = "removed" => ~({"restart", "backup"} \subseteq DOMAIN disk)
            /\ pc = "renamed" => "restart" \notin DOMAIN disk

NamesWhole == \A f \in FileNames \cap DOMAIN disk : Whole(f)

\* The file with the name is the newer one; without it the backup is.
NewestNamed ==
  kept > 0 => IF "restart" \in DOMAIN disk THEN disk["restart"].time >= kept
              ELSE "backup" \in DOMAIN disk /\ disk["backup"].time >= kept

DiskInv == TempOfStep /\ RoomMade /\ NamesWhole /\ NewestNamed

\* Inductive.
Inv == Counters /\ (faults = 0 => DiskInv)

\* The least of some numbers.
LEMMA LeastElement ==
  ASSUME NEW T, T \subseteq Nat, T # {}
  PROVE  \E x \in T : \A y \in T : x <= y
<1> DEFINE R == OpToRel(<, Nat)
<1>1. IsWellFoundedOn(R, Nat)  BY NatLessThanWellFounded
<1>2. \A x \in Nat, y \in Nat : y < x => <<y, x>> \in R  BY DEF OpToRel
<1> HIDE DEF R
<1>3. PICK x \in T : \A y \in T : ~ (<<y, x>> \in R)  BY <1>1, WFMin
<1>4. \A y \in T : ~ (y < x)  BY <1>2, <1>3
<1> QED  BY <1>4

USE RestartBounds

\* The first state satisfies the invariant.
LEMMA InitInv == Init => Inv
  BY DEF Init, Inv, Counters, DiskInv, TempOfStep, RoomMade, NamesWhole, NewestNamed,
         Places, Writing, FileNames

\* What a change of one file leaves as it was.
LEMMA PutFacts ==
  ASSUME NEW f, NEW file, Put(f, file)
  PROVE  /\ DOMAIN disk' = DOMAIN disk \cup {f}
         /\ disk'[f] = file
         /\ \A g \in DOMAIN disk \ {f} : disk'[g] = disk[g]
  BY DEF Put

LEMMA RenameFacts ==
  ASSUME NEW f, NEW g, f # g, Rename(f, g)
  PROVE  /\ DOMAIN disk' = (DOMAIN disk \ {f}) \cup {g}
         /\ disk'[g] = disk[f]
         /\ \A h \in DOMAIN disk \ {f, g} : disk'[h] = disk[h]
  BY DEF Rename

\* Changes of the temporary file leave the two names alone.
LEMMA PutTemp ==
  ASSUME NEW file, Put("temp", file), NamesWhole, NewestNamed, kept' = kept
  PROVE  NamesWhole' /\ NewestNamed'
<1>1. /\ DOMAIN disk' = DOMAIN disk \cup {"temp"}
      /\ \A g \in DOMAIN disk \ {"temp"} : disk'[g] = disk[g]
  BY PutFacts
<1>2. NamesWhole' BY <1>1 DEF NamesWhole, Whole, FileNames
<1>3. NewestNamed' BY <1>1 DEF NewestNamed
<1> QED BY <1>2, <1>3

\* Every action keeps the invariant.
LEMMA NextInv == Inv /\ [Next]_vars => Inv'
<1> SUFFICES ASSUME Inv, [Next]_vars PROVE Inv' OBVIOUS
<1> USE DEF Inv, Counters, Places, Writing
<1>1. CASE UNCHANGED <<pc, disk, clock, kept, faults>>
  BY <1>1 DEF DiskInv, TempOfStep, RoomMade, NamesWhole, NewestNamed, Whole
<1>2. CASE StartRun \/ ReadFile \/ Restored \/ Stop
  <2>1. /\ pc' \in {"read", "restored", "none"}
        /\ UNCHANGED <<disk, clock, kept, faults>>
    BY <1>2 DEF StartRun, ReadFile, Restored, Stop
  <2> QED BY <2>1 DEF DiskInv, TempOfStep, RoomMade, NamesWhole, NewestNamed, Whole
<1>3. CASE TimeStep
  <2>1. pc' = "stepped" /\ clock' = clock + 1 /\ UNCHANGED <<disk, kept, faults>>
    BY <1>3 DEF TimeStep
  <2> QED BY <2>1 DEF DiskInv, TempOfStep, RoomMade, NamesWhole, NewestNamed, Whole
<1>4. CASE WriteIndex
  <2> DEFINE file == [time |-> clock, place |-> input.place,
                      index |-> [i \in Cells |-> IndexEntry(i)], dump |-> <<>>]
  <2>1. /\ pc' = "dump" /\ UNCHANGED <<clock, kept, faults>> /\ Put("temp", file)
    BY <1>4 DEF WriteIndex
  <2>2. file.time = clock OBVIOUS
  <2> HIDE DEF file
  <2>3. ASSUME faults = 0 PROVE DiskInv'
    <3>0. DOMAIN disk' = DOMAIN disk \cup {"temp"} /\ disk'["temp"] = file
      BY <2>1, PutFacts
    <3>1. TempOfStep' BY <2>1, <2>2, <3>0 DEF TempOfStep
    <3>2. RoomMade' BY <2>1 DEF RoomMade
    <3>3. NamesWhole' /\ NewestNamed' BY <2>1, <2>3, PutTemp DEF DiskInv
    <3> QED BY <3>1, <3>2, <3>3 DEF DiskInv
  <2> QED BY <2>1, <2>3
<1>5. CASE DumpWorker
  <2>1. PICK w \in Worker :
          LET range == {i \in Cells : owner[i] = w}
              written == DOMAIN disk["temp"].dump
          IN /\ Put("temp", WithDump(disk["temp"], [i \in written \cup range |->
                  IF i \in range THEN held[w][i] ELSE disk["temp"].dump[i]]))
             /\ pc' = IF written \cup range = Cells THEN "dumped" ELSE "dump"
    BY <1>5 DEF DumpWorker
  <2> DEFINE range == {i \in Cells : owner[i] = w}
             written == DOMAIN disk["temp"].dump
             file == WithDump(disk["temp"], [i \in written \cup range |->
                       IF i \in range THEN held[w][i] ELSE disk["temp"].dump[i]])
  <2>2. pc = "dump" /\ UNCHANGED <<clock, kept, faults>> BY <1>5 DEF DumpWorker
  <2>3. /\ Put("temp", file) /\ pc' \in {"dump", "dumped"}
        /\ pc' = "dumped" => written \cup range = Cells
    BY <2>1
  <2>4. file.time = disk["temp"].time /\ DOMAIN file.dump = written \cup range
    BY DEF WithDump
  <2> HIDE DEF file
  <2>5. ASSUME faults = 0 PROVE DiskInv'
    <3>1. TempOfStep'
      BY <2>2, <2>3, <2>4, <2>5, PutFacts DEF TempOfStep, DiskInv, Whole
    <3>2. RoomMade' BY <2>3 DEF RoomMade
    <3>3. NamesWhole' /\ NewestNamed' BY <2>2, <2>3, <2>5, PutTemp DEF DiskInv
    <3> QED BY <3>1, <3>2, <3>3 DEF DiskInv
  <2> QED BY <2>2, <2>3, <2>5
<1>6. CASE BufferLost
  BY <1>6 DEF BufferLost
<1>7. CASE RemoveBackup
  <2>1. pc = "dumped" /\ pc' = "removed" /\ UNCHANGED <<clock, kept, faults>>
    BY <1>7 DEF RemoveBackup
  <2>2. ASSUME faults = 0 PROVE DiskInv'
    <3>1. CASE {"restart", "backup"} \subseteq DOMAIN disk
      <4>1. /\ DOMAIN disk' = DOMAIN disk \ {"backup"}
            /\ \A g \in DOMAIN disk' : disk'[g] = disk[g]
        BY <1>7, <3>1 DEF RemoveBackup, Remove
      <4> QED BY <2>1, <2>2, <3>1, <4>1
              DEF DiskInv, TempOfStep, RoomMade, NamesWhole, NewestNamed, Whole, FileNames
    <3>2. CASE ~({"restart", "backup"} \subseteq DOMAIN disk)
      <4>1. disk' = disk BY <1>7, <3>2 DEF RemoveBackup
      <4> QED BY <2>1, <2>2, <3>2, <4>1
              DEF DiskInv, TempOfStep, RoomMade, NamesWhole, NewestNamed, Whole, FileNames
    <3> QED BY <3>1, <3>2
  <2> QED BY <2>1, <2>2
<1>8. CASE RenameOld
  <2>1. pc = "removed" /\ pc' = "renamed" /\ UNCHANGED <<clock, kept, faults>>
    BY <1>8 DEF RenameOld
  <2>2. ASSUME faults = 0 PROVE DiskInv'
    <3>1. CASE "restart" \in DOMAIN disk
      <4>1. /\ DOMAIN disk' = (DOMAIN disk \ {"restart"}) \cup {"backup"}
            /\ disk'["backup"] = disk["restart"]
            /\ \A h \in DOMAIN disk \ {"restart", "backup"} : disk'[h] = disk[h]
        BY <1>8, <3>1, RenameFacts DEF RenameOld
      <4>2. TempOfStep' BY <2>1, <2>2, <4>1 DEF DiskInv, TempOfStep, Whole
      <4>3. RoomMade' BY <2>1, <4>1 DEF RoomMade
      <4>4. NamesWhole' /\ NewestNamed'
        BY <2>1, <2>2, <3>1, <4>1 DEF DiskInv, NamesWhole, NewestNamed, Whole, FileNames
      <4> QED BY <4>2, <4>3, <4>4 DEF DiskInv
    <3>2. CASE "restart" \notin DOMAIN disk
      <4>1. disk' = disk BY <1>8, <3>2 DEF RenameOld
      <4> QED BY <2>1, <2>2, <3>2, <4>1
              DEF DiskInv, TempOfStep, RoomMade, NamesWhole, NewestNamed, Whole, FileNames
    <3> QED BY <3>1, <3>2
  <2> QED BY <2>1, <2>2
<1>9. CASE RenameNew
  <2>1. /\ pc = "renamed" /\ pc' = "written" /\ UNCHANGED <<clock, faults>>
        /\ kept' = IF Whole("temp") THEN clock ELSE kept
    BY <1>9 DEF RenameNew
  <2>2. /\ DOMAIN disk' = (DOMAIN disk \ {"temp"}) \cup {"restart"}
        /\ disk'["restart"] = disk["temp"]
        /\ \A h \in DOMAIN disk \ {"temp", "restart"} : disk'[h] = disk[h]
    BY <1>9, RenameFacts DEF RenameNew
  <2>3. ASSUME faults = 0 PROVE DiskInv'
    <3>1. Whole("temp") /\ disk["temp"].time = clock BY <2>1, <2>3 DEF DiskInv, TempOfStep
    <3>2. TempOfStep' /\ RoomMade' BY <2>1 DEF TempOfStep, RoomMade
    <3>3. NamesWhole' BY <2>2, <2>3, <3>1 DEF DiskInv, NamesWhole, Whole, FileNames
    <3>4. NewestNamed' BY <2>1, <2>2, <3>1 DEF NewestNamed
    <3> QED BY <3>2, <3>3, <3>4 DEF DiskInv
  <2> QED BY <2>1, <2>3
<1> QED BY <1>1, <1>2, <1>3, <1>4, <1>5, <1>6, <1>7, <1>8, <1>9 DEF Next, vars

\* Once a whole file has got its name, one of the two names holds all cells as
\* of that write or a later one, and none ever holds part of them.
THEOREM KeptAlways == Spec => []LatestKept
<1>1. Inv => LatestKept
  <2> SUFFICES ASSUME Inv, faults = 0 PROVE KeptWhole BY DEF LatestKept
  <2>1. NamesWhole /\ NewestNamed BY DEF Inv, DiskInv
  <2>2. kept > 0 => \E f \in FileNames : Whole(f) /\ disk[f].time >= kept
    <3> SUFFICES ASSUME kept > 0 PROVE \E f \in FileNames : Whole(f) /\ disk[f].time >= kept
      OBVIOUS
    <3>1. CASE "restart" \in DOMAIN disk
      BY <2>1, <3>1 DEF NamesWhole, NewestNamed, FileNames
    <3>2. CASE "restart" \notin DOMAIN disk
      BY <2>1, <3>2 DEF NamesWhole, NewestNamed, FileNames
    <3> QED BY <3>1, <3>2
  <2> QED BY <2>1, <2>2 DEF KeptWhole, NamesWhole
<1> QED BY <1>1, InitInv, NextInv, PTL DEF Spec
----------------------------------------------------------------------------
(* What is restored.                                                       *)

Lists == {<<>>, <<"restart">>, <<"backup">>, <<"restart", "backup">>}

\* The restart files that are still to be read.
Unread == {f \in FileNames : \E n \in DOMAIN files : files[n] = f}

Process ==
  /\ input \in Inputs /\ owner \in Divisions /\ wet \in (SUBSET Cells) \ {{}}
  /\ DOMAIN held = IF pc = "none" THEN {} ELSE Worker
  /\ \A w \in DOMAIN held : held[w] \in [Cells -> [Kinds -> Entity]]
  /\ bin \in [Cells -> [Kinds -> Entity]]
  /\ files \in Lists

Bounds ==
  /\ run \in 0..MaxRuns /\ clock \in 0..MaxClock /\ kept \in 0..clock
  /\ faults \in 0..MaxFaults /\ pc \in Places

\* A file of the step t or an earlier one.
FileOf(file, t) ==
  /\ file.time \in 0..t /\ file.place \in {p.place : p \in Inputs}
  /\ file.index \in [Cells -> [solution : {1, -1}, kinetics : {1, -1, -100}]]
  /\ DOMAIN file.dump \subseteq Cells
  /\ \A i \in DOMAIN file.dump : file.dump[i] \in [Kinds -> Entity]

\* A solution can be taken from some cell, and where the index has no kinetics there are none.
IndexHolds(file) ==
  /\ \E j \in Cells : file.index[j]["solution"] # -1
  /\ \A i \in DOMAIN file.dump :
       file.index[i]["kinetics"] = -1 => file.dump[i]["kinetics"] = Nothing

Disk ==
  /\ DOMAIN disk \subseteq FileNames \cup {"temp"}
  /\ \A f \in DOMAIN disk : FileOf(disk[f], clock) /\ IndexHolds(disk[f])

\* The file being written is there, and its index is of the cells of this run.
TempOfRun ==
  /\ pc \in Writing => "temp" \in DOMAIN disk
  /\ pc = "dump" => \A i \in Cells :
       disk["temp"].index[i]["kinetics"] = -1 => input.ic[i]["kinetics"] = "none"

\* No worker has anything of a cell of another worker, or what the input says is not there.
Owned ==
  pc # "none" => \A w \in Worker, i \in Cells, k \in Kinds :
    w # owner[i] \/ input.ic[i][k] = "none" => held[w][i][k] = Nothing

\* The entity that the input names is in the bin and in the worker when its file has been read.
ReadSoFar(i, k) ==
  LET f == input.ic[i][k]
      is == held[owner[i]][i][k]
  IN IF f \notin FileNames THEN bin[i][k] = Nothing /\ (f = "input" => is # Nothing)
     ELSE IF f \in Unread THEN bin[i][k] = Nothing /\ is = Nothing
     ELSE /\ f \in DOMAIN disk
          /\ \E j \in Sources(disk[f], i, k) :
               bin[i][k] = Dumped(disk[f], j, k) /\ is = bin[i][k]

Reading ==
  /\ pc = "restored" => files = <<>>
  /\ pc \in {"read", "restored"} => \A i \in Cells, k \in Kinds : ReadSoFar(i, k)

\* Inductive.
RestoreInv == Bounds /\ Process /\ Disk /\ TempOfRun /\ Owned /\ Reading

\* Some cell is nearest.
LEMMA NearestExists ==
  ASSUME NEW file, NEW t, FileOf(file, t), NEW x \in Nat,
         NEW cells \in SUBSET Cells, cells # {}
  PROVE  Nearest(file, x, cells) # {}
<1>1. \A j \in Cells : file.place[j] \in Nat
  BY DEF FileOf
<1> DEFINE T == {Distance(x, file.place[j]) : j \in cells}
<1>2. T \subseteq Nat /\ T # {}  BY <1>1 DEF Distance
<1>3. PICK d \in T : \A y \in T : d <= y
  <2> HIDE DEF T
  <2> QED  BY <1>2, LeastElement
<1>4. PICK j \in cells : d = Distance(x, file.place[j])  OBVIOUS
<1>5. \A m \in cells : d <= Distance(x, file.place[m])  BY <1>3
<1> HIDE DEF T
<1> QED  BY <1>4, <1>5 DEF Nearest

\* An entity is taken from one of the nearest cells, as it was dumped there.
LEMMA SourceFacts ==
  ASSUME NEW file, NEW t, FileOf(file, t), IndexHolds(file), input \in Inputs,
         NEW i \in Cells, NEW k \in Kinds
  PROVE  /\ Source(file, i, k) \in Sources(file, i, k)
         /\ Source(file, i, k) \in Cells
         /\ Dumped(file, Source(file, i, k), k) \in Entity
         /\ ~ Indexed(file, Source(file, i, k), k)
              => Dumped(file, Source(file, i, k), k) = Nothing
<1>1. input.place[i] \in Nat  OBVIOUS
<1> DEFINE cells == IF k = "solution" THEN {j \in Cells : file.index[j][k] # -1} ELSE Cells
           j == Source(file, i, k)
<1>2. cells \in SUBSET Cells /\ cells # {}  BY DEF IndexHolds
<1>3. Sources(file, i, k) = Nearest(file, input.place[i], cells)  BY DEF Sources
<1>4. j \in Sources(file, i, k)
  <2> HIDE DEF cells
  <2> QED  BY <1>1, <1>2, <1>3, NearestExists DEF Source
<1>5. j \in Cells
  <2> HIDE DEF cells, j
  <2> QED  BY <1>2, <1>3, <1>4 DEF Nearest
<1> HIDE DEF cells, j
<1>6. Dumped(file, j, k) \in Entity  BY DEF Dumped, FileOf, Entity
<1>7. ~ Indexed(file, j, k) => Dumped(file, j, k) = Nothing
  BY DEF Indexed, Dumped, IndexHolds, Kinds
<1> QED  BY <1>4, <1>5, <1>6, <1>7 DEF j

\* The files after one of them has been written, removed or renamed.
LEMMA PutGood ==
  ASSUME NEW file, Put("temp", file), Disk, FileOf(file, clock), IndexHolds(file),
         clock' = clock
  PROVE  Disk'
<1>1. /\ DOMAIN disk' = DOMAIN disk \cup {"temp"} /\ disk'["temp"] = file
      /\ \A g \in DOMAIN disk \ {"temp"} : disk'[g] = disk[g]
  BY PutFacts
<1>2. ASSUME NEW g \in DOMAIN disk' PROVE FileOf(disk'[g], clock') /\ IndexHolds(disk'[g])
  <2>1. CASE g = "temp"  BY <1>1, <2>1
  <2>2. CASE g # "temp"  BY <1>1, <2>2 DEF Disk
  <2> QED  BY <2>1, <2>2
<1> QED  BY <1>1, <1>2 DEF Disk

LEMMA FewerGood ==
  ASSUME DOMAIN disk' \subseteq FileNames \cup {"temp"}, Disk, clock' = clock,
         \A g \in DOMAIN disk' : \E f \in DOMAIN disk : disk'[g] = disk[f]
  PROVE  Disk'
  BY DEF Disk

\* What one worker dumps belongs to its cells.
LEMMA DumpGood ==
  ASSUME RestoreInv, DumpWorker
  PROVE  /\ Disk' /\ TempOfRun'
         /\ pc' \in {"dump", "dumped"}
<1>1. PICK w \in Worker :
        LET range == {i \in Cells : owner[i] = w}
            written == DOMAIN disk["temp"].dump
        IN /\ Put("temp", WithDump(disk["temp"], [i \in written \cup range |->
                IF i \in range THEN held[w][i] ELSE disk["temp"].dump[i]]))
           /\ pc' = IF written \cup range = Cells THEN "dumped" ELSE "dump"
  BY DEF DumpWorker
<1> DEFINE range == {i \in Cells : owner[i] = w}
           old == disk["temp"]
           dump == [i \in DOMAIN old.dump \cup range |->
                      IF i \in range THEN held[w][i] ELSE old.dump[i]]
           file == WithDump(old, dump)
<1>2. /\ pc = "dump" /\ UNCHANGED <<run, process, clock, kept, faults>>
      /\ Put("temp", file) /\ pc' \in {"dump", "dumped"}
  BY <1>1 DEF DumpWorker
<1>3. /\ file.time = old.time /\ file.place = old.place /\ file.index = old.index
      /\ file.dump = dump
  BY DEF WithDump
<1>4. FileOf(old, clock) /\ IndexHolds(old)
  BY <1>2 DEF RestoreInv, TempOfRun, Writing, Disk
<1>5. w \in DOMAIN held /\ held[w] \in [Cells -> [Kinds -> Entity]]
  BY <1>2 DEF RestoreInv, Process
<1>6. \A i \in Cells : old.index[i]["kinetics"] = -1 => held[w][i]["kinetics"] = Nothing
  BY <1>2, <1>5 DEF RestoreInv, TempOfRun, Owned, Kinds
<1>7. /\ DOMAIN dump \subseteq Cells
      /\ \A i \in DOMAIN dump : dump[i] \in [Kinds -> Entity]
      /\ \A i \in DOMAIN dump : old.index[i]["kinetics"] = -1 => dump[i]["kinetics"] = Nothing
  BY <1>4, <1>5, <1>6 DEF FileOf, IndexHolds
<1> HIDE DEF file, dump, old, range
<1>8. FileOf(file, clock) /\ IndexHolds(file)
  BY <1>3, <1>4, <1>7 DEF FileOf, IndexHolds
<1>9. Disk'  BY <1>2, <1>8, PutGood DEF RestoreInv
<1>10. TempOfRun'
  <2>1. DOMAIN disk' = DOMAIN disk \cup {"temp"} /\ disk'["temp"] = file  BY <1>2, PutFacts
  <2>2. input' = input /\ \A i \in Cells :
          file.index[i]["kinetics"] = -1 => input.ic[i]["kinetics"] = "none"
    BY <1>2, <1>3 DEF old, RestoreInv, TempOfRun, process
  <2> QED  BY <2>1, <2>2 DEF TempOfRun
<1> QED  BY <1>2, <1>9, <1>10

\* The steps in which a file is written.
LEMMA WritingSteps ==
  ASSUME RestoreInv,
         WriteIndex \/ DumpWorker \/ BufferLost \/ RemoveBackup \/ RenameOld \/ RenameNew
  PROVE  Disk' /\ TempOfRun' /\ pc' \in Writing \cup {"written"} /\ pc # "none"
<1>1. CASE WriteIndex
  <2> DEFINE file == [time |-> clock, place |-> input.place,
                      index |-> [i \in Cells |-> IndexEntry(i)], dump |-> <<>>]
  <2>1. pc = "stepped" /\ pc' = "dump" /\ UNCHANGED <<process, clock>> /\ Put("temp", file)
    BY <1>1 DEF WriteIndex
  <2>2. \A i \in Cells :
          /\ IndexEntry(i) \in [solution : {1, -1}, kinetics : {1, -1, -100}]
          /\ IndexEntry(i).kinetics = -1 => input.ic[i]["kinetics"] = "none"
          /\ i \in wet => IndexEntry(i).solution # -1
    BY DEF IndexEntry
  <2>3. /\ file.time = clock /\ file.place = input.place /\ file.dump = <<>>
        /\ file.index = [i \in Cells |-> IndexEntry(i)]
    OBVIOUS
  <2> HIDE DEF file
  <2>4. FileOf(file, clock)
    <3>1. clock \in 0 .. clock /\ input \in Inputs  BY DEF RestoreInv, Bounds, Process
    <3>2. file.index \in [Cells -> [solution : {1, -1}, kinetics : {1, -1, -100}]]
      BY <2>2, <2>3
    <3> QED  BY <2>3, <3>1, <3>2 DEF FileOf
  <2>5. IndexHolds(file)
    <3>1. PICK j \in Cells : j \in wet  BY DEF RestoreInv, Process
    <3> QED  BY <2>2, <2>3, <3>1 DEF IndexHolds
  <2>6. Disk'  BY <2>1, <2>4, <2>5, PutGood DEF RestoreInv
  <2>7. TempOfRun'
    <3>1. DOMAIN disk' = DOMAIN disk \cup {"temp"} /\ disk'["temp"] = file
      BY <2>1, PutFacts
    <3>2. input' = input  BY <2>1 DEF process
    <3>3. \A i \in Cells : file.index[i]["kinetics"] = -1 => input.ic[i]["kinetics"] = "none"
      BY <2>2, <2>3
    <3> QED  BY <3>1, <3>2, <3>3 DEF TempOfRun
  <2> QED  BY <2>1, <2>6, <2>7 DEF Writing
<1>2. CASE DumpWorker
  <2>1. pc = "dump"  BY <1>2 DEF DumpWorker
  <2> QED  BY <1>2, <2>1, DumpGood DEF Writing
<1>3. CASE BufferLost
  <2>1. /\ pc = "dumped" /\ pc' = pc /\ UNCHANGED <<process, clock>>
    BY <1>3 DEF BufferLost
  <2>2. PICK count \in Cells : Put("temp", WithDump(disk["temp"],
          [i \in {j \in DOMAIN disk["temp"].dump : j < count} |-> disk["temp"].dump[i]]))
    BY <1>3 DEF BufferLost
  <2> DEFINE old == disk["temp"]
             dump == [i \in {j \in DOMAIN old.dump : j < count} |-> old.dump[i]]
             file == WithDump(old, dump)
  <2>3. FileOf(old, clock) /\ IndexHolds(old)
    BY <2>1 DEF RestoreInv, TempOfRun, Writing, Disk
  <2>4. /\ file.time = old.time /\ file.place = old.place /\ file.index = old.index
        /\ file.dump = dump
    BY DEF WithDump
  <2>5. Put("temp", file)  BY <2>2
  <2>6. DOMAIN dump \subseteq DOMAIN old.dump /\ \A i \in DOMAIN dump : dump[i] = old.dump[i]
    OBVIOUS
  <2> HIDE DEF file, dump, old
  <2>7. FileOf(file, clock) /\ IndexHolds(file)
    BY <2>3, <2>4, <2>6 DEF FileOf, IndexHolds
  <2>8. Disk'  BY <2>1, <2>5, <2>7, PutGood DEF RestoreInv
  <2>9. TempOfRun'
    <3>1. "temp" \in DOMAIN disk'  BY <2>5 DEF Put
    <3> QED  BY <2>1, <3>1 DEF TempOfRun
  <2> QED  BY <2>1, <2>8, <2>9 DEF Writing
<1>4. CASE RemoveBackup
  <2>1. pc = "dumped" /\ pc' = "removed" /\ clock' = clock /\ "temp" \in DOMAIN disk
    BY <1>4 DEF RemoveBackup, RestoreInv, TempOfRun, Writing
  <2>2. /\ DOMAIN disk' \subseteq DOMAIN disk /\ "temp" \in DOMAIN disk'
        /\ \A g \in DOMAIN disk' : disk'[g] = disk[g]
    BY <1>4, <2>1 DEF RemoveBackup, Remove
  <2>3. Disk'  BY <2>1, <2>2, FewerGood DEF RestoreInv, Disk
  <2> QED  BY <2>1, <2>2, <2>3 DEF TempOfRun, Writing
<1>5. CASE RenameOld
  <2>1. pc = "removed" /\ pc' = "renamed" /\ clock' = clock /\ "temp" \in DOMAIN disk
    BY <1>5 DEF RenameOld, RestoreInv, TempOfRun, Writing
  <2>2. CASE "restart" \in DOMAIN disk
    <3>1. /\ DOMAIN disk' = (DOMAIN disk \ {"restart"}) \cup {"backup"}
          /\ disk'["backup"] = disk["restart"]
          /\ \A h \in DOMAIN disk \ {"restart", "backup"} : disk'[h] = disk[h]
      BY <1>5, <2>2, RenameFacts DEF RenameOld
    <3>2. \A g \in DOMAIN disk' : \E f \in DOMAIN disk : disk'[g] = disk[f]
      BY <2>2, <3>1
    <3>3. Disk'  BY <2>1, <3>1, <3>2, FewerGood DEF RestoreInv, Disk, FileNames
    <3> QED  BY <2>1, <3>1, <3>3 DEF TempOfRun, Writing
  <2>3. CASE "restart" \notin DOMAIN disk
    <3>1. disk' = disk  BY <1>5, <2>3 DEF RenameOld
    <3>2. Disk'  BY <2>1, <3>1, FewerGood DEF RestoreInv, Disk
    <3> QED  BY <2>1, <3>1, <3>2 DEF TempOfRun, Writing
  <2> QED  BY <2>2, <2>3
<1>6. CASE RenameNew
  <2>1. pc = "renamed" /\ pc' = "written" /\ clock' = clock /\ "temp" \in DOMAIN disk
    BY <1>6 DEF RenameNew, RestoreInv, TempOfRun, Writing
  <2>2. /\ DOMAIN disk' = (DOMAIN disk \ {"temp"}) \cup {"restart"}
        /\ disk'["restart"] = disk["temp"]
        /\ \A h \in DOMAIN disk \ {"temp", "restart"} : disk'[h] = disk[h]
    BY <1>6, RenameFacts DEF RenameNew
  <2>3. \A g \in DOMAIN disk' : \E f \in DOMAIN disk : disk'[g] = disk[f]
    BY <2>1, <2>2
  <2>4. Disk'  BY <2>1, <2>2, <2>3, FewerGood DEF RestoreInv, Disk, FileNames
  <2> QED  BY <2>1, <2>4 DEF TempOfRun, Writing
<1> QED  BY <1>1, <1>2, <1>3, <1>4, <1>5, <1>6

\* The counters of every step.
LEMMA BoundsNext ==
  ASSUME Bounds, [Next]_vars
  PROVE  Bounds'
<1> USE DEF Bounds, Places, Writing
<1>1. CASE StartRun  BY <1>1 DEF StartRun
<1>2. CASE ReadFile  BY <1>2 DEF ReadFile
<1>3. CASE Restored  BY <1>3 DEF Restored
<1>4. CASE TimeStep  BY <1>4 DEF TimeStep
<1>5. CASE WriteIndex  BY <1>5 DEF WriteIndex
<1>6. CASE DumpWorker
  <2>1. pc' \in {"dump", "dumped"} /\ UNCHANGED <<run, clock, kept, faults>>
    BY <1>6 DEF DumpWorker
  <2> QED  BY <2>1
<1>7. CASE BufferLost
  <2>1. UNCHANGED <<run, pc, clock, kept>> /\ faults < MaxFaults /\ faults' = faults + 1
    BY <1>7 DEF BufferLost
  <2> QED  BY <2>1
<1>8. CASE RemoveBackup  BY <1>8 DEF RemoveBackup
<1>9. CASE RenameOld  BY <1>9 DEF RenameOld
<1>10. CASE RenameNew  BY <1>10 DEF RenameNew
<1>11. CASE Stop  BY <1>11 DEF Stop
<1>12. CASE UNCHANGED vars  BY <1>12 DEF vars
<1> QED
  BY <1>1, <1>2, <1>3, <1>4, <1>5, <1>6, <1>7, <1>8, <1>9, <1>10, <1>11, <1>12 DEF Next

\* The files to be read are those that some condition names.
LEMMA FilesNamed ==
  ASSUME NEW ic
  PROVE  /\ FilesOf(ic) \in Lists
         /\ \A i \in Cells, k \in Kinds :
              ic[i][k] \in FileNames => \E n \in DOMAIN FilesOf(ic) : FilesOf(ic)[n] = ic[i][k]
<1> DEFINE Named(f) == \E i \in Cells, k \in Kinds : ic[i][k] = f
<1>1. FilesOf(ic) = (IF Named("restart") THEN <<"restart">> ELSE <<>>)
                      \o (IF Named("backup") THEN <<"backup">> ELSE <<>>)
  BY DEF FilesOf
<1>2. \A i \in Cells, k \in Kinds :
        /\ ic[i][k] = "restart" => Named("restart")
        /\ ic[i][k] = "backup" => Named("backup")
  OBVIOUS
<1> HIDE DEF Named
<1>3. CASE Named("restart") /\ Named("backup")
  <2>0. <<"restart">> \o <<"backup">> = <<"restart", "backup">>
    <3> DEFINE both == <<"restart">> \o <<"backup">>
    <3>1. both \in Seq(FileNames) /\ Len(both) = 2  BY DEF FileNames
    <3>2. both[1] = "restart" /\ both[2] = "backup"  OBVIOUS
    <3> HIDE DEF both
    <3>3. both = [n \in 1 .. 2 |-> both[n]]  BY <3>1
    <3>4. both = <<both[1], both[2]>>  BY <3>3
    <3> QED  BY <3>2, <3>4 DEF both
  <2>1. FilesOf(ic) = <<"restart", "backup">>  BY <1>1, <1>3, <2>0
  <2>2. /\ FilesOf(ic)[1] = "restart" /\ FilesOf(ic)[2] = "backup"
        /\ {1, 2} \subseteq DOMAIN FilesOf(ic)
    BY <2>1
  <2> QED  BY <2>1, <2>2 DEF Lists, FileNames
<1>4. CASE Named("restart") /\ ~ Named("backup")
  <2>1. FilesOf(ic) = <<"restart">>  BY <1>1, <1>4
  <2>2. FilesOf(ic)[1] = "restart" /\ 1 \in DOMAIN FilesOf(ic)  BY <2>1
  <2> QED  BY <1>2, <1>4, <2>1, <2>2 DEF Lists, FileNames
<1>5. CASE ~ Named("restart") /\ Named("backup")
  <2>1. FilesOf(ic) = <<"backup">>  BY <1>1, <1>5
  <2>2. FilesOf(ic)[1] = "backup" /\ 1 \in DOMAIN FilesOf(ic)  BY <2>1
  <2> QED  BY <1>2, <1>5, <2>1, <2>2 DEF Lists, FileNames
<1>6. CASE ~ Named("restart") /\ ~ Named("backup")
  <2>1. FilesOf(ic) = <<>>  BY <1>1, <1>6
  <2> QED  BY <1>2, <1>6, <2>1 DEF Lists, FileNames
<1> QED  BY <1>3, <1>4, <1>5, <1>6

\* A run starts: nothing has been read, and the workers have what the input defines.
LEMMA StartRunRestores == RestoreInv /\ StartRun => RestoreInv'
<1> SUFFICES ASSUME RestoreInv, StartRun PROVE RestoreInv'  OBVIOUS
<1>0. Bounds'  BY BoundsNext DEF RestoreInv, Next
<1>1. /\ pc' = "read" /\ input' \in Inputs /\ owner' \in Divisions /\ wet' = Cells
      /\ held' = [w \in {owner'[i] : i \in Cells} |-> FromInput(w, input'.ic, owner')]
      /\ bin' = Empty /\ files' = FilesOf(input'.ic) /\ UNCHANGED <<disk, clock>>
  BY DEF StartRun
<1>2. clock \in 0 .. MaxClock  BY DEF RestoreInv, Bounds
<1>3. Worker' = {owner'[i] : i \in Cells}  BY DEF Worker
<1>4. ASSUME NEW w \in Worker', NEW i \in Cells, NEW k \in Kinds
      PROVE  /\ held'[w][i][k] = IF owner'[i] = w /\ input'.ic[i][k] = "input"
                                 THEN <<i, clock>> ELSE Nothing
             /\ held'[w][i][k] \in Entity
  BY <1>1, <1>2, <1>3 DEF FromInput, Entity
<1>5. ASSUME NEW w \in Worker' PROVE held'[w] \in [Cells -> [Kinds -> Entity]]
  <2>1. held'[w] = FromInput(w, input'.ic, owner')  BY <1>1, <1>3
  <2> QED  BY <1>4, <2>1 DEF FromInput
<1>6. Cells # {}
  <2>1. Count \in Nat /\ Count > 3  OBVIOUS
  <2>2. 0 \in Cells  BY <2>1 DEF Cells
  <2> QED  BY <2>2
<1>7. /\ files' \in Lists
      /\ \A i \in Cells, k \in Kinds : input'.ic[i][k] \in FileNames =>
           \E n \in DOMAIN files' : files'[n] = input'.ic[i][k]
  <2>1. PICK ic : ic = input'.ic  OBVIOUS
  <2>2. files' = FilesOf(ic)  BY <1>1, <2>1
  <2> QED  BY <2>1, <2>2, FilesNamed
<1>8. Process'
  <2>1. DOMAIN held' = Worker'  BY <1>1, <1>3
  <2>2. bin' \in [Cells -> [Kinds -> Entity]]  BY <1>1 DEF Empty, Entity
  <2> QED  BY <1>1, <1>5, <1>6, <1>7, <2>1, <2>2 DEF Process
<1>9. Disk' /\ TempOfRun'  BY <1>1 DEF RestoreInv, Disk, TempOfRun, Writing
<1>10. ASSUME NEW w \in Worker', NEW i \in Cells, NEW k \in Kinds,
              w # owner'[i] \/ input'.ic[i][k] = "none"
       PROVE  held'[w][i][k] = Nothing
  BY <1>4, <1>10
<1>11. Owned'  BY <1>10 DEF Owned
<1>12. ASSUME NEW i \in Cells, NEW k \in Kinds PROVE ReadSoFar(i, k)'
  <2> DEFINE f == input'.ic[i][k]
  <2>1. owner'[i] \in Worker'  BY <1>3
  <2>2. bin'[i][k] = Nothing  BY <1>1 DEF Empty
  <2>3. f = "input" => held'[owner'[i]][i][k] # Nothing
    <3>1. f = "input" => held'[owner'[i]][i][k] = <<i, clock>>  BY <1>4, <2>1
    <3>2. <<i, clock>> # Nothing  BY DEF Nothing
    <3> QED  BY <3>1, <3>2
  <2>4. f # "input" => held'[owner'[i]][i][k] = Nothing  BY <1>4, <2>1
  <2>5. f \in FileNames => \E n \in DOMAIN files' : files'[n] = f
    BY <1>7
  <2>6. f \in FileNames => f \in Unread' /\ f # "input"
    BY <2>5 DEF Unread, FileNames
  <2> QED  BY <2>2, <2>3, <2>4, <2>6 DEF ReadSoFar
<1>13. Reading'  BY <1>1, <1>12 DEF Reading
<1> QED  BY <1>0, <1>8, <1>9, <1>11, <1>13 DEF RestoreInv

\* The next file is read.
LEMMA ReadFileRestores == RestoreInv /\ ReadFile => RestoreInv'
<1> SUFFICES ASSUME RestoreInv, ReadFile PROVE RestoreInv'  OBVIOUS
<1>0. Bounds'  BY BoundsNext DEF RestoreInv, Next
<1> DEFINE g == Head(files)
           Taken(i, k) == IF Indexed(disk[g], Source(disk[g], i, k), k)
                          THEN Dumped(disk[g], Source(disk[g], i, k), k) ELSE Nothing
<1>1. /\ pc = "read" /\ pc' = "read" /\ files # <<>> /\ g \in DOMAIN disk
      /\ bin' = [i \in Cells |-> [k \in Kinds |->
           IF input.ic[i][k] = g /\ Taken(i, k) # Nothing THEN Taken(i, k) ELSE bin[i][k]]]
      /\ held' = Distributed(bin') /\ files' = Tail(files)
      /\ UNCHANGED <<input, owner, wet, disk, clock>>
  BY DEF ReadFile
<1>2. /\ input \in Inputs /\ owner \in Divisions /\ DOMAIN held = Worker
      /\ \A w \in Worker : held[w] \in [Cells -> [Kinds -> Entity]]
      /\ bin \in [Cells -> [Kinds -> Entity]] /\ files \in Lists
  BY <1>1 DEF RestoreInv, Process
<1>3. FileOf(disk[g], clock) /\ IndexHolds(disk[g])  BY <1>1 DEF RestoreInv, Disk
<1>4. ASSUME NEW i \in Cells, NEW k \in Kinds
      PROVE  /\ Source(disk[g], i, k) \in Sources(disk[g], i, k)
             /\ Taken(i, k) = Dumped(disk[g], Source(disk[g], i, k), k)
             /\ Taken(i, k) \in Entity
  BY <1>2, <1>3, SourceFacts
<1>5. g \in FileNames /\ Tail(files) \in Lists
      /\ \A f \in FileNames : f \in Unread' <=> f \in Unread /\ f # g
  <2>1. CASE files = <<"restart">>
    BY <1>1, <2>1 DEF Lists, FileNames, Unread
  <2>2. CASE files = <<"backup">>
    BY <1>1, <2>2 DEF Lists, FileNames, Unread
  <2>3. CASE files = <<"restart", "backup">>
    BY <1>1, <2>3 DEF Lists, FileNames, Unread
  <2> QED  BY <1>1, <1>2, <2>1, <2>2, <2>3 DEF Lists
<1>6. g \in Unread
  <2>1. 1 \in DOMAIN files /\ files[1] = g  BY <1>1, <1>2 DEF Lists
  <2> QED  BY <1>5, <2>1 DEF Unread
<1>7. \A i \in Cells, k \in Kinds : ReadSoFar(i, k)  BY <1>1 DEF RestoreInv, Reading
<1> HIDE DEF Taken, g
<1>8. ASSUME NEW i \in Cells, NEW k \in Kinds
      PROVE  /\ bin'[i][k] = IF input.ic[i][k] = g THEN Taken(i, k) ELSE bin[i][k]
             /\ bin'[i][k] \in Entity
             /\ input.ic[i][k] \notin FileNames => bin'[i][k] = Nothing
  <2>1. bin'[i][k] = IF input.ic[i][k] = g /\ Taken(i, k) # Nothing THEN Taken(i, k)
                     ELSE bin[i][k]
    BY <1>1
  <2>2. input.ic[i][k] = g => bin[i][k] = Nothing  BY <1>5, <1>6, <1>7 DEF ReadSoFar
  <2>3. input.ic[i][k] \notin FileNames => bin[i][k] = Nothing  BY <1>7 DEF ReadSoFar
  <2> QED  BY <1>2, <1>4, <1>5, <2>1, <2>2, <2>3
<1>9. Worker' = Worker  BY <1>1 DEF Worker
<1>10. ASSUME NEW w \in Worker, NEW i \in Cells, NEW k \in Kinds
       PROVE  held'[w][i][k] = IF w = owner[i] /\ bin'[i][k] # Nothing THEN bin'[i][k]
                               ELSE IF w = 0 /\ owner[i] # 0 THEN Nothing
                               ELSE held[w][i][k]
  BY <1>1, <1>2 DEF Distributed
<1>11. Process'
  <2>1. DOMAIN held' = Worker  BY <1>1, <1>2 DEF Distributed
  <2>2. ASSUME NEW w \in Worker PROVE held'[w] \in [Cells -> [Kinds -> Entity]]
    <3>1. ASSUME NEW i \in Cells, NEW k \in Kinds PROVE held'[w][i][k] \in Entity
      <4>1. held[w][i][k] \in Entity  BY <1>2
      <4>2. Nothing \in Entity  BY DEF Entity
      <4>3. bin'[i][k] \in Entity  BY <1>8
      <4> QED  BY <1>10, <4>1, <4>2, <4>3
    <3>2. held'[w] = [i \in Cells |-> [k \in Kinds |-> held'[w][i][k]]]
      BY <1>1, <1>2 DEF Distributed
    <3> QED  BY <3>1, <3>2
  <2>3. bin' \in [Cells -> [Kinds -> Entity]]
    <3>1. bin' = [i \in Cells |-> [k \in Kinds |-> bin'[i][k]]]  BY <1>1
    <3> QED  BY <1>8, <3>1
  <2>4. wet' \in (SUBSET Cells) \ {{}}  BY <1>1 DEF RestoreInv, Process
  <2> QED  BY <1>1, <1>2, <1>5, <1>9, <2>1, <2>2, <2>3, <2>4 DEF Process
<1>12. Disk' /\ TempOfRun'  BY <1>1 DEF RestoreInv, Disk, TempOfRun, Writing
<1>13. Owned'
  <2> SUFFICES ASSUME NEW w \in Worker, NEW i \in Cells, NEW k \in Kinds,
                      w # owner[i] \/ input.ic[i][k] = "none"
               PROVE  held'[w][i][k] = Nothing
    BY <1>1, <1>9 DEF Owned
  <2>1. held[w][i][k] = Nothing  BY <1>1 DEF RestoreInv, Owned
  <2>2. input.ic[i][k] = "none" => bin'[i][k] = Nothing  BY <1>8 DEF FileNames
  <2> QED  BY <1>10, <2>1, <2>2
<1>14. ASSUME NEW i \in Cells, NEW k \in Kinds PROVE ReadSoFar(i, k)'
  <2> DEFINE f == input.ic[i][k]
             is == held[owner[i]][i][k]
  <2>1. owner[i] \in Worker  BY DEF Worker
  <2>2. held'[owner[i]][i][k] = IF bin'[i][k] # Nothing THEN bin'[i][k] ELSE is
    BY <1>10, <2>1
  <2>3. CASE f \notin FileNames
    BY <1>1, <1>7, <1>8, <2>2, <2>3 DEF ReadSoFar
  <2>4. CASE f = g
    <3>1. is = Nothing  BY <1>5, <1>6, <1>7, <2>4 DEF ReadSoFar
    <3>2. bin'[i][k] = Taken(i, k) /\ held'[owner[i]][i][k] = bin'[i][k]
      BY <1>8, <2>2, <2>4, <3>1
    <3>3. f \notin Unread' /\ f \in FileNames /\ f \in DOMAIN disk  BY <1>1, <1>5, <2>4
    <3>4. /\ Source(disk[f], i, k) \in Sources(disk[f], i, k)
          /\ bin'[i][k] = Dumped(disk[f], Source(disk[f], i, k), k)
      BY <1>4, <2>4, <3>2
    <3>5. Sources(disk[f], i, k)' = Sources(disk[f], i, k)  BY <1>1 DEF Sources
    <3> QED  BY <1>1, <3>2, <3>3, <3>4, <3>5 DEF ReadSoFar
  <2>5. CASE f \in FileNames /\ f # g
    <3>1. bin'[i][k] = bin[i][k]  BY <1>8, <2>5
    <3>2. f \in Unread' <=> f \in Unread  BY <1>5, <2>5
    <3>3. CASE f \in Unread
      BY <1>1, <1>7, <2>2, <2>5, <3>1, <3>2, <3>3 DEF ReadSoFar
    <3>4. CASE f \notin Unread
      <4>1. PICK j \in Sources(disk[f], i, k) :
              f \in DOMAIN disk /\ bin[i][k] = Dumped(disk[f], j, k) /\ is = bin[i][k]
        BY <1>7, <2>5, <3>4 DEF ReadSoFar
      <4>2. held'[owner[i]][i][k] = bin'[i][k]  BY <2>2, <3>1, <4>1
      <4>3. Sources(disk[f], i, k)' = Sources(disk[f], i, k)  BY <1>1 DEF Sources
      <4> QED  BY <1>1, <2>5, <3>1, <3>2, <3>4, <4>1, <4>2, <4>3 DEF ReadSoFar
    <3> QED  BY <3>3, <3>4
  <2> QED  BY <2>3, <2>4, <2>5
<1>15. Reading'  BY <1>1, <1>14 DEF Reading
<1> QED  BY <1>0, <1>11, <1>12, <1>13, <1>15 DEF RestoreInv
\* The end of a run, and the end of the reading.
LEMMA StopRestores == RestoreInv /\ Stop => RestoreInv'
<1> SUFFICES ASSUME RestoreInv, Stop PROVE RestoreInv'  OBVIOUS
<1>0. Bounds'  BY BoundsNext DEF RestoreInv, Next
<1>1. /\ pc' = "none" /\ held' = <<>> /\ bin' = Empty /\ files' = <<>> /\ wet' = Cells
      /\ UNCHANGED <<input, owner, disk, clock>>
  BY DEF Stop
<1>2. Process'
  <2>1. Count \in Nat /\ Count > 3  OBVIOUS
  <2>2. 0 \in Cells  BY <2>1 DEF Cells
  <2>3. bin' \in [Cells -> [Kinds -> Entity]]  BY <1>1 DEF Empty, Entity
  <2>4. input' \in Inputs /\ owner' \in Divisions  BY <1>1 DEF RestoreInv, Process
  <2>5. DOMAIN held' = {}  BY <1>1
  <2> QED  BY <1>1, <2>2, <2>3, <2>4, <2>5 DEF Process, Lists
<1>3. Disk'  BY <1>1 DEF RestoreInv, Disk
<1>4. TempOfRun' /\ Owned' /\ Reading'  BY <1>1 DEF TempOfRun, Owned, Reading, Writing
<1> QED  BY <1>0, <1>2, <1>3, <1>4 DEF RestoreInv

LEMMA RestoredRestores == RestoreInv /\ Restored => RestoreInv'
<1> SUFFICES ASSUME RestoreInv, Restored PROVE RestoreInv'  OBVIOUS
<1>0. Bounds'  BY BoundsNext DEF RestoreInv, Next
<1>1. /\ pc = "read" /\ pc' = "restored" /\ files = <<>>
      /\ input' = input /\ owner' = owner /\ wet' = wet /\ held' = held /\ bin' = bin
      /\ files' = files /\ disk' = disk /\ clock' = clock
  BY DEF Restored, process
<1>2. Worker' = Worker /\ Unread' = Unread  BY <1>1 DEF Worker, Unread
<1>3. Process'  BY <1>1, <1>2 DEF RestoreInv, Process
<1>4. Disk'  BY <1>1 DEF RestoreInv, Disk
<1>5. TempOfRun'  BY <1>1 DEF TempOfRun, Writing
<1>6. Owned'  BY <1>1, <1>2 DEF RestoreInv, Owned
<1>7. ASSUME NEW i \in Cells, NEW k \in Kinds PROVE ReadSoFar(i, k)'
  <2>1. ReadSoFar(i, k)  BY <1>1 DEF RestoreInv, Reading
  <2>2. input.ic[i][k] \in DOMAIN disk =>
          Sources(disk[input.ic[i][k]], i, k)' = Sources(disk[input.ic[i][k]], i, k)
    BY <1>1 DEF Sources
  <2> QED  BY <1>1, <1>2, <2>1, <2>2 DEF ReadSoFar
<1>8. Reading'  BY <1>1, <1>7 DEF Reading
<1> QED  BY <1>0, <1>3, <1>4, <1>5, <1>6, <1>8 DEF RestoreInv

\* What is not there does not react, and what a file is stays of a step that was.
LEMMA TimeStepRestores == RestoreInv /\ TimeStep => RestoreInv'
<1> SUFFICES ASSUME RestoreInv, TimeStep PROVE RestoreInv'  OBVIOUS
<1>0. Bounds'  BY BoundsNext DEF RestoreInv, Next
<1>1. /\ pc \in {"restored", "stepped", "written"} /\ pc' = "stepped" /\ clock' = clock + 1
      /\ wet' \in WetCells
      /\ held' = [w \in DOMAIN held |-> [i \in Cells |-> [k \in Kinds |->
           IF i \in wet' /\ held[w][i][k] # Nothing THEN <<i, clock'>> ELSE held[w][i][k]]]]
      /\ input' = input /\ owner' = owner /\ bin' = bin /\ files' = files /\ disk' = disk
  BY DEF TimeStep
<1>2. Worker' = Worker  BY <1>1 DEF Worker
<1>3. /\ DOMAIN held = Worker
      /\ \A w \in Worker : held[w] \in [Cells -> [Kinds -> Entity]]
  BY <1>1 DEF RestoreInv, Process
<1>4. clock \in Nat /\ clock' \in 0 .. MaxClock  BY <1>0 DEF RestoreInv, Bounds
<1>5. ASSUME NEW w \in Worker, NEW i \in Cells, NEW k \in Kinds
      PROVE  held'[w][i][k] = IF i \in wet' /\ held[w][i][k] # Nothing THEN <<i, clock'>>
                              ELSE held[w][i][k]
  BY <1>1, <1>3
<1>6. Process'
  <2>1. DOMAIN held' = Worker  BY <1>1, <1>3
  <2>2. ASSUME NEW w \in Worker PROVE held'[w] \in [Cells -> [Kinds -> Entity]]
    <3>1. ASSUME NEW i \in Cells, NEW k \in Kinds PROVE held'[w][i][k] \in Entity
      <4>1. held[w][i][k] \in Entity  BY <1>3
      <4>2. <<i, clock'>> \in Entity  BY <1>4 DEF Entity
      <4> QED  BY <1>5, <4>1, <4>2
    <3>2. held'[w] = [i \in Cells |-> [k \in Kinds |-> held'[w][i][k]]]  BY <1>1, <1>3
    <3> QED  BY <3>1, <3>2
  <2>3. wet' \in (SUBSET Cells) \ {{}}
    <3>1. WetCells \subseteq (SUBSET Cells) \ {{}}  OBVIOUS
    <3> QED  BY <1>1, <3>1
  <2> QED  BY <1>1, <1>2, <2>1, <2>2, <2>3 DEF RestoreInv, Process
<1>7. Disk'
  <2>1. ASSUME NEW f \in DOMAIN disk PROVE FileOf(disk[f], clock + 1) /\ IndexHolds(disk[f])
    <3>1. FileOf(disk[f], clock) /\ IndexHolds(disk[f])  BY DEF RestoreInv, Disk
    <3>2. disk[f].time \in 0 .. (clock + 1)  BY <1>4, <3>1 DEF FileOf
    <3> QED  BY <3>1, <3>2 DEF FileOf
  <2> QED  BY <1>1, <2>1 DEF RestoreInv, Disk
<1>8. TempOfRun' /\ Reading'  BY <1>1 DEF TempOfRun, Reading, Writing
<1>9. Owned'
  <2> SUFFICES ASSUME NEW w \in Worker, NEW i \in Cells, NEW k \in Kinds,
                      w # owner[i] \/ input.ic[i][k] = "none"
               PROVE  held'[w][i][k] = Nothing
    BY <1>1, <1>2 DEF Owned
  <2>1. held[w][i][k] = Nothing  BY <1>1 DEF RestoreInv, Owned
  <2> QED  BY <1>5, <2>1
<1> QED  BY <1>0, <1>6, <1>7, <1>8, <1>9 DEF RestoreInv

LEMMA WritingRestores ==
  ASSUME RestoreInv,
         WriteIndex \/ DumpWorker \/ BufferLost \/ RemoveBackup \/ RenameOld \/ RenameNew
  PROVE  RestoreInv'
<1>0. Bounds'  BY BoundsNext DEF RestoreInv, Next
<1>1. Disk' /\ TempOfRun' /\ pc' \in Writing \cup {"written"} /\ pc # "none"  BY WritingSteps
<1>2. /\ input' = input /\ owner' = owner /\ wet' = wet /\ held' = held /\ bin' = bin
      /\ files' = files
  BY DEF WriteIndex, DumpWorker, BufferLost, RemoveBackup, RenameOld, RenameNew, process
<1>3. Worker' = Worker  BY <1>2 DEF Worker
<1>4. pc' \notin {"none", "read", "restored"}  BY <1>1 DEF Writing
<1>5. Process'  BY <1>1, <1>2, <1>3, <1>4 DEF RestoreInv, Process
<1>6. Owned'  BY <1>1, <1>2, <1>3 DEF RestoreInv, Owned
<1>7. Reading'  BY <1>4 DEF Reading
<1> QED  BY <1>0, <1>1, <1>5, <1>6, <1>7 DEF RestoreInv

LEMMA SameRestores == RestoreInv /\ UNCHANGED vars => RestoreInv'
<1> SUFFICES ASSUME RestoreInv, UNCHANGED vars PROVE RestoreInv'  OBVIOUS
<1>0. Bounds'  BY BoundsNext DEF RestoreInv
<1>1. /\ pc' = pc /\ input' = input /\ owner' = owner /\ wet' = wet /\ held' = held
      /\ bin' = bin /\ files' = files /\ disk' = disk /\ clock' = clock
  BY DEF vars
<1>2. Worker' = Worker /\ Unread' = Unread  BY <1>1 DEF Worker, Unread
<1>3. Process'  BY <1>1, <1>2 DEF RestoreInv, Process
<1>4. Disk'  BY <1>1 DEF RestoreInv, Disk
<1>5. TempOfRun'  BY <1>1 DEF RestoreInv, TempOfRun
<1>6. Owned'  BY <1>1, <1>2 DEF RestoreInv, Owned
<1>7. ASSUME NEW i \in Cells, NEW k \in Kinds, ReadSoFar(i, k) PROVE ReadSoFar(i, k)'
  <2>1. input.ic[i][k] \in DOMAIN disk =>
          Sources(disk[input.ic[i][k]], i, k)' = Sources(disk[input.ic[i][k]], i, k)
    BY <1>1 DEF Sources
  <2> QED  BY <1>1, <1>2, <1>7, <2>1 DEF ReadSoFar
<1>8. Reading'  BY <1>1, <1>7 DEF RestoreInv, Reading
<1> QED  BY <1>0, <1>3, <1>4, <1>5, <1>6, <1>8 DEF RestoreInv

LEMMA InitRestore == Init => RestoreInv
<1> SUFFICES ASSUME Init PROVE RestoreInv  OBVIOUS
<1>1. /\ run = 0 /\ pc = "none" /\ clock = 0 /\ kept = 0 /\ faults = 0
      /\ input \in Inputs /\ owner \in Divisions
      /\ wet = Cells /\ held = <<>> /\ bin = Empty /\ files = <<>> /\ disk = <<>>
  BY DEF Init
<1>2. Bounds
  <2>1. MaxClock \in Nat /\ MaxRuns \in Nat /\ MaxFaults \in Nat  OBVIOUS
  <2> QED  BY <1>1, <2>1 DEF Bounds, Places
<1>3. Process
  <2>1. Count \in Nat /\ Count > 3  OBVIOUS
  <2>2. 0 \in Cells  BY <2>1 DEF Cells
  <2>3. bin \in [Cells -> [Kinds -> Entity]]  BY <1>1 DEF Empty, Entity
  <2>4. DOMAIN held = {}  BY <1>1
  <2> QED  BY <1>1, <2>2, <2>3, <2>4 DEF Process, Lists
<1>4. Disk
  <2>1. DOMAIN disk = {}  BY <1>1
  <2> QED  BY <2>1 DEF Disk
<1>5. TempOfRun /\ Owned /\ Reading  BY <1>1 DEF TempOfRun, Owned, Reading, Writing
<1> QED  BY <1>2, <1>3, <1>4, <1>5 DEF RestoreInv

LEMMA NextRestore == RestoreInv /\ [Next]_vars => RestoreInv'
  BY StartRunRestores, ReadFileRestores, RestoredRestores, TimeStepRestores, WritingRestores,
     StopRestores, SameRestores DEF Next

\* The states of a run have their types: the cells of each worker, the files
\* on the disk and what they hold, over any number of runs.
THEOREM TypeCorrect == Spec => []TypeOK
<1>1. RestoreInv => TypeOK
  <2> SUFFICES ASSUME RestoreInv PROVE TypeOK  OBVIOUS
  <2>1. /\ run \in 0..MaxRuns /\ clock \in 0..MaxClock /\ kept \in 0..clock
        /\ faults \in 0..MaxFaults
        /\ pc \in {"none", "read", "restored", "stepped", "dump", "dumped", "removed",
                   "renamed", "written"}
    BY DEF RestoreInv, Bounds, Places, Writing
  <2>2. \A f \in DOMAIN disk : FileOf(disk[f], clock)  BY DEF RestoreInv, Disk
  <2> QED  BY <2>1, <2>2 DEF RestoreInv, Process, Disk, FileOf, Lists, TypeOK
<1> QED  BY <1>1, InitRestore, NextRestore, PTL DEF Spec

\* After the restart files have been read, the worker that owns a cell, and no
\* other, has each of its entities: as the file has it at the nearest place,
\* or as the input defines it.
THEOREM RestoredAlways == Spec => []RestoredAsSaved
<1>1. RestoreInv => RestoredAsSaved
  <2> SUFFICES ASSUME RestoreInv, pc = "restored", NEW i \in Cells, NEW k \in Kinds
               PROVE  /\ \A w \in Worker \ {owner[i]} : held[w][i][k] = Nothing
                      /\ IF input.ic[i][k] \in FileNames
                         THEN LET file == disk[input.ic[i][k]]
                              IN \E j \in Sources(file, i, k) :
                                   held[owner[i]][i][k] = Dumped(file, j, k)
                         ELSE (held[owner[i]][i][k] = Nothing) <=> (input.ic[i][k] = "none")
    BY DEF RestoredAsSaved
  <2>1. ReadSoFar(i, k) /\ files = <<>>  BY DEF RestoreInv, Reading
  <2>2. Unread = {}  BY <2>1 DEF Unread
  <2>3. owner[i] \in Worker  BY DEF Worker
  <2>4. \A w \in Worker : w # owner[i] \/ input.ic[i][k] = "none" => held[w][i][k] = Nothing
    BY DEF RestoreInv, Owned
  <2>5. CASE input.ic[i][k] \in FileNames  BY <2>1, <2>2, <2>4, <2>5 DEF ReadSoFar
  <2>6. CASE input.ic[i][k] \notin FileNames
    <3>1. input \in Inputs  BY DEF RestoreInv, Process
    <3>2. input.ic[i][k] \in {"none", "input"} \cup FileNames  BY <3>1
    <3>3. input.ic[i][k] = "input" => held[owner[i]][i][k] # Nothing
      BY <2>1, <2>6 DEF ReadSoFar
    <3> QED  BY <2>3, <2>4, <2>6, <3>2, <3>3
  <2> QED  BY <2>5, <2>6
<1> QED  BY <1>1, InitRestore, NextRestore, PTL DEF Spec
=============================================================================
