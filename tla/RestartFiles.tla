---------------------------- MODULE RestartFiles ----------------------------
(***************************************************************************)
(* The restart files of PHAST (threads build): FileHandler::WriteRestart   *)
(* writes a temporary file - the index of the cells, then what each worker *)
(* dumps - and gives it its name when it is finished; a later run, started *)
(* after the end or a crash of the last one, takes the cells its input     *)
(* names from such a file (FileHandler::ProcessRestartFiles).              *)
(*                                                                         *)
(* Only the disk and the clock outlive a run.  An entity of a cell is the  *)
(* pair of the cell and the clock of its last change.  Kinetics stands for *)
(* the six kinds besides the solution; the cells lie on a line.            *)
(***************************************************************************)
EXTENDS Integers, Sequences, FiniteSets, TLC

CONSTANTS
  Count,       \* count_chemistry; a file with an index of fewer than four lines is refused
  Inputs,      \* what the runs may be given: initial conditions and places of the cells
  Divisions,   \* the numbers of cells of the workers, in the order of their ranges
  WetCells,    \* the sets of cells that may hold water at a time
  MaxClock,    \* bound on the time steps, all runs together
  MaxRuns,     \* bound on the runs
  MaxFaults    \* bound on the writes that fail unnoticed

Cells == 0 .. Count-1
Kinds == {"solution", "kinetics"}
FileNames == {"restart", "backup"}  \* *.restart.gz and *.restart.gz~

ASSUME RestartBounds ==
  /\ Count \in Nat \ (0..3) /\ {MaxClock, MaxRuns, MaxFaults} \subseteq Nat
  /\ Inputs \subseteq [ic : [Cells -> [Kinds -> {"none", "input"} \cup FileNames]],
                        place : [Cells -> Nat]]
  /\ \A input \in Inputs, i \in Cells : input.ic[i]["solution"] # "none"
  /\ WetCells \subseteq (SUBSET Cells) \ {{}}
  /\ Divisions # {} /\ Divisions \subseteq [Cells -> Nat]

VARIABLES
  run,     \* the number of the run
  pc,      \* where it is; "none" between runs
  input,   \* .ic: initial_conditions1; .place: where the cells are
  owner,   \* the worker whose range holds each cell
  wet,     \* the cells with a saturation above zero
  held,    \* the entities in each worker's PHREEQC instance
  bin,     \* restart_bin
  files,   \* the restart files not read yet, in the order of RestartFileMap
  disk,    \* the files by their names
  clock,   \* the steps made so far
  kept,    \* the clock of the last whole file that got its name
  faults   \* writes that failed unnoticed

vars == <<run, pc, input, owner, wet, held, bin, files, disk, clock, kept, faults>>
process == <<input, owner, wet, held, bin, files>>

Worker == {owner[i] : i \in Cells}
Nothing == <<>>
Entity == {Nothing} \cup (Cells \X (0..MaxClock))
Empty == [i \in Cells |-> [k \in Kinds |-> Nothing]]

Put(f, file) == disk' = [g \in DOMAIN disk \cup {f} |-> IF g = f THEN file ELSE disk[g]]
Remove(f) == disk' = [g \in DOMAIN disk \ {f} |-> disk[g]]
\* rename() replaces the file that has the new name.
Rename(f, g) ==
  disk' = [h \in (DOMAIN disk \ {f}) \cup {g} |-> IF h = g THEN disk[f] ELSE disk[h]]

----------------------------------------------------------------------------
(* Starting.                                                               *)

Init ==
  /\ run = 0 /\ pc = "none" /\ clock = 0 /\ kept = 0 /\ faults = 0
  /\ input \in Inputs /\ owner \in Divisions
  /\ wet = Cells /\ held = <<>> /\ bin = Empty /\ files = <<>> /\ disk = <<>>

\* What InitialPhreeqc2Module puts into a worker: conditions taken from files are negative numbers.
FromInput(w, conditions, division) ==
  [i \in Cells |-> [k \in Kinds |->
     IF division[i] = w /\ conditions[i][k] = "input" THEN <<i, clock>> ELSE Nothing]]

\* The files that some condition names.
FilesOf(conditions) ==
  LET Named(f) == \E i \in Cells, k \in Kinds : conditions[i][k] = f
  IN (IF Named("restart") THEN <<"restart">> ELSE <<>>)
       \o (IF Named("backup") THEN <<"backup">> ELSE <<>>)

StartRun ==
  /\ pc = "none" /\ run < MaxRuns
  /\ run' = run + 1 /\ pc' = "read"
  /\ input' \in Inputs /\ owner' \in Divisions
  /\ held' = [w \in {owner'[i] : i \in Cells} |-> FromInput(w, input'.ic, owner')]
  /\ bin' = Empty /\ files' = FilesOf(input'.ic) /\ wet' = Cells
  /\ UNCHANGED <<disk, clock, kept, faults>>

\* The end of a run, an abort, or a crash wherever the run is.
Stop ==
  /\ pc # "none" /\ pc' = "none"
  /\ held' = <<>> /\ bin' = Empty /\ files' = <<>> /\ wet' = Cells
  /\ UNCHANGED <<run, input, owner, disk, clock, kept, faults>>

----------------------------------------------------------------------------
(* ProcessRestartFiles.                                                    *)

Distance(x, y) == IF x < y THEN y - x ELSE x - y

\* The cells of the file in a set that are nearest to a place.
Nearest(file, x, cells) ==
  {j \in cells : \A m \in cells : Distance(x, file.place[j]) <= Distance(x, file.place[m])}

\* The cells of the file cell i may take its entity of kind k from: a solution
\* from a cell that was not dry.
Sources(file, i, k) ==
  Nearest(file, input.place[i],
          IF k = "solution" THEN {j \in Cells : file.index[j][k] # -1} ELSE Cells)

\* KDtree::Interpolate3d, which picks one of them.
Source(file, i, k) == CHOOSE j \in Sources(file, i, k) : TRUE

Dumped(file, j, k) == IF j \in DOMAIN file.dump THEN file.dump[j][k] ELSE Nothing

\* The index has the cell with the entity, or it is a solution.
Indexed(file, j, k) == k = "solution" \/ file.index[j][k] # -1

\* Faulty variant: leaves the cells of the others in worker 0.
DistributedCopies(entities) ==
  [w \in DOMAIN held |-> [i \in Cells |-> [k \in Kinds |->
     IF w \in {0, owner[i]} /\ entities[i][k] # Nothing THEN entities[i][k]
     ELSE held[w][i][k]]]]

\* The bin goes to worker 0; what belongs to others is moved on and deleted.
Distributed(entities) ==
  [w \in DOMAIN held |-> [i \in Cells |-> [k \in Kinds |->
     IF w = owner[i] /\ entities[i][k] # Nothing THEN entities[i][k]
     ELSE IF w = 0 /\ owner[i] # 0 THEN Nothing
     ELSE held[w][i][k]]]]

\* Where an entity that should be there is missing, a build with assertions
\* stops (Stop), another goes on without it.
ReadFile ==
  /\ pc = "read" /\ files # <<>> /\ Head(files) \in DOMAIN disk
  /\ LET f == Head(files)
         file == disk[f]
         Taken(i, k) == IF Indexed(file, Source(file, i, k), k)
                        THEN Dumped(file, Source(file, i, k), k) ELSE Nothing
     IN /\ bin' = [i \in Cells |-> [k \in Kinds |->
             IF input.ic[i][k] = f /\ Taken(i, k) # Nothing THEN Taken(i, k) ELSE bin[i][k]]]
        /\ held' = Distributed(bin')
  /\ files' = Tail(files)
  /\ UNCHANGED <<run, pc, input, owner, wet, disk, clock, kept, faults>>

Restored == pc = "read" /\ files = <<>> /\ pc' = "restored"
             /\ UNCHANGED <<run, process, disk, clock, kept, faults>>

----------------------------------------------------------------------------
(* A time step, and the restart file that may be written at its end.       *)

\* The cells with water react; the water table moves.
TimeStep ==
  /\ pc \in {"restored", "stepped", "written"} /\ clock < MaxClock
  /\ pc' = "stepped" /\ clock' = clock + 1
  /\ wet' \in WetCells
  /\ held' = [w \in DOMAIN held |-> [i \in Cells |-> [k \in Kinds |->
               IF i \in wet' /\ held[w][i][k] # Nothing THEN <<i, clock'>> ELSE held[w][i][k]]]]
  /\ UNCHANGED <<run, input, owner, bin, files, disk, kept, faults>>

\* Faulty variant: says 0 where there is nothing.
IndexEntryRaw(i) ==
  [solution |-> IF i \in wet THEN 1 ELSE -1,
   kinetics |-> IF input.ic[i]["kinetics"] = "none" THEN 0 ELSE 1]

\* What the index says of a cell: the saturation, and the number of the initial condition.
IndexEntry(i) ==
  [solution |-> IF i \in wet THEN 1 ELSE -1,
   kinetics |-> CASE input.ic[i]["kinetics"] = "none" -> -1
                  [] input.ic[i]["kinetics"] = "input" -> 1
                  [] OTHER -> -100]

\* gzopen(temp_name, "wb") to gzclose.
WriteIndex ==
  /\ pc = "stepped" /\ pc' = "dump"
  /\ Put("temp", [time |-> clock, place |-> input.place,
             index |-> [i \in Cells |-> IndexEntry(i)], dump |-> <<>>])
  /\ UNCHANGED <<run, process, clock, kept, faults>>

WithDump(file, dump) ==
  [time |-> file.time, place |-> file.place, index |-> file.index, dump |-> dump]

DumpWorker ==
  /\ pc = "dump"
  /\ \E w \in Worker :
       LET range == {i \in Cells : owner[i] = w}
           written == DOMAIN disk["temp"].dump
       IN /\ written = {i \in Cells : owner[i] < w}
          /\ Put("temp", WithDump(disk["temp"], [i \in written \cup range |->
               IF i \in range THEN held[w][i] ELSE disk["temp"].dump[i]]))
          /\ pc' = IF written \cup range = Cells THEN "dumped" ELSE "dump"
  /\ UNCHANGED <<run, process, clock, kept, faults>>

\* The result of gzclose, which writes what is left in its buffer, is not looked at.
BufferLost ==
  /\ pc = "dumped" /\ faults < MaxFaults /\ faults' = faults + 1
  /\ \E count \in Cells : Put("temp", WithDump(disk["temp"],
       [i \in {j \in DOMAIN disk["temp"].dump : j < count} |-> disk["temp"].dump[i]]))
  /\ UNCHANGED <<run, pc, process, clock, kept>>

Whole(f) == f \in DOMAIN disk /\ DOMAIN disk[f].dump = Cells

\* Faulty variant: removes the file that is to become the backup.
RemoveOld ==
  /\ pc = "dumped" /\ pc' = "removed"
  /\ IF {"restart", "backup"} \subseteq DOMAIN disk THEN Remove("restart") ELSE UNCHANGED disk
  /\ UNCHANGED <<run, process, clock, kept, faults>>

\* FileRename, one call of the system at a time.
RemoveBackup ==
  /\ pc = "dumped" /\ pc' = "removed"
  /\ IF {"restart", "backup"} \subseteq DOMAIN disk THEN Remove("backup") ELSE UNCHANGED disk
  /\ UNCHANGED <<run, process, clock, kept, faults>>

RenameOld ==
  /\ pc = "removed" /\ pc' = "renamed"
  /\ IF "restart" \in DOMAIN disk THEN Rename("restart", "backup") ELSE UNCHANGED disk
  /\ UNCHANGED <<run, process, clock, kept, faults>>

RenameNew ==
  /\ pc = "renamed" /\ pc' = "written"
  /\ Rename("temp", "restart")
  /\ kept' = IF Whole("temp") THEN clock ELSE kept
  /\ UNCHANGED <<run, process, clock, faults>>

Next == \/ StartRun \/ ReadFile \/ Restored \/ TimeStep \/ WriteIndex \/ DumpWorker
        \/ BufferLost \/ RemoveBackup \/ RenameOld \/ RenameNew \/ Stop

Spec == Init /\ [][Next]_vars

----------------------------------------------------------------------------
(* What should hold.                                                       *)

TypeOK ==
  /\ run \in 0..MaxRuns /\ clock \in 0..MaxClock /\ kept \in 0..clock /\ faults \in 0..MaxFaults
  /\ pc \in {"none", "read", "restored", "stepped", "dump", "dumped", "removed", "renamed", "written"}
  /\ input \in Inputs /\ owner \in Divisions /\ wet \in (SUBSET Cells) \ {{}}
  /\ DOMAIN held = IF pc = "none" THEN {} ELSE Worker
  /\ \A w \in DOMAIN held : held[w] \in [Cells -> [Kinds -> Entity]]
  /\ bin \in [Cells -> [Kinds -> Entity]]
  /\ files \in {<<>>, <<"restart">>, <<"backup">>, <<"restart", "backup">>}
  /\ DOMAIN disk \subseteq FileNames \cup {"temp"}
  /\ \A f \in DOMAIN disk :
       /\ disk[f].time \in 0..clock /\ disk[f].place \in {p.place : p \in Inputs}
       /\ disk[f].index \in [Cells -> [solution : {1, -1}, kinetics : {1, -1, -100}]]
       /\ DOMAIN disk[f].dump \subseteq Cells
       /\ \A i \in DOMAIN disk[f].dump : disk[f].dump[i] \in [Kinds -> Entity]

KeptWhole == /\ kept > 0 => \E f \in FileNames : Whole(f) /\ disk[f].time >= kept
             /\ \A f \in FileNames \cap DOMAIN disk : Whole(f)

\* Once a whole file has got its name, one of the two names holds all cells as of
\* that write or a later one, and none ever holds part of them, wherever the
\* run is stopped and in every later run; as long as no write fails unnoticed.
LatestKept == faults = 0 => KeptWhole

\* After the restart files have been read, the worker that owns a cell, and no
\* other, has each of its entities: as the file has it at the nearest place,
\* or as the input defines it.
RestoredAsSaved ==
  pc = "restored" => \A i \in Cells, k \in Kinds :
    /\ \A w \in Worker \ {owner[i]} : held[w][i][k] = Nothing
    /\ IF input.ic[i][k] \in FileNames
       THEN LET file == disk[input.ic[i][k]]
            IN \E j \in Sources(file, i, k) : held[owner[i]][i][k] = Dumped(file, j, k)
       ELSE (held[owner[i]][i][k] = Nothing) <=> (input.ic[i][k] = "none")

\* What one would also expect, and does not hold.

\* A write that fails unnoticed leaves the file before it as the backup until
\* the next file has got its name: FileRename removes that backup first.
BackupOutlivesFault ==
  faults <= 1 /\ kept > 0 => \E f \in FileNames : Whole(f)

\* The index of a file says of a cell that it has an entity just when the file
\* has it: the number of the initial condition is -100 or less also where the
\* file read before had nothing for the cell.
IndexTellsContents ==
  \A f \in FileNames \cap DOMAIN disk : \A i \in DOMAIN disk[f].dump :
    (disk[f].index[i]["kinetics"] # -1) <=> (Dumped(disk[f], i, "kinetics") # Nothing)
=============================================================================
