------------------------ MODULE StudyRunner_proofs ------------------------
(***************************************************************************)
(* Proofs about the driver of a study and about what a study is given: the  *)
(* plans of a warmup and its configuration.                                 *)
(*                                                                         *)
(* The driver (StudyRunner), for any number of blocks, any set of profiles   *)
(* and any number of crashes and failed slots: none of its safety properties *)
(* is inductive.  What carries them is that the process and the disk never   *)
(* disagree about finished blocks: whatever a manifest on disk ever listed   *)
(* is in the running process's own list, every block on that list has its    *)
(* whole evidence in place, and at most the block just executed is on the    *)
(* list and not yet on disk.                                                *)
(*                                                                         *)
(* The subjects (Subjects), for any warmup, any calls and limits and any    *)
(* configuration, however it was edited: the place of a sequence in a        *)
(* selection is the rank of its key among the keys of the report, which no  *)
(* reordering changes; a valid configuration lays its slots out as the       *)
(* product of its fixtures, repeats and profiles, each of them once.         *)
(***************************************************************************)
EXTENDS StudyRunner, Subjects, Subsequences_proofs

Running == pc \notin {"new", "idle"}
Saving == pc \in {"save", "write"}

\* Every block on either list has all of its evidence.
Vouched == \A b \in recorded \union mem.completed : Whole(dirs[b])

\* A manifest that can be read lists exactly the blocks ever recorded.
Listed ==
  /\ manifest.completed \subseteq recorded
  /\ Readable(manifest) => recorded \subseteq manifest.completed

\* The process knows every recorded block, and at most the block it has just left
\* behind is not recorded yet.
Remembered ==
  /\ Running => recorded \subseteq mem.completed
  /\ pc = "new" => recorded = {}
  /\ mem.completed \subseteq recorded \union (IF Saving THEN {cur - 1} ELSE {})
  /\ pc = "write" => manifest.status = "torn"

\* The blocks before the current one are finished, and no block has a directory
\* before all those ahead of it are recorded.
InOrder ==
  /\ \A b \in Blocks : b < cur => b \in mem.completed
  /\ \A b, c \in Blocks : Exists(dirs[c]) /\ b < c => b \in recorded

\* What is known of the block under execution.
BlockStage ==
  /\ pc \in {"common", "warmup", "profile"} => cur \in Blocks /\ cur \notin mem.completed
  /\ pc = "common" => ~Exists(dirs[cur])
  /\ pc \in {"warmup", "profile"} => Exists(dirs[cur])
  /\ pc = "profile" => dirs[cur].common

\* The word "complete" is never written before the last block is recorded.
Finished ==
  /\ manifest.status = "complete" => recorded = Blocks
  /\ mem.status = "complete" => recorded = Blocks

Numbered == \A b \in Blocks : dirs[b].attempt <= attempts

IInv ==
  /\ TypeOK /\ Vouched /\ Listed /\ Remembered
  /\ InOrder /\ BlockStage /\ Finished /\ Numbered

-----------------------------------------------------------------------------
(* Types *)

LEMMA FixedManifests == Missing \in Manifest /\ Torn \in Manifest /\ FreshManifest \in Manifest
BY DEF Missing, Torn, FreshManifest, Manifest

\* What the driver does to its manifest keeps it well typed.
LEMMA ManifestUpdates ==
  ASSUME NEW m \in Manifest, NEW b \in Blocks, NEW n \in Nat,
         NEW reason \in {"incomplete", "invalid"}, NEW word \in {"complete", "incomplete"}
  PROVE  /\ [m EXCEPT !.completed = @ \union {b}] \in Manifest
         /\ [m EXCEPT !.failed = @ \union {[block |-> b, attempt |-> n, reason |-> reason]}]
              \in Manifest
         /\ [m EXCEPT !.status = word] \in Manifest
         /\ m.completed \subseteq Blocks
<1>1. [block |-> b, attempt |-> n, reason |-> reason]
        \in [block : Blocks, attempt : Nat, reason : {"incomplete", "invalid"}]
  OBVIOUS
<1> QED BY <1>1 DEF Manifest

\* What a slot does to the directory of its block keeps it well typed.
LEMMA DirUpdates ==
  ASSUME NEW d \in Dir, NEW p \in Profiles
  PROVE  /\ [d EXCEPT !.common = TRUE] \in Dir
         /\ [d EXCEPT !.valid = @ \union {p}] \in Dir
         /\ [d EXCEPT !.invalid = @ \union {p}] \in Dir
         /\ d.attempt \in Nat
BY DEF Dir

LEMMA NoDirType == NoDir \in Dir
BY DEF NoDir, Dir

LEMMA ProcessGoneType ==
  ASSUME ProcessGone
  PROVE  mem' \in Manifest /\ pc' = "idle" /\ after' = "idle" /\ cur' \in 1..(NumBlocks + 1)
BY FixedManifests, RunnerAssumption DEF ProcessGone

\* Every step keeps every variable well typed.
LEMMA StepType ==
  ASSUME TypeOK, BlockStage, [Next]_vars PROVE TypeOK'
<1> USE DEF TypeOK
<1>1. CASE Start
  BY <1>1, FixedManifests DEF Start, disk, counters
<1>2. CASE Resume
  BY <1>2 DEF Resume, disk, counters
<1>3. CASE Truncate
  BY <1>3, FixedManifests DEF Truncate, counters
<1>4. CASE Write
  <2>1. mem.completed \subseteq Blocks
    BY DEF Manifest
  <2>2. mem' \in Manifest /\ pc' \in {"idle", "scan", "conclude"}
        /\ after' \in {"idle", "scan", "conclude"} /\ cur' \in 1..(NumBlocks + 1)
    BY <1>4, ProcessGoneType DEF Write
  <2> QED BY <1>4, <2>1, <2>2 DEF Write
<1>5. CASE SkipBlock
  <2>1. cur \in Blocks
    BY <1>5 DEF SkipBlock, Manifest
  <2>2. cur + 1 \in 1..(NumBlocks + 1)
    BY <2>1, RunnerAssumption DEF Blocks
  <2> QED BY <1>5, <2>2 DEF SkipBlock, disk, counters
<1>6. CASE MoveAside
  <2>1. cur \in Blocks /\ dirs[cur] \in Dir
    BY <1>6 DEF MoveAside
  <2>2. mem' \in Manifest
    BY <1>6, <2>1, ManifestUpdates, DirUpdates DEF MoveAside, Dir
  <2>3. aside' \subseteq [block : Blocks, dir : Dir]
    <3>1. [block |-> cur, dir |-> dirs[cur]] \in [block : Blocks, dir : Dir]
      BY <2>1
    <3> QED BY <1>6, <3>1 DEF MoveAside
  <2>4. dirs' \in [Blocks -> Dir]
    BY <1>6, NoDirType DEF MoveAside
  <2> QED BY <1>6, <2>2, <2>3, <2>4 DEF MoveAside, counters
<1>7. CASE EnterBlock
  BY <1>7 DEF EnterBlock, disk, counters
<1>8. CASE MakeBlock
  <2>1. [attempt |-> attempts + 1, common |-> FALSE, valid |-> {}, invalid |-> {}] \in Dir
    BY DEF Dir
  <2>2. dirs' \in [Blocks -> Dir]
    BY <1>8, <2>1 DEF MakeBlock
  <2>3. attempts' \in Nat
    BY <1>8 DEF MakeBlock
  <2> QED BY <1>8, <2>2, <2>3 DEF MakeBlock
<1>9. CASE CommonReady
  <2>1. cur \in Blocks /\ dirs[cur] \in Dir
    BY <1>9 DEF CommonReady, BlockStage
  <2>2. dirs' = [dirs EXCEPT ![cur] = [dirs[cur] EXCEPT !.common = TRUE]]
    BY <1>9 DEF CommonReady
  <2>3. [dirs[cur] EXCEPT !.common = TRUE] \in Dir
    BY <2>1 DEF Dir
  <2> QED BY <1>9, <2>2, <2>3 DEF CommonReady, counters
<1>10. CASE RunValid
  <2>1. cur \in Blocks /\ dirs[cur] \in Dir
    BY <1>10 DEF RunValid, BlockStage
  <2>2. PICK p \in Profiles : dirs' = [dirs EXCEPT ![cur].valid = @ \union {p}]
    BY <1>10 DEF RunValid
  <2>3. [dirs[cur] EXCEPT !.valid = @ \union {p}] \in Dir
    BY <2>1, DirUpdates
  <2>4. dirs' \in [Blocks -> Dir]
    BY <2>2, <2>3
  <2> QED BY <1>10, <2>4 DEF RunValid, counters
<1>11. CASE RunInvalid
  <2>1. cur \in Blocks /\ dirs[cur] \in Dir
    BY <1>11 DEF RunInvalid, BlockStage
  <2>2. PICK p \in Profiles : dirs' = [dirs EXCEPT ![cur].invalid = @ \union {p}]
    BY <1>11 DEF RunInvalid
  <2>3. [dirs[cur] EXCEPT !.invalid = @ \union {p}] \in Dir
    BY <2>1, DirUpdates
  <2>4. dirs' \in [Blocks -> Dir]
    BY <2>2, <2>3
  <2> QED BY <1>11, <2>4 DEF RunInvalid
<1>12. CASE BlockCompleted
  <2>1. cur \in Blocks
    BY <1>12 DEF BlockCompleted, BlockStage
  <2>2. cur + 1 \in 1..(NumBlocks + 1)
    BY <2>1, RunnerAssumption DEF Blocks
  <2>3. mem' \in Manifest
    BY <1>12, <2>1, ManifestUpdates DEF BlockCompleted
  <2> QED BY <1>12, <2>2, <2>3 DEF BlockCompleted, disk, counters
<1>13. CASE BlockFailed
  <2>1. cur \in Blocks /\ dirs[cur].attempt \in Nat
    BY <1>13 DEF BlockFailed, BlockStage, Dir
  <2>2. mem' \in Manifest
    BY <1>13, <2>1, ManifestUpdates DEF BlockFailed
  <2> QED BY <1>13, <2>2 DEF BlockFailed, disk, counters
<1>14. CASE AllBlocksReached
  BY <1>14 DEF AllBlocksReached, disk, counters
<1>15. CASE Conclude
  <2>1. mem' \in Manifest
    BY <1>15 DEF Conclude, Manifest
  <2> QED BY <1>15, <2>1 DEF Conclude, disk, counters
<1>16. CASE Abort
  BY <1>16, ProcessGoneType DEF Abort, disk
<1>17. CASE UNCHANGED vars
  BY <1>17 DEF vars, disk, counters
<1> QED
  BY <1>1, <1>2, <1>3, <1>4, <1>5, <1>6, <1>7, <1>8, <1>9, <1>10, <1>11, <1>12, <1>13,
     <1>14, <1>15, <1>16, <1>17 DEF Next, Process

-----------------------------------------------------------------------------
(* The invariant *)

\* The first state satisfies the invariant.
LEMMA InitInv == Init => IInv
<1> SUFFICES ASSUME Init PROVE IInv
  OBVIOUS
<1>1. TypeOK
  BY FixedManifests, NoDirType, RunnerAssumption DEF Init, TypeOK
<1>2. Vouched /\ Listed /\ Remembered /\ Finished
  BY DEF Init, Vouched, Listed, Remembered, Finished, Running, Saving, Missing, Readable
<1>3. InOrder /\ BlockStage /\ Numbered
  BY RunnerAssumption DEF Init, InOrder, BlockStage, Numbered, Blocks, Exists, NoDir
<1> QED BY <1>1, <1>2, <1>3 DEF IInv

\* The disk, the process and the blocks agree after every step as they did before.
LEMMA StepInv == IInv /\ [Next]_vars => IInv'
<1> SUFFICES ASSUME IInv, [Next]_vars PROVE IInv'
  OBVIOUS
<1> USE RunnerAssumption DEF IInv
<1>0. TypeOK /\ TypeOK'
  BY StepType
<1>1. CASE Start
  <2>1. Vouched' /\ Listed'
    BY <1>1 DEF Start, Vouched, Listed, FreshManifest, disk, counters, Remembered
  <2>2. Remembered' /\ Finished'
    BY <1>1 DEF Start, Remembered, Finished, Running, Saving, disk, counters, FreshManifest
  <2>3. InOrder' /\ BlockStage' /\ Numbered'
    BY <1>1 DEF Start, InOrder, BlockStage, Numbered, disk, counters, TypeOK, Blocks,
       Remembered, Saving, FreshManifest
  <2> QED BY <1>0, <2>1, <2>2, <2>3
<1>2. CASE Resume
  <2>1. Vouched' /\ Listed'
    BY <1>2 DEF Resume, Vouched, Listed, disk, counters
  <2>2. Remembered' /\ Finished'
    BY <1>2 DEF Resume, Remembered, Finished, Running, Saving, disk, counters, Listed
  <2>3. InOrder' /\ BlockStage' /\ Numbered'
    BY <1>2 DEF Resume, InOrder, BlockStage, Numbered, disk, counters, Remembered, Listed,
       Blocks, TypeOK, Saving
  <2> QED BY <1>0, <2>1, <2>2, <2>3
<1>3. CASE Truncate
  <2>1. Vouched' /\ Listed'
    BY <1>3 DEF Truncate, Vouched, Listed, disk, counters, Torn, Readable
  <2>2. Remembered' /\ Finished'
    BY <1>3 DEF Truncate, Remembered, Finished, Running, Saving, disk, counters, Torn
  <2>3. InOrder' /\ BlockStage' /\ Numbered'
    BY <1>3 DEF Truncate, InOrder, BlockStage, Numbered, disk, counters
  <2> QED BY <1>0, <2>1, <2>2, <2>3
<1>4. CASE Write
  <2>1. /\ manifest' = mem /\ dirs' = dirs /\ attempts' = attempts
        /\ recorded' = recorded \union mem.completed
    BY <1>4 DEF Write
  <2>2. \/ mem' = mem /\ cur' = cur /\ pc' \in {"scan", "conclude"}
        \/ mem' = Missing /\ cur' = 1 /\ pc' = "idle"
    BY <1>4 DEF Write, ProcessGone, TypeOK
  <2>3. recorded \subseteq mem.completed /\ recorded' = mem.completed /\ recorded' \subseteq Blocks
    BY <1>4, <2>1 DEF Write, Remembered, Running, TypeOK, Manifest
  <2>4. mem'.completed \subseteq recorded'
    BY <2>2, <2>3 DEF Missing
  <2>5. Vouched' /\ Listed'
    BY <2>1, <2>3, <2>4 DEF Vouched, Listed, Whole, Exists, Readable
  <2>6. Remembered'
    BY <2>2, <2>3, <2>4 DEF Remembered, Running, Saving
  <2>7. Finished'
    BY <2>1, <2>2, <2>3 DEF Finished, Missing
  <2>8. InOrder' /\ BlockStage' /\ Numbered'
    BY <2>1, <2>2 DEF InOrder, BlockStage, Numbered, Exists, Missing, Blocks, TypeOK
  <2> QED BY <1>0, <2>5, <2>6, <2>7, <2>8
<1>5. CASE SkipBlock
  <2>1. Vouched' /\ Listed'
    BY <1>5 DEF SkipBlock, Vouched, Listed, disk, counters
  <2>2. Remembered' /\ Finished'
    BY <1>5 DEF SkipBlock, Remembered, Finished, Running, Saving, disk, counters
  <2>3. InOrder' /\ BlockStage' /\ Numbered'
    BY <1>5 DEF SkipBlock, InOrder, BlockStage, Numbered, disk, counters, TypeOK, Blocks
  <2> QED BY <1>0, <2>1, <2>2, <2>3
<1>6. CASE MoveAside
  <2>1. /\ cur \in Blocks /\ cur \notin mem.completed /\ cur \notin recorded
        /\ dirs' = [dirs EXCEPT ![cur] = NoDir] /\ dirs \in [Blocks -> Dir]
        /\ manifest' = manifest /\ recorded' = recorded /\ mem'.completed = mem.completed
    BY <1>6 DEF MoveAside, Remembered, Running, TypeOK, Manifest, counters
  <2>2. Vouched' /\ Listed'
    BY <2>1, <1>0 DEF Vouched, Listed, TypeOK, Manifest, Whole, Exists
  <2>3. Remembered' /\ Finished'
    BY <1>6 DEF MoveAside, Remembered, Finished, Running, Saving, TypeOK, Manifest, counters
  <2>4. InOrder' /\ BlockStage' /\ Numbered'
    BY <1>6, <2>1 DEF MoveAside, InOrder, BlockStage, Numbered, NoDir, Exists, TypeOK, counters
  <2> QED BY <1>0, <2>2, <2>3, <2>4
<1>7. CASE EnterBlock
  <2>1. Vouched' /\ Listed'
    BY <1>7 DEF EnterBlock, Vouched, Listed, disk, counters
  <2>2. Remembered' /\ Finished'
    BY <1>7 DEF EnterBlock, Remembered, Finished, Running, Saving, disk, counters
  <2>3. InOrder' /\ BlockStage' /\ Numbered'
    BY <1>7 DEF EnterBlock, InOrder, BlockStage, Numbered, disk, counters
  <2> QED BY <1>0, <2>1, <2>2, <2>3
<1>8. CASE MakeBlock
  <2>1. Vouched' /\ Listed'
    BY <1>8 DEF MakeBlock, Vouched, Listed, disk, counters, Remembered, Running,
       BlockStage, Exists, Whole, TypeOK, Dir
  <2>2. Remembered' /\ Finished'
    BY <1>8 DEF MakeBlock, Remembered, Finished, Running, Saving, disk, counters
  <2>3. InOrder' /\ BlockStage' /\ Numbered'
    BY <1>8 DEF MakeBlock, InOrder, BlockStage, Numbered, disk, counters, Exists,
       Remembered, Running, Saving, Blocks, TypeOK, Dir
  <2> QED BY <1>0, <2>1, <2>2, <2>3
<1>9. CASE CommonReady
  <2>1. Vouched' /\ Listed'
    BY <1>9 DEF CommonReady, Vouched, Listed, disk, counters, Exists, Whole, TypeOK, Dir
  <2>2. Remembered' /\ Finished'
    BY <1>9 DEF CommonReady, Remembered, Finished, Running, Saving, disk, counters
  <2>3. InOrder' /\ BlockStage' /\ Numbered'
    BY <1>9 DEF CommonReady, InOrder, BlockStage, Numbered, disk, counters, Exists, TypeOK, Dir
  <2> QED BY <1>0, <2>1, <2>2, <2>3
<1>10. CASE RunValid
  <2>1. Vouched' /\ Listed'
    BY <1>10 DEF RunValid, Vouched, Listed, disk, counters, BlockStage, Remembered,
       Running, Exists, Whole, TypeOK, Dir
  <2>2. Remembered' /\ Finished'
    BY <1>10 DEF RunValid, Remembered, Finished, Running, Saving, disk, counters
  <2>3. InOrder' /\ BlockStage' /\ Numbered'
    BY <1>10 DEF RunValid, InOrder, BlockStage, Numbered, disk, counters, Exists, TypeOK, Dir
  <2> QED BY <1>0, <2>1, <2>2, <2>3
<1>11. CASE RunInvalid
  <2>1. Vouched' /\ Listed'
    BY <1>11 DEF RunInvalid, Vouched, Listed, disk, counters, BlockStage, Remembered,
       Running, Exists, Whole, TypeOK, Dir
  <2>2. Remembered' /\ Finished'
    BY <1>11 DEF RunInvalid, Remembered, Finished, Running, Saving, disk, counters
  <2>3. InOrder' /\ BlockStage' /\ Numbered'
    BY <1>11 DEF RunInvalid, InOrder, BlockStage, Numbered, disk, counters, Exists, TypeOK, Dir
  <2> QED BY <1>0, <2>1, <2>2, <2>3
<1>12. CASE BlockCompleted
  <2>1. Vouched' /\ Listed'
    BY <1>12 DEF BlockCompleted, Vouched, Listed, disk, counters, BlockStage, Whole,
       Executed, TypeOK, Manifest, Dir
  <2>2. Remembered' /\ Finished'
    BY <1>12 DEF BlockCompleted, Remembered, Finished, Running, Saving, disk, counters,
       BlockStage, TypeOK, Manifest
  <2>3. InOrder' /\ BlockStage' /\ Numbered'
    BY <1>12 DEF BlockCompleted, InOrder, BlockStage, Numbered, disk, counters, TypeOK,
       Manifest, Blocks
  <2> QED BY <1>0, <2>1, <2>2, <2>3
<1>13. CASE BlockFailed
  <2>1. Vouched' /\ Listed'
    BY <1>13 DEF BlockFailed, Vouched, Listed, disk, counters, TypeOK, Manifest
  <2>2. Remembered' /\ Finished'
    BY <1>13 DEF BlockFailed, Remembered, Finished, Running, Saving, disk, counters,
       TypeOK, Manifest
  <2>3. InOrder' /\ BlockStage' /\ Numbered'
    BY <1>13 DEF BlockFailed, InOrder, BlockStage, Numbered, disk, counters, TypeOK, Manifest
  <2> QED BY <1>0, <2>1, <2>2, <2>3
<1>14. CASE AllBlocksReached
  <2>1. Vouched' /\ Listed'
    BY <1>14 DEF AllBlocksReached, Vouched, Listed, disk, counters
  <2>2. Remembered' /\ Finished'
    BY <1>14 DEF AllBlocksReached, Remembered, Finished, Running, Saving, disk, counters
  <2>3. InOrder' /\ BlockStage' /\ Numbered'
    BY <1>14 DEF AllBlocksReached, InOrder, BlockStage, Numbered, disk, counters
  <2> QED BY <1>0, <2>1, <2>2, <2>3
<1>15. CASE Conclude
  <2>1. /\ mem.completed \subseteq Blocks /\ mem'.completed = mem.completed
        /\ mem.completed \subseteq recorded /\ recorded \subseteq Blocks
        /\ mem'.status = "complete" => ValidResults = Blocks \X Profiles
        /\ dirs' = dirs /\ manifest' = manifest /\ recorded' = recorded
        /\ cur' = cur /\ attempts' = attempts
    BY <1>15 DEF Conclude, TypeOK, Manifest, Remembered, Saving, disk, counters
  <2>2. ValidResults = Blocks \X Profiles => mem.completed = Blocks
    <3> SUFFICES ASSUME ValidResults = Blocks \X Profiles, NEW b \in Blocks
                 PROVE  b \in mem.completed
      BY <2>1
    <3>1. PICK p \in Profiles : TRUE
      OBVIOUS
    <3>2. <<b, p>> \in ValidResults
      BY <3>1
    <3> QED BY <3>2 DEF ValidResults
  <2>3. Finished'
    BY <2>1, <2>2 DEF Finished
  <2>4. Remembered'
    BY <1>15, <2>1 DEF Conclude, Remembered, Running, Saving
  <2>5. Vouched' /\ Listed'
    BY <2>1 DEF Vouched, Listed, Whole, Exists
  <2>6. InOrder' /\ BlockStage' /\ Numbered'
    BY <1>15, <2>1 DEF Conclude, InOrder, BlockStage, Numbered, Exists
  <2> QED BY <1>0, <2>3, <2>4, <2>5, <2>6
<1>16. CASE Abort
  <2>1. Vouched' /\ Listed'
    BY <1>16 DEF Abort, Vouched, Listed, disk, counters, ProcessGone, Missing
  <2>2. Remembered' /\ Finished'
    BY <1>16 DEF Abort, Remembered, Finished, Running, Saving, disk, counters,
       ProcessGone, Missing
  <2>3. InOrder' /\ BlockStage' /\ Numbered'
    BY <1>16 DEF Abort, InOrder, BlockStage, Numbered, disk, counters, ProcessGone,
       Missing, Blocks, TypeOK
  <2> QED BY <1>0, <2>1, <2>2, <2>3
<1>17. CASE UNCHANGED vars
  BY <1>17 DEF vars, disk, counters, TypeOK, Vouched, Listed, Remembered, InOrder, BlockStage,
     Finished, Numbered, Running, Saving
<1> QED
  BY <1>1, <1>2, <1>3, <1>4, <1>5, <1>6, <1>7, <1>8, <1>9, <1>10, <1>11, <1>12, <1>13,
     <1>14, <1>15, <1>16, <1>17 DEF Next, Process

-----------------------------------------------------------------------------
(* Theorems *)

\* The driver keeps its invariant, wherever processes die and slots fail.
THEOREM RunnerInvariant == Spec => []IInv
<1>1. IInv /\ [Next]_vars => IInv'
  BY StepInv
<1> QED BY InitInv, <1>1, PTL DEF Spec

\* The driver's state stays well typed.
THEOREM RunnerTypeCorrect == Spec => []TypeOK
<1>1. IInv => TypeOK
  BY DEF IInv
<1> QED BY RunnerInvariant, <1>1, PTL

\* A manifest that says "complete" stands for a matrix every slot of which was
\* executed and is evaluation-valid, for any number of blocks and crashes.
THEOREM CompleteStudiesAreWhole == Spec => []CompleteMeansWhole
<1>1. IInv => CompleteMeansWhole
  BY DEF IInv, Vouched, Finished, CompleteMeansWhole
<1> QED BY RunnerInvariant, <1>1, PTL

\* Every block a written manifest ever listed as completed has its evidence.
THEOREM RecordedBlocksBacked == Spec => []RecordedBacked
<1>1. IInv => RecordedBacked
  BY DEF IInv, Vouched, Listed, RecordedBacked
<1> QED BY RunnerInvariant, <1>1, PTL

\* At most one block directory is not vouched for by the manifest.
THEOREM OneBlockOpen == Spec => []OneOpenBlock
<1>1. IInv => OneOpenBlock
  BY RunnerAssumption DEF IInv, InOrder, OneOpenBlock, Blocks
<1> QED BY RunnerInvariant, <1>1, PTL

\* A step leaves alone the directories of the blocks that were recorded.
LEMMA RecordedDirsKept ==
  ASSUME IInv, [Next]_vars, NEW b \in recorded PROVE dirs'[b] = dirs[b]
<1> USE DEF IInv
<1>1. CASE MoveAside \/ MakeBlock \/ CommonReady \/ RunValid \/ RunInvalid
  <2>1. b # cur
    BY <1>1 DEF MoveAside, MakeBlock, CommonReady, RunValid, RunInvalid,
                Remembered, BlockStage, Running
  <2>2. b \in Blocks
    BY DEF TypeOK
  <2> QED
    BY <1>1, <2>1, <2>2 DEF MoveAside, MakeBlock, CommonReady, RunValid, RunInvalid, TypeOK
<1>2. CASE dirs' = dirs
  BY <1>2
<1> QED
  BY <1>1, <1>2 DEF Next, Process, vars, disk, Start, Resume, Truncate, Write, SkipBlock,
     EnterBlock, BlockCompleted, BlockFailed, AllBlocksReached, Conclude, Abort

\* No later run touches a block that was recorded as completed.
THEOREM RecordedBlocksUntouched == Spec => RecordedBlocksStay
<1>1. IInv /\ [Next]_vars => [\A b \in recorded : dirs'[b] = dirs[b]]_vars
  BY RecordedDirsKept
<1> QED BY RunnerInvariant, <1>1, PTL DEF Spec, RecordedBlocksStay

\* A directory that a step changes is only added to, and one it moves stays whole.
LEMMA HeldDirsKept ==
  ASSUME IInv, [Next]_vars, NEW d \in Held, Exists(d)
  PROVE  \E e \in Held' : /\ e.attempt = d.attempt /\ (d.common => e.common)
                          /\ d.valid \subseteq e.valid /\ d.invalid \subseteq e.invalid
<1> USE DEF IInv
<1>1. CASE \E a \in aside : d = a.dir
  <2>1. aside \subseteq aside'
    BY DEF Next, Process, vars, disk, Start, Resume, Truncate, Write, SkipBlock, MoveAside,
       EnterBlock, MakeBlock, CommonReady, RunValid, RunInvalid, BlockCompleted, BlockFailed,
       AllBlocksReached, Conclude, Abort
  <2> QED BY <1>1, <2>1 DEF Held
<1>2. ASSUME NEW b \in Blocks, d = dirs[b] PROVE
         \/ \E a \in aside' : a.dir = d
         \/ /\ dirs'[b].attempt = d.attempt /\ (d.common => dirs'[b].common)
            /\ d.valid \subseteq dirs'[b].valid /\ d.invalid \subseteq dirs'[b].invalid
  <2>1. CASE MoveAside
    <3>1. CASE b = cur
      <4>1. [block |-> b, dir |-> d] \in aside'
        BY <1>2, <2>1, <3>1 DEF MoveAside
      <4> QED BY <4>1
    <3>2. CASE b # cur
      BY <1>2, <2>1, <3>2 DEF MoveAside, TypeOK
    <3> QED BY <3>1, <3>2
  <2>2. CASE MakeBlock
    BY <1>2, <2>2 DEF MakeBlock, BlockStage, TypeOK
  <2>3. CASE CommonReady \/ RunValid \/ RunInvalid
    BY <1>2, <2>3 DEF CommonReady, RunValid, RunInvalid, TypeOK, Dir
  <2>4. CASE dirs' = dirs
    BY <1>2, <2>4
  <2> QED
    BY <2>1, <2>2, <2>3, <2>4 DEF Next, Process, vars, disk, Start, Resume, Truncate, Write,
       SkipBlock, EnterBlock, BlockCompleted, BlockFailed, AllBlocksReached, Conclude, Abort
<1> QED BY <1>1, <1>2 DEF Held

\* What an execution recorded is never lost: it stays or is moved aside.
THEOREM EvidenceIsKept == Spec => EvidenceKept
<1>1. IInv /\ [Next]_vars =>
        [\A d \in Held : Exists(d) => \E e \in Held' :
           /\ e.attempt = d.attempt /\ (d.common => e.common)
           /\ d.valid \subseteq e.valid /\ d.invalid \subseteq e.invalid]_vars
  BY HeldDirsKept
<1> QED BY RunnerInvariant, <1>1, PTL DEF Spec, EvidenceKept

\* Moving a directory aside, and filling one in, changes no attempt.
LEMMA SameEvidence ==
  ASSUME IInv, MoveAside \/ CommonReady \/ RunValid \/ RunInvalid
  PROVE  Evidence' = Evidence
<1> USE DEF IInv, TypeOK
<1>1. CASE MoveAside
  <2> DEFINE moved == [block |-> cur, dir |-> dirs[cur]]
             standing == {<<b, dirs[b].attempt>> : b \in {x \in Blocks : Exists(dirs[x])}}
             gone == {<<a.block, a.dir.attempt>> : a \in aside}
  <2>1. /\ cur \in Blocks /\ Exists(dirs[cur]) /\ aside' = aside \union {moved}
        /\ dirs' = [dirs EXCEPT ![cur] = NoDir]
    BY <1>1 DEF MoveAside
  <2>2. ~Exists(dirs'[cur]) /\ \A b \in Blocks : b # cur => dirs'[b] = dirs[b]
    BY <2>1 DEF NoDir, Exists
  <2>3. standing = standing' \union {<<cur, dirs[cur].attempt>>}
    BY <2>1, <2>2 DEF Exists
  <2>4. gone' = gone \union {<<cur, dirs[cur].attempt>>}
    <3>1. moved.block = cur /\ moved.dir = dirs[cur]
      OBVIOUS
    <3>2. gone' = {<<a.block, a.dir.attempt>> : a \in aside \union {moved}}
      BY <2>1
    <3> HIDE DEF moved
    <3>3. ASSUME NEW x PROVE x \in gone' <=> x \in gone \union {<<cur, dirs[cur].attempt>>}
      BY <3>1, <3>2
    <3> QED BY <3>3
  <2>5. Evidence = standing \union gone /\ Evidence' = standing' \union gone'
    BY DEF Evidence
  <2> HIDE DEF standing, gone
  <2> QED BY <2>3, <2>4, <2>5
<1>2. CASE CommonReady \/ RunValid \/ RunInvalid
  <2>1. aside' = aside /\ \A b \in Blocks : dirs'[b].attempt = dirs[b].attempt
    BY <1>2 DEF CommonReady, RunValid, RunInvalid, Dir
  <2> QED BY <2>1 DEF Evidence, Exists
<1> QED BY <1>1, <1>2

\* Making a directory is one attempt.
LEMMA NewEvidence ==
  ASSUME IInv, MakeBlock
  PROVE  Evidence' = Evidence \union {<<cur, attempts + 1>>}
<1>1. /\ cur \in Blocks /\ ~Exists(dirs[cur]) /\ aside' = aside /\ attempts + 1 # 0
      /\ \A b \in Blocks : b # cur => dirs'[b] = dirs[b]
      /\ dirs'[cur].attempt = attempts + 1
  BY DEF IInv, MakeBlock, BlockStage, TypeOK
<1> QED BY <1>1 DEF Evidence, Exists

\* Every step of the driver is a step the promise allows, or none.
LEMMA StepKeepsPromise == IInv /\ IInv' /\ [Next]_vars => [Promise!Next]_(Promise!vars)
<1> SUFFICES ASSUME IInv, IInv', [Next]_vars PROVE Promise!Next \/ UNCHANGED Promise!vars
  OBVIOUS
<1> USE DEF IInv
<1>1. CASE MoveAside \/ CommonReady \/ RunValid \/ RunInvalid
  <2>1. Evidence' = Evidence
    BY <1>1, SameEvidence
  <2>2. manifest' = manifest /\ recorded' = recorded /\ attempts' = attempts
    BY <1>1 DEF MoveAside, CommonReady, RunValid, RunInvalid, counters
  <2> QED BY <2>1, <2>2 DEF Promise!vars
<1>2. CASE MakeBlock
  <2>1. cur \in Blocks /\ cur \notin recorded
    BY <1>2 DEF MakeBlock, BlockStage, Remembered, Running
  <2>2. Evidence' = Evidence \union {<<cur, attempts + 1>>}
    BY <1>2, NewEvidence
  <2>3. Promise!Attempt(cur)
    <3>1. attempts' = attempts + 1 /\ manifest' = manifest /\ recorded' = recorded
      BY <1>2 DEF MakeBlock
    <3> QED BY <2>1, <2>2, <3>1 DEF Promise!Attempt
  <2>4. \E b \in Blocks : Promise!FinishBlock(b) \/ Promise!Attempt(b)
    BY <2>1, <2>3
  <2> QED BY <2>4 DEF Promise!Next
<1>3. CASE Truncate
  <2>1. Promise!Reopen
    BY <1>3 DEF Truncate, Torn, counters, Evidence, Promise!Reopen
  <2> QED BY <2>1 DEF Promise!Next
<1>4. CASE Write
  <2>1. /\ manifest' = mem /\ manifest.status = "torn" /\ recorded' = mem.completed
        /\ attempts' = attempts /\ Evidence' = Evidence /\ recorded \subseteq mem.completed
        /\ mem.completed \subseteq recorded \union {cur - 1}
    BY <1>4 DEF Write, Remembered, Running, Saving, Evidence
  <2>2. CASE recorded' = recorded
    <3>1. CASE mem.status = "complete"
      <4>1. Promise!Declare
        BY <2>1, <2>2, <3>1 DEF Promise!Declare, Finished
      <4> QED BY <4>1 DEF Promise!Next
    <3>2. CASE mem.status # "complete"
      BY <2>1, <2>2, <3>2 DEF Promise!vars
    <3> QED BY <3>1, <3>2
  <2>3. CASE recorded' # recorded
    <3>1. /\ cur - 1 \in Blocks /\ cur - 1 \notin recorded
          /\ recorded' = recorded \union {cur - 1}
      BY <2>1, <2>3 DEF TypeOK, Manifest
    <3>2. mem.status # "complete"
      BY <3>1 DEF Finished
    <3>3. Exists(dirs[cur - 1])
      BY <2>1, <3>1 DEF Vouched, Whole
    <3>4. <<cur - 1, dirs[cur - 1].attempt>> \in Evidence
      BY <3>1, <3>3 DEF Evidence
    <3>5. dirs[cur - 1].attempt \in 1..attempts
      BY <3>1, <3>3 DEF Exists, Numbered, TypeOK, Dir
    <3>6. Promise!FinishBlock(cur - 1)
      BY <2>1, <3>1, <3>2, <3>4, <3>5 DEF Promise!FinishBlock
    <3> QED BY <3>1, <3>6 DEF Promise!Next
  <2> QED BY <2>2, <2>3
<1>5. CASE UNCHANGED <<disk, attempts, recorded>>
  BY <1>5 DEF disk, Evidence, Promise!vars
<1> QED
  BY <1>1, <1>2, <1>3, <1>4, <1>5 DEF Next, Process, vars, counters, Start, Resume, SkipBlock,
     EnterBlock, BlockCompleted, BlockFailed, AllBlocksReached, Conclude, Abort

\* The driver of study_runner.py implements PairedStudy: blocks finish for good,
\* no attempt disappears, and "complete" is said only of a finished study.
THEOREM RunnerKeepsPromise == Spec => KeepsPromise
<1>1. Init => Promise!Init
  BY DEF Init, Promise!Init, Missing, NoDir, Exists, Evidence
<1>2. IInv /\ [Next]_vars => IInv'
  BY StepInv
<1> QED
  BY RunnerInvariant, StepKeepsPromise, <1>1, <1>2, PTL DEF Spec, KeepsPromise, Promise!Spec

-----------------------------------------------------------------------------
(* Selection *)

\* The instance counts and joins as this module does.
LEMMA PlansCount == ASSUME NEW S PROVE Plans!Cardinality(S) = Cardinality(S)
BY DEF Plans!Cardinality, Cardinality

LEMMA PlansJoined == ASSUME NEW l PROVE Plans!Joined(l) = Joined(l)
BY DEF Plans!Joined, Joined

KeyOf(stage, s) == <<s.size, Hash[Plans!Identity(stage, s)]>>

Chosen(stage, report) ==
  LET places == Plans!Among([n \in DOMAIN report |-> n],
                            {n \in DOMAIN report : Plans!New(stage, report, n)})
  IN  [i \in DOMAIN places |-> report[places[i]]]

EligibleKeys(stage, report) ==
  {KeyOf(stage, report[n]) : n \in {m \in 1..Len(report) : Plans!Eligible(stage, report[m])}}

\* An identity and its key determine one another.
LEMMA KeysTell ==
  ASSUME Plans!PlansAssumption, NEW stage \in {1, 5}, NEW s \in Observable, NEW t \in Observable
  PROVE  /\ KeyOf(stage, s) \in Nat \X Nat
         /\ KeyOf(stage, s) = KeyOf(stage, t) <=> Plans!Identity(stage, s) = Plans!Identity(stage, t)
         /\ Plans!Earlier(stage, s, t) <=> Lower(KeyOf(stage, s), KeyOf(stage, t))
<1>1. /\ s.size \in Nat /\ Hash[Plans!Identity(stage, s)] \in Nat
      /\ Hash[Plans!Identity(stage, s)] = Hash[Plans!Identity(stage, t)]
           => Plans!Identity(stage, s) = Plans!Identity(stage, t)
      /\ s.calls = t.calls => s.size = t.size
  BY DEF Plans!PlansAssumption
<1>2. Plans!Identity(stage, s) = Plans!Identity(stage, t) => s.calls = t.calls
  BY DEF Plans!Identity
<1>3. KeyOf(stage, s) = <<s.size, Hash[Plans!Identity(stage, s)]>>
      /\ KeyOf(stage, t) = <<t.size, Hash[Plans!Identity(stage, t)]>>
  BY DEF KeyOf
<1>4. /\ KeyOf(stage, s)[1] = s.size /\ KeyOf(stage, s)[2] = Hash[Plans!Identity(stage, s)]
      /\ KeyOf(stage, t)[1] = t.size /\ KeyOf(stage, t)[2] = Hash[Plans!Identity(stage, t)]
  BY <1>3
<1>5. KeyOf(stage, s) \in Nat \X Nat
  BY <1>1, <1>3
<1>6. KeyOf(stage, s) = KeyOf(stage, t) <=> Plans!Identity(stage, s) = Plans!Identity(stage, t)
  BY <1>1, <1>2, <1>3, <1>4
<1>7. Plans!Earlier(stage, s, t) <=> Lower(KeyOf(stage, s), KeyOf(stage, t))
  BY <1>4 DEF Plans!Earlier, Lower
<1> QED BY <1>5, <1>6, <1>7

\* What is chosen of a report: the eligible sequences, each identity once.
LEMMA ChosenOnce ==
  ASSUME Plans!PlansAssumption, NEW stage \in {1, 5}, NEW report \in Seq(Observable)
  PROVE  /\ Chosen(stage, report) \in Seq(Observable)
         /\ \A i \in 1..Len(Chosen(stage, report)) :
              /\ Plans!Eligible(stage, Chosen(stage, report)[i])
              /\ KeyOf(stage, Chosen(stage, report)[i]) \in EligibleKeys(stage, report)
         /\ \A i, j \in 1..Len(Chosen(stage, report)) :
              KeyOf(stage, Chosen(stage, report)[i]) = KeyOf(stage, Chosen(stage, report)[j]) => i = j
         /\ \A k \in EligibleKeys(stage, report) : \E i \in 1..Len(Chosen(stage, report)) :
              KeyOf(stage, Chosen(stage, report)[i]) = k
<1> DEFINE N == Len(report)
           numbers == [n \in 1..N |-> n]
           new == {n \in 1..N : Plans!New(stage, report, n)}
           places == Among(numbers, new)
           L == Len(places)
           list == [i \in 1..L |-> report[places[i]]]
           id(s) == Plans!Identity(stage, s)
<1>1. N \in Nat /\ DOMAIN report = 1..N /\ \A n \in 1..N : report[n] \in Observable
  OBVIOUS
<1>2. numbers \in Seq(Nat) /\ Len(numbers) = N
  BY <1>1
<1>3. places \in Seq(Nat) /\ \E pos : PlacedAt(places, numbers, new, pos)
  BY <1>2, AmongPlaces
<1>4. PICK pos : PlacedAt(places, numbers, new, pos)
  BY <1>3
<1>5. L \in Nat /\ DOMAIN places = 1..L
  BY <1>3
<1>6. Chosen(stage, report) = list
  BY <1>1, <1>5 DEF Chosen, Plans!Among, Among
<1> HIDE DEF places
<1>7. /\ \A i \in 1..L : places[i] = pos[i] /\ places[i] \in new
      /\ \A i, j \in 1..L : i < j => places[i] < places[j]
      /\ \A n \in new : \E i \in 1..L : places[i] = n
  <2>1. \A i \in 1..L : pos[i] \in 1..N /\ places[i] = numbers[pos[i]] /\ places[i] \in new
    BY <1>2, <1>4 DEF PlacedAt
  <2>2. \A i \in 1..L : places[i] = pos[i]
    BY <2>1
  <2>3. \A i, j \in 1..L : i < j => pos[i] < pos[j]
    BY <1>4 DEF PlacedAt
  <2>4. \A n \in 1..N : numbers[n] \in new => \E i \in 1..L : pos[i] = n
    BY <1>2, <1>4 DEF PlacedAt
  <2>5. \A n \in new : n \in 1..N /\ numbers[n] = n
    OBVIOUS
  <2> HIDE DEF new, numbers, L
  <2> QED BY <2>1, <2>2, <2>3, <2>4, <2>5
<1>8. list \in Seq(Observable) /\ Len(list) = L
  BY <1>1, <1>5, <1>7
<1>9. \A i \in 1..L : list[i] = report[places[i]] /\ places[i] \in 1..N /\ Plans!New(stage, report, places[i])
  BY <1>7
<1> HIDE DEF L, list, new, numbers, N
<1>10. ASSUME NEW i \in 1..L
       PROVE  Plans!Eligible(stage, list[i]) /\ KeyOf(stage, list[i]) \in EligibleKeys(stage, report)
  <2>1. Plans!Eligible(stage, list[i])
    BY <1>9 DEF Plans!New
  <2> QED BY <1>9, <2>1 DEF EligibleKeys, N
<1>11. ASSUME NEW i \in 1..L, NEW j \in 1..L, i < j PROVE KeyOf(stage, list[i]) # KeyOf(stage, list[j])
  <2> DEFINE m == places[i]
             n == places[j]
  <2>1. m \in 1..N /\ n \in 1..N /\ m < n
    BY <1>7, <1>9, <1>11
  <2>2. m \in 1..(n - 1)
    BY <2>1, <1>1
  <2>3. Plans!Eligible(stage, report[m]) /\ id(report[m]) # id(report[n])
    BY <1>9, <2>2 DEF Plans!New
  <2>4. report[m] \in Observable /\ report[n] \in Observable
    BY <1>1, <2>1
  <2> HIDE DEF m, n
  <2>5. KeyOf(stage, report[m]) # KeyOf(stage, report[n])
    BY <2>3, <2>4, KeysTell
  <2> QED BY <1>9, <2>5 DEF m, n
<1>12. \A i, j \in 1..L : KeyOf(stage, list[i]) = KeyOf(stage, list[j]) => i = j
  <2> SUFFICES ASSUME NEW i \in 1..L, NEW j \in 1..L, KeyOf(stage, list[i]) = KeyOf(stage, list[j])
               PROVE  i = j
    OBVIOUS
  <2>1. ~(i < j) /\ ~(j < i)
    BY <1>11
  <2> QED BY <2>1, <1>5
<1>13. ASSUME NEW k \in EligibleKeys(stage, report) PROVE \E i \in 1..L : KeyOf(stage, list[i]) = k
  <2>1. PICK n \in 1..N : Plans!Eligible(stage, report[n]) /\ k = KeyOf(stage, report[n])
    BY DEF EligibleKeys, N
  <2> DEFINE S == {m \in 1..N : Plans!Eligible(stage, report[m]) /\ id(report[m]) = id(report[n])}
  <2>2. S \subseteq Nat /\ n \in S
    BY <1>1, <2>1
  <2>3. PICK m \in S : \A o \in S : m <= o
    <3> HIDE DEF S
    <3> QED BY <2>2, Least
  <2>4. m \in 1..N /\ Plans!Eligible(stage, report[m]) /\ id(report[m]) = id(report[n])
    OBVIOUS
  <2>5. ASSUME NEW o \in 1..(m - 1), Plans!Eligible(stage, report[o]) PROVE id(report[o]) # id(report[m])
    <3>1. o \in 1..N /\ ~(m <= o)
      BY <1>1, <2>4
    <3> QED BY <2>3, <2>4, <2>5, <3>1
  <2>6. Plans!New(stage, report, m)
    BY <2>4, <2>5 DEF Plans!New
  <2>7. PICK i \in 1..L : places[i] = m
    BY <1>7, <2>4, <2>6 DEF new
  <2>8. KeyOf(stage, list[i]) = k
    <3>1. report[m] \in Observable /\ report[n] \in Observable
      BY <1>1, <2>4
    <3>2. KeyOf(stage, report[m]) = KeyOf(stage, report[n])
      <4> DEFINE a == report[m]
                 b == report[n]
      <4>1. a \in Observable /\ b \in Observable
            /\ Plans!Identity(stage, a) = Plans!Identity(stage, b)
        BY <2>4, <3>1
      <4> HIDE DEF a, b
      <4>2. KeyOf(stage, a) = KeyOf(stage, b)
        BY <4>1, KeysTell
      <4> QED BY <4>2 DEF a, b
    <3>3. list[i] = report[m]
      BY <1>9, <2>7
    <3> QED BY <2>1, <3>2, <3>3
  <2> QED BY <2>8
<1> QED BY <1>6, <1>8, <1>10, <1>12, <1>13

\* Sorted by their keys: the place of a sequence is the rank of its key.
Ranked(stage, list, K) ==
  /\ list \in Seq(Observable) /\ IsFiniteSet(K) /\ K \subseteq Nat \X Nat /\ Len(list) = Cardinality(K)
  /\ \A r \in 1..Len(list) :
       KeyOf(stage, list[r]) \in K /\ 1 + Cardinality(Low(K, KeyOf(stage, list[r]))) = r

\* A sorted list whose sequences have keys of their own is ranked by those keys.
LEMMA SortedIsRanked ==
  ASSUME Plans!PlansAssumption, NEW stage \in {1, 5}, NEW list \in Seq(Observable), NEW K,
         \A i \in 1..Len(list) : KeyOf(stage, list[i]) \in K,
         \A i, j \in 1..Len(list) : KeyOf(stage, list[i]) = KeyOf(stage, list[j]) => i = j,
         \A k \in K : \E i \in 1..Len(list) : KeyOf(stage, list[i]) = k
  PROVE  /\ Ranked(stage, Plans!Sorted(stage, list), K)
         /\ \A r \in 1..Len(Plans!Sorted(stage, list)) : \E i \in 1..Len(list) :
              Plans!Sorted(stage, list)[r] = list[i]
<1> DEFINE n == Len(list)
           key == [i \in 1..n |-> KeyOf(stage, list[i])]
           s == Plans!Sorted(stage, list)
           at(r) == CHOOSE i \in 1..n : Plans!Place(stage, list, i) = r
<1>1. n \in Nat /\ DOMAIN list = 1..n /\ \A i \in 1..n : list[i] \in Observable
  OBVIOUS
<1>2. K \subseteq Nat \X Nat
  <2>1. \A i \in 1..n : KeyOf(stage, list[i]) \in Nat \X Nat
    BY <1>1, KeysTell
  <2> QED BY <2>1
<1>3. key \in [1..n -> K] /\ (\A i, j \in 1..n : key[i] = key[j] => i = j)
      /\ \A k \in K : \E i \in 1..n : key[i] = k
  OBVIOUS
<1>4. \A i \in 1..n : key[i] = KeyOf(stage, list[i])
  OBVIOUS
<1>5. s = [r \in 1..n |-> list[at(r)]]
  BY <1>1 DEF Plans!Sorted
<1> HIDE DEF n, key, s, at
<1>6. /\ IsFiniteSet(K) /\ Cardinality(K) = n
      /\ \A r \in 1..n : \E k \in K : 1 + Cardinality(Low(K, k)) = r
      /\ \A i \in 1..n : Cardinality(Under(key, n, key[i])) = Cardinality(Low(K, key[i]))
  <2>1. n \in Nat
    BY <1>1
  <2>2. K \in SUBSET (Nat \X Nat) /\ Keyed(n, K, key)
    BY <1>2, <1>3 DEF Keyed
  <2>3. KeysRank(n, K, key)
    BY ONLY <2>1, <2>2, Ranks
  <2> QED BY <2>3 DEF KeysRank
<1>7. ASSUME NEW i \in 1..n
      PROVE  Plans!Place(stage, list, i) = 1 + Cardinality(Low(K, key[i]))
  <2> DEFINE before(j) == \/ Plans!Earlier(stage, list[j], list[i])
                          \/ j < i /\ ~Plans!Earlier(stage, list[i], list[j])
  <2>1. ASSUME NEW j \in 1..n PROVE before(j) <=> Lower(key[j], key[i])
    <3>1. /\ Plans!Earlier(stage, list[j], list[i]) <=> Lower(key[j], key[i])
          /\ Plans!Earlier(stage, list[i], list[j]) <=> Lower(key[i], key[j])
      <4> DEFINE a == list[j]
                 b == list[i]
      <4>1. a \in Observable /\ b \in Observable /\ key[j] = KeyOf(stage, a) /\ key[i] = KeyOf(stage, b)
        BY <1>1, <1>4
      <4> HIDE DEF a, b
      <4>2. /\ Plans!Earlier(stage, a, b) <=> Lower(key[j], key[i])
            /\ Plans!Earlier(stage, b, a) <=> Lower(key[i], key[j])
        BY <4>1, KeysTell
      <4> QED BY <4>2 DEF a, b
    <3>2. j < i => key[i] # key[j]
      BY <1>1, <1>3
    <3>3. key[i] # key[j] => Lower(key[j], key[i]) \/ Lower(key[i], key[j])
      <4> DEFINE x == key[i]
                 y == key[j]
      <4>1. x \in Nat \X Nat /\ y \in Nat \X Nat
        BY <1>2, <1>3
      <4> HIDE DEF x, y
      <4>2. x # y => Lower(y, x) \/ Lower(x, y)
        BY <4>1, LowerIsOrder
      <4> QED BY <4>2 DEF x, y
    <3>4. ~(Lower(key[j], key[i]) /\ Lower(key[i], key[j]))
      <4> DEFINE x == key[i]
                 y == key[j]
      <4>1. x \in Nat \X Nat /\ y \in Nat \X Nat
        BY <1>2, <1>3
      <4> HIDE DEF x, y
      <4>2. ~(Lower(y, x) /\ Lower(x, y))
        BY <4>1, LowerIsOrder
      <4> QED BY <4>2 DEF x, y
    <3> QED BY <3>1, <3>2, <3>3, <3>4
  <2>2. {j \in 1..n : before(j)} = Under(key, n, key[i])
    BY <2>1 DEF Under
  <2>3. Plans!Place(stage, list, i) = 1 + Cardinality({j \in 1..n : before(j)})
    <3>1. Plans!Place(stage, list, i) =
            1 + Cardinality({j \in DOMAIN list :
                  \/ Plans!Earlier(stage, list[j], list[i])
                  \/ j < i /\ ~Plans!Earlier(stage, list[i], list[j])})
      BY PlansCount DEF Plans!Place
    <3>2. DOMAIN list = 1..n
      BY <1>1
    <3> QED BY <3>1, <3>2
  <2> HIDE DEF before
  <2> QED BY <2>2, <2>3, <1>6
<1>8. ASSUME NEW r \in 1..n
      PROVE  at(r) \in 1..n /\ 1 + Cardinality(Low(K, key[at(r)])) = r
  <2>1. PICK k \in K : 1 + Cardinality(Low(K, k)) = r
    BY <1>6
  <2>2. PICK i \in 1..n : key[i] = k
    BY <1>3
  <2>3. Plans!Place(stage, list, i) = r
    BY <1>7, <2>1, <2>2
  <2>4. at(r) \in 1..n /\ Plans!Place(stage, list, at(r)) = r
    BY <2>3 DEF at
  <2> QED BY <2>4, <1>7
<1>9. s \in Seq(Observable) /\ Len(s) = n /\ \A r \in 1..n : s[r] = list[at(r)]
  BY <1>1, <1>5, <1>8
<1>10. Ranked(stage, s, K)
  <2>1. \A r \in 1..n : KeyOf(stage, s[r]) = key[at(r)] /\ key[at(r)] \in K
    BY <1>3, <1>4, <1>8, <1>9
  <2>2. \A r \in 1..n : KeyOf(stage, s[r]) \in K /\ 1 + Cardinality(Low(K, KeyOf(stage, s[r]))) = r
    BY <1>8, <2>1
  <2> QED BY <1>2, <1>6, <1>9, <2>2 DEF Ranked
<1> QED BY <1>8, <1>9, <1>10 DEF s, n

\* Two lists that are ranked by the same keys name the same identities.
LEMMA RankedAlike ==
  ASSUME Plans!PlansAssumption, NEW stage \in {1, 5}, NEW K, NEW a, NEW b,
         Ranked(stage, a, K), Ranked(stage, b, K)
  PROVE  /\ Len(a) = Len(b)
         /\ \A r \in 1..Len(a) : Plans!Identity(stage, a[r]) = Plans!Identity(stage, b[r])
<1>1. Len(a) = Len(b)
  BY DEF Ranked
<1>2. ASSUME NEW r \in 1..Len(a) PROVE Plans!Identity(stage, a[r]) = Plans!Identity(stage, b[r])
  <2> DEFINE x == KeyOf(stage, a[r])
             y == KeyOf(stage, b[r])
  <2>1. /\ a[r] \in Observable /\ b[r] \in Observable /\ x \in K /\ y \in K
        /\ 1 + Cardinality(Low(K, x)) = r /\ 1 + Cardinality(Low(K, y)) = r
    BY <1>1 DEF Ranked
  <2>2. K \in SUBSET (Nat \X Nat) /\ IsFiniteSet(K)
    BY DEF Ranked
  <2>3. Low(K, x) \subseteq K /\ Low(K, y) \subseteq K
    BY DEF Low
  <2> HIDE DEF x, y
  <2>4. Cardinality(Low(K, x)) \in Nat /\ Cardinality(Low(K, y)) \in Nat
    BY <2>2, <2>3, FS_Subset, FS_CardinalityType
  <2>5. Cardinality(Low(K, x)) = Cardinality(Low(K, y))
    BY <2>1, <2>4
  <2>6. x = y
    BY <2>1, <2>2, <2>5, RankTells
  <2> QED BY <2>1, <2>6, KeysTell DEF x, y
<1> QED BY <1>1, <1>2

\* The first elements of a list, up to the limit.
LEMMA CutTo ==
  ASSUME NEW T, NEW list \in Seq(T), NEW limit \in Nat
  PROVE  /\ Plans!AtMost(limit, list) \in Seq(T)
         /\ Len(Plans!AtMost(limit, list)) = (IF Len(list) < limit THEN Len(list) ELSE limit)
         /\ \A i \in 1..Len(Plans!AtMost(limit, list)) :
              i \in 1..Len(list) /\ Plans!AtMost(limit, list)[i] = list[i]
<1> DEFINE m == IF Len(list) < limit THEN Len(list) ELSE limit
           cut == SubSeq(list, 1, m)
<1>1. Len(list) \in Nat /\ m \in Nat /\ m <= Len(list)
  OBVIOUS
<1>2. Plans!AtMost(limit, list) = cut
  BY DEF Plans!AtMost
<1> HIDE DEF m
<1>3. cut \in Seq(T) /\ Len(cut) = m /\ \A i \in 1..m : cut[i] = list[i]
  BY <1>1
<1> HIDE DEF cut
<1>4. \A i \in 1..m : i \in 1..Len(list)
  BY <1>1
<1> QED BY <1>2, <1>3, <1>4 DEF m

\* What is selected of a report: eligible sequences, no identity twice; how many and
\* which depends on the keys of the report only.
LEMMA SelectedRanked ==
  ASSUME Plans!PlansAssumption, NEW stage \in {1, 5}, NEW report \in Seq(Observable)
  PROVE  \E list :
           /\ Ranked(stage, list, EligibleKeys(stage, report))
           /\ \A r \in 1..Len(list) : Plans!Eligible(stage, list[r])
           /\ Plans!Selected(stage, report) = Plans!AtMost(Limit, list)
<1> DEFINE chosen == Chosen(stage, report)
           K == EligibleKeys(stage, report)
           list == Plans!Sorted(stage, chosen)
<1>1. Plans!Selected(stage, report) = Plans!AtMost(Limit, list)
  BY DEF Plans!Selected, Chosen
<1>2. /\ chosen \in Seq(Observable)
      /\ \A i \in 1..Len(chosen) : Plans!Eligible(stage, chosen[i]) /\ KeyOf(stage, chosen[i]) \in K
      /\ \A i, j \in 1..Len(chosen) : KeyOf(stage, chosen[i]) = KeyOf(stage, chosen[j]) => i = j
      /\ \A k \in K : \E i \in 1..Len(chosen) : KeyOf(stage, chosen[i]) = k
  BY ChosenOnce
<1> HIDE DEF chosen, K
<1>3. /\ Ranked(stage, list, K)
      /\ \A r \in 1..Len(list) : \E i \in 1..Len(chosen) : list[r] = chosen[i]
  BY <1>2, SortedIsRanked
<1> HIDE DEF list
<1>4. \A r \in 1..Len(list) : Plans!Eligible(stage, list[r])
  BY <1>2, <1>3
<1> QED BY <1>1, <1>3, <1>4 DEF K

\* A selection is a list of eligible sequences with identities of their own.
LEMMA SelectedOnce ==
  ASSUME Plans!PlansAssumption, NEW stage \in {1, 5}, NEW report \in Seq(Observable)
  PROVE  /\ Plans!Selected(stage, report) \in Seq(Observable)
         /\ \A i \in 1..Len(Plans!Selected(stage, report)) :
              Plans!Eligible(stage, Plans!Selected(stage, report)[i])
         /\ \A i, j \in 1..Len(Plans!Selected(stage, report)) :
              Plans!Identity(stage, Plans!Selected(stage, report)[i])
                = Plans!Identity(stage, Plans!Selected(stage, report)[j]) => i = j
<1> DEFINE K == EligibleKeys(stage, report)
           sel == Plans!Selected(stage, report)
<1>1. PICK list : /\ Ranked(stage, list, K)
                  /\ \A r \in 1..Len(list) : Plans!Eligible(stage, list[r])
                  /\ sel = Plans!AtMost(Limit, list)
  BY SelectedRanked
<1>2. Limit \in Nat /\ list \in Seq(Observable)
  BY <1>1 DEF Plans!PlansAssumption, Ranked
<1> HIDE DEF sel, K
<1>3. sel \in Seq(Observable) /\ \A i \in 1..Len(sel) : i \in 1..Len(list) /\ sel[i] = list[i]
  BY <1>1, <1>2, CutTo
<1>4. ASSUME NEW i \in 1..Len(sel), NEW j \in 1..Len(sel),
             Plans!Identity(stage, sel[i]) = Plans!Identity(stage, sel[j])
      PROVE  i = j
  <2> DEFINE a == list[i]
             b == list[j]
  <2>1. a \in Observable /\ b \in Observable /\ Plans!Identity(stage, a) = Plans!Identity(stage, b)
        /\ i \in 1..Len(list) /\ j \in 1..Len(list)
    BY <1>2, <1>3, <1>4
  <2>2. /\ 1 + Cardinality(Low(K, KeyOf(stage, a))) = i
        /\ 1 + Cardinality(Low(K, KeyOf(stage, b))) = j
    BY <1>1, <2>1 DEF Ranked
  <2> HIDE DEF a, b
  <2>3. KeyOf(stage, a) = KeyOf(stage, b)
    BY <2>1, KeysTell
  <2> QED BY <2>2, <2>3
<1> QED BY <1>1, <1>3, <1>4 DEF sel

\* The keys of a report do not depend on the order of its sequences.
LEMMA KeysOfMoved ==
  ASSUME NEW stage, NEW report \in Seq(Observable),
         NEW order \in Plans!Bijection(DOMAIN report, DOMAIN report)
  PROVE  /\ [i \in DOMAIN report |-> report[order[i]]] \in Seq(Observable)
         /\ EligibleKeys(stage, [i \in DOMAIN report |-> report[order[i]]]) = EligibleKeys(stage, report)
<1> DEFINE N == Len(report)
           moved == [i \in DOMAIN report |-> report[order[i]]]
<1>1. N \in Nat /\ DOMAIN report = 1..N /\ \A i \in 1..N : report[i] \in Observable
  OBVIOUS
<1>2. order \in [1..N -> 1..N] /\ \A n \in 1..N : \E i \in 1..N : order[i] = n
  BY <1>1 DEF Plans!Bijection, Plans!Surjection, Plans!Injection, Plans!IsInjective
<1>3. moved = [i \in 1..N |-> report[order[i]]]
  BY <1>1
<1>4. moved \in Seq(Observable) /\ Len(moved) = N
  BY <1>1, <1>2, <1>3
<1>5. \A i \in 1..N : moved[i] = report[order[i]]
  BY <1>3
<1> HIDE DEF moved
<1>6. ASSUME NEW k \in EligibleKeys(stage, moved) PROVE k \in EligibleKeys(stage, report)
  <2>1. PICK i \in 1..N : Plans!Eligible(stage, moved[i]) /\ k = KeyOf(stage, moved[i])
    BY <1>4, <1>6 DEF EligibleKeys
  <2>2. order[i] \in 1..N /\ moved[i] = report[order[i]]
    BY <1>2, <1>5
  <2> QED BY <2>1, <2>2 DEF EligibleKeys
<1>7. ASSUME NEW k \in EligibleKeys(stage, report) PROVE k \in EligibleKeys(stage, moved)
  <2>1. PICK n \in 1..N : Plans!Eligible(stage, report[n]) /\ k = KeyOf(stage, report[n])
    BY <1>7 DEF EligibleKeys
  <2>2. PICK i \in 1..N : order[i] = n
    BY <1>2
  <2>3. moved[i] = report[n]
    BY <1>5, <2>2
  <2> QED BY <1>4, <2>1, <2>3 DEF EligibleKeys
<1> QED BY <1>4, <1>6, <1>7 DEF moved

\* Reports with the same keys have the same identities selected.
LEMMA MovedAlike ==
  ASSUME Plans!PlansAssumption, NEW stage \in {1, 5}, NEW report \in Seq(Observable),
         NEW other \in Seq(Observable), EligibleKeys(stage, other) = EligibleKeys(stage, report)
  PROVE  Plans!Identities(stage, other) = Plans!Identities(stage, report)
<1> DEFINE K == EligibleKeys(stage, report)
           a == Plans!Selected(stage, other)
           b == Plans!Selected(stage, report)
<1>1. PICK x : Ranked(stage, x, K) /\ a = Plans!AtMost(Limit, x)
  BY SelectedRanked
<1>2. PICK y : Ranked(stage, y, K) /\ b = Plans!AtMost(Limit, y)
  BY SelectedRanked
<1>3. Limit \in Nat /\ x \in Seq(Observable) /\ y \in Seq(Observable)
  BY <1>1, <1>2 DEF Plans!PlansAssumption, Ranked
<1>4. Len(x) = Len(y) /\ \A r \in 1..Len(x) : Plans!Identity(stage, x[r]) = Plans!Identity(stage, y[r])
  <2> HIDE DEF K
  <2> QED BY <1>1, <1>2, RankedAlike
<1> HIDE DEF a, b, K
<1>5. a \in Seq(Observable) /\ Len(a) = (IF Len(x) < Limit THEN Len(x) ELSE Limit)
      /\ \A i \in 1..Len(a) : i \in 1..Len(x) /\ a[i] = x[i]
  BY <1>1, <1>3, CutTo
<1>6. b \in Seq(Observable) /\ Len(b) = (IF Len(y) < Limit THEN Len(y) ELSE Limit)
      /\ \A i \in 1..Len(b) : i \in 1..Len(y) /\ b[i] = y[i]
  BY <1>2, <1>3, CutTo
<1>7. DOMAIN a = 1..Len(a) /\ DOMAIN b = 1..Len(a)
  BY <1>4, <1>5, <1>6
<1>8. \A i \in 1..Len(a) : Plans!Identity(stage, a[i]) = Plans!Identity(stage, b[i])
  BY <1>4, <1>5, <1>6
<1>9. [i \in DOMAIN a |-> Plans!Identity(stage, a[i])] = [i \in DOMAIN b |-> Plans!Identity(stage, b[i])]
  BY <1>7, <1>8
<1> QED BY <1>9 DEF Plans!Identities, a, b

\* What is selected does not depend on the order of the report.
LEMMA OrderNeverMatters ==
  ASSUME Plans!PlansAssumption, observed \in Seq(Observable)
  PROVE  Plans!OrderIsIrrelevant
<1> SUFFICES ASSUME NEW stage \in {1, 5}, NEW order \in Plans!Bijection(DOMAIN observed, DOMAIN observed)
             PROVE  Plans!Identities(stage, [i \in DOMAIN observed |-> observed[order[i]]])
                      = Plans!Identities(stage, observed)
  BY DEF Plans!OrderIsIrrelevant
<1> DEFINE moved == [i \in DOMAIN observed |-> observed[order[i]]]
<1>1. moved \in Seq(Observable) /\ EligibleKeys(stage, moved) = EligibleKeys(stage, observed)
  BY KeysOfMoved
<1> HIDE DEF moved
<1> QED BY <1>1, MovedAlike DEF moved

-----------------------------------------------------------------------------
(* Plans *)

\* The choices of calls are all of the given length, and no two are the same.
LEMMA Choices ==
  ASSUME Plans!PlansAssumption, NEW length \in {1, 2}
  PROVE  /\ Len(Plans!CallChoices(length)) \in Nat
         /\ DOMAIN Plans!CallChoices(length) = 1..Len(Plans!CallChoices(length))
         /\ \A k \in 1..Len(Plans!CallChoices(length)) :
              /\ DOMAIN Plans!CallChoices(length)[k] = 1..length
              /\ \A i \in 1..length : Plans!CallChoices(length)[k][i].symbolic \in BOOLEAN
         /\ \A k, l \in 1..Len(Plans!CallChoices(length)) :
              Plans!CallChoices(length)[k] = Plans!CallChoices(length)[l] => k = l
<1> DEFINE C == Plans!CallChoices(length)
           n == Len(SuffixCalls)
<1>1. /\ n \in Nat
      /\ \A i \in 1..n : SuffixCalls[i].symbolic \in BOOLEAN
      /\ \A i, j \in 1..n : SuffixCalls[i] = SuffixCalls[j] => i = j
  <2>1. SuffixCalls \in Seq(Plans!Range(SuffixCalls))
    BY DEF Plans!PlansAssumption
  <2>2. n \in Nat /\ DOMAIN SuffixCalls = 1..n
    BY <2>1
  <2>3. \A i \in 1..n : SuffixCalls[i] \in Plans!Range(SuffixCalls)
    BY <2>2 DEF Plans!Range
  <2> QED BY <2>2, <2>3 DEF Plans!PlansAssumption
<1> HIDE DEF n
<1>2. CASE length = 1
  <2> DEFINE D == [k \in 1..n |-> <<SuffixCalls[k]>>]
  <2>1. C = D
    BY <1>2 DEF Plans!CallChoices, n
  <2>2. Len(D) = n /\ DOMAIN D = 1..n
    BY <1>1
  <2>3. \A k \in 1..n : D[k] = <<SuffixCalls[k]>> /\ D[k][1] = SuffixCalls[k] /\ DOMAIN D[k] = 1..1
    OBVIOUS
  <2> HIDE DEF D
  <2>4. \A i \in 1..1 : i = 1
    OBVIOUS
  <2>5. \A k \in 1..n : DOMAIN D[k] = 1..length /\ \A i \in 1..length : D[k][i].symbolic \in BOOLEAN
    BY <1>1, <1>2, <2>3, <2>4
  <2>6. \A k, l \in 1..n : D[k] = D[l] => k = l
    BY <1>1, <2>3
  <2> QED BY <1>1, <2>1, <2>2, <2>5, <2>6
<1>3. CASE length = 2
  <2> DEFINE q(k) == (k - 1) \div n
             r(k) == (k - 1) % n
             first(k) == q(k) + 1
             second(k) == r(k) + 1
             D == [k \in 1..(n * n) |-> <<SuffixCalls[first(k)], SuffixCalls[second(k)]>>]
  <2>1. C = D
    BY <1>3 DEF Plans!CallChoices, n
  <2>2. n * n \in Nat /\ Len(D) = n * n /\ DOMAIN D = 1..(n * n)
    BY <1>1
  <2>3. \A k \in 1..(n * n) : /\ D[k] = <<SuffixCalls[first(k)], SuffixCalls[second(k)]>>
                             /\ D[k][1] = SuffixCalls[first(k)] /\ D[k][2] = SuffixCalls[second(k)]
                             /\ DOMAIN D[k] = 1..2
    OBVIOUS
  <2>4. ASSUME NEW k \in 1..(n * n)
        PROVE  /\ first(k) \in 1..n /\ second(k) \in 1..n
               /\ k = n * (first(k) - 1) + second(k)
    <3>1. n \in Nat \ {0} /\ k - 1 \in 0..(n * n - 1)
      <4>1. n # 0
        BY <1>1, <2>2
      <4> QED BY <4>1, <1>1, <2>2
    <3> DEFINE x == k - 1
               a == x \div n
               b == x % n
    <3>2. a \in 0..(n - 1) /\ b \in 0..(n - 1) /\ x = n * a + b
      <4> HIDE DEF x
      <4>1. x \in 0..(n * n - 1)
        BY <3>1 DEF x
      <4> QED BY <3>1, <4>1, Digits
    <3>3. first(k) = a + 1 /\ second(k) = b + 1 /\ x = k - 1
      OBVIOUS
    <3> HIDE DEF a, b, x, first, second
    <3>4. first(k) - 1 = a /\ first(k) \in 1..n /\ second(k) \in 1..n
      BY <3>1, <3>2, <3>3
    <3>5. n * (first(k) - 1) = n * a
      BY <3>4
    <3>6. n * a \in Int
      BY <3>1, <3>2
    <3>7. k = n * a + second(k)
      BY <3>2, <3>3, <3>6
    <3> QED BY <3>4, <3>5, <3>7
  <2> HIDE DEF D, first, second
  <2>5. \A i \in 1..2 : i = 1 \/ i = 2
    OBVIOUS
  <2>6. ASSUME NEW k \in 1..(n * n)
        PROVE  DOMAIN D[k] = 1..length /\ \A i \in 1..length : D[k][i].symbolic \in BOOLEAN
    BY <1>1, <1>3, <2>3, <2>4, <2>5
  <2>7. ASSUME NEW k \in 1..(n * n), NEW l \in 1..(n * n), D[k] = D[l] PROVE k = l
    <3>1. SuffixCalls[first(k)] = SuffixCalls[first(l)] /\ SuffixCalls[second(k)] = SuffixCalls[second(l)]
      BY <2>3, <2>7
    <3>2. first(k) = first(l) /\ second(k) = second(l)
      BY <1>1, <2>4, <3>1
    <3> QED BY <2>4, <3>2
  <2> QED BY <2>1, <2>2, <2>6, <2>7
<1> QED BY <1>2, <1>3

\* What there is to solve for, and the plans it may be asked with.
Useful(length) == {k \in DOMAIN Plans!CallChoices(length) : Plans!HasArgument(Plans!CallChoices(length)[k])}
PlansOf(s, length) ==
  [k \in 1..Len(Plans!CallChoices(length)) |-> Plans!Plan(s, Plans!CallChoices(length)[k])]

\* The enumeration fills a list with the plans that are useful.
LEMMA EnumerationFills ==
  ASSUME Plans!PlansAssumption, NEW length \in {1, 2}, NEW s \in Observable, Plans!Eligible(5, s),
         NEW T, \A k \in 1..Len(Plans!CallChoices(length)) : PlansOf(s, length)[k] \in T
  PROVE  \E f : /\ Filled(Len(Plans!CallChoices(length)), PlansOf(s, length), Useful(length),
                         MaxPlans, T, f)
                /\ Plans!EnumeratePlans(s, length) = f[Len(Plans!CallChoices(length))]
<1> DEFINE C == Plans!CallChoices(length)
           N == Len(C)
           E == PlansOf(s, length)
           U == Useful(length)
           Step(k, plans) == IF k \notin U \/ Len(plans) >= MaxPlans THEN plans ELSE Append(plans, E[k])
           V == Seq(T)
           F == [k \in 1..N |-> [v \in V |-> Step(k, v)]]
           Said(k, plans) == IF \/ s.size + length > 5 \/ ~Plans!HasArgument(C[k])
                                \/ Len(plans) >= MaxPlans
                             THEN plans ELSE Append(plans, Plans!Plan(s, C[k]))
           Meets(f) == f = [k \in 0..N |-> IF k = 0 THEN <<>> ELSE Said(k, f[k - 1])]
<1>1. N \in Nat /\ DOMAIN C = 1..N
  BY Choices
<1>2. s.size \in 1..3 /\ length \in 1..2 /\ ~(s.size + length > 5)
  BY DEF Plans!Eligible
<1>3. \A k \in 1..N : E[k] = Plans!Plan(s, C[k]) /\ (k \in U <=> Plans!HasArgument(C[k]))
  BY <1>1 DEF Useful, PlansOf
<1> HIDE DEF C, E, U, N
<1>4. ASSUME NEW k \in 1..N, NEW plans PROVE Said(k, plans) = Step(k, plans)
  BY <1>2, <1>3
<1>5. \A k \in 1..N : E[k] \in T
  BY DEF E, N, C
<1>6. F \in [1..N -> [V -> V]] /\ <<>> \in V
  <2>1. ASSUME NEW k \in 1..N, NEW v \in V PROVE Step(k, v) \in V
    BY <1>5
  <2> QED BY <2>1
<1> HIDE DEF F
<1>7. PICK f \in [0..N -> V] : f[0] = <<>> /\ \A k \in 1..N : f[k] = F[k][f[k - 1]]
  <2> DEFINE empty == <<>>
  <2>1. N \in Nat /\ F \in [1..N -> [V -> V]] /\ empty \in V
    BY <1>1, <1>6
  <2> HIDE DEF V, empty
  <2>2. \E f \in [0..N -> V] : f[0] = empty /\ \A k \in 1..N : f[k] = F[k][f[k - 1]]
    BY ONLY <2>1, Recursion, SMTT(60)
  <2> QED BY <2>2 DEF empty
<1>8. ASSUME NEW k \in 1..N PROVE f[k] = Step(k, f[k - 1])
  <2>1. k - 1 \in 0..N
    BY <1>1
  <2>2. f[k - 1] \in V
    BY <2>1, <1>7
  <2>3. F[k][f[k - 1]] = Step(k, f[k - 1])
    <3> HIDE DEF Step, V
    <3> QED BY <2>2 DEF F
  <2> QED BY <2>3, <1>7
<1> HIDE DEF Said, Step
<1>9. Meets(f)
  <2> DEFINE h == [k \in 0..N |-> IF k = 0 THEN <<>> ELSE Said(k, f[k - 1])]
  <2>1. ASSUME NEW k \in 0..N PROVE f[k] = h[k]
    <3>1. k = 0 \/ k \in 1..N
      BY <1>1
    <3> QED BY <3>1, <1>4, <1>7, <1>8
  <2>2. h = [k \in 0..N |-> h[k]] /\ f = [k \in 0..N |-> f[k]]
    BY <1>7
  <2> HIDE DEF h
  <2>3. f = h
    BY <2>1, <2>2
  <2> QED BY <2>3 DEF h
<1> DEFINE g == CHOOSE g : Meets(g)
<1>10. Meets(g)
  BY <1>9
<1>11. Plans!EnumeratePlans(s, length) = g[N]
  BY DEF Plans!EnumeratePlans, Said, C, N
<1>12. g[0] = <<>> /\ \A k \in 1..N : g[k] = Said(k, g[k - 1])
  <2> DEFINE h == [k \in 0..N |-> IF k = 0 THEN <<>> ELSE Said(k, g[k - 1])]
  <2>1. g = h
    BY <1>10
  <2>2. h[0] = <<>> /\ \A k \in 1..N : h[k] = Said(k, g[k - 1])
    <3>1. 0 \in 0..N /\ \A k \in 1..N : k \in 0..N /\ k # 0
      BY <1>1
    <3> HIDE DEF g
    <3> QED BY <3>1
  <2> HIDE DEF h, g
  <2> QED BY <2>1, <2>2
<1> HIDE DEF g
<1>13. g[N] = f[N]
  <2>1. g[0] = f[0] /\ \A k \in 1..N : g[k - 1] = f[k - 1] => g[k] = f[k]
    BY <1>4, <1>7, <1>8, <1>12
  <2>2. N \in Nat /\ GoAlike(N, g, f)
    BY <1>1, <2>1 DEF GoAlike
  <2> QED BY <2>2, EndAlike
<1>14. Filled(N, E, U, MaxPlans, T, f)
  BY <1>7, <1>8 DEF Filled, Step, V
<1> QED BY <1>11, <1>13, <1>14 DEF N, C, E, U

AnyPlan == UNION {{PlansOf(s, length)[k] : s \in Observable, k \in 1..Len(Plans!CallChoices(length))}
                    : length \in {1, 2}}

\* As many plans as there is something to solve for, up to the limit, each of a
\* choice of its own.
LEMMA Enumerated ==
  ASSUME Plans!PlansAssumption, NEW length \in {1, 2}, NEW s \in Observable, Plans!Eligible(5, s)
  PROVE  /\ Plans!EnumeratePlans(s, length) \in Seq(AnyPlan)
         /\ Len(Plans!EnumeratePlans(s, length)) = LesserOf(Cardinality(Useful(length)), MaxPlans)
         /\ \E from : TakenFrom(Plans!EnumeratePlans(s, length), PlansOf(s, length), Useful(length), from)
<1> DEFINE N == Len(Plans!CallChoices(length))
           E == PlansOf(s, length)
           U == Useful(length)
<1>1. N \in Nat /\ U \subseteq 1..N
  BY Choices DEF Useful
<1>2. \A k \in 1..N : E[k] \in AnyPlan
  BY DEF AnyPlan
<1>3. PICK f : Filled(N, E, U, MaxPlans, AnyPlan, f) /\ Plans!EnumeratePlans(s, length) = f[N]
  BY <1>2, EnumerationFills
<1>4. MaxPlans \in Nat
  BY DEF Plans!PlansAssumption
<1> HIDE DEF N, E, U
<1>5. Len(f[N]) = LesserOf(Cardinality(U), MaxPlans) /\ \E from : TakenFrom(f[N], E, U, from)
  BY <1>1, <1>3, <1>4, FilledTo
<1>6. f[N] \in Seq(AnyPlan)
  BY <1>1, <1>3 DEF Filled
<1> QED BY <1>3, <1>5, <1>6 DEF U, E

\* A query names its prefix and a choice of calls, which tells it from the others
\* of that prefix.
LEMMA QueriesNamed ==
  ASSUME Plans!PlansAssumption, NEW length \in {1, 2}, NEW s \in Observable, Plans!Eligible(5, s)
  PROVE  \E calls :
           /\ \A i \in 1..Len(Plans!EnumeratePlans(s, length)) :
                /\ Plans!EnumeratePlans(s, length)[i].query = <<Plans!Identity(5, s), calls[i]>>
                /\ DOMAIN calls[i] = 1..length
           /\ \A i, j \in 1..Len(Plans!EnumeratePlans(s, length)) : calls[i] = calls[j] => i = j
<1> DEFINE C == Plans!CallChoices(length)
           N == Len(C)
           plans == Plans!EnumeratePlans(s, length)
           L == Len(plans)
<1>1. PICK from : TakenFrom(plans, PlansOf(s, length), Useful(length), from)
  BY Enumerated
<1>2. /\ DOMAIN C = 1..N
      /\ \A k \in 1..N : DOMAIN C[k] = 1..length
      /\ \A k, l \in 1..N : C[k] = C[l] => k = l
  BY Choices
<1>3. Useful(length) \subseteq 1..N
  BY <1>2 DEF Useful
<1>4. \A k \in 1..N : PlansOf(s, length)[k] = Plans!Plan(s, C[k])
  BY DEF PlansOf
<1> HIDE DEF C, N, plans
<1>5. ASSUME NEW k \in 1..N PROVE PlansOf(s, length)[k].query = <<Plans!Identity(5, s), C[k]>>
  <2>1. Plans!Plan(s, C[k]).query = <<Plans!Identity(5, s), C[k]>>
    BY DEF Plans!Plan
  <2> QED BY <1>4, <2>1
<1>6. /\ \A i \in 1..L : from[i] \in 1..N /\ plans[i] = PlansOf(s, length)[from[i]]
      /\ \A i, j \in 1..L : from[i] = from[j] => i = j
  BY <1>1, <1>3 DEF TakenFrom
<1> DEFINE calls == [i \in 1..L |-> C[from[i]]]
<1>7. \A i \in 1..L : calls[i] = C[from[i]]
  OBVIOUS
<1> HIDE DEF calls, L
<1>8. \A i \in 1..L : plans[i].query = <<Plans!Identity(5, s), calls[i]>> /\ DOMAIN calls[i] = 1..length
  BY <1>2, <1>5, <1>6, <1>7
<1>9. \A i, j \in 1..L : calls[i] = calls[j] => i = j
  BY <1>2, <1>6, <1>7
<1> QED BY <1>8, <1>9 DEF plans, L

\* One queue: it names no query twice, and every query of it is of its length.
LEMMA QueueDiffers ==
  ASSUME Plans!PlansAssumption, observed \in Seq(Observable), NEW length \in {1, 2}
  PROVE  /\ Plans!PlanPool(length) \in Seq(AnyPlan)
         /\ \A k, l \in 1..Len(Plans!PlanPool(length)) :
              Plans!PlanPool(length)[k].query = Plans!PlanPool(length)[l].query => k = l
         /\ \A k \in 1..Len(Plans!PlanPool(length)) :
              DOMAIN (Plans!PlanPool(length)[k].query[2]) = 1..length
<1> DEFINE sel == Plans!Selected(5, observed)
           N == Len(sel)
           lists == [n \in 1..N |-> Plans!EnumeratePlans(sel[n], length)]
           key == [p \in AnyPlan |-> p.query]
           pool == Joined(lists)
<1>1. sel \in Seq(Observable) /\ (\A n \in 1..N : Plans!Eligible(5, sel[n]))
      /\ \A n, m \in 1..N : Plans!Identity(5, sel[n]) = Plans!Identity(5, sel[m]) => n = m
  BY SelectedOnce
<1>2. N \in Nat /\ DOMAIN sel = 1..N /\ \A n \in 1..N : sel[n] \in Observable
  BY <1>1
<1>3. Plans!PlanPool(length) = pool
  <2>1. Plans!PlanPool(length) = Joined([i \in DOMAIN sel |-> Plans!EnumeratePlans(sel[i], length)])
    BY PlansJoined DEF Plans!PlanPool
  <2>2. DOMAIN sel = 1..N
    BY <1>2
  <2> HIDE DEF sel, N
  <2> QED BY <2>1, <2>2
<1> HIDE DEF sel, N
<1>4. \A n \in 1..N : lists[n] = Plans!EnumeratePlans(sel[n], length) /\ lists[n] \in Seq(AnyPlan)
  BY <1>1, <1>2, Enumerated
<1>5. lists \in Seq(Seq(AnyPlan)) /\ Len(lists) = N
  BY <1>2, <1>4
<1> HIDE DEF lists
<1> DEFINE Named(n, calls) ==
             /\ \A i \in 1..Len(lists[n]) : /\ lists[n][i].query = <<Plans!Identity(5, sel[n]), calls[i]>>
                                           /\ DOMAIN calls[i] = 1..length
             /\ \A i, j \in 1..Len(lists[n]) : calls[i] = calls[j] => i = j
<1>6. ASSUME NEW n \in 1..N
      PROVE  \E calls : Named(n, calls)
  <2> DEFINE s == sel[n]
  <2>1. s \in Observable /\ Plans!Eligible(5, s) /\ lists[n] = Plans!EnumeratePlans(s, length)
    BY <1>1, <1>2, <1>4
  <2> HIDE DEF s
  <2>2. \E calls :
           /\ \A i \in 1..Len(Plans!EnumeratePlans(s, length)) :
                /\ Plans!EnumeratePlans(s, length)[i].query = <<Plans!Identity(5, s), calls[i]>>
                /\ DOMAIN calls[i] = 1..length
           /\ \A i, j \in 1..Len(Plans!EnumeratePlans(s, length)) : calls[i] = calls[j] => i = j
    BY <2>1, QueriesNamed
  <2> QED BY <2>1, <2>2 DEF s
<1> HIDE DEF Named
<1>7. \A p \in AnyPlan : key[p] = p.query
  OBVIOUS
<1>8. \A n \in 1..N : \A i \in 1..Len(lists[n]) : lists[n][i] \in AnyPlan
  BY <1>4
<1> HIDE DEF key
<1>9. ASSUME NEW n \in 1..N, NEW m \in 1..N, NEW i \in 1..Len(lists[n]), NEW j \in 1..Len(lists[m]),
             key[lists[n][i]] = key[lists[m][j]]
      PROVE  n = m /\ i = j
  <2>1. lists[n][i].query = lists[m][j].query
    BY <1>7, <1>8, <1>9
  <2>2. PICK c : Named(n, c)
    BY <1>6
  <2>3. PICK d : Named(m, d)
    BY <1>6
  <2>4. Plans!Identity(5, sel[n]) = Plans!Identity(5, sel[m])
    BY <2>1, <2>2, <2>3 DEF Named
  <2>5. n = m
    BY <1>1, <2>4
  <2>6. <<Plans!Identity(5, sel[n]), c[i]>> = <<Plans!Identity(5, sel[n]), c[j]>>
    BY <2>1, <2>2, <2>5 DEF Named
  <2>7. c[i] = c[j]
    BY <2>6
  <2> QED BY <2>2, <2>5, <2>7 DEF Named
<1>10. pool \in Seq(AnyPlan) /\ \A k \in 1..Len(pool) : \E n \in 1..N : \E i \in 1..Len(lists[n]) : pool[k] = lists[n][i]
  <2>1. lists \in Seq(Seq(AnyPlan))
    BY <1>5
  <2>2. /\ Joined(lists) \in Seq(AnyPlan)
        /\ \A k \in 1..Len(Joined(lists)) : \E n \in 1..Len(lists) :
              \E i \in 1..Len(lists[n]) : Joined(lists)[k] = lists[n][i]
    BY ONLY <2>1, JoinedInside
  <2> QED BY <1>5, <2>2
<1>11. \A k, l \in 1..Len(pool) : key[pool[k]] = key[pool[l]] => k = l
  <2>1. \A n, m \in 1..Len(lists) : \A i \in 1..Len(lists[n]), j \in 1..Len(lists[m]) :
          key[lists[n][i]] = key[lists[m][j]] => n = m /\ i = j
    BY <1>5, <1>9
  <2>2. lists \in Seq(Seq(AnyPlan))
    BY <1>5
  <2> QED BY ONLY <2>1, <2>2, JoinedDiffer
<1> HIDE DEF pool
<1>12. \A k \in 1..Len(pool) : pool[k] \in AnyPlan
  BY <1>10
<1>13. \A k, l \in 1..Len(pool) : pool[k].query = pool[l].query => k = l
  BY <1>7, <1>11, <1>12
<1>14. ASSUME NEW k \in 1..Len(pool) PROVE DOMAIN (pool[k].query[2]) = 1..length
  <2>1. PICK n \in 1..N : \E i \in 1..Len(lists[n]) : pool[k] = lists[n][i]
    BY <1>10
  <2>2. PICK i \in 1..Len(lists[n]) : pool[k] = lists[n][i]
    BY <2>1
  <2>3. PICK calls : Named(n, calls)
    BY <1>6
  <2>4. pool[k].query = <<Plans!Identity(5, sel[n]), calls[i]>> /\ DOMAIN calls[i] = 1..length
    BY <2>2, <2>3 DEF Named
  <2>5. pool[k].query[2] = calls[i]
    BY <2>4
  <2> QED BY <2>4, <2>5
<1> QED BY <1>3, <1>10, <1>13, <1>14

\* The queue of one-call plans and that of two-call plans name each query once.
LEMMA QueriesAlwaysDiffer ==
  ASSUME Plans!PlansAssumption, observed \in Seq(Observable)
  PROVE  Plans!QueriesDiffer
<1> DEFINE a == Plans!PlanPool(1)
           b == Plans!PlanPool(2)
           c == a \o b
<1>1. /\ a \in Seq(AnyPlan)
      /\ \A k, l \in 1..Len(a) : a[k].query = a[l].query => k = l
      /\ \A k \in 1..Len(a) : DOMAIN (a[k].query[2]) = 1..1
  BY QueueDiffers
<1>2. /\ b \in Seq(AnyPlan)
      /\ \A k, l \in 1..Len(b) : b[k].query = b[l].query => k = l
      /\ \A k \in 1..Len(b) : DOMAIN (b[k].query[2]) = 1..2
  BY QueueDiffers
<1> SUFFICES ASSUME NEW i \in DOMAIN c, NEW j \in DOMAIN c, c[i].query = c[j].query PROVE i = j
  BY DEF Plans!QueriesDiffer
<1> HIDE DEF a, b
<1>3. /\ Len(a) \in Nat /\ Len(b) \in Nat /\ DOMAIN c = 1..(Len(a) + Len(b))
      /\ \A k \in 1..(Len(a) + Len(b)) : IF k <= Len(a) THEN k \in 1..Len(a) /\ c[k] = a[k]
                                        ELSE k - Len(a) \in 1..Len(b) /\ c[k] = b[k - Len(a)]
  BY <1>1, <1>2
<1> HIDE DEF c
<1>4. 1..1 # 1..2
  <2>1. 2 \in 1..2 /\ 2 \notin 1..1
    OBVIOUS
  <2> QED BY <2>1
<1>5. ASSUME NEW k \in DOMAIN c
      PROVE  \/ k <= Len(a) /\ k \in 1..Len(a) /\ c[k] = a[k] /\ DOMAIN (c[k].query[2]) = 1..1
             \/ ~(k <= Len(a)) /\ k - Len(a) \in 1..Len(b) /\ c[k] = b[k - Len(a)]
                /\ DOMAIN (c[k].query[2]) = 1..2
  <2>1. k \in 1..(Len(a) + Len(b))
    BY <1>3
  <2>2. CASE k <= Len(a)
    BY <1>1, <1>3, <2>1, <2>2
  <2>3. CASE ~(k <= Len(a))
    <3> DEFINE x == k - Len(a)
    <3>1. x \in 1..Len(b) /\ c[k] = b[x]
      BY <1>3, <2>1, <2>3
    <3> HIDE DEF x
    <3>2. DOMAIN (b[x].query[2]) = 1..2
      BY <1>2, <3>1
    <3>3. c[k] = b[x] /\ DOMAIN (c[k].query[2]) = 1..2 /\ x \in 1..Len(b)
      BY <3>1, <3>2
    <3> QED BY <2>3, <3>3 DEF x
  <2> QED BY <2>2, <2>3
<1>6. CASE i <= Len(a) /\ j <= Len(a)
  BY <1>1, <1>5, <1>6
<1>7. CASE ~(i <= Len(a)) /\ ~(j <= Len(a))
  <2> DEFINE x == i - Len(a)
             y == j - Len(a)
  <2>1. x \in 1..Len(b) /\ y \in 1..Len(b) /\ b[x].query = b[y].query
    BY <1>5, <1>7
  <2> HIDE DEF x, y
  <2>2. x = y
    BY <1>2, <2>1
  <2>3. i - Len(a) = j - Len(a)
    BY <2>2 DEF x, y
  <2> QED BY <2>3, <1>3
<1>8. (i <= Len(a)) <=> (j <= Len(a))
  <2>1. DOMAIN (c[i].query[2]) = DOMAIN (c[j].query[2])
    OBVIOUS
  <2> QED BY <1>4, <1>5, <2>1
<1> QED BY <1>6, <1>7, <1>8

\* A plan is tested with the arguments it names.
LEMMA ArgumentsNamed ==
  ASSUME NEW s, NEW length \in {1, 2}, NEW calls, DOMAIN calls = 1..length,
         \A i \in 1..length : calls[i].symbolic \in BOOLEAN, Plans!HasArgument(calls)
  PROVE  {Plans!Plan(s, calls).variables[n] : n \in DOMAIN Plans!Plan(s, calls).variables}
           = Plans!Names(Plans!TestOf(Plans!Plan(s, calls)))
<1> DEFINE plan == Plans!Plan(s, calls)
           v == plan.variables
           A == {j \in DOMAIN calls : calls[j].symbolic}
           before(i) == Cardinality({j \in 1..i - 1 : calls[j].symbolic})
<1>1. v = [i \in A |-> IF before(i) = 0 THEN "arg0" ELSE "arg1"]
  BY PlansCount DEF Plans!Plan
<1>2. A # {} /\ A \subseteq 1..length
  BY DEF Plans!HasArgument
<1>3. before(1) = 0
  <2>1. {j \in 1..1 - 1 : calls[j].symbolic} = {}
    OBVIOUS
  <2> QED BY <2>1, FS_EmptySet
<1>4. 2 \in A => before(2) = IF 1 \in A THEN 1 ELSE 0
  <2> SUFFICES ASSUME 2 \in A PROVE before(2) = IF 1 \in A THEN 1 ELSE 0
    OBVIOUS
  <2>1. 1 \in DOMAIN calls
    OBVIOUS
  <2>2. {j \in 1..2 - 1 : calls[j].symbolic} = IF 1 \in A THEN {1} ELSE {}
    BY <2>1
  <2>3. Cardinality({}) = 0 /\ Cardinality({1}) = 1
    BY FS_EmptySet, FS_Singleton
  <2>4. CASE 1 \in A
    BY <2>2, <2>3, <2>4
  <2>5. CASE 1 \notin A
    BY <2>2, <2>3, <2>5
  <2> QED BY <2>4, <2>5
<1>5. Plans!TestOf(plan) = IF Cardinality(DOMAIN v) = 2 THEN "suffix2" ELSE "suffix1"
  BY PlansCount DEF Plans!TestOf
<1> HIDE DEF plan, before
<1>6. DOMAIN v = A
  BY <1>1
<1>7. Cardinality({1}) = 1 /\ Cardinality({2}) = 1 /\ Cardinality({1, 2}) = 2
  <2>1. IsFiniteSet({1}) /\ Cardinality({1}) = 1 /\ Cardinality({2}) = 1
    BY ONLY FS_Singleton
  <2>2. 2 \notin {1}
    OBVIOUS
  <2>3. Cardinality({1} \cup {2}) = Cardinality({1}) + 1
    BY ONLY <2>1, <2>2, FS_AddElement
  <2>4. {1, 2} = {1} \cup {2}
    OBVIOUS
  <2>5. Cardinality({1} \cup {2}) = 2
    BY ONLY <2>1, <2>3
  <2>6. Cardinality({1, 2}) = 2
    BY ONLY <2>4, <2>5
  <2> QED BY ONLY <2>1, <2>6
<1>8. A = {1} \/ A = {2} \/ A = {1, 2}
  <2>1. \A i \in 1..length : i = 1 \/ i = 2
    OBVIOUS
  <2> HIDE DEF A
  <2> QED BY <1>2, <2>1
<1>9. \A i \in A : v[i] = IF before(i) = 0 THEN "arg0" ELSE "arg1"
  BY <1>1
<1> HIDE DEF v, A
<1>13. {v[n] : n \in DOMAIN v} = Plans!Names(Plans!TestOf(plan))
  <2>1. CASE A = {1}
    <3>1. v[1] = "arg0" /\ Plans!TestOf(plan) = "suffix1" /\ {v[n] : n \in {1}} = {v[1]}
      BY <1>3, <1>5, <1>6, <1>7, <1>9, <2>1
    <3> QED BY <1>6, <2>1, <3>1 DEF Plans!Names
  <2>2. CASE A = {2}
    <3>1. before(2) = 0
      BY <1>4, <2>2
    <3>2. v[2] = "arg0" /\ Plans!TestOf(plan) = "suffix1" /\ {v[n] : n \in {2}} = {v[2]}
      BY <1>5, <1>6, <1>7, <1>9, <2>2, <3>1
    <3> QED BY <1>6, <2>2, <3>2 DEF Plans!Names
  <2>3. CASE A = {1, 2}
    <3>1. before(2) = 1
      BY <1>4, <2>3
    <3>2. v[1] = "arg0" /\ v[2] = "arg1" /\ {v[n] : n \in {1, 2}} = {v[1], v[2]}
      BY <1>3, <1>9, <2>3, <3>1
    <3>3. Plans!TestOf(plan) = "suffix2"
      BY <1>5, <1>6, <1>7, <2>3
    <3> QED BY <1>6, <2>3, <3>2, <3>3 DEF Plans!Names
  <2> QED BY <1>8, <2>1, <2>2, <2>3
<1> QED BY <1>13 DEF v, plan

\* Nothing useful is left out of the plans below the limit, and each plan names the
\* arguments of its test.
LEMMA PlansAlwaysComplete ==
  ASSUME Plans!PlansAssumption, observed \in Seq(Observable)
  PROVE  Plans!PlansAreComplete
<1> SUFFICES ASSUME NEW s \in Plans!Range(Plans!Selected(5, observed)), NEW length \in {1, 2}
             PROVE  LET plans == Plans!EnumeratePlans(s, length)
                    IN  /\ Len(plans) = (IF Cardinality(Useful(length)) < MaxPlans
                                        THEN Cardinality(Useful(length)) ELSE MaxPlans)
                        /\ \A i \in DOMAIN plans :
                             LET v == plans[i].variables
                             IN  {v[n] : n \in DOMAIN v} = Plans!Names(Plans!TestOf(plans[i]))
  BY PlansCount DEF Plans!PlansAreComplete, Useful
<1>1. s \in Observable /\ Plans!Eligible(5, s)
  <2> DEFINE sel == Plans!Selected(5, observed)
  <2>1. sel \in Seq(Observable) /\ \A n \in 1..Len(sel) : Plans!Eligible(5, sel[n])
    BY SelectedOnce
  <2>2. PICK n \in DOMAIN sel : s = sel[n]
    BY DEF Plans!Range
  <2> HIDE DEF sel
  <2> QED BY <2>1, <2>2
<1> DEFINE plans == Plans!EnumeratePlans(s, length)
           C == Plans!CallChoices(length)
           N == Len(C)
<1>2. plans \in Seq(AnyPlan) /\ Len(plans) = LesserOf(Cardinality(Useful(length)), MaxPlans)
      /\ \E from : TakenFrom(plans, PlansOf(s, length), Useful(length), from)
  BY <1>1, Enumerated
<1>3. PICK from : TakenFrom(plans, PlansOf(s, length), Useful(length), from)
  BY <1>2
<1> HIDE DEF plans
<1>4. DOMAIN plans = 1..Len(plans)
  BY <1>2
<1>5. ASSUME NEW i \in DOMAIN plans
      PROVE  {plans[i].variables[n] : n \in DOMAIN plans[i].variables} = Plans!Names(Plans!TestOf(plans[i]))
  <2>1. from[i] \in Useful(length) /\ plans[i] = PlansOf(s, length)[from[i]]
    BY <1>3, <1>4 DEF TakenFrom
  <2> DEFINE calls == C[from[i]]
  <2>2. from[i] \in 1..N /\ Plans!HasArgument(calls)
    BY <2>1, Choices DEF Useful
  <2>3. plans[i] = Plans!Plan(s, calls)
    BY <2>1, <2>2 DEF PlansOf
  <2>4. DOMAIN calls = 1..length /\ \A k \in 1..length : calls[k].symbolic \in BOOLEAN
    BY <2>2, Choices
  <2> HIDE DEF calls
  <2>5. {Plans!Plan(s, calls).variables[n] : n \in DOMAIN Plans!Plan(s, calls).variables}
           = Plans!Names(Plans!TestOf(Plans!Plan(s, calls)))
    BY <2>2, <2>4, ArgumentsNamed
  <2> QED BY <2>3, <2>5
<1> QED BY <1>2, <1>5 DEF LesserOf, plans

\* What was reported stays a list of what the warmup may execute.
ObservedTyped == observed \in Seq(Observable)

\* The report of a warmup stays well typed.
LEMMA ObservedStays == SubjectsSpec => []ObservedTyped
<1>1. SubjectsInit => ObservedTyped
  BY DEF SubjectsInit, Plans!Init, ObservedTyped
<1>2. ObservedTyped /\ [SubjectsNext]_subjectsVars => ObservedTyped'
  <2> SUFFICES ASSUME ObservedTyped, [SubjectsNext]_subjectsVars PROVE ObservedTyped'
    OBVIOUS
  <2>1. CASE Plans!Next
    <3>1. PICK s \in Observable : observed' = Append(observed, s)
      BY <2>1 DEF Plans!Next, Plans!Observe
    <3> QED BY <3>1 DEF ObservedTyped
  <2>2. CASE observed' = observed
    BY <2>2 DEF ObservedTyped
  <2> QED BY <2>1, <2>2 DEF SubjectsNext, subjectsVars
<1> QED BY <1>1, <1>2, PTL DEF SubjectsSpec

\* What select_prefixes, select_stage5_prefixes and enumerate_plans make of a warmup
\* does not depend on the order in which it was executed, names no query twice and
\* leaves out no choice with something to solve, for any sequences, calls and limits.
THEOREM PlansAlwaysAnswer == SubjectsSpec => []PlansAnswerForWarmup
<1>1. ObservedTyped => PlansAnswerForWarmup
  BY SubjectsAssumption, OrderNeverMatters, QueriesAlwaysDiffer, PlansAlwaysComplete
     DEF ObservedTyped, PlansAnswerForWarmup
<1> QED BY <1>1, ObservedStays, PTL

-----------------------------------------------------------------------------
(* Configurations *)

\* The instance counts, joins and filters as this module does.
LEMMA StudiesCount == ASSUME NEW S PROVE Studies!Cardinality(S) = Cardinality(S)
BY DEF Studies!Cardinality, Cardinality

LEMMA StudiesJoined == ASSUME NEW l PROVE Studies!Joined(l) = Joined(l)
BY DEF Studies!Joined, Joined

LEMMA StudiesAmong == ASSUME NEW l, NEW S PROVE Studies!Among(l, S) = Among(l, S)
BY DEF Studies!Among, Among

\* Every sequence is a list of its elements.
LEMMA ListsAre ==
  ASSUME NEW T, NEW l \in Seq(T)
  PROVE  Studies!IsList(l)
<1>1. Len(l) \in Nat /\ l = [i \in 1..Len(l) |-> l[i]] /\ \A i \in 1..Len(l) : l[i] \in Studies!ToSet(l)
  BY DEF Studies!ToSet
<1> HIDE DEF Studies!ToSet
<1>2. [i \in 1..Len(l) |-> l[i]] \in Seq(Studies!ToSet(l))
  BY <1>1
<1> QED BY <1>1, <1>2 DEF Studies!IsList

\* A list that from_dict reads, by its places and by its elements.
LEMMA ListElements ==
  ASSUME NEW l, Studies!IsList(l)
  PROVE  /\ l \in Seq(Studies!ToSet(l)) /\ Len(l) \in Nat /\ DOMAIN l = 1..Len(l)
         /\ \A i \in 1..Len(l) : l[i] \in Studies!ToSet(l)
         /\ \A x \in Studies!ToSet(l) : \E i \in 1..Len(l) : l[i] = x
<1>1. l \in Seq(Studies!ToSet(l))
  BY DEF Studies!IsList
<1>2. Len(l) \in Nat /\ DOMAIN l = 1..Len(l)
  BY <1>1
<1> QED BY <1>1, <1>2 DEF Studies!ToSet

\* Taking out one place, or writing a value to it, leaves a list.
LEMMA ListsStay ==
  ASSUME NEW T, NEW l \in Seq(T), NEW i \in DOMAIN l
  PROVE  /\ Studies!RemoveAt(l, i) \in Seq(T)
         /\ \A x \in T : [l EXCEPT ![i] = x] \in Seq(T)
<1>1. Len(l) \in Nat /\ i \in 1..Len(l)
  OBVIOUS
<1>2. SubSeq(l, 1, i - 1) \in Seq(T) /\ SubSeq(l, i + 1, Len(l)) \in Seq(T)
  BY <1>1
<1>3. Studies!RemoveAt(l, i) = SubSeq(l, 1, i - 1) \o SubSeq(l, i + 1, Len(l))
  BY DEF Studies!RemoveAt
<1>4. Studies!RemoveAt(l, i) \in Seq(T)
  BY <1>2, <1>3
<1> QED BY <1>1, <1>4

\* A field that is set to a value of its kind leaves a configuration.
LEMMA FieldSet ==
  ASSUME NEW s, Studies!IsStudy(s), NEW field \in Studies!Fields, NEW value,
         Studies!Field(field, value)
  PROVE  Studies!IsStudy([s EXCEPT ![field] = value])
<1> DEFINE t == [s EXCEPT ![field] = value]
<1>1. DOMAIN s = Studies!Fields /\ \A f \in Studies!Fields : Studies!Field(f, s[f])
  BY DEF Studies!IsStudy
<1>2. DOMAIN t = Studies!Fields /\ \A f \in Studies!Fields : t[f] = IF f = field THEN value ELSE s[f]
  BY <1>1
<1> HIDE DEF t
<1>3. \A f \in Studies!Fields : Studies!Field(f, t[f])
  BY <1>1, <1>2
<1>4. Studies!IsStudy(t)
  BY <1>2, <1>3 DEF Studies!IsStudy
<1> QED BY <1>4 DEF t

\* What is known of the fields of a configuration.
LEMMA StudyIs ==
  ASSUME NEW s, Studies!IsStudy(s)
  PROVE  /\ DOMAIN s = Studies!Fields
         /\ Studies!IsList(s.fixtures) /\ Studies!IsList(s.repeats)
         /\ Studies!IsList(s.profiles) /\ Studies!IsList(s.boundary)
         /\ \A p \in Studies!ToSet(s.profiles) : Studies!IsProfile(p) /\ Studies!IsList(p.families)
         /\ \A r \in DOMAIN s.orders : Studies!IsList(s.orders[r])
<1>1. DOMAIN s = Studies!Fields /\ \A f \in Studies!Fields : Studies!Field(f, s[f])
  BY DEF Studies!IsStudy
<1>2. {"fixtures", "repeats", "profiles", "boundary", "orders"} \subseteq Studies!Fields
  BY DEF Studies!Fields
<1>3. /\ Studies!Field("fixtures", s["fixtures"]) /\ Studies!Field("repeats", s["repeats"])
      /\ Studies!Field("profiles", s["profiles"]) /\ Studies!Field("boundary", s["boundary"])
      /\ Studies!Field("orders", s["orders"])
  BY <1>1, <1>2
<1>4. ASSUME NEW p \in Studies!ToSet(s.profiles) PROVE Studies!IsProfile(p) /\ Studies!IsList(p.families)
  <2>1. Studies!IsProfile(p)
    BY <1>3 DEF Studies!Field
  <2>2. "families" \in Studies!ProfileFields
    BY DEF Studies!ProfileFields
  <2> QED BY <2>1, <2>2 DEF Studies!IsProfile, Studies!ProfileField
<1> QED BY <1>1, <1>3, <1>4 DEF Studies!Field

\* Each edit leaves a configuration.
LEMMA StudyStays ==
  ASSUME Studies!StudyAssumption, Studies!IsStudy(study), Studies!Next
  PROVE  Studies!IsStudy(study')
<1> DEFINE s == study
<1>1. /\ DOMAIN s = Studies!Fields /\ Studies!IsList(s.profiles)
      /\ \A p \in Studies!ToSet(s.profiles) : Studies!IsProfile(p)
      /\ \A r \in DOMAIN s.orders : Studies!IsList(s.orders[r])
  BY StudyIs
<1>2. "profiles" \in Studies!Fields /\ "orders" \in Studies!Fields
  BY DEF Studies!Fields
<1>3. /\ s.profiles \in Seq(Studies!ToSet(s.profiles))
      /\ \A i \in DOMAIN s.profiles : s.profiles[i] \in Studies!ToSet(s.profiles)
  BY <1>1 DEF Studies!IsList, Studies!ToSet
<1>4. CASE Studies!Edit
  <2>0. PICK field \in DOMAIN Changes : \E value \in Changes[field] : study' = [study EXCEPT ![field] = value]
    BY <1>4 DEF Studies!Edit
  <2>1. PICK value \in Changes[field] : study' = [study EXCEPT ![field] = value]
    BY <2>0
  <2>2. field \in Studies!Fields /\ Studies!Field(field, value)
    BY <2>1 DEF Studies!StudyAssumption
  <2> QED BY <2>1, <2>2, FieldSet
<1>5. ASSUME NEW list, Studies!IsList(list), \A p \in Studies!ToSet(list) : Studies!IsProfile(p)
      PROVE  Studies!Field("profiles", list)
  BY <1>5 DEF Studies!Field
<1>6. ASSUME NEW orders, \A r \in DOMAIN orders : Studies!IsList(orders[r])
      PROVE  Studies!Field("orders", orders)
  BY <1>6 DEF Studies!Field
<1>7. CASE Studies!EditProfile
  <2>0. PICK i \in DOMAIN study.profiles, field \in DOMAIN ProfileChanges :
          \E value \in ProfileChanges[field] : study' = [study EXCEPT !.profiles[i][field] = value]
    BY <1>7 DEF Studies!EditProfile
  <2>1. PICK value \in ProfileChanges[field] : study' = [study EXCEPT !.profiles[i][field] = value]
    BY <2>0
  <2> DEFINE p == study.profiles[i]
             q == [p EXCEPT ![field] = value]
             list == [study.profiles EXCEPT ![i] = q]
             T == Studies!ToSet(s.profiles) \cup {q}
  <2>2. study' = [study EXCEPT !["profiles"] = list]
    BY <2>1
  <2>3. Studies!IsProfile(p) /\ field \in Studies!ProfileFields /\ Studies!ProfileField(field, value)
    BY <1>1, <1>3, <2>1 DEF Studies!StudyAssumption
  <2>4. Studies!IsProfile(q)
    <3>1. DOMAIN p = Studies!ProfileFields
          /\ \A f \in Studies!ProfileFields : Studies!ProfileField(f, p[f])
      BY <2>3 DEF Studies!IsProfile
    <3>2. DOMAIN q = Studies!ProfileFields
          /\ \A f \in Studies!ProfileFields : q[f] = IF f = field THEN value ELSE p[f]
      BY <3>1
    <3> HIDE DEF q
    <3> QED BY <2>3, <3>1, <3>2 DEF Studies!IsProfile
  <2>5. list \in Seq(T)
    <3>1. study.profiles \in Seq(T) /\ q \in T
      BY <1>3
    <3> HIDE DEF q, T
    <3> QED BY <3>1, ListsStay
  <2>6. \A x \in T : Studies!IsProfile(x)
    BY <1>1, <2>4
  <2> HIDE DEF T, q, list
  <2>7. Studies!IsList(list)
    BY <2>5, ListsAre
  <2>8. Studies!ToSet(list) \subseteq T
    BY <2>5 DEF Studies!ToSet
  <2>9. Studies!Field("profiles", list)
    BY <1>5, <2>6, <2>7, <2>8
  <2> QED BY <1>2, <2>2, <2>9, FieldSet
<1>8. CASE Studies!RemoveProfile
  <2>1. PICK i \in DOMAIN study.profiles :
          study' = [study EXCEPT !.profiles = Studies!RemoveAt(@, i),
                                 !.orders = [r \in DOMAIN @ |->
                                     Studies!Among(@[r], Studies!ToSet(@[r]) \ {study.profiles[i].id})]]
    BY <1>8 DEF Studies!RemoveProfile
  <2> DEFINE list == Studies!RemoveAt(study.profiles, i)
             orders == [r \in DOMAIN study.orders |->
                          Studies!Among(study.orders[r],
                                        Studies!ToSet(study.orders[r]) \ {study.profiles[i].id})]
             t == [study EXCEPT !["profiles"] = list]
             T == Studies!ToSet(s.profiles)
  <2>2. study' = [t EXCEPT !["orders"] = orders]
    BY <1>1, <1>2, <2>1
  <2>3. list \in Seq(T)
    <3> HIDE DEF T
    <3> QED BY <1>3, ListsStay DEF T
  <2>4. \A r \in DOMAIN orders : Studies!IsList(orders[r])
    <3> SUFFICES ASSUME NEW r \in DOMAIN study.orders PROVE Studies!IsList(orders[r])
      OBVIOUS
    <3> DEFINE l == study.orders[r]
               S == Studies!ToSet(l) \ {study.profiles[i].id}
    <3>1. l \in Seq(Studies!ToSet(l))
      BY <1>1, ListElements
    <3>2. orders[r] = Among(l, S)
      BY StudiesAmong
    <3> HIDE DEF l, S
    <3>3. Among(l, S) \in Seq(Studies!ToSet(l))
      BY <3>1, AmongInside
    <3> QED BY <3>2, <3>3, ListsAre
  <2> HIDE DEF list, orders, T
  <2>5. Studies!IsList(list) /\ Studies!ToSet(list) \subseteq T
    BY <2>3, ListsAre DEF Studies!ToSet
  <2>6. Studies!Field("profiles", list)
    BY <1>1, <1>5, <2>5 DEF T
  <2>7. Studies!IsStudy(t)
    BY <1>2, <2>6, FieldSet
  <2>8. Studies!Field("orders", orders)
    BY <1>6, <2>4
  <2> HIDE DEF t
  <2> QED BY <1>2, <2>2, <2>7, <2>8, FieldSet
<1>9. CASE Studies!EditOrder
  <2>0. PICK r \in DOMAIN study.orders : \E i \in DOMAIN study.orders[r] :
          \/ study' = [study EXCEPT !.orders[r] = Studies!RemoveAt(@, i)]
          \/ study' = [study EXCEPT !.orders[r][i] = study.orders[r][1]]
    BY <1>9 DEF Studies!EditOrder
  <2>1. PICK i \in DOMAIN study.orders[r] :
          \/ study' = [study EXCEPT !.orders[r] = Studies!RemoveAt(@, i)]
          \/ study' = [study EXCEPT !.orders[r][i] = study.orders[r][1]]
    BY <2>0
  <2> DEFINE l == study.orders[r]
             T == Studies!ToSet(l)
  <2>2. l \in Seq(T) /\ DOMAIN l = 1..Len(l) /\ Len(l) \in Nat
        /\ \A k \in 1..Len(l) : l[k] \in T
    BY <1>1, ListElements
  <2>3. 1 \in 1..Len(l)
    BY <2>1, <2>2
  <2>4. ASSUME NEW m \in Seq(T) PROVE Studies!IsStudy([study EXCEPT !["orders"] = [study.orders EXCEPT ![r] = m]])
    <3> DEFINE orders == [study.orders EXCEPT ![r] = m]
    <3> HIDE DEF T
    <3>1. Studies!IsList(m)
      BY <2>4, ListsAre
    <3>2. \A x \in DOMAIN orders : Studies!IsList(orders[x])
      BY <1>1, <3>1
    <3> HIDE DEF orders
    <3>3. Studies!Field("orders", orders)
      BY <1>6, <3>2
    <3> QED BY <1>2, <3>3, FieldSet DEF orders
  <2>5. CASE study' = [study EXCEPT !.orders[r] = Studies!RemoveAt(@, i)]
    <3>1. Studies!RemoveAt(l, i) \in Seq(T)
      <4> HIDE DEF T
      <4> QED BY <2>1, <2>2, ListsStay
    <3>2. study' = [study EXCEPT !["orders"] = [study.orders EXCEPT ![r] = Studies!RemoveAt(l, i)]]
      BY <2>5
    <3> QED BY <3>1, <3>2, <2>4
  <2>6. CASE study' = [study EXCEPT !.orders[r][i] = study.orders[r][1]]
    <3>1. [l EXCEPT ![i] = l[1]] \in Seq(T)
      <4>1. l[1] \in T
        BY <2>2, <2>3
      <4> HIDE DEF T
      <4> QED BY <2>1, <2>2, <4>1, ListsStay
    <3>2. study' = [study EXCEPT !["orders"] = [study.orders EXCEPT ![r] = [l EXCEPT ![i] = l[1]]]]
      BY <2>6
    <3> QED BY <3>1, <3>2, <2>4
  <2> QED BY <2>1, <2>5, <2>6
<1> QED BY <1>4, <1>7, <1>8, <1>9 DEF Studies!Next

\* A list whose elements are as many as its places has each of them once.
LEMMA DistinctTells ==
  ASSUME NEW T, NEW l \in Seq(T), Studies!Cardinality(Studies!ToSet(l)) = Len(l)
  PROVE  \A i, j \in 1..Len(l) : l[i] = l[j] => i = j
<1> DEFINE n == Len(l)
           S == Studies!ToSet(l)
           f == [i \in 1..n |-> l[i]]
<1>1. n \in Nat /\ DOMAIN l = 1..n
  OBVIOUS
<1>2. (\A i \in 1..n : l[i] \in S) /\ \A x \in S : \E i \in 1..n : l[i] = x
  BY <1>1 DEF Studies!ToSet
<1> HIDE DEF S, n
<1>3. f \in [1..n -> S] /\ (\A x \in S : \E i \in 1..n : f[i] = x) /\ \A i \in 1..n : f[i] = l[i]
  BY <1>2
<1> HIDE DEF f
<1>4. f \in Surjection(1..n, S)
  BY <1>3, Fun_IsSurj
<1>5. IsFiniteSet(1..n) /\ Cardinality(1..n) = n
  BY <1>1, CountTo
<1>6. Cardinality(S) = n
  BY StudiesCount DEF S, n
<1>7. f \in Injection(1..n, S)
  BY <1>4, <1>5, <1>6, FS_Surjection
<1>8. \A i, j \in 1..n : f[i] = f[j] => i = j
  BY <1>7, Fun_InjectionProperties
<1> QED BY <1>3, <1>8 DEF n

\* The other way round.
LEMMA ElementsCounted ==
  ASSUME NEW T, NEW l \in Seq(T), \A i, j \in 1..Len(l) : l[i] = l[j] => i = j
  PROVE  IsFiniteSet(Studies!ToSet(l)) /\ Cardinality(Studies!ToSet(l)) = Len(l)
<1> DEFINE n == Len(l)
           S == Studies!ToSet(l)
           f == [i \in 1..n |-> l[i]]
<1>1. n \in Nat /\ DOMAIN l = 1..n
  OBVIOUS
<1>2. (\A i \in 1..n : l[i] \in S) /\ \A x \in S : \E i \in 1..n : l[i] = x
  BY <1>1 DEF Studies!ToSet
<1>3. \A i, j \in 1..n : l[i] = l[j] => i = j
  OBVIOUS
<1> HIDE DEF S, n
<1>4. f \in [1..n -> S] /\ (\A x \in S : \E i \in 1..n : f[i] = x) /\ \A i, j \in 1..n : f[i] = f[j] => i = j
  BY <1>2, <1>3
<1> HIDE DEF f
<1>5. IsFiniteSet(1..n) /\ Cardinality(1..n) = n
  BY <1>1, CountTo
<1>6. IsFiniteSet(S) /\ Cardinality(S) = Cardinality(1..n)
  BY ONLY <1>4, <1>5, Matched
<1> QED BY <1>5, <1>6 DEF S, n

-----------------------------------------------------------------------------
(* The matrix of a study *)

ProfilesOf(s) == Studies!ToSet(s.profiles)
Ids(s) == {p.id : p \in ProfilesOf(s)}
ProfileOf(s, id) == CHOOSE p \in ProfilesOf(s) : p.id = id
FixturesOf(s) == Studies!ToSet(s.fixtures)
RepeatsOf(s) == Studies!ToSet(s.repeats)

\* What follows from a valid configuration for the lists of a study.
Laidout(s) ==
  /\ s.fixtures \in Seq(FixturesOf(s)) /\ s.repeats \in Seq(RepeatsOf(s))
  /\ s.profiles \in Seq(ProfilesOf(s))
  /\ \A i, j \in 1..Len(s.profiles) : s.profiles[i].id = s.profiles[j].id => i = j
  /\ \A i, j \in 1..Len(s.profiles) :
       Studies!ExecutionIdentity(s.profiles[i]) = Studies!ExecutionIdentity(s.profiles[j]) => i = j
  /\ \A r \in RepeatsOf(s) :
       /\ s.orders[r] \in Seq(Ids(s)) /\ Len(s.orders[r]) = Len(s.profiles)
       /\ \A id \in Ids(s) : \E i \in 1..Len(s.profiles) : s.orders[r][i] = id
       /\ \A i, j \in 1..Len(s.profiles) : s.orders[r][i] = s.orders[r][j] => i = j

\* What validate demands of the lists makes them lists without repetition, and the
\* order of every repeat a permutation of the profiles.
LEMMA ValidIsLaidout ==
  ASSUME NEW s, Studies!IsStudy(s), Studies!ConfigurationValid(s)
  PROVE  Laidout(s)
<1> DEFINE n == Len(s.profiles)
           ids == Studies!ProfileIds(s)
           identities == [i \in DOMAIN s.profiles |-> Studies!ExecutionIdentity(s.profiles[i])]
<1>1. /\ s.fixtures \in Seq(FixturesOf(s)) /\ s.repeats \in Seq(RepeatsOf(s))
      /\ s.profiles \in Seq(ProfilesOf(s))
  BY StudyIs DEF Studies!IsList, FixturesOf, RepeatsOf, ProfilesOf
<1>2. n \in Nat /\ DOMAIN s.profiles = 1..n /\ (\A i \in 1..n : s.profiles[i] \in ProfilesOf(s))
      /\ \A p \in ProfilesOf(s) : \E i \in 1..n : s.profiles[i] = p
  BY StudyIs, ListElements DEF ProfilesOf
<1>3. /\ Studies!Distinct(ids) /\ Studies!Distinct(identities)
      /\ \A r \in RepeatsOf(s) : Studies!OrderValid(s, r)
  BY DEF Studies!ConfigurationValid, RepeatsOf
<1>4. ids = [i \in 1..n |-> s.profiles[i].id] /\ identities = [i \in 1..n |-> Studies!ExecutionIdentity(s.profiles[i])]
  BY <1>2 DEF Studies!ProfileIds
<1> HIDE DEF n, ids, identities
<1>5. ids \in Seq(Ids(s)) /\ Len(ids) = n /\ \A i \in 1..n : ids[i] = s.profiles[i].id
  <2>1. \A i \in 1..n : s.profiles[i].id \in Ids(s)
    BY <1>2 DEF Ids
  <2> QED BY <1>2, <1>4, <2>1
<1>6. \A i, j \in 1..n : ids[i] = ids[j] => i = j
  <2>1. Studies!Cardinality(Studies!ToSet(ids)) = Len(ids)
    BY <1>3 DEF Studies!Distinct
  <2> QED BY <1>5, <2>1, DistinctTells
<1>7. \A i, j \in 1..n : identities[i] = identities[j] => i = j
  <2> DEFINE T == {identities[i] : i \in 1..n}
  <2>1. identities \in Seq(T) /\ Len(identities) = n
    BY <1>2, <1>4
  <2>2. Studies!Cardinality(Studies!ToSet(identities)) = Len(identities)
    BY <1>3 DEF Studies!Distinct
  <2> HIDE DEF T
  <2> QED BY <2>1, <2>2, DistinctTells
<1>8. Studies!ToSet(ids) = Ids(s)
  <2>1. DOMAIN ids = 1..n
    BY <1>4
  <2>2. \A x : x \in Studies!ToSet(ids) <=> \E i \in 1..n : ids[i] = x
    BY <2>1 DEF Studies!ToSet
  <2>3. \A x : x \in Ids(s) <=> \E i \in 1..n : s.profiles[i].id = x
    BY <1>2 DEF Ids
  <2> QED BY <1>5, <2>2, <2>3
<1>9. Studies!Cardinality(Ids(s)) = n
  BY <1>3, <1>5, <1>8 DEF Studies!Distinct
<1>10. ASSUME NEW r \in RepeatsOf(s)
       PROVE  /\ s.orders[r] \in Seq(Ids(s)) /\ Len(s.orders[r]) = n
              /\ \A id \in Ids(s) : \E i \in 1..n : s.orders[r][i] = id
              /\ \A i, j \in 1..n : s.orders[r][i] = s.orders[r][j] => i = j
  <2> DEFINE l == s.orders[r]
  <2>1. r \in DOMAIN s.orders /\ Len(l) = n /\ Studies!ToSet(l) = Ids(s)
    BY <1>3, <1>8 DEF Studies!OrderValid, n, ids
  <2>2. Studies!IsList(l)
    BY <2>1, StudyIs
  <2> HIDE DEF l
  <2>3. l \in Seq(Ids(s)) /\ \A id \in Ids(s) : \E i \in 1..n : l[i] = id
    BY <2>1, <2>2, ListElements
  <2>4. Studies!Cardinality(Studies!ToSet(l)) = Len(l)
    BY <1>9, <2>1
  <2>5. \A i, j \in 1..n : l[i] = l[j] => i = j
    BY <2>1, <2>3, <2>4, DistinctTells
  <2> QED BY <2>1, <2>3, <2>5 DEF l
<1>11. \A i, j \in 1..n : s.profiles[i].id = s.profiles[j].id => i = j
  BY <1>5, <1>6
<1>12. \A i, j \in 1..n :
         Studies!ExecutionIdentity(s.profiles[i]) = Studies!ExecutionIdentity(s.profiles[j]) => i = j
  BY <1>4, <1>7
<1> QED BY <1>1, <1>10, <1>11, <1>12 DEF Laidout, n

\* Profiles are told apart by their ids and by what they execute.
LEMMA ProfilesTell ==
  ASSUME NEW s, Laidout(s), NEW p \in ProfilesOf(s), NEW q \in ProfilesOf(s)
  PROVE  /\ p.id = q.id => p = q
         /\ Studies!ExecutionIdentity(p) = Studies!ExecutionIdentity(q) => p = q
         /\ ProfileOf(s, p.id) = p
<1>1. DOMAIN s.profiles = 1..Len(s.profiles)
  BY DEF Laidout
<1>2. PICK i \in 1..Len(s.profiles) : p = s.profiles[i]
  BY <1>1 DEF ProfilesOf, Studies!ToSet
<1>3. PICK j \in 1..Len(s.profiles) : q = s.profiles[j]
  BY <1>1 DEF ProfilesOf, Studies!ToSet
<1>4. \A x \in ProfilesOf(s) : x.id = p.id => x = p
  <2> SUFFICES ASSUME NEW x \in ProfilesOf(s), x.id = p.id PROVE x = p
    OBVIOUS
  <2>1. PICK k \in 1..Len(s.profiles) : x = s.profiles[k]
    BY <1>1 DEF ProfilesOf, Studies!ToSet
  <2> QED BY <1>2, <2>1 DEF Laidout
<1>5. p.id = q.id => p = q
  BY <1>4
<1>6. Studies!ExecutionIdentity(p) = Studies!ExecutionIdentity(q) => p = q
  BY <1>2, <1>3 DEF Laidout
<1>7. ProfileOf(s, p.id) = p
  BY <1>4 DEF ProfileOf
<1> QED BY <1>5, <1>6, <1>7

Row(s, f, r) == [i \in DOMAIN s.orders[r] |-> Studies!Slot(s, f, r, s.orders[r][i])]
Rows(s, f) == [j \in DOMAIN s.repeats |-> Row(s, f, s.repeats[j])]
BlockLists(s) == [k \in DOMAIN s.fixtures |-> Joined(Rows(s, s.fixtures[k]))]
AnySlot(s) == {Studies!Slot(s, f, r, id) : f \in FixturesOf(s), r \in RepeatsOf(s), id \in Ids(s)}

\* The slots are the blocks of each fixture, joined.
LEMMA SlotsLaid == ASSUME NEW s PROVE Studies!Slots(s) = Joined(BlockLists(s))
BY StudiesJoined DEF Studies!Slots, BlockLists, Rows, Row

\* A row runs one fixture and one repeat in the order of that repeat.
LEMMA RowsLaid ==
  ASSUME NEW s, Laidout(s), NEW f \in FixturesOf(s)
  PROVE  /\ \A r \in RepeatsOf(s) :
              /\ Row(s, f, r) \in Seq(AnySlot(s)) /\ Len(Row(s, f, r)) = Len(s.profiles)
              /\ \A i \in 1..Len(s.profiles) : Row(s, f, r)[i] = Studies!Slot(s, f, r, s.orders[r][i])
         /\ Rows(s, f) \in Seq(Seq(AnySlot(s))) /\ Len(Rows(s, f)) = Len(s.repeats)
         /\ \A j \in 1..Len(s.repeats) : s.repeats[j] \in RepeatsOf(s) /\ Rows(s, f)[j] = Row(s, f, s.repeats[j])
<1>1. ASSUME NEW r \in RepeatsOf(s)
      PROVE  /\ Row(s, f, r) \in Seq(AnySlot(s)) /\ Len(Row(s, f, r)) = Len(s.profiles)
             /\ \A i \in 1..Len(s.profiles) : Row(s, f, r)[i] = Studies!Slot(s, f, r, s.orders[r][i])
  <2> DEFINE n == Len(s.profiles)
             l == s.orders[r]
             slot(i) == Studies!Slot(s, f, r, l[i])
  <2>1. n \in Nat /\ l \in Seq(Ids(s)) /\ Len(l) = n
    BY DEF Laidout
  <2> HIDE DEF n, l
  <2>2. DOMAIN l = 1..n /\ \A i \in 1..n : l[i] \in Ids(s)
    BY <2>1
  <2>3. \A i \in 1..n : slot(i) \in AnySlot(s)
    BY <2>2 DEF AnySlot
  <2>4. Row(s, f, r) = [i \in 1..n |-> slot(i)]
    BY <2>2 DEF Row, l
  <2> HIDE DEF slot
  <2>5. Row(s, f, r) \in Seq(AnySlot(s)) /\ Len(Row(s, f, r)) = n /\ \A i \in 1..n : Row(s, f, r)[i] = slot(i)
    BY <2>1, <2>3, <2>4
  <2> QED BY <2>5 DEF n, l, slot
<1>2. Len(s.repeats) \in Nat /\ DOMAIN s.repeats = 1..Len(s.repeats)
      /\ \A j \in 1..Len(s.repeats) : s.repeats[j] \in RepeatsOf(s)
  BY DEF Laidout
<1>3. Rows(s, f) = [j \in 1..Len(s.repeats) |-> Row(s, f, s.repeats[j])]
  BY <1>2 DEF Rows
<1>4. \A j \in 1..Len(s.repeats) : Row(s, f, s.repeats[j]) \in Seq(AnySlot(s))
  BY <1>1, <1>2
<1> QED BY <1>1, <1>2, <1>3, <1>4

\* There is one list of blocks for each fixture.
LEMMA BlockListsLaid ==
  ASSUME NEW s, Laidout(s)
  PROVE  /\ BlockLists(s) \in Seq(Seq(AnySlot(s))) /\ Len(BlockLists(s)) = Len(s.fixtures)
         /\ \A k \in 1..Len(s.fixtures) : s.fixtures[k] \in FixturesOf(s) /\ BlockLists(s)[k] = Joined(Rows(s, s.fixtures[k]))
<1>1. Len(s.fixtures) \in Nat /\ DOMAIN s.fixtures = 1..Len(s.fixtures)
      /\ \A k \in 1..Len(s.fixtures) : s.fixtures[k] \in FixturesOf(s)
  BY DEF Laidout
<1>2. BlockLists(s) = [k \in 1..Len(s.fixtures) |-> Joined(Rows(s, s.fixtures[k]))]
  BY <1>1 DEF BlockLists
<1>3. ASSUME NEW k \in 1..Len(s.fixtures) PROVE Joined(Rows(s, s.fixtures[k])) \in Seq(AnySlot(s))
  <2> DEFINE f == s.fixtures[k]
             lists == Rows(s, f)
             T == AnySlot(s)
  <2>1. f \in FixturesOf(s)
    BY <1>1
  <2> HIDE DEF f
  <2>2. lists \in Seq(Seq(T))
    BY <2>1, RowsLaid
  <2> HIDE DEF lists, T
  <2>3. Joined(lists) \in Seq(T)
    BY <2>2, JoinedInside
  <2> QED BY <2>3 DEF lists, T, f
<1> QED BY <1>1, <1>2, <1>3

\* The slots of a study are those of every fixture, repeat and profile.
LEMMA SlotsAre ==
  ASSUME NEW s, Laidout(s)
  PROVE  /\ Studies!Slots(s) \in Seq(AnySlot(s))
         /\ Studies!ToSet(Studies!Slots(s)) = AnySlot(s)
<1> DEFINE T == AnySlot(s)
           lists == BlockLists(s)
           slots == Joined(lists)
<1>1. lists \in Seq(Seq(T)) /\ Len(lists) = Len(s.fixtures)
  BY BlockListsLaid
<1>2. slots \in Seq(T) /\ \A n \in 1..Len(lists) : \A i \in 1..Len(lists[n]) :
                            \E k \in 1..Len(slots) : slots[k] = lists[n][i]
  <2>1. lists \in Seq(Seq(T))
    BY <1>1
  <2> HIDE DEF lists, T
  <2> QED BY ONLY <2>1, JoinedInside
<1>3. Studies!Slots(s) = slots
  BY SlotsLaid
<1> HIDE DEF slots
<1>4. \A t \in Studies!ToSet(slots) : t \in T
  BY <1>2 DEF Studies!ToSet
<1>5. ASSUME NEW t \in T PROVE t \in Studies!ToSet(slots)
  <2>1. PICK f \in FixturesOf(s), r \in RepeatsOf(s), id \in Ids(s) : t = Studies!Slot(s, f, r, id)
    BY DEF AnySlot
  <2>2. PICK k \in 1..Len(s.fixtures) : s.fixtures[k] = f
    BY DEF Laidout, FixturesOf, Studies!ToSet
  <2>3. PICK j \in 1..Len(s.repeats) : s.repeats[j] = r
    BY DEF Laidout, RepeatsOf, Studies!ToSet
  <2>4. PICK i \in 1..Len(s.profiles) : s.orders[r][i] = id
    BY DEF Laidout
  <2> DEFINE rows == Rows(s, f)
  <2>5. /\ Row(s, f, r)[i] = t /\ Len(Row(s, f, r)) = Len(s.profiles)
        /\ rows[j] = Row(s, f, r) /\ rows \in Seq(Seq(T)) /\ Len(rows) = Len(s.repeats)
    BY <2>1, <2>3, <2>4, RowsLaid
  <2>6. lists[k] = Joined(rows)
    BY <2>2, BlockListsLaid
  <2> HIDE DEF rows, lists, T
  <2>7. \E m \in 1..Len(Joined(rows)) : Joined(rows)[m] = rows[j][i]
    <3>1. \A a \in 1..Len(rows) : \A b \in 1..Len(rows[a]) :
            \E m \in 1..Len(Joined(rows)) : Joined(rows)[m] = rows[a][b]
      <4>1. rows \in Seq(Seq(T))
        BY <2>5
      <4> QED BY ONLY <4>1, JoinedInside
    <3>2. j \in 1..Len(rows) /\ i \in 1..Len(rows[j])
      BY <2>5
    <3> QED BY <3>1, <3>2
  <2>8. PICK m \in 1..Len(lists[k]) : lists[k][m] = t
    BY <2>5, <2>6, <2>7
  <2>9. k \in 1..Len(lists)
    BY <1>1
  <2>10. PICK x \in 1..Len(slots) : slots[x] = lists[k][m]
    BY <1>2, <2>9
  <2>11. x \in DOMAIN slots /\ slots[x] = t
    BY <1>2, <2>8, <2>10
  <2> QED BY <2>11 DEF Studies!ToSet
<1> QED BY <1>2, <1>3, <1>4, <1>5

\* A slot shows its fixture, its repeat and the profile of its name.
LEMMA SlotIs ==
  ASSUME NEW s, NEW f, NEW r, NEW id \in Ids(s)
  PROVE  /\ Studies!Slot(s, f, r, id).fixture = f /\ Studies!Slot(s, f, r, id).repeat = r
         /\ Studies!Slot(s, f, r, id).profile = ProfileOf(s, id)
         /\ ProfileOf(s, id) \in ProfilesOf(s) /\ ProfileOf(s, id).id = id
<1>1. \E p \in ProfilesOf(s) : p.id = id
  BY DEF Ids
<1>2. ProfileOf(s, id) \in ProfilesOf(s) /\ ProfileOf(s, id).id = id
  BY <1>1 DEF ProfileOf
<1> QED BY <1>2 DEF Studies!Slot, ProfileOf, ProfilesOf

\* The slots of an accepted configuration are the product of its fixtures, repeats and
\* profiles, each once.
LEMMA BlocksAlwaysComplete ==
  ASSUME Studies!IsStudy(study)
  PROVE  Studies!BlocksAreComplete
<1> DEFINE s == study
           slots == Studies!Slots(s)
           matrix == FixturesOf(s) \X RepeatsOf(s) \X Ids(s)
<1> SUFFICES ASSUME Studies!Accepted(s)
             PROVE  Studies!SlotIds(slots) = matrix /\ Len(slots) = Cardinality(matrix)
  BY StudiesCount DEF Studies!BlocksAreComplete, FixturesOf, RepeatsOf, Ids, ProfilesOf
<1>1. Laidout(s)
  BY ValidIsLaidout DEF Studies!Accepted
<1>2. Studies!ToSet(slots) = AnySlot(s)
  BY <1>1, SlotsAre
<1>3. Studies!SlotIds(slots) = {<<t.fixture, t.repeat, t.profile.id>> : t \in AnySlot(s)}
  BY <1>2 DEF Studies!SlotIds
<1>4. ASSUME NEW x \in matrix PROVE \E t \in AnySlot(s) : x = <<t.fixture, t.repeat, t.profile.id>>
  <2>1. PICK f \in FixturesOf(s), r \in RepeatsOf(s), id \in Ids(s) : x = <<f, r, id>>
    OBVIOUS
  <2> DEFINE t == Studies!Slot(s, f, r, id)
  <2>2. t \in AnySlot(s)
    BY DEF AnySlot
  <2>3. t.fixture = f /\ t.repeat = r /\ t.profile = ProfileOf(s, id) /\ ProfileOf(s, id).id = id
    BY SlotIs
  <2> HIDE DEF t
  <2> QED BY <2>1, <2>2, <2>3
<1>5. ASSUME NEW t \in AnySlot(s) PROVE <<t.fixture, t.repeat, t.profile.id>> \in matrix
  <2>1. PICK f \in FixturesOf(s), r \in RepeatsOf(s), id \in Ids(s) : t = Studies!Slot(s, f, r, id)
    BY DEF AnySlot
  <2>2. t.fixture = f /\ t.repeat = r /\ t.profile = ProfileOf(s, id) /\ ProfileOf(s, id).id = id
    BY <2>1, SlotIs
  <2> QED BY <2>2
<1> HIDE DEF matrix
<1>6. Studies!SlotIds(slots) = matrix
  BY <1>3, <1>4, <1>5
<1>7. Studies!Cardinality(Studies!SlotIds(slots)) = Len(slots)
  BY DEF Studies!Accepted, Studies!SlotIdsDiffer
<1> QED BY <1>6, <1>7, StudiesCount

-----------------------------------------------------------------------------
(* The frozen protocols *)

\* The profiles of a family.
FamilyOf(s, family) == {p \in ProfilesOf(s) : Studies!In(p, family)}

\* Filtering the profiles by a family gives all of that family, each once.
LEMMA FamilyIs ==
  ASSUME NEW s, Laidout(s), NEW family
  PROVE  /\ Studies!ToSet(Studies!OfFamily(s, family)) = FamilyOf(s, family)
         /\ IsFiniteSet(FamilyOf(s, family))
         /\ Cardinality(FamilyOf(s, family)) = Len(Studies!OfFamily(s, family))
<1> DEFINE P == ProfilesOf(s)
           l == s.profiles
           F == FamilyOf(s, family)
           n == Len(l)
           m == Among(l, F)
           A == {k \in 1..n : l[k] \in F}
           f == [k \in A |-> l[k]]
<1>1. l \in Seq(P) /\ n \in Nat /\ DOMAIN l = 1..n /\ \A i, j \in 1..n : l[i] = l[j] => i = j
  BY DEF Laidout
<1>2. Studies!OfFamily(s, family) = m
  BY StudiesAmong DEF Studies!OfFamily, FamilyOf, ProfilesOf
<1>3. \A p \in P : \E k \in 1..n : l[k] = p
  BY <1>1 DEF ProfilesOf, Studies!ToSet
<1>4. F \subseteq P
  BY DEF FamilyOf
<1> HIDE DEF P, F
<1>5. Len(m) = Cardinality(A)
  BY <1>1, AmongCount
<1>6. /\ m \in Seq(P)
      /\ \A i \in 1..Len(m) : m[i] \in F
      /\ \A k \in 1..n : l[k] \in F => \E i \in 1..Len(m) : m[i] = l[k]
  BY <1>1, AmongInside
<1>7. Studies!ToSet(m) = F
  <2> HIDE DEF m, l, n
  <2>1. DOMAIN m = 1..Len(m)
    BY <1>6
  <2>2. \A x \in F : \E i \in 1..Len(m) : m[i] = x
    BY <1>3, <1>4, <1>6
  <2> QED BY <1>6, <2>1, <2>2 DEF Studies!ToSet
<1> HIDE DEF m, l, n
<1>8. IsFiniteSet(A)
  <2>1. IsFiniteSet(1..n)
    BY <1>1, CountTo
  <2> QED BY <2>1, FS_Subset
<1>9. f \in [A -> F] /\ (\A x, y \in A : f[x] = f[y] => x = y) /\ \A p \in F : \E x \in A : f[x] = p
  BY <1>1, <1>3, <1>4
<1> HIDE DEF A, f
<1>10. IsFiniteSet(F) /\ Cardinality(F) = Cardinality(A)
  BY ONLY <1>8, <1>9, Matched
<1> QED BY <1>2, <1>5, <1>7, <1>10 DEF F

GoalOf(arm) == IF arm = "symbolic_augment" THEN 3 ELSE Studies!NoLimit

\* What both frozen protocols say of a profile of the main family, of one of the
\* goal family, and of the comparisons they make.
Frozen(s) ==
  /\ \A p \in ProfilesOf(s) : p.prefix = 3 /\ p.augmentation = 10 /\ p.arm \in Studies!Arms
  /\ \A p \in FamilyOf(s, "total_budget") :
       /\ p.goal = GoalOf(p.arm)
       /\ \A arm \in Studies!Arms : \E q \in FamilyOf(s, "total_budget") : q.arm = arm /\ q.total = p.total
  /\ \A p, q \in FamilyOf(s, "goal_invocation_limit") : p.arm = q.arm /\ p.total = q.total

\* An accepted configuration that is not a smoke study follows one of both protocols.
LEMMA AcceptedIsFrozen ==
  ASSUME NEW s, Studies!IsStudy(s), Studies!Accepted(s), s.mode # "smoke"
  PROVE  Laidout(s) /\ Frozen(s)
<1>1. Laidout(s)
  BY ValidIsLaidout DEF Studies!Accepted
<1>2. \A p \in ProfilesOf(s) : p.arm \in Studies!Arms
  BY DEF Studies!Accepted, Studies!ConfigurationValid, Studies!ProfileValid, ProfilesOf
<1>3. s.mode \in {"formal", "safety_formal"}
  BY DEF Studies!Accepted, Studies!ConfigurationValid
<1>4. CASE s.mode = "formal"
  <2>1. Studies!FormalProtocol(s)
    BY <1>4 DEF Studies!Accepted
  <2> DEFINE M == FamilyOf(s, "total_budget")
             G == FamilyOf(s, "goal_invocation_limit")
  <2>2. Studies!ToSet(Studies!MainFamily(s)) = M /\ Studies!ToSet(Studies!GoalFamily(s)) = G
    BY <1>1, FamilyIs DEF Studies!MainFamily, Studies!GoalFamily
  <2>3. \A p \in ProfilesOf(s) : p.prefix = 3 /\ p.augmentation = 10
    BY <2>1 DEF Studies!FormalProtocol, ProfilesOf
  <2>4. {<<p.arm, p.total, p.goal>> : p \in M} =
          {<<arm, total, GoalOf(arm)>> : arm \in Studies!Arms, total \in {32, 128}}
    BY <2>1, <2>2 DEF Studies!FormalProtocol, Studies!FormalFamilies, GoalOf
  <2>5. \A p \in G : p.arm = "symbolic_augment" /\ p.total = 128
    BY <2>1, <2>2 DEF Studies!FormalProtocol, Studies!FormalFamilies
  <2> HIDE DEF M, G
  <2>6. ASSUME NEW p \in M
        PROVE  /\ p.goal = GoalOf(p.arm)
               /\ \A arm \in Studies!Arms : \E q \in M : q.arm = arm /\ q.total = p.total
    <3>1. PICK arm \in Studies!Arms, total \in {32, 128} :
            <<p.arm, p.total, p.goal>> = <<arm, total, GoalOf(arm)>>
      <4> DEFINE x == <<p.arm, p.total, p.goal>>
      <4>1. x \in {<<y.arm, y.total, y.goal>> : y \in M}
        OBVIOUS
      <4> HIDE DEF x
      <4>2. x \in {<<a, b, GoalOf(a)>> : a \in Studies!Arms, b \in {32, 128}}
        BY <2>4, <4>1
      <4> QED BY <4>2 DEF x
    <3>2. p.arm = arm /\ p.total = total /\ p.goal = GoalOf(arm)
      BY <3>1
    <3>3. ASSUME NEW other \in Studies!Arms PROVE \E q \in M : q.arm = other /\ q.total = total
      <4> DEFINE x == <<other, total, GoalOf(other)>>
      <4>1. x \in {<<a, b, GoalOf(a)>> : a \in Studies!Arms, b \in {32, 128}}
        OBVIOUS
      <4> HIDE DEF x
      <4>2. x \in {<<q.arm, q.total, q.goal>> : q \in M}
        BY <2>4, <4>1
      <4>3. PICK q \in M : <<q.arm, q.total, q.goal>> = x
        BY <4>2
      <4> QED BY <4>3 DEF x
    <3> QED BY <3>2, <3>3
  <2> QED BY <1>1, <1>2, <2>3, <2>5, <2>6 DEF Frozen, M, G
<1>5. CASE s.mode = "safety_formal"
  <2>1. Studies!SafetyProtocol(s)
    BY <1>5 DEF Studies!Accepted
  <2>2. \A p \in ProfilesOf(s) :
          /\ p.total = 128 /\ p.augmentation = 10 /\ p.prefix = 3
          /\ p.families = <<"total_budget">>
    BY <2>1 DEF Studies!SafetyProtocol, Studies!SafetyLimits, ProfilesOf
  <2>3. {p.arm : p \in ProfilesOf(s)} = Studies!Arms /\ \A p \in ProfilesOf(s) : p.goal = GoalOf(p.arm)
    BY <2>1 DEF Studies!SafetyProtocol, ProfilesOf, GoalOf
  <2>4. Studies!ToSet(<<"total_budget">>) = {"total_budget"}
    BY DEF Studies!ToSet
  <2>5. FamilyOf(s, "total_budget") = ProfilesOf(s) /\ FamilyOf(s, "goal_invocation_limit") = {}
    BY <2>2, <2>4 DEF FamilyOf, Studies!In
  <2>6. \A arm \in Studies!Arms : \E q \in ProfilesOf(s) : q.arm = arm
    BY <2>3
  <2> QED BY <1>1, <1>2, <2>2, <2>3, <2>5, <2>6 DEF Frozen
<1> QED BY <1>3, <1>4, <1>5

\* Profiles that are compared differ in the thing their family compares.
LEMMA OneThingAlwaysVaries ==
  ASSUME Studies!IsStudy(study)
  PROVE  Studies!OneThingVaries
<1> SUFFICES ASSUME Studies!Accepted(study), study.mode # "smoke",
                    NEW p \in ProfilesOf(study), NEW q \in ProfilesOf(study)
             PROVE  LET same == {i \in 1..5 : Studies!ExecutionIdentity(p)[i] = Studies!ExecutionIdentity(q)[i]} IN
                    /\ Studies!In(p, "total_budget") /\ Studies!In(q, "total_budget") =>
                         /\ p.total = q.total => {3, 5} \subseteq same
                         /\ p.arm = q.arm => {3, 4, 5} \subseteq same
                    /\ Studies!In(p, "goal_invocation_limit") /\ Studies!In(q, "goal_invocation_limit") =>
                         {1, 2, 3, 5} \subseteq same
  BY DEF Studies!OneThingVaries, ProfilesOf
<1>1. Frozen(study)
  BY AcceptedIsFrozen
<1> DEFINE a == Studies!ExecutionIdentity(p)
           b == Studies!ExecutionIdentity(q)
           same == {i \in 1..5 : a[i] = b[i]}
<1>2. /\ a[1] = p.arm /\ a[2] = p.total /\ a[3] = p.prefix /\ a[4] = p.goal /\ a[5] = p.augmentation
      /\ b[1] = q.arm /\ b[2] = q.total /\ b[3] = q.prefix /\ b[4] = q.goal /\ b[5] = q.augmentation
  BY DEF Studies!ExecutionIdentity
<1> HIDE DEF a, b
<1>3. /\ a[1] = b[1] => 1 \in same
      /\ a[2] = b[2] => 2 \in same
      /\ a[3] = b[3] => 3 \in same
      /\ a[4] = b[4] => 4 \in same
      /\ a[5] = b[5] => 5 \in same
  OBVIOUS
<1> HIDE DEF same
<1>4. a[3] = b[3] /\ a[5] = b[5]
  BY <1>1, <1>2 DEF Frozen
<1>5. ASSUME Studies!In(p, "total_budget"), Studies!In(q, "total_budget"), p.arm = q.arm PROVE a[4] = b[4]
  BY <1>1, <1>2, <1>5 DEF Frozen, FamilyOf
<1>6. ASSUME Studies!In(p, "goal_invocation_limit"), Studies!In(q, "goal_invocation_limit")
      PROVE  a[1] = b[1] /\ a[2] = b[2]
  BY <1>1, <1>2, <1>6 DEF Frozen, FamilyOf
<1> QED BY <1>3, <1>4, <1>5, <1>6 DEF same, a, b

\* Every arm has one profile of the main family at every budget there is.
LEMMA EveryArmIsCompared ==
  ASSUME Studies!IsStudy(study)
  PROVE  Studies!EveryArmCompared
<1> DEFINE M == FamilyOf(study, "total_budget")
<1> SUFFICES ASSUME Studies!Accepted(study), study.mode # "smoke",
                    NEW p \in Studies!ToSet(Studies!MainFamily(study)), NEW arm \in Studies!Arms
             PROVE  Cardinality({q \in Studies!ToSet(Studies!MainFamily(study)) :
                                   q.arm = arm /\ q.total = p.total}) = 1
  BY StudiesCount DEF Studies!EveryArmCompared
<1>1. Laidout(study) /\ Frozen(study)
  BY AcceptedIsFrozen
<1>2. Studies!ToSet(Studies!MainFamily(study)) = M
  BY <1>1, FamilyIs DEF Studies!MainFamily
<1>3. M \subseteq ProfilesOf(study)
  BY DEF FamilyOf
<1>4. PICK q \in M : q.arm = arm /\ q.total = p.total
  BY <1>1, <1>2 DEF Frozen
<1>5. ASSUME NEW x \in M, x.arm = arm, x.total = p.total PROVE x = q
  <2>1. x.goal = GoalOf(arm) /\ q.goal = GoalOf(arm)
    BY <1>1, <1>4, <1>5 DEF Frozen
  <2>2. x \in ProfilesOf(study) /\ q \in ProfilesOf(study) /\ x.prefix = q.prefix /\ x.augmentation = q.augmentation
    BY <1>1, <1>3 DEF Frozen
  <2>3. Studies!ExecutionIdentity(x) = Studies!ExecutionIdentity(q)
    BY <1>4, <1>5, <2>1, <2>2 DEF Studies!ExecutionIdentity
  <2> HIDE DEF M
  <2> QED BY <1>1, <2>2, <2>3, ProfilesTell
<1> HIDE DEF M
<1>6. {x \in M : x.arm = arm /\ x.total = p.total} = {q}
  BY <1>4, <1>5
<1> QED BY <1>2, <1>6, FS_Singleton

-----------------------------------------------------------------------------
(* The numbers of a plan *)

SlotsWith(s, S) == {t \in AnySlot(s) : t.profile \in S}

\* Every block runs each profile once.
LEMMA RowTimes ==
  ASSUME NEW s, Laidout(s), NEW f \in FixturesOf(s), NEW r \in RepeatsOf(s), NEW S, S \subseteq ProfilesOf(s)
  PROVE  Times(Row(s, f, r), SlotsWith(s, S)) = Cardinality(S)
<1> DEFINE n == Len(s.profiles)
           l == s.orders[r]
           row == Row(s, f, r)
           A == {k \in 1..n : row[k] \in SlotsWith(s, S)}
           g == [k \in A |-> ProfileOf(s, l[k])]
<1>1. /\ row \in Seq(AnySlot(s)) /\ Len(row) = n
      /\ \A i \in 1..n : row[i] = Studies!Slot(s, f, r, l[i])
  BY RowsLaid
<1>2. /\ n \in Nat /\ l \in Seq(Ids(s)) /\ Len(l) = n
      /\ (\A id \in Ids(s) : \E i \in 1..n : l[i] = id)
      /\ \A i, j \in 1..n : l[i] = l[j] => i = j
  BY DEF Laidout
<1> HIDE DEF n, l, row
<1>3. \A i \in 1..n : l[i] \in Ids(s) /\ row[i] \in AnySlot(s)
  BY <1>1, <1>2
<1>4. ASSUME NEW i \in 1..n
      PROVE  /\ ProfileOf(s, l[i]).id = l[i]
             /\ row[i] \in SlotsWith(s, S) <=> ProfileOf(s, l[i]) \in S
  <2> DEFINE id == l[i]
  <2>1. id \in Ids(s)
    BY <1>3
  <2> HIDE DEF id
  <2>2. Studies!Slot(s, f, r, id).profile = ProfileOf(s, id) /\ ProfileOf(s, id).id = id
    BY <2>1, SlotIs
  <2> QED BY <1>1, <1>3, <2>2 DEF SlotsWith, id
<1>5. g \in [A -> S]
  BY <1>4
<1>6. \A x, y \in A : g[x] = g[y] => x = y
  <2> SUFFICES ASSUME NEW x \in A, NEW y \in A, g[x] = g[y] PROVE x = y
    OBVIOUS
  <2>1. l[x] = l[y]
    BY <1>4
  <2> QED BY <1>2, <2>1
<1>7. \A p \in S : \E x \in A : g[x] = p
  <2> SUFFICES ASSUME NEW p \in S PROVE \E x \in A : g[x] = p
    OBVIOUS
  <2>1. p \in ProfilesOf(s) /\ p.id \in Ids(s)
    BY DEF Ids
  <2>2. PICK i \in 1..n : l[i] = p.id
    BY <1>2, <2>1
  <2>3. ProfileOf(s, l[i]) = p
    BY <2>1, <2>2, ProfilesTell
  <2>4. i \in A
    BY <1>4, <2>3
  <2> QED BY <2>3, <2>4
<1>8. IsFiniteSet(A)
  <2>1. IsFiniteSet(1..n)
    BY <1>2, CountTo
  <2> QED BY <2>1, FS_Subset
<1>9. Times(row, SlotsWith(s, S)) = Cardinality(A)
  BY <1>1 DEF Times
<1> HIDE DEF A, g
<1>10. Cardinality(S) = Cardinality(A)
  BY ONLY <1>5, <1>6, <1>7, <1>8, Matched
<1> QED BY <1>9, <1>10 DEF row

\* The slots run each profile once for every fixture and repeat.
LEMMA SlotsTimes ==
  ASSUME NEW s, Laidout(s), NEW S, S \subseteq ProfilesOf(s), Cardinality(S) \in Nat
  PROVE  Times(Studies!Slots(s), SlotsWith(s, S)) = Len(s.fixtures) * (Len(s.repeats) * Cardinality(S))
<1> DEFINE T == AnySlot(s)
           W == SlotsWith(s, S)
           c == Cardinality(S)
           R == Len(s.repeats)
<1>1. ASSUME NEW f \in FixturesOf(s) PROVE Times(Joined(Rows(s, f)), W) = R * c
  <2> DEFINE rows == Rows(s, f)
  <2>1. rows \in Seq(Seq(T)) /\ Len(rows) = R
    BY RowsLaid
  <2>2. \A j \in 1..R : rows[j] = Row(s, f, s.repeats[j]) /\ s.repeats[j] \in RepeatsOf(s)
    BY RowsLaid
  <2>3. \A j \in 1..R : Times(rows[j], W) = c
    BY <2>2, RowTimes
  <2> HIDE DEF rows, T, W, c, R
  <2>4. c \in Nat /\ \A n \in 1..Len(rows) : Times(rows[n], W) = c
    BY <2>1, <2>3 DEF c
  <2>5. Times(Joined(rows), W) = Len(rows) * c
    <3>1. rows \in Seq(Seq(T))
      BY <2>1
    <3> QED BY ONLY <2>4, <3>1, JoinedTimes
  <2> QED BY <2>1, <2>5 DEF rows
<1> DEFINE lists == BlockLists(s)
<1>2. lists \in Seq(Seq(T)) /\ Len(lists) = Len(s.fixtures)
      /\ \A k \in 1..Len(s.fixtures) : s.fixtures[k] \in FixturesOf(s) /\ lists[k] = Joined(Rows(s, s.fixtures[k]))
  BY BlockListsLaid
<1>3. Studies!Slots(s) = Joined(lists)
  BY SlotsLaid
<1>4. R \in Nat /\ c \in Nat
  BY DEF Laidout
<1> HIDE DEF lists, T, W, c, R
<1>5. R * c \in Nat
  BY <1>4
<1>6. \A n \in 1..Len(lists) : Times(lists[n], W) = R * c
  BY <1>1, <1>2
<1> DEFINE d == R * c
<1>7. Times(Joined(lists), W) = Len(lists) * d
  <2>1. d \in Nat /\ lists \in Seq(Seq(T)) /\ \A n \in 1..Len(lists) : Times(lists[n], W) = d
    BY <1>2, <1>5, <1>6
  <2> HIDE DEF d
  <2> QED BY ONLY <2>1, JoinedTimes
<1> QED BY <1>2, <1>3, <1>7 DEF W, c, R

\* The slots of a set of profiles, as a plan counts them.
PlacesWith(s, S) == {n \in DOMAIN Studies!Slots(s) : Studies!Slots(s)[n].profile \in S}

\* The count of plan() for a set of profiles.
LEMMA PlanCounts ==
  ASSUME NEW s, Laidout(s), NEW S, S \subseteq ProfilesOf(s), Cardinality(S) \in Nat
  PROVE  Studies!Cardinality(PlacesWith(s, S)) = Len(s.fixtures) * (Len(s.repeats) * Cardinality(S))
<1> DEFINE slots == Studies!Slots(s)
<1>1. slots \in Seq(AnySlot(s))
  BY SlotsAre
<1>2. Times(slots, SlotsWith(s, S)) = Len(s.fixtures) * (Len(s.repeats) * Cardinality(S))
  BY SlotsTimes
<1> HIDE DEF slots
<1>3. DOMAIN slots = 1..Len(slots) /\ \A n \in 1..Len(slots) : slots[n] \in AnySlot(s)
  BY <1>1
<1>4. {n \in DOMAIN slots : slots[n].profile \in S} = {k \in 1..Len(slots) : slots[k] \in SlotsWith(s, S)}
  BY <1>3 DEF SlotsWith
<1> QED BY <1>2, <1>4, StudiesCount DEF Times, slots, PlacesWith

\* The count of all slots.
LEMMA PlanLength ==
  ASSUME NEW s, Laidout(s), Cardinality(ProfilesOf(s)) \in Nat
  PROVE  Len(Studies!Slots(s)) = Len(s.fixtures) * (Len(s.repeats) * Cardinality(ProfilesOf(s)))
<1> DEFINE slots == Studies!Slots(s)
           S == ProfilesOf(s)
<1>1. slots \in Seq(AnySlot(s))
  BY SlotsAre
<1>2. Times(slots, SlotsWith(s, S)) = Len(s.fixtures) * (Len(s.repeats) * Cardinality(S))
  BY SlotsTimes
<1>3. \A t \in AnySlot(s) : t.profile \in S
  BY SlotIs DEF AnySlot
<1> HIDE DEF slots, S
<1>4. Len(slots) \in Nat /\ \A n \in 1..Len(slots) : slots[n] \in SlotsWith(s, S)
  BY <1>1, <1>3 DEF SlotsWith
<1>5. {k \in 1..Len(slots) : slots[k] \in SlotsWith(s, S)} = 1..Len(slots)
  BY <1>4
<1>6. Cardinality(1..Len(slots)) = Len(slots)
  BY <1>4, CountTo
<1> QED BY <1>2, <1>5, <1>6 DEF Times, slots, S

\* A profile of a valid study is of one family or of both.
LEMMA FamiliesAre ==
  ASSUME NEW s, Studies!IsStudy(s), Studies!ConfigurationValid(s), NEW p \in ProfilesOf(s)
  PROVE  /\ Studies!In(p, "total_budget") \/ Studies!In(p, "goal_invocation_limit")
         /\ Len(p.families) = 2 <=>
              Studies!In(p, "total_budget") /\ Studies!In(p, "goal_invocation_limit")
         /\ p.families = <<"goal_invocation_limit">> <=> ~Studies!In(p, "total_budget")
<1> DEFINE l == p.families
           S == Studies!ToSet(l)
           a == "total_budget"
           b == "goal_invocation_limit"
<1>1. Studies!IsList(l)
  BY StudyIs DEF ProfilesOf
<1>2. S \subseteq {a, b} /\ Studies!Cardinality(S) = Len(l) /\ l # <<>>
  BY DEF Studies!ConfigurationValid, Studies!ProfileValid, Studies!Distinct, Studies!Families, ProfilesOf
<1>3. /\ l \in Seq(S) /\ Len(l) \in Nat /\ DOMAIN l = 1..Len(l)
      /\ \A i \in 1..Len(l) : l[i] \in S
      /\ \A x \in S : \E i \in 1..Len(l) : l[i] = x
  BY <1>1, ListElements
<1>4. (Studies!In(p, a) <=> a \in S) /\ (Studies!In(p, b) <=> b \in S)
  BY DEF Studies!In
<1>5. Cardinality(S) = Len(l)
  BY <1>2, StudiesCount
<1>6. Cardinality({a}) = 1 /\ Cardinality({b}) = 1 /\ Cardinality({a, b}) = 2
  <2>1. IsFiniteSet({a}) /\ Cardinality({a}) = 1 /\ Cardinality({b}) = 1
    BY FS_Singleton
  <2>2. {a, b} = {a} \cup {b} /\ b \notin {a}
    OBVIOUS
  <2>3. Cardinality({a} \cup {b}) = Cardinality({a}) + 1
    BY <2>1, <2>2, FS_AddElement
  <2>4. Cardinality({a, b}) = Cardinality({a} \cup {b})
    BY <2>2
  <2> QED BY <2>1, <2>3, <2>4
<1>7. a # b
  OBVIOUS
<1>8. Len(l) # 0
  BY <1>2, <1>3
<1> HIDE DEF S
<1>9. S # {}
  <2>1. 1 \in 1..Len(l)
    BY <1>3, <1>8
  <2> QED BY <1>3, <2>1
<1>10. l = <<b>> <=> S = {b}
  <2>1. ASSUME l = <<b>> PROVE S = {b}
    BY <2>1 DEF S, Studies!ToSet
  <2>2. ASSUME S = {b} PROVE l = <<b>>
    <3>1. Len(l) = 1
      BY <1>5, <1>6, <2>2
    <3>2. l[1] = b
      BY <1>3, <2>2, <3>1
    <3> QED BY <1>3, <3>1, <3>2
  <2> QED BY <2>1, <2>2
<1> HIDE DEF a, b, l
<1>11. S = {a} \/ S = {b} \/ S = {a, b}
  BY <1>2, <1>9
<1>12. CASE S = {a}
  BY <1>4, <1>5, <1>6, <1>7, <1>10, <1>12 DEF a, b, l
<1>13. CASE S = {b}
  BY <1>4, <1>5, <1>6, <1>7, <1>10, <1>13 DEF a, b, l
<1>14. CASE S = {a, b}
  BY <1>4, <1>5, <1>6, <1>7, <1>10, <1>14 DEF a, b, l
<1> QED BY <1>11, <1>12, <1>13, <1>14

\* The formal protocol leaves one profile in both families and gives the counts that
\* are checked after it.
LEMMA OneSlotAlwaysShared ==
  ASSUME Studies!IsStudy(study)
  PROVE  Studies!OneSlotIsShared
<1> DEFINE s == study
           P == ProfilesOf(s)
           M == FamilyOf(s, "total_budget")
           G == FamilyOf(s, "goal_invocation_limit")
           N == {p \in P : p.families = <<"goal_invocation_limit">>}
<1> SUFFICES ASSUME s.mode = "formal", Studies!ConfigurationValid(s), Studies!FormalProtocol(s)
             PROVE  Studies!FormalCounts(s) /\ \E p \in P : \A q \in P : Len(q.families) = 2 <=> q = p
  BY DEF Studies!OneSlotIsShared, ProfilesOf
<1>1. Laidout(s)
  BY ValidIsLaidout
<1>2. /\ Len(s.fixtures) = 4 /\ s.repeats = Studies!OneToTen /\ Len(s.profiles) = 8
      /\ Len(Studies!MainFamily(s)) = 6 /\ Len(Studies!GoalFamily(s)) = 3
  BY DEF Studies!FormalProtocol, Studies!FormalFamilies
<1>3. Len(s.repeats) = 10
  BY <1>2 DEF Studies!OneToTen
<1>4. IsFiniteSet(M) /\ Cardinality(M) = 6 /\ IsFiniteSet(G) /\ Cardinality(G) = 3
  BY <1>1, <1>2, FamilyIs DEF Studies!MainFamily, Studies!GoalFamily
<1>5. IsFiniteSet(P) /\ Cardinality(P) = 8
  <2>1. s.profiles \in Seq(P) /\ \A i, j \in 1..Len(s.profiles) : s.profiles[i] = s.profiles[j] => i = j
    BY <1>1 DEF Laidout
  <2> QED BY <1>2, <2>1, ElementsCounted DEF ProfilesOf
<1>6. ASSUME NEW p \in P
      PROVE  /\ p \in M \/ p \in G
             /\ Len(p.families) = 2 <=> p \in M \cap G
             /\ p \in N <=> p \notin M
  BY FamiliesAre DEF FamilyOf
<1>7. M \subseteq P /\ G \subseteq P /\ N \subseteq P
  BY DEF FamilyOf
<1> HIDE DEF M, G, P, N
<1>8. M \cup G = P /\ N = P \ M /\ M \cap P = M /\ N \cup M = P /\ N \cap M = {}
  BY <1>6, <1>7
<1>9. Cardinality(M \cap G) = 1 /\ IsFiniteSet(M \cap G)
  <2>1. Cardinality(M \cup G) = Cardinality(M) + Cardinality(G) - Cardinality(M \cap G)
    BY <1>4, FS_Union
  <2>2. IsFiniteSet(M \cap G)
    BY <1>4, FS_Subset
  <2>3. Cardinality(M \cap G) \in Nat
    BY <2>2, FS_CardinalityType
  <2> QED BY <1>4, <1>5, <1>8, <2>1, <2>2, <2>3
<1>10. IsFiniteSet(N) /\ Cardinality(N) = 2
  <2>1. IsFiniteSet(P \ M) /\ Cardinality(P \ M) = Cardinality(P) - Cardinality(P \cap M)
    BY <1>5, FS_Difference
  <2>2. P \ M = N /\ P \cap M = M
    BY <1>8
  <2> QED BY <1>4, <1>5, <2>1, <2>2
<1>11. PICK p : M \cap G = {p}
  BY <1>9, FS_Singleton
<1>12. \E x \in P : \A q \in P : Len(q.families) = 2 <=> q = x
  <2>1. p \in P
    BY <1>7, <1>11
  <2>2. \A q \in P : Len(q.families) = 2 <=> q = p
    BY <1>6, <1>11
  <2> QED BY <2>1, <2>2
<1> DEFINE slots == Studies!Slots(s)
           of(S) == Studies!Cardinality(PlacesWith(s, S))
<1>13. of(M) = 240
  <2>1. M \subseteq ProfilesOf(s) /\ Cardinality(M) \in Nat
    BY <1>4, <1>7 DEF P
  <2>2. of(M) = Len(s.fixtures) * (Len(s.repeats) * Cardinality(M))
    BY <1>1, <2>1, PlanCounts
  <2> QED BY <1>2, <1>3, <1>4, <2>2
<1>14. of(G) = 120
  <2>1. G \subseteq ProfilesOf(s) /\ Cardinality(G) \in Nat
    BY <1>4, <1>7 DEF P
  <2>2. of(G) = Len(s.fixtures) * (Len(s.repeats) * Cardinality(G))
    BY <1>1, <2>1, PlanCounts
  <2> QED BY <1>2, <1>3, <1>4, <2>2
<1>15. of(N) = 80
  <2>1. N \subseteq ProfilesOf(s) /\ Cardinality(N) \in Nat
    BY <1>10, <1>7 DEF P
  <2>2. of(N) = Len(s.fixtures) * (Len(s.repeats) * Cardinality(N))
    BY <1>1, <2>1, PlanCounts
  <2> QED BY <1>2, <1>3, <1>10, <2>2
<1>16. Len(slots) = 320
  <2>0. Cardinality(ProfilesOf(s)) \in Nat
    BY <1>5 DEF P
  <2>1. Len(slots) = Len(s.fixtures) * (Len(s.repeats) * Cardinality(ProfilesOf(s)))
    BY <1>1, <2>0, PlanLength
  <2> QED BY <1>2, <1>3, <1>5, <2>1 DEF P
<1>17. Studies!Plan(s) = [slots |-> Len(slots), blocks |-> Len(s.fixtures) * Len(s.repeats),
                          main |-> of(M), compared |-> of(G), new |-> of(N)]
  BY DEF Studies!Plan, M, G, N, P, FamilyOf, ProfilesOf, PlacesWith
<1>18. Studies!FormalCounts(s)
  <2>1. Len(s.fixtures) * Len(s.repeats) = 40
    BY <1>2, <1>3
  <2> HIDE DEF of, slots
  <2> QED BY <1>13, <1>14, <1>15, <1>16, <1>17, <2>1 DEF Studies!FormalCounts
<1> QED BY <1>12, <1>18 DEF P

\* A configuration stays one, whatever is edited.
StudyTyped == Studies!IsStudy(study)

\* A configuration stays well typed, however it was edited.
LEMMA StudyStaysTyped == SubjectsSpec => []StudyTyped
<1>1. SubjectsInit => StudyTyped
  BY SubjectsAssumption DEF SubjectsInit, Studies!Init, StudyTyped, Studies!StudyAssumption
<1>2. StudyTyped /\ [SubjectsNext]_subjectsVars => StudyTyped'
  <2> SUFFICES ASSUME StudyTyped, [SubjectsNext]_subjectsVars PROVE StudyTyped'
    OBVIOUS
  <2>1. CASE Studies!Next
    BY <2>1, SubjectsAssumption, StudyStays DEF StudyTyped
  <2>2. CASE study' = study
    BY <2>2 DEF StudyTyped
  <2> QED BY <2>1, <2>2 DEF SubjectsNext, subjectsVars
<1> QED BY <1>1, <1>2, PTL DEF SubjectsSpec

\* Whatever StudySpec.validate accepts, after any edits of any configuration: every
\* block runs each profile once, and a frozen protocol compares every arm at every
\* budget, one thing at a time, on slots the two comparisons share.
THEOREM StudiesAlwaysCompare == SubjectsSpec => []AcceptedStudiesCompare
<1>1. StudyTyped => AcceptedStudiesCompare
  BY BlocksAlwaysComplete, EveryArmIsCompared, OneThingAlwaysVaries, OneSlotAlwaysShared
     DEF StudyTyped, AcceptedStudiesCompare
<1> QED BY <1>1, StudyStaysTyped, PTL
=============================================================================
