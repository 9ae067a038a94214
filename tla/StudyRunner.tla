---------------------------- MODULE StudyRunner ----------------------------
(***************************************************************************)
(* The driver of the Stage 3 and Stage 4 studies: _run_study                *)
(* (study_runner.py).  Every block gets one common warmup and then all the  *)
(* profiles of its repeat.  A block whose profiles are all evaluation-valid *)
(* is recorded as completed; one that is not stops the run.  The manifest   *)
(* is written after each block and at the end.  A resumed run skips the     *)
(* completed blocks and moves an unfinished one aside before it executes    *)
(* the block again.                                                         *)
(*                                                                         *)
(* The process can die between any two file-system steps; the manifest, the *)
(* block directories and the directories moved aside survive it.            *)
(*                                                                         *)
(* Blocks are numbered in the order of the two nested loops.  The checks    *)
(* that can only refuse to start or to resume are not modelled.             *)
(***************************************************************************)
EXTENDS Naturals

CONSTANTS
  NumBlocks,  \* fixtures x repeats
  Profiles,   \* spec.profiles
  MaxAborts,  \* bound: how often the process dies
  MaxInvalid  \* bound: how many slots end evaluation-invalid

ASSUME RunnerAssumption ==
  NumBlocks \in Nat \ {0} /\ Profiles # {} /\ MaxAborts \in Nat /\ MaxInvalid \in Nat

Blocks == 1..NumBlocks

VARIABLES
  manifest,  \* manifest.json: Missing, Torn, or the record last written
  mem,       \* the manifest held by the running process, Missing when none
  dirs,      \* the directories under blocks/
  aside,     \* the directories moved under failed-block-attempts/
  pc,        \* where the process is; "idle" when there is none
  after,     \* where it goes once the manifest is written
  cur,       \* the block the loops have reached
  attempts,  \* block directories created so far: tells executions apart
  aborts,    \* times the process died
  invalid,   \* slots that ended evaluation-invalid
  recorded   \* history: the blocks a written manifest listed as completed

disk == <<manifest, dirs, aside>>
counters == <<attempts, aborts, invalid, recorded>>
vars == <<disk, mem, pc, after, cur, counters>>

----------------------------------------------------------------------------
(* Files *)

\* completed_blocks and failed_block_attempts; nobody reads their order.
Missing == [status |-> "missing", completed |-> {}, failed |-> {}]
Torn == [status |-> "torn", completed |-> {}, failed |-> {}]
FreshManifest == [status |-> "running", completed |-> {}, failed |-> {}]
Readable(m) == m.status \in {"running", "complete", "incomplete"}

\* A block directory: the execution that made it, whether common.json is there,
\* and the profiles whose campaign.json says valid and says invalid.
NoDir == [attempt |-> 0, common |-> FALSE, valid |-> {}, invalid |-> {}]
Exists(d) == d.attempt # 0

\* Every profile of the block was executed and is evaluation-valid.
Whole(d) == Exists(d) /\ d.common /\ d.valid = Profiles /\ d.invalid = {}

ProcessGone == pc' = "idle" /\ after' = "idle" /\ mem' = Missing /\ cur' = 1

----------------------------------------------------------------------------
Init ==
  /\ manifest = Missing /\ mem = Missing
  /\ dirs = [b \in Blocks |-> NoDir] /\ aside = {}
  /\ pc = "new" /\ after = "idle" /\ cur = 1
  /\ attempts = 0 /\ aborts = 0 /\ invalid = 0 /\ recorded = {}

Start ==
  /\ pc = "new"
  /\ mem' = FreshManifest
  /\ pc' = "save" /\ after' = "scan"
  /\ UNCHANGED <<disk, cur, counters>>

\* resume_study takes the manifest as it is, whatever its status.
Resume ==
  /\ pc = "idle" /\ Readable(manifest)
  /\ mem' = manifest
  /\ pc' = "scan"
  /\ UNCHANGED <<disk, after, cur, counters>>

\* write_json truncates the file and then writes it.
Truncate ==
  /\ pc = "save"
  /\ manifest' = Torn /\ pc' = "write"
  /\ UNCHANGED <<dirs, aside, mem, after, cur, counters>>

Write ==
  /\ pc = "write"
  /\ manifest' = mem
  /\ recorded' = recorded \union mem.completed
  /\ \/ after = "idle" /\ ProcessGone
     \/ after # "idle" /\ pc' = after /\ UNCHANGED <<mem, after, cur>>
  /\ UNCHANGED <<dirs, aside, attempts, aborts, invalid>>

\* Fault: a block that failed once is skipped like a completed one.
SkipBlockOnceFailed ==
  /\ pc = "scan" /\ cur \in mem.completed \union {f.block : f \in mem.failed}
  /\ cur' = cur + 1
  /\ UNCHANGED <<disk, mem, pc, after, counters>>

\* A completed block is not looked at again.
SkipBlock ==
  /\ pc = "scan" /\ cur \in mem.completed
  /\ cur' = cur + 1
  /\ UNCHANGED <<disk, mem, pc, after, counters>>

\* The new name is random, so that nothing is moved over another attempt.  The
\* manifest that says so is written when the block has been executed again.
MoveAside ==
  /\ pc = "scan" /\ cur \in Blocks \ mem.completed /\ Exists(dirs[cur])
  /\ aside' = aside \union {[block |-> cur, dir |-> dirs[cur]]}
  /\ dirs' = [dirs EXCEPT ![cur] = NoDir]
  /\ mem' = [mem EXCEPT !.failed = @ \union
       {[block |-> cur, attempt |-> dirs[cur].attempt, reason |-> "incomplete"]}]
  /\ pc' = "common"
  /\ UNCHANGED <<manifest, after, cur, counters>>

\* Fault: the block is executed in the directory it has.
EnterBlockOverOldDirectory ==
  /\ pc = "scan" /\ cur \in Blocks \ mem.completed
  /\ pc' = "common"
  /\ UNCHANGED <<disk, mem, after, cur, counters>>

EnterBlock ==
  /\ pc = "scan" /\ cur \in Blocks \ mem.completed /\ ~Exists(dirs[cur])
  /\ pc' = "common"
  /\ UNCHANGED <<disk, mem, after, cur, counters>>

\* prepare_study_common makes the directory first and common.json last.
MakeBlock ==
  /\ pc = "common"
  /\ attempts' = attempts + 1
  /\ dirs' = [dirs EXCEPT ![cur] =
       [attempt |-> attempts + 1, common |-> FALSE, valid |-> {}, invalid |-> {}]]
  /\ pc' = "warmup"
  /\ UNCHANGED <<manifest, aside, mem, after, cur, aborts, invalid, recorded>>

CommonReady ==
  /\ pc = "warmup"
  /\ dirs' = [dirs EXCEPT ![cur].common = TRUE]
  /\ pc' = "profile"
  /\ UNCHANGED <<manifest, aside, mem, after, cur, counters>>

Executed(d) == d.valid \union d.invalid

\* run_study_slot leaves campaign.json behind whatever happened inside it; the
\* order of the profiles is the repeat's own.
RunValid ==
  /\ pc = "profile"
  /\ \E p \in Profiles \ Executed(dirs[cur]) :
       dirs' = [dirs EXCEPT ![cur].valid = @ \union {p}]
  /\ UNCHANGED <<manifest, aside, mem, pc, after, cur, counters>>

RunInvalid ==
  /\ pc = "profile" /\ invalid < MaxInvalid
  /\ \E p \in Profiles \ Executed(dirs[cur]) :
       dirs' = [dirs EXCEPT ![cur].invalid = @ \union {p}]
  /\ invalid' = invalid + 1
  /\ UNCHANGED <<manifest, aside, mem, pc, after, cur, attempts, aborts, recorded>>

BlockCompleted ==
  /\ pc = "profile" /\ Executed(dirs[cur]) = Profiles /\ dirs[cur].invalid = {}
  /\ mem' = [mem EXCEPT !.completed = @ \union {cur}]
  /\ cur' = cur + 1
  /\ pc' = "save" /\ after' = "scan"
  /\ UNCHANGED <<disk, counters>>

\* A block with an invalid profile stops the run once the manifest is written.
BlockFailed ==
  /\ pc = "profile" /\ Executed(dirs[cur]) = Profiles /\ dirs[cur].invalid # {}
  /\ mem' = [mem EXCEPT !.failed = @ \union
       {[block |-> cur, attempt |-> dirs[cur].attempt, reason |-> "invalid"]}]
  /\ pc' = "save" /\ after' = "conclude"
  /\ UNCHANGED <<disk, cur, counters>>

AllBlocksReached ==
  /\ pc = "scan" /\ cur > NumBlocks
  /\ pc' = "conclude"
  /\ UNCHANGED <<disk, mem, after, cur, counters>>

\* The valid results found in the directories of completed blocks: there are as
\* many as slots exactly when every profile of every block is among them.
ValidResults == {r \in mem.completed \X Profiles : r[2] \in dirs[r[1]].valid}

\* Fault: all results being valid is enough.
ConcludeWithoutCounting ==
  /\ pc = "conclude"
  /\ mem' = [mem EXCEPT !.status =
       IF \A b \in mem.completed : dirs[b].invalid = {} THEN "complete" ELSE "incomplete"]
  /\ pc' = "save" /\ after' = "idle"
  /\ UNCHANGED <<disk, cur, counters>>
Conclude ==
  /\ pc = "conclude"
  /\ mem' = [mem EXCEPT !.status =
       IF ValidResults = Blocks \X Profiles THEN "complete" ELSE "incomplete"]
  /\ pc' = "save" /\ after' = "idle"
  /\ UNCHANGED <<disk, cur, counters>>

Abort ==
  /\ pc \notin {"new", "idle"} /\ aborts < MaxAborts
  /\ aborts' = aborts + 1
  /\ ProcessGone
  /\ UNCHANGED <<disk, attempts, invalid, recorded>>

Process ==
  \/ Start \/ Resume \/ Truncate \/ Write \/ SkipBlock \/ MoveAside \/ EnterBlock
  \/ MakeBlock \/ CommonReady \/ RunValid \/ RunInvalid
  \/ BlockCompleted \/ BlockFailed \/ AllBlocksReached \/ Conclude

Next == Process \/ Abort

Spec == Init /\ [][Next]_vars

\* A running process goes on, and whoever runs the study resumes it for as long
\* as it is not complete.
FairSpec == Spec /\ WF_vars(Process /\ ~(pc = "idle" /\ manifest.status = "complete"))

----------------------------------------------------------------------------
(* Properties *)

Dir == [attempt : Nat, common : BOOLEAN, valid : SUBSET Profiles, invalid : SUBSET Profiles]
Manifest ==
  [status : {"missing", "torn", "running", "complete", "incomplete"},
   completed : SUBSET Blocks,
   failed : SUBSET [block : Blocks, attempt : Nat, reason : {"incomplete", "invalid"}]]

\* Every variable keeps to the values the driver and its files can hold.
TypeOK ==
  /\ manifest \in Manifest /\ mem \in Manifest
  /\ dirs \in [Blocks -> Dir] /\ aside \subseteq [block : Blocks, dir : Dir]
  /\ pc \in {"new", "idle", "save", "write", "scan", "common", "warmup", "profile", "conclude"}
  /\ after \in {"idle", "scan", "conclude"}
  /\ cur \in 1..(NumBlocks + 1)
  /\ attempts \in Nat /\ aborts \in Nat /\ invalid \in Nat /\ recorded \subseteq Blocks

\* A manifest that says "complete" stands for a matrix executed as a whole: every
\* profile of every block has a valid campaign.json, wherever processes died.
CompleteMeansWhole ==
  manifest.status = "complete" => \A b \in Blocks : Whole(dirs[b])

\* A block once recorded as completed has its evidence in place, even when the
\* manifest that listed it was cut off later; the manifest lists no others.
RecordedBacked ==
  /\ \A b \in recorded : Whole(dirs[b])
  /\ manifest.completed \subseteq recorded

\* No later run touches a block that was recorded as completed: a study resumes
\* only at a complete block boundary (README.md).
RecordedBlocksStay == [][\A b \in recorded : dirs'[b] = dirs[b]]_vars

\* What an execution recorded stays where it is or is moved aside with its
\* block: every failed attempt is preserved.
Held == {dirs[b] : b \in Blocks} \union {a.dir : a \in aside}
EvidenceKept ==
  [][\A d \in Held : Exists(d) => \E e \in Held' :
       /\ e.attempt = d.attempt /\ (d.common => e.common)
       /\ d.valid \subseteq e.valid /\ d.invalid \subseteq e.invalid]_vars

\* Blocks are executed one at a time: at most one directory is not vouched for by
\* the manifest, however many runs it took.
OneOpenBlock ==
  \A b, c \in Blocks : Exists(dirs[b]) /\ Exists(dirs[c]) /\ b # c =>
    b \in recorded \/ c \in recorded

\* Once the tools stop failing a study that somebody keeps resuming completes,
\* unless its manifest was never written or was cut off.
EventuallyComplete ==
  <>(manifest.status = "complete" \/ (pc = "idle" /\ ~Readable(manifest)))

\* The driver implements what a study promises: finished blocks are those it
\* recorded, and attempts are the directories it made.
Evidence ==
  {<<b, dirs[b].attempt>> : b \in {x \in Blocks : Exists(dirs[x])}}
    \union {<<a.block, a.dir.attempt>> : a \in aside}

Promise == INSTANCE PairedStudy WITH
  finished <- recorded, made <- attempts, attempts <- Evidence,
  verdict <- IF manifest.status = "complete" THEN "complete" ELSE "open"

\* Blocks finish for good, no attempt disappears, and "complete" is said only of
\* a study all of whose blocks are finished.
KeepsPromise == Promise!Spec
=============================================================================
