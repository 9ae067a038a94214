---------------------------- MODULE Stage5Study ----------------------------
(***************************************************************************)
(* The driver of the Stage 5 study: run_stage5_study (stage5_study.py).     *)
(* It walks the paired blocks of the matrix, runs one common warmup and     *)
(* then every arm of the block, appends each slot to a manifest kept in     *)
(* memory and rewrites manifest.json after every slot.  A block found       *)
(* unfinished by a resumed run is moved aside and executed again.           *)
(*                                                                         *)
(* The process can stop anywhere between two file-system steps: a tool      *)
(* raises out of prepare_common, the disk fills up, the host goes down.     *)
(* What survives is the file system: the manifest as last written, the      *)
(* block directories, and the directories moved under failed-attempts/.     *)
(*                                                                         *)
(* A block stands for a (fixture, repeat) pair and is named by its position *)
(* in the two nested loops.  Configuration, source and toolchain checks     *)
(* that can only refuse to start are not modelled.                          *)
(***************************************************************************)
EXTENDS Naturals, Sequences, FiniteSets, Subsequences

CONSTANTS
  NumBlocks,      \* fixtures x repeats
  Arms,           \* config["arms"], a sequence without repetition
  ExpectedSlots,  \* the slot count that completes the formal matrix
  SmokeChoices,   \* the values --smoke-blocks takes from run to run, 0 when absent
  MaxAborts,      \* bound: how often the process dies
  MaxInvalid      \* bound: how many slots end evaluation-invalid

Blocks == 1..NumBlocks
ArmSet == {Arms[i] : i \in 1..Len(Arms)}

ASSUME Stage5Assumption ==
  /\ NumBlocks \in Nat \ {0}
  /\ Arms \in Seq(ArmSet) /\ Arms # <<>>
  /\ \A i, j \in 1..Len(Arms) : Arms[i] = Arms[j] => i = j
  /\ SmokeChoices \subseteq Nat /\ {ExpectedSlots, MaxAborts, MaxInvalid} \subseteq Nat

VARIABLES
  manifest,   \* manifest.json: Missing, Torn, or the record last written
  mem,        \* the manifest held by the running process, Missing when none
  dirs,       \* the block directories under blocks/
  aside,      \* the directories moved under failed-attempts/
  pc,         \* where the process is; "idle" when there is none
  after,      \* where it goes once the manifest is saved
  cur,        \* the block the loops have reached
  smoke,      \* the --smoke-blocks of the running process
  arm,        \* the position of the current arm in the order of the block
  attempts,   \* block directories created so far: names the next one
  aborts,     \* times the process died
  invalid,    \* slots that ended evaluation-invalid
  gap         \* history: the process died after moving a block aside and
              \* before the manifest that says so was written

disk == <<manifest, dirs, aside>>
process == <<mem, pc, after, cur, arm, smoke>>
counters == <<attempts, aborts, invalid, gap>>
vars == <<disk, process, counters>>

----------------------------------------------------------------------------
(* Files and manifests *)

Missing == [status |-> "missing", blocks |-> <<>>, slots |-> <<>>, failed |-> <<>>]
Torn == [Missing EXCEPT !.status = "torn"]   \* cut off while being rewritten
FreshManifest == [Missing EXCEPT !.status = "running"]

Readable(m) == m.status \in {"running", "complete", "incomplete"}

\* A block directory: which execution made it, whether common.json is there,
\* and the outcome recorded in each arm's slot.json.
NoDir == [attempt |-> 0, common |-> FALSE, slots |-> <<>>]
Exists(d) == d.attempt # 0

\* The arms of a block start from a different one at each repeat.
ArmOrder(b) ==
  [i \in 1..Len(Arms) |-> Arms[((b + i - 2) % Len(Arms)) + 1]]

\* What a manifest says of a slot, and of the slots of a block.
Entry == [block : Blocks, arm : ArmSet, valid : BOOLEAN]
OfBlock(b) == [block : {b}, arm : ArmSet, valid : BOOLEAN]

SlotsOf(m, b) == Among(m.slots, OfBlock(b))
Without(seq, b) == Among(seq, Entry \ OfBlock(b))

\* Faults a change could bring to the test below: it no longer looks at the
\* outcome of the slots, or it expects the warmup among them.
BlockDoneWhateverTheOutcome(b) ==
  Len(SlotsOf(mem, b)) = Len(Arms) /\ dirs[b].common
BlockDoneCountingWarmup(b) ==
  Len(SlotsOf(mem, b)) = Len(Arms) + 1 /\ dirs[b].common

\* The test that lets a resumed run skip a block.
BlockDone(b) ==
  LET old == SlotsOf(mem, b)
  IN  /\ Len(old) = Len(Arms)
      /\ \A i \in 1..Len(old) : old[i].valid /\ old[i].arm \in DOMAIN dirs[b].slots
      /\ dirs[b].common

SmokeReached == smoke > 0 /\ Len(mem.blocks) >= smoke

\* Fault: the failed attempts are counted from the manifest of a fresh study.
AttemptNumberOfFreshStudy == Len(FreshManifest.failed) + 1

\* The number in the name of the next directory under failed-attempts/.
AttemptNumber == Len(mem.failed) + 1
AsideAt(b, n) == {a \in aside : a.block = b /\ a.number = n}

\* Nothing of the process survives its end but the file system.
ProcessGone ==
  /\ pc' = "idle" /\ after' = "idle" /\ mem' = Missing
  /\ cur' = 1 /\ arm' = 1 /\ smoke' = 0

----------------------------------------------------------------------------
Init ==
  /\ manifest = Missing /\ mem = Missing
  /\ dirs = [b \in Blocks |-> NoDir] /\ aside = {}
  /\ pc = "new" /\ after = "idle" /\ cur = 1 /\ arm = 1 /\ smoke = 0
  /\ attempts = 0 /\ aborts = 0 /\ invalid = 0 /\ gap = FALSE

\* A first run: the output directory is created, the manifest built and saved.
Start ==
  /\ pc = "new"
  /\ mem' = FreshManifest /\ smoke' \in SmokeChoices
  /\ pc' = "save" /\ after' = "scan" /\ cur' = 1
  /\ UNCHANGED <<disk, arm, counters>>

\* --resume reads the manifest back; it raises when the file is unreadable.
Resume ==
  /\ pc = "idle" /\ Readable(manifest)
  /\ mem' = [manifest EXCEPT !.status = "running"] /\ smoke' \in SmokeChoices
  /\ pc' = "save" /\ after' = "scan" /\ cur' = 1
  /\ UNCHANGED <<disk, arm, counters>>

\* write_json truncates the file and then writes it.
Truncate ==
  /\ pc = "save"
  /\ manifest' = Torn /\ pc' = "write"
  /\ UNCHANGED <<mem, dirs, aside, after, cur, arm, smoke, counters>>

Write ==
  /\ pc = "write"
  /\ manifest' = mem
  /\ \/ after = "idle" /\ ProcessGone
     \/ after # "idle" /\ pc' = after /\ UNCHANGED <<mem, after, cur, arm, smoke>>
  /\ UNCHANGED <<dirs, aside, counters>>

Scanning(b) == pc = "scan" /\ b = cur /\ b \in Blocks /\ ~SmokeReached

SkipBlock(b) ==
  /\ Scanning(b) /\ BlockDone(b)
  /\ cur' = cur + 1
  /\ UNCHANGED <<disk, mem, pc, after, arm, smoke, counters>>

\* What moving a block aside does to the files.
MoveFiles(b) ==
  /\ aside' = aside \union
       {[block |-> b, number |-> AttemptNumber, dir |-> dirs[b],
         nested |-> AsideAt(b, AttemptNumber) # {}]}
  /\ dirs' = [dirs EXCEPT ![b] = NoDir]

\* Faults: the moved slots stay in the manifest; the manifest waits for the
\* next save.
MoveAsideKeepingSlots(b) ==
  /\ Scanning(b) /\ ~BlockDone(b) /\ Exists(dirs[b])
  /\ Cardinality(AsideAt(b, AttemptNumber)) < 2
  /\ MoveFiles(b)
  /\ mem' = [mem EXCEPT !.failed = Append(@, [block |-> b, number |-> AttemptNumber])]
  /\ pc' = "save" /\ after' = "common"
  /\ UNCHANGED <<manifest, cur, arm, smoke, counters>>
MoveAsideUnsaved(b) ==
  /\ Scanning(b) /\ ~BlockDone(b) /\ Exists(dirs[b])
  /\ Cardinality(AsideAt(b, AttemptNumber)) < 2
  /\ MoveFiles(b)
  /\ mem' = [mem EXCEPT
       !.failed = Append(@, [block |-> b, number |-> AttemptNumber]),
       !.blocks = Among(@, Blocks \ {b}),
       !.slots = Without(@, b)]
  /\ pc' = "common"
  /\ UNCHANGED <<manifest, after, cur, arm, smoke, counters>>

\* shutil.move: a destination that already exists receives the source inside it.
MoveAside(b) ==
  /\ Scanning(b) /\ ~BlockDone(b) /\ Exists(dirs[b])
  /\ Cardinality(AsideAt(b, AttemptNumber)) < 2
  /\ MoveFiles(b)
  /\ mem' = [mem EXCEPT
       !.failed = Append(@, [block |-> b, number |-> AttemptNumber]),
       !.blocks = Among(@, Blocks \ {b}),
       !.slots = Without(@, b)]
  /\ pc' = "save" /\ after' = "common"
  /\ UNCHANGED <<manifest, cur, arm, smoke, counters>>

\* Both places are taken: shutil.move raises, and the run ends on the exception.
MoveFails(b) ==
  /\ Scanning(b) /\ ~BlockDone(b) /\ Exists(dirs[b])
  /\ Cardinality(AsideAt(b, AttemptNumber)) = 2
  /\ ProcessGone
  /\ UNCHANGED <<disk, counters>>

\* Fault: an existing directory is executed over.
EnterBlockOverOldDirectory(b) ==
  /\ Scanning(b) /\ ~BlockDone(b)
  /\ pc' = "common"
  /\ UNCHANGED <<disk, mem, after, cur, arm, smoke, counters>>

\* No directory to move: neither the move nor the clean-up of the manifest runs.
EnterBlock(b) ==
  /\ Scanning(b) /\ ~BlockDone(b) /\ ~Exists(dirs[b])
  /\ pc' = "common"
  /\ UNCHANGED <<disk, mem, after, cur, arm, smoke, counters>>

\* prepare_common makes the directory first and common.json last.
MakeBlock ==
  /\ pc = "common"
  /\ attempts' = attempts + 1
  /\ dirs' = [dirs EXCEPT ![cur] = [NoDir EXCEPT !.attempt = attempts + 1]]
  /\ pc' = "warmup"
  /\ UNCHANGED <<manifest, aside, mem, after, cur, arm, aborts, invalid, gap, smoke>>

CommonReady ==
  /\ pc = "warmup"
  /\ dirs' = [dirs EXCEPT ![cur].common = TRUE]
  /\ mem' = [mem EXCEPT !.blocks = Append(@, cur)]
  /\ pc' = "arm" /\ arm' = 1
  /\ UNCHANGED <<manifest, aside, after, cur, smoke, counters>>

\* run_slot leaves slot.json behind whatever happened inside it.
RunArm(valid) ==
  LET a == ArmOrder(cur)[arm]
  IN
  /\ pc = "arm" /\ arm <= Len(Arms)
  /\ ~valid => invalid < MaxInvalid
  /\ invalid' = IF valid THEN invalid ELSE invalid + 1
  /\ dirs' = [dirs EXCEPT ![cur].slots =
       [x \in DOMAIN @ \union {a} |-> IF x = a THEN valid ELSE @[x]]]
  /\ mem' = [mem EXCEPT !.slots =
       Append(@, [block |-> cur, arm |-> a, valid |-> valid])]
  /\ arm' = arm + 1
  /\ pc' = "save" /\ after' = "arm"
  /\ UNCHANGED <<manifest, aside, cur, attempts, aborts, gap, smoke>>

BlockEnd ==
  /\ pc = "arm" /\ arm > Len(Arms)
  /\ pc' = "scan" /\ cur' = cur + 1
  /\ UNCHANGED <<disk, mem, after, arm, smoke, counters>>

\* Fault: the status counts the slots and forgets their outcome.
FinishCountingOnly ==
  /\ pc = "scan" /\ (cur > NumBlocks \/ SmokeReached)
  /\ mem' = [mem EXCEPT !.status =
       IF Len(mem.slots) = ExpectedSlots THEN "complete" ELSE "incomplete"]
  /\ pc' = "save" /\ after' = "idle"
  /\ UNCHANGED <<disk, cur, arm, smoke, counters>>

\* Fault: the status of a slot is written where the status of a study belongs.
FinishWithSlotStatus ==
  /\ pc = "scan" /\ (cur > NumBlocks \/ SmokeReached)
  /\ mem' = [mem EXCEPT !.status = "completed"]
  /\ pc' = "save" /\ after' = "idle"
  /\ UNCHANGED <<disk, cur, arm, smoke, counters>>

\* After the loops the status is recomputed from the slots in the manifest.
Finish ==
  /\ pc = "scan" /\ (cur > NumBlocks \/ SmokeReached)
  /\ mem' = [mem EXCEPT !.status =
       IF /\ Len(mem.slots) = ExpectedSlots
          /\ \A i \in 1..Len(mem.slots) : mem.slots[i].valid
       THEN "complete" ELSE "incomplete"]
  /\ pc' = "save" /\ after' = "idle"
  /\ UNCHANGED <<disk, cur, arm, smoke, counters>>

\* The process disappears; only the file system remains.
Abort ==
  /\ pc \notin {"new", "idle"} /\ aborts < MaxAborts
  /\ aborts' = aborts + 1
  /\ gap' = (gap \/ (pc = "save" /\ after = "common"))
  /\ ProcessGone
  /\ UNCHANGED <<disk, attempts, invalid>>

Process ==
  \/ Start \/ Resume \/ Truncate \/ Write
  \/ \E b \in Blocks : SkipBlock(b) \/ MoveAside(b) \/ MoveFails(b) \/ EnterBlock(b)
  \/ MakeBlock \/ CommonReady \/ \E v \in BOOLEAN : RunArm(v)
  \/ BlockEnd \/ Finish

Next == Process \/ Abort

Spec == Init /\ [][Next]_vars

\* A process that is running goes on, and whoever runs the study starts it again
\* with --resume for as long as it is not complete, and not every time with
\* --smoke-blocks.
ResumeInFull == Resume /\ manifest.status # "complete" /\ smoke' = 0
FairSpec ==
  /\ Spec /\ WF_vars(Process /\ ~(pc = "idle" /\ manifest.status = "complete"))
  /\ SF_vars(ResumeInFull)

----------------------------------------------------------------------------
(* Properties *)

Manifests ==
  [status : {"missing", "torn", "running", "complete", "incomplete"},
   blocks : Seq(Blocks), slots : Seq(Entry),
   failed : Seq([block : Blocks, number : Nat])]

IsDir(d) ==
  /\ DOMAIN d = {"attempt", "common", "slots"}
  /\ d.attempt \in Nat /\ d.common \in BOOLEAN
  /\ DOMAIN d.slots \subseteq ArmSet
  /\ \A a \in DOMAIN d.slots : d.slots[a] \in BOOLEAN

\* Every variable keeps to the values the driver and its files can hold.
TypeOK ==
  /\ manifest \in Manifests /\ mem \in Manifests
  /\ DOMAIN dirs = Blocks /\ \A b \in Blocks : IsDir(dirs[b])
  /\ \A a \in aside : /\ a.block \in Blocks /\ a.number \in Nat
                      /\ a.nested \in BOOLEAN /\ IsDir(a.dir)
  /\ pc \in {"new", "idle", "save", "write", "scan", "common", "warmup", "arm"}
  /\ after \in {"idle", "scan", "common", "arm"}
  /\ smoke \in SmokeChoices \union {0} /\ cur \in 1..(NumBlocks + 1) /\ arm \in 1..(Len(Arms) + 1)
  /\ {attempts, aborts, invalid} \subseteq Nat /\ gap \in BOOLEAN

\* Every arm of every block has a valid slot.json.
MatrixOnDisk ==
  \A b \in Blocks, a \in ArmSet : a \in DOMAIN dirs[b].slots /\ dirs[b].slots[a]

\* A study whose manifest says "complete" has executed every arm of every
\* block validly: the result the run of the matrix promises.
CompleteMeansWhole == manifest.status = "complete" => MatrixOnDisk

\* Outside the one window where a block was moved aside and the process died
\* before saying so, "complete" can be trusted.
CompleteUnlessGap == ~gap => CompleteMeansWhole

\* The entries of a manifest name distinct arms and repeat what slot.json of
\* the current execution of the block says.
Backed(m) ==
  /\ \A i, j \in 1..Len(m.slots) :
       i # j => <<m.slots[i].block, m.slots[i].arm>> # <<m.slots[j].block, m.slots[j].arm>>
  /\ \A i \in 1..Len(m.slots) :
       LET s == m.slots[i]
       IN  s.arm \in DOMAIN dirs[s.block].slots /\ dirs[s.block].slots[s.arm] = s.valid

\* While no process died in that window, both the manifest in memory and the
\* manifest a stopped study leaves behind agree with the evidence on disk.
ManifestBacked ==
  ~gap => Backed(mem) /\ (pc = "idle" => Backed(manifest))

Executions == {dirs[b] : b \in Blocks} \union {a.dir : a \in aside}

\* What an execution of a block recorded is never overwritten nor lost, failed
\* attempts included: it stays in its directory or moves under failed-attempts/.
EvidenceKept ==
  [][\A d \in Executions : Exists(d) =>
       \E e \in Executions' :
         /\ e.attempt = d.attempt /\ (d.common => e.common)
         /\ \A a \in DOMAIN d.slots :
              a \in DOMAIN e.slots /\ e.slots[a] = d.slots[a]]_vars

\* A block all of whose arms are valid, and which the saved manifest records as
\* such, is left alone by every later run.
FinishedBlock(b) ==
  /\ Readable(manifest)
  /\ \A a \in ArmSet :
       /\ a \in DOMAIN dirs[b].slots /\ dirs[b].slots[a]
       /\ \E i \in 1..Len(manifest.slots) :
            manifest.slots[i] = [block |-> b, arm |-> a, valid |-> TRUE]

FinishedBlocksStay ==
  [][\A b \in Blocks : FinishedBlock(b) /\ ~gap => dirs'[b] = dirs[b]]_vars

\* The two states no resumed run gets out of: a manifest that was never written
\* or was cut off, and a block whose destination under failed-attempts/ is taken
\* twice over.
Wedged ==
  \/ pc = "idle" /\ ~Readable(manifest)
  \/ \E a \in aside : Cardinality(AsideAt(a.block, a.number)) = 2

\* Once the tools stop failing, a study that somebody keeps resuming completes,
\* unless a death of the process left it wedged.
EventuallyComplete == <>(manifest.status = "complete" \/ Wedged)

\* A destination under failed-attempts/ is used twice only after the process
\* died between a move and the manifest that counts it: invalid slots, resumed
\* runs and every other death give each failed attempt a place of its own.
CollisionNeedsGap == (\E a \in aside : a.nested) => gap

\* A stopped study whose manifest can be read lists every attempt that was moved
\* aside, unless the process died in that same window: no negative result is
\* dropped from the record.
AttemptsListed ==
  pc = "idle" /\ Readable(manifest) /\ ~gap =>
    \A a \in aside : \E i \in 1..Len(manifest.failed) :
       manifest.failed[i] = [block |-> a.block, number |-> a.number]

\* So every failed attempt has a place of its own and is listed.
AttemptsAccounted == CollisionNeedsGap /\ AttemptsListed
=============================================================================
