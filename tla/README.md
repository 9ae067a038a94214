# A verification development for SeedBridge

SeedBridge compares three ways of spending a fixed wall-clock budget on finding
property violations in smart contracts: letting the Medusa fuzzer run on, adding
concretely mutated seeds to its corpus, and adding seeds a symbolic executor
(Halmos) derived from states the fuzzer reached. Its results are only as good as
its bookkeeping. What is verified here is that bookkeeping: which work is charged
to which budget, when a query may be asked, which slots count, and what a study
that was interrupted and resumed may claim.

All paths below are relative to the repository (`src/`); `src/src/seedbridge/` is
the Python package, `src/adapters/medusa/` the Go adapter around the fuzzer.

## 1. Inventory

The system is one Python process that runs tools (Medusa through the adapter,
Halmos, Forge) as subprocesses under timeouts. Nothing in the Python code is
concurrent. The hard parts are the clock, which moves between any two readings;
the tools, which answer anything, late or not at all; and the end of the process,
which leaves a half-done study on disk that a later run resumes. The adapter, in
Go, is concurrent.

| Component | State it keeps | Operations |
|---|---|---|
| Budget ledger (`budget.py`) | records of stages, whether one is open, the clock | open, finish, close, skip a stage; clamp a timeout; summarise |
| Stage 3/4 slot (`study_runner.py` `run_study_slot`) | the slot's record, a ledger, its workspace | six stages in order, classification of failures, charged end, validity |
| Stage 3/4 driver (`study_runner.py`, `_run_study`) | `manifest.json`, `blocks/`, `failed-block-attempts/` | start, resume, skip, move aside, execute a block, conclude |
| Stage 5 driver (`stage5_study.py`, `run_stage5_study`) | `manifest.json` (rewritten after every slot), `blocks/`, `failed-attempts/` | the same, with `--smoke-blocks` |
| Stage 5 slot (`stage5_study.py`, `run_slot`) | the slot's row, a ledger, a scheduler | four stages, the loop ask / execute / report / import |
| Query execution (`stage5_augment.py`) | candidates of one query, deadline | prefix check, build, solve, replay, encode, observe, repaired replay |
| Query scheduler (`stage5_scheduler.py`) | queues, attempted queries, feedback, promotion, decisions | `next_query`, `record_feedback` |
| Suffix plans (`suffix.py`, `stage5_replay.py`, `multi_harness.py`) | none | enumerate plans, generate harnesses, check a suffix natively |
| Mechanism pipeline (`stage5_pipeline.py`) | attempts of one run | search prefixes and plans for one confirmed candidate |
| Seed augmentation (`augmentation.py`) | deadline, pruning list, corpus files | concrete and symbolic augmentation, native batch validation |
| Solver results (`halmos.py`), replay (`replay.py`, `build.py`) | none | run a tool, classify what it printed |
| Native campaign (`medusa.py`), processes (`process.py`) | a process group | run with an outer timeout, SIGTERM, SIGKILL, check the report |
| Compact evidence (`compact.py`, `legacy_compact.py`) | none | fail-closed reader of the event stream |
| Medusa adapter (`src/adapters/medusa/*.go`) | sequence counters, lineage table, event stream, admission | hooks of the fuzzer's workers, timeout, sequence limit |
| Fixtures (`src/fixtures/*`), `safety.py`, `config.py` | contract storage | reservation, request and accounting contracts, flawed and repaired |
| Study specification (`study.py`, `campaign.py`) | none (frozen) | validation |
| Stage 1 pipeline, Stage 2 benchmark (`pipeline.py`, `benchmark.py`) | attempts; the arms' records | search prefixes for one candidate; compare arms; neither is ever resumed |
| Audits (`study_audit.py`, `safety_audit.py`, `stage5_audit.py`) | none | read-only checks of finished evidence |
| Workspace cache (`cache.py`), traces, harnesses, metrics | files | copy, hash, generate, aggregate |
| Reports, exports, command line, `doctor.py`, scripts | none | formatting, archives, argument parsing |

How they interact. A driver calls the common warmup and then the slot function once
per profile or arm; the slot opens every stage on its own ledger, hands each tool
what the ledger says is left, and leaves `campaign.json` or `slot.json` behind
whatever happened. The Stage 5 slot alternates between the scheduler and
`execute_query`, telling the scheduler of every result. Drivers, reports and audits
share only files: the manifest, the block directories, and the directories moved
aside. The adapter and the Python process share the report and the event stream.

What is hard, and what would make each part correct:

- **Ledger.** Operations read the clock more than once, so the budget that was
  looked at is not the one that is charged. Correct when stages do not overlap, no
  second is charged twice, and nothing runs after an overrun.
- **Slots.** Any of the stages raises any of several exceptions, is refused, or
  overruns. Correct when the slot always ends with a classified record, stops at the
  first failure, and is `evaluation_valid` only if the whole protocol ran in time.
- **Scheduler.** Promotion of the adaptive arm depends on what was heard and on the
  order. Correct when no query repeats, two-call queries are earned, and nothing is
  asked after a confirmation.
- **Query execution.** Each tool can fail, time out or be overtaken by the deadline.
  Correct when the scheduler hears of everything, an error ends the slot, and a
  confirmed candidate is in the corpus before Medusa continues.
- **Drivers.** The process can end between any two file-system steps, a number of
  times. Correct when "complete" stands for whole evidence, finished blocks are left
  alone, no evidence is lost, and a resumed study gets to its end.
- **Tools and waits.** A tool may outlive its launcher, ignore signals, or finish just
  as its timeout strikes. Correct when nothing of it is left after a timeout, and when
  what a campaign returns was left by an adapter that ran to its end.
- **Adapter.** A worker, a timer and the main thread share counters, a lineage table
  and a stream, and the process may be killed between any two steps. Correct when the
  parents of a mutation resolve, and a report and a stream that are there can be read
  together.
- **Augmentation.** A deadline strikes between encoding an input, solving for it and
  committing it. Correct when the fuzzer executes exactly what was committed, and the
  status says why nothing was accepted.
- **Solver and replay.** Documents, return codes, logs and reports may contradict each
  other. Correct when a conclusive status is earned by this very attempt, and a
  confirmation stands although one of two witnesses says anything at all.
- **Pipelines and benchmark.** Many attempts, each left midway by `continue`, `return`
  or an exception. Correct when "nothing found" rests on a whole search, and arms do not
  see each other's seeds.
- **Plans, tests, studies.** A limit cuts a list, a test stops for one of three reasons,
  a configuration is written by hand. Correct when the choice does not depend on the
  order of execution, search, replay and regression agree, and blocks are complete.
- **Audits.** The same evidence is read by two programs, possibly after a file was
  replaced. Correct when they agree, and when a row speaks of the campaign that ran.
- **Fixtures.** The repaired contracts keep the property the flawed ones violate, and a
  violation is never undone.

`PROJECT.json` lists every component with its status and every hazard at its line,
with the properties that watch it.

## 2. The modules

| Module | What it is | Code |
|---|---|---|
| `BudgetLedger` | the ledger with any user | `budget.py` |
| `StudySlot` (extends `BudgetLedger`) | one Stage 3/4 slot | `study_runner.py`, `run_study_slot` |
| `QueryScheduler` | the scheduler with any caller | `stage5_scheduler.py` |
| `Stage5Slot` (extends `BudgetLedger`, `QueryScheduler`) | one Stage 5 slot with its queries | `stage5_study.py` `run_slot`, `stage5_augment.py` |
| `PairedStudy` | abstract: what a study driver promises | - |
| `StudyRunner` (implements `PairedStudy`) | the Stage 3/4 driver | `study_runner.py`, `_run_study`, `io.py` |
| `Stage5Study` | the Stage 5 driver | `stage5_study.py`, `run_stage5_study`, `io.py` |
| `ProcessGroup` | a tool and everything it starts, under a timeout | `process.py` |
| `NativeCampaign` (extends `CompactStream`) | a Medusa campaign: worker, timer, main thread, wrapper | `observed.go`, `compact.go`, `medusa.py` |
| `CompactStream` | the event stream, its writer and reader as operators | `compact.go`, `compact.py` |
| `SeedAugmentation` | both augmenting arms of Stages 2 to 4 | `augmentation.py` |
| `ToolVerdicts`, `HalmosRun` | the judgement of a solver's output; attempts against a solver | `halmos.py` |
| `CandidateReplay` | the witnesses of a candidate, Foundry and Medusa | `replay.py`, `stage5_replay.py`, `medusa.py` |
| `Stage1Pipeline` | the search of Stage 1 | `pipeline.py` |
| `Stage5Mechanism` | the search of the Stage 5 mechanism run | `stage5_pipeline.py` |
| `Benchmark` | warmup, arms and report of Stage 2 | `benchmark.py`, `campaign.py` |
| `StudyAudit` | a Stage 3 slot as recorded and as audited | `study_runner.py`, `metrics.py`, `study_audit.py` |
| `Stage5Audit` | a Stage 5 slot as recorded and as audited | `stage5_study.py`, `stage5_audit.py` |
| `PrefixPlans` | from a warmup to the queues of an arm | `trace.py`, `suffix.py` |
| `StudyPlan` | configurations, frozen protocols, slots | `study.py` |
| `SafetyFixtures` | the six safety contracts | `fixtures/`, `safety.py`, `observed.go` |
| `SafetyHarness` (instantiates `SafetyFixtures` twice) | the generated tests, run on them | `multi_harness.py` |
| `Tools` (extends `NativeCampaign`, instantiates `ProcessGroup`, `SafetyFixtures`, `SafetyHarness`, `SeedAugmentation`, `HalmosRun`) | the tools, the waits for them and what they work on, one at a time | |
| `Judgements` (extends `CandidateReplay`, instantiates the searches, the benchmark and both audits) | what is concluded, one conclusion at a time | |
| `Subjects` (instantiates `PrefixPlans`, `StudyPlan`) | what a study is about, one subject at a time | |
| `Subsequences` | the part of a list that lies in a set, and lists one after the other, for comprehensions and `extend` in the code | |
| `*_proofs` | invariants and theorems of the module they are named after; those of the scheduler are in `Stage5Slot_proofs`, those of the subjects in `StudyRunner_proofs`, and those about lists in `Subsequences_proofs` | |
| `MC*` | values for TLC | |

Composition. `BudgetLedger` and `QueryScheduler` leave their user open: their
next-state relations allow every call the methods accept. The slots extend them,
take their actions as the ledger and scheduler part of their own steps, and are
shown to satisfy `LedgerSpec` and `SchedulerSpec`; what holds of every ledger and
every scheduler then holds in every slot. The drivers see a slot as one step with a
valid or an invalid outcome; that this is what a slot leaves is `SlotEnds`.
`PairedStudy` is the abstract specification of a driver: blocks finish for good,
attempts never disappear, "complete" only when all blocks are finished.

### State and actions against the code

**`BudgetLedger`.** Times are whole numbers counted from `started_at`. `now` is the
clock, `records` the list of stage records (the open one last), `active` the
`_active_stage` flag. `OpenStage`/`RefuseStage` are the two ways into
`stage()`: the budget is looked at, then the start is read, and the clock may move
in between. `CloseStage` is the `finally` of `stage()` for a normal return and for
an exception carrying a status, with the rewriting of a late completion.
`FinishHandle` is `StageHandle.finish`, `RecordSkipped` the method of that name with
its three readings. A call the code refuses raises and changes nothing, so it is a
disabled action. `Summary` is `summary()`.

**`StudySlot`.** `pc` is the stage reached; the other variables are the fields of
the slot's record. `Enter`, `Refused`, `Leave`, `Raise` are the ways in and out of a
stage, `StageFails` any exception of a body; the actions of a single stage follow
`run_study_slot` in order. After the stages `ReadChargedEnd`, `MetricsSaved`,
`ArtifactsListed`, `OfflineFails` and `Finally` are separate because a failure
between them leaves different records. What the tools do is a choice; only
subprocesses are cut off, so nothing bounds the time a stage takes.

**`QueryScheduler`.** The fields of the dataclass. `next_query` is the disjunction
`NextQuery` of its six outcomes; `record_feedback` is `RecordFeedback`. Each
decision remembers how many reports were known when it was made.

**`Stage5Slot`.** `stage` and `phase` say where `run_slot` and `execute_query` are;
`current`, `left`, `dropped`, `result` are the locals of a query. A query is a chain
of tools; before each the deadline is looked at (`OutOfTime`), a tool fails with one
of the results its caller distinguishes (`ToolFails`) or returns (`ToolReturns`), and
a candidate can be dropped (`DropCandidate`). `Report` appends the row and calls the
scheduler; `HardResult` ends the slot; `Import`/`ImportFails` are the copy into the
corpus; `Settle` sets the outcome of the stage.

**`StudyRunner`, `Stage5Study`.** `manifest`, `dirs`, `aside` are the disk and
survive; `mem` is the manifest in memory and is lost with the process. `Truncate`
and `Write` are the two halves of `write_text`. `Abort` is an exception out of the
warmup, a full disk or the end of the host, at any step, and leaves the disk as it
is. The Stage 3/4 driver looks only at `completed_blocks` when it resumes and moves
a directory to a random name; the Stage 5 driver looks at the slots of the manifest
and at two files, numbers the destination by the length of a list, and
`shutil.move` nests a directory into an existing one and raises when that is taken
too (`MoveFails`).

**`ProcessGroup`.** `pc` is the place in `run_command`, `running` the processes of the
session. `Spawn` and `Ends` are the tool's; `WaitReturns` and `WaitExpires`,
`Terminate`, `Grace`, `Kill` and `Reap` are the caller's. A signal to the group reaches
whoever is in it; only the second one ends them for certain.

**`NativeCampaign`.** The worker generates, executes call after call, and is hooked when
a sequence is over (`Remember`, `Tested`, `Flush`); the timer fires or is stopped; the
main thread waits for the fuzzer, writes the report and then the marker. `Dies`,
`KilledByOthers` and `OuterTimeout` are the ends a process does not choose. `Judge` is what
`campaign()` makes of the files. The stream is a sequence of events that may end in a torn
one; `Accepted` is the reader of `compact.py`.

**`SeedAugmentation`.** One action per tool answer of an attempt, `OutOfTime` at each of
them, `Prune` for the `finally` that removes inputs without an entry, `EncodeBatch` and
`ValidateBatch` for the native batch, whose report decides what is accepted. `StudySlot`
sees the status.

**`ToolVerdicts`, `HalmosRun`.** `Parse` is `parse_result` and `parse_suffix_result`,
`Verdict` adds the process and its log. `HalmosRun` lets a solver explore, leave things
out with or without a word in its log, die or be stopped, in directories of earlier
attempts.

**`CandidateReplay`.** `truth` is what the two contracts do at each call; at most one
tool is unsound and reports anything that is well formed. The actions are the witnesses in
the order of Stage 1 and of Stage 5, each of which refuses for one of its reasons or
passes its steps on.

**`Stage1Pipeline`, `Stage5Mechanism`.** Nested loops as a `pc`, the attempts with their
stages as data. Every tool returns any status its caller distinguishes or raises.

**`Benchmark`.** One block after the other; `run_arm` stage by stage, `Finally` the record
it always leaves, `Report` the second reading.

**`StudyAudit`, `Stage5Audit`.** First a slot runs and is recorded, then at most one record
is replaced (`Damage`), then the audit reads what is there. The runner's metrics and the
audit's are two definitions, as they are two programs. In both the charge of a slot is read
after its last stage has closed, and validity looks only at the stages. `augmentation` is the
status the augmentation ended with, from which `MissReason` explains a miss; an augmentation
needs a warmup sequence that ends without the goal (trace.py:69-70). A Stage 5 slot
reads its clock when a stage opens, before the native process starts and when it stops
(`NativeStarts`, `NativeStops`, `SlotEnds`); the native report counts from the start of its
process, which no record of the slot knows (`launched`), so the audit's times of native events
and its end of the observation are what the two clocks give together.
What may be replaced: in Stages 3 and 4 the stream, alone or with its report, the metrics, or
the goal; in Stage 5 the record of a query, its model and each of its four replays, any
reference, decision or confirmation in `slot.json`, any of its times, or one native event. The
warmup, the prefix pool and the plans are never replaced.

**`PrefixPlans`.** `observed` grows as the warmup reports; selection and enumeration are
operators on a report; the sort is written as the place each element takes. **`StudyPlan`.**
`study` is the text of a configuration as `from_dict` reads it (`IsStudy`: which fields there
are and which of them are lists), changed by edits; acceptance and the slots are operators on it.

**`SafetyFixtures`.** One action per contract function with its guards; a refused call
stutters (`Accepts` says which calls are taken). **`SafetyHarness`.** The same calls on both contracts at once, with the verdicts
of the three generated tests after each.

Three modules put components that do not interact side by side so that one run checks, and
one chain of lemmas proves, all of them: in `Tools`, `Judgements` and `Subjects` a constant
variable `part` names the component a behaviour is about, its specification takes the steps,
and the variables of the others stay at a fixed initial value. They have constants for
everything the code leaves open; `MCTools`, `MCJudgements` and `MCSubjects` give them values.

Definitions introduced by a comment that starts with "Fault" are not part of any
specification. They are plausible wrong versions of the definition below them, kept
so that every property has a change of the code that violates it.

## 3. The runs

Nine runs hold. State counts are those of the given bounds.

| Run | Instance | Distinct states | What it shows |
|---|---|---|---|
| `stage5_study` | 2 blocks x 2 arms, 3 process ends, 1 invalid slot, with and without `--smoke-blocks` | 476 thousand | outside one window "complete" is true (`CompleteUnlessGap`), the manifest agrees with the disk (`ManifestBacked`), every attempt has a listed place of its own (`AttemptsAccounted`), no evidence is lost, finished blocks stay, and a resumed study completes unless it is wedged |
| `budget_ledger` | budget 3, charge 1, clock to 5, 4 records | 49 thousand | nothing is charged twice, an overrun ends the campaign, completed stages fit |
| `study_slot` | budget 4, charge 1, clock to 5 | 448 thousand | validity, agreement of the augmentation records, failures end the slot, termination |
| `study_runner` | 2 blocks x 2 profiles, 2 process ends, 1 invalid slot | 30 thousand | the Stage 3/4 driver's "complete" is true everywhere, it implements `PairedStudy`, and completes when resumed |
| `query_scheduler` | queues of up to 2 plans, 4 decisions, 3 reports | 616 thousand | nothing is asked after a confirmation, two-call queries are earned, for any caller |
| `stage5_slot` | budget 3, queues of 1, 2 queries, 2 candidates | 1.6 million | the scheduler is never behind, a valid slot has the stages, queries and imports the auditor asks for (its charge is checked in `judgements`), confirmations are imported, termination |
| `tools` | one tool at a time | 3.9 million | nothing outlives a timeout; repaired contracts keep their property and violations stay; search, replay and regression agree; solver statuses are earned; lineage resolves; a finished adapter is readable and only a finished one is used; the augmentation executes what it committed and says why it failed; control comes back |
| `subjects` | one subject at a time | 72 thousand | plans do not depend on the order of execution and leave nothing out; accepted configurations compare what they say |
| `judgements` | one conclusion at a time | 3.3 million | confirmations are real, searches that found nothing were whole, arms independent; the audits find what was run, tell why a goal was missed, and refuse no undamaged Stage 5 slot but one whose import was not replayed or whose charge is beyond the budget |

Three runs check what the repository says of itself and find it violated:

- **`stage5_whole`** (`stage5_study.py:350`). A block is moved aside before the manifest
  that drops its slots is written. When the process ends in between, the next
  `--resume` finds no directory, so it neither records the attempt nor drops the old
  slots; the block runs again and its slots are counted together with the stale ones.
  A later resume can reach the expected number with an arm missing and write
  "complete". `cli.py:91` promises to resume at a verified boundary, and
  `stage5_audit.py:475` rejects the result. The Stage 3/4 driver does not have this
  defect (`CompleteStudiesAreWhole` is proved).
- **`study_slot_charge`** (`study_runner.py:422`). The charged end is read after the last
  stage closed and nothing compares it with the budget; `evaluation_valid` looks only at
  the stages. A slot can be valid with a charge beyond its budget, which
  `study_audit.py:394-397` refuses.
- **`stage5_promote`** (`stage5_augment.py:78`). A query all of whose candidates timed out
  in replay ends as `candidate_rejected`, and that promotes the adaptive arm once its
  one-call plans are used up. `configs/stage5-formal-v1.json:29`: "Timeout, unsupported,
  and tool errors alone do not trigger promotion."

Every property of a passing run has a mutant in `PROJECT.json`: a changed definition
under which that run finds the property violated. A property that gathers several claims
has one for each.

Some properties are proved for every instance (section 6) and therefore in no run:
`NonOverlapping`, `AskedOnce`, `NeverBack`, `RecordedBacked`, `OneOpenBlock`,
`RecordedBlocksStay`, the type invariants of the modules with proofs,
`RefusedOnlyAfterViolation`, `GoalIsReal`, and that the slots satisfy `LedgerSpec` and
`SchedulerSpec`.

## 4. Bounds, and why they are enough

- *Drivers.* Two blocks are needed for a skipped and an executed block in one run, two
  arms for a partly executed block. Every property that a process end can break is
  broken by at most three of them (the counterexample of `stage5_whole` needs three:
  leave a partial block, end in the window, end in the repeated block). With
  `--smoke-blocks` 1 a run stops before the second block.
- *Ledger and slots.* `MaxTime` lies beyond `Total`, so that stages overrun, and the
  charge is 1 in `budget_ledger` and `study_slot`, so that the precharge record exists
  (0 in `stage5_slot`, where it would only take an instant from the queries). Stage bodies
  read the clock at every boundary, so a handful of instants yields every order of readings
  and deadline. `MaxRecords` exceeds what the protocol writes and never blocks a slot; in
  `BudgetLedger` it bounds an open user.
- *Scheduler.* Two plans per queue distinguish "used up" from "one tried". Reports are
  one status of each kind that the code distinguishes; unequal statuses of a kind are
  treated alike by the code.
- *Stage 5 slot.* Two queries and two candidates give: a first result that matters for
  the second, and a dropped candidate before a confirmed one. One plan per queue is
  enough for the adaptive arm to spend its one-call queue and be promoted.
- *Tools.* A launcher and three descendants: one ends by itself, one when asked, one only
  when killed. Campaigns of up to three sequences of at most two calls: a mutation of a
  mutation, a parent that is a prefix of another parent, and a limit that is reached while
  a hook runs. Two prefixes with two candidates each for the augmentation; the concrete arm
  repeats a value, and one of three identities is the warmup's. Six units of capacity let every
  flawed contract be violated, and the reservation contract leave its bounds afterwards. The
  tests run on the same units (amounts 0 to 7), with prefixes of up to three calls and two
  suffix calls, the longest plans there are. Two attempts of a solver in one workspace with up
  to two models, so that what an earlier attempt left can be taken for an answer.
- *Subjects.* A warmup of four sequences exceeds the limit of two prefixes, two files hold the same
  calls, and lengths and contexts tie; three plans are less than there are. Two edits of a
  configuration that is accepted reach a rejected one and, beyond it, an accepted one. The bound
  of a seed (`SeedBound`, 2^63 in the code) is 100 and the names that match `PROFILE_ID`
  (`Identifiers`) are listed; one edit each exceeds them.
- *Judgements.* Two suffix calls; two prefixes (and one plan with two candidates), so that a failure precedes or
  follows a success; one block of two arms with a budget of 3; a budget of 2 with three
  records, so that a sequence is early, at the end or late, and an augmentation that was skipped,
  failed or found nothing; a Stage 5 slot with a budget of 4, one unit of it reserved for the
  evidence (`EvidenceReserve`) and no tolerance, so that the native stage is refused, starts late
  or stops at the end, and the charge passes the budget after the last stage; two queries and
  three records (`MaxRecords5`), with candidates that violate at the first, the second or no
  suffix call, or in the repaired contract as well.

Deadlock is not checked: slots end, studies stop and wait for a resume that a bound or
an unreadable manifest rules out, tools end, conclusions are final, and bounded users stop.

## 5. Fairness

`FairSpec` of the drivers has weak fairness of the driver's own steps: the process is
sequential, so while it runs it takes its next step, and starting again after an end is
the operator's part; fairness stops asking for it once the manifest says "complete". For
Stage 5 the operator does not resume with `--smoke-blocks` for ever (strong fairness of
`ResumeInFull`). It is not fair that the process ends; `MaxAborts` bounds how often it
does, which is the premise "once the tools stop failing". The same holds of `MaxInvalid`.
`EventuallyComplete` names the states no resume gets out of: an unreadable manifest
(`io.py:16` truncates and then writes), and in Stage 5 a block whose destination is taken
twice.

`FairSlotSpec` has weak fairness of the slot's steps: every tool a slot waits for is a
subprocess under a timeout, so that a step is always reached. The clock needs no
fairness: a slot ends whether or not time passes.

What that rests on is `ControlComesBack` of the `tools` run. Its fairness: `run_command`
goes on and its waits end when their time is over, while the processes of the tool owe
nothing; the adapter's worker and main thread go on, its timer fires or is stopped, the
wrapper judges, and nobody has to kill; the augmentation takes its next step, each tool
being such a call.

## 6. What is proved

TLAPS checks the following for every value of the constants that satisfies the named
assumptions, which TLC evaluates in the runs: `LedgerAssumption`, `SlotAssumption`,
`SchedulerAssumption`, `Stage5SlotAssumption`, `RunnerAssumption`, `Stage5Assumption`,
`ToolsAssumption` (with those of process group, contract, campaign, augmentation and solver in
it), `JudgementsAssumption` (with those of the replays, the searches, the benchmark and the
audits) and `SubjectsAssumption` (with those of the plans and the configurations). They say
what `study.py`, the constructors and the contracts enforce: a positive budget, a charge
below it, queues and arms without repetition, disjoint kinds of queries, known status names
(the statuses of exceptions are none of the results a stage is settled with), finitely many
processes, a capacity (100 in the code) that the three phases of a request fit into, plans
of one or two calls after a prefix that was observed without a violation, positive limits of
a selection and of its plans, hashes that tell identities apart, no suffix call declared
twice, and fields of a configuration of the kind `from_dict` reads.

**Ledger** (`BudgetLedger_proofs`): `LedgerTypeCorrect`, `LedgerNeverOverlaps`,
`NothingRunsAfterOverrun`, `CompletedStagesFit`, `NoSecondTwice`
(`NothingChargedTwice`). The invariant `LedgerInv` adds to the
properties that the derived fields of a record follow from its times, because the
properties speak of the flag `late` and the two budgets and the code computes them at
different moments, and that an open stage was attempted. Two lemmas, on appending a record and on
replacing the last one, carry every operation. `OpenEffect`, `SkipEffect`, `SettleEffect`
and `CloseEffect` say what each operation leaves of the earlier records; the proofs about
both slots see the ledger through these four only. The sum of the charges is a recursive
function over the records. Stages do not overlap, so by induction over the records the sum
up to each of them is at most the end of that record.

**Scheduler** (`Stage5Slot_proofs`): `SchedulerTypeCorrect`, `SearchIsBounded`
(`AskedOnce`), `ConfirmationEndsSearch` (`QuietAfterConfirmation`), `AdaptiveRuleHolds`
(`TwoCallsEarned`), `PromotionIsForGood` (`NeverBack`). The code keeps its past in two
flags; `SchedulerInv` says what they stand for: `confirmed` is set whenever a confirmation
was heard, and `promoted` only after a moment at which two-call queries were earned.
Without it the properties, which speak of the history, do not follow from the flags a step
looks at.

**Slots, from outside** (`StudySlot_proofs`, `Stage5Slot_proofs`): `SlotUsesLedger` for
both, `SlotUsesScheduler`, and the consequences `SlotLedgerIsSound` and `SlotIsSound`. The
proofs are step simulations with an identity mapping. The Stage 5 one needs the invariant
`ResultKnown`: when a query is answered, it was given by the scheduler and its result is
one the scheduler accepts, so that `record_feedback` never raises.

**Slots, from inside.** `SlotTypeCorrect`, `SlotFailsOnce` (`FailureEndsSlot`),
`SlotAugmentationAgrees` (`AugmentationAgrees`) and `ValidSlotIsWhole`
(`ValidRanTheProtocol`) for Stages 3 and 4; `SlotTypeCorrect`, `ConfirmedReachesMedusa`
(`ConfirmedIsImported`), `ValidSlotSurvives` (`ValidSurvivesAudit`) and
`SchedulerIsNeverBehind` (`HeardBeforeAsked`) for Stage 5. These
speak of finished slots, while a step knows where it is and what is open. `StoryInv` relates
the two: there is one record for each stage entered, in the order of the protocol (`InOrder`);
every record but the last is of a stage that went well (`WentWell`); the record of the
augmentation agrees with the result of the slot, or in Stage 5 with the imported candidate,
as soon as it is settled (`Agrees`, `Recorded`); and no executed query but the last ended the
search, which ended for that reason (`Searched`). That the scheduler is never behind compares
the number of reports with a part of the list of decisions; each report appends to both.

**Stage 3/4 driver** (`StudyRunner_proofs`): `RunnerTypeCorrect`,
`CompleteStudiesAreWhole`, `RecordedBlocksBacked`, `OneBlockOpen`,
`RecordedBlocksUntouched`, `EvidenceIsKept`, `RunnerKeepsPromise`. None of these is
inductive: the word "complete" is written from a list in memory that came from a file an
earlier process wrote. `IInv` relates the three: what a readable manifest lists is exactly
what was ever recorded (`Listed`), a running process knows all of it and at most the block
it has just left is not recorded yet (`Remembered`), every block on either list has its
whole evidence (`Vouched`), no block is begun before those ahead of it are recorded
(`InOrder`), and the attempt numbers of directories were given out (`Numbered`). The
refinement follows step by step: a first write of a finished block is `FinishBlock`,
making a directory is `Attempt`, the last write is `Declare`, truncation and resuming are
`Reopen` or a stutter, and moving a block aside leaves the evidence as it was.

**Stage 5 driver** (`Stage5Study_proofs`): `TypeCorrect`, `BackedAlways` (`ManifestBacked`),
`AttemptsAlwaysAccounted` (`AttemptsAccounted`), `CompleteIsTrusted` (`CompleteUnlessGap`),
`EvidenceIsKept`, `FinishedBlocksAreLeft`. The invariant is built from the bottom: types and
what the place in the program says of the locals (`Sound`); what a block directory holds there
(`Directories`); what the manifest in memory, the manifest on disk and the directories say of
each other as long as no process died between moving a block aside and writing the manifest
(`OnRecord`; the property speaks of a few places only, the invariant of all, with `Window`
for the one step where they disagree in a living process); and when "complete" is written
(`Concluded`). That "complete" is true is a count: the entries of a manifest are backed and
distinct, so as many of them as the matrix has places fill every place. It needs that the
number in the code is not below the size of the matrix, which is the premise `MatrixFits`.

**Subjects** (`StudyRunner_proofs`).

- *Plans*: `PlansAlwaysAnswer` (`PlansAnswerForWarmup`), for reports of any length, any calls
  and all limits. The state needs no more than its type (`ObservedTyped`); the work is in what
  is computed from it. The place of a sequence in a sorted selection is the rank of its key,
  its length and the hash of its identity, among the keys of the report (`Ranked`,
  `SelectedRanked`). Reordering the report leaves these keys as they are (`KeysOfMoved`), and a
  rank tells its key, so every place of the selection keeps its identity, also below the limit
  (`MovedAlike`). The same ranks show that no identity is selected twice. A query names the
  identity of its prefix and a choice of calls; plans of one prefix differ in the choice, those
  of two in the identity, those of the two queues in their length (`QueueDiffers`,
  `QueriesAlwaysDiffer`). That plans are complete is a count of a list that is filled up to a
  limit (`Enumerated`).
- *Configurations*: `StudiesAlwaysCompare` (`AcceptedStudiesCompare`), for any configurations
  and any number of edits. The invariant is the shape of a configuration (`StudyTyped`), which
  every edit keeps. What `validate` demands makes the lists lists without repetition and every
  order a permutation of the profiles (`Laidout`); the slots are then the product of fixtures,
  repeats and profiles, each once (`BlocksAlwaysComplete`). What both frozen protocols say of a
  profile (`Frozen`) gives one arm per budget and one varying thing per comparison. The numbers
  of a plan are counted row by row (`RowTimes`, `SlotsTimes`): each profile occurs once for
  every fixture and repeat. Six, three and eight profiles leave one in both families, and 320,
  40, 240, 120 and 80 follow: `FormalCounts` can refuse nothing by itself.

**Tools** (`Tools_proofs`), the conjunction `ToolsInv` of six invariants.

- *Processes*: `NothingSurvives`, for any set of descendants. Nothing is born into an empty
  group, and only an expired wait marks a call as timed out.
- *Contracts*: `RepairedKeeps`, `RefusedAfterViolation`, `ViolationIsPermanent`, for every
  capacity and all arguments. The invariant has a part for each kind of contract
  (`AccountKept`, `ReservationKept`, `RequestKept`): what its counters keep, violated or not.
  That violations stay is what allows `pipeline.py:270` to compare only the last violation with
  the end of a sequence.
- *Tests*: `TestsAlwaysAgree` (`TestsAgree`), for every capacity, all arguments and prefixes of
  any length. None of its claims is inductive: they compare verdicts at the end, each of which
  was given up to two calls earlier. `TestsInv` says that until the search has a verdict the
  flawed and the repaired contract are alike (`Alike`) and safe, so that search and replay
  stay open or are decided together and the regression cannot have failed; and that after a
  prefix with the first call a continuation that is on its way to a shortest violation
  (`Promising`) has only calls with an amount and an open search. The step rests on
  `FlawedCall`: a call that leaves the property intact does the same to both contracts. The
  arithmetic of each contract is in lemmas of its own (`KeptIsSafe`, `MovesStayInside`).
- *Solver*: `SolverIsAlwaysUnderstood`, for all tests, variables, values and documents. The
  candidates are computed by a recursive function over the models; it is met by a sequence of
  steps (`Takes`) whose induction shows that each assignment of a valid model is there once. A
  document that was spoilt on its way is never consistent, and in an honest one the order of
  the variables does not matter.
- *Campaign*: `LineageAlwaysHolds`, `FinishedIsAlwaysReadable`, `ReturnedIsAlwaysFinished`, for
  any calls, imports and numbers of tests. `CampaignInv` follows a sequence from its choice to
  its record: the imports come first and only the clock can cut them (`StartupComesFirst`);
  what the fuzzer may mutate is known to the adapter (`ParentsAreKnown`), is written unless an
  error stopped the run (`PoolIsWritten`), and so are the parents of the sequence under way
  (`MutantsHaveWrittenParents`); the open stream holds complete sequences with indices of their
  own (`StreamHolds`); and what is left on disk was closed by an adapter without an error
  (`LeftBehind`). `Closing` then computes the verdict of the reader on a stream with its end
  marker, whatever was cut short before it.
- *Augmentation*: `AugmentationAlwaysAnswers`, for any limits, values and verdicts.
  `AugmentInv` says that every committed entry is in the corpus during the search, and nothing
  else is when the batch is validated (`CorpusHasEntries`), and that the answers the status
  depends on are remembered from the attempt that gave them (`AnswersRemembered`); the batch is a recursive function over
  the entries, whose verdicts keep the accepted seeds distinct by induction.

**Conclusions** (`Judgements_proofs`), the conjunction `JudgementsInv` of six invariants.

- *Replays*: `ConfirmationIsSound` (`ConfirmedIsReal`) and `GoalIsSound`, for suffixes of any
  length. Two reports are compared; each is well formed; one is the truth. `WitnessesAgree`
  concludes that the accepted one is the truth as well, and the first violation of a report, a
  minimum over its positions, is that of the contract (`FirstIsFirst`).
- *Stage 1 and the mechanism*: `SearchesReportTruly`. For Stage 1 every attempt but the last is
  one the search went on from (`Left`), the last has passed the checks before the present one
  (`Open`), and the times of the stages add up by induction (`AddsUp`). For the mechanism the
  attempts are the plans before the next one, each tried once (`Covers`), the candidates of the
  present plan are settled up to the one that is tried (`UpTo`), and one of them at most is
  confirmed, by its four replays.
- *Benchmark*: `BenchmarkAlwaysCompares`, for any blocks, arms and durations. `BenchInv` reads
  the record of the arm under way stage by stage (`ArmOpen`) and what a record that is done says
  of its arm (`ArmSound`).
- *Stage 3 slot audit*: `SlotAuditsAreTrue` (`SlotAuditIsTrue`), for any calls, warmups,
  limits and streams. While the slot runs, the sequences written are numbered, not earlier than
  the ones before, with lineages that hold; every known prefix was written and every accepted
  plan is pending or was replayed (`SlotCampaign`). Afterwards the file is that stream with at
  most a cut tail, and the record is what the runner's projection and metrics make of it
  (`SlotArchive`); once a file was replaced, stream and record differ in what was forged
  (`Forged`). The audit reads the stream once, event by event; an induction over its fold shows
  that it arrives at what the projection of the runner selects, and each metric of the two
  programs is compared by one more. A sequence taken out of the stream is noticed because the
  metrics tell it apart. What the audit concludes of an undamaged, a valid and a forged slot
  (`SlotConcluded`) then follows at the moment it reads.
- *Stage 5 rows*: `Stage5RowsAreTrue` (`Stage5RowIsTrue`), for any sequences, proposals,
  warmups and limits. `RowInv` says what a query leaves: its decision, its reference and its
  files belong together, and after one file was overwritten the logs are still believed only if
  they show what the proposed calls do (`Faithful`): what Foundry reported is the part of the
  native report after the prefix, a prefix without violations, so a different native report
  that passes is the same report (`SpoiltIsFaithful`). Of an undamaged slot it says in addition
  that only the last query can be confirmed (`FoundLast`), that every event is what its calls
  do, that each import is pending or was replayed exactly once (`Replayed`), and in which order
  the clock was read: the confirmation, the opening of the native stage, the start of its
  process, every event, its stop, the end of the evidence, the charge. So a valid slot whose
  charge is in the budget has its observation and all its hits in it. The first hit
  is a minimum over a set of triples; it exists because the times and ranks make one key.

**Induction.** The provers cannot instantiate the induction theorems of the library, which
take an operator, but they can use a set instead. `Subsequences_proofs` has `Induction` (a
set that holds 0 and is closed under successor contains all natural numbers, from their
well-foundedness), `Recursion` and `RecursionMet` (a function defined step by step exists
and is the one a recursive definition chooses), and what follows for `Among`: its elements,
their order, how many they are and what appending does; for `Joined`: where each element
stems from, that it repeats nothing its lists do not, and how often it holds what
(`JoinedDiffer`, `JoinedInside`, `JoinedTimes`); for lists filled up to a limit
(`FilledTo`); and for ranks (`Ranks`). Sums, counts, sorts and subsequences above rest on
these. The code's list comprehensions are written with `Among` where something is proved of
them and with `SelectSeq` elsewhere; both are the same list.

### Only model-checked

Liveness (`EventuallyComplete`, `SlotEnds`, `ControlComesBack`): the prover has no ENABLED.
Every invariant and every action property of the passing runs has its theorem. That the
configurations kept with the code are accepted at all, and which edits of them are, is left to
the `subjects` run.

## 7. Abstractions

- Tools are choices among the outcomes their caller distinguishes. Time is a clock that
  moves when it likes, or, where only the fact counts, a flag that a deadline has passed.
- A file is absent, cut off or whole only where it is rewritten (`manifest.json`) or where
  its writer can be killed (the stream, the report, the solver's document). `common.json`,
  `slot.json` and `campaign.json` appear in one step, each being the last thing its function
  does.
- Checks that only refuse to start or to resume (configuration, source hash, toolchain)
  leave no state and are left out of the drivers.
- A sequence of calls stands for its hashes. What a target shows after a call is a function
  of the calls made so far.
- `project_native_to_budget` is accepted or rejected in the slot models; the events and times
  it works on are in `StudyAudit`.
- An exception outside the classes a slot catches leaves its record pending and ends the run; it
  is not modelled.
- A seed the augmentation accepted reaches the goal when it is replayed: what a target shows is
  a function of the calls (`Benchmark`).
- A sequence the fuzzer generated anew has no parents, and the adapter calls them unresolved
  (`observed.go:553`); `LineageHolds` asks for the parents of mutations and of imports.
- A fixture and a repeat are one block number; the order of the profiles of a block is
  free in `StudyRunner` and the rotation of the code in `Stage5Study`.
- The corpus of the fuzzer, its mutations and which of them add coverage are choices.

## 8. Observations outside the properties

Met while reading or modelling; no run claims any of them to be wrong.

*Records and reports.*

- The report of a benchmark reads `native/campaign.json` and `metrics.json` of every arm, and
  an arm that failed early has neither: one failure costs the report of all
  (`benchmark.py:408`). It also assumes that every group has an arm (`benchmark.py:549`).
- In a benchmark the ledger is constructed, and the common warmup runs, outside any handler
  (`benchmark.py:217`, `371`); in a study a charge of at least the budget ends the run without
  a slot record (`study_runner.py:296`).
- `BenchmarkConfig.validate` accepts an arm named twice, which fails when its directory is made
  (`benchmark.py:86`).
- The mechanism run reports `no_candidate` although an attempt ended in a tool failure
  (`stage5_pipeline.py:225`); `NoCandidateWentThrough` says only that every plan was gone
  through. It reports any failure of the repaired replay as
  `repaired_regression_failure`. In Stage 1 `solve_budget_exhausted` hides earlier tool errors,
  and a goal test that exits with 0 counts as `no_witness_within_bounds` also when loops were
  bounded. `pipeline.py:282` names the repaired accounting fixture whatever the scenario.
- The Stage 5 driver calls a study complete when it has 240 slots (`stage5_study.py:377`), a
  number written into the code, while `validate_config` (lines 37-40) does not bound the number
  of repeats. A larger matrix would be complete too early; `CompleteIsTrusted` therefore has
  `MatrixFits` as an explicit premise, which the two configurations satisfy.
- In Stage 3/4 a block moved aside is listed only in memory until it has been executed
  again; a process that ends before leaves the attempt on disk and unlisted
  (`study_runner.py:550`).
- A manifest that was cut off while being written stops every later resume (`io.py:16`).
- An exception may leave a status outside `STAGE_STATUSES` in a stage record; only
  `finish` checks it (`budget.py`).
- After a query that ends the slot, `scheduler_decisions` is never written to the row
  (`stage5_study.py:223`), and `stage5_study.py:253` accepts a stop reason
  `property_failure` that the adapter never gives.

*Scheduling and audits.*

- A prefix check whose paths all revert counts as no progress and promotes the adaptive
  arm, although the query itself was never solved (`stage5_scheduler.py:77`).
- A Stage 5 continuation may end before the imported candidate was replayed. The slot is valid
  (`stage5_study.py:253`); the audit demands the replay (`stage5_audit.py:410`), which is why
  `AuditedOnceReplayed` has it as a premise.
- A valid Stage 5 slot may be charged beyond its budget (`stage5_study.py:286`), which the audit
  refuses (`stage5_audit.py:311-313`): the other premise of `AuditedOnceReplayed`, and what
  `study_slot_charge` shows of Stage 3/4 slots.
- With `require_complete=False` the Stage 5 audit passes a study of no rows; "native_import"
  is never the first hit of a slot as `run_slot` leaves it.
- The files of times have a single witness: replacing one is not noticed by comparison with
  another.
- A late sequence cannot occur in a slot whose charge stays in its budget, so that half of the
  projection is only reached by slots the audit refuses.

*Plans, configurations, contracts, adapter.*

- `full_sequence_limit` of `enumerate_plans` is never reached with plans of two calls and
  selected prefixes.
- The formal protocol of `study.py` freezes neither the reserves for startup, continuation and
  cleanup nor distinct seeds, and a profile need not leave time to fuzz.
- After its violation the flawed reservation contract can leave the bounds its counters are
  read with (six units: start, reserve 4, settle 4, settle 3), so that a campaign which goes
  on ends with an error. The ready states of the reservation and request fixtures are
  violated by no single target call.
- When the timer fires after the sequence limit was reached, the campaign ends as
  `time_limit`. A timeout that cuts the replay of the startup corpus short is a tool error.
  Files of the corpus with the same calls all map to the first path.
- Descendants of a tool whose launcher returns in time are left alone (`process.py`).

## 9. Plan

Done: the drivers, the ledger, the slots, the scheduler; then the tools, the adapter, the
augmentation, the searches, the benchmark, plans, tests, configurations, contracts and
audits; proofs of the drivers, the ledger, both slots from outside and from inside, the tools
with the tests that are generated, the conclusions and the subjects.

What would come next:

1. A refinement from `SeedAugmentation` to the choice `AugmentationReturns` makes in
   `StudySlot`, and from `NativeCampaign` to `NativeReturns`.
2. Two workers in `NativeCampaign`: `campaign.py:83` and the audits insist on one, the
   adapter itself does not.
3. The checks of archives and manifests that the audits make before they read.

## 10. Not modelled, and why

- `cache.py`: copies and hashes of directories, pure input and output. A copy that differs is
  a failure choice of the slots.
- Reports, exports, the command line, `doctor.py`: formatting, archives, argument parsing and
  version checks, without state that another part depends on.
- `scripts/` and the recorded evidence: deliveries that were made once.
- `legacy_compact.py`: reads an earlier format that nothing in the repository writes.
- `safety_audit.py`: the reading of `StudyAudit` once more for one pair of fixtures, with the
  same structure and stricter constants.
- Of the adapter: the codec of the corpus, the coverage markers and the mode for external
  contracts. The first writes down sequences the models name by their calls; coverage
  decides what a corpus takes in, which is a choice here; the third has no counterpart in
  the Python package.
- `build.py` compiles and compares artifacts before a replay and appears as a refusal.
- The four reachability contracts: their goal is one comparison, and what is said of goals is
  in `Stage1Pipeline` and `StudyAudit`.
