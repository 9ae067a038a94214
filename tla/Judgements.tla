------------------------------ MODULE Judgements ------------------------------
(***************************************************************************)
(* What the program concludes, one conclusion at a time: from the replays of *)
(* a candidate, from the searches of Stage 1 and of the Stage 5 mechanism,    *)
(* from the arms of the Stage 2 benchmark, and from the evidence of a Stage 3  *)
(* and of a Stage 5 slot.  `part` is what a behaviour concludes; the variables *)
(* of the others stay as they are.                                            *)
(***************************************************************************)
EXTENDS CandidateReplay

CONSTANTS
  MaxPrefixes, MaxPlans, MaxCandidates,                   \* of the searches
  Blocks, Order, Total, CommonLimit, Reserve, Margin,     \* of the benchmark
  Calls, Plans, Warmups, Seeds, Endings, Budget, MaxRecords,  \* of the Stage 3 slot
  Holds, RepairedHolds, Proposals, PrefixLength,          \* of the Stage 5 slot
  Warmups5, Generated, Total5, EvidenceReserve, CleanupTolerance, MaxQueries, MaxRecords5

VARIABLES
  part,
  searchPc, mode, prefixes, searchLate, searchAttempts, elapsed, confirmed, searchStatus,
  mechanismPc, plans, mechanismLate, prefix, plan, mechanismAttempts, mechanismStatus,
  benchPhase, block, turn, common, benchPc, left, benchRecord, corpora, archive, report,
  slotPhase, slotNow, slotWarmup, accepted, augmentation, slotPending, known, started,
  slotStream, native, slotRecord, slotDamaged, slotVerdict,
  phase, now, warmup, queries, slot, pending, stream, damaged, row

searchVars ==
  <<searchPc, mode, prefixes, searchLate, searchAttempts, elapsed, confirmed, searchStatus>>
mechanismVars ==
  <<mechanismPc, plans, mechanismLate, prefix, plan, mechanismAttempts, mechanismStatus>>
benchVars ==
  <<benchPhase, block, turn, common, benchPc, left, benchRecord, corpora, archive, report>>
slotVars ==
  <<slotPhase, slotNow, slotWarmup, accepted, augmentation, slotPending, known, started,
    slotStream, native, slotRecord, slotDamaged, slotVerdict>>
stage5Vars == <<phase, now, warmup, queries, slot, pending, stream, damaged, row>>

----------------------------------------------------------------------------
(* The conclusions *)

Stage1 == INSTANCE Stage1Pipeline
  WITH pc <- searchPc, late <- searchLate, attempts <- searchAttempts, status <- searchStatus

Mechanism == INSTANCE Stage5Mechanism
  WITH pc <- mechanismPc, late <- mechanismLate, attempts <- mechanismAttempts,
       status <- mechanismStatus

Bench == INSTANCE Benchmark WITH phase <- benchPhase, pc <- benchPc, record <- benchRecord

SlotAudit == INSTANCE StudyAudit
  WITH phase <- slotPhase, now <- slotNow, warmup <- slotWarmup, pending <- slotPending,
       stream <- slotStream, record <- slotRecord, damaged <- slotDamaged,
       verdict <- slotVerdict

Stage5 == INSTANCE Stage5Audit
  WITH Warmups <- Warmups5, Total <- Total5, MaxRecords <- MaxRecords5, verdict <- row

ASSUME JudgementsAssumption ==
  /\ Stage1!SearchAssumption /\ Mechanism!MechanismAssumption
  /\ Bench!BenchmarkAssumption /\ SlotAudit!AuditAssumption /\ Stage5!Stage5AuditAssumption

----------------------------------------------------------------------------
(* One conclusion at a time *)

Fine == [success |-> TRUE, holds |-> TRUE]

JudgementsInit ==
  /\ part \in {"replay", "stage1", "mechanism", "benchmark", "slot", "stage5"}
  /\ Init /\ Stage1!Init /\ Mechanism!Init /\ Bench!Init
  /\ SlotAudit!Init /\ Stage5!Init
  /\ part # "replay" =>
       /\ stage = 5 /\ unsound = "none" /\ Size = 1
       /\ truth.flawed = <<Fine>> /\ truth.repaired = <<Fine>>
  /\ part # "stage1" => mode = "reach"
  /\ part # "slot" =>
       /\ slotWarmup = (CHOOSE w \in Warmups : TRUE) /\ augmentation = "not_applicable"
  /\ part # "stage5" => warmup = CHOOSE w \in Warmups5 : TRUE

JudgementsNext ==
  \/ /\ part = "replay" /\ Next
     /\ UNCHANGED <<part, searchVars, mechanismVars, benchVars, slotVars, stage5Vars>>
  \/ /\ part = "stage1" /\ Stage1!Next
     /\ UNCHANGED <<part, vars, mechanismVars, benchVars, slotVars, stage5Vars>>
  \/ /\ part = "mechanism" /\ Mechanism!Next
     /\ UNCHANGED <<part, vars, searchVars, benchVars, slotVars, stage5Vars>>
  \/ /\ part = "benchmark" /\ Bench!Next
     /\ UNCHANGED <<part, vars, searchVars, mechanismVars, slotVars, stage5Vars>>
  \/ /\ part = "slot" /\ SlotAudit!Next
     /\ UNCHANGED <<part, vars, searchVars, mechanismVars, benchVars, stage5Vars>>
  \/ /\ part = "stage5" /\ Stage5!Next
     /\ UNCHANGED <<part, vars, searchVars, mechanismVars, benchVars, slotVars>>

judgementsVars ==
  <<part, vars, searchVars, mechanismVars, benchVars, slotVars, stage5Vars>>

JudgementsSpec == JudgementsInit /\ [][JudgementsNext]_judgementsVars

-----------------------------------------------------------------------------
\* run_pipeline (pipeline.py): "no witness" rests on every prefix, no result of a
\* finished search hides a failed tool, a confirmation passed every check, and the
\* times of attempts that were left midway still add up.  run_stage5_mechanism
\* (stage5_pipeline.py): without a candidate every plan was gone through, and a
\* confirmation stands on four replays.
SearchReportsAreTrue ==
  /\ part = "stage1" =>
       /\ Stage1!NegativeMeansExplored /\ Stage1!NoVerdictHidesFailure
       /\ Stage1!ConfirmedPassedAll /\ Stage1!StageTimesAddUp
  /\ part = "mechanism" => Mechanism!NoCandidateWentThrough /\ Mechanism!ConfirmedInFourReplays

\* run_benchmark (benchmark.py): a valid arm ran the protocol, its row is a hit or
\* censored, and arms do not see each other's seeds.
BenchmarkComparesArms ==
  part = "benchmark" =>
    Bench!ValidRanTheProtocol /\ Bench!ValidRowsHitOrCensored /\ Bench!SeedsStayInTheirArm

\* What a Stage 3 runner recorded, the audit reads with its own reader and finds
\* the same (study_audit.py): late sequences, end of the observation, metrics; a
\* valid slot within its budget passes.  The row of the audit is of the campaign
\* that was executed, whichever file was replaced since, and its goal, reason and
\* first hit agree.
SlotAuditIsTrue ==
  part = "slot" =>
    /\ SlotAudit!ReadersAgree /\ SlotAudit!ValidPassesAudit
    /\ SlotAudit!RowIsOriginal /\ SlotAudit!RowExplainsGoal

\* The row of a Stage 5 audit (stage5_audit.py) names confirmations that are real
\* although one record was overwritten, attributes the first finding to its
\* cause, and is there for every valid slot whose import was replayed and whose
\* charge is in the budget.
Stage5RowIsTrue ==
  part = "stage5" =>
    Stage5!ConfirmedIsReal /\ Stage5!AuditedOnceReplayed /\ Stage5!FirstHitIsCause
=============================================================================
