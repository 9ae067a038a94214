----------------------------- MODULE StudySlot -----------------------------
(***************************************************************************)
(* One slot of a Stage 3 or Stage 4 study: run_study_slot (study_runner.py) *)
(* charges its stages to one ledger.  The workspace and the corpus are      *)
(* copied, a prefix pool is taken from the common warmup, the arm of the    *)
(* slot augments the corpus or not, accepted seeds are imported, Medusa     *)
(* continues from the corpus until the time is up, and its evidence is      *)
(* validated.  Whatever is raised on the way ends up in the record.         *)
(*                                                                         *)
(* What the tools answer is nondeterministic, and so is how long anything   *)
(* takes: only subprocesses are given a timeout, the rest of a stage is not *)
(* interrupted.                                                             *)
(***************************************************************************)
EXTENDS BudgetLedger

CONSTANTS
  AugmentReserve,  \* startup_reserve_seconds + continuation_reserve_seconds
  NativeMargin     \* setup_margin: what is kept back from the native fuzz time

StageNames ==
  {"input_and_cache_prepare", "prefix_pool", "augmentation", "seed_import",
   "native_startup_and_continuation", "online_evidence_validation"}

\* What the augmentation may report instead of accepted seeds.
NegativeResults == {"no_candidate", "timeout", "invalid_model", "replay_mismatch"}

\* Why a native campaign that is returned at all may have stopped.
StopReasons == {"time_limit", "sequence_limit"}

ASSUME SlotAssumption ==
  /\ AugmentReserve \in Nat /\ NativeMargin \in Nat
  /\ StageNames \subseteq Stages
  /\ NegativeResults \union {"skipped", "no_eligible_prefix"} \subseteq Outcomes
  /\ {"tool_error", "timeout", "campaign_deadline", "evidence_error", "mismatch"}
       \subseteq ErrorStatuses
  /\ {"completed", "skipped", "no_eligible_prefix"} \intersect ErrorStatuses = {}

VARIABLES
  arm,          \* the arm of the slot's profile
  prefixes,     \* the common warmup left eligible prefixes
  withinLimit,  \* the common work kept its own limit
  pc,           \* the stage reached, or what follows the stages
  execution,    \* record["execution_status"]
  augmentation, \* record["augmentation_status"]
  lineage,      \* record["lineage_status"]
  evidence,     \* record["evidence_status"]
  stop,         \* stop_reason of the native campaign, "none" before it
  chargedEnd,   \* the charged end, -1 until it is read
  valid         \* record["evaluation_valid"]

statuses == <<execution, augmentation, lineage, evidence>>
slotVars == <<arm, prefixes, withinLimit, pc, statuses, stop, chargedEnd, valid>>
allVars == <<ledgerVars, slotVars>>
given == <<arm, prefixes, withinLimit>>

SlotInit ==
  /\ LedgerInit
  /\ arm \in {"native_resume", "concrete_augment", "symbolic_augment"}
  /\ prefixes \in BOOLEAN /\ withinLimit \in BOOLEAN
  /\ pc = "input_and_cache_prepare"
  /\ execution = "pending" /\ lineage = "pending" /\ evidence = "pending"
  /\ augmentation = IF arm = "native_resume" THEN "not_applicable" ELSE "pending"
  /\ stop = "none" /\ chargedEnd = -1 /\ valid = FALSE

After(stage) ==
  CASE stage = "input_and_cache_prepare"         -> "prefix_pool"
    [] stage = "prefix_pool"                     -> "augmentation"
    [] stage = "augmentation"                    -> "seed_import"
    [] stage = "seed_import"                     -> "native_startup_and_continuation"
    [] stage = "native_startup_and_continuation" -> "online_evidence_validation"
    [] stage = "online_evidence_validation"      -> "charge"

Augments == arm # "native_resume" /\ prefixes

----------------------------------------------------------------------------
(* Entering and leaving a stage *)

\* The augmentation stage exists only when there is something to augment.
Staged == pc \in StageNames /\ (pc = "augmentation" => Augments)

\* Fault: a refused stage is tried again.
RefusedAndRetried ==
  /\ Staged /\ RefuseStage(pc)
  /\ UNCHANGED slotVars

Enter ==
  /\ Staged /\ OpenStage(pc)
  /\ UNCHANGED slotVars

\* CampaignDeadlineError on the way in.
Refused ==
  /\ Staged /\ RefuseStage(pc)
  /\ execution' = "campaign_deadline" /\ pc' = "finally"
  /\ UNCHANGED <<given, augmentation, lineage, evidence, stop, chargedEnd, valid>>

\* The execution status an exception is recorded as.
Classified(status) ==
  CASE status = "campaign_deadline"              -> "campaign_deadline"
    [] status \in {"tool_error", "timeout"}      -> "tool_error"
    [] status \in {"evidence_error", "mismatch"} -> "evidence_error"

\* The body of the open stage raises: the stage and the slot record it.
Raise(status) ==
  /\ CloseStage(status)
  /\ execution' = Classified(status) /\ pc' = "finally"
  /\ UNCHANGED <<given, augmentation, evidence, stop, chargedEnd, valid>>

Leave ==
  /\ CloseStage("completed")
  /\ pc' = After(pc)
  /\ UNCHANGED <<given, statuses, stop, chargedEnd, valid>>

\* timeout_for keeps the reserve back and raises when nothing else is left.
AugmentationHasTime == Remaining(now) > AugmentReserve

\* What is left for the native fuzzer once its margin is kept back.
FuzzTime(t) == Remaining(t) - NativeMargin

\* Fault: the failure is recorded and the slot goes on.
StageFailsAndGoesOn ==
  /\ active /\ pc \in StageNames /\ LastRecord.status = "running"
  /\ \E status \in {"tool_error", "evidence_error", "mismatch"} : CloseStage(status)
  /\ pc' = After(pc)
  /\ UNCHANGED <<given, statuses, stop, chargedEnd, valid>>

\* Copying, saving or a tool fails, or the evidence is not what it should be.
\* The two stages that look at the budget first do so before anything else.
StageFails ==
  /\ active /\ pc \in StageNames /\ LastRecord.status = "running"
  /\ pc = "augmentation" => AugmentationHasTime /\ augmentation = "pending"
  /\ pc = "native_startup_and_continuation" => FuzzTime(now) > 0
  /\ \E status \in {"tool_error", "evidence_error", "mismatch"} : Raise(status)
  /\ UNCHANGED lineage

----------------------------------------------------------------------------
(* The stages *)

InputCopied == pc = "input_and_cache_prepare" /\ active /\ Leave
SeedsImported == pc = "seed_import" /\ active /\ Leave

\* An augmenting arm without prefixes settles the stage before it ends.
PoolEmpty ==
  /\ pc = "prefix_pool" /\ ~prefixes /\ arm # "native_resume"
  /\ FinishHandle("no_eligible_prefix")
  /\ UNCHANGED slotVars

PoolRead ==
  /\ pc = "prefix_pool" /\ active
  /\ LastRecord.status = "running" => prefixes \/ arm = "native_resume"
  /\ Leave

NoAugmentation ==
  /\ pc = "augmentation" /\ ~Augments
  /\ \/ /\ arm = "native_resume"
        /\ RecordSkipped("augmentation", "skipped")
        /\ UNCHANGED augmentation
     \/ /\ arm # "native_resume"
        /\ RecordSkipped("augmentation", "no_eligible_prefix")
        /\ augmentation' = "no_eligible_prefix"
  /\ pc' = "seed_import"
  /\ UNCHANGED <<given, execution, lineage, evidence, stop, chargedEnd, valid>>

AugmentationRefused ==
  /\ pc = "augmentation" /\ active /\ augmentation = "pending"
  /\ ~AugmentationHasTime
  /\ Raise("campaign_deadline")
  /\ UNCHANGED lineage

\* Fault: a negative result is kept in the record of the slot alone.
AugmentationReturnsUnsettled(status) ==
  /\ pc = "augmentation" /\ active /\ LastRecord.status = "running"
  /\ augmentation = "pending" /\ AugmentationHasTime
  /\ augmentation' = status
  /\ UNCHANGED <<ledgerVars, given, pc, execution, lineage, evidence, stop, chargedEnd, valid>>

\* The arm returns; a timeout raised by its tools is a result as well.  A
\* negative result settles the stage.
AugmentationReturns(status) ==
  /\ pc = "augmentation" /\ active /\ LastRecord.status = "running"
  /\ augmentation = "pending" /\ AugmentationHasTime
  /\ augmentation' = status
  /\ IF status \in NegativeResults THEN FinishHandle(status) ELSE UNCHANGED ledgerVars
  /\ UNCHANGED <<given, pc, execution, lineage, evidence, stop, chargedEnd, valid>>

AugmentationDone ==
  pc = "augmentation" /\ active /\ augmentation # "pending" /\ Leave

NativeRefused ==
  /\ pc = "native_startup_and_continuation" /\ active /\ FuzzTime(now) <= 0
  /\ Raise("campaign_deadline")
  /\ UNCHANGED lineage

NativeReturns(reason) ==
  /\ pc = "native_startup_and_continuation" /\ active /\ FuzzTime(now) > 0
  /\ CloseStage("completed")
  /\ stop' = reason /\ pc' = After(pc)
  /\ UNCHANGED <<given, statuses, chargedEnd, valid>>

NativeTimesOut ==
  /\ pc = "native_startup_and_continuation" /\ active /\ FuzzTime(now) > 0
  /\ Raise("timeout")
  /\ UNCHANGED lineage

EvidenceAccepted ==
  /\ pc = "online_evidence_validation" /\ active /\ stop = "time_limit"
  /\ lineage' = "verified"
  /\ CloseStage("completed") /\ pc' = After(pc)
  /\ UNCHANGED <<given, execution, augmentation, evidence, stop, chargedEnd, valid>>

\* The campaign stopped for another reason, its lineage has holes, or its
\* events cannot be mapped to the ledger.
EvidenceRejected ==
  /\ pc = "online_evidence_validation" /\ active
  /\ \/ stop # "time_limit" /\ UNCHANGED lineage
     \/ stop = "time_limit" /\ lineage' \in {"unverified", "verified"}
  /\ Raise("evidence_error")

----------------------------------------------------------------------------
(* After the stages *)

ReadChargedEnd ==
  /\ pc = "charge"
  /\ chargedEnd' = now /\ pc' = "metrics"
  /\ UNCHANGED <<ledgerVars, given, statuses, stop, valid>>

MetricsSaved ==
  /\ pc = "metrics"
  /\ execution' = "completed" /\ evidence' = "verified" /\ pc' = "artifacts"
  /\ UNCHANGED <<ledgerVars, given, augmentation, lineage, stop, chargedEnd, valid>>

ArtifactsListed ==
  /\ pc = "artifacts" /\ pc' = "finally"
  /\ UNCHANGED <<ledgerVars, given, statuses, stop, chargedEnd, valid>>

\* Offline work raises: what was recorded before it stays.
OfflineFails ==
  /\ pc \in {"metrics", "artifacts"}
  /\ execution' \in {"tool_error", "evidence_error"} /\ pc' = "finally"
  /\ UNCHANGED <<ledgerVars, given, augmentation, lineage, evidence, stop, chargedEnd, valid>>

SomeStageLate == \E i \in 1..Len(records) : records[i].late

\* Fault: a stage that overran the deadline no longer disqualifies the slot.
FinallyWhateverTheStages ==
  /\ pc = "finally" /\ pc' = "done"
  /\ chargedEnd' = IF chargedEnd = -1 THEN now ELSE chargedEnd
  /\ valid' = /\ execution = "completed" /\ lineage = "verified"
              /\ evidence = "verified" /\ withinLimit
  /\ UNCHANGED <<ledgerVars, given, statuses, stop>>

Finally ==
  /\ pc = "finally" /\ pc' = "done"
  /\ chargedEnd' = IF chargedEnd = -1 THEN now ELSE chargedEnd
  /\ valid' = /\ execution = "completed" /\ lineage = "verified"
              /\ evidence = "verified" /\ withinLimit /\ ~SomeStageLate
  /\ UNCHANGED <<ledgerVars, given, statuses, stop>>

Slot ==
  \/ Enter \/ Refused \/ StageFails
  \/ InputCopied \/ SeedsImported \/ PoolEmpty \/ PoolRead
  \/ NoAugmentation \/ AugmentationRefused
  \/ \E status \in NegativeResults \union {"completed"} : AugmentationReturns(status)
  \/ AugmentationDone
  \/ NativeRefused \/ NativeTimesOut
  \/ \E reason \in StopReasons : NativeReturns(reason)
  \/ EvidenceAccepted \/ EvidenceRejected
  \/ ReadChargedEnd \/ MetricsSaved \/ ArtifactsListed \/ OfflineFails \/ Finally

\* Time passes on its own.
SlotNext == Slot \/ (Tick /\ UNCHANGED slotVars)

SlotSpec == SlotInit /\ [][SlotNext]_allVars

\* The thread that runs the slot goes on: every tool it waits for is a
\* subprocess with a timeout.
FairSlotSpec == SlotSpec /\ WF_allVars(Slot)

----------------------------------------------------------------------------
(* Properties *)

\* Every field of the record keeps to the values the slot can give it, and the
\* ledger to its own.
SlotTypeOK ==
  /\ LedgerTypeOK
  /\ pc \in StageNames \union {"charge", "metrics", "artifacts", "finally", "done"}
  /\ execution \in {"pending", "completed", "campaign_deadline", "tool_error", "evidence_error"}
  /\ augmentation \in NegativeResults \union
       {"not_applicable", "pending", "no_eligible_prefix", "completed"}
  /\ lineage \in {"pending", "verified", "unverified"}
  /\ evidence \in {"pending", "verified"}
  /\ stop \in StopReasons \union {"none"}
  /\ chargedEnd \in Instants \union {-1} /\ valid \in BOOLEAN

Protocol ==
  <<"input_and_cache_prepare", "prefix_pool", "augmentation", "seed_import",
    "native_startup_and_continuation", "online_evidence_validation">>

PrechargeCount == IF InitialCharge = 0 THEN 0 ELSE 1

\* A slot is evaluation-valid only if the whole protocol ran: every stage is
\* recorded once and in order, only the augmentation may have been skipped and
\* only by an arm with nothing to augment, every one finished before the
\* deadline, and the native campaign stopped because its time was up.
ValidRanTheProtocol ==
  valid =>
    /\ Len(records) = PrechargeCount + Len(Protocol)
    /\ \A i \in 1..Len(Protocol) :
         LET r == records[PrechargeCount + i]
         IN  /\ r.name = Protocol[i]
             /\ r.finished <= Total
             /\ ~r.attempted => i = 3 /\ ~Augments
             /\ r.status \notin ErrorStatuses \ NegativeResults
    /\ stop = "time_limit"

\* The record of the slot and the record of its augmentation stage tell the same
\* story: a negative result is in both, and so is the reason none was sought.
AugmentationAgrees ==
  pc = "done" => \A i \in 1..Len(records) :
    records[i].name = "augmentation" =>
      LET settled == NegativeResults \union {"no_eligible_prefix"}
      IN  augmentation \in settled <=> records[i].status \in settled

\* When a slot is over its outcome is one of the classified ones, and a slot that
\* failed during its stages stopped at the first failure: nothing was attempted
\* after the record that holds it.
FailureEndsSlot ==
  /\ pc = "done" => execution # "pending" /\ ~active
  /\ \A i \in 1..Len(records), j \in 1..Len(records) :
       /\ i < j /\ records[j].attempted
       => records[i].status \in {"completed", "skipped", "no_eligible_prefix"} \union NegativeResults

\* Every slot comes to an end and leaves a record.
SlotEnds == <>(pc = "done")

\* The auditors refuse a formal slot whose charged time exceeds its budget.
ValidChargedWithinBudget == valid => chargedEnd <= Total
=============================================================================
