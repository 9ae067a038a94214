-------------------------- MODULE StudySlot_proofs --------------------------
(***************************************************************************)
(* A slot uses its ledger only as BudgetLedger allows: every step of        *)
(* run_study_slot is a step of the ledger or leaves it alone.  What is      *)
(* proved of every ledger therefore holds in every slot, for every arm and  *)
(* every answer of the tools.                                               *)
(*                                                                         *)
(* On top of the ledger an invariant ties the records to the point the slot *)
(* has reached (InOrder), to what may be missing (Attempted), to how each   *)
(* stage ended (WentWell) and to the slot's own record (Agrees, Concluded); *)
(* the properties of a finished slot follow from it.                        *)
(***************************************************************************)
EXTENDS StudySlot, BudgetLedger_proofs

\* A stage name of the slot is a name the ledger knows.
LEMMA StagesKnown == pc \in StageNames => pc \in Stages
BY SlotAssumption

\* Closing a stage with an error status, or by returning, is a ledger step.
LEMMA CloseIsLedgerStep ==
  ASSUME NEW outcome \in ErrorStatuses \union {"completed"}, CloseStage(outcome)
  PROVE  LedgerNext
BY DEF LedgerNext

\* Raising out of a stage closes it with one of the statuses exceptions carry.
LEMMA RaiseIsLedgerStep ==
  ASSUME NEW status \in {"tool_error", "timeout", "campaign_deadline", "evidence_error", "mismatch"},
         Raise(status)
  PROVE  LedgerNext
<1>1. status \in ErrorStatuses /\ CloseStage(status)
  BY SlotAssumption DEF Raise
<1> QED BY <1>1, CloseIsLedgerStep

\* Leaving a stage closes it.
LEMMA LeaveIsLedgerStep == Leave => LedgerNext
BY CloseIsLedgerStep DEF Leave

\* Every step of the slot is a step of its ledger or leaves the ledger alone.
LEMMA StepIsLedgerStep == [SlotNext]_allVars => [LedgerNext]_ledgerVars
<1> SUFFICES ASSUME [SlotNext]_allVars PROVE LedgerNext \/ UNCHANGED ledgerVars
  OBVIOUS
<1>1. CASE Enter
  <2>1. pc \in Stages /\ OpenStage(pc)
    BY <1>1, StagesKnown DEF Enter, Staged
  <2> QED BY <2>1 DEF LedgerNext
<1>2. CASE Refused
  <2>1. pc \in Stages /\ RefuseStage(pc)
    BY <1>2, StagesKnown DEF Refused, Staged
  <2> QED BY <2>1 DEF LedgerNext
<1>3. CASE StageFails
  BY <1>3, RaiseIsLedgerStep DEF StageFails
<1>4. CASE InputCopied \/ SeedsImported \/ PoolRead \/ AugmentationDone
  BY <1>4, LeaveIsLedgerStep DEF InputCopied, SeedsImported, PoolRead, AugmentationDone
<1>5. CASE PoolEmpty
  <2>1. "no_eligible_prefix" \in Outcomes /\ FinishHandle("no_eligible_prefix")
    BY <1>5, SlotAssumption DEF PoolEmpty
  <2> QED BY <2>1 DEF LedgerNext
<1>6. CASE NoAugmentation
  <2>1. /\ "augmentation" \in Stages
        /\ "skipped" \in Outcomes /\ "no_eligible_prefix" \in Outcomes
    BY SlotAssumption DEF StageNames
  <2>2. RecordSkipped("augmentation", "skipped") \/ RecordSkipped("augmentation", "no_eligible_prefix")
    BY <1>6 DEF NoAugmentation
  <2> QED BY <2>1, <2>2 DEF LedgerNext
<1>7. CASE AugmentationRefused \/ NativeRefused \/ NativeTimesOut \/ EvidenceRejected
  BY <1>7, RaiseIsLedgerStep DEF AugmentationRefused, NativeRefused, NativeTimesOut, EvidenceRejected
<1>8. ASSUME NEW status \in NegativeResults \union {"completed"}, AugmentationReturns(status)
      PROVE  LedgerNext \/ UNCHANGED ledgerVars
  <2>1. CASE status \in NegativeResults
    <3>1. status \in Outcomes /\ FinishHandle(status)
      BY <2>1, <1>8, SlotAssumption DEF AugmentationReturns
    <3> QED BY <3>1 DEF LedgerNext
  <2>2. CASE status \notin NegativeResults
    BY <2>2, <1>8 DEF AugmentationReturns
  <2> QED BY <2>1, <2>2
<1>9. ASSUME NEW reason \in StopReasons, NativeReturns(reason)
      PROVE  LedgerNext
  BY <1>9, CloseIsLedgerStep DEF NativeReturns
<1>10. CASE EvidenceAccepted
  BY <1>10, CloseIsLedgerStep DEF EvidenceAccepted
<1>11. CASE ReadChargedEnd \/ MetricsSaved \/ ArtifactsListed \/ OfflineFails \/ Finally
  BY <1>11 DEF ReadChargedEnd, MetricsSaved, ArtifactsListed, OfflineFails, Finally
<1>12. CASE Tick
  BY <1>12 DEF LedgerNext
<1>13. CASE UNCHANGED allVars
  BY <1>13 DEF allVars
<1> QED
  BY <1>1, <1>2, <1>3, <1>4, <1>5, <1>6, <1>7, <1>8, <1>9, <1>10, <1>11, <1>12, <1>13
  DEF SlotNext, Slot

\* run_study_slot is one of the callers BudgetLedger is specified for.
THEOREM SlotUsesLedger == SlotSpec => LedgerSpec
<1>1. SlotInit => LedgerInit
  BY DEF SlotInit
<1> QED
  BY <1>1, StepIsLedgerStep, PTL DEF SlotSpec, LedgerSpec

\* So no second of a slot is charged twice, nothing is attempted after a stage that
\* overran the deadline, and a completed stage is charged what it took.
THEOREM SlotLedgerIsSound ==
  SlotSpec => [](NothingChargedTwice /\ OverrunEndsCampaign /\ CompletedInBudget)
<1>1. LedgerInv => OverrunEndsCampaign /\ CompletedInBudget
  BY DEF LedgerInv
<1> QED BY SlotUsesLedger, LedgerInvariant, NoSecondTwice, <1>1, PTL

----------------------------------------------------------------------------
(* The story the records tell                                              *)

Good == {"completed", "skipped", "no_eligible_prefix"} \union NegativeResults
Reasons == NegativeResults \union {"no_eligible_prefix"}

\* How far the slot has come in its protocol.
Place(stage) ==
  CASE stage = "input_and_cache_prepare"         -> 1
    [] stage = "prefix_pool"                     -> 2
    [] stage = "augmentation"                    -> 3
    [] stage = "seed_import"                     -> 4
    [] stage = "native_startup_and_continuation" -> 5
    [] stage = "online_evidence_validation"      -> 6
    [] OTHER                                     -> 7

Over == pc \in {"finally", "done"}

\* A stage that did not fail, or that finished after the deadline.
Fine(r) == r.status \in Good \/ r.late

\* The fields of the slot's record.
FieldsOK ==
  /\ arm \in {"native_resume", "concrete_augment", "symbolic_augment"}
  /\ prefixes \in BOOLEAN /\ withinLimit \in BOOLEAN
  /\ pc \in StageNames \union {"charge", "metrics", "artifacts", "finally", "done"}
  /\ execution \in {"pending", "completed", "campaign_deadline", "tool_error", "evidence_error"}
  /\ augmentation \in NegativeResults \union
       {"not_applicable", "pending", "no_eligible_prefix", "completed"}
  /\ lineage \in {"pending", "verified", "unverified"}
  /\ evidence \in {"pending", "verified"}
  /\ stop \in StopReasons \union {"none"}
  /\ chargedEnd \in Instants \union {-1} /\ valid \in BOOLEAN

\* One record for each stage entered or refused, in the order of the protocol.
InOrder ==
  /\ active => pc \in StageNames
  /\ ~Over => Count = PrechargeCount + Place(pc) - (IF active THEN 0 ELSE 1)
  /\ PrechargeCount <= Count /\ Count <= PrechargeCount + 6
  /\ \A i \in 1..PrechargeCount : records[i].name = "common_build_warmup_charge"
  /\ \A i \in 1..6 : PrechargeCount + i <= Count => records[PrechargeCount + i].name = Protocol[i]

\* Only the augmentation of an arm with nothing to augment is left out, as long
\* as nothing failed.
Attempted ==
  ~Over \/ execution = "completed" =>
    \A i \in 1..6 : PrechargeCount + i <= Count =>
      (~records[PrechargeCount + i].attempted => i = 3 /\ ~Augments)

\* Whatever was recorded before the last record went well or overran.
WentWell ==
  /\ \A i \in 1..(Count - 1) : Fine(records[i])
  /\ (~Over \/ execution = "completed") /\ ~active => \A i \in 1..Count : Fine(records[i])
  /\ active => OpenStatus \in {"running"} \union Good

\* What the augmentation reports and what its stage is recorded as.
Agrees ==
  /\ arm = "native_resume" <=> augmentation = "not_applicable"
  /\ Count < PrechargeCount + 3 => augmentation \in {"pending", "not_applicable"}
  /\ Count >= PrechargeCount + 3 /\ ~(active /\ Count = PrechargeCount + 3) =>
       (augmentation \in Reasons <=> records[PrechargeCount + 3].status \in Reasons)
  /\ active /\ pc = "augmentation" =>
       IF augmentation \in NegativeResults THEN OpenStatus = augmentation
       ELSE augmentation \in {"pending", "completed"} /\ OpenStatus = "running"

\* The execution status and the end.
Concluded ==
  /\ pc \in StageNames \union {"charge", "metrics"} => execution = "pending"
  /\ pc = "artifacts" => execution = "completed"
  /\ Over => execution # "pending"
  /\ pc \in {"charge", "metrics", "artifacts"} \/ execution = "completed" =>
       stop = "time_limit" /\ Count = PrechargeCount + 6
  /\ valid => pc = "done" /\ execution = "completed" /\ ~SomeStageLate

StoryInv ==
  FieldsOK /\ InOrder /\ Attempted /\ WentWell /\ Agrees /\ Concluded

----------------------------------------------------------------------------
(* Each move of the slot keeps the story                                    *)

SlotInv == LedgerInv /\ StoryInv

\* There is at most one record before the first stage.
LEMMA PrechargeFact == PrechargeCount \in {0, 1}
BY DEF PrechargeCount

\* The stages have their places in the protocol.
LEMMA Places ==
  \A stage \in StageNames :
    /\ Place(stage) \in 1..6 /\ Protocol[Place(stage)] = stage
    /\ stage = "augmentation" <=> Place(stage) = 3
    /\ Place(After(stage)) = Place(stage) + 1
    /\ After(stage) \in StageNames \union {"charge"}
    /\ After(stage) = "charge" <=> stage = "online_evidence_validation"
BY DEF Place, StageNames, Protocol, After

\* A slot that starts has told nothing yet.
LEMMA StoryInit == SlotInit => StoryInv
<1> SUFFICES ASSUME SlotInit PROVE StoryInv
  OBVIOUS
<1> USE DEF SlotInit, LedgerInit
<1>1. FieldsOK
  BY SlotAssumption DEF FieldsOK, StageNames
<1>2. Count = PrechargeCount /\ \A i \in 1..Count : records[i] = Precharge
  BY DEF Count, PrechargeCount
<1>3. Precharge.name = "common_build_warmup_charge" /\ Precharge.status = "completed"
  BY DEF Precharge, Settled
<1>4. InOrder
  BY <1>2, <1>3, PrechargeFact DEF InOrder, Over, Place
<1>5. Attempted
  BY <1>2, PrechargeFact DEF Attempted
<1>6. WentWell
  BY <1>2, <1>3, PrechargeFact DEF WentWell, Fine, Good
<1>7. Agrees
  BY <1>2, PrechargeFact DEF Agrees
<1>8. Concluded
  BY DEF Concluded, Over, StageNames
<1> QED BY <1>1, <1>4, <1>5, <1>6, <1>7, <1>8 DEF StoryInv

\* Entering a stage.
LEMMA EnterKeeps == SlotInv /\ Enter /\ LedgerInv' => StoryInv'
<1> SUFFICES ASSUME SlotInv, Enter, LedgerInv' PROVE StoryInv'
  OBVIOUS
<1>1. Opens(pc) /\ pc \in StageNames /\ UNCHANGED slotVars
  BY OpenEffect DEF Enter, Staged, SlotInv
<1>2. Staged
  BY DEF Enter
<1>a. Len(records) \in Nat
  BY DEF SlotInv, LedgerInv, LedgerTypeOK
<1> USE PrechargeFact DEF SlotInv, StoryInv, slotVars, statuses, Opens, Earlier, Count, PrechargeCount
<1>3. FieldsOK'
  BY <1>1 DEF FieldsOK
<1>4. InOrder'
  BY <1>1 DEF InOrder, Over, StageNames, Place, Protocol
<1>5. Attempted'
  BY <1>1 DEF Attempted, Over, InOrder, StageNames, Augments, Concluded
<1>6. WentWell'
  BY <1>1 DEF WentWell, Over, Fine, OpenStatus, LastRecord, StageNames
<1>7. Agrees'
  <2>1. Count = PrechargeCount + Place(pc) - 1 /\ Len(records') = Count + 1
    BY <1>1 DEF InOrder, Over, StageNames
  <2>2. pc = "augmentation" <=> Len(records') = PrechargeCount + 3
    BY <1>1, <2>1 DEF Place, StageNames
  <2>3. CASE Len(records') < PrechargeCount + 3
    BY <1>1, <2>1, <2>2, <2>3 DEF Agrees
  <2>4. CASE Len(records') = PrechargeCount + 3
    <3>1. arm # "native_resume"
      BY <1>2, <2>2, <2>4 DEF Staged, Augments
    <3>2. augmentation \in {"pending", "not_applicable"}
      BY <1>a, <2>1, <2>4 DEF Agrees
    <3>3. LastRecord'.status = "running" /\ augmentation = "pending"
      BY <1>1, <2>1, <3>1, <3>2 DEF Agrees, LastRecord
    <3> QED BY <1>1, <2>4, <3>3 DEF Agrees, OpenStatus, NegativeResults
  <2>5. CASE Len(records') > PrechargeCount + 3
    BY <1>1, <2>1, <2>2, <2>5 DEF Agrees
  <2> QED BY <2>1, <2>3, <2>4, <2>5
<1>8. Concluded'
  BY <1>1 DEF Concluded, Over, StageNames, FieldsOK
<1> QED BY <1>3, <1>4, <1>5, <1>6, <1>7, <1>8 DEF StoryInv

\* A stage is left and the next one is due.
LEMMA AdvanceKeeps ==
  ASSUME SlotInv, LedgerInv', Closes("completed"), pc \in StageNames, pc' = After(pc),
         UNCHANGED <<given, execution, augmentation, evidence, chargedEnd, valid>>,
         lineage' \in {"pending", "verified", "unverified"},
         stop' \in StopReasons \union {"none"},
         pc # "native_startup_and_continuation" => stop' = stop,
         pc = "online_evidence_validation" => stop = "time_limit"
  PROVE  StoryInv'
<1> USE PrechargeFact
<1>0. Len(records) \in Nat /\ active /\ ~active' /\ Len(records') = Count
  BY DEF SlotInv, LedgerInv, LedgerTypeOK, Closes
<1>1. ~Over /\ ~Over' /\ Count = PrechargeCount + Place(pc)
  BY <1>0, Places DEF Over, StageNames, SlotInv, StoryInv, InOrder
<1>2. Place(pc) \in 1..6 /\ Place(pc') = Place(pc) + 1 /\ PrechargeCount' = PrechargeCount
  BY Places DEF PrechargeCount
<1>3. FieldsOK'
  BY Places DEF FieldsOK, SlotInv, StoryInv, given, StopReasons
<1>4. InOrder'
  <2>1. Place(pc)' = Place(pc) + 1
    BY <1>2
  <2> QED
    BY <1>0, <1>1, <1>2, <2>1 DEF InOrder, SlotInv, StoryInv, Closes, Earlier, Count, LastRecord
<1>5. Attempted'
  BY <1>0, <1>1, <1>2 DEF Attempted, SlotInv, StoryInv, Closes, Earlier, Count, Augments, given
<1>6. Fine(records'[Count])
  BY DEF Closes, SlotInv, StoryInv, WentWell, Fine, Good
<1>7. WentWell'
  BY <1>0, <1>1, <1>2, <1>6 DEF WentWell, SlotInv, StoryInv, Closes, Earlier, Count, Fine
<1>8. Agrees'
  <2>1. CASE Place(pc) # 3
    BY <1>0, <1>1, <1>2, <2>1, Places
    DEF Agrees, SlotInv, StoryInv, Closes, Earlier, Count, given
  <2>2. CASE Place(pc) = 3
    <3>1. pc = "augmentation" /\ Count = PrechargeCount + 3
      BY <1>1, <2>2, Places
    <3>2. augmentation \in Reasons <=> records'[Count].status \in Reasons
      BY <1>0, <3>1 DEF Agrees, SlotInv, StoryInv, Closes, Reasons, NegativeResults
    <3> QED BY <1>0, <1>1, <1>2, <3>1, <3>2 DEF Agrees, SlotInv, StoryInv, Closes, Count, given
  <2> QED BY <2>1, <2>2
<1>9. Concluded'
  BY <1>0, <1>1, <1>2, Places DEF Concluded, SlotInv, StoryInv, Count, Over, StageNames, Place
<1> QED BY <1>3, <1>4, <1>5, <1>7, <1>8, <1>9 DEF StoryInv

\* A stage fails and the slot ends.
LEMMA FailKeeps ==
  ASSUME SlotInv, LedgerInv', NEW status, Closes(status), pc \in StageNames, pc' = "finally",
         UNCHANGED <<given, augmentation, evidence, stop, chargedEnd, valid>>,
         execution' \in {"campaign_deadline", "tool_error", "evidence_error"},
         lineage' \in {"pending", "verified", "unverified"},
         pc = "augmentation" => status \notin Reasons /\ augmentation = "pending"
  PROVE  StoryInv'
<1> USE PrechargeFact
<1>0. Len(records) \in Nat /\ active /\ ~active' /\ Len(records') = Count
  BY DEF SlotInv, LedgerInv, LedgerTypeOK, Closes
<1>1. ~Over /\ Over' /\ Count = PrechargeCount + Place(pc)
  BY <1>0, Places DEF Over, StageNames, SlotInv, StoryInv, InOrder
<1>2. Place(pc) \in 1..6 /\ PrechargeCount' = PrechargeCount
  BY Places DEF PrechargeCount
<1>3. FieldsOK'
  BY DEF FieldsOK, SlotInv, StoryInv, given
<1>4. InOrder'
  BY <1>0, <1>1, <1>2 DEF InOrder, SlotInv, StoryInv, Closes, Earlier, Count, LastRecord
<1>5. Attempted'
  BY <1>1 DEF Attempted
<1>6. WentWell'
  BY <1>0, <1>1, <1>2 DEF WentWell, SlotInv, StoryInv, Closes, Earlier, Count, Fine
<1>7. Agrees'
  <2>1. CASE Place(pc) # 3
    BY <1>0, <1>1, <1>2, <2>1, Places
    DEF Agrees, SlotInv, StoryInv, Closes, Earlier, Count, given
  <2>2. CASE Place(pc) = 3
    <3>1. pc = "augmentation" /\ Count = PrechargeCount + 3
      BY <1>1, <2>2, Places
    <3>2. OpenStatus = "running"
      BY <1>0, <3>1 DEF Agrees, SlotInv, StoryInv, NegativeResults
    <3>3. augmentation \notin Reasons /\ records'[Count].status \notin Reasons
      BY <3>1, <3>2 DEF Closes, Reasons, NegativeResults
    <3> QED BY <1>0, <1>1, <1>2, <3>1, <3>3 DEF Agrees, SlotInv, StoryInv, Count, given
  <2> QED BY <2>1, <2>2
<1>8. Concluded'
  BY <1>0, <1>1 DEF Concluded, SlotInv, StoryInv, Over, StageNames
<1> QED BY <1>3, <1>4, <1>5, <1>6, <1>7, <1>8 DEF StoryInv

\* A stage is refused and the slot ends.
LEMMA RefuseKeeps ==
  ASSUME SlotInv, LedgerInv', Staged, Skips(pc, "campaign_deadline"), pc' = "finally",
         execution' = "campaign_deadline",
         UNCHANGED <<given, augmentation, lineage, evidence, stop, chargedEnd, valid>>
  PROVE  StoryInv'
<1> USE PrechargeFact
<1>0. Len(records) \in Nat /\ ~active /\ ~active' /\ Len(records') = Count + 1 /\ pc \in StageNames
  BY DEF SlotInv, LedgerInv, LedgerTypeOK, Skips, Staged
<1>1. ~Over /\ Over' /\ Count = PrechargeCount + Place(pc) - 1
  BY <1>0, Places DEF Over, StageNames, SlotInv, StoryInv, InOrder
<1>2. Place(pc) \in 1..6 /\ Protocol[Place(pc)] = pc /\ PrechargeCount' = PrechargeCount
  BY <1>0, Places DEF PrechargeCount
<1>3. FieldsOK'
  BY DEF FieldsOK, SlotInv, StoryInv, given
<1>4. InOrder'
  BY <1>0, <1>1, <1>2 DEF InOrder, SlotInv, StoryInv, Skips, Earlier, Count
<1>5. Attempted'
  BY <1>1 DEF Attempted
<1>6. WentWell'
  <2>1. \A i \in 1..Count : Fine(records[i])
    BY <1>0, <1>1 DEF WentWell, SlotInv, StoryInv
  <2>2. Len(records') - 1 = Count /\ \A i \in 1..Count : records'[i] = records[i]
    BY <1>0 DEF Skips, Earlier, Count
  <2>3. \A i \in 1..(Len(records') - 1) : Fine(records'[i])
    BY <2>1, <2>2
  <2> QED BY <1>0, <1>1, <2>3 DEF WentWell, Count, Fine
<1>7. Agrees'
  <2>1. CASE Place(pc) # 3
    BY <1>0, <1>1, <1>2, <2>1 DEF Agrees, SlotInv, StoryInv, Skips, Earlier, Count, given
  <2>2. CASE Place(pc) = 3
    <3>1. augmentation \in {"pending", "not_applicable"}
      BY <1>0, <1>1, <2>2 DEF Agrees, SlotInv, StoryInv
    <3>2. augmentation \notin Reasons /\ records'[Count + 1].status \notin Reasons
      BY <3>1 DEF Skips, Reasons, NegativeResults
    <3> QED BY <1>0, <1>1, <1>2, <2>2, <3>2 DEF Agrees, SlotInv, StoryInv, Count, given
  <2> QED BY <2>1, <2>2
<1>8. Concluded'
  BY <1>0, <1>1 DEF Concluded, SlotInv, StoryInv, Over, StageNames
<1> QED BY <1>3, <1>4, <1>5, <1>6, <1>7, <1>8 DEF StoryInv

\* The augmentation has nothing to do and is recorded as left out.
LEMMA LeftOutKeeps ==
  ASSUME SlotInv, LedgerInv', NoAugmentation
  PROVE  StoryInv'
<1> USE PrechargeFact
<1> DEFINE status == IF arm = "native_resume" THEN "skipped" ELSE "no_eligible_prefix"
<1>a. Skips("augmentation", status)
  <2>1. RecordSkipped("augmentation", status)
    BY DEF NoAugmentation
  <2> QED BY <2>1, SkipEffect DEF SlotInv
<1>b. /\ pc = "augmentation" /\ pc' = "seed_import" /\ ~Augments
      /\ augmentation' = IF arm = "native_resume" THEN augmentation ELSE "no_eligible_prefix"
      /\ UNCHANGED <<given, execution, lineage, evidence, stop, chargedEnd, valid>>
  BY DEF NoAugmentation
<1> HIDE DEF status
<1>0. Len(records) \in Nat /\ ~active /\ ~active' /\ Len(records') = Count + 1
  BY <1>a DEF SlotInv, LedgerInv, LedgerTypeOK, Skips
<1>1. ~Over /\ ~Over' /\ Count = PrechargeCount + 2 /\ PrechargeCount' = PrechargeCount
  BY <1>b, <1>0 DEF Over, StageNames, SlotInv, StoryInv, InOrder, Place, PrechargeCount
<1>2. Place(pc)' = 4 /\ Protocol[3] = "augmentation"
  BY <1>b DEF Place, Protocol
<1>3. FieldsOK'
  BY <1>b DEF FieldsOK, SlotInv, StoryInv, given, StageNames
<1>4. InOrder'
  BY <1>a, <1>0, <1>1, <1>2 DEF InOrder, SlotInv, StoryInv, Skips, Earlier, Count
<1>5. Attempted'
  <2>1. ~Augments'
    BY <1>b DEF Augments, given
  <2> QED BY <1>a, <1>0, <1>1, <2>1 DEF Attempted, SlotInv, StoryInv, Skips, Earlier, Count
<1>6. WentWell'
  <2>1. Fine(records'[Count + 1])
    BY <1>a DEF Skips, Fine, Good, status
  <2> QED BY <1>a, <1>0, <1>1, <2>1 DEF WentWell, SlotInv, StoryInv, Skips, Earlier, Count, Fine
<1>7. Agrees'
  <2>1. arm = "native_resume" <=> augmentation = "not_applicable"
    BY DEF Agrees, SlotInv, StoryInv
  <2>2. augmentation' \in Reasons <=> status \in Reasons
    BY <1>b, <2>1 DEF status, Reasons, NegativeResults
  <2>3. (arm = "native_resume" <=> augmentation = "not_applicable")'
    BY <1>b, <2>1 DEF given
  <2> QED BY <1>a, <1>b, <1>0, <1>1, <2>2, <2>3 DEF Agrees, Skips, Count
<1>8. Concluded'
  BY <1>b, <1>0, <1>1 DEF Concluded, SlotInv, StoryInv, Over, StageNames
<1> QED BY <1>3, <1>4, <1>5, <1>6, <1>7, <1>8 DEF StoryInv

\* The outcome of the open stage is settled before the stage is left.
LEMMA SettleKeeps ==
  ASSUME SlotInv, LedgerInv', NEW status, status \in Good, Settles(status),
         UNCHANGED <<given, pc, execution, lineage, evidence, stop, chargedEnd, valid>>,
         \/ pc = "prefix_pool" /\ augmentation' = augmentation
         \/ pc = "augmentation" /\ augmentation' = status /\ status \in NegativeResults
  PROVE  StoryInv'
<1> USE PrechargeFact
<1>0. Len(records) \in Nat /\ active /\ active' /\ Len(records') = Count /\ pc \in StageNames
  BY DEF SlotInv, LedgerInv, LedgerTypeOK, Settles, StageNames
<1>1. /\ ~Over /\ ~Over' /\ Count = PrechargeCount + Place(pc) /\ PrechargeCount' = PrechargeCount
      /\ Place(pc) = (IF pc = "prefix_pool" THEN 2 ELSE 3) /\ Place(pc)' = Place(pc)
  BY <1>0 DEF Over, StageNames, SlotInv, StoryInv, InOrder, Place, PrechargeCount
<1>3. FieldsOK'
  BY DEF FieldsOK, SlotInv, StoryInv, given
<1>4. InOrder'
  BY <1>0, <1>1 DEF InOrder, SlotInv, StoryInv, Settles, Earlier, Count, LastRecord
<1>5. Attempted'
  BY <1>0, <1>1 DEF Attempted, SlotInv, StoryInv, Settles, Earlier, Count, LastRecord, Augments, given
<1>6. WentWell'
  BY <1>0, <1>1 DEF WentWell, SlotInv, StoryInv, Settles, Earlier, Count, Fine, OpenStatus, LastRecord
<1>7. Agrees'
  <2>1. CASE pc = "prefix_pool"
    BY <1>0, <1>1, <2>1 DEF Agrees, SlotInv, StoryInv, Count, given
  <2>2. CASE pc = "augmentation"
    <3>1. augmentation # "not_applicable"
      BY <1>0, <2>2 DEF Agrees, SlotInv, StoryInv, NegativeResults
    <3>2. augmentation' = status /\ status \in NegativeResults /\ LastRecord'.status = status
      BY <1>0, <2>2 DEF Settles, LastRecord, Count
    <3>3. (arm = "native_resume" <=> augmentation = "not_applicable")'
      BY <3>1, <3>2 DEF given, Agrees, SlotInv, StoryInv, NegativeResults
    <3> QED BY <1>0, <1>1, <2>2, <3>2, <3>3 DEF Agrees, Count, OpenStatus
  <2> QED BY <2>1, <2>2
<1>8. Concluded'
  BY <1>0, <1>1 DEF Concluded, SlotInv, StoryInv, Over, StageNames
<1> QED BY <1>3, <1>4, <1>5, <1>6, <1>7, <1>8 DEF StoryInv

\* The augmentation returns with seeds; its stage stays open.
LEMMA CompletedKeeps ==
  ASSUME SlotInv, LedgerInv', AugmentationReturns("completed")
  PROVE  StoryInv'
<1>1. /\ pc = "augmentation" /\ active /\ OpenStatus = "running" /\ augmentation = "pending"
      /\ augmentation' = "completed" /\ UNCHANGED <<now, records, active>>
      /\ UNCHANGED <<given, pc, execution, lineage, evidence, stop, chargedEnd, valid>>
  BY DEF AugmentationReturns, NegativeResults, ledgerVars, OpenStatus
<1>2. Count = PrechargeCount + 3
  BY <1>1 DEF SlotInv, StoryInv, InOrder, Over, Place
<1>3. FieldsOK' /\ InOrder'
  BY <1>1 DEF FieldsOK, InOrder, SlotInv, StoryInv, given, Count, PrechargeCount, Over, Place
<1>4. Attempted' /\ WentWell'
  BY <1>1 DEF Attempted, WentWell, SlotInv, StoryInv, given, Count, PrechargeCount, Over, Augments,
              OpenStatus, LastRecord, Fine
<1>5. Agrees'
  <2>1. arm # "native_resume"
    BY <1>1 DEF Agrees, SlotInv, StoryInv
  <2> QED BY <1>1, <1>2, <2>1, PrechargeFact
          DEF Agrees, given, Count, PrechargeCount, OpenStatus, LastRecord, NegativeResults
<1>6. Concluded'
  BY <1>1 DEF Concluded, SlotInv, StoryInv, Count, PrechargeCount, Over, StageNames, SomeStageLate
<1> QED BY <1>3, <1>4, <1>5, <1>6 DEF StoryInv

\* An exception in the open stage.
LEMMA RaiseKeeps ==
  ASSUME SlotInv, LedgerInv',
         NEW status \in {"tool_error", "timeout", "campaign_deadline", "evidence_error", "mismatch"},
         Raise(status), pc \in StageNames, lineage' \in {"pending", "verified", "unverified"},
         pc = "augmentation" => status # "timeout" /\ augmentation = "pending"
  PROVE  StoryInv'
<1>1. Closes(status)
  BY CloseEffect DEF Raise, SlotInv
<1>2. /\ pc' = "finally" /\ execution' \in {"campaign_deadline", "tool_error", "evidence_error"}
      /\ UNCHANGED <<given, augmentation, evidence, stop, chargedEnd, valid>>
  BY DEF Raise, Classified
<1>3. pc = "augmentation" => status \notin Reasons
  BY DEF Reasons, NegativeResults
<1> QED BY <1>1, <1>2, <1>3, FailKeeps

\* Leaving a stage that no longer changes the record of the slot.
LEMMA LeaveKeeps ==
  ASSUME SlotInv, LedgerInv', Leave,
         pc \in StageNames \ {"native_startup_and_continuation", "online_evidence_validation"}
  PROVE  StoryInv'
<1>1. Closes("completed")
  BY CloseEffect DEF Leave, SlotInv
<1>2. pc' = After(pc) /\ UNCHANGED <<given, statuses, stop, chargedEnd, valid>>
  BY DEF Leave
<1>3. /\ lineage' \in {"pending", "verified", "unverified"}
      /\ stop' \in StopReasons \union {"none"}
  BY <1>2 DEF statuses, SlotInv, StoryInv, FieldsOK
<1> QED BY <1>1, <1>2, <1>3, AdvanceKeeps DEF statuses

\* The work after the stages touches the record of the slot alone.
LEMMA OfflineKeeps ==
  ASSUME SlotInv, ReadChargedEnd \/ MetricsSaved \/ ArtifactsListed \/ OfflineFails \/ Finally
  PROVE  StoryInv'
<1>1. /\ UNCHANGED <<now, records, active, given, augmentation, stop>>
      /\ pc \in {"charge", "metrics", "artifacts", "finally"}
      /\ pc' \in {"metrics", "artifacts", "finally", "done"}
  BY DEF ReadChargedEnd, MetricsSaved, ArtifactsListed, OfflineFails, Finally, ledgerVars, statuses
<1>2. ~active /\ ~active'
  BY <1>1 DEF SlotInv, StoryInv, InOrder, StageNames
<1>3. FieldsOK'
  <2>1. now \in Instants
    BY DEF SlotInv, LedgerInv, LedgerTypeOK
  <2> QED
    BY <2>1 DEF FieldsOK, SlotInv, StoryInv, ReadChargedEnd, MetricsSaved, ArtifactsListed,
       OfflineFails, Finally, given, statuses, Instants
<1>b. ~Over' => ~Over
  BY DEF Over, ReadChargedEnd, MetricsSaved, ArtifactsListed, OfflineFails, Finally
<1>c. Place(pc) = 7 /\ Place(pc)' = 7
  BY <1>1 DEF Place
<1>4. InOrder'
  <2>1. ~Over' => Count' = PrechargeCount' + 7 - 1
    BY <1>1, <1>2, <1>b, <1>c DEF InOrder, SlotInv, StoryInv, Count, PrechargeCount
  <2> QED BY <1>1, <1>2, <1>c, <2>1 DEF InOrder, SlotInv, StoryInv, Count, PrechargeCount
<1>5. ~Over' \/ execution' = "completed" => ~Over \/ execution = "completed"
  BY DEF Over, ReadChargedEnd, MetricsSaved, ArtifactsListed, OfflineFails, Finally, statuses
<1>6. Attempted'
  BY <1>1, <1>5 DEF Attempted, SlotInv, StoryInv, Count, PrechargeCount, Augments, given
<1>7. WentWell'
  BY <1>1, <1>2, <1>5 DEF WentWell, SlotInv, StoryInv, Count, Fine
<1>8. Agrees'
  BY <1>1, <1>2 DEF Agrees, SlotInv, StoryInv, Count, PrechargeCount, given
<1>9. Concluded'
  <2>1. CASE Finally
    <3>1. /\ pc = "finally" /\ pc' = "done" /\ execution' = execution /\ stop' = stop
          /\ Count' = Count /\ PrechargeCount' = PrechargeCount
      BY <1>1, <2>1 DEF Finally, statuses, Count, PrechargeCount
    <3>2. valid' => execution' = "completed" /\ ~SomeStageLate'
      BY <1>1, <2>1 DEF Finally, SomeStageLate, statuses
    <3> QED BY <3>1, <3>2 DEF Concluded, SlotInv, StoryInv, Over, StageNames
  <2>2. CASE ReadChargedEnd \/ MetricsSaved \/ ArtifactsListed \/ OfflineFails
    <3>1. /\ pc \in {"charge", "metrics", "artifacts"} /\ pc' # "done" /\ valid' = valid
          /\ Count' = Count /\ PrechargeCount' = PrechargeCount /\ stop' = stop
      BY <1>1, <2>2 DEF ReadChargedEnd, MetricsSaved, ArtifactsListed, OfflineFails,
         Count, PrechargeCount
    <3>2. stop = "time_limit" /\ Count = PrechargeCount + 6 /\ ~valid
      BY <3>1 DEF Concluded, SlotInv, StoryInv
    <3>3. /\ pc' = "metrics" => execution' = "pending"
          /\ pc' = "artifacts" => execution' = "completed"
          /\ pc' = "finally" => execution' # "pending"
          /\ pc' \in {"metrics", "artifacts", "finally"}
      BY <2>2, <3>1 DEF ReadChargedEnd, MetricsSaved, ArtifactsListed, OfflineFails, Concluded,
         SlotInv, StoryInv, statuses
    <3> QED BY <3>1, <3>2, <3>3 DEF Concluded, Over, StageNames
  <2> QED BY <2>1, <2>2
<1> QED BY <1>3, <1>4, <1>6, <1>7, <1>8, <1>9 DEF StoryInv

\* Time passes, or nothing happens.
LEMMA RestKeeps ==
  ASSUME SlotInv, UNCHANGED <<records, active, slotVars>>
  PROVE  StoryInv'
<1> USE DEF slotVars, statuses, SlotInv, StoryInv, Count, PrechargeCount, Over
<1>1. FieldsOK' /\ InOrder'
  BY DEF FieldsOK, InOrder, Place
<1>2. Attempted' /\ WentWell'
  BY DEF Attempted, WentWell, Augments, Fine, OpenStatus, LastRecord
<1>3. Agrees' /\ Concluded'
  BY DEF Agrees, Concluded, OpenStatus, LastRecord, SomeStageLate
<1> QED BY <1>1, <1>2, <1>3

\* Every step of the slot keeps the story.
LEMMA StoryStep == SlotInv /\ LedgerInv' /\ [SlotNext]_allVars => StoryInv'
<1> SUFFICES ASSUME SlotInv, LedgerInv', [SlotNext]_allVars PROVE StoryInv'
  OBVIOUS
<1>a. lineage \in {"pending", "verified", "unverified"} /\ stop \in StopReasons \union {"none"}
  BY DEF SlotInv, StoryInv, FieldsOK
<1>1. CASE Enter
  BY <1>1, EnterKeeps
<1>2. CASE Refused
  <2>1. Skips(pc, "campaign_deadline")
    BY <1>2, SkipEffect DEF Refused, RefuseStage, SlotInv
  <2> QED BY <1>2, <2>1, RefuseKeeps DEF Refused
<1>3. CASE StageFails
  <2>1. PICK status \in {"tool_error", "evidence_error", "mismatch"} : Raise(status)
    BY <1>3 DEF StageFails
  <2>2. pc \in StageNames /\ lineage' = lineage /\ (pc = "augmentation" => augmentation = "pending")
    BY <1>3 DEF StageFails
  <2> QED BY <1>a, <2>1, <2>2, RaiseKeeps
<1>4. CASE InputCopied \/ SeedsImported \/ PoolRead \/ AugmentationDone
  BY <1>4, LeaveKeeps DEF InputCopied, SeedsImported, PoolRead, AugmentationDone, StageNames
<1>5. CASE PoolEmpty
  <2>1. Settles("no_eligible_prefix") /\ "no_eligible_prefix" \in Good
    BY <1>5, SettleEffect DEF PoolEmpty, SlotInv, Good
  <2> QED BY <1>5, <2>1, SettleKeeps DEF PoolEmpty, slotVars, given, statuses
<1>6. CASE NoAugmentation
  BY <1>6, LeftOutKeeps
<1>7. CASE AugmentationRefused
  <2>1. /\ Raise("campaign_deadline") /\ pc = "augmentation" /\ augmentation = "pending"
        /\ lineage' = lineage
    BY <1>7 DEF AugmentationRefused
  <2> QED BY <1>a, <2>1, RaiseKeeps DEF StageNames
<1>8. ASSUME NEW status \in NegativeResults \union {"completed"}, AugmentationReturns(status)
      PROVE  StoryInv'
  <2>1. CASE status = "completed"
    BY <1>8, <2>1, CompletedKeeps
  <2>2. CASE status \in NegativeResults
    <3>1. Settles(status) /\ status \in Good
      BY <1>8, <2>2, SettleEffect DEF AugmentationReturns, SlotInv, Good
    <3>2. /\ pc = "augmentation" /\ augmentation' = status
          /\ UNCHANGED <<given, pc, execution, lineage, evidence, stop, chargedEnd, valid>>
      BY <1>8 DEF AugmentationReturns
    <3> QED BY <2>2, <3>1, <3>2, SettleKeeps
  <2> QED BY <1>8, <2>1, <2>2
<1>9. CASE NativeRefused \/ NativeTimesOut
  <2>1. \E status \in {"timeout", "campaign_deadline"} : Raise(status)
    BY <1>9 DEF NativeRefused, NativeTimesOut
  <2>2. pc = "native_startup_and_continuation" /\ lineage' = lineage
    BY <1>9 DEF NativeRefused, NativeTimesOut
  <2> QED BY <1>a, <2>1, <2>2, RaiseKeeps DEF StageNames
<1>10. ASSUME NEW reason \in StopReasons, NativeReturns(reason) PROVE StoryInv'
  <2>1. Closes("completed")
    BY <1>10, CloseEffect DEF NativeReturns, SlotInv
  <2>2. /\ pc = "native_startup_and_continuation" /\ pc' = After(pc) /\ stop' = reason
        /\ UNCHANGED <<given, execution, augmentation, evidence, chargedEnd, valid>>
        /\ lineage' = lineage
    BY <1>10 DEF NativeReturns, statuses
  <2> QED BY <1>a, <1>10, <2>1, <2>2, AdvanceKeeps DEF StageNames
<1>11. CASE EvidenceAccepted
  <2>1. Closes("completed")
    BY <1>11, CloseEffect DEF EvidenceAccepted, SlotInv
  <2>2. /\ pc = "online_evidence_validation" /\ pc' = After(pc) /\ stop = "time_limit"
        /\ UNCHANGED <<given, execution, augmentation, evidence, chargedEnd, valid>>
        /\ lineage' = "verified" /\ stop' = stop
    BY <1>11 DEF EvidenceAccepted
  <2> QED BY <1>a, <2>1, <2>2, AdvanceKeeps DEF StageNames
<1>12. CASE EvidenceRejected
  <2>1. /\ Raise("evidence_error") /\ pc = "online_evidence_validation"
        /\ lineage' \in {lineage, "verified", "unverified"}
    BY <1>12 DEF EvidenceRejected
  <2> QED BY <1>a, <2>1, RaiseKeeps DEF StageNames
<1>13. CASE ReadChargedEnd \/ MetricsSaved \/ ArtifactsListed \/ OfflineFails \/ Finally
  BY <1>13, OfflineKeeps
<1>14. CASE Tick /\ UNCHANGED slotVars
  BY <1>14, RestKeeps DEF Tick
<1>15. CASE UNCHANGED allVars
  BY <1>15, RestKeeps DEF allVars, ledgerVars
<1> QED
  BY <1>1, <1>2, <1>3, <1>4, <1>5, <1>6, <1>7, <1>8, <1>9, <1>10, <1>11, <1>12, <1>13, <1>14, <1>15
  DEF SlotNext, Slot

----------------------------------------------------------------------------
(* What holds of every slot                                                 *)

\* The records of a slot tell its whole story, whatever its tools answer.
THEOREM SlotStory == SlotSpec => []SlotInv
<1>1. SlotInit => SlotInv
  BY StoryInit, LedgerInitInv DEF SlotInit, SlotInv
<1>2. SlotInv /\ [SlotNext]_allVars => SlotInv'
  BY StoryStep, StepIsLedgerStep, LedgerStepInv DEF SlotInv
<1> QED BY <1>1, <1>2, PTL DEF SlotSpec

\* Every field of the record keeps to the values run_study_slot gives it.
THEOREM SlotTypeCorrect == SlotSpec => []SlotTypeOK
<1>1. SlotInv => SlotTypeOK
  BY DEF SlotInv, StoryInv, FieldsOK, LedgerInv, SlotTypeOK
<1> QED BY SlotStory, <1>1, PTL

\* A slot that failed stopped at its first failure: the record of a stage that
\* went wrong is the last one of a stage that was attempted.
THEOREM SlotFailsOnce == SlotSpec => []FailureEndsSlot
<1>1. SlotInv => FailureEndsSlot
  <2> SUFFICES ASSUME SlotInv PROVE FailureEndsSlot
    OBVIOUS
  <2>1. pc = "done" => execution # "pending" /\ ~active
    BY DEF SlotInv, StoryInv, Concluded, InOrder, Over, StageNames
  <2>2. ASSUME NEW i \in 1..Len(records), NEW j \in 1..Len(records), i < j, records[j].attempted
        PROVE  records[i].status \in Good
    <3>1. i \in 1..(Count - 1)
      BY <2>2 DEF Count, SlotInv, LedgerInv, LedgerTypeOK
    <3>2. Fine(records[i])
      BY <3>1 DEF SlotInv, StoryInv, WentWell
    <3>3. ~records[i].late
      BY <2>2 DEF SlotInv, LedgerInv, OverrunEndsCampaign
    <3> QED BY <3>2, <3>3 DEF Fine
  <2> QED BY <2>1, <2>2 DEF FailureEndsSlot, Good
<1> QED BY SlotStory, <1>1, PTL

\* The record of the slot and that of its augmentation stage agree in the end.
THEOREM SlotAugmentationAgrees == SlotSpec => []AugmentationAgrees
<1>1. SlotInv => AugmentationAgrees
  <2> SUFFICES ASSUME SlotInv, pc = "done", NEW i \in 1..Len(records),
                      records[i].name = "augmentation"
               PROVE  augmentation \in Reasons <=> records[i].status \in Reasons
    BY DEF AugmentationAgrees, Reasons
  <2>1. Len(records) \in Nat /\ ~active
    BY DEF SlotInv, StoryInv, InOrder, LedgerInv, LedgerTypeOK, StageNames
  <2>2. i = PrechargeCount + 3
    <3>1. i > PrechargeCount
      BY <2>1, PrechargeFact DEF SlotInv, StoryInv, InOrder
    <3> DEFINE k == i - PrechargeCount
    <3>2. k \in 1..6 /\ PrechargeCount + k = i
      BY <2>1, <3>1, PrechargeFact DEF SlotInv, StoryInv, InOrder, Count
    <3>3. Protocol[k] = "augmentation"
      BY <2>1, <3>2 DEF SlotInv, StoryInv, InOrder, Count
    <3>4. k = 3
      BY <3>2, <3>3 DEF Protocol
    <3> QED BY <3>2, <3>4
  <2> QED BY <2>1, <2>2, PrechargeFact DEF SlotInv, StoryInv, Agrees, Count
<1> QED BY SlotStory, <1>1, PTL

\* A valid slot ran the whole protocol within its budget.
THEOREM ValidSlotIsWhole == SlotSpec => []ValidRanTheProtocol
<1>1. SlotInv => ValidRanTheProtocol
  <2> SUFFICES ASSUME SlotInv, valid PROVE ValidRanTheProtocol
    BY DEF ValidRanTheProtocol
  <2>1. pc = "done" /\ execution = "completed" /\ ~SomeStageLate
    BY DEF SlotInv, StoryInv, Concluded
  <2>2. stop = "time_limit" /\ Len(records) = PrechargeCount + 6 /\ ~active
    BY <2>1 DEF SlotInv, StoryInv, Concluded, InOrder, Count, StageNames
  <2>3. ASSUME NEW i \in 1..6
        PROVE  LET r == records[PrechargeCount + i]
               IN  /\ r.name = Protocol[i]
                   /\ r.finished <= Total
                   /\ ~r.attempted => i = 3 /\ ~Augments
                   /\ r.status \notin ErrorStatuses \ NegativeResults
    <3> DEFINE n == PrechargeCount + i
    <3>1. n \in 1..Len(records)
      BY <2>2, PrechargeFact
    <3>2. ~records[n].late /\ Derived(records[n]) /\ records[n] \in Record
      BY <2>1, <3>1 DEF SomeStageLate, SlotInv, LedgerInv, RecordsDerived, LedgerTypeOK
    <3>3. records[n].finished <= Total
      BY <3>2, LedgerAssumption DEF Derived, Record, Instants
    <3>4. records[n].name = Protocol[i]
      BY <2>2, <3>1 DEF SlotInv, StoryInv, InOrder, Count
    <3>5. ~records[n].attempted => i = 3 /\ ~Augments
      BY <2>1, <2>2, <3>1 DEF SlotInv, StoryInv, Attempted, Count
    <3>6. Fine(records[n])
      BY <2>1, <2>2, <3>1 DEF SlotInv, StoryInv, WentWell, Count
    <3>7. records[n].status \in Good
      BY <3>2, <3>6 DEF Fine
    <3> QED BY <3>3, <3>4, <3>5, <3>7, SlotAssumption DEF Good
  <2>4. Len(Protocol) = 6
    BY DEF Protocol
  <2> QED BY <2>2, <2>3, <2>4 DEF ValidRanTheProtocol
<1> QED BY SlotStory, <1>1, PTL
=============================================================================
