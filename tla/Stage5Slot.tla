----------------------------- MODULE Stage5Slot -----------------------------
(***************************************************************************)
(* One slot of a Stage 5 study: run_slot (stage5_study.py) with the queries *)
(* it executes (execute_query, stage5_augment.py).  The slot charges four   *)
(* stages to its ledger; during the second one the scheduler of its arm is  *)
(* asked for queries, each of which is checked, solved, replayed and        *)
(* confirmed by a chain of tools, and is told of their results.  A          *)
(* confirmed candidate joins the corpus Medusa continues from.              *)
(*                                                                         *)
(* Every tool may answer anything its caller distinguishes and take any     *)
(* time; a query looks at its deadline before each of them.                 *)
(***************************************************************************)
EXTENDS BudgetLedger, QueryScheduler, Subsequences

CONSTANTS
  AugLimit,       \* augmentation_limit_seconds
  MaxQueries,     \* max_queries
  MaxCandidates,  \* bound: candidates a solver returns
  NativeMargin    \* evidence_reserve and the least fuzz time after it

StageOrder ==
  <<"input_and_cache_prepare", "symbolic_augmentation",
    "native_startup_and_continuation", "online_evidence_validation">>

\* What a query ends the search of the slot with.
HardResults ==
  {"tool_error", "result_mismatch", "decode_error", "prefix_mismatch", "replay_mismatch",
   "state_mismatch", "observer_mismatch", "invalid_model", "repaired_regression_failure"}

ASSUME Stage5SlotAssumption ==
  /\ AugLimit \in Nat /\ MaxCandidates \in Nat \ {0} /\ NativeMargin \in Nat
  /\ MaxQueries \in Nat /\ MaxQueries <= MaxFeedback /\ MaxQueries <= MaxDecisions
  /\ Stages = {StageOrder[i] : i \in 1..4}
  /\ {"skipped", "no_eligible_prefix", "no_candidate"} \subseteq Outcomes
  /\ {"timeout", "tool_error", "confirmed", "candidate_rejected"} \subseteq Reports
  /\ HardResults \union {"timeout", "campaign_deadline", "evidence_error"} \subseteq ErrorStatuses

VARIABLES
  arm,            \* native_resume, or the mode of the scheduler
  warm,           \* the common warmup already confirmed a violation
  prefixes,       \* it left property-safe prefixes
  repaired,       \* the fixture has a repaired counterpart
  stage,          \* index in StageOrder, 5 for what follows
  phase,          \* what the slot is doing in it
  augDeadline,    \* augment_deadline
  current,        \* the query being executed
  left,           \* its candidates not tried yet
  dropped,        \* why the others were dropped
  result,         \* its status, once it is known
  executed,       \* row["queries"], with the dropped candidates of each
  confirmations,  \* row["candidate_confirmations"]: the imported queries
  rowStatus,      \* row["status"]
  valid           \* row["evaluation_valid"]

given == <<arm, warm, prefixes, repaired>>
query == <<current, left, dropped, result>>
row == <<executed, confirmations, rowStatus, valid>>
slotVars == <<given, stage, phase, augDeadline, query, row>>
allVars == <<ledgerVars, schedulerVars, slotVars>>

Augments == arm # "native_resume" /\ ~warm

\* The scheduler of a slot that does not augment is never made: it stands idle.
SlotInit ==
  /\ LedgerInit /\ SchedulerInit
  /\ arm \in MODES \union {"native_resume"}
  /\ warm \in BOOLEAN /\ prefixes \in BOOLEAN /\ repaired \in BOOLEAN
  /\ IF Augments THEN mode = arm ELSE mode = "symbolic_one"
  /\ ~Augments \/ ~prefixes => one = <<>> /\ two = <<>>
  /\ stage = 1 /\ phase = "enter" /\ augDeadline = 0
  /\ current = NoQuery /\ left = 0 /\ dropped = <<>> /\ result = "none"
  /\ executed = <<>> /\ confirmations = <<>> /\ rowStatus = "running" /\ valid = FALSE

----------------------------------------------------------------------------
(* Stages *)

Staged == phase = "enter" /\ stage \in 1..4 /\ (stage = 2 => Augments)

Enter ==
  /\ Staged /\ OpenStage(StageOrder[stage]) /\ phase' = "body"
  /\ UNCHANGED <<schedulerVars, given, stage, augDeadline, query, row>>

Stop(status) ==
  /\ rowStatus' = status /\ stage' = 5 /\ phase' = "finally"
  /\ UNCHANGED <<schedulerVars, given, augDeadline, query, executed, confirmations, valid>>

\* Fault: the refused stage is tried again.
RefusedAndRetried ==
  /\ Staged /\ RefuseStage(StageOrder[stage])
  /\ UNCHANGED <<schedulerVars, slotVars>>

Refused ==
  Staged /\ RefuseStage(StageOrder[stage]) /\ Stop("campaign_deadline")

\* The open stage raises: its status is that of the slot as well.
Raise(status) == CloseStage(status) /\ Stop(status)

Leave ==
  /\ CloseStage("completed")
  /\ stage' = stage + 1 /\ phase' = IF stage = 4 THEN "finally" ELSE "enter"
  /\ UNCHANGED <<schedulerVars, given, augDeadline, query, executed, confirmations, valid>>

FuzzFits == Remaining(now) >= NativeMargin

InputCopied == stage = 1 /\ phase = "body" /\ Leave /\ UNCHANGED rowStatus

NativeRefused ==
  stage = 3 /\ phase = "body" /\ ~FuzzFits /\ Raise("campaign_deadline")

NativeReturns ==
  stage = 3 /\ phase = "body" /\ FuzzFits /\ Leave /\ UNCHANGED rowStatus

EvidenceAccepted ==
  stage = 4 /\ phase = "body" /\ Leave /\ rowStatus' = "completed"

\* A copy, a plan, a tool or the evidence is not what it should be.
StageFails ==
  /\ active /\ phase = "body" /\ (stage = 3 => FuzzFits)
  /\ \/ Raise("tool_error")
     \/ stage # 2 /\ Raise("evidence_error")
     \/ stage = 3 /\ Raise("timeout")

SkipAugmentation ==
  /\ stage = 2 /\ phase = "enter" /\ ~Augments
  /\ RecordSkipped("symbolic_augmentation", "skipped")
  /\ stage' = 3
  /\ UNCHANGED <<schedulerVars, given, phase, augDeadline, query, row>>

----------------------------------------------------------------------------
(* Asking the scheduler *)

PlansMade ==
  /\ stage = 2 /\ phase = "body" /\ phase' = "ask"
  /\ augDeadline' = IF now + AugLimit <= Total - Reserve THEN now + AugLimit ELSE Total - Reserve
  /\ UNCHANGED <<ledgerVars, schedulerVars, given, stage, query, row>>

\* What the scheduler is told is left: the time of the augmentation, and the
\* reserve after it.
TimeLeft == (IF now < augDeadline THEN augDeadline - now ELSE 0) + Reserve

AskNext ==
  /\ phase = "ask" /\ Len(executed) < MaxQueries
  /\ NextQuery(TimeLeft)
  /\ LET selected == decisions'[Len(decisions')].query
     IN  IF selected = NoQuery
         THEN phase' = "settle" /\ UNCHANGED query
         ELSE /\ phase' = "prefix" /\ current' = selected
              /\ UNCHANGED <<left, dropped, result>>
  /\ UNCHANGED <<ledgerVars, given, stage, augDeadline, row>>

QueriesUsed ==
  /\ phase = "ask" /\ Len(executed) = MaxQueries /\ phase' = "settle"
  /\ UNCHANGED <<ledgerVars, schedulerVars, given, stage, augDeadline, query, row>>

----------------------------------------------------------------------------
(* Executing a query *)

\* The tools a query calls one after the other, and the results each can end it
\* with, a timeout apart.
Tools == {"prefix", "build", "solve", "replay", "rebuild", "encode", "observe",
          "repaired_replay", "repaired_observe"}
Failures(tool) ==
  CASE tool = "prefix" -> {"unsupported", "all_paths_reverted", "tool_error",
                           "result_mismatch", "prefix_incomplete", "prefix_mismatch"}
    [] tool \in {"build", "rebuild"} -> {"tool_error", "state_mismatch"}
    [] tool = "solve" -> {"unsupported", "all_paths_reverted", "tool_error", "result_mismatch",
                          "decode_error", "invalid_model", "no_model_complete", "incomplete"}
    [] tool \in {"replay", "repaired_replay"} -> {"replay_mismatch", "result_mismatch", "tool_error"}
    [] tool \in {"encode", "observe"} -> {"tool_error"}
    [] tool = "repaired_observe" ->
         {"tool_error", "replay_mismatch", "repaired_regression_failure"}
AfterTool ==
  [prefix |-> "build", build |-> "solve", solve |-> "replay", replay |-> "rebuild",
   rebuild |-> "encode", encode |-> "observe", observe |-> "repaired_replay",
   repaired_replay |-> "repaired_observe", repaired_observe |-> "answered"]

QueryOnly == UNCHANGED <<ledgerVars, schedulerVars, given, stage, augDeadline, row, current>>

Answer(status) == result' = status /\ phase' = "answered" /\ UNCHANGED <<left, dropped>>

\* The candidate is confirmed by its last tool.
ToolReturns ==
  /\ phase \in Tools /\ now < augDeadline
  /\ LET confirmed_ == phase = "repaired_observe" \/ (phase = "observe" /\ ~repaired)
     IN  IF confirmed_
         THEN phase' = "answered" /\ result' = "confirmed"
         ELSE phase' = AfterTool[phase] /\ UNCHANGED result
  /\ IF phase = "solve" THEN left' \in 1..MaxCandidates ELSE UNCHANGED left
  /\ UNCHANGED dropped /\ QueryOnly

\* A harness or a file that cannot be written, or read again, is an error whatever
\* the time.
ToolFails ==
  /\ phase \in Tools
  /\ \/ \E status \in Failures(phase) \intersect Reports : now < augDeadline /\ Answer(status)
     \/ phase \notin {"build", "solve", "rebuild"} /\ Answer("tool_error")
     \/ now < augDeadline /\ phase # "replay" /\ Answer("timeout")
  /\ QueryOnly

OutOfTime == phase \in Tools /\ now >= augDeadline /\ Answer("timeout") /\ QueryOnly

\* Forge gave up on the candidate, or Medusa knows its sequence: the next one is
\* tried, and after the last the query is rejected.
DropCandidate ==
  /\ now < augDeadline
  /\ \E why \in {"timeout", "duplicate_warmup_sequence"} :
       /\ phase = IF why = "timeout" THEN "replay" ELSE "encode"
       /\ dropped' = Append(dropped, why)
  /\ left' = left - 1
  /\ IF left = 1 THEN phase' = "answered" /\ result' = "candidate_rejected"
                 ELSE phase' = "replay" /\ UNCHANGED result
  /\ QueryOnly

----------------------------------------------------------------------------
(* Its result *)

\* Its locals go with it.
QueryOver == current' = NoQuery /\ left' = 0 /\ dropped' = <<>> /\ result' = "none"

ExecutedRow == [query |-> current, status |-> result, dropped |-> dropped]
\* Fault: the search goes on before the candidate is imported.
AfterResultWithoutImport == IF result \in HardResults THEN "raise" ELSE "ask"
AfterResult ==
  IF result = "confirmed" THEN "import" ELSE IF result \in HardResults THEN "raise" ELSE "ask"

\* Faults: a query that timed out is left out of the record; an error does not end
\* the search.
ReportUnlessTimeout ==
  /\ phase = "answered" /\ phase' = AfterResult
  /\ executed' = IF result = "timeout" THEN executed ELSE Append(executed, ExecutedRow)
  /\ RecordFeedback(current, result) /\ QueryOver
  /\ UNCHANGED <<ledgerVars, given, stage, augDeadline, confirmations, rowStatus, valid>>
ReportWithoutStopping ==
  /\ phase = "answered" /\ phase' = IF result = "confirmed" THEN "import" ELSE "ask"
  /\ executed' = Append(executed, ExecutedRow)
  /\ RecordFeedback(current, result) /\ QueryOver
  /\ UNCHANGED <<ledgerVars, given, stage, augDeadline, confirmations, rowStatus, valid>>
Report ==
  /\ phase = "answered" /\ phase' = AfterResult
  /\ executed' = Append(executed, ExecutedRow)
  /\ RecordFeedback(current, result) /\ QueryOver
  /\ UNCHANGED <<ledgerVars, given, stage, augDeadline, confirmations, rowStatus, valid>>

HardResult ==
  /\ phase = "raise"
  /\ \E status \in HardResults : executed[Len(executed)].status = status /\ Raise(status)

Import ==
  /\ phase = "import" /\ phase' = "settle"
  /\ confirmations' = Append(confirmations, executed[Len(executed)].query)
  /\ UNCHANGED <<ledgerVars, schedulerVars, given, stage, augDeadline, query,
                 executed, rowStatus, valid>>

ImportFails == phase = "import" /\ Raise("tool_error")

Settle ==
  /\ phase = "settle" /\ phase' = "leave"
  /\ IF ~prefixes THEN FinishHandle("no_eligible_prefix")
     ELSE IF confirmations = <<>> THEN FinishHandle("no_candidate") ELSE UNCHANGED ledgerVars
  /\ UNCHANGED <<schedulerVars, given, stage, augDeadline, query, row>>

AugmentationDone == phase = "leave" /\ Leave /\ UNCHANGED rowStatus

----------------------------------------------------------------------------
SomeStageLate == \E i \in 1..Len(records) : records[i].late

\* Fault: only failures disqualify a slot, lateness does not.
FinallyWhateverTheStages ==
  /\ phase = "finally" /\ phase' = "done"
  /\ \E withinLimit \in BOOLEAN : valid' = (rowStatus = "completed" /\ withinLimit)
  /\ UNCHANGED <<ledgerVars, schedulerVars, given, stage, augDeadline, query,
                 executed, confirmations, rowStatus>>

\* The common work kept its own limit or not.
Finally ==
  /\ phase = "finally" /\ phase' = "done"
  /\ \E withinLimit \in BOOLEAN :
       valid' = (rowStatus = "completed" /\ withinLimit /\ ~SomeStageLate)
  /\ UNCHANGED <<ledgerVars, schedulerVars, given, stage, augDeadline, query,
                 executed, confirmations, rowStatus>>

Slot ==
  \/ Enter \/ Refused \/ StageFails \/ SkipAugmentation
  \/ InputCopied \/ NativeRefused \/ NativeReturns \/ EvidenceAccepted
  \/ PlansMade \/ AskNext \/ QueriesUsed
  \/ ToolReturns \/ ToolFails \/ OutOfTime \/ DropCandidate
  \/ Report \/ HardResult \/ Import \/ ImportFails \/ Settle \/ AugmentationDone
  \/ Finally

SlotNext == Slot \/ (Tick /\ UNCHANGED <<schedulerVars, slotVars>>)

SlotSpec == SlotInit /\ [][SlotNext]_allVars

\* The thread of the slot goes on: every tool is a subprocess with a timeout.
FairSlotSpec == SlotSpec /\ WF_allVars(Slot)

----------------------------------------------------------------------------
(* Properties *)

\* Every variable keeps to the values the slot can give it, in its ledger and its
\* scheduler too.
SlotTypeOK ==
  /\ LedgerTypeOK /\ SchedulerTypeOK
  /\ stage \in 1..5 /\ current \in Queries \union {NoQuery}
  /\ phase \in Tools \union {"enter", "body", "ask", "answered", "import", "raise",
                             "settle", "leave", "finally", "done"}
  /\ augDeadline \in Int /\ left \in 0..MaxCandidates
  /\ dropped \in Seq({"timeout", "duplicate_warmup_sequence"})
  /\ result \in FeedbackStatuses \union {"none"}
  /\ executed \in Seq([query : Queries, status : FeedbackStatuses,
                       dropped : Seq({"timeout", "duplicate_warmup_sequence"})])
  /\ confirmations \in Seq(Queries)
  /\ rowStatus \in ErrorStatuses \union {"running", "completed"} /\ valid \in BOOLEAN

\* The queries that were given, in their order.
GivenQuery == [query : Queries, heard : Nat, reason : Reasons]
Scheduled ==
  LET given_ == Among(decisions, GivenQuery)
  IN  [i \in 1..Len(given_) |-> given_[i].query]

\* The auditor finds the executed queries in the order they were scheduled in; at
\* any moment only the query being executed is missing, and each decision was made
\* with the results of all the queries before it (the scheduler is never behind).
HeardBeforeAsked ==
  /\ Len(Scheduled) = Len(executed) + (IF phase \in Tools \union {"answered"} THEN 1 ELSE 0)
  /\ Len(feedback) = Len(executed)
  /\ \A i \in 1..Len(executed) :
       /\ executed[i].query = Scheduled[i] /\ feedback[i].query = executed[i].query
       /\ feedback[i].status = executed[i].status
  /\ \A i \in 1..Len(decisions) : decisions[i].heard = i - 1

\* An evaluation-valid slot has the stages, queries and imports the auditor asks
\* for, its charge apart (Stage5Audit has that): the four stages are there in order and in time; no query ended in an
\* error of the toolchain; the confirmed queries are exactly the imported ones, at
\* most one, and the last that was executed; and the record of the augmentation
\* says whether there is one.
ValidSurvivesAudit ==
  valid =>
    LET first == IF InitialCharge = 0 THEN 0 ELSE 1
        confirmed_ == {i \in 1..Len(executed) : executed[i].status = "confirmed"}
    IN  /\ Len(records) = first + 4
        /\ \A i \in 1..4 : /\ records[first + i].name = StageOrder[i]
                           /\ records[first + i].finished <= Total
                           /\ records[first + i].attempted \/ (i = 2 /\ ~Augments)
        /\ \A i \in 1..Len(executed) : executed[i].status \notin HardResults
        /\ confirmed_ \subseteq {Len(executed)}
        /\ confirmations = [i \in 1..(IF confirmed_ = {} THEN 0 ELSE 1) |->
                              executed[Len(executed)].query]
        /\ Augments => (records[first + 2].status = "completed" <=> confirmations # <<>>)

\* A confirmed candidate is never lost between the query and the native run: once
\* Medusa continues, the corpus holds it.
ConfirmedIsImported ==
  stage = 3 => \A i \in 1..Len(executed) :
    executed[i].status = "confirmed" => confirmations = <<executed[i].query>>

\* Every slot comes to an end and leaves a record.
SlotEnds == <>(phase = "done")

\* "Timeout, unsupported, and tool errors alone do not trigger promotion" (the
\* adaptive rule of the configurations): a promoted arm has heard something else.
TimeoutsAloneNeverPromote ==
  promoted => \E i \in 1..Len(executed) :
    \/ executed[i].status \in NO_PROGRESS
    \/ executed[i].status = "candidate_rejected"
         /\ \E n \in 1..Len(executed[i].dropped) : executed[i].dropped[n] # "timeout"
=============================================================================
