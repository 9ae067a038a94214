---------------------------- MODULE BudgetLedger ----------------------------
(***************************************************************************)
(* The wall-clock ledger every campaign is charged to: BudgetLedger and     *)
(* StageHandle (budget.py).  One thread uses a ledger, but time does not    *)
(* wait for it: the clock can advance between any two of its readings, so   *)
(* an operation that reads it several times sees several values.           *)
(*                                                                         *)
(* Times are offsets from started_at, which lies InitialCharge before the   *)
(* physical start: the deadline is at Total.  They are whole numbers here,  *)
(* and only their order and their differences matter.                      *)
(*                                                                         *)
(* Whoever uses the ledger is left open: Next lets it open, finish, close   *)
(* and skip stages in any order the methods allow.  A call they refuse      *)
(* (a nested stage, a second finish) raises and changes nothing.            *)
(***************************************************************************)
EXTENDS Integers, Sequences

CONSTANTS
  Total,          \* total_seconds
  InitialCharge,  \* initial_charge_seconds
  Tolerance,      \* cleanup_tolerance_seconds
  Stages,         \* the names stages are opened under
  Outcomes,       \* the statuses callers settle on
  ErrorStatuses,  \* the statuses exceptions leave behind
  MaxTime,        \* bound: the last instant the clock shows
  MaxRecords      \* bound: records a ledger is given

STAGE_STATUSES ==
  {"running", "completed", "skipped", "no_eligible_prefix", "no_candidate",
   "timeout", "campaign_deadline", "invalid_model", "replay_mismatch",
   "tool_error", "evidence_error", "unverified"}

\* The status an exception leaves is the one it carries, tool_error by default:
\* it need not be a stage status.
ASSUME LedgerAssumption ==
  /\ Total \in Nat \ {0} /\ InitialCharge \in Nat /\ InitialCharge < Total
  /\ Tolerance \in Nat /\ MaxTime \in Nat /\ InitialCharge <= MaxTime
  /\ MaxRecords \in Nat
  /\ Outcomes \subseteq STAGE_STATUSES \ {"running"}
  /\ "running" \notin ErrorStatuses
  /\ "common_build_warmup_charge" \notin Stages

VARIABLES
  now,      \* the clock, as an offset
  records,  \* the records, the open stage last
  active    \* a stage is open

ledgerVars == <<now, records, active>>

Instants == 0..MaxTime
Remaining(t) == IF t < Total THEN Total - t ELSE 0
LateBy(t) == IF t > Total THEN t - Total ELSE 0

\* A record whose times are settled.
Settled(name, status, start, finish, before, after, attempted) ==
  [name |-> name, status |-> status, started |-> start, finished |-> finish,
   elapsed |-> finish - start, before |-> before, after |-> after,
   late |-> finish > Total, tolerated |-> LateBy(finish) <= Tolerance,
   attempted |-> attempted]

Precharge ==
  Settled("common_build_warmup_charge", "completed", 0, InitialCharge,
          Total, Total - InitialCharge, TRUE)

LedgerInit ==
  /\ now = InitialCharge
  /\ records = IF InitialCharge = 0 THEN <<>> ELSE <<Precharge>>
  /\ active = FALSE

LastRecord == records[Len(records)]

----------------------------------------------------------------------------
Tick ==
  /\ now < MaxTime /\ now' = now + 1
  /\ UNCHANGED <<records, active>>

\* record_skipped reads the clock for the offset and twice for the budget.
RecordSkipped(name, status) ==
  /\ ~active /\ Len(records) < MaxRecords
  /\ \E offset \in now..MaxTime : \E second \in offset..MaxTime :
       /\ now' \in second..MaxTime
       /\ records' = Append(records,
            Settled(name, status, offset, offset, Remaining(second), Remaining(now'), FALSE))
  /\ UNCHANGED active

\* Fault: a stage opens on an exhausted budget.
OpenStageUnchecked(name) ==
  /\ ~active /\ Len(records) < MaxRecords
  /\ now' \in now..MaxTime
  /\ records' = Append(records,
       Settled(name, "running", now', now', Remaining(now'), Remaining(now'), TRUE))
  /\ active' = TRUE

\* stage(): the budget is looked at first, and the start is read afterwards.
\* Until the stage closes its times are those of its start.
OpenStage(name) ==
  /\ ~active /\ Len(records) < MaxRecords /\ Remaining(now) > 0
  /\ now' \in now..MaxTime
  /\ records' = Append(records,
       Settled(name, "running", now', now', Remaining(now'), Remaining(now'), TRUE))
  /\ active' = TRUE

\* No budget: the stage is recorded as skipped and CampaignDeadlineError raised.
RefuseStage(name) ==
  Remaining(now) = 0 /\ RecordSkipped(name, "campaign_deadline")

\* StageHandle.finish sets the outcome; the stage stays open.
FinishHandle(status) ==
  /\ active /\ LastRecord.status = "running"
  /\ status \in STAGE_STATUSES \ {"running"}
  /\ records' = [records EXCEPT ![Len(records)].status = status]
  /\ UNCHANGED <<now, active>>

\* Faults: the start of the ledger, not of the stage, is what elapsed is
\* measured from; a late completion stays "completed".
CloseFromLedgerStart(outcome) ==
  /\ active
  /\ now' \in now..MaxTime
  /\ LET status == IF LastRecord.status = "running" THEN outcome ELSE LastRecord.status
     IN  records' = [records EXCEPT ![Len(records)] =
           Settled(@.name, status, InitialCharge, now', @.before, Remaining(now'), TRUE)]
  /\ active' = FALSE
CloseKeepingCompleted(outcome) ==
  /\ active
  /\ now' \in now..MaxTime
  /\ LET status == IF LastRecord.status = "running" THEN outcome ELSE LastRecord.status
     IN  records' = [records EXCEPT ![Len(records)] =
           Settled(@.name, status, @.started, now', @.before, Remaining(now'), TRUE)]
  /\ active' = FALSE

\* The stage ends, by returning ("completed") or by an exception that carries
\* outcome.  An outcome already settled stays; a late completion does not.
CloseStage(outcome) ==
  /\ active
  /\ now' \in now..MaxTime
  /\ LET status == IF LastRecord.status = "running" THEN outcome ELSE LastRecord.status
         final == IF status = "completed" /\ now' > Total THEN "campaign_deadline"
                                                           ELSE status
     IN  records' = [records EXCEPT ![Len(records)] =
           Settled(@.name, final, @.started, now', @.before, Remaining(now'), TRUE)]
  /\ active' = FALSE

LedgerNext ==
  \/ Tick
  \/ \E name \in Stages :
       \/ OpenStage(name) \/ RefuseStage(name)
       \/ \E status \in Outcomes : RecordSkipped(name, status)
  \/ \E status \in Outcomes : FinishHandle(status)
  \/ \E outcome \in ErrorStatuses \union {"completed"} : CloseStage(outcome)

LedgerSpec == LedgerInit /\ [][LedgerNext]_ledgerVars

----------------------------------------------------------------------------
(* What summary() reports for a charged end. *)

SumElapsed ==
  LET sum[n \in 0..Len(records)] ==
        IF n = 0 THEN 0 ELSE sum[n - 1] + records[n].elapsed
  IN  sum[Len(records)]

Summary(end) ==
  LET attributed == IF SumElapsed <= end THEN SumElapsed ELSE end
  IN  [wall |-> end, stages |-> attributed, unattributed |-> end - attributed,
       remaining |-> Remaining(end), reached |-> end >= Total]

----------------------------------------------------------------------------
(* Properties *)

Record ==
  [name : Stages \union {"common_build_warmup_charge"},
   status : STAGE_STATUSES \union ErrorStatuses,
   started : Instants, finished : Instants, elapsed : Nat,
   before : 0..Total, after : 0..Total,
   late : BOOLEAN, tolerated : BOOLEAN, attempted : BOOLEAN]

\* Every variable keeps to the values the ledger can hold; an open stage is the
\* last record.
LedgerTypeOK ==
  /\ now \in Instants /\ records \in Seq(Record) /\ active \in BOOLEAN
  /\ active => Len(records) > 0

\* Stages never overlap in time and none of them reaches beyond the clock:
\* records follow one another in the order of the list ("non-overlapping
\* wall-clock accounting", the ledger's first line).
NonOverlapping ==
  /\ \A i \in 1..Len(records) : /\ records[i].started <= records[i].finished
                                /\ records[i].finished <= now
  /\ \A i, j \in 1..Len(records) : i < j => records[i].finished <= records[j].started

\* So the time attributed to stages never exceeds the wall time, and the
\* min() in summary() never hides a second charged twice.
NothingChargedTwice == SumElapsed <= now

\* A stage that ran past the deadline is the last one that ran: whatever comes
\* after it is only recorded as skipped.
OverrunEndsCampaign ==
  \A i, j \in 1..Len(records) :
    records[i].late /\ i < j => ~records[j].attempted

\* A closed stage has a final status, and one that says "completed" finished
\* before the deadline with budget charged for exactly the time it took.
CompletedInBudget ==
  \A i \in 1..Len(records) :
    /\ records[i].status = "running" => active /\ i = Len(records)
    /\ records[i].status = "completed" /\ records[i].attempted
         /\ ~(active /\ i = Len(records)) =>
         /\ records[i].finished <= Total
         /\ records[i].before - records[i].after = records[i].elapsed
=============================================================================
