------------------------- MODULE BudgetLedger_proofs -------------------------
(***************************************************************************)
(* What the ledger of budget.py guarantees whatever its budget, its         *)
(* precharge, its callers and the speed of the clock: its records are well  *)
(* formed, they never overlap, a "completed" stage fits the budget, and     *)
(* nothing runs after a stage that overran the deadline.                    *)
(*                                                                         *)
(* The invariant that carries these through a step also says that the       *)
(* derived fields of a record follow from its times: the flag the deadline  *)
(* is judged by, and the budget before and after an attempted stage.        *)
(***************************************************************************)
EXTENDS BudgetLedger, Subsequences_proofs

\* The derived fields of a record repeat what its times say.
Derived(r) ==
  /\ r.elapsed = r.finished - r.started
  /\ r.late = (r.finished > Total)
  /\ r.attempted => r.before = Remaining(r.started) /\ r.after = Remaining(r.finished)

RecordsDerived == \A i \in 1..Len(records) : Derived(records[i])

OpenStageAttempted == active => records[Len(records)].attempted

LedgerInv ==
  /\ LedgerTypeOK /\ NonOverlapping /\ RecordsDerived /\ OpenStageAttempted
  /\ OverrunEndsCampaign /\ CompletedInBudget

\* The remaining budget is never negative and never more than the total
\* (BudgetLedger.remaining_seconds).
LEMMA RemainingType ==
  ASSUME NEW t \in Instants PROVE Remaining(t) \in 0..Total
BY LedgerAssumption DEF Remaining, Instants

\* What the ledger settles is a record: its times are instants in order, its
\* budgets lie within the total.
LEMMA SettledType ==
  ASSUME NEW name \in Stages \union {"common_build_warmup_charge"},
         NEW status \in STAGE_STATUSES \union ErrorStatuses,
         NEW start \in Instants, NEW finish \in Instants, start <= finish,
         NEW before \in 0..Total, NEW after \in 0..Total, NEW attempted \in BOOLEAN
  PROVE  Settled(name, status, start, finish, before, after, attempted) \in Record
<1>1. finish - start \in Nat
  BY DEF Instants
<1>2. (finish > Total) \in BOOLEAN /\ (LateBy(finish) <= Tolerance) \in BOOLEAN
  OBVIOUS
<1> DEFINE elapsed == finish - start
           late == finish > Total
           tolerated == LateBy(finish) <= Tolerance
<1>3. Settled(name, status, start, finish, before, after, attempted)
        = [name |-> name, status |-> status, started |-> start, finished |-> finish,
           elapsed |-> elapsed, before |-> before, after |-> after,
           late |-> late, tolerated |-> tolerated, attempted |-> attempted]
  BY DEF Settled
<1>4. elapsed \in Nat /\ late \in BOOLEAN /\ tolerated \in BOOLEAN
  BY <1>1, <1>2
<1> HIDE DEF elapsed, late, tolerated
<1> QED BY <1>3, <1>4 DEF Record

\* A record appended at the current time keeps the invariant, if it opens a
\* stage only while budget is left or is not attempted, and if it is not
\* settled as an attempted completion.
LEMMA AppendKeeps ==
  ASSUME LedgerInv, ~active, NEW r, r \in Record, Derived(r),
         now' \in Instants, now <= r.started, r.started <= r.finished, r.finished <= now',
         records' = Append(records, r), active' \in BOOLEAN,
         r.attempted => Remaining(now) > 0 /\ active' /\ r.status = "running",
         ~r.attempted => ~active' /\ r.status # "running"
  PROVE  LedgerInv'
<1> USE LedgerAssumption DEF Instants
<1> DEFINE n == Len(records)
<1>1. /\ n \in Nat /\ Len(records') = n + 1 /\ records'[n + 1] = r
      /\ \A i \in 1..n : records'[i] = records[i]
      /\ records' \in Seq(Record)
  BY DEF LedgerInv, LedgerTypeOK
<1>2. now \in 0..MaxTime /\ now <= now'
  BY DEF LedgerInv, LedgerTypeOK, Record
<1>3. r.started \in 0..MaxTime /\ r.finished \in 0..MaxTime
  BY DEF Record
<1>4. \A i \in 1..n : records[i] \in Record
  BY DEF LedgerInv, LedgerTypeOK
<1>5. \A i \in 1..n : records[i].started \in 0..MaxTime /\ records[i].finished \in 0..MaxTime
  BY <1>4 DEF Record
<1>6. LedgerTypeOK'
  BY <1>1 DEF LedgerTypeOK
<1>7. NonOverlapping'
  <2>1. \A i \in 1..n : records[i].finished <= now
    BY DEF LedgerInv, NonOverlapping
  <2>2. \A i \in 1..(n + 1) : /\ records'[i].started <= records'[i].finished
                              /\ records'[i].finished <= now'
    BY <1>1, <1>2, <1>3, <1>5, <2>1 DEF LedgerInv, NonOverlapping
  <2>3. ASSUME NEW i \in 1..(n + 1), NEW j \in 1..(n + 1), i < j
        PROVE  records'[i].finished <= records'[j].started
    <3>1. CASE j = n + 1
      BY <3>1, <2>3, <1>1, <1>2, <1>3, <1>5, <2>1
    <3>2. CASE j # n + 1
      BY <3>2, <2>3, <1>1 DEF LedgerInv, NonOverlapping
    <3> QED BY <3>1, <3>2
  <2> QED BY <1>1, <2>2, <2>3 DEF NonOverlapping
<1>8. RecordsDerived' /\ OpenStageAttempted'
  BY <1>1 DEF RecordsDerived, LedgerInv, Derived, Remaining, OpenStageAttempted
<1>9. OverrunEndsCampaign'
  <2>1. ASSUME NEW i \in 1..(n + 1), NEW j \in 1..(n + 1), records'[i].late, i < j
        PROVE  ~records'[j].attempted
    <3>1. CASE j = n + 1
      <4>1. i \in 1..n /\ records[i].late
        BY <3>1, <2>1, <1>1
      <4>2. records[i].finished > Total /\ records[i].finished <= now
        BY <4>1 DEF LedgerInv, RecordsDerived, Derived, NonOverlapping
      <4>3. Remaining(now) = 0
        BY <4>1, <4>2, <1>2, <1>5 DEF Remaining
      <4> QED BY <4>3, <3>1, <1>1
    <3>2. CASE j # n + 1
      BY <3>2, <2>1, <1>1 DEF LedgerInv, OverrunEndsCampaign
    <3> QED BY <3>1, <3>2
  <2> QED BY <1>1, <2>1 DEF OverrunEndsCampaign
<1>10. CompletedInBudget'
  <2>1. ASSUME NEW i \in 1..(n + 1)
        PROVE  /\ records'[i].status = "running" => active' /\ i = n + 1
               /\ records'[i].status = "completed" /\ records'[i].attempted
                    /\ ~(active' /\ i = n + 1) =>
                    /\ records'[i].finished <= Total
                    /\ records'[i].before - records'[i].after = records'[i].elapsed
    <3>1. CASE i = n + 1
      BY <3>1, <1>1 DEF Record
    <3>2. CASE i # n + 1
      <4>1. i \in 1..n /\ records'[i] = records[i]
        BY <3>2, <1>1
      <4> QED BY <4>1 DEF LedgerInv, CompletedInBudget
    <3> QED BY <3>1, <3>2
  <2> QED BY <1>1, <2>1 DEF CompletedInBudget
<1> QED BY <1>6, <1>7, <1>8, <1>9, <1>10 DEF LedgerInv

\* records' is records with the last one replaced by r.
LastReplacedBy(r) ==
  /\ Len(records') = Len(records) /\ records' \in Seq(Record)
  /\ records'[Len(records)] = r
  /\ \A i \in 1..Len(records) : i # Len(records) => records'[i] = records[i]

\* Replacing the last of a list of records leaves the others where they are.
LEMMA ReplaceLast ==
  ASSUME records \in Seq(Record), Len(records) > 0, NEW r \in Record,
         records' = [records EXCEPT ![Len(records)] = r]
  PROVE  LastReplacedBy(r)
BY DEF LastReplacedBy

\* Replacing the open record by one that starts at the same time and finishes
\* no earlier than now keeps the invariant, if a stage that stays open is still
\* that record and one that closes has a final status.
LEMMA ReplaceKeeps ==
  ASSUME LedgerInv, active, NEW r, r \in Record, Derived(r),
         now' \in Instants, now <= now', r.finished <= now', r.started <= r.finished,
         r.started = records[Len(records)].started,
         LastReplacedBy(r), active' \in BOOLEAN,
         ~active' => /\ r.status # "running"
                     /\ r.status = "completed" => r.finished <= Total,
         records[Len(records)].attempted, r.attempted
  PROVE  LedgerInv'
<1> USE LedgerAssumption DEF Instants
<1> DEFINE n == Len(records)
<1>1. /\ n \in Nat \ {0} /\ Len(records') = n /\ records'[n] = r
      /\ \A i \in 1..n : i # n => records'[i] = records[i]
      /\ records' \in Seq(Record)
  BY DEF LedgerInv, LedgerTypeOK, LastReplacedBy
<1>2. now \in 0..MaxTime /\ now <= now'
  BY DEF LedgerInv, LedgerTypeOK
<1>3. r.started \in 0..MaxTime /\ r.finished \in 0..MaxTime
  BY DEF Record
<1>4. \A i \in 1..n : records[i] \in Record
  BY DEF LedgerInv, LedgerTypeOK
<1>5. \A i \in 1..n : records[i].started \in 0..MaxTime /\ records[i].finished \in 0..MaxTime
  BY <1>4 DEF Record
<1>6. LedgerTypeOK'
  BY <1>1 DEF LedgerTypeOK
<1>7. NonOverlapping'
  <2>1. \A i \in 1..n : /\ records'[i].started <= records'[i].finished
                        /\ records'[i].finished <= now'
    BY <1>1, <1>2, <1>3, <1>5 DEF LedgerInv, NonOverlapping
  <2>2. ASSUME NEW i \in 1..n, NEW j \in 1..n, i < j
        PROVE  records'[i].finished <= records'[j].started
    <3>1. i # n /\ records'[i] = records[i]
      BY <2>2, <1>1
    <3>2. records'[j].started = records[j].started
      BY <1>1
    <3> QED BY <3>1, <3>2, <2>2 DEF LedgerInv, NonOverlapping
  <2> QED BY <1>1, <2>1, <2>2 DEF NonOverlapping
<1>8. RecordsDerived' /\ OpenStageAttempted'
  BY <1>1 DEF RecordsDerived, LedgerInv, Derived, Remaining, OpenStageAttempted
<1>9. OverrunEndsCampaign'
  <2>1. ASSUME NEW i \in 1..n, NEW j \in 1..n, records'[i].late, i < j
        PROVE  ~records'[j].attempted
    <3>1. i # n /\ records[i].late
      BY <2>1, <1>1
    <3>2. ~records[j].attempted
      BY <3>1, <2>1 DEF LedgerInv, OverrunEndsCampaign
    <3> QED BY <3>2, <1>1
  <2> QED BY <1>1, <2>1 DEF OverrunEndsCampaign
<1>10. CompletedInBudget'
  <2>1. ASSUME NEW i \in 1..n
        PROVE  /\ records'[i].status = "running" => active' /\ i = n
               /\ records'[i].status = "completed" /\ records'[i].attempted
                    /\ ~(active' /\ i = n) =>
                    /\ records'[i].finished <= Total
                    /\ records'[i].before - records'[i].after = records'[i].elapsed
    <3>1. CASE i = n
      <4>1. records'[i] = r
        BY <3>1, <1>1
      <4>2. /\ r.before = Remaining(r.started) /\ r.after = Remaining(r.finished)
            /\ r.elapsed = r.finished - r.started
        BY DEF Derived
      <4>3. r.finished <= Total => r.before - r.after = r.elapsed
        BY <4>2, <1>3 DEF Remaining
      <4> QED BY <4>1, <4>3, <3>1
    <3>2. CASE i # n
      <4>1. records'[i] = records[i]
        BY <3>2, <1>1
      <4> QED BY <4>1, <3>2 DEF LedgerInv, CompletedInBudget
    <3> QED BY <3>1, <3>2
  <2> QED BY <1>1, <2>1 DEF CompletedInBudget
<1> QED BY <1>6, <1>7, <1>8, <1>9, <1>10 DEF LedgerInv

\* A ledger starts with its precharge at most, which is settled and in budget.
LEMMA LedgerInitInv == LedgerInit => LedgerInv
<1> SUFFICES ASSUME LedgerInit PROVE LedgerInv
  OBVIOUS
<1> USE LedgerAssumption DEF LedgerInit, Instants
<1>1. Precharge \in Record /\ Derived(Precharge) /\ Precharge.status = "completed"
      /\ Precharge.started = 0 /\ Precharge.finished = InitialCharge
      /\ Precharge.before - Precharge.after = Precharge.elapsed
  BY DEF Precharge, Settled, Record, Derived, Remaining, STAGE_STATUSES, LateBy
<1>2. /\ now = InitialCharge /\ now \in Instants /\ active = FALSE
      /\ records \in Seq(Record) /\ Len(records) \in {0, 1}
      /\ \A i \in 1..Len(records) : i = 1 /\ records[i] = Precharge
  BY <1>1
<1> HIDE DEF LedgerInit
<1>3. LedgerTypeOK
  BY <1>2 DEF LedgerTypeOK
<1>4. NonOverlapping
  BY <1>1, <1>2 DEF NonOverlapping
<1>5. RecordsDerived /\ OpenStageAttempted
  BY <1>1, <1>2 DEF RecordsDerived, OpenStageAttempted
<1>6. OverrunEndsCampaign
  BY <1>2 DEF OverrunEndsCampaign
<1>7. CompletedInBudget
  BY <1>1, <1>2 DEF CompletedInBudget
<1> QED BY <1>3, <1>4, <1>5, <1>6, <1>7 DEF LedgerInv

\* Every operation of the ledger, and the clock, keep the invariant.
LEMMA LedgerStepInv == LedgerInv /\ [LedgerNext]_ledgerVars => LedgerInv'
<1> SUFFICES ASSUME LedgerInv, [LedgerNext]_ledgerVars PROVE LedgerInv'
  OBVIOUS
<1> USE LedgerAssumption
<1>0. /\ now \in Instants /\ records \in Seq(Record) /\ active \in BOOLEAN
      /\ Len(records) \in Nat
      /\ active => Len(records) > 0
  BY DEF LedgerInv, LedgerTypeOK
<1>1. CASE Tick
  <2>1. now' \in Instants /\ now <= now' /\ records' = records /\ active' = active
    BY <1>1, <1>0 DEF Tick, Instants
  <2>2. /\ LedgerTypeOK' /\ RecordsDerived' /\ OpenStageAttempted'
        /\ OverrunEndsCampaign' /\ CompletedInBudget'
    <3>1. LedgerTypeOK'
      BY <2>1 DEF LedgerInv, LedgerTypeOK
    <3>2. RecordsDerived' /\ OpenStageAttempted'
      BY <2>1 DEF LedgerInv, RecordsDerived, OpenStageAttempted, Derived, Remaining
    <3>3. OverrunEndsCampaign'
      BY <2>1 DEF LedgerInv, OverrunEndsCampaign
    <3>4. CompletedInBudget'
      BY <2>1 DEF LedgerInv, CompletedInBudget
    <3> QED BY <3>1, <3>2, <3>3, <3>4
  <2>3. \A i \in 1..Len(records) : records[i].finished \in Int
    <3>1. \A i \in 1..Len(records) : records[i] \in Record
      BY <1>0
    <3> QED BY <3>1 DEF Record, Instants
  <2>4. NonOverlapping'
    BY <2>1, <2>3, <1>0 DEF LedgerInv, NonOverlapping, Instants
  <2> QED BY <2>2, <2>4 DEF LedgerInv
<1>2. ASSUME NEW name \in Stages, NEW status \in STAGE_STATUSES \ {"running"},
             RecordSkipped(name, status)
      PROVE  LedgerInv'
  <2>0. PICK offset \in now..MaxTime : \E second \in offset..MaxTime :
           /\ now' \in second..MaxTime
           /\ records' = Append(records,
                Settled(name, status, offset, offset, Remaining(second), Remaining(now'), FALSE))
    BY <1>2 DEF RecordSkipped
  <2>1. PICK second \in offset..MaxTime :
           /\ now' \in second..MaxTime
           /\ records' = Append(records,
                Settled(name, status, offset, offset, Remaining(second), Remaining(now'), FALSE))
    BY <2>0
  <2>2. /\ offset \in Instants /\ second \in Instants /\ now' \in Instants
        /\ now <= offset /\ offset <= now'
    BY <2>1, <1>0 DEF Instants
  <2>3. Remaining(second) \in 0..Total /\ Remaining(now') \in 0..Total
    BY <2>2, RemainingType
  <2> DEFINE r == Settled(name, status, offset, offset, Remaining(second), Remaining(now'), FALSE)
  <2>4. /\ r \in Record /\ Derived(r) /\ r.status = status
        /\ r.started = offset /\ r.finished = offset /\ r.attempted = FALSE
    <3>1. offset <= offset
      BY <2>2 DEF Instants
    <3>2. r \in Record
      BY <2>2, <2>3, <3>1, SettledType
    <3>3. /\ r.status = status /\ r.started = offset /\ r.finished = offset
          /\ r.attempted = FALSE
      BY DEF Settled
    <3>4. Derived(r)
      BY <3>3 DEF Settled, Derived
    <3> QED BY <3>2, <3>3, <3>4
  <2>5. offset <= offset /\ ~active /\ active' \in BOOLEAN /\ ~active' /\ records' = Append(records, r)
    BY <2>1, <2>2, <1>0, <1>2 DEF RecordSkipped, Instants
  <2> HIDE DEF r
  <2> QED BY <2>2, <2>4, <2>5, AppendKeeps
<1>3. ASSUME NEW name \in Stages, OpenStage(name) PROVE LedgerInv'
  <2>1. /\ ~active /\ Remaining(now) > 0 /\ now' \in Instants /\ now <= now' /\ now' <= now'
        /\ active' \in BOOLEAN /\ active'
    BY <1>3, <1>0 DEF OpenStage, Instants
  <2> DEFINE r == Settled(name, "running", now', now', Remaining(now'), Remaining(now'), TRUE)
  <2>2. Remaining(now') \in 0..Total
    BY <2>1, RemainingType
  <2>3. /\ r \in Record /\ Derived(r) /\ r.status = "running"
        /\ r.started = now' /\ r.finished = now' /\ r.attempted = TRUE
    <3>1. now' <= now' /\ "running" \in STAGE_STATUSES
      BY <2>1 DEF Instants, STAGE_STATUSES
    <3>2. /\ r.status = "running" /\ r.started = now' /\ r.finished = now'
          /\ r.attempted = TRUE
      BY DEF Settled
    <3>3. Derived(r)
      BY Zenon DEF Settled, Derived
    <3>4. r \in Record
      BY <2>1, <2>2, <3>1, SettledType
    <3> QED BY <3>2, <3>3, <3>4
  <2>4. records' = Append(records, r)
    BY <1>3 DEF OpenStage
  <2> HIDE DEF r
  <2> QED BY <2>1, <2>3, <2>4, AppendKeeps
<1>4. ASSUME NEW status \in STAGE_STATUSES \ {"running"}, FinishHandle(status)
      PROVE  LedgerInv'
  <2> DEFINE n == Len(records)
             old == records[n]
             r == [old EXCEPT !.status = status]
  <2>1. /\ active /\ n \in 1..n /\ old \in Record /\ now' = now /\ active' = active
        /\ records' = [records EXCEPT ![n] = r]
    BY <1>4, <1>0 DEF FinishHandle, LastRecord
  <2>2. /\ Derived(old) /\ old.attempted /\ old.started <= old.finished
        /\ old.finished <= now
    BY <2>1 DEF LedgerInv, RecordsDerived, OpenStageAttempted, NonOverlapping
  <2>3. /\ r \in Record /\ r.started = old.started /\ r.finished = old.finished
        /\ r.attempted = old.attempted /\ Derived(r)
    BY <2>1, <2>2 DEF Record, Derived
  <2>4. LastReplacedBy(r)
    BY <2>1, <2>3, <1>0, ReplaceLast
  <2>5. now' \in Instants /\ now <= now'
    BY <2>1, <1>0 DEF Instants
  <2> HIDE DEF r
  <2> QED BY <2>1, <2>2, <2>3, <2>4, <2>5, ReplaceKeeps
<1>5. ASSUME NEW outcome \in ErrorStatuses \union {"completed"}, CloseStage(outcome)
      PROVE  LedgerInv'
  <2> DEFINE n == Len(records)
             old == records[n]
             status == IF old.status = "running" THEN outcome ELSE old.status
             final == IF status = "completed" /\ now' > Total THEN "campaign_deadline"
                                                               ELSE status
             r == Settled(old.name, final, old.started, now', old.before, Remaining(now'), TRUE)
  <2>1. /\ active /\ n \in 1..n /\ old \in Record /\ active' = FALSE
        /\ now' \in Instants /\ now <= now'
        /\ records' = [records EXCEPT ![n] = r]
    BY <1>5, <1>0 DEF CloseStage, LastRecord, Instants
  <2>2. /\ Derived(old) /\ old.attempted /\ old.started <= old.finished
        /\ old.finished <= now
    BY <2>1 DEF LedgerInv, RecordsDerived, OpenStageAttempted, NonOverlapping
  <2>3. /\ old.name \in Stages \union {"common_build_warmup_charge"}
        /\ old.started \in Instants /\ old.finished \in Instants /\ old.before \in 0..Total
        /\ old.status \in STAGE_STATUSES \union ErrorStatuses
    BY <2>1 DEF Record
  <2>4. old.started <= now'
    BY <2>1, <2>2, <2>3, <1>0 DEF Instants
  <2>5. /\ final \in STAGE_STATUSES \union ErrorStatuses /\ final # "running"
        /\ final = "completed" => ~(now' > Total)
    BY <2>3 DEF STAGE_STATUSES
  <2>6. Remaining(now') \in 0..Total /\ old.before = Remaining(old.started)
    BY <2>1, <2>2, RemainingType DEF Derived
  <2> HIDE DEF final
  <2>7. /\ r \in Record /\ Derived(r) /\ r.status = final
        /\ r.started = old.started /\ r.finished = now' /\ r.attempted = TRUE
    <3>1. r \in Record
      BY <2>1, <2>3, <2>4, <2>5, <2>6, SettledType
    <3>2. /\ r.status = final /\ r.started = old.started /\ r.finished = now'
          /\ r.attempted = TRUE
      BY DEF Settled
    <3>3. Derived(r)
      BY <2>6 DEF Settled, Derived
    <3> QED BY <3>1, <3>2, <3>3
  <2> HIDE DEF r
  <2>8. LastReplacedBy(r)
    BY <2>1, <2>7, <1>0, ReplaceLast
  <2>9. r.status = "completed" => r.finished <= Total
    BY <2>1, <2>5, <2>7 DEF Instants
  <2>10. r.finished <= now' /\ r.started <= r.finished
    BY <2>1, <2>4, <2>7 DEF Instants
  <2> QED BY <2>1, <2>2, <2>5, <2>7, <2>8, <2>9, <2>10, ReplaceKeeps
<1>6. CASE UNCHANGED ledgerVars
  BY <1>6 DEF ledgerVars, LedgerInv, LedgerTypeOK, NonOverlapping, RecordsDerived, Derived,
              OpenStageAttempted, OverrunEndsCampaign, CompletedInBudget, Remaining
<1>7. \A name \in Stages : RefuseStage(name) => LedgerInv'
  BY <1>2 DEF RefuseStage, STAGE_STATUSES
<1> QED
  BY <1>1, <1>2, <1>3, <1>4, <1>5, <1>6, <1>7 DEF LedgerNext

----------------------------------------------------------------------------
(* What the calls of a ledger do to its records                             *)

Count == Len(records)
OpenStatus == LastRecord.status

Earlier(n) == \A i \in 1..n : records'[i] = records[i]

Opens(name) ==
  /\ ~active /\ active' /\ Len(records') = Count + 1 /\ Earlier(Count)
  /\ LET r == records'[Count + 1]
     IN  r.name = name /\ r.status = "running" /\ r.attempted

Skips(name, status) ==
  /\ ~active /\ ~active' /\ Len(records') = Count + 1 /\ Earlier(Count)
  /\ LET r == records'[Count + 1]
     IN  r.name = name /\ r.status = status /\ ~r.attempted

Settles(status) ==
  /\ active /\ active' /\ Len(records') = Count /\ Earlier(Count - 1)
  /\ OpenStatus = "running"
  /\ LET r == records'[Count]
     IN  r.name = LastRecord.name /\ r.status = status /\ r.attempted = LastRecord.attempted

Closes(outcome) ==
  /\ active /\ ~active' /\ Len(records') = Count /\ Earlier(Count - 1)
  /\ LET r == records'[Count]
         status == IF OpenStatus = "running" THEN outcome ELSE OpenStatus
     IN  /\ r.name = LastRecord.name /\ r.attempted
         /\ r.status = status \/ (status = "completed" /\ r.status = "campaign_deadline" /\ r.late)

\* stage() appends a record of the stage.
LEMMA OpenEffect ==
  ASSUME LedgerInv, NEW name, OpenStage(name)
  PROVE  Opens(name)
<1> DEFINE r == Settled(name, "running", now', now', Remaining(now'), Remaining(now'), TRUE)
<1>1. records' = Append(records, r) /\ ~active /\ active' /\ records \in Seq(Record)
  BY DEF OpenStage, LedgerInv, LedgerTypeOK
<1>2. r.name = name /\ r.status = "running" /\ r.attempted
  BY DEF Settled
<1> HIDE DEF r
<1> QED BY <1>1, <1>2 DEF Opens, Earlier, Count

\* record_skipped appends a record of a stage that was not attempted.
LEMMA SkipEffect ==
  ASSUME LedgerInv, NEW name, NEW status, RecordSkipped(name, status)
  PROVE  Skips(name, status)
<1>1. PICK offset \in now..MaxTime : \E second \in offset..MaxTime :
        records' = Append(records,
          Settled(name, status, offset, offset, Remaining(second), Remaining(now'), FALSE))
  BY DEF RecordSkipped
<1>2. PICK second \in offset..MaxTime :
        records' = Append(records,
          Settled(name, status, offset, offset, Remaining(second), Remaining(now'), FALSE))
  BY <1>1
<1> DEFINE r == Settled(name, status, offset, offset, Remaining(second), Remaining(now'), FALSE)
<1>3. r.name = name /\ r.status = status /\ ~r.attempted
  BY DEF Settled
<1>4. records' = Append(records, r) /\ ~active /\ ~active' /\ records \in Seq(Record)
  BY <1>2 DEF RecordSkipped, LedgerInv, LedgerTypeOK
<1> HIDE DEF r
<1> QED BY <1>3, <1>4 DEF Skips, Earlier, Count

\* finish() changes the status of the open record.
LEMMA SettleEffect ==
  ASSUME LedgerInv, NEW status, FinishHandle(status)
  PROVE  Settles(status)
<1>1. /\ records \in Seq(Record) /\ Len(records) > 0 /\ active /\ active'
      /\ records' = [records EXCEPT ![Len(records)] = [LastRecord EXCEPT !.status = status]]
      /\ LastRecord.status = "running"
  BY DEF FinishHandle, LedgerInv, LedgerTypeOK, LastRecord
<1>2. LastRecord \in Record
  BY <1>1 DEF LastRecord
<1> DEFINE r == [LastRecord EXCEPT !.status = status]
<1>3. r.name = LastRecord.name /\ r.status = status /\ r.attempted = LastRecord.attempted
  BY <1>2 DEF Record
<1> HIDE DEF r
<1> QED BY <1>1, <1>3 DEF Settles, Earlier, Count, OpenStatus

\* Leaving a stage settles the open record.
LEMMA CloseEffect ==
  ASSUME LedgerInv, NEW outcome, CloseStage(outcome)
  PROVE  Closes(outcome)
<1> DEFINE status == IF OpenStatus = "running" THEN outcome ELSE OpenStatus
           final == IF status = "completed" /\ now' > Total THEN "campaign_deadline" ELSE status
           r == Settled(LastRecord.name, final, LastRecord.started, now', LastRecord.before,
                        Remaining(now'), TRUE)
<1>1. /\ records \in Seq(Record) /\ Len(records) > 0 /\ active /\ ~active'
      /\ records' = [records EXCEPT ![Len(records)] = r]
  BY DEF CloseStage, LedgerInv, LedgerTypeOK, LastRecord, OpenStatus
<1>2. r.name = LastRecord.name /\ r.attempted
  BY DEF Settled
<1>3. r.status = final /\ r.late = (now' > Total)
  BY DEF Settled
<1>4. r.status = status \/ (status = "completed" /\ r.status = "campaign_deadline" /\ r.late)
  BY <1>3
<1> HIDE DEF r
<1> QED BY <1>1, <1>2, <1>4 DEF Closes, Earlier, Count

----------------------------------------------------------------------------
(* The time attributed to stages                                            *)

\* What SumElapsed adds up along the records.
Adds(f) ==
  /\ f \in [0..Len(records) -> Int] /\ f[0] = 0
  /\ \A n \in 1..Len(records) : f[n] = f[n - 1] + records[n].elapsed

\* The definition of SumElapsed is met: it is the last of such sums.
LEMMA SumSteps ==
  ASSUME records \in Seq(Record)
  PROVE  \E f : Adds(f) /\ SumElapsed = f[Len(records)]
<1> DEFINE L == Len(records)
           Step(n, v) == v + records[n].elapsed
           F == [n \in 1..L |-> [v \in Int |-> Step(n, v)]]
           Meets(f) == f = [n \in 0..L |-> IF n = 0 THEN 0 ELSE f[n - 1] + records[n].elapsed]
<1>1. L \in Nat /\ \A n \in 1..L : records[n] \in Record
  OBVIOUS
<1>2. \A n \in 1..L : records[n].elapsed \in Nat
  BY <1>1 DEF Record
<1>3. F \in [1..L -> [Int -> Int]]
  BY <1>2
<1> HIDE DEF F
<1>4. PICK f \in [0..L -> Int] : f[0] = 0 /\ \A n \in 1..L : f[n] = F[n][f[n - 1]]
  <2> DEFINE V == Int
             base == 0
             N == L
  <2>1. N \in Nat /\ F \in [1..N -> [V -> V]] /\ base \in V
    BY <1>1, <1>3
  <2> HIDE DEF V, base, N
  <2>2. \E f \in [0..N -> V] : f[0] = base /\ \A n \in 1..N : f[n] = F[n][f[n - 1]]
    BY <2>1, Recursion
  <2> QED BY <2>2 DEF V, base, N
<1>5. ASSUME NEW n \in 1..L PROVE f[n] = Step(n, f[n - 1])
  <2>1. f[n - 1] \in Int
    BY <1>1
  <2> QED BY <1>4, <2>1 DEF F
<1>6. Meets(f)
  <2> DEFINE h == [n \in 0..L |-> IF n = 0 THEN 0 ELSE f[n - 1] + records[n].elapsed]
  <2>1. ASSUME NEW n \in 0..L PROVE f[n] = h[n]
    <3>1. n = 0 \/ n \in 1..L
      BY <1>1
    <3> QED BY <3>1, <1>4, <1>5
  <2>2. f = [n \in 0..L |-> f[n]] /\ h = [n \in 0..L |-> h[n]]
    OBVIOUS
  <2> HIDE DEF h
  <2>3. f = h
    BY <2>1, <2>2
  <2> QED BY <2>3 DEF h
<1> DEFINE g == CHOOSE g : Meets(g)
<1>7. Meets(g)
  BY <1>6
<1>8. SumElapsed = g[L]
  BY DEF SumElapsed
<1>9. /\ g = [n \in 0..L |-> g[n]]
      /\ \A n \in 0..L : g[n] = IF n = 0 THEN 0 ELSE g[n - 1] + records[n].elapsed
  <2> DEFINE h == [n \in 0..L |-> IF n = 0 THEN 0 ELSE g[n - 1] + records[n].elapsed]
  <2>1. g = h
    BY <1>7
  <2>2. /\ h = [n \in 0..L |-> h[n]]
        /\ \A n \in 0..L : h[n] = IF n = 0 THEN 0 ELSE g[n - 1] + records[n].elapsed
    OBVIOUS
  <2> HIDE DEF h, g
  <2> QED BY <2>1, <2>2
<1> HIDE DEF g
<1> DEFINE whole == {n \in Nat : n <= L => g[n] \in Int}
<1>10. 0 \in whole
  BY <1>1, <1>9
<1>11. ASSUME NEW n \in Nat, n \in whole PROVE n + 1 \in whole
  <2>1. SUFFICES ASSUME n + 1 <= L PROVE g[n + 1] \in Int
    OBVIOUS
  <2>2. n + 1 \in 1..L /\ n + 1 \in 0..L /\ g[n] \in Int /\ (n + 1) - 1 = n /\ n + 1 # 0
    BY <1>1, <1>11, <2>1
  <2>3. g[n + 1] = g[n] + records[n + 1].elapsed
    BY <1>9, <2>2
  <2> QED BY <1>2, <2>2, <2>3
<1> HIDE DEF whole
<1>12. Nat \subseteq whole
  BY <1>10, <1>11, Induction
<1>13. \A n \in 0..L : g[n] \in Int
  BY <1>1, <1>12 DEF whole
<1>14. g \in [0..L -> Int] /\ g[0] = 0
  <2>1. g \in [0..L -> Int]
    BY <1>9, <1>13
  <2>2. 0 \in 0..L
    BY <1>1
  <2> QED BY <1>9, <2>1, <2>2
<1>15. \A n \in 1..L : g[n] = g[n - 1] + records[n].elapsed
  <2>1. \A n \in 1..L : n \in 0..L /\ n # 0
    BY <1>1
  <2> QED BY <1>9, <2>1
<1> QED BY <1>8, <1>14, <1>15 DEF Adds

\* The records of a ledger are disjoint and in order, so what is attributed to the
\* first of them ends no later than they do.
LEMMA SumWithinClock ==
  ASSUME LedgerInv
  PROVE  NothingChargedTwice
<1> DEFINE L == Len(records)
<1>1. /\ records \in Seq(Record) /\ L \in Nat /\ now \in Nat
      /\ \A n \in 1..L : records[n] \in Record
  BY LedgerAssumption DEF LedgerInv, LedgerTypeOK, Instants
<1>2. PICK f : Adds(f) /\ SumElapsed = f[L]
  BY <1>1, SumSteps
<1>3. \A n \in 1..L : /\ records[n].started \in Nat /\ records[n].finished \in Nat
                      /\ records[n].elapsed = records[n].finished - records[n].started
                      /\ records[n].finished <= now
  BY <1>1 DEF Record, Instants, LedgerInv, RecordsDerived, Derived, NonOverlapping
<1> DEFINE bounded == {n \in Nat : n <= L => f[n] <= IF n = 0 THEN 0 ELSE records[n].finished}
<1>4. 0 \in bounded
  BY <1>2 DEF Adds
<1>5. ASSUME NEW n \in Nat, n \in bounded PROVE n + 1 \in bounded
  <2>1. SUFFICES ASSUME n + 1 <= L PROVE f[n + 1] <= records[n + 1].finished
    OBVIOUS
  <2>2. n + 1 \in 1..L /\ (n + 1) - 1 = n /\ n \in 0..L /\ f[n] \in Int
    BY <1>1, <1>2, <2>1 DEF Adds
  <2>3. f[n + 1] = f[n] + (records[n + 1].finished - records[n + 1].started)
    BY <1>2, <1>3, <2>2 DEF Adds
  <2>4. f[n] <= records[n + 1].started
    <3>1. CASE n = 0
      BY <1>2, <1>3, <2>2, <3>1 DEF Adds
    <3>2. CASE n # 0
      <4>1. n \in 1..L /\ n < n + 1
        BY <2>2, <3>2
      <4>2. records[n].finished <= records[n + 1].started
        BY <2>2, <4>1 DEF LedgerInv, NonOverlapping
      <4>3. f[n] <= records[n].finished
        BY <1>5, <4>1
      <4> QED BY <1>3, <2>2, <4>1, <4>2, <4>3
    <3> QED BY <3>1, <3>2
  <2> QED BY <1>3, <2>2, <2>3, <2>4
<1> HIDE DEF bounded
<1>6. L \in bounded
  BY <1>1, <1>4, <1>5, Induction
<1>7. f[L] <= now
  <2>1. f[L] \in Int
    BY <1>1, <1>2 DEF Adds
  <2>2. CASE L = 0
    BY <1>1, <1>2, <2>2 DEF Adds
  <2>3. CASE L # 0
    BY <1>1, <1>3, <1>6, <2>1, <2>3 DEF bounded
  <2> QED BY <2>2, <2>3
<1> QED BY <1>2, <1>7 DEF NothingChargedTwice

----------------------------------------------------------------------------
\* Every ledger keeps its invariant.
THEOREM LedgerInvariant == LedgerSpec => []LedgerInv
<1>1. LedgerInv /\ [LedgerNext]_ledgerVars => LedgerInv'
  BY LedgerStepInv
<1> QED
  BY LedgerInitInv, <1>1, PTL DEF LedgerSpec

\* The ledger's records and clock stay well typed under any caller.
THEOREM LedgerTypeCorrect == LedgerSpec => []LedgerTypeOK
<1>1. LedgerInv => LedgerTypeOK
  BY DEF LedgerInv
<1> QED BY LedgerInvariant, <1>1, PTL

\* Wall-clock accounting never overlaps: for every budget, every precharge and
\* every caller, the records of BudgetLedger follow one another in time.
THEOREM LedgerNeverOverlaps == LedgerSpec => []NonOverlapping
<1>1. LedgerInv => NonOverlapping
  BY DEF LedgerInv
<1> QED BY LedgerInvariant, <1>1, PTL

\* The time attributed to stages never exceeds the wall time: the min() in
\* summary() hides no second charged twice, however many stages there were.
THEOREM NoSecondTwice == LedgerSpec => []NothingChargedTwice
<1>1. LedgerInv => NothingChargedTwice
  BY SumWithinClock
<1> QED BY LedgerInvariant, <1>1, PTL

\* Nothing runs after a stage that overran the deadline: stage() refuses it.
THEOREM NothingRunsAfterOverrun == LedgerSpec => []OverrunEndsCampaign
<1>1. LedgerInv => OverrunEndsCampaign
  BY DEF LedgerInv
<1> QED BY LedgerInvariant, <1>1, PTL

\* A stage recorded as completed finished in budget and was charged exactly the
\* time it took.
THEOREM CompletedStagesFit == LedgerSpec => []CompletedInBudget
<1>1. LedgerInv => CompletedInBudget
  BY DEF LedgerInv
<1> QED BY LedgerInvariant, <1>1, PTL
=============================================================================
