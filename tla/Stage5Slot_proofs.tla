-------------------------- MODULE Stage5Slot_proofs --------------------------
(***************************************************************************)
(* A Stage 5 slot uses its ledger as BudgetLedger allows and its scheduler  *)
(* as QueryScheduler allows, whatever its tools answer: what is proved of   *)
(* both of them holds in every slot.                                        *)
(*                                                                         *)
(* First comes the scheduler itself.  It takes reports it knows only, so a  *)
(* result has to be known when it is reported: ResultKnown.  Then what the  *)
(* records of a slot say: StoryInv ties the place in the protocol, the      *)
(* executed queries, the imported candidate and the ledger together, and    *)
(* InStep the decisions, the executed queries and the reports.              *)
(***************************************************************************)
EXTENDS Stage5Slot, BudgetLedger_proofs

----------------------------------------------------------------------------
(* The scheduler of a slot, for any queues, any reserve and any caller.  The *)
(* invariant adds to its properties what it remembers of its past in two     *)
(* flags: confirmed is set whenever a confirmation was heard, and promoted   *)
(* only when two-call queries had been earned.                               *)

\* No decision knew of a report that was still to come.
HeardEarlier == \A i \in 1..Len(decisions) : decisions[i].heard <= Len(feedback)

ConfirmationKnown ==
  \A n \in 1..Len(feedback) : feedback[n].status = "confirmed" => confirmed

\* The flag stands for a promotion that was earned, and no two-call query was given
\* to the adaptive arm without it.
PromotionEarned ==
  /\ promoted => \E reports \in 0..Len(feedback) : EarnedBy(reports, Len(decisions))
  /\ \A i \in 1..Len(decisions) :
       mode = "symbolic_adaptive" /\ decisions[i].query \in TwoCalls => promoted

SchedulerInv ==
  /\ SchedulerTypeOK /\ AskedOnce /\ QuietAfterConfirmation /\ TwoCallsEarned /\ NeverBack
  /\ HeardEarlier /\ ConfirmationKnown /\ PromotionEarned

\* The two queues of an arm hold queries of their own kind.
LEMMA QueueKinds ==
  ASSUME SchedulerTypeOK
  PROVE  /\ InQueue(one) \subseteq OneCalls /\ InQueue(two) \subseteq TwoCalls
         /\ OneCalls \subseteq Queries /\ TwoCalls \subseteq Queries
BY DEF SchedulerTypeOK, OneCalls, TwoCalls, Queries

\* A scheduler that was asked nothing satisfies the invariant.
LEMMA SchedulerInitInv == SchedulerInit => SchedulerInv
<1> SUFFICES ASSUME SchedulerInit PROVE SchedulerInv
  OBVIOUS
<1>1. SchedulerTypeOK
  <2>1. /\ feedback \in Seq([query : Queries, status : FeedbackStatuses])
        /\ decisions \in Seq([query : Queries \union {NoQuery}, heard : Nat, reason : Reasons])
    BY DEF SchedulerInit
  <2> QED BY <2>1 DEF SchedulerInit, SchedulerTypeOK
<1>2. Len(decisions) = 0 /\ Len(feedback) = 0 /\ attempted = {} /\ ~promoted /\ 1..0 = {}
  BY DEF SchedulerInit
<1>3. AskedOnce /\ QuietAfterConfirmation /\ TwoCallsEarned /\ NeverBack
  BY <1>2 DEF AskedOnce, QuietAfterConfirmation, TwoCallsEarned, NeverBack
<1>4. HeardEarlier /\ ConfirmationKnown /\ PromotionEarned
  BY <1>2 DEF HeardEarlier, ConfirmationKnown, PromotionEarned
<1> QED BY <1>1, <1>3, <1>4 DEF SchedulerInv

\* What a decision knew is a number of reports, and never more than there are.
LEMMA HeardBounds ==
  ASSUME SchedulerTypeOK, HeardEarlier, NEW i \in 1..Len(decisions)
  PROVE  decisions[i].heard \in Nat /\ decisions[i].heard <= Len(feedback)
<1> DEFINE entry == [query : Queries \union {NoQuery}, heard : Nat, reason : Reasons]
<1>1. decisions \in Seq(entry)
  BY DEF SchedulerTypeOK
<1> HIDE DEF entry
<1>2. decisions[i] \in entry
  BY <1>1
<1> QED BY <1>2 DEF entry, HeardEarlier

\* What earned two-call queries still does when reports and decisions are added.
LEMMA EarnedStays ==
  ASSUME SchedulerTypeOK, one' = one,
         NEW reports \in 0..Len(feedback), NEW decided \in 0..Len(decisions),
         NEW later \in Nat, decided <= later, EarnedBy(reports, decided),
         \A n \in 1..Len(feedback) : feedback'[n] = feedback[n],
         \A i \in 1..Len(decisions) : decisions'[i] = decisions[i]
  PROVE  EarnedBy(reports, later)'
<1> DEFINE known == {n \in 1..reports : feedback[n].query \in OneCalls}
<1>0. 1..reports \subseteq 1..Len(feedback) /\ 1..decided \subseteq 1..Len(decisions)
  BY DEF SchedulerTypeOK
<1>1. known' = known /\ \A n \in known : feedback'[n] = feedback[n]
  BY <1>0
<1>2. \A j \in 1..decided : j \in 1..later /\ decisions'[j] = decisions[j]
  BY <1>0 DEF SchedulerTypeOK
<1>3. InQueue(one)' = InQueue(one)
  BY DEF InQueue
<1> QED BY <1>1, <1>2, <1>3 DEF EarnedBy

\* A decision keeps the invariant if it gives a fresh query and no longer after a
\* confirmation, and a two-call query to the adaptive arm only when promoted.
LEMMA DecisionKeepsInv ==
  ASSUME SchedulerInv, NEW q \in Queries \union {NoQuery}, NEW reason \in Reasons,
         Decide(q, reason), attempted' = attempted \union ({q} \ {NoQuery}),
         q # NoQuery => q \notin attempted /\ ~confirmed,
         promoted' \in BOOLEAN, promoted => promoted',
         promoted' => mode = "symbolic_adaptive"
                      /\ \E reports \in 0..Len(feedback) : EarnedBy(reports, Len(decisions)),
         mode = "symbolic_adaptive" /\ q \in TwoCalls => promoted',
         promoted => q \notin OneCalls
  PROVE  SchedulerInv'
<1> USE DEF SchedulerInv
<1> DEFINE n == Len(decisions)
<1>1. /\ n \in Nat /\ Len(decisions') = n + 1 /\ feedback' = feedback
      /\ mode' = mode /\ one' = one /\ two' = two /\ confirmed' = confirmed
      /\ decisions'[n + 1] = [query |-> q, heard |-> Len(feedback), reason |-> reason]
      /\ \A i \in 1..n : decisions'[i] = decisions[i]
      /\ Len(feedback) \in Nat
  BY DEF Decide, queues, SchedulerTypeOK
<1>2. SchedulerTypeOK'
  BY DEF Decide, queues, SchedulerTypeOK
<1>3. \A i \in 1..(n + 1) : i \in 1..n \/ i = n + 1
  BY <1>1
<1>4. AskedOnce'
  BY <1>1, <1>3 DEF AskedOnce
<1>5. \A i \in 1..n : decisions[i].heard \in Nat /\ decisions[i].heard <= Len(feedback)
  BY HeardBounds
<1>6. HeardEarlier' /\ ConfirmationKnown'
  BY <1>1, <1>3, <1>5 DEF HeardEarlier, ConfirmationKnown
<1>7. QuietAfterConfirmation'
  <2> SUFFICES ASSUME NEW i \in 1..(n + 1), NEW k \in 1..Len(feedback),
                      k <= decisions'[i].heard, feedback[k].status = "confirmed"
               PROVE  decisions'[i].query = NoQuery
    BY <1>1 DEF QuietAfterConfirmation
  <2>1. CASE i \in 1..n
    BY <1>1, <2>1 DEF QuietAfterConfirmation
  <2>2. CASE i = n + 1
    <3>1. confirmed
      BY DEF ConfirmationKnown
    <3> QED BY <1>1, <2>2, <3>1
  <2> QED BY <1>3, <2>1, <2>2
<1>8. NeverBack'
  BY <1>1, <1>3 DEF NeverBack, PromotionEarned
<1>9. ASSUME NEW reports \in 0..Len(feedback), NEW decided \in 0..n, EarnedBy(reports, decided),
             NEW later \in Nat, decided <= later
      PROVE  EarnedBy(reports, later)'
  BY <1>1, <1>9, EarnedStays
<1>10. PromotionEarned'
  <2>1. ASSUME promoted'
        PROVE  \E reports \in 0..Len(feedback)' : EarnedBy(reports, Len(decisions))'
    BY <1>1, <1>9, <2>1
  <2> QED BY <1>1, <1>3, <2>1 DEF PromotionEarned
<1>11. TwoCallsEarned'
  <2> SUFFICES ASSUME NEW i \in 1..(n + 1), mode = "symbolic_adaptive",
                      decisions'[i].query \in TwoCalls
               PROVE  \E reports \in 0..decisions'[i].heard : EarnedBy(reports, i - 1)'
    BY <1>1 DEF TwoCallsEarned
  <2>1. CASE i \in 1..n
    <3>1. PICK reports \in 0..decisions[i].heard : EarnedBy(reports, i - 1)
      BY <1>1, <2>1 DEF TwoCallsEarned
    <3>2. reports \in 0..Len(feedback) /\ i - 1 \in 0..n
      BY <1>1, <1>5, <2>1, <3>1
    <3> QED BY <1>1, <1>9, <2>1, <3>1, <3>2
  <2>2. CASE i = n + 1
    <3>1. PICK reports \in 0..Len(feedback) : EarnedBy(reports, n)
      BY <1>1, <2>2
    <3> QED BY <1>1, <1>9, <2>2, <3>1
  <2> QED BY <1>3, <2>1, <2>2
<1> QED BY <1>2, <1>4, <1>7, <1>8, <1>10, <1>11, <1>6

\* A report keeps the invariant.
LEMMA ReportKeepsInv ==
  ASSUME SchedulerInv, NEW q \in Queries, NEW status \in FeedbackStatuses,
         RecordFeedback(q, status)
  PROVE  SchedulerInv'
<1> USE DEF SchedulerInv
<1> DEFINE n == Len(feedback)
           entry == [query |-> q, status |-> status]
<1>1. /\ n \in Nat /\ Len(feedback') = n + 1 /\ feedback'[n + 1] = entry
      /\ \A i \in 1..n : feedback'[i] = feedback[i]
      /\ decisions' = decisions /\ attempted' = attempted /\ Len(decisions) \in Nat
      /\ mode' = mode /\ one' = one /\ two' = two
      /\ confirmed' = (confirmed \/ status = "confirmed")
      /\ promoted' = (promoted \/ (mode = "symbolic_adaptive" /\ q \in OneCalls
                                    /\ status \in NO_PROGRESS))
  BY DEF RecordFeedback, queues, SchedulerTypeOK
<1>2. SchedulerTypeOK'
  <2>1. entry \in [query : Queries, status : FeedbackStatuses]
    OBVIOUS
  <2>2. feedback' \in Seq([query : Queries, status : FeedbackStatuses])
    BY <2>1 DEF RecordFeedback, SchedulerTypeOK
  <2> QED BY <1>1, <2>2 DEF SchedulerTypeOK
<1>3. \A i \in 1..(n + 1) : i \in 1..n \/ i = n + 1
  BY <1>1
<1>4. AskedOnce' /\ NeverBack'
  BY <1>1 DEF AskedOnce, NeverBack
<1>5. \A i \in 1..Len(decisions) : decisions[i].heard \in Nat /\ decisions[i].heard <= n
  BY HeardBounds
<1>6. QuietAfterConfirmation'
  <2> SUFFICES ASSUME NEW i \in 1..Len(decisions), NEW k \in 1..(n + 1),
                      k <= decisions[i].heard, feedback'[k].status = "confirmed"
               PROVE  decisions[i].query = NoQuery
    BY <1>1 DEF QuietAfterConfirmation
  <2>1. k \in 1..n
    BY <1>1, <1>5
  <2> QED BY <1>1, <2>1 DEF QuietAfterConfirmation
<1>7a. HeardEarlier'
  BY <1>1, <1>5 DEF HeardEarlier
<1>7. ConfirmationKnown'
  <2> SUFFICES ASSUME NEW i \in 1..(n + 1), feedback'[i].status = "confirmed"
               PROVE  confirmed'
    BY <1>1 DEF ConfirmationKnown
  <2>1. CASE i \in 1..n
    BY <1>1, <2>1 DEF ConfirmationKnown
  <2>2. CASE i = n + 1
    <3>1. status = "confirmed"
      BY <1>1, <2>2
    <3> QED BY <1>1, <3>1, Zenon
  <2> QED BY <1>3, <2>1, <2>2
<1>8. ASSUME NEW reports \in 0..n, NEW decided \in 0..Len(decisions), EarnedBy(reports, decided)
      PROVE  EarnedBy(reports, decided)'
  BY <1>1, <1>8, EarnedStays
<1>9. TwoCallsEarned'
  BY <1>1, <1>5, <1>8 DEF TwoCallsEarned
<1>10. PromotionEarned'
  <2>1. CASE promoted
    <3>1. PICK reports \in 0..n : EarnedBy(reports, Len(decisions))
      BY <2>1 DEF PromotionEarned
    <3>2. EarnedBy(reports, Len(decisions))'
      BY <1>1, <1>8, <3>1
    <3>3. reports \in 0..(n + 1)
      BY <1>1
    <3> QED BY <1>1, <2>1, <3>2, <3>3 DEF PromotionEarned
  <2>2. CASE ~promoted /\ promoted'
    <3>1. q \in OneCalls /\ status \in NO_PROGRESS
      BY <1>1, <2>2
    <3>2. PICK last \in 0..(n + 1) : last = n + 1
      BY <1>1
    <3>3. EarnedBy(last, Len(decisions))'
      <4>1. last \in {k \in 1..last : feedback'[k].query \in OneCalls}
        BY <1>1, <3>1, <3>2
      <4>2. feedback'[last].status \in NO_PROGRESS
        BY <1>1, <3>1, <3>2
      <4> QED BY <4>1, <4>2 DEF EarnedBy
    <3> QED BY <1>1, <2>2, <3>2, <3>3 DEF PromotionEarned
  <2>3. CASE ~promoted'
    BY <1>1, <2>3 DEF PromotionEarned
  <2> QED BY <2>1, <2>2, <2>3
<1> QED BY <1>2, <1>4, <1>6, <1>7, <1>7a, <1>9, <1>10

\* A query that is given is a fresh one of its queue.
LEMMA NextIsFresh ==
  ASSUME NEW queue, NEW q, IsNext(q, queue)
  PROVE  q \in InQueue(queue) /\ q \notin attempted
BY DEF IsNext, InQueue

\* Every step of the scheduler keeps the invariant.
LEMMA SchedulerStepInv == SchedulerInv /\ [SchedulerNext]_schedulerVars => SchedulerInv'
<1> SUFFICES ASSUME SchedulerInv, [SchedulerNext]_schedulerVars PROVE SchedulerInv'
  OBVIOUS
<1> USE DEF SchedulerInv
<1>0. /\ InQueue(one) \subseteq OneCalls /\ InQueue(two) \subseteq TwoCalls
      /\ OneCalls \subseteq Queries /\ TwoCalls \subseteq Queries
      /\ OneCalls \intersect TwoCalls = {} /\ NoQuery \notin Queries
  BY QueueKinds, SchedulerAssumption
<1>1. ASSUME NEW reason \in Reasons, Decline(reason), promoted' = promoted
      PROVE  SchedulerInv'
  <2>1. Decide(NoQuery, reason) /\ attempted' = attempted
    BY <1>1 DEF Decline
  <2>2. attempted' = attempted \union ({NoQuery} \ {NoQuery})
    BY <2>1
  <2>3. /\ promoted' \in BOOLEAN
        /\ promoted' => mode = "symbolic_adaptive"
                        /\ \E reports \in 0..Len(feedback) : EarnedBy(reports, Len(decisions))
    BY <1>1 DEF SchedulerTypeOK, PromotionEarned
  <2> QED BY <1>0, <1>1, <2>1, <2>2, <2>3, DecisionKeepsInv
<1>2. ASSUME NEW remaining, Select(remaining) PROVE SchedulerInv'
  <2>1. PICK q \in InQueue(Pool) : IsNext(q, Pool) /\ Give(q)
    BY <1>2 DEF Select
  <2>2. /\ q \in Queries /\ q # NoQuery /\ q \notin attempted /\ ~confirmed
        /\ Decide(q, "selected") /\ promoted' = promoted
        /\ attempted' = attempted \union ({q} \ {NoQuery})
    BY <1>0, <1>2, <2>1, NextIsFresh DEF Select, Give, Pool
  <2>3. /\ mode = "symbolic_adaptive" /\ q \in TwoCalls => promoted
        /\ promoted => q \notin OneCalls
    BY <1>0, <2>1 DEF Pool, SchedulerTypeOK
  <2>4. /\ promoted' \in BOOLEAN
        /\ promoted' => mode = "symbolic_adaptive"
                        /\ \E reports \in 0..Len(feedback) : EarnedBy(reports, Len(decisions))
    BY <2>2 DEF SchedulerTypeOK, PromotionEarned
  <2> QED BY <2>2, <2>3, <2>4, DecisionKeepsInv DEF Reasons
<1>3. ASSUME NEW remaining, PromoteOnExhaustion(remaining) PROVE SchedulerInv'
  <2>1. /\ mode = "symbolic_adaptive" /\ ~promoted /\ promoted' = TRUE /\ ~confirmed
        /\ InQueue(one) \subseteq attempted /\ OneCallReports # {}
        /\ OneCallReports \subseteq NO_PROGRESS \union {"candidate_rejected"}
    BY <1>3 DEF PromoteOnExhaustion, OneCallsSpent, Spent
  <2>2. \A q \in InQueue(one) : \E j \in 1..Len(decisions) : decisions[j].query = q
    BY <2>1 DEF AskedOnce
  <2>3. EarnedBy(Len(feedback), Len(decisions))
    <3> DEFINE known == {n \in 1..Len(feedback) : feedback[n].query \in OneCalls}
    <3>1. known # {} /\ \A n \in known : feedback[n].status \in NO_PROGRESS \union {"candidate_rejected"}
      BY <2>1 DEF OneCallReports
    <3> QED BY <2>2, <3>1 DEF EarnedBy
  <2>4. \E reports \in 0..Len(feedback) : EarnedBy(reports, Len(decisions))
    BY <2>3 DEF SchedulerTypeOK
  <2>5. CASE Decline("query_space_exhausted")
    <3>1. Decide(NoQuery, "query_space_exhausted")
          /\ attempted' = attempted \union ({NoQuery} \ {NoQuery})
      BY <2>5 DEF Decline
    <3> QED BY <1>0, <2>1, <2>4, <3>1, DecisionKeepsInv DEF Reasons
  <2>6. ASSUME NEW q \in InQueue(two), IsNext(q, two), Give(q) PROVE SchedulerInv'
    <3>1. /\ q \in Queries /\ q # NoQuery /\ q \notin attempted
          /\ q \notin OneCalls /\ Decide(q, "selected")
          /\ attempted' = attempted \union ({q} \ {NoQuery})
      BY <1>0, <2>6, NextIsFresh DEF Give
    <3> QED BY <2>1, <2>4, <3>1, DecisionKeepsInv DEF Reasons
  <2> QED BY <1>3, <2>5, <2>6 DEF PromoteOnExhaustion
<1>4. ASSUME NEW remaining, NextQuery(remaining) PROVE SchedulerInv'
  BY <1>1, <1>2, <1>3, <1>4 DEF NextQuery, DeclineConfirmed, DeclineNoTime,
     DeclineWithoutProgress, DeclineExhausted, Reasons
<1>5. ASSUME NEW q \in attempted, NEW status \in Reports, RecordFeedback(q, status)
      PROVE  SchedulerInv'
  <2>1. q \in Queries /\ status \in FeedbackStatuses
    BY SchedulerAssumption DEF SchedulerTypeOK
  <2> QED BY <1>5, <2>1, ReportKeepsInv
<1>6. CASE UNCHANGED schedulerVars
  <2>1. /\ UNCHANGED queues /\ attempted' = attempted /\ feedback' = feedback
        /\ promoted' = promoted /\ confirmed' = confirmed /\ decisions' = decisions
    BY <1>6 DEF schedulerVars, queues
  <2>2. SchedulerTypeOK' /\ AskedOnce' /\ QuietAfterConfirmation' /\ NeverBack'
    BY <2>1 DEF queues, SchedulerTypeOK, AskedOnce, QuietAfterConfirmation, NeverBack
  <2>3. HeardEarlier' /\ ConfirmationKnown'
    BY <2>1 DEF HeardEarlier, ConfirmationKnown
  <2>4. ASSUME NEW reports, NEW decided, EarnedBy(reports, decided)
        PROVE  EarnedBy(reports, decided)'
    BY <2>1, <2>4 DEF queues, EarnedBy, InQueue
  <2>5. TwoCallsEarned'
    BY <2>1, <2>4 DEF queues, TwoCallsEarned
  <2>6. PromotionEarned'
    BY <2>1, <2>4 DEF queues, PromotionEarned
  <2> QED BY <2>2, <2>3, <2>5, <2>6
<1> QED BY <1>4, <1>5, <1>6 DEF SchedulerNext

----------------------------------------------------------------------------
\* Every scheduler keeps its invariant.
THEOREM SchedulerInvariant == SchedulerSpec => []SchedulerInv
<1>1. SchedulerInv /\ [SchedulerNext]_schedulerVars => SchedulerInv'
  BY SchedulerStepInv
<1> QED BY SchedulerInitInv, <1>1, PTL DEF SchedulerSpec

\* The fields of a scheduler stay well typed under any caller.
THEOREM SchedulerTypeCorrect == SchedulerSpec => []SchedulerTypeOK
<1>1. SchedulerInv => SchedulerTypeOK
  BY DEF SchedulerInv
<1> QED BY SchedulerInvariant, <1>1, PTL

\* No query is ever given twice.
THEOREM SearchIsBounded == SchedulerSpec => []AskedOnce
<1>1. SchedulerInv => AskedOnce
  BY DEF SchedulerInv
<1> QED BY SchedulerInvariant, <1>1, PTL

\* No query is given once a confirmed violation was reported.
THEOREM ConfirmationEndsSearch == SchedulerSpec => []QuietAfterConfirmation
<1>1. SchedulerInv => QuietAfterConfirmation
  BY DEF SchedulerInv
<1> QED BY SchedulerInvariant, <1>1, PTL

\* The adaptive arm earns its two-call queries by the declared rule, for any queues
\* and whatever it is told.
THEOREM AdaptiveRuleHolds == SchedulerSpec => []TwoCallsEarned
<1>1. SchedulerInv => TwoCallsEarned
  BY DEF SchedulerInv
<1> QED BY SchedulerInvariant, <1>1, PTL

\* It never goes back to one-call queries.
THEOREM PromotionIsForGood == SchedulerSpec => []NeverBack
<1>1. SchedulerInv => NeverBack
  BY DEF SchedulerInv
<1> QED BY SchedulerInvariant, <1>1, PTL

----------------------------------------------------------------------------
(* The slot and what it uses                                                *)

\* A query that has been answered has a result its scheduler takes.
ResultKnown ==
  /\ result \in Reports \union {"none"}
  /\ phase = "answered" => result \in Reports

\* The names and statuses of the slot are ones the ledger knows.
LEMMA SlotConstants ==
  /\ \A i \in 1..4 : StageOrder[i] \in Stages
  /\ "symbolic_augmentation" \in Stages
  /\ {"skipped", "no_eligible_prefix", "no_candidate"} \subseteq Outcomes
  /\ HardResults \union {"timeout", "tool_error", "campaign_deadline", "evidence_error"}
       \subseteq ErrorStatuses
  /\ {"timeout", "tool_error", "confirmed", "candidate_rejected"} \subseteq Reports
<1>1. StageOrder[2] = "symbolic_augmentation" /\ 2 \in 1..4
  BY DEF StageOrder
<1> QED BY <1>1, Stage5SlotAssumption DEF HardResults

\* An open stage is closed by returning or with the status of an exception.
LEMMA ClosingIsLedgerStep ==
  ASSUME NEW outcome \in ErrorStatuses \union {"completed"}, CloseStage(outcome)
  PROVE  LedgerNext
BY DEF LedgerNext

\* An exception ends the stage and the slot, and the scheduler hears nothing.
LEMMA RaisingIsAllowed ==
  ASSUME NEW status \in ErrorStatuses, Raise(status)
  PROVE  /\ LedgerNext /\ UNCHANGED schedulerVars
         /\ result' = result /\ phase' = "finally"
<1>1. CloseStage(status) /\ Stop(status)
  BY DEF Raise
<1> QED BY <1>1, ClosingIsLedgerStep DEF Stop, query

\* A stage is left by closing it.
LEMMA LeavingIsAllowed ==
  ASSUME Leave
  PROVE  /\ LedgerNext /\ UNCHANGED schedulerVars
         /\ result' = result /\ phase' \in {"enter", "finally"}
<1>1. CloseStage("completed") /\ UNCHANGED schedulerVars /\ UNCHANGED query
      /\ phase' \in {"enter", "finally"}
  BY DEF Leave
<1> QED BY <1>1, ClosingIsLedgerStep DEF query

\* What a step of a slot may do to its ledger, its scheduler and its result.
Allowed ==
  /\ LedgerNext \/ UNCHANGED ledgerVars
  /\ SchedulerNext \/ UNCHANGED schedulerVars
  /\ ResultKnown'

\* A step in which the query has no news keeps its result known.
LEMMA ResultStays ==
  ASSUME ResultKnown, result' = result, phase' # "answered"
  PROVE  ResultKnown'
BY DEF ResultKnown

\* Opening, refusing, skipping, leaving and failing a stage are steps of the ledger.
LEMMA StageStepsAllowed ==
  ASSUME ResultKnown,
         \/ Enter \/ Refused \/ StageFails \/ SkipAugmentation
         \/ InputCopied \/ NativeRefused \/ NativeReturns \/ EvidenceAccepted
         \/ AugmentationDone \/ ImportFails
  PROVE  Allowed
<1>1. CASE Enter
  <2>1. /\ OpenStage(StageOrder[stage]) /\ StageOrder[stage] \in Stages
        /\ UNCHANGED schedulerVars /\ result' = result /\ phase' = "body"
    BY <1>1, SlotConstants DEF Enter, Staged, query
  <2> QED BY <2>1, ResultStays DEF Allowed, LedgerNext
<1>2. CASE Refused
  <2>1. /\ RefuseStage(StageOrder[stage]) /\ StageOrder[stage] \in Stages
        /\ UNCHANGED schedulerVars /\ result' = result /\ phase' = "finally"
    BY <1>2, SlotConstants DEF Refused, Staged, Stop, query
  <2> QED BY <2>1, ResultStays DEF Allowed, LedgerNext
<1>3. CASE StageFails \/ NativeRefused \/ ImportFails
  <2>1. PICK status \in {"tool_error", "evidence_error", "timeout", "campaign_deadline"} : Raise(status)
    BY <1>3 DEF StageFails, NativeRefused, ImportFails
  <2>2. status \in ErrorStatuses
    BY SlotConstants
  <2> QED BY <2>1, <2>2, RaisingIsAllowed, ResultStays DEF Allowed
<1>4. CASE SkipAugmentation
  <2>1. /\ RecordSkipped("symbolic_augmentation", "skipped")
        /\ UNCHANGED schedulerVars /\ result' = result /\ phase' = phase /\ phase = "enter"
    BY <1>4 DEF SkipAugmentation, query
  <2>2. "symbolic_augmentation" \in Stages /\ "skipped" \in Outcomes
    BY SlotConstants
  <2> QED BY <2>1, <2>2, ResultStays DEF Allowed, LedgerNext
<1>5. CASE InputCopied \/ NativeReturns \/ EvidenceAccepted \/ AugmentationDone
  <2>1. Leave
    BY <1>5 DEF InputCopied, NativeReturns, EvidenceAccepted, AugmentationDone
  <2> QED BY <2>1, LeavingIsAllowed, ResultStays DEF Allowed
<1> QED BY <1>1, <1>2, <1>3, <1>4, <1>5

\* Asking for a query is a step of the scheduler: what counts of the time left is
\* whether a query fits.
LEMMA AskingIsAllowed ==
  ASSUME ResultKnown, AskNext
  PROVE  Allowed
<1>1. NextQuery(TimeLeft) /\ UNCHANGED ledgerVars /\ result' = result /\ phase' # "answered"
  BY DEF AskNext, query
<1>2. \A r, s : (Fits(r) <=> Fits(s)) /\ NextQuery(r) => NextQuery(s)
  BY DEF NextQuery, DeclineNoTime, Select, PromoteOnExhaustion, DeclineWithoutProgress,
         DeclineExhausted
<1>3. Fits(MinQuery + Reserve) /\ ~Fits(0)
  BY SchedulerAssumption DEF Fits
<1>4. NextQuery(MinQuery + Reserve) \/ NextQuery(0)
  BY <1>1, <1>2, <1>3
<1> QED BY <1>1, <1>4, ResultStays DEF Allowed, SchedulerNext

\* The tools of a query touch neither ledger nor scheduler, and what ends it is a
\* report its scheduler takes.
LEMMA ToolStepsAllowed ==
  ASSUME ResultKnown, ToolReturns \/ ToolFails \/ OutOfTime \/ DropCandidate
  PROVE  Allowed
<1>1. UNCHANGED ledgerVars /\ UNCHANGED schedulerVars
  BY DEF ToolReturns, ToolFails, OutOfTime, DropCandidate, QueryOnly
<1>2. ResultKnown'
  <2>1. CASE ToolReturns
    <3>1. \/ result' = "confirmed"
          \/ phase' # "answered" /\ result' = result
      BY <2>1 DEF ToolReturns, Tools, AfterTool
    <3> QED BY <3>1, SlotConstants DEF ResultKnown
  <2>2. CASE ToolFails \/ OutOfTime
    <3>1. PICK status \in Reports : Answer(status)
      BY <2>2, SlotConstants DEF ToolFails, OutOfTime
    <3> QED BY <3>1 DEF Answer, ResultKnown
  <2>3. CASE DropCandidate
    <3>1. \/ result' = "candidate_rejected"
          \/ phase' # "answered" /\ result' = result
      BY <2>3 DEF DropCandidate
    <3> QED BY <3>1, SlotConstants DEF ResultKnown
  <2> QED BY <2>1, <2>2, <2>3
<1> QED BY <1>1, <1>2 DEF Allowed

\* Every step of the slot is allowed.
LEMMA SlotStepAllowed == ResultKnown /\ [SlotNext]_allVars => Allowed
<1> SUFFICES ASSUME ResultKnown, [SlotNext]_allVars PROVE Allowed
  OBVIOUS
<1>1. CASE PlansMade \/ QueriesUsed
  BY <1>1, ResultStays DEF PlansMade, QueriesUsed, query, Allowed
<1>2. CASE Report
  <2>1. /\ result \in Reports /\ RecordFeedback(current, result) /\ UNCHANGED ledgerVars
        /\ result' = "none" /\ phase' # "answered"
    BY <1>2 DEF Report, AfterResult, QueryOver, ResultKnown
  <2>2. current \in attempted
    BY <2>1 DEF RecordFeedback
  <2> QED BY <2>1, <2>2 DEF Allowed, SchedulerNext, ResultKnown
<1>3. CASE HardResult
  <2>1. PICK status \in ErrorStatuses : Raise(status)
    BY <1>3, SlotConstants DEF HardResult
  <2> QED BY <2>1, RaisingIsAllowed, ResultStays DEF Allowed
<1>4. CASE Import
  BY <1>4, ResultStays DEF Import, query, Allowed
<1>5. CASE Settle
  <2>1. /\ \/ FinishHandle("no_eligible_prefix") \/ FinishHandle("no_candidate")
           \/ UNCHANGED ledgerVars
        /\ UNCHANGED schedulerVars /\ result' = result /\ phase' = "leave"
    BY <1>5 DEF Settle, query
  <2> QED BY <2>1, SlotConstants, ResultStays DEF Allowed, LedgerNext
<1>6. CASE Finally
  BY <1>6, ResultStays DEF Finally, query, Allowed
<1>7. CASE Tick /\ UNCHANGED <<schedulerVars, slotVars>>
  BY <1>7 DEF Allowed, LedgerNext, slotVars, query, ResultKnown
<1>8. CASE UNCHANGED allVars
  BY <1>8 DEF allVars, slotVars, query, Allowed, ResultKnown
<1> QED
  BY <1>1, <1>2, <1>3, <1>4, <1>5, <1>6, <1>7, <1>8,
     StageStepsAllowed, AskingIsAllowed, ToolStepsAllowed DEF SlotNext, Slot

----------------------------------------------------------------------------
\* Whatever its tools answer, a slot reports only what its scheduler knows, so no
\* report is refused.
THEOREM ResultsAreKnown == SlotSpec => []ResultKnown
<1>1. SlotInit => ResultKnown
  BY DEF SlotInit, ResultKnown
<1>2. ResultKnown /\ [SlotNext]_allVars => ResultKnown'
  BY SlotStepAllowed DEF Allowed
<1> QED BY <1>1, <1>2, PTL DEF SlotSpec

\* run_slot is one of the callers BudgetLedger is specified for.
THEOREM SlotUsesLedger == SlotSpec => LedgerSpec
<1>1. SlotInit => LedgerInit
  BY DEF SlotInit
<1>2. ResultKnown /\ [SlotNext]_allVars => [LedgerNext]_ledgerVars
  BY SlotStepAllowed DEF Allowed
<1> QED BY <1>1, <1>2, ResultsAreKnown, PTL DEF SlotSpec, LedgerSpec

\* And one of those QueryScheduler is specified for: it asks with time it has and
\* reports the queries it was given.
THEOREM SlotUsesScheduler == SlotSpec => SchedulerSpec
<1>1. SlotInit => SchedulerInit
  BY DEF SlotInit
<1>2. ResultKnown /\ [SlotNext]_allVars => [SchedulerNext]_schedulerVars
  BY SlotStepAllowed DEF Allowed
<1> QED BY <1>1, <1>2, ResultsAreKnown, PTL DEF SlotSpec, SchedulerSpec

\* So in every slot the stages keep to the budget and no second is charged twice, no
\* query is given twice or after a confirmation, and the adaptive arm earns its
\* two-call queries.
THEOREM SlotIsSound ==
  SlotSpec => [](/\ NothingChargedTwice /\ OverrunEndsCampaign /\ CompletedInBudget
                 /\ AskedOnce /\ QuietAfterConfirmation /\ TwoCallsEarned /\ NeverBack)
<1>1. LedgerInv => OverrunEndsCampaign /\ CompletedInBudget
  BY DEF LedgerInv
<1>2. SchedulerInv => AskedOnce /\ QuietAfterConfirmation /\ TwoCallsEarned /\ NeverBack
  BY DEF SchedulerInv
<1> QED
  BY SlotUsesLedger, SlotUsesScheduler, LedgerInvariant, NoSecondTwice, SchedulerInvariant, <1>1, <1>2, PTL

----------------------------------------------------------------------------
(* The story a slot tells                                                   *)

Over == phase \in {"finally", "done"}
Asking == Tools \union {"ask", "answered"}
InStageTwo == Asking \union {"import", "raise", "settle", "leave"}
First == IF InitialCharge = 0 THEN 0 ELSE 1
DropReasons == {"timeout", "duplicate_warmup_sequence"}
ExecutedRows == [query : Queries, status : FeedbackStatuses, dropped : Seq(DropReasons)]

\* The fields of the slot; a query in execution is one of its scheduler's, and
\* has candidates while they are replayed.
FieldsOK ==
  /\ arm \in MODES \union {"native_resume"} /\ stage \in 1..5
  /\ warm \in BOOLEAN /\ prefixes \in BOOLEAN /\ repaired \in BOOLEAN
  /\ phase \in InStageTwo \union {"enter", "body", "finally", "done"}
  /\ current \in Queries \union {NoQuery}
  /\ phase \in Tools \union {"answered"} => current \in Queries
  /\ augDeadline \in Int /\ left \in 0..MaxCandidates
  /\ phase \in Tools \ {"prefix", "build", "solve"} => left > 0
  /\ dropped \in Seq(DropReasons)
  /\ executed \in Seq(ExecutedRows) /\ confirmations \in Seq(Queries)
  /\ rowStatus \in ErrorStatuses \union {"running", "completed"} /\ valid \in BOOLEAN

\* Where the slot is; nothing can be asked about a warmup without prefixes.
Placed ==
  /\ active <=> phase \in InStageTwo \union {"body"}
  /\ phase \in InStageTwo => stage = 2 /\ Augments
  /\ phase = "body" /\ stage = 2 => Augments
  /\ Over <=> stage = 5
  /\ ~prefixes => executed = <<>> /\ phase \notin Tools \union {"answered", "import", "raise"}
  /\ ~prefixes => one = <<>> /\ two = <<>>

\* One record for each stage entered or refused, in order; only the augmentation
\* of a slot that does not augment is left out, as long as nothing failed.
InOrder ==
  /\ ~Over => Count = First + stage - (IF active THEN 0 ELSE 1)
  /\ rowStatus = "completed" => Count = First + 4
  /\ First <= Count /\ Count <= First + 4
  /\ \A i \in 1..4 : First + i <= Count => records[First + i].name = StageOrder[i]
  /\ ~Over \/ rowStatus = "completed" =>
       \A i \in 1..4 : First + i <= Count =>
         (~records[First + i].attempted => i = 2 /\ ~Augments)

\* No query among the first n ended the search.
WentOn(n) == \A i \in 1..n : executed[i].status \notin HardResults \union {"confirmed"}

LastStatus == executed[Len(executed)].status

ConfirmedLast ==
  /\ Len(executed) > 0 /\ LastStatus = "confirmed"
  /\ confirmations = <<executed[Len(executed)].query>>

\* The search goes on until a query is confirmed or fails; what was confirmed
\* has been imported when the augmentation is over.
Searched ==
  /\ WentOn(Len(executed) - 1)
  /\ phase \in Asking \union {"enter", "body"} /\ stage <= 2 =>
       WentOn(Len(executed)) /\ confirmations = <<>>
  /\ phase \in {"import", "raise"} => Len(executed) > 0 /\ confirmations = <<>>
  /\ phase = "import" => LastStatus = "confirmed"
  /\ phase \in {"settle", "leave"} \/ stage \in {3, 4} \/ rowStatus = "completed" =>
       \/ WentOn(Len(executed)) /\ confirmations = <<>>
       \/ ConfirmedLast

\* The record of the augmentation says whether a candidate was imported, unless it
\* says that it was too late.
Recorded ==
  /\ phase \in InStageTwo \ {"leave"} => OpenStatus = "running"
  /\ phase = "body" => OpenStatus = "running"
  /\ phase = "leave" =>
       OpenStatus \in {"running", "no_eligible_prefix", "no_candidate"}
         /\ (OpenStatus = "running" <=> confirmations # <<>>)
  /\ Augments /\ (stage \in {3, 4} \/ rowStatus = "completed") =>
       \/ records[First + 2].late
       \/ records[First + 2].status = "completed" <=> confirmations # <<>>

Concluded ==
  /\ ~Over => rowStatus = "running"
  /\ valid => phase = "done" /\ rowStatus = "completed" /\ ~SomeStageLate

StoryInv == FieldsOK /\ Placed /\ InOrder /\ Searched /\ Recorded /\ Concluded

SlotInv == LedgerInv /\ SchedulerInv /\ ResultKnown /\ StoryInv

\* There is at most one record before the first stage.
LEMMA FirstFact == First \in {0, 1} /\ First' = First
BY DEF First

\* The stages in their order.
LEMMA StagesInOrder ==
  /\ StageOrder[1] = "input_and_cache_prepare" /\ StageOrder[2] = "symbolic_augmentation"
  /\ StageOrder[3] = "native_startup_and_continuation"
  /\ StageOrder[4] = "online_evidence_validation"
BY DEF StageOrder

\* A slot that starts has told nothing yet.
LEMMA StoryInit == SlotInit => StoryInv
<1> SUFFICES ASSUME SlotInit PROVE StoryInv
  OBVIOUS
<1> USE DEF SlotInit, LedgerInit
<1>1. FieldsOK
  <2>1. dropped \in Seq(DropReasons) /\ executed \in Seq(ExecutedRows) /\ confirmations \in Seq(Queries)
    OBVIOUS
  <2>2. left \in 0..MaxCandidates
    BY Stage5SlotAssumption
  <2>3. /\ arm \in MODES \union {"native_resume"} /\ warm \in BOOLEAN /\ prefixes \in BOOLEAN
        /\ repaired \in BOOLEAN /\ valid \in BOOLEAN
    OBVIOUS
  <2>4. /\ stage \in 1..5 /\ augDeadline \in Int /\ current \in Queries \union {NoQuery}
        /\ rowStatus \in ErrorStatuses \union {"running", "completed"}
    OBVIOUS
  <2>5. /\ phase \in InStageTwo \union {"enter", "body", "finally", "done"}
        /\ phase \notin Tools \union {"answered"}
    BY DEF Tools
  <2> HIDE DEF SlotInit, LedgerInit
  <2> QED BY <2>1, <2>2, <2>3, <2>4, <2>5 DEF FieldsOK
<1>2. Placed
  BY DEF Placed, InStageTwo, Tools, Asking, Over
<1>3. Count = First /\ InOrder
  BY FirstFact DEF InOrder, Count, First, Over
<1>4. Searched
  BY DEF Searched, WentOn
<1>5. Recorded /\ Concluded
  BY DEF Recorded, Concluded, InStageTwo, Tools, Asking
<1> QED BY <1>1, <1>2, <1>3, <1>4, <1>5 DEF StoryInv

\* While the second stage is open and its outcome is not settled, its records stay
\* as they are.
LEMMA SearchLeavesRecords ==
  ASSUME StoryInv, stage = 2, phase \in InStageTwo \union {"body"}, phase # "leave",
         phase' \in InStageTwo \ {"leave"}, UNCHANGED <<records, active, stage, given, rowStatus, valid>>
  PROVE  InOrder' /\ Recorded' /\ Concluded'
<1>1. ~Over /\ ~Over' /\ rowStatus = "running" /\ First' = First
  BY DEF StoryInv, Placed, Concluded, Over, InStageTwo, Tools, Asking, First
<1>2. InOrder'
  BY <1>1 DEF StoryInv, InOrder, Count, Augments, given
<1>3. Recorded'
  BY <1>1 DEF StoryInv, Recorded, OpenStatus, LastRecord
<1>4. Concluded'
  BY <1>1 DEF StoryInv, Concluded, Over
<1> QED BY <1>2, <1>3, <1>4

\* The plans are made and the scheduler is asked.
LEMMA PlansKeep == SlotInv /\ PlansMade => StoryInv'
<1> SUFFICES ASSUME SlotInv, PlansMade PROVE StoryInv'
  OBVIOUS
<1> USE DEF SlotInv, StoryInv
<1>1. /\ stage = 2 /\ phase = "body" /\ phase' = "ask"
      /\ UNCHANGED <<ledgerVars, schedulerVars, given, stage, query, row>>
  BY DEF PlansMade
<1>2. InOrder' /\ Recorded' /\ Concluded'
  BY <1>1, SearchLeavesRecords DEF ledgerVars, row, InStageTwo, Tools, Asking
<1>3. augDeadline' \in Int
  BY Stage5SlotAssumption, SchedulerAssumption, LedgerAssumption
  DEF PlansMade, LedgerInv, LedgerTypeOK, Instants
<1>4. FieldsOK'
  BY <1>1, <1>3 DEF FieldsOK, given, query, row, InStageTwo, Tools, Asking
<1>5. Placed'
  BY <1>1 DEF Placed, ledgerVars, schedulerVars, queues, given, row, InStageTwo, Tools, Asking, Over, Augments
<1>6. Searched'
  BY <1>1 DEF Searched, row, WentOn, LastStatus, ConfirmedLast, Asking, Tools, Concluded, Over
<1> QED BY <1>2, <1>4, <1>5, <1>6

\* Queries cannot be selected from empty queues.
LEMMA NothingFromNothing ==
  ASSUME SchedulerTypeOK, one = <<>>, two = <<>>, NEW remaining, NextQuery(remaining)
  PROVE  decisions'[Len(decisions')].query = NoQuery
<1>1. InQueue(one) = {} /\ InQueue(two) = {} /\ InQueue(Pool) = {}
  BY DEF InQueue, Pool
<1>2. \E reason : Decide(NoQuery, reason)
  BY <1>1 DEF NextQuery, DeclineConfirmed, DeclineNoTime, Select, PromoteOnExhaustion,
     DeclineWithoutProgress, DeclineExhausted, Decline
<1>3. PICK reason : Decide(NoQuery, reason)
  BY <1>2
<1> DEFINE d == [query |-> NoQuery, heard |-> Len(feedback), reason |-> reason]
<1>4. decisions' = Append(decisions, d) /\ d.query = NoQuery
  BY <1>3 DEF Decide
<1> HIDE DEF d
<1> QED BY <1>4 DEF SchedulerTypeOK

\* A query is asked for.
LEMMA AskKeeps == SlotInv /\ SchedulerInv' /\ AskNext => StoryInv'
<1> SUFFICES ASSUME SlotInv, SchedulerInv', AskNext PROVE StoryInv'
  OBVIOUS
<1> USE DEF SlotInv, StoryInv
<1> DEFINE selected == decisions'[Len(decisions')].query
<1>1. /\ phase = "ask" /\ UNCHANGED <<ledgerVars, given, stage, augDeadline, row>>
      /\ \/ selected = NoQuery /\ phase' = "settle" /\ UNCHANGED query
         \/ /\ selected # NoQuery /\ phase' = "prefix" /\ current' = selected
            /\ UNCHANGED <<left, dropped, result>>
  BY DEF AskNext
<1>2. stage = 2 /\ Augments /\ active
  BY <1>1 DEF Placed, InStageTwo, Asking
<1>3. InOrder' /\ Recorded' /\ Concluded'
  BY <1>1, <1>2, SearchLeavesRecords DEF ledgerVars, row, InStageTwo, Tools, Asking
<1>4. NextQuery(TimeLeft)
  BY DEF AskNext
<1>5. Len(decisions') > 0 /\ selected \in Queries \union {NoQuery} /\ UNCHANGED <<one, two>>
  <2>1. \E q, reason : Decide(q, reason)
    BY <1>4 DEF NextQuery, DeclineConfirmed, DeclineNoTime, Select, PromoteOnExhaustion,
       DeclineWithoutProgress, DeclineExhausted, Decline, Give
  <2>2. Len(decisions') > 0 /\ UNCHANGED <<one, two>>
    <3>1. PICK q, reason : Decide(q, reason)
      BY <2>1
    <3> DEFINE d == [query |-> q, heard |-> Len(feedback), reason |-> reason]
    <3>2. decisions' = Append(decisions, d) /\ UNCHANGED <<one, two>>
      BY <3>1 DEF Decide, queues
    <3> HIDE DEF d
    <3> QED BY <3>2 DEF SchedulerInv, SchedulerTypeOK
  <2> DEFINE Rows == [query : Queries \union {NoQuery}, heard : Nat, reason : Reasons]
  <2>3. decisions' \in Seq(Rows)
    BY DEF SchedulerInv, SchedulerTypeOK
  <2>4. \A d \in Rows : d.query \in Queries \union {NoQuery}
    OBVIOUS
  <2> HIDE DEF Rows
  <2>5. decisions'[Len(decisions')] \in Rows
    BY <2>2, <2>3
  <2> QED BY <2>2, <2>4, <2>5
<1>6. ~prefixes => selected = NoQuery
  BY <1>4, NothingFromNothing DEF Placed, SchedulerInv
<1> HIDE DEF selected
<1>7. FieldsOK'
  BY <1>1, <1>5 DEF FieldsOK, given, query, row, InStageTwo, Tools, Asking
<1>8. Placed'
  BY <1>1, <1>2, <1>5, <1>6 DEF Placed, ledgerVars, given, row, InStageTwo, Tools, Asking, Over, Augments
<1>9. Searched'
  BY <1>1, <1>2 DEF Searched, row, WentOn, LastStatus, ConfirmedLast, Asking, Tools, Concluded, Over
<1> QED BY <1>3, <1>7, <1>8, <1>9

\* No more queries are asked for.
LEMMA UsedKeeps == SlotInv /\ QueriesUsed => StoryInv'
<1> SUFFICES ASSUME SlotInv, QueriesUsed PROVE StoryInv'
  OBVIOUS
<1> USE DEF SlotInv, StoryInv
<1>1. /\ phase = "ask" /\ phase' = "settle"
      /\ UNCHANGED <<ledgerVars, schedulerVars, given, stage, augDeadline, query, row>>
  BY DEF QueriesUsed
<1>2. stage = 2 /\ Augments /\ active
  BY <1>1 DEF Placed, InStageTwo, Asking
<1>3. InOrder' /\ Recorded' /\ Concluded'
  BY <1>1, <1>2, SearchLeavesRecords DEF ledgerVars, row, InStageTwo, Tools, Asking
<1>4. FieldsOK'
  BY <1>1 DEF FieldsOK, given, query, row, InStageTwo, Tools, Asking
<1>5. Placed'
  BY <1>1, <1>2 DEF Placed, ledgerVars, schedulerVars, queues, given, row, InStageTwo, Tools, Asking, Over, Augments
<1>6. Searched'
  BY <1>1, <1>2 DEF Searched, row, WentOn, LastStatus, ConfirmedLast, Asking, Tools, Concluded, Over
<1> QED BY <1>3, <1>4, <1>5, <1>6

\* A tool has its say about the query in execution.
LEMMA ToolsKeep ==
  ASSUME SlotInv, phase \in Tools, phase' \in Tools \union {"answered"},
         UNCHANGED <<ledgerVars, schedulerVars, given, stage, augDeadline, row, current>>,
         left' \in 0..MaxCandidates, phase' \in Tools \ {"prefix", "build", "solve"} => left' > 0,
         dropped' \in Seq(DropReasons)
  PROVE  StoryInv'
<1> USE DEF SlotInv, StoryInv
<1>1. stage = 2 /\ Augments /\ active /\ prefixes
  BY DEF Placed, InStageTwo, Asking
<1>2. InOrder' /\ Recorded' /\ Concluded'
  BY <1>1, SearchLeavesRecords DEF ledgerVars, row, InStageTwo, Tools, Asking
<1>3. FieldsOK'
  BY DEF FieldsOK, given, row, InStageTwo, Tools, Asking
<1>4. Placed'
  BY <1>1 DEF Placed, ledgerVars, schedulerVars, queues, given, row, InStageTwo, Tools, Asking, Over, Augments
<1>5. Searched'
  BY <1>1 DEF Searched, row, WentOn, LastStatus, ConfirmedLast, Asking, Tools, Concluded, Over
<1> QED BY <1>2, <1>3, <1>4, <1>5

\* Each tool, each of its failures and each dropped candidate is such a step.
LEMMA QueryKeeps ==
  ASSUME SlotInv, ToolReturns \/ ToolFails \/ OutOfTime \/ DropCandidate
  PROVE  StoryInv'
<1>1. /\ phase \in Tools
      /\ UNCHANGED <<ledgerVars, schedulerVars, given, stage, augDeadline, row, current>>
  BY DEF ToolReturns, ToolFails, OutOfTime, DropCandidate, QueryOnly, Tools
<1>2. /\ left \in 0..MaxCandidates /\ dropped \in Seq(DropReasons)
      /\ phase \in Tools \ {"prefix", "build", "solve"} => left > 0
  BY DEF SlotInv, StoryInv, FieldsOK
<1>3. /\ phase' \in Tools \union {"answered"} /\ left' \in 0..MaxCandidates
      /\ phase' \in Tools \ {"prefix", "build", "solve"} => left' > 0
      /\ dropped' \in Seq(DropReasons)
  <2>1. CASE ToolReturns
    <3>1. /\ dropped' = dropped
          /\ phase' = "answered" \/ phase' = AfterTool[phase]
          /\ IF phase = "solve" THEN left' \in 1..MaxCandidates ELSE left' = left
      BY <2>1 DEF ToolReturns
    <3>2. /\ AfterTool[phase] \in Tools \union {"answered"}
          /\ AfterTool[phase] \in Tools \ {"prefix", "build", "solve"} =>
               phase \in Tools \ {"prefix", "build"}
      BY <1>1 DEF AfterTool, Tools
    <3>3. left' \in 0..MaxCandidates
      BY <1>2, <3>1, Stage5SlotAssumption
    <3>4. ASSUME phase' \in Tools \ {"prefix", "build", "solve"} PROVE left' > 0
      <4>1. phase \in Tools \ {"prefix", "build"}
        BY <3>1, <3>2, <3>4 DEF Tools
      <4> QED BY <1>2, <3>1, <4>1, Stage5SlotAssumption
    <3>5. phase' \in Tools \union {"answered"}
      BY <3>1, <3>2
    <3> QED BY <1>2, <3>1, <3>3, <3>4, <3>5
  <2>2. CASE ToolFails \/ OutOfTime
    <3>1. phase' = "answered" /\ left' = left /\ dropped' = dropped
      BY <2>2 DEF ToolFails, OutOfTime, Answer
    <3> QED BY <1>2, <3>1 DEF Tools
  <2>3. CASE DropCandidate
    <3>1. PICK why \in DropReasons : phase \in {"replay", "encode"} /\ dropped' = Append(dropped, why)
      BY <2>3 DEF DropCandidate, DropReasons
    <3>2. left' = left - 1 /\ (IF left = 1 THEN phase' = "answered" ELSE phase' = "replay")
      BY <2>3 DEF DropCandidate
    <3>3. dropped' \in Seq(DropReasons)
      BY <1>2, <3>1
    <3>4. left \in 1..MaxCandidates
      BY <1>2, <3>1, Stage5SlotAssumption DEF Tools
    <3>5. left' \in 0..MaxCandidates /\ (left # 1 => left' > 0)
      BY <3>2, <3>4, Stage5SlotAssumption
    <3> QED BY <3>2, <3>3, <3>5 DEF Tools
  <2> QED BY <2>1, <2>2, <2>3
<1> QED BY <1>1, <1>3, ToolsKeep

\* The result of a query is recorded, and decides how the search goes on.
LEMMA ReportKeeps == SlotInv /\ Report => StoryInv'
<1> SUFFICES ASSUME SlotInv, Report PROVE StoryInv'
  OBVIOUS
<1> USE DEF SlotInv, StoryInv
<1> DEFINE r == [query |-> current, status |-> result, dropped |-> dropped]
           n == Len(executed)
<1>1. /\ phase = "answered" /\ phase' = AfterResult /\ executed' = Append(executed, r)
      /\ current' = NoQuery /\ left' = 0 /\ dropped' = <<>>
      /\ UNCHANGED <<mode, one, two, attempted, decisions>>
      /\ UNCHANGED <<ledgerVars, given, stage, augDeadline, confirmations, rowStatus, valid>>
  BY DEF Report, QueryOver, RecordFeedback, ExecutedRow, queues
<1>2. stage = 2 /\ Augments /\ active /\ prefixes /\ current \in Queries
  BY <1>1 DEF Placed, InStageTwo, Asking, FieldsOK
<1>3. result \in FeedbackStatuses
  BY DEF Report, RecordFeedback
<1>4. r \in ExecutedRows /\ r.query = current /\ r.status = result
  BY <1>2, <1>3 DEF ExecutedRows, FieldsOK
<1> HIDE DEF r
<1>5. /\ executed \in Seq(ExecutedRows) /\ executed' \in Seq(ExecutedRows) /\ Len(executed') = n + 1
      /\ executed'[n + 1] = r /\ \A i \in 1..n : executed'[i] = executed[i]
  BY <1>1, <1>4 DEF FieldsOK
<1>6. /\ phase' \in {"import", "raise", "ask"}
      /\ phase' = "import" => result = "confirmed"
      /\ phase' = "raise" => result \in HardResults
      /\ phase' = "ask" => result \notin HardResults \union {"confirmed"}
  BY <1>1 DEF AfterResult
<1>7. InOrder' /\ Recorded' /\ Concluded'
  BY <1>1, <1>2, <1>6, SearchLeavesRecords DEF ledgerVars, InStageTwo, Tools, Asking
<1>8. FieldsOK'
  <2>1. <<>> \in Seq(DropReasons) /\ 0 \in 0..MaxCandidates
    BY Stage5SlotAssumption
  <2> QED BY <1>1, <1>5, <1>6, <2>1 DEF FieldsOK, given, InStageTwo, Tools, Asking
<1>9. Placed'
  BY <1>1, <1>2, <1>6 DEF Placed, ledgerVars, given, InStageTwo, Tools, Asking, Over, Augments
<1>10. Searched'
  <2>1. WentOn(n) /\ confirmations = <<>>
    BY <1>1, <1>2 DEF Searched, Asking
  <2>2. n \in Nat /\ \A i \in 1..n : executed'[i].status \notin HardResults \union {"confirmed"}
    BY <1>5, <2>1 DEF WentOn
  <2>3. executed'[n + 1].status = result
    BY <1>4, <1>5
  <2>4. WentOn(Len(executed) - 1)'
    BY <1>5, <2>2 DEF WentOn
  <2>5. phase' = "ask" => WentOn(Len(executed))'
    BY <1>5, <1>6, <2>2, <2>3 DEF WentOn
  <2> QED BY <1>1, <1>2, <1>5, <1>6, <2>1, <2>2, <2>3, <2>4, <2>5
          DEF Searched, LastStatus, Asking, Tools, Concluded, Placed, Over, InStageTwo
<1> QED BY <1>7, <1>8, <1>9, <1>10

\* A confirmed candidate is imported.
LEMMA ImportKeeps == SlotInv /\ Import => StoryInv'
<1> SUFFICES ASSUME SlotInv, Import PROVE StoryInv'
  OBVIOUS
<1> USE DEF SlotInv, StoryInv
<1> DEFINE q == executed[Len(executed)].query
<1>1. /\ phase = "import" /\ phase' = "settle" /\ confirmations' = Append(confirmations, q)
      /\ UNCHANGED <<ledgerVars, schedulerVars, given, stage, augDeadline, query, executed,
                      rowStatus, valid>>
  BY DEF Import
<1>2. stage = 2 /\ Augments /\ active /\ prefixes
  BY <1>1 DEF Placed, InStageTwo, Asking
<1>3. Len(executed) > 0 /\ confirmations = <<>> /\ LastStatus = "confirmed"
  BY <1>1 DEF Searched
<1>4. q \in Queries
  <2>1. executed \in Seq(ExecutedRows)
    BY DEF FieldsOK
  <2>2. executed[Len(executed)] \in ExecutedRows
    BY <1>3, <2>1
  <2>3. \A e \in ExecutedRows : e.query \in Queries
    BY DEF ExecutedRows
  <2> QED BY <2>2, <2>3
<1> HIDE DEF q
<1>5. confirmations' = <<q>> /\ confirmations' \in Seq(Queries)
  BY <1>1, <1>3, <1>4
<1>6. InOrder' /\ Recorded' /\ Concluded'
  BY <1>1, <1>2, SearchLeavesRecords DEF ledgerVars, InStageTwo, Tools, Asking
<1>7. FieldsOK'
  BY <1>1, <1>5 DEF FieldsOK, given, query, InStageTwo, Tools, Asking
<1>8. Placed'
  BY <1>1, <1>2 DEF Placed, ledgerVars, schedulerVars, queues, given, InStageTwo, Tools, Asking, Over, Augments
<1>9. Searched'
  BY <1>1, <1>2, <1>3, <1>5 DEF Searched, WentOn, LastStatus, ConfirmedLast, Asking, Tools, q
<1> QED BY <1>6, <1>7, <1>8, <1>9

\* What has been asked, found and imported stays.
Untouched ==
  /\ UNCHANGED <<schedulerVars, given, augDeadline, query, executed, confirmations, valid>>

\* A stage is entered.
LEMMA EnterKeeps == SlotInv /\ Enter => StoryInv'
<1> SUFFICES ASSUME SlotInv, Enter PROVE StoryInv'
  OBVIOUS
<1> USE FirstFact DEF SlotInv, StoryInv
<1>1. /\ phase = "enter" /\ phase' = "body" /\ stage \in 1..4 /\ (stage = 2 => Augments)
      /\ UNCHANGED <<schedulerVars, given, stage, augDeadline, query, row>>
      /\ Opens(StageOrder[stage])
  BY OpenEffect DEF Enter, Staged
<1>2. ~Over /\ ~Over' /\ rowStatus = "running" /\ ~valid /\ Augments' = Augments
  BY <1>1 DEF Over, Concluded, Augments, given
<1>3. /\ Len(records) \in Nat /\ Len(records) = First + stage - 1
      /\ Len(records') = Len(records) + 1 /\ active'
      /\ \A i \in 1..Len(records) : records'[i] = records[i]
      /\ records'[Len(records')].name = StageOrder[stage]
      /\ records'[Len(records')].status = "running" /\ records'[Len(records')].attempted
  BY <1>1, <1>2 DEF LedgerInv, LedgerTypeOK, InOrder, Count, Opens, Earlier
<1>4. FieldsOK'
  BY <1>1 DEF FieldsOK, given, query, row, InStageTwo, Tools, Asking
<1>5. Placed'
  BY <1>1, <1>2, <1>3 DEF Placed, row, schedulerVars, queues, given, InStageTwo, Tools, Asking, Over
<1>6. InOrder'
  <2>1. \A i \in 1..4 : First + i <= Len(records') =>
          /\ records'[First + i].name = StageOrder[i]
          /\ ~records'[First + i].attempted => i = 2 /\ ~Augments
    BY <1>1, <1>2, <1>3 DEF InOrder, Count
  <2> QED BY <1>1, <1>2, <1>3, <2>1 DEF InOrder, Count, row
<1>7. Searched'
  BY <1>1, <1>2 DEF Searched, row, WentOn, LastStatus, ConfirmedLast, Asking, Tools
<1>8. Recorded'
  BY <1>1, <1>2, <1>3 DEF Recorded, row, OpenStatus, LastRecord, InStageTwo, Tools, Asking
<1>9. Concluded'
  BY <1>1, <1>2 DEF Concluded, row
<1> QED BY <1>4, <1>5, <1>6, <1>7, <1>8, <1>9

\* The slot ends with the record of the stage it is in.
LEMMA StopKeeps ==
  ASSUME SlotInv, stage \in 1..4, ~Over, ~active', Len(records') = First + stage,
         \A i \in 1..(Len(records') - 1) : records'[i] = records[i],
         records'[Len(records')].name = StageOrder[stage],
         Untouched, stage' = 5, phase' = "finally",
         rowStatus' \in ErrorStatuses, rowStatus' # "completed"
  PROVE  StoryInv'
<1> USE FirstFact DEF SlotInv, StoryInv
<1>1. Over' /\ ~valid /\ ~valid' /\ Augments' = Augments
  BY DEF Over, Concluded, Untouched, Augments, given
<1>2. First + stage - 1 <= Len(records) /\ Len(records) \in Nat
  BY DEF InOrder, Count, LedgerInv, LedgerTypeOK
<1>3. FieldsOK'
  BY DEF FieldsOK, Untouched, given, query, InStageTwo, Tools, Asking
<1>4. Placed'
  BY <1>1 DEF Placed, Untouched, schedulerVars, queues, given, InStageTwo, Tools, Asking
<1>5. InOrder'
  <2>1. \A i \in 1..4 : First + i <= Len(records') => records'[First + i].name = StageOrder[i]
    BY <1>2 DEF InOrder, Count
  <2> QED BY <1>1, <2>1 DEF InOrder, Count
<1>6. Searched'
  BY DEF Searched, Untouched, WentOn, LastStatus, ConfirmedLast, Asking, Tools
<1>7. Recorded' /\ Concluded'
  BY <1>1 DEF Recorded, Concluded, InStageTwo, Tools, Asking
<1> QED BY <1>3, <1>4, <1>5, <1>6, <1>7

\* A stage is refused.
LEMMA RefusedKeeps == SlotInv /\ Refused => StoryInv'
<1> SUFFICES ASSUME SlotInv, Refused PROVE StoryInv'
  OBVIOUS
<1> USE FirstFact DEF SlotInv, StoryInv
<1>1. /\ phase = "enter" /\ stage \in 1..4 /\ Skips(StageOrder[stage], "campaign_deadline")
      /\ Stop("campaign_deadline")
  BY SkipEffect DEF Refused, RefuseStage, Staged
<1>2. ~Over
  BY <1>1 DEF Over
<1>3. Len(records) \in Nat /\ Len(records) = First + stage - 1
  BY <1>1, <1>2 DEF LedgerInv, LedgerTypeOK, InOrder, Count, Skips
<1>4. /\ ~active' /\ Len(records') = First + stage
      /\ \A i \in 1..(Len(records') - 1) : records'[i] = records[i]
      /\ records'[Len(records')].name = StageOrder[stage]
  BY <1>1, <1>3 DEF Skips, Count, Earlier
<1>5. /\ Untouched /\ stage' = 5 /\ phase' = "finally" /\ rowStatus' = "campaign_deadline"
      /\ rowStatus' \in ErrorStatuses
  BY <1>1, SlotConstants DEF Stop, Untouched
<1> HIDE DEF SlotInv, StoryInv
<1> QED BY <1>1, <1>2, <1>4, <1>5, StopKeeps

\* A stage raises.
LEMMA RaiseKeeps ==
  ASSUME SlotInv, active,
         NEW status \in HardResults \union {"timeout", "campaign_deadline", "evidence_error"},
         Raise(status)
  PROVE  StoryInv'
<1> USE FirstFact DEF SlotInv, StoryInv
<1>1. Closes(status) /\ Stop(status)
  BY CloseEffect DEF Raise
<1>2. stage \in 1..4 /\ ~Over
  BY DEF Over, Placed, InStageTwo, Asking, Tools, FieldsOK
<1>3. Len(records) \in Nat /\ Len(records) = First + stage
  BY <1>2 DEF LedgerInv, LedgerTypeOK, InOrder, Count
<1>4. /\ ~active' /\ Len(records') = Len(records)
      /\ \A i \in 1..(Len(records') - 1) : records'[i] = records[i]
      /\ records'[Len(records')].name = records[Len(records)].name
  BY <1>1 DEF Closes, Count, Earlier, LastRecord
<1>5. records[Len(records)].name = StageOrder[stage]
  BY <1>2, <1>3 DEF InOrder, Count
<1>6. /\ Untouched /\ stage' = 5 /\ phase' = "finally" /\ rowStatus' = status
      /\ status \in ErrorStatuses /\ status # "completed"
  BY <1>1, Stage5SlotAssumption DEF Stop, Untouched, HardResults
<1> HIDE DEF SlotInv, StoryInv
<1> QED BY <1>2, <1>3, <1>4, <1>5, <1>6, StopKeeps

\* The augmentation is left out.
LEMMA LeftOutKeeps == SlotInv /\ SkipAugmentation => StoryInv'
<1> SUFFICES ASSUME SlotInv, SkipAugmentation PROVE StoryInv'
  OBVIOUS
<1> USE FirstFact DEF SlotInv, StoryInv
<1>1. /\ stage = 2 /\ phase = "enter" /\ ~Augments /\ stage' = 3
      /\ Skips("symbolic_augmentation", "skipped")
      /\ UNCHANGED <<schedulerVars, given, phase, augDeadline, query, row>>
  BY SkipEffect DEF SkipAugmentation
<1>2. ~Over /\ ~Over' /\ rowStatus = "running" /\ ~valid /\ ~Augments'
  BY <1>1 DEF Over, Concluded, Augments, given
<1>3. /\ Len(records) \in Nat /\ Len(records) = First + 1
      /\ Len(records') = First + 2 /\ ~active /\ ~active'
      /\ \A i \in 1..Len(records) : records'[i] = records[i]
      /\ records'[First + 2].name = StageOrder[2]
  BY <1>1, <1>2, StagesInOrder DEF LedgerInv, LedgerTypeOK, InOrder, Count, Skips, Earlier
<1>4. FieldsOK'
  BY <1>1 DEF FieldsOK, given, query, row, InStageTwo, Tools, Asking
<1>5. Placed'
  BY <1>1, <1>2, <1>3 DEF Placed, row, schedulerVars, queues, given, InStageTwo, Tools, Asking, Over
<1>6. InOrder'
  <2>1. \A i \in 1..4 : First + i <= Len(records') =>
          /\ records'[First + i].name = StageOrder[i]
          /\ ~records'[First + i].attempted => i = 2 /\ ~Augments'
    BY <1>2, <1>3 DEF InOrder, Count
  <2> QED BY <1>1, <1>2, <1>3, <2>1 DEF InOrder, Count, row
<1>7. Searched'
  BY <1>1, <1>2 DEF Searched, row, WentOn, LastStatus, ConfirmedLast, Asking, Tools
<1>8. Recorded'
  BY <1>1, <1>2 DEF Recorded, row, InStageTwo, Tools, Asking
<1>9. Concluded'
  BY <1>1, <1>2 DEF Concluded, row
<1> QED BY <1>4, <1>5, <1>6, <1>7, <1>8, <1>9

\* The outcome of the augmentation is settled.
LEMMA SettleKeeps == SlotInv /\ Settle => StoryInv'
<1> SUFFICES ASSUME SlotInv, Settle PROVE StoryInv'
  OBVIOUS
<1> USE FirstFact DEF SlotInv, StoryInv
<1>1. /\ phase = "settle" /\ phase' = "leave"
      /\ UNCHANGED <<schedulerVars, given, stage, augDeadline, query, row>>
  BY DEF Settle
<1>2. /\ stage = 2 /\ Augments /\ active /\ OpenStatus = "running" /\ ~Over /\ ~Over'
      /\ rowStatus = "running" /\ ~valid /\ Augments' = Augments
  BY <1>1 DEF Placed, InStageTwo, Recorded, Concluded, Over, Augments, given
<1>3. ~prefixes => confirmations = <<>>
  BY <1>1 DEF Placed, Searched, ConfirmedLast
<1>4. /\ Len(records) \in Nat /\ Len(records) = First + 2 /\ Len(records') = First + 2 /\ active'
      /\ \A i \in 1..(First + 1) : records'[i] = records[i]
      /\ records'[First + 2].name = records[First + 2].name
      /\ records'[First + 2].attempted = records[First + 2].attempted
      /\ IF confirmations = <<>> THEN records'[First + 2].status \in {"no_eligible_prefix", "no_candidate"}
                                 ELSE records'[First + 2].status = "running"
  <2>1. Len(records) \in Nat /\ Len(records) = First + 2
    BY <1>2 DEF LedgerInv, LedgerTypeOK, InOrder, Count
  <2>2. CASE confirmations = <<>>
    <3>1. \E status \in {"no_eligible_prefix", "no_candidate"} : Settles(status)
      BY <2>2, SettleEffect DEF Settle
    <3> QED BY <2>1, <2>2, <3>1 DEF Settles, Count, Earlier, LastRecord
  <2>3. CASE confirmations # <<>>
    <3>1. UNCHANGED ledgerVars
      BY <1>3, <2>3 DEF Settle
    <3> QED BY <1>2, <2>1, <2>3, <3>1 DEF ledgerVars, OpenStatus, LastRecord
  <2> QED BY <2>2, <2>3
<1>5. FieldsOK'
  BY <1>1 DEF FieldsOK, given, query, row, InStageTwo, Tools, Asking
<1>6. Placed'
  BY <1>1, <1>2, <1>4 DEF Placed, row, schedulerVars, queues, given, InStageTwo, Tools, Asking, Over
<1>7. InOrder'
  <2>1. \A i \in 1..4 : First + i <= Len(records') =>
          /\ records'[First + i].name = StageOrder[i]
          /\ ~records'[First + i].attempted => i = 2 /\ ~Augments
    BY <1>2, <1>4 DEF InOrder, Count
  <2> QED BY <1>1, <1>2, <1>4, <2>1 DEF InOrder, Count, row
<1>8. Searched'
  BY <1>1, <1>2 DEF Searched, row, WentOn, LastStatus, ConfirmedLast, Asking, Tools
<1>9. Recorded'
  BY <1>1, <1>2, <1>4 DEF Recorded, row, OpenStatus, LastRecord, InStageTwo, Tools, Asking
<1>10. Concluded'
  BY <1>1, <1>2 DEF Concluded, row
<1> QED BY <1>5, <1>6, <1>7, <1>8, <1>9, <1>10

\* A stage returns and the next one is due, or the slot is complete.
LEMMA LeaveKeeps ==
  ASSUME SlotInv, Leave,
         phase = "leave" \/ (phase = "body" /\ stage # 2),
         IF stage = 4 THEN rowStatus' = "completed" ELSE rowStatus' = rowStatus
  PROVE  StoryInv'
<1> USE FirstFact DEF SlotInv, StoryInv
<1>1. /\ stage' = stage + 1 /\ phase' = (IF stage = 4 THEN "finally" ELSE "enter")
      /\ Untouched /\ Closes("completed")
  BY CloseEffect DEF Leave, Untouched
<1>2. /\ ~Over /\ stage \in 1..4 /\ rowStatus = "running" /\ ~valid /\ ~valid'
      /\ Augments' = Augments /\ (Over' <=> stage = 4)
      /\ (phase = "leave" <=> stage = 2)
  BY <1>1 DEF Over, Placed, FieldsOK, Concluded, Augments, given, Untouched, InStageTwo
<1>3. /\ Len(records) \in Nat /\ Len(records) = First + stage /\ Len(records') = First + stage
      /\ active /\ ~active'
      /\ \A i \in 1..(First + stage - 1) : records'[i] = records[i]
      /\ records'[First + stage].name = records[First + stage].name
      /\ records'[First + stage].attempted
      /\ LET s == records[First + stage].status
              r == records'[First + stage]
         IN  \/ r.status = IF s = "running" THEN "completed" ELSE s
             \/ r.late
  BY <1>1, <1>2 DEF LedgerInv, LedgerTypeOK, InOrder, Count, Closes, Earlier, LastRecord, OpenStatus
<1>4. FieldsOK'
  <2>1. stage' \in 1..5 /\ rowStatus' \in ErrorStatuses \union {"running", "completed"}
        /\ phase' \in {"enter", "finally"}
    BY <1>1, <1>2
  <2> QED BY <1>1, <2>1 DEF FieldsOK, Untouched, given, query, InStageTwo, Tools, Asking
<1>5. Placed'
  BY <1>1, <1>2, <1>3 DEF Placed, Untouched, schedulerVars, queues, given, InStageTwo, Tools, Asking, Over
<1>6. InOrder'
  <2>1. \A i \in 1..4 : First + i <= Len(records') =>
          /\ records'[First + i].name = StageOrder[i]
          /\ ~records'[First + i].attempted => i = 2 /\ ~Augments
    BY <1>2, <1>3 DEF InOrder, Count
  <2> QED BY <1>1, <1>2, <1>3, <2>1 DEF InOrder, Count
<1>7. Searched'
  BY <1>1, <1>2 DEF Searched, Untouched, WentOn, LastStatus, ConfirmedLast, Asking, Tools
<1>8. Recorded'
  <2>1. CASE stage = 2
    <3>1. /\ OpenStatus \in {"running", "no_eligible_prefix", "no_candidate"}
          /\ OpenStatus = "running" <=> confirmations # <<>>
          /\ OpenStatus = records[First + 2].status
      BY <1>2, <1>3, <2>1 DEF Recorded, OpenStatus, LastRecord
    <3>2. records'[First + 2].late \/ (records'[First + 2].status = "completed" <=> confirmations # <<>>)
      BY <1>3, <2>1, <3>1
    <3> QED BY <1>1, <1>2, <2>1, <3>2 DEF Recorded, Untouched, InStageTwo, Tools, Asking
  <2>2. CASE stage \in {3, 4}
    <3>1. records'[First + 2] = records[First + 2]
      BY <1>3, <2>2
    <3> QED BY <1>1, <1>2, <2>2, <3>1 DEF Recorded, Untouched, InStageTwo, Tools, Asking
  <2>3. CASE stage = 1
    BY <1>1, <1>2, <2>3 DEF Recorded, InStageTwo, Tools, Asking
  <2> QED BY <1>2, <2>1, <2>2, <2>3
<1>9. Concluded'
  BY <1>1, <1>2 DEF Concluded, Over
<1> QED BY <1>4, <1>5, <1>6, <1>7, <1>8, <1>9

\* The slot concludes.
LEMMA FinallyKeeps == SlotInv /\ Finally => StoryInv'
<1> SUFFICES ASSUME SlotInv, Finally PROVE StoryInv'
  OBVIOUS
<1> USE FirstFact DEF SlotInv, StoryInv
<1>1. /\ phase = "finally" /\ phase' = "done" /\ valid' \in BOOLEAN
      /\ valid' => rowStatus = "completed" /\ ~SomeStageLate
      /\ UNCHANGED <<ledgerVars, schedulerVars, given, stage, augDeadline, query,
                      executed, confirmations, rowStatus>>
  BY DEF Finally
<1>2. Over /\ Over' /\ Augments' = Augments /\ SomeStageLate' = SomeStageLate
      /\ records' = records /\ active' = active
  BY <1>1 DEF Over, Augments, given, ledgerVars, SomeStageLate
<1>3. FieldsOK'
  BY <1>1 DEF FieldsOK, given, query, InStageTwo, Tools, Asking
<1>4. Placed'
  BY <1>1, <1>2 DEF Placed, schedulerVars, queues, given, InStageTwo, Tools, Asking
<1>5. InOrder' /\ Concluded'
  BY <1>1, <1>2 DEF InOrder, Concluded, Count
<1>6. Searched' /\ Recorded'
  BY <1>1, <1>2 DEF Searched, Recorded, WentOn, LastStatus, ConfirmedLast, InStageTwo, Asking, Tools
<1> QED BY <1>3, <1>4, <1>5, <1>6

\* Time passes, or nothing happens.
LEMMA RestKeeps ==
  ASSUME SlotInv, UNCHANGED <<records, active, schedulerVars, slotVars>>
  PROVE  StoryInv'
<1> USE DEF SlotInv, StoryInv, slotVars, row, query, given, schedulerVars, queues
<1>1. FieldsOK' /\ Placed'
  BY DEF FieldsOK, Placed, Over, Augments
<1>2. InOrder' /\ Searched'
  BY FirstFact DEF InOrder, Count, Over, Augments, Searched, WentOn, LastStatus, ConfirmedLast
<1>3. Recorded' /\ Concluded'
  BY FirstFact DEF Recorded, OpenStatus, LastRecord, Concluded, Over, Augments, SomeStageLate
<1> QED BY <1>1, <1>2, <1>3

\* Every step of the slot keeps the story.
LEMMA StoryStep == SlotInv /\ SchedulerInv' /\ [SlotNext]_allVars => StoryInv'
<1> SUFFICES ASSUME SlotInv, SchedulerInv', [SlotNext]_allVars PROVE StoryInv'
  OBVIOUS
<1>1. CASE Enter \/ Refused \/ SkipAugmentation \/ Settle \/ Finally
  BY <1>1, EnterKeeps, RefusedKeeps, LeftOutKeeps, SettleKeeps, FinallyKeeps
<1>2. CASE StageFails \/ NativeRefused \/ ImportFails \/ HardResult
  <2>1. PICK status \in HardResults \union {"timeout", "campaign_deadline", "evidence_error"} :
          Raise(status)
    BY <1>2 DEF StageFails, NativeRefused, ImportFails, HardResult, HardResults
  <2>2. active
    BY <2>1 DEF Raise, CloseStage
  <2> QED BY <2>1, <2>2, RaiseKeeps
<1>3. CASE InputCopied \/ NativeReturns \/ EvidenceAccepted \/ AugmentationDone
  <2>1. /\ Leave
        /\ phase = "leave" \/ (phase = "body" /\ stage # 2)
        /\ IF stage = 4 THEN rowStatus' = "completed" ELSE rowStatus' = rowStatus
    BY <1>3 DEF InputCopied, NativeReturns, EvidenceAccepted, AugmentationDone,
       SlotInv, StoryInv, Placed, InStageTwo
  <2> QED BY <2>1, LeaveKeeps
<1>4. CASE PlansMade \/ AskNext \/ QueriesUsed
  BY <1>4, PlansKeep, AskKeeps, UsedKeeps
<1>5. CASE ToolReturns \/ ToolFails \/ OutOfTime \/ DropCandidate
  BY <1>5, QueryKeeps
<1>6. CASE Report \/ Import
  BY <1>6, ReportKeeps, ImportKeeps
<1>7. CASE Tick /\ UNCHANGED <<schedulerVars, slotVars>>
  BY <1>7, RestKeeps DEF Tick
<1>8. CASE UNCHANGED allVars
  BY <1>8, RestKeeps DEF allVars, ledgerVars
<1> QED BY <1>1, <1>2, <1>3, <1>4, <1>5, <1>6, <1>7, <1>8 DEF SlotNext, Slot

----------------------------------------------------------------------------
\* The records of a slot tell its whole story, whatever its tools answer.
THEOREM SlotStory == SlotSpec => []SlotInv
<1>1. SlotInit => SlotInv
  BY StoryInit, LedgerInitInv, SchedulerInitInv DEF SlotInit, SlotInv, ResultKnown
<1>2. SlotInv /\ [SlotNext]_allVars => SlotInv'
  <2> SUFFICES ASSUME SlotInv, [SlotNext]_allVars PROVE SlotInv'
    OBVIOUS
  <2>1. Allowed
    BY SlotStepAllowed DEF SlotInv
  <2>2. LedgerInv' /\ SchedulerInv' /\ ResultKnown'
    BY <2>1, LedgerStepInv, SchedulerStepInv DEF Allowed, SlotInv
  <2> QED BY <2>2, StoryStep DEF SlotInv
<1> QED BY <1>1, <1>2, PTL DEF SlotSpec

\* Every variable keeps to the values the slot can give it, in its ledger and its
\* scheduler too.
THEOREM SlotTypeCorrect == SlotSpec => []SlotTypeOK
<1>1. SlotInv => SlotTypeOK
  <2> SUFFICES ASSUME SlotInv PROVE SlotTypeOK
    OBVIOUS
  <2>1. LedgerTypeOK /\ SchedulerTypeOK
    BY DEF SlotInv, LedgerInv, SchedulerInv
  <2>2. result \in FeedbackStatuses \union {"none"}
    BY SchedulerAssumption DEF SlotInv, ResultKnown
  <2>3. /\ stage \in 1..5 /\ current \in Queries \union {NoQuery}
        /\ phase \in Tools \union {"enter", "body", "ask", "answered", "import", "raise",
                                   "settle", "leave", "finally", "done"}
        /\ augDeadline \in Int /\ left \in 0..MaxCandidates
        /\ dropped \in Seq(DropReasons) /\ executed \in Seq(ExecutedRows)
        /\ confirmations \in Seq(Queries)
        /\ rowStatus \in ErrorStatuses \union {"running", "completed"} /\ valid \in BOOLEAN
    BY DEF SlotInv, StoryInv, FieldsOK, InStageTwo, Asking
  <2> QED BY <2>1, <2>2, <2>3 DEF SlotTypeOK, ExecutedRows, DropReasons
<1> QED BY SlotStory, <1>1, PTL

\* A confirmed candidate is in the corpus when Medusa continues.
THEOREM ConfirmedReachesMedusa == SlotSpec => []ConfirmedIsImported
<1>1. SlotInv => ConfirmedIsImported
  <2> SUFFICES ASSUME SlotInv, stage = 3, NEW i \in 1..Len(executed),
                      executed[i].status = "confirmed"
               PROVE  confirmations = <<executed[i].query>>
    BY DEF ConfirmedIsImported
  <2>1. WentOn(Len(executed) - 1)
        /\ ((WentOn(Len(executed)) /\ confirmations = <<>>) \/ ConfirmedLast)
    BY DEF SlotInv, StoryInv, Searched
  <2>2. Len(executed) \in Nat /\ ~WentOn(Len(executed))
    BY DEF SlotInv, StoryInv, FieldsOK, WentOn
  <2>3. i = Len(executed)
    BY <2>1, <2>2 DEF WentOn
  <2> QED BY <2>1, <2>2, <2>3 DEF ConfirmedLast
<1> QED BY SlotStory, <1>1, PTL

\* What the auditor asks of an evaluation-valid slot holds of every one.
THEOREM ValidSlotSurvives == SlotSpec => []ValidSurvivesAudit
<1>1. SlotInv => ValidSurvivesAudit
  <2> DEFINE confirmed_ == {i \in 1..Len(executed) : executed[i].status = "confirmed"}
             given_ == [i \in 1..(IF confirmed_ = {} THEN 0 ELSE 1) |->
                          executed[Len(executed)].query]
  <2> SUFFICES ASSUME SlotInv, valid
               PROVE  /\ Len(records) = First + 4
                      /\ \A i \in 1..4 : /\ records[First + i].name = StageOrder[i]
                                         /\ records[First + i].finished <= Total
                                         /\ records[First + i].attempted \/ (i = 2 /\ ~Augments)
                      /\ \A i \in 1..Len(executed) : executed[i].status \notin HardResults
                      /\ confirmed_ \subseteq {Len(executed)}
                      /\ confirmations = given_
                      /\ Augments => (records[First + 2].status = "completed" <=> confirmations # <<>>)
    BY DEF ValidSurvivesAudit, First
  <2>1. rowStatus = "completed" /\ phase = "done" /\ ~SomeStageLate
    BY DEF SlotInv, StoryInv, Concluded
  <2>2. Len(records) = First + 4 /\ First \in {0, 1}
    BY <2>1, FirstFact DEF SlotInv, StoryInv, InOrder, Count
  <2>3. ASSUME NEW i \in 1..4
        PROVE  /\ records[First + i].name = StageOrder[i]
               /\ records[First + i].finished <= Total /\ ~records[First + i].late
               /\ records[First + i].attempted \/ (i = 2 /\ ~Augments)
    <3>1. First + i \in 1..Len(records)
      BY <2>2
    <3>2. ~records[First + i].late /\ Derived(records[First + i]) /\ records[First + i] \in Record
      BY <2>1, <3>1 DEF SomeStageLate, SlotInv, LedgerInv, RecordsDerived, LedgerTypeOK
    <3>3. records[First + i].finished <= Total
      BY <3>2, LedgerAssumption DEF Derived, Record, Instants
    <3> QED BY <2>1, <2>2, <3>2, <3>3 DEF SlotInv, StoryInv, InOrder, Count
  <2>4. /\ WentOn(Len(executed) - 1) /\ Len(executed) \in Nat
        /\ (WentOn(Len(executed)) /\ confirmations = <<>>) \/ ConfirmedLast
    BY <2>1 DEF SlotInv, StoryInv, Searched, FieldsOK
  <2>5. Augments => (records[First + 2].status = "completed" <=> confirmations # <<>>)
    BY <2>1, <2>3 DEF SlotInv, StoryInv, Recorded
  <2>6. CASE WentOn(Len(executed)) /\ confirmations = <<>>
    <3>1. /\ confirmed_ = {} /\ \A i \in 1..Len(executed) : executed[i].status \notin HardResults
      BY <2>6 DEF WentOn
    <3>2. given_ = <<>>
      BY <3>1
    <3> QED BY <2>2, <2>3, <2>5, <2>6, <3>1, <3>2
  <2>7. CASE ConfirmedLast
    <3>1. confirmed_ = {Len(executed)}
      BY <2>4, <2>7 DEF WentOn, ConfirmedLast, LastStatus
    <3>2. \A i \in 1..Len(executed) : executed[i].status \notin HardResults
      BY <2>4, <2>7 DEF WentOn, ConfirmedLast, LastStatus, HardResults
    <3>3. given_ = <<executed[Len(executed)].query>>
      BY <3>1
    <3> QED BY <2>2, <2>3, <2>5, <2>7, <3>1, <3>2, <3>3 DEF ConfirmedLast
  <2> QED BY <2>4, <2>6, <2>7
<1> QED BY SlotStory, <1>1, PTL

----------------------------------------------------------------------------
(* What the auditor reads of the queries                                    *)

Executing == phase \in Tools \union {"answered"}
Given == Among(decisions, GivenQuery)

\* Between two queries the scheduler has answered each time it was asked, and has
\* heard of each of its answers.
Waiting == phase = "ask" \/ (phase \in {"enter", "body"} /\ stage <= 2)

\* A query is given, executed and reported before the next one is asked for: the
\* three lists agree up to the query being executed, the last that was given.
InStep ==
  /\ Len(feedback) = Len(executed)
  /\ Len(Given) = Len(executed) + (IF Executing THEN 1 ELSE 0)
  /\ \A i \in 1..Len(executed) :
       /\ Given[i].query = executed[i].query
       /\ feedback[i].query = executed[i].query /\ feedback[i].status = executed[i].status
  /\ Executing => Given[Len(Given)].query = current /\ Len(decisions) = Len(executed) + 1
  /\ Waiting => Len(decisions) = Len(executed)
  /\ \A i \in 1..Len(decisions) : decisions[i].heard = i - 1

\* The decisions of a scheduler are rows, and those that gave a query keep their order.
LEMMA GivenRows ==
  ASSUME SchedulerTypeOK
  PROVE  /\ decisions \in Seq([query : Queries \union {NoQuery}, heard : Nat, reason : Reasons])
         /\ Given \in Seq([query : Queries \union {NoQuery}, heard : Nat, reason : Reasons])
<1> DEFINE T == [query : Queries \union {NoQuery}, heard : Nat, reason : Reasons]
<1>1. decisions \in Seq(T)
  BY DEF SchedulerTypeOK
<1> HIDE DEF T
<1>2. Given \in Seq(T)
  BY <1>1, AmongPlaces DEF Given
<1> QED BY <1>1, <1>2 DEF T

\* A decision is appended, and so is the query it gives, if it gives one.
LEMMA AskedInStep ==
  ASSUME SlotInv, AskNext, InStep
  PROVE  InStep'
<1> USE DEF SlotInv, StoryInv, SchedulerInv
<1> DEFINE T == [query : Queries \union {NoQuery}, heard : Nat, reason : Reasons]
           selected == decisions'[Len(decisions')].query
<1>1. /\ phase = "ask" /\ executed' = executed /\ stage' = stage /\ NextQuery(TimeLeft)
      /\ \/ selected = NoQuery /\ phase' = "settle"
         \/ selected # NoQuery /\ phase' = "prefix" /\ current' = selected
  BY DEF AskNext, row
<1>2. PICK q \in Queries \union {NoQuery}, reason \in Reasons : Decide(q, reason)
  <2>1. ASSUME NEW q \in InQueue(one) \union InQueue(two), Give(q) PROVE Decide(q, "selected") /\ q \in Queries
    BY <2>1, QueueKinds DEF Give
  <2>2. ASSUME NEW reason \in Reasons, Decline(reason) PROVE Decide(NoQuery, reason)
    BY <2>2 DEF Decline
  <2> QED BY <1>1, <2>1, <2>2 DEF NextQuery, DeclineConfirmed, DeclineNoTime, Select, Pool,
          PromoteOnExhaustion, DeclineWithoutProgress, DeclineExhausted, Reasons
<1> DEFINE d == [query |-> q, heard |-> Len(feedback), reason |-> reason]
<1>3. decisions' = Append(decisions, d) /\ feedback' = feedback
  BY <1>2 DEF Decide
<1>4. /\ d \in T /\ d.query = q /\ d.heard = Len(feedback)
      /\ d \in GivenQuery <=> q # NoQuery
  <2>1. Len(feedback) \in Nat
    BY DEF SchedulerTypeOK
  <2> QED BY <2>1, SchedulerAssumption DEF GivenQuery
<1>5. decisions \in Seq(T) /\ Given \in Seq(T)
  BY GivenRows
<1> HIDE DEF d, T
<1>6. Given' = IF d \in GivenQuery THEN Append(Given, d) ELSE Given
  BY <1>3, <1>4, <1>5, AmongAppend DEF Given
<1>7. /\ Len(decisions') = Len(decisions) + 1 /\ decisions'[Len(decisions')] = d
      /\ \A i \in 1..Len(decisions) : decisions'[i] = decisions[i]
      /\ Len(decisions) \in Nat
  BY <1>3, <1>4, <1>5
<1>8. Waiting /\ ~Executing /\ Len(executed) \in Nat
  BY <1>1 DEF Waiting, Executing, Tools, FieldsOK
<1>9. selected = q
  BY <1>4, <1>7
<1>10. \A i \in 1..Len(decisions') : decisions'[i].heard = i - 1
  BY <1>4, <1>7, <1>8 DEF InStep
<1>11. CASE q = NoQuery
  <2>1. Given' = Given /\ ~Executing' /\ ~Waiting'
    BY <1>1, <1>4, <1>6, <1>9, <1>11 DEF Executing, Waiting, Tools
  <2> QED BY <1>1, <1>3, <1>8, <1>10, <2>1 DEF InStep
<1>12. CASE q # NoQuery
  <2>1. Executing' /\ ~Waiting' /\ current' = q
    BY <1>1, <1>9, <1>12 DEF Executing, Waiting, Tools
  <2>2. /\ Len(Given') = Len(Given) + 1 /\ Given'[Len(Given')] = d
        /\ \A i \in 1..Len(Given) : Given'[i] = Given[i]
        /\ Len(Given) \in Nat
    BY <1>4, <1>5, <1>6, <1>12
  <2> QED BY <1>1, <1>3, <1>4, <1>7, <1>8, <1>10, <2>1, <2>2 DEF InStep
<1> QED BY <1>11, <1>12

\* The result of the query that was given last is recorded by both.
LEMMA ReportedInStep ==
  ASSUME SlotInv, Report, InStep
  PROVE  InStep'
<1> USE DEF SlotInv, StoryInv, SchedulerInv
<1> DEFINE e == [query |-> current, status |-> result, dropped |-> dropped]
           f == [query |-> current, status |-> result]
           n == Len(executed)
<1>1. /\ phase = "answered" /\ phase' = AfterResult /\ executed' = Append(executed, e)
      /\ feedback' = Append(feedback, f) /\ decisions' = decisions /\ stage' = stage
  BY DEF Report, RecordFeedback, ExecutedRow
<1>2. e.query = current /\ e.status = result /\ f.query = current /\ f.status = result
  OBVIOUS
<1> HIDE DEF e, f
<1>3. /\ n \in Nat /\ Len(executed') = n + 1 /\ executed'[n + 1] = e
      /\ \A i \in 1..n : executed'[i] = executed[i]
  BY <1>1 DEF FieldsOK
<1>4. /\ Len(feedback') = n + 1 /\ feedback'[n + 1] = f
      /\ \A i \in 1..n : feedback'[i] = feedback[i]
  BY <1>1, <1>3 DEF InStep, SchedulerTypeOK
<1>5. Given' = Given
  BY <1>1 DEF Given
<1>6. Executing /\ ~Executing' /\ phase' \in {"import", "raise", "ask"}
  BY <1>1 DEF Executing, Tools, AfterResult
<1>7. Len(Given) = n + 1 /\ Given[n + 1].query = current /\ Len(decisions) = n + 1
  BY <1>6 DEF InStep
<1>8. ASSUME NEW i \in 1..(n + 1)
      PROVE  /\ Given[i].query = executed'[i].query
             /\ feedback'[i].query = executed'[i].query
             /\ feedback'[i].status = executed'[i].status
  <2>1. i \in 1..n \/ i = n + 1
    BY <1>3
  <2> QED BY <1>2, <1>3, <1>4, <1>7, <2>1 DEF InStep
<1> QED BY <1>1, <1>3, <1>4, <1>5, <1>6, <1>7, <1>8 DEF InStep

\* Every other step leaves the lists alone, and ends no query.
LEMMA LeftInStep ==
  ASSUME InStep, UNCHANGED <<decisions, feedback, executed, current>>,
         Executing' = Executing, Waiting' => Waiting
  PROVE  InStep'
<1>1. Given' = Given
  BY DEF Given
<1> QED BY <1>1 DEF InStep

\* Every step of the slot keeps its queries in step with the scheduler.
LEMMA StaysInStep == SlotInv /\ InStep /\ [SlotNext]_allVars => InStep'
<1> SUFFICES ASSUME SlotInv, InStep, [SlotNext]_allVars PROVE InStep'
  OBVIOUS
<1> USE DEF Executing, Waiting
<1>1. CASE Enter \/ Refused \/ SkipAugmentation
  <2>1. /\ UNCHANGED <<decisions, feedback, executed, current>>
        /\ phase = "enter" /\ phase' \in {"enter", "body", "finally"}
        /\ phase' # "finally" => stage' = stage \/ stage' = 3
    BY <1>1 DEF Enter, Refused, SkipAugmentation, Staged, Stop, schedulerVars, query, row
  <2> QED BY <2>1, LeftInStep DEF Tools
<1>2. CASE StageFails \/ NativeRefused \/ ImportFails \/ HardResult
  <2>1. PICK status : Raise(status)
    BY <1>2 DEF StageFails, NativeRefused, ImportFails, HardResult
  <2>2. /\ UNCHANGED <<decisions, feedback, executed, current>>
        /\ phase \in {"body", "import", "raise"} /\ phase' = "finally"
    BY <1>2, <2>1 DEF Raise, Stop, schedulerVars, query, StageFails, NativeRefused, ImportFails, HardResult
  <2> QED BY <2>2, LeftInStep DEF Tools
<1>3. CASE InputCopied \/ NativeReturns \/ EvidenceAccepted \/ AugmentationDone
  <2>1. /\ Leave /\ phase \in {"body", "leave"}
        /\ phase = "body" => stage # 2
        /\ phase = "leave" => stage = 2
    BY <1>3 DEF InputCopied, NativeReturns, EvidenceAccepted, AugmentationDone,
       SlotInv, StoryInv, Placed, InStageTwo
  <2>2. /\ UNCHANGED <<decisions, feedback, executed, current>>
        /\ phase' \in {"enter", "finally"} /\ stage' = stage + 1
    BY <2>1 DEF Leave, schedulerVars, query
  <2>3. stage \in 1..5
    BY DEF SlotInv, StoryInv, FieldsOK
  <2> QED BY <2>1, <2>2, <2>3, LeftInStep DEF Tools
<1>4. CASE PlansMade \/ QueriesUsed \/ Import \/ Settle \/ Finally
  <2>1. /\ UNCHANGED <<decisions, feedback, executed, current>>
        /\ \/ phase = "body" /\ stage = 2 /\ phase' = "ask"
           \/ /\ phase \in {"ask", "import", "settle", "finally"}
              /\ phase' \in {"settle", "leave", "done"}
    BY <1>4 DEF PlansMade, QueriesUsed, Import, Settle, Finally, schedulerVars, query, row
  <2> QED BY <2>1, LeftInStep DEF Tools
<1>5. CASE ToolReturns \/ ToolFails \/ OutOfTime \/ DropCandidate
  <2>1. /\ UNCHANGED <<decisions, feedback, executed, current>>
        /\ phase \in Tools /\ phase' \in Tools \union {"answered"}
    BY <1>5 DEF ToolReturns, ToolFails, OutOfTime, DropCandidate, QueryOnly, Answer, Tools, AfterTool,
       schedulerVars, row
  <2> QED BY <2>1, LeftInStep DEF Tools
<1>6. CASE AskNext \/ Report
  BY <1>6, AskedInStep, ReportedInStep
<1>7. CASE Tick /\ UNCHANGED <<schedulerVars, slotVars>>
  BY <1>7, LeftInStep DEF schedulerVars, slotVars, query, row
<1>8. CASE UNCHANGED allVars
  BY <1>8, LeftInStep DEF allVars, schedulerVars, slotVars, query, row
<1> QED BY <1>1, <1>2, <1>3, <1>4, <1>5, <1>6, <1>7, <1>8 DEF SlotNext, Slot

\* The executed queries are the scheduled ones in their order, and every decision was
\* made with the results of all the queries before it.
THEOREM SchedulerIsNeverBehind == SlotSpec => []HeardBeforeAsked
<1>1. SlotInit => InStep
  <2> SUFFICES ASSUME SlotInit PROVE InStep
    OBVIOUS
  <2>1. decisions = <<>> /\ feedback = <<>> /\ executed = <<>> /\ phase = "enter"
    BY DEF SlotInit, SchedulerInit
  <2>2. Given = <<>>
    BY <2>1, AmongEmpty DEF Given
  <2> QED BY <2>1, <2>2 DEF InStep, Executing, Waiting, Tools
<1>2. SlotInv /\ InStep /\ [SlotNext]_allVars => InStep'
  BY StaysInStep
<1>3. SlotInv /\ InStep => HeardBeforeAsked
  <2> SUFFICES ASSUME SlotInv, InStep PROVE HeardBeforeAsked
    OBVIOUS
  <2>1. Scheduled = [i \in 1..Len(Given) |-> Given[i].query]
    BY DEF Scheduled, Given
  <2>2. Len(Given) \in Nat /\ Len(executed) \in Nat /\ Len(executed) <= Len(Given)
    BY GivenRows DEF SlotInv, SchedulerInv, StoryInv, FieldsOK, InStep
  <2>3. /\ Len(Scheduled) = Len(Given)
        /\ \A i \in 1..Len(executed) : Scheduled[i] = Given[i].query
    BY <2>1, <2>2
  <2> QED BY <2>3 DEF InStep, HeardBeforeAsked, Executing
<1> QED BY <1>1, <1>2, <1>3, SlotStory, PTL DEF SlotSpec
=============================================================================
