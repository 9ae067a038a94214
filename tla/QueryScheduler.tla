--------------------------- MODULE QueryScheduler ---------------------------
(***************************************************************************)
(* The choice of the next symbolic query of a Stage 5 arm: QueryScheduler   *)
(* (stage5_scheduler.py).  The arm has one queue of one-call plans and one  *)
(* of two-call plans.  Two arms use one queue each; the adaptive arm starts *)
(* with one-call plans and is promoted to the two-call queue, for good, by  *)
(* what it hears of its queries.                                            *)
(*                                                                         *)
(* The caller is left open: it asks for a query with any remaining time and *)
(* reports any status of any query it was given.  A report the methods      *)
(* refuse raises and changes nothing.                                       *)
(***************************************************************************)
EXTENDS Integers, Sequences

CONSTANTS
  OneQueues,     \* the one-call queues an arm may have
  TwoQueues,     \* the two-call queues an arm may have
  NoQuery,       \* next_query returns None
  MinQuery,      \* minimum_query_seconds
  Reserve,       \* continuation_reserve_seconds
  Reports,       \* bound: the reports the caller makes
  MaxDecisions,  \* bound: times a scheduler is asked
  MaxFeedback    \* bound: reports a scheduler is given

MODES == {"symbolic_one", "symbolic_two", "symbolic_adaptive"}
NO_PROGRESS == {"no_candidate", "no_model_complete", "all_paths_reverted"}
TERMINAL_ERRORS ==
  {"timeout", "unsupported", "tool_error", "invalid_model", "replay_mismatch",
   "state_mismatch", "observer_mismatch", "result_mismatch", "decode_error",
   "prefix_mismatch", "prefix_incomplete", "incomplete", "repaired_regression_failure"}
FeedbackStatuses == NO_PROGRESS \union TERMINAL_ERRORS \union {"confirmed", "candidate_rejected"}

InQueue(queue) == {queue[i] : i \in 1..Len(queue)}
OneCalls == UNION {InQueue(queue) : queue \in OneQueues}
TwoCalls == UNION {InQueue(queue) : queue \in TwoQueues}
Queries == OneCalls \union TwoCalls

\* __post_init__ refuses a repeated query and a query in the wrong queue.
ASSUME SchedulerAssumption ==
  /\ OneQueues \subseteq Seq(OneCalls) /\ TwoQueues \subseteq Seq(TwoCalls)
  /\ \A queue \in OneQueues \union TwoQueues :
       \A i, j \in 1..Len(queue) : queue[i] = queue[j] => i = j
  /\ OneCalls \intersect TwoCalls = {} /\ NoQuery \notin Queries
  /\ MinQuery \in Nat \ {0} /\ Reserve \in Nat /\ Reports \subseteq FeedbackStatuses
  /\ MaxDecisions \in Nat /\ MaxFeedback \in Nat

VARIABLES
  mode,       \* the arm
  one, two,   \* its queues
  attempted,  \* the queries it was given
  feedback,   \* what was reported, [query, status]
  promoted,   \* the adaptive arm uses the two-call queue
  confirmed,  \* a violation was confirmed
  decisions   \* [query, heard, reason]; heard counts the reports known then

schedulerVars == <<mode, one, two, attempted, feedback, promoted, confirmed, decisions>>
queues == <<mode, one, two>>

SchedulerInit ==
  /\ mode \in MODES /\ one \in OneQueues /\ two \in TwoQueues
  /\ attempted = {} /\ feedback = <<>> /\ decisions = <<>>
  /\ promoted = FALSE /\ confirmed = FALSE

----------------------------------------------------------------------------
(* next_query *)

Pool ==
  IF mode = "symbolic_two" \/ (mode = "symbolic_adaptive" /\ promoted) THEN two ELSE one

IsNext(query, queue) ==
  \E i \in 1..Len(queue) :
    /\ query = queue[i] /\ query \notin attempted
    /\ \A j \in 1..(i - 1) : queue[j] \in attempted

Spent(queue) == InQueue(queue) \subseteq attempted

Decide(query, reason) ==
  /\ Len(decisions) < MaxDecisions
  /\ decisions' = Append(decisions,
       [query |-> query, heard |-> Len(feedback), reason |-> reason])
  /\ UNCHANGED <<queues, feedback, confirmed>>

Give(query) ==
  Decide(query, "selected") /\ attempted' = attempted \union {query}

Decline(reason) ==
  Decide(NoQuery, reason) /\ UNCHANGED attempted

\* There is time for a query and for the native continuation after it.
Fits(remaining) == remaining >= MinQuery + Reserve

DeclineConfirmed ==
  confirmed /\ Decline("confirmed_property_violation") /\ UNCHANGED promoted

DeclineNoTime(remaining) ==
  /\ ~confirmed /\ ~Fits(remaining)
  /\ Decline("insufficient_budget_for_query_and_continuation") /\ UNCHANGED promoted

Select(remaining) ==
  /\ ~confirmed /\ Fits(remaining)
  /\ \E query \in InQueue(Pool) : IsNext(query, Pool) /\ Give(query)
  /\ UNCHANGED promoted

\* The adaptive arm has used up its one-call plans.
OneCallsSpent == mode = "symbolic_adaptive" /\ ~promoted /\ Spent(one)
OneCallReports == {feedback[i].status : i \in {n \in 1..Len(feedback) : feedback[n].query \in OneCalls}}

\* It is promoted if all it heard of them was a complete lack of progress or the
\* rejection of their candidates.
PromoteOnExhaustion(remaining) ==
  /\ ~confirmed /\ Fits(remaining) /\ OneCallsSpent
  /\ OneCallReports # {} /\ OneCallReports \subseteq NO_PROGRESS \union {"candidate_rejected"}
  /\ promoted' = TRUE
  /\ \/ \E query \in InQueue(two) : IsNext(query, two) /\ Give(query)
     \/ Spent(two) /\ Decline("query_space_exhausted")

DeclineWithoutProgress(remaining) ==
  /\ ~confirmed /\ Fits(remaining) /\ OneCallsSpent
  /\ ~(OneCallReports \subseteq NO_PROGRESS \union {"candidate_rejected"})
  /\ Decline("one_call_exhausted_without_complete_no_progress") /\ UNCHANGED promoted

DeclineExhausted(remaining) ==
  /\ ~confirmed /\ Fits(remaining) /\ Spent(Pool)
  /\ OneCallsSpent => OneCallReports = {}
  /\ Decline("query_space_exhausted") /\ UNCHANGED promoted

NextQuery(remaining) ==
  \/ DeclineConfirmed \/ DeclineNoTime(remaining)
  \/ Select(remaining) \/ PromoteOnExhaustion(remaining)
  \/ DeclineWithoutProgress(remaining) \/ DeclineExhausted(remaining)

----------------------------------------------------------------------------
(* record_feedback *)

\* Faults: an error promotes like a lack of progress; a confirmation does not end
\* the search.
RecordFeedbackPromotingOnErrors(query, status) ==
  /\ query \in attempted /\ status \in FeedbackStatuses /\ Len(feedback) < MaxFeedback
  /\ feedback' = Append(feedback, [query |-> query, status |-> status])
  /\ confirmed' = (confirmed \/ status = "confirmed")
  /\ promoted' = (promoted \/ (mode = "symbolic_adaptive" /\ query \in OneCalls
                                /\ status \in NO_PROGRESS \union TERMINAL_ERRORS))
  /\ UNCHANGED <<queues, attempted, decisions>>
RecordFeedbackUnconfirmed(query, status) ==
  /\ query \in attempted /\ status \in FeedbackStatuses /\ Len(feedback) < MaxFeedback
  /\ feedback' = Append(feedback, [query |-> query, status |-> status])
  /\ promoted' = (promoted \/ (mode = "symbolic_adaptive" /\ query \in OneCalls
                                /\ status \in NO_PROGRESS))
  /\ UNCHANGED <<queues, attempted, decisions, confirmed>>

RecordFeedback(query, status) ==
  /\ query \in attempted /\ status \in FeedbackStatuses /\ Len(feedback) < MaxFeedback
  /\ feedback' = Append(feedback, [query |-> query, status |-> status])
  /\ confirmed' = (confirmed \/ status = "confirmed")
  /\ promoted' = (promoted \/ (mode = "symbolic_adaptive" /\ query \in OneCalls
                                /\ status \in NO_PROGRESS))
  /\ UNCHANGED <<queues, attempted, decisions>>

SchedulerNext ==
  \/ \E remaining \in {0, MinQuery + Reserve} : NextQuery(remaining)
  \/ \E query \in attempted, status \in Reports : RecordFeedback(query, status)

SchedulerSpec == SchedulerInit /\ [][SchedulerNext]_schedulerVars

----------------------------------------------------------------------------
(* Properties *)

Reasons ==
  {"selected", "confirmed_property_violation", "query_space_exhausted",
   "insufficient_budget_for_query_and_continuation",
   "one_call_exhausted_without_complete_no_progress"}

\* Every field keeps to the values the scheduler can hold; only the adaptive arm is
\* ever promoted.
SchedulerTypeOK ==
  /\ mode \in MODES /\ one \in OneQueues /\ two \in TwoQueues
  /\ attempted \subseteq Queries
  /\ feedback \in Seq([query : Queries, status : FeedbackStatuses])
  /\ decisions \in Seq([query : Queries \union {NoQuery}, heard : Nat, reason : Reasons])
  /\ promoted \in BOOLEAN /\ confirmed \in BOOLEAN
  /\ promoted => mode = "symbolic_adaptive"

\* No query is given twice, and attempted is exactly what was given.
AskedOnce ==
  /\ attempted = {decisions[i].query : i \in 1..Len(decisions)} \ {NoQuery}
  /\ \A i, j \in 1..Len(decisions) :
       i # j /\ decisions[i].query # NoQuery => decisions[i].query # decisions[j].query

\* The search ends with the first confirmed violation: no decision that knew of
\* one gave a query ("stop on confirmation", the adaptive rule of the configs).
QuietAfterConfirmation ==
  \A i \in 1..Len(decisions), n \in 1..Len(feedback) :
    n <= decisions[i].heard /\ feedback[n].status = "confirmed" => decisions[i].query = NoQuery

\* What justifies two-call queries at a moment when that many reports were known
\* and that many decisions made.
EarnedBy(reports, decided) ==
  LET known == {n \in 1..reports : feedback[n].query \in OneCalls}
  IN  \/ \E n \in known : feedback[n].status \in NO_PROGRESS
      \/ /\ known # {}
         /\ \A n \in known : feedback[n].status = "candidate_rejected"
         /\ \A query \in InQueue(one) : \E j \in 1..decided : decisions[j].query = query

\* The adaptive rule: a two-call query is given only after some moment at which a
\* one-call query had been reported to make no progress at all, or at which every
\* one-call plan had been tried and all that was reported of them was that their
\* candidates were rejected.
TwoCallsEarned ==
  \A i \in 1..Len(decisions) :
    mode = "symbolic_adaptive" /\ decisions[i].query \in TwoCalls =>
      \E reports \in 0..decisions[i].heard : EarnedBy(reports, i - 1)

\* Promotion is for good: after a two-call query the adaptive arm never gives a
\* one-call query.
NeverBack ==
  \A i, j \in 1..Len(decisions) :
    mode = "symbolic_adaptive" /\ decisions[i].query \in TwoCalls /\ i < j =>
      decisions[j].query \notin OneCalls
=============================================================================
