--------------------------- MODULE Stage1Pipeline ---------------------------
(***************************************************************************)
(* run_pipeline (pipeline.py): build, warm up, select prefixes, check that    *)
(* the observer is neutral, then try one prefix after the other until one     *)
(* yields a candidate that was replayed by Foundry and by Medusa (and, for a  *)
(* safety scenario, is harmless on the repaired contract).  Every tool may    *)
(* answer any of its statuses or raise; the deadline of the solver passes     *)
(* when it likes.                                                             *)
(***************************************************************************)
EXTENDS ToolVerdicts

CONSTANT MaxPrefixes  \* max_prefixes

SearchAssumption == MaxPrefixes \in Nat

VARIABLES
  pc,        \* what is done next
  mode,      \* scenario.mode: "reach" or "safety"
  prefixes,  \* number of prefixes selected
  late,      \* the deadline of the solver has passed
  attempts,  \* report["attempts"]
  elapsed,   \* report["stage_elapsed_seconds"] of the three stages of an attempt
  confirmed, \* confirmed_count
  status     \* report["status"]

vars == <<pc, mode, prefixes, late, attempts, elapsed, confirmed, status>>

Stages == {"s3_harness_prefix_replay", "s4_halmos_solve", "s5_replay_reinsert"}
NoTime == [s \in Stages |-> 0]

\* The status of each check of an attempt, "none" until there is one.
Fresh == [prefix_check |-> "none", solve |-> "none", replay |-> "none", admission |-> "none",
          evidence |-> "none", repaired |-> "none", elapsed |-> NoTime]

\* What a build, the codec, a campaign or a comparison of evidence raises.
Raised == {"tool_error", "timeout", "evidence_error", "state_mismatch", "replay_mismatch"}

Expected == IF mode = "safety" THEN "violation_confirmed" ELSE "reachable_confirmed"
ReplayStatuses == {"timeout", "tool_error", "result_mismatch", "replay_mismatch"}

Init ==
  /\ pc = "build" /\ mode \in {"reach", "safety"} /\ prefixes = 0 /\ late = FALSE
  /\ attempts = <<>> /\ elapsed = NoTime /\ confirmed = 0 /\ status = "incomplete"

DeadlinePasses ==
  /\ pc \notin {"build", "warmup", "select", "controls", "done"} /\ ~late /\ late' = TRUE
  /\ UNCHANGED <<pc, mode, prefixes, attempts, elapsed, confirmed, status>>

Report(s) == pc' = "done" /\ status' = s

----------------------------------------------------------------------------
(* Before the attempts *)

Prepare ==
  /\ \E step \in {<<"build", "warmup">>, <<"warmup", "select">>, <<"controls", "loop">>} :
       pc = step[1] /\ pc' = step[2]
  /\ UNCHANGED <<mode, prefixes, late, attempts, elapsed, confirmed, status>>

SelectPrefixes ==
  /\ pc = "select" /\ prefixes' \in 0..MaxPrefixes
  /\ IF prefixes' = 0 THEN Report("no_eligible_prefix") ELSE pc' = "controls" /\ UNCHANGED status
  /\ UNCHANGED <<mode, late, attempts, elapsed, confirmed>>

PreparationRaises ==
  /\ pc \in {"build", "warmup", "select", "controls"}
  /\ \E s \in Raised \union (IF pc = "controls" THEN {"observer_mismatch"} ELSE {}) : Report(s)
  /\ UNCHANGED <<mode, prefixes, late, attempts, elapsed, confirmed>>

----------------------------------------------------------------------------
(* The attempts *)

\* Fault: a tool error counts only if nothing else was learnt.
SummaryOfLessons ==
  LET states == (UNION {{attempts[i].prefix_check, attempts[i].solve, attempts[i].replay,
                         attempts[i].admission} : i \in DOMAIN attempts}) \ {"none"}
      some(S) == states \intersect S # {}
  IN  IF some({"stuck", "prefix_incomplete", "all_paths_reverted"}) THEN "inconclusive"
      ELSE IF some({"prefix_mismatch", "replay_mismatch", "invalid_model"}) THEN "validation_failed"
      ELSE IF some({"tool_error", "result_mismatch", "decode_error"}) THEN "tool_error"
      ELSE IF some({"timeout"}) THEN "timeout"
      ELSE IF states \subseteq {"prefix_confirmed", "no_witness_within_bounds"}
           THEN "no_witness_within_bounds"
      ELSE "no_confirmed_candidate"

Summary ==
  LET states == (UNION {{attempts[i].prefix_check, attempts[i].solve, attempts[i].replay,
                         attempts[i].admission} : i \in DOMAIN attempts}) \ {"none"}
      some(S) == states \intersect S # {}
  IN  IF some({"tool_error", "result_mismatch", "decode_error"}) THEN "tool_error"
      ELSE IF some({"timeout"}) THEN "timeout"
      ELSE IF some({"stuck", "prefix_incomplete", "all_paths_reverted"}) THEN "inconclusive"
      ELSE IF some({"prefix_mismatch", "replay_mismatch", "candidate_rejected", "invalid_model"})
           THEN "validation_failed"
      ELSE IF states # {} /\ states \subseteq {"prefix_confirmed", "no_witness_within_bounds"}
           THEN "no_witness_within_bounds"
      ELSE "no_confirmed_candidate"

Begin ==
  /\ pc = "loop" /\ Len(attempts) < prefixes /\ ~late
  /\ pc' = "prefix_check" /\ attempts' = Append(attempts, Fresh)
  /\ UNCHANGED <<mode, prefixes, late, elapsed, confirmed, status>>

\* Fault: what was learnt until the deadline is the result.
SummarizeAtDeadline ==
  /\ pc \in {"loop", "solve"} /\ late /\ Report(Summary)
  /\ UNCHANGED <<mode, prefixes, late, attempts, elapsed, confirmed>>

BudgetExhausted ==
  /\ pc \in {"loop", "solve"} /\ late
  /\ pc = "loop" => Len(attempts) < prefixes
  /\ Report("solve_budget_exhausted")
  /\ UNCHANGED <<mode, prefixes, late, attempts, elapsed, confirmed>>

Summarize ==
  /\ pc = "loop" /\ Len(attempts) = prefixes /\ Report(Summary)
  /\ UNCHANGED <<mode, prefixes, late, attempts, elapsed, confirmed>>

\* Fault: an attempt is given all the time its stage took so far.
MeasuredInAll(stage, attempt) ==
  \E d \in 0..1 :
    /\ elapsed' = [elapsed EXCEPT ![stage] = @ + d]
    /\ attempts' = [attempts EXCEPT ![Len(attempts)] =
                      [attempt EXCEPT !.elapsed[stage] = elapsed[stage] + d]]

\* ElapsedStages.measure, and the attempt's share of it, however the stage ends.
Measured(stage, attempt) ==
  \E d \in 0..1 :
    /\ elapsed' = [elapsed EXCEPT ![stage] = @ + d]
    /\ attempts' = [attempts EXCEPT ![Len(attempts)] =
                      [attempt EXCEPT !.elapsed[stage] = elapsed'[stage] - elapsed[stage]]]

This == attempts[Len(attempts)]
Same == UNCHANGED <<mode, prefixes, late>>

PrefixCheck ==
  /\ pc = "prefix_check" /\ Same /\ UNCHANGED <<confirmed, status>>
  /\ \E s \in PrefixStatuses :
       /\ Measured("s3_harness_prefix_replay", [This EXCEPT !.prefix_check = s])
       /\ pc' = IF s = "prefix_confirmed" THEN "solve" ELSE "loop"

Solve ==
  /\ pc = "solve" /\ ~late /\ Same /\ UNCHANGED <<confirmed, status>>
  /\ \E s \in GoalStatuses :
       /\ Measured("s4_halmos_solve", [This EXCEPT !.solve = s])
       /\ pc' = IF s = "candidate" THEN "replay" ELSE "loop"

\* A harness, a build, a file or another tool of a stage raises.
StageRaises ==
  /\ Same /\ UNCHANGED confirmed
  /\ \E s \in Raised : Report(s)
  /\ \/ pc = "prefix_check" /\ Measured("s3_harness_prefix_replay", This)
     \/ /\ pc = "prefix_check"
        /\ Measured("s3_harness_prefix_replay", [This EXCEPT !.prefix_check = "prefix_confirmed"])
     \/ pc = "solve" /\ ~late /\ Measured("s4_halmos_solve", This)
     \/ pc \in {"replay", "insert", "native", "evidence", "repaired", "repaired_native"}
        /\ Measured("s5_replay_reinsert", This)

\* Between the last two stages the candidate is written.
CandidateUnwritten ==
  /\ pc = "replay" /\ Report("tool_error") /\ Same /\ UNCHANGED <<attempts, elapsed, confirmed>>

Inside(next, attempt) ==
  /\ pc' = next /\ attempts' = [attempts EXCEPT ![Len(attempts)] = attempt]
  /\ UNCHANGED <<elapsed, confirmed, status>> /\ Same

Leaves(attempt) ==
  /\ pc' = "loop" /\ Measured("s5_replay_reinsert", attempt)
  /\ UNCHANGED <<confirmed, status>> /\ Same

\* Fault: only failed assertions stop a candidate.
ReplayUnlessMismatch ==
  /\ pc = "replay"
  /\ \/ \E s \in {Expected, "timeout", "result_mismatch"} : Inside("insert", [This EXCEPT !.replay = s])
     \/ Leaves([This EXCEPT !.replay = "replay_mismatch"])

Replay ==
  /\ pc = "replay"
  /\ \/ Inside("insert", [This EXCEPT !.replay = Expected])
     \/ \E s \in ReplayStatuses : Leaves([This EXCEPT !.replay = s])

\* Encoded and read back; a sequence of the warmup is no candidate.
Insert ==
  /\ pc = "insert"
  /\ Inside("native", This) \/ Leaves([This EXCEPT !.admission = "duplicate"])

Native ==
  /\ pc = "native"
  /\ \/ Leaves([This EXCEPT !.admission = "replay_mismatch"])
     \/ mode = "safety" /\ Inside("evidence", [This EXCEPT !.admission = "admitted_for_mutation"])
     \/ mode = "reach" /\ Inside("confirm", [This EXCEPT !.admission = "admitted_for_mutation"])

\* The violation is first seen at the suffix, and the repaired contract stands
\* the same sequence; anything else raises.
Evidence == pc = "evidence" /\ Inside("repaired", [This EXCEPT !.evidence = "violation_at_suffix"])
RepairedReplay ==
  /\ pc = "repaired" /\ Inside("repaired_native", [This EXCEPT !.repaired = "property_preserved"])
RepairedNative ==
  /\ pc = "repaired_native" /\ Inside("confirm", [This EXCEPT !.repaired = "native_preserved"])

Confirm ==
  /\ pc = "confirm" /\ Same
  /\ confirmed' = confirmed + 1
  /\ Report(IF mode = "safety" THEN "safety_confirmed" ELSE "stage1_confirmed")
  /\ Measured("s5_replay_reinsert", This)

Next ==
  \/ DeadlinePasses \/ Prepare \/ SelectPrefixes \/ PreparationRaises
  \/ Begin \/ BudgetExhausted \/ Summarize \/ PrefixCheck \/ Solve \/ StageRaises
  \/ CandidateUnwritten
  \/ Replay \/ Insert \/ Native \/ Evidence \/ RepairedReplay \/ RepairedNative \/ Confirm

Spec == Init /\ [][Next]_vars

----------------------------------------------------------------------------
(* Properties *)

\* A report that no witness exists within the bounds rests on every selected
\* prefix: each was tried, confirmed and solved to the end without a model.
NegativeMeansExplored ==
  status = "no_witness_within_bounds" =>
    /\ Len(attempts) = prefixes /\ prefixes > 0
    /\ \A i \in DOMAIN attempts :
         /\ attempts[i].prefix_check = "prefix_confirmed"
         /\ attempts[i].solve = "no_witness_within_bounds"

\* No result of a finished search hides that a tool failed or was stopped in one
\* of its attempts (test_tool_failures_are_not_reported_as_a_normal_search).
NoVerdictHidesFailure ==
  status \in {"no_witness_within_bounds", "no_confirmed_candidate", "validation_failed",
              "inconclusive"} =>
    \A i \in DOMAIN attempts :
      {attempts[i].prefix_check, attempts[i].solve, attempts[i].replay}
        \intersect {"tool_error", "result_mismatch", "decode_error", "timeout"} = {}

\* A confirmation is the first one, ends the search, and stands on every check
\* its scenario asks for, also on the repaired contract.
ConfirmedPassedAll ==
  status \in {"stage1_confirmed", "safety_confirmed"} =>
    /\ confirmed = 1 /\ attempts # <<>>
    /\ This.prefix_check = "prefix_confirmed" /\ This.solve = "candidate"
    /\ This.replay = Expected /\ This.admission = "admitted_for_mutation"
    /\ mode = "safety" => This.evidence = "violation_at_suffix" /\ This.repaired = "native_preserved"
    /\ \A i \in 1..Len(attempts) - 1 : attempts[i].admission # "admitted_for_mutation"

\* The times of the attempts add up to those of the run, also when a stage was
\* left by continue, by return or by an exception.
StageTimesAddUp ==
  \A s \in Stages :
    LET sum[n \in 0..Len(attempts)] == IF n = 0 THEN 0 ELSE sum[n - 1] + attempts[n].elapsed[s]
    IN  elapsed[s] = sum[Len(attempts)]
=============================================================================
