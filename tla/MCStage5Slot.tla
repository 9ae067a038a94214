---------------------------- MODULE MCStage5Slot ----------------------------
(* One query of each length, a budget of three and a clock that shows one     *)
(* instant beyond it: a stage may overrun and a query run out of time.        *)
EXTENDS Stage5Slot
CONSTANTS a, b
MCStages == {StageOrder[i] : i \in 1..4}
MCOutcomes == {"skipped", "no_eligible_prefix", "no_candidate"}
MCErrors == HardResults \union {"timeout", "campaign_deadline", "evidence_error"}
MCOneQueues == {<<>>, <<a>>}
MCTwoQueues == {<<>>, <<b>>}
MCReports == {"no_model_complete", "timeout", "tool_error", "candidate_rejected", "confirmed"}
=============================================================================
