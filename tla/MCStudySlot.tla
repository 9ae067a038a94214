---------------------------- MODULE MCStudySlot ----------------------------
(* One slot with a budget of four and one instant precharged; the clock       *)
(* shows one instant beyond the budget, so that a stage may overrun it.       *)
EXTENDS StudySlot
MCStages == StageNames
MCOutcomes == NegativeResults \union {"skipped", "no_eligible_prefix"}
=============================================================================
