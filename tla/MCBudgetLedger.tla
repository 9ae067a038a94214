-------------------------- MODULE MCBudgetLedger --------------------------
(* A budget of three with one second precharged, a clock that shows two      *)
(* instants beyond it and room for three records after the precharge.        *)
EXTENDS BudgetLedger
=============================================================================
