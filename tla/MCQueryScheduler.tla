------------------------- MODULE MCQueryScheduler -------------------------
(* Queues of up to two plans: enough for a promotion before and after the     *)
(* one-call queue is spent.                                                   *)
EXTENDS QueryScheduler
CONSTANTS a, b, c, d
MCOneQueues == {<<>>, <<a>>, <<a, b>>}
MCTwoQueues == {<<>>, <<c>>, <<c, d>>}
MCReports == {"no_model_complete", "timeout", "candidate_rejected", "confirmed"}
=============================================================================
