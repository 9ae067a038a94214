--------------------------- MODULE Stage5Mechanism ---------------------------
(***************************************************************************)
(* run_stage5_mechanism (stage5_pipeline.py): for every prefix and every plan *)
(* of it, check the prefix, solve the suffix and replay each candidate on the *)
(* flawed and on the repaired contract, in Foundry and in Medusa, until one   *)
(* is confirmed.  As in Stage1Pipeline every tool may answer any status or    *)
(* raise, and the deadline passes when it likes.                              *)
(***************************************************************************)
EXTENDS ToolVerdicts

CONSTANTS
  MaxPrefixes,   \* max_prefixes
  MaxPlans,      \* plans enumerate_plans may make for a prefix
  MaxCandidates  \* bound: assignments of one solver result

MechanismAssumption == MaxPrefixes \in Nat /\ MaxPlans \in Nat /\ MaxCandidates \in Nat

VARIABLES
  pc,       \* what is done next
  plans,    \* number of plans of each selected prefix
  late,     \* the deadline has passed
  prefix,   \* the prefix and
  plan,     \* the plan that are next
  attempts, \* report["attempts"]
  status    \* report["status"]

vars == <<pc, plans, late, prefix, plan, attempts, status>>

Raised == {"tool_error", "timeout", "evidence_error", "state_mismatch", "replay_mismatch"}
ReplayStatuses ==
  {"violation_confirmed", "timeout", "tool_error", "result_mismatch", "replay_mismatch"}
RepairedStatuses ==
  {"property_preserved", "timeout", "tool_error", "result_mismatch", "replay_mismatch"}

Init ==
  /\ pc = "prepare" /\ plans = <<>> /\ late = FALSE /\ prefix = 1 /\ plan = 1
  /\ attempts = <<>> /\ status = "running"

DeadlinePasses ==
  /\ pc \notin {"prepare", "done"} /\ ~late /\ late' = TRUE
  /\ UNCHANGED <<pc, plans, prefix, plan, attempts, status>>

Report(s) == pc' = "done" /\ status' = s /\ UNCHANGED <<plans, late, prefix, plan>>

\* Toolchain, build, warmup and the selection; a prefix may have no plan.
Prepare ==
  /\ pc = "prepare"
  /\ \/ \E s \in Raised : Report(s)
     \/ Report("no_eligible_prefix")
     \/ /\ \E n \in 1..MaxPrefixes : plans' \in [1..n -> 0..MaxPlans]
        /\ pc' = "loop" /\ UNCHANGED <<late, prefix, plan, status>>
  /\ UNCHANGED attempts

NextPrefix ==
  /\ pc = "loop" /\ prefix <= Len(plans) /\ plan > plans[prefix]
  /\ prefix' = prefix + 1 /\ plan' = 1
  /\ UNCHANGED <<pc, plans, late, attempts, status>>

Begin ==
  /\ pc = "loop" /\ prefix <= Len(plans) /\ plan <= plans[prefix] /\ ~late
  /\ pc' = "prefix_check" /\ plan' = plan + 1
  /\ attempts' = Append(attempts, [prefix |-> prefix, plan |-> plan, prefix_check |-> "none",
                                   solve |-> "none", status |-> "none", candidates |-> <<>>])
  /\ UNCHANGED <<plans, late, prefix, status>>

\* Fault: the deadline ends the search as if it were complete.
DeadlineEndsSearch ==
  /\ pc \in {"loop", "solve"} /\ late
  /\ Report("no_candidate") /\ UNCHANGED attempts

BudgetExhausted ==
  /\ late
  /\ pc = "solve" \/ (pc = "loop" /\ prefix <= Len(plans) /\ plan <= plans[prefix])
  /\ Report("solve_budget_exhausted") /\ UNCHANGED attempts

NoCandidate ==
  /\ pc = "loop" /\ prefix > Len(plans)
  /\ Report("no_candidate") /\ UNCHANGED attempts

Raises ==
  /\ pc \notin {"prepare", "loop", "done"}
  /\ \E s \in Raised : Report(s)
  /\ UNCHANGED attempts

This == attempts[Len(attempts)]
Goes(next, attempt) ==
  /\ pc' = next /\ attempts' = [attempts EXCEPT ![Len(attempts)] = attempt]
  /\ UNCHANGED <<plans, late, prefix, plan, status>>

PrefixCheck ==
  /\ pc = "prefix_check"
  /\ \E s \in PrefixStatuses :
       IF s = "prefix_confirmed" THEN Goes("solve", [This EXCEPT !.prefix_check = s])
       ELSE Goes("loop", [This EXCEPT !.prefix_check = s, !.status = s])

\* Every assignment of the solver is a candidate, tried in its order (listed here
\* at once; the code lists each when its turn comes).
Solve ==
  /\ pc = "solve" /\ ~late
  /\ \/ \E s \in SuffixStatuses \ {"candidate"} : Goes("loop", [This EXCEPT !.solve = s, !.status = s])
     \/ \E n \in 1..MaxCandidates :
          Goes("flawed_replay", [This EXCEPT !.solve = "candidate",
            !.candidates = [i \in 1..n |-> [flawed |-> "none", native |-> "none",
                                            repaired |-> "none", status |-> "pending"]]])

\* The candidate that is tried is the first pending one.
Untried == CHOOSE i \in DOMAIN This.candidates :
             /\ This.candidates[i].status = "pending"
             /\ \A j \in 1..i - 1 : This.candidates[j].status # "pending"
Now == This.candidates[Untried]
With(candidate) == [This EXCEPT !.candidates[Untried] = candidate]

\* On to the next assignment, or the plan is done.
Settle(s) ==
  LET attempt == With([Now EXCEPT !.status = s])
  IN  IF Untried < Len(This.candidates) THEN Goes("flawed_replay", attempt)
      ELSE Goes("loop", [attempt EXCEPT !.status = "no_candidate"])

FlawedReplay ==
  /\ pc = "flawed_replay"
  /\ \E s \in ReplayStatuses :
       IF s = "violation_confirmed" THEN Goes("flawed_native", With([Now EXCEPT !.flawed = s]))
       ELSE Settle(s)

\* A sequence the warmup had is no candidate; any other is validated natively,
\* or raises.
FlawedNative ==
  /\ pc = "flawed_native"
  /\ \/ Settle("duplicate_warmup_sequence")
     \/ Goes("repaired_replay", With([Now EXCEPT !.native = "violation_confirmed"]))

\* Fault: a repaired replay that failed to run shows no regression.
RepairedReplayLenient ==
  /\ pc = "repaired_replay"
  /\ \E s \in RepairedStatuses :
       IF s # "replay_mismatch" THEN Goes("repaired_native", With([Now EXCEPT !.repaired = s]))
       ELSE Settle("repaired_regression_failure")

RepairedReplay ==
  /\ pc = "repaired_replay"
  /\ \E s \in RepairedStatuses :
       IF s = "property_preserved" THEN Goes("repaired_native", With([Now EXCEPT !.repaired = s]))
       ELSE Settle("repaired_regression_failure")

\* The repaired contract was violated by the native replay.
RepairedRegression ==
  /\ pc = "repaired_native" /\ Report("repaired_regression_failure") /\ UNCHANGED attempts

\* The repaired contract made the same calls and kept its property.
RepairedNative ==
  /\ pc = "repaired_native" /\ Report("safety_confirmed")
  /\ attempts' = [attempts EXCEPT ![Len(attempts)] = With([Now EXCEPT !.status = "safety_confirmed"])]

Next ==
  \/ DeadlinePasses \/ Prepare \/ NextPrefix \/ Begin \/ BudgetExhausted \/ NoCandidate \/ Raises
  \/ PrefixCheck \/ Solve \/ FlawedReplay \/ FlawedNative \/ RepairedReplay
  \/ RepairedRegression \/ RepairedNative

Spec == Init /\ [][Next]_vars

----------------------------------------------------------------------------
(* Properties *)

Planned == UNION {{<<i, j>> : j \in 1..plans[i]} : i \in DOMAIN plans}
Tried == {<<attempts[n].prefix, attempts[n].plan>> : n \in DOMAIN attempts}

\* A report without a candidate went through every plan of every prefix once, and
\* through every assignment the solver gave.
NoCandidateWentThrough ==
  status = "no_candidate" =>
    /\ Tried = Planned /\ Cardinality(Planned) = Len(attempts)
    /\ \A n \in DOMAIN attempts :
         /\ attempts[n].status # "none"
         /\ \A c \in DOMAIN attempts[n].candidates :
              attempts[n].candidates[c].status \notin {"pending", "safety_confirmed"}

\* A confirmation is the only one, and its candidate violated the flawed contract
\* and kept the repaired one in both tools.
ConfirmedInFourReplays ==
  LET confirmed == UNION {{<<n, c>> : c \in {c \in DOMAIN attempts[n].candidates :
                             attempts[n].candidates[c].status = "safety_confirmed"}}
                          : n \in DOMAIN attempts}
  IN  /\ status = "safety_confirmed" <=> confirmed # {}
      /\ Cardinality(confirmed) <= 1
      /\ \A x \in confirmed :
           LET c == attempts[x[1]].candidates[x[2]]
           IN  /\ x[1] = Len(attempts) /\ attempts[x[1]].prefix_check = "prefix_confirmed"
               /\ c.flawed = "violation_confirmed" /\ c.native = "violation_confirmed"
               /\ c.repaired = "property_preserved"
=============================================================================
