--------------------------- MODULE CandidateReplay ---------------------------
(***************************************************************************)
(* The two witnesses of a candidate.  Foundry replays its suffix on a fresh   *)
(* deployment (concrete_replay of Stage 1, concrete_replay_suffix of Stage 5) *)
(* and Medusa replays all of it (match_native_execution, validate_native_     *)
(* suffix); Stage 5 then asks both again about the repaired contract.  The    *)
(* contracts do what "truth" says.  At most one of the tools is unsound: its  *)
(* evidence may say anything; the other one's may be incomplete or late, but  *)
(* what it says is so.                                                        *)
(***************************************************************************)
EXTENDS Integers, Sequences

CONSTANT MaxSuffix  \* calls of a suffix, at most two

ASSUME ReplayAssumption == MaxSuffix \in Nat

VARIABLES
  stage,   \* 1 or 5
  pc,      \* the witness asked next, or "done"
  truth,   \* what the suffix does on the flawed and on the repaired contract
  unsound, \* "none", "foundry" or "medusa"
  steps,   \* the steps Foundry reported, as far as they were accepted
  verdict  \* "open", a refusal, or "confirmed"

vars == <<stage, pc, truth, unsound, steps, verdict>>

\* One call: it succeeded, and the property holds by the numbers observed.
Effect == [success : BOOLEAN, holds : BOOLEAN]
Behaviours == UNION {[1..n -> Effect] : n \in 1..MaxSuffix}
Size == Len(truth.flawed)

Init ==
  /\ stage \in {1, 5} /\ pc = "flawed_foundry"
  /\ truth \in {[flawed |-> f, repaired |-> r] : f \in Behaviours, r \in Behaviours}
  /\ Len(truth.flawed) = Len(truth.repaired)
  /\ stage = 1 => Size = 1 /\ truth.repaired = truth.flawed
  /\ unsound \in {"none", "foundry", "medusa"}
  /\ steps = <<>> /\ verdict = "open"

Refuse(why) == pc' = "done" /\ verdict' = why /\ UNCHANGED <<stage, truth, unsound, steps>>

Proceed(next) ==
  /\ pc' = next /\ verdict' = (IF next = "done" THEN "confirmed" ELSE verdict)
  /\ UNCHANGED <<stage, truth, unsound>>

----------------------------------------------------------------------------
(* Evidence *)

\* A reported step names its call, and reads the property beside the numbers.
Reported(effects) ==
  [i \in DOMAIN effects |-> [call |-> i, success |-> effects[i].success,
                             holds |-> effects[i].holds, read |-> effects[i].holds]]
Steps == [call : 1..MaxSuffix, success : BOOLEAN, holds : BOOLEAN, read : BOOLEAN]
Anything == UNION {[1..n -> Steps] : n \in 0..MaxSuffix}

\* What a tool may report of the calls: the truth, unless it is unsound.
Reports(tool, effects) ==
  IF unsound = tool THEN Anything ELSE {Reported(effects)}

\* The order of the calls, and the property by arithmetic of our own.
WellReported(report) ==
  /\ Len(report) = Size
  /\ \A i \in DOMAIN report : report[i].call = i /\ report[i].read = report[i].holds

FirstViolation(report) ==
  LET broken == {i \in DOMAIN report : ~report[i].read}
  IN  IF broken = {} THEN 0 ELSE CHOOSE i \in broken : \A j \in broken : i <= j

----------------------------------------------------------------------------
(* Foundry *)

\* Fault: it is enough that the sequence ends in a violation.
OutcomeAtEnd(report, violation) == report[Size].read = ~violation

\* A violation is new at the last of calls that all succeeded; without one, only
\* the last call may fail.
Outcome(report, violation) ==
  LET first == FirstViolation(report)
  IN  /\ violation <=> first # 0
      /\ violation => first = Size /\ \A i \in 1..Size : report[i].success
      /\ \A i \in 1..Size - 1 : report[i].success

\* Process and test agree that the one replay succeeded; the rest is a refusal.
TestRefused ==
  \E why \in {"timeout", "tool_error", "result_mismatch", "replay_mismatch"} : Refuse(why)

Foundry(effects, violation, next) ==
  \/ TestRefused
  \/ \E report \in Reports("foundry", effects) :
       IF ~WellReported(report) THEN Refuse("result_mismatch")
       ELSE IF ~Outcome(report, violation) THEN Refuse("replay_mismatch")
       ELSE Proceed(next) /\ steps' = report

FlawedFoundry ==
  /\ stage = 5 /\ pc = "flawed_foundry" /\ Foundry(truth.flawed, TRUE, "flawed_native")

RepairedFoundry ==
  /\ stage = 5 /\ pc = "repaired_foundry" /\ Foundry(truth.repaired, FALSE, "repaired_native")

\* Stage 1 has no steps: a test that asserts the goal succeeds or not.
GoalFoundry ==
  /\ stage = 1 /\ pc = "flawed_foundry"
  /\ \/ TestRefused
     \/ /\ unsound = "foundry" \/ (truth.flawed[1].success /\ ~truth.flawed[1].holds)
        /\ Proceed("flawed_native") /\ UNCHANGED steps

----------------------------------------------------------------------------
(* Medusa *)

\* The complete sequences that carry the hash of the candidate, how the admission
\* of the one that counts reads, whether the prefix is replayed as it was observed.
Executions == [copies : 0..2, admitted : BOOLEAN, prefix_same : BOOLEAN]
Clean(e) == e.copies = 1 /\ e.admitted /\ e.prefix_same

\* Step by step what Foundry reported.
Agrees(report) ==
  /\ WellReported(report) /\ Len(report) = Len(steps)
  /\ \A i \in DOMAIN report :
       report[i].success = steps[i].success /\ report[i].holds = steps[i].holds

FlawedNative ==
  /\ stage = 5 /\ pc = "flawed_native"
  /\ \E e \in Executions, report \in Reports("medusa", truth.flawed) :
       IF Clean(e) /\ Agrees(report) /\ FirstViolation(report) # 0
       THEN Proceed("repaired_foundry") /\ UNCHANGED steps
       ELSE Refuse("tool_error")

RepairedNative ==
  /\ stage = 5 /\ pc = "repaired_native"
  /\ \E e \in Executions, report \in Reports("medusa", truth.repaired) :
       IF ~(Clean(e) /\ Agrees(report)) THEN Refuse("tool_error")
       ELSE IF FirstViolation(report) # 0 THEN Refuse("repaired_regression_failure")
       ELSE Proceed("done") /\ UNCHANGED steps

\* match_native_execution with the goal required: any sequence that qualifies.
Stage1Match(e, report) ==
  /\ e.copies > 0 /\ e.admitted /\ e.prefix_same /\ WellReported(report)
  /\ \A i \in DOMAIN report : report[i].success
  /\ ~report[Size].holds

GoalNative ==
  /\ stage = 1 /\ pc = "flawed_native"
  /\ \E e \in Executions, report \in Reports("medusa", truth.flawed) :
       IF Stage1Match(e, report) THEN Proceed("done") /\ UNCHANGED steps
       ELSE Refuse("replay_mismatch")

Next ==
  \/ FlawedFoundry \/ GoalFoundry \/ FlawedNative \/ GoalNative
  \/ RepairedFoundry \/ RepairedNative

Spec == Init /\ [][Next]_vars

----------------------------------------------------------------------------
(* Properties *)

\* What Stage 5 confirms is so although one of the two tools may report anything:
\* all calls succeed, the property breaks at the last one and not before, and on
\* the repaired contract it never breaks and only the last call may fail.
ConfirmedIsReal ==
  verdict = "confirmed" /\ stage = 5 =>
    /\ \A i \in 1..Size : truth.flawed[i].success /\ (truth.flawed[i].holds <=> i < Size)
    /\ \A i \in 1..Size : truth.repaired[i].holds /\ (i < Size => truth.repaired[i].success)

\* What Stage 1 confirms reaches the goal, whichever single tool is unsound.
GoalIsReal ==
  verdict = "confirmed" /\ stage = 1 => truth.flawed[1].success /\ ~truth.flawed[1].holds
=============================================================================
