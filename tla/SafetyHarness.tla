---------------------------- MODULE SafetyHarness ----------------------------
(***************************************************************************)
(* The tests generate_suffix_harness writes for a safety fixture, run on the  *)
(* contracts of SafetyFixtures.  A native campaign leaves a safe prefix on    *)
(* the flawed contract; one or two more calls then run                        *)
(*   search      as the symbolic test the solver explores (one of its paths), *)
(*   replay      as the concrete test that must show the violation,           *)
(*   regression  as the concrete test on the repaired contract.               *)
(* The three repeat the prefix first.  The continuation may be any calls of   *)
(* the scenario, so that what plans leave out can be seen.                    *)
(***************************************************************************)
EXTENDS Integers, Sequences

CONSTANTS Capacity, Amounts, MaxPrefix

VARIABLES
  kind,
  fp, fq, fr, fstarted, freading,  \* the flawed contract
  rp, rq, rr, rstarted, rreading,  \* the repaired one
  prefix,     \* calls of the prefix so far
  setup,      \* the prefix made the declared first call
  length,     \* calls of the continuation, 1 or 2
  suffix,     \* those made: their name, what became of them on the flawed contract
  search, replay, regression

Flawed == <<fp, fq, fr, fstarted, freading>>
Repaired == <<rp, rq, rr, rstarted, rreading>>
verdicts == <<search, replay, regression>>
vars == <<kind, Flawed, Repaired, prefix, setup, length, suffix, verdicts>>

F == INSTANCE SafetyFixtures WITH variant <- "flawed", p <- fp, q <- fq, r <- fr,
       started <- fstarted, reading <- freading
R == INSTANCE SafetyFixtures WITH variant <- "repaired", p <- rp, q <- rq, r <- rr,
       started <- rstarted, reading <- rreading

FlawedSound == F!Bounded(fp, fq, fr)
RepairedSound == R!Bounded(rp, rq, rr)

Init ==
  /\ F!Init /\ R!Init
  /\ prefix = 0 /\ setup = FALSE /\ length \in 1..2 /\ suffix = <<>>
  /\ search = "open" /\ replay = "open" /\ regression = "open"

----------------------------------------------------------------------------
(* Calls *)

FirstCall == IF kind = "accounting" THEN "open" ELSE "start"

\* The calls of the scenario that take an amount.
WithAmount ==
  CASE kind = "accounting" -> {"spend"}
    [] kind = "reservation" -> {"reserve", "settle"}
    [] kind = "request" -> {"request", "confirm"}

\* Fault: a plan only names the call the property is about.
SuffixCallsOfTarget ==
  CASE kind = "accounting" -> {"spend"}
    [] kind = "reservation" -> {"settle"}
    [] kind = "request" -> {"confirm"}

\* stage5_suffix_calls
SuffixCalls == WithAmount \cup (IF kind = "accounting" THEN {"open"} ELSE {})

AllowedCalls ==
  [name : {FirstCall}, amount : {0}] \cup [name : WithAmount, amount : Amounts]

OnFlawed(call) ==
  \/ call.name = "open" /\ F!Open
  \/ call.name = "start" /\ (F!StartReservation \/ F!StartRequest)
  \/ call.name = "spend" /\ F!Spend(call.amount)
  \/ call.name = "reserve" /\ F!Reserve(call.amount)
  \/ call.name = "settle" /\ F!Settle(call.amount)
  \/ call.name = "request" /\ F!Request(call.amount)
  \/ call.name = "confirm" /\ F!Confirm(call.amount)

OnRepaired(call) ==
  \/ call.name = "open" /\ R!Open
  \/ call.name = "start" /\ (R!StartReservation \/ R!StartRequest)
  \/ call.name = "spend" /\ R!Spend(call.amount)
  \/ call.name = "reserve" /\ R!Reserve(call.amount)
  \/ call.name = "settle" /\ R!Settle(call.amount)
  \/ call.name = "request" /\ R!Request(call.amount)
  \/ call.name = "confirm" /\ R!Confirm(call.amount)

\* A call that is turned down changes nothing.
Execute(call) ==
  /\ UNCHANGED kind
  /\ IF F!Accepts(call.name, call.amount) THEN OnFlawed(call) ELSE UNCHANGED Flawed
  /\ IF R!Accepts(call.name, call.amount) THEN OnRepaired(call) ELSE UNCHANGED Repaired

\* Request and confirmation revert when they are turned down, the others return.
Succeeds(call) ==
  call.name \in {"request", "confirm"} => F!Accepts(call.name, call.amount)
SucceedsRepaired(call) ==
  call.name \in {"request", "confirm"} => R!Accepts(call.name, call.amount)

----------------------------------------------------------------------------
(* The prefix *)

\* A recorded step: it succeeded and is safe.  Each test repeats it and requires
\* the recorded observation (_prefixGuard), the regression on another contract.
PrefixCall(call) ==
  /\ suffix = <<>> /\ prefix < MaxPrefix
  /\ Succeeds(call) /\ Execute(call)
  /\ F!Holds' /\ FlawedSound'
  /\ prefix' = prefix + 1 /\ setup' = (setup \/ call.name = FirstCall)
  /\ regression' =
       (IF SucceedsRepaired(call) /\ <<rp, rq, rr>>' = <<fp, fq, fr>>' /\ RepairedSound'
        THEN regression ELSE "failed")
  /\ UNCHANGED <<length, suffix, search, replay>>

----------------------------------------------------------------------------
(* The continuation *)

Last == Len(suffix) + 1 = length

\* Requirements that fail cut the path; the only assertion is at the end.
Search(call) ==
  search' =
    CASE search # "open" -> search
      [] search = "open" /\ ~(Succeeds(call) /\ FlawedSound') -> "cut"
      [] search = "open" /\ Succeeds(call) /\ FlawedSound' ->
           IF Last THEN (IF F!Holds' THEN "held" ELSE "counterexample")
           ELSE IF F!Holds' THEN "open" ELSE "cut"

Concrete(verdict, passes) ==
  IF verdict = "failed" \/ ~passes THEN "failed" ELSE IF Last THEN "passed" ELSE "open"

\* Fault: a call that reverts goes unnoticed.
ReplayUnasserted(call) ==
  replay' = Concrete(replay, FlawedSound' /\ F!Holds' = ~Last)

\* A violation at the last call, and none before.
Replay(call) ==
  replay' = Concrete(replay, Succeeds(call) /\ FlawedSound' /\ F!Holds' = ~Last)

\* Fault: the repaired contract has to accept the calls.
RegressionAccepting(call) ==
  regression' = Concrete(regression, SucceedsRepaired(call) /\ RepairedSound' /\ R!Holds')

\* No violation at all; a repaired contract may turn calls down.
Regression(call) ==
  regression' = Concrete(regression, RepairedSound' /\ R!Holds')

SuffixCall(call) ==
  /\ prefix > 0 /\ Len(suffix) < length
  /\ Execute(call)
  /\ suffix' = Append(suffix, [name |-> call.name, idle |-> Flawed' = Flawed, holds |-> F!Holds'])
  /\ Search(call) /\ Replay(call) /\ Regression(call)
  /\ UNCHANGED <<prefix, setup, length>>

Next == \E call \in AllowedCalls : PrefixCall(call) \/ SuffixCall(call)

Spec == Init /\ [][Next]_vars

----------------------------------------------------------------------------
(* Properties *)

\* make_plan and enumerate_plans: the first call is in the prefix, all calls are
\* among those of the scenario and one of them has an argument to solve for.
Planned ==
  /\ setup /\ Len(suffix) = length
  /\ \A i \in DOMAIN suffix : suffix[i].name \in SuffixCalls
  /\ \E i \in DOMAIN suffix : suffix[i].name \in WithAmount

\* The solver reports a model of a plan exactly when the concrete test with its
\* values passes: no candidate is refused because the two tests differ, and none
\* that would be confirmed is out of the solver's sight.
ModelIsReplayed ==
  Planned => (search = "counterexample" <=> replay = "passed")

\* A model never fails on the repaired contract: the prefix leads to the same
\* states there, and the calls that follow are accepted without harm or refused.
ModelPassesRegression == search = "counterexample" => regression = "passed"

FirstViolation ==
  /\ Len(suffix) = length
  /\ \A i \in DOMAIN suffix : suffix[i].holds <=> i < length

\* The choice of suffix calls and the rules that skip plans cost nothing: after a
\* prefix with the first call, a continuation that violates the property at its
\* last call, and of which no call is idle, is a plan and has a model.
ShortestIsSearched ==
  setup /\ FirstViolation /\ (\A i \in DOMAIN suffix : ~suffix[i].idle)
    => Planned /\ search = "counterexample"
=============================================================================
