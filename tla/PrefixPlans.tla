----------------------------- MODULE PrefixPlans -----------------------------
(***************************************************************************)
(* From what a warmup executed to what is asked of the solver: the selection  *)
(* of prefixes (trace.py, and suffix.py for Stage 5) and the enumeration of   *)
(* one- and two-call plans that fill the queues of a Stage 5 arm.  The        *)
(* warmup reports its sequences one by one; a selection may be made of any    *)
(* report.                                                                    *)
(*                                                                         *)
(* A sequence is a record: calls, what it executed with its full context and *)
(* states; size, their number; digest, that of its file; sound, whether every *)
(* check of a single step passes; goal, whether the goal holds at its end;    *)
(* ready, whether it ends in the declared call and state; setup, whether it   *)
(* made the declared setup call and never violated the property.              *)
(***************************************************************************)
EXTENDS ToolVerdicts, Subsequences

CONSTANTS
  Executed,     \* what a warmup may execute
  MaxObserved,  \* bound: sequences of one report
  Limit,        \* max_prefixes
  SuffixCalls,  \* stage5_suffix_calls: <<[name, symbolic]>>
  MaxPlans,     \* max_plans of one prefix and length
  Hash          \* the number an identity is known by

VARIABLE observed

Init == observed = <<>>

Observe(s) ==
  /\ Len(observed) < MaxObserved /\ observed' = Append(observed, s)

Next == \E s \in Executed : Observe(s)

Spec == Init /\ [][Next]_observed

----------------------------------------------------------------------------
(* Selection *)

\* Stage 1 tells sequences apart by their calls and context, Stage 5 also by the
\* file they are replayed from.
Identity(stage, s) == IF stage = 5 THEN <<s.calls, s.digest>> ELSE <<s.calls, "">>

\* A sequence is as long as its calls, no two identities share a hash, and no call
\* is declared twice.
PlansAssumption ==
  /\ Limit \in Nat \ {0} /\ MaxPlans \in Nat \ {0} /\ MaxObserved \in Nat
  /\ \A s \in Executed : s.size \in Nat
  /\ \A s, t \in Executed : s.calls = t.calls => s.size = t.size
  /\ \A stage \in {1, 5} : \A s, t \in Executed :
       /\ Hash[Identity(stage, s)] \in Nat
       /\ Hash[Identity(stage, s)] = Hash[Identity(stage, t)] => Identity(stage, s) = Identity(stage, t)
  /\ SuffixCalls \in Seq(Range(SuffixCalls))
  /\ \A call \in Range(SuffixCalls) : call.symbolic \in BOOLEAN
  /\ \A i, j \in DOMAIN SuffixCalls : SuffixCalls[i] = SuffixCalls[j] => i = j

Eligible(stage, s) ==
  /\ s.size \in 1..3 /\ s.sound /\ ~s.goal
  /\ stage = 1 => s.ready
  /\ stage = 5 => s.setup

\* Fault: of sequences of the same length the first observed comes first.
EarlierByLength(stage, s, t) == s.size < t.size

\* The key of the sort.
Earlier(stage, s, t) ==
  \/ s.size < t.size
  \/ s.size = t.size /\ Hash[Identity(stage, s)] < Hash[Identity(stage, t)]

\* Fault: a sequence that was executed twice is selected twice.
NewOrNot(stage, report, n) == Eligible(stage, report[n])

\* An eligible sequence whose identity was not seen before.
New(stage, report, n) ==
  /\ Eligible(stage, report[n])
  /\ \A m \in 1..(n - 1) :
       Eligible(stage, report[m]) => Identity(stage, report[m]) # Identity(stage, report[n])

\* The place of list[i] once the list is sorted (a stable sort).
Place(stage, list, i) ==
  1 + Cardinality({j \in DOMAIN list :
        \/ Earlier(stage, list[j], list[i])
        \/ j < i /\ ~Earlier(stage, list[i], list[j])})

Sorted(stage, list) ==
  [r \in DOMAIN list |-> list[CHOOSE i \in DOMAIN list : Place(stage, list, i) = r]]

AtMost(limit, list) == SubSeq(list, 1, IF Len(list) < limit THEN Len(list) ELSE limit)

\* select_prefixes and select_stage5_prefixes: shortest first, up to the limit.
Selected(stage, report) ==
  LET places == Among([n \in DOMAIN report |-> n], {n \in DOMAIN report : New(stage, report, n)})
  IN  AtMost(Limit, Sorted(stage, [i \in DOMAIN places |-> report[places[i]]]))

----------------------------------------------------------------------------
(* Plans *)

\* Every ordered choice of calls, in the order of itertools.product.
CallChoices(length) ==
  LET n == Len(SuffixCalls)
  IN  IF length = 1 THEN [k \in 1..n |-> <<SuffixCalls[k]>>]
      ELSE [k \in 1..(n * n) |->
              <<SuffixCalls[((k - 1) \div n) + 1], SuffixCalls[((k - 1) % n) + 1]>>]

\* make_plan: symbolic arguments are numbered from left to right.
Plan(s, calls) ==
  LET before(i) == Cardinality({j \in 1..i - 1 : calls[j].symbolic})
  IN  [query |-> <<Identity(5, s), calls>>,
       variables |-> [i \in {j \in DOMAIN calls : calls[j].symbolic} |->
                        IF before(i) = 0 THEN "arg0" ELSE "arg1"]]

TestOf(plan) == IF Cardinality(DOMAIN plan.variables) = 2 THEN "suffix2" ELSE "suffix1"

HasArgument(calls) == \E i \in DOMAIN calls : calls[i].symbolic

\* Fault: the plans of a prefix end with the first one that is skipped.
EnumerateUntilSkipped(s, length) ==
  LET choices == CallChoices(length)
      found[k \in 0..Len(choices)] ==
        IF k = 0 THEN <<>>
        ELSE LET plans == found[k - 1]
             IN  IF Len(plans) < k - 1 \/ ~HasArgument(choices[k]) \/ Len(plans) >= MaxPlans
                 THEN plans ELSE Append(plans, Plan(s, choices[k]))
  IN  found[Len(choices)]

\* enumerate_plans: within five calls, something to solve, up to the limit.
EnumeratePlans(s, length) ==
  LET choices == CallChoices(length)
      found[k \in 0..Len(choices)] ==
        IF k = 0 THEN <<>>
        ELSE LET plans == found[k - 1]
             IN  IF \/ s.size + length > 5 \/ ~HasArgument(choices[k])
                    \/ Len(plans) >= MaxPlans
                 THEN plans ELSE Append(plans, Plan(s, choices[k]))
  IN  found[Len(choices)]

\* _plan_pool: the queue of a Stage 5 arm.
PlanPool(length) ==
  LET prefixes == Selected(5, observed)
  IN  Joined([i \in DOMAIN prefixes |-> EnumeratePlans(prefixes[i], length)])

----------------------------------------------------------------------------
(* Properties *)

Identities(stage, report) ==
  LET chosen == Selected(stage, report)
  IN  [i \in DOMAIN chosen |-> Identity(stage, chosen[i])]

\* Which prefixes are used, and in which order, does not depend on the order in
\* which the fuzzer happened to execute them, also when the limit cuts some off.
OrderIsIrrelevant ==
  \A stage \in {1, 5} : \A order \in Bijection(DOMAIN observed, DOMAIN observed) :
    Identities(stage, [i \in DOMAIN observed |-> observed[order[i]]]) = Identities(stage, observed)

\* The two queues of an arm never name a query twice, as the scheduler demands
\* (it refuses the arm otherwise).
QueriesDiffer ==
  LET pool == PlanPool(1) \o PlanPool(2)
  IN  \A i, j \in DOMAIN pool : pool[i].query = pool[j].query => i = j

\* Each prefix is given as many plans of each length as there are choices with
\* something to solve, up to the limit; the solver is asked a test with exactly
\* the arguments the plan names.
PlansAreComplete ==
  \A s \in Range(Selected(5, observed)), length \in {1, 2} :
    LET plans == EnumeratePlans(s, length)
        useful == {k \in DOMAIN CallChoices(length) : HasArgument(CallChoices(length)[k])}
    IN  /\ Len(plans) = (IF Cardinality(useful) < MaxPlans THEN Cardinality(useful) ELSE MaxPlans)
        /\ \A i \in DOMAIN plans :
             LET v == plans[i].variables
             IN  {v[n] : n \in DOMAIN v} = Names(TestOf(plans[i]))
=============================================================================
