-------------------------- MODULE SeedAugmentation --------------------------
(***************************************************************************)
(* Seed augmentation of Stages 2 to 4 (augmentation.py): a corpus is grown  *)
(* by one call at the end of recorded prefixes.  The concrete arm tries a   *)
(* list of values at every prefix; the symbolic arm asks a solver, prefix   *)
(* after prefix, and replays what it answers.  Either way the candidates    *)
(* are files of a corpus that the native fuzzer executes as one batch, and  *)
(* what it reports of them decides which are accepted.                      *)
(*                                                                         *)
(* What the tools answer, and which of them exhaust the shared deadline, is *)
(* nondeterministic.                                                        *)
(***************************************************************************)
EXTENDS Naturals, Sequences, SequencesExt

CONSTANTS
  NumPrefixes,    \* prefixes of the pool, each a case of its own
  MaxCandidates,  \* accepted seeds of one batch
  AttemptLimit,   \* attempts_per_prefix
  Boundary,       \* boundary values, a sequence that may repeat itself
  Random,         \* what the seeded generator yields after them
  Identities,     \* identities of executed sequences
  Warm            \* those the warmup executed already

AugmentAssumption ==
  /\ NumPrefixes \in Nat \ {0} /\ MaxCandidates \in Nat \ {0} /\ AttemptLimit \in Nat \ {0}
  /\ Boundary \in Seq(Nat) /\ Random \in Seq(Nat) /\ Warm \subseteq Identities

VARIABLES
  arm,       \* "concrete" or "symbolic"
  pc,        \* the tool that runs, or what comes between the tools
  prefix,    \* the prefix of the present attempt
  attempts,  \* what became of each attempt of the symbolic arm
  negatives, \* unsuccessful_statuses
  entries,   \* candidates that were committed, in order
  corpus,    \* candidates whose file exists
  executed,  \* candidates the native batch ran
  verdicts,  \* validation_status of each entry
  accepted,  \* entries that became seeds
  identity,  \* sequence identity of the candidates that reached the goal
  outcome    \* the status returned, or "raised"

vars == <<arm, pc, prefix, attempts, negatives, entries, corpus, executed, verdicts,
          accepted, identity, outcome>>
batchVars == <<executed, verdicts, accepted, identity>>

Tools == <<"prefix_check", "build", "goal", "replay", "concrete_build", "encode", "decode">>

\* Answers that end an attempt without ending the search.
Negative ==
  [tool \in ToSet(Tools) |->
     CASE tool = "prefix_check" -> {"prefix_incomplete", "timeout", "stuck", "all_paths_reverted"}
       [] tool = "goal" -> {"no_witness_within_bounds", "timeout", "stuck",
                            "all_paths_reverted", "invalid_model"}
       [] tool = "replay" -> {"replay_mismatch", "timeout", "wrong_confirmation"}
       [] OTHER -> {}]

Follows(tool) ==
  IF tool = "decode" THEN "loop"
  ELSE Tools[(CHOOSE i \in DOMAIN Tools : Tools[i] = tool) + 1]

\* Boundary values without repetitions, then random ones, up to the limit.
ConcreteValues ==
  LET all == Boundary \o Random
      taken[n \in 0..Len(all)] ==
        IF n = 0 THEN <<>>
        ELSE IF all[n] \in ToSet(taken[n - 1]) \/ Len(taken[n - 1]) = AttemptLimit
        THEN taken[n - 1] ELSE Append(taken[n - 1], all[n])
  IN  taken[Len(all)]

Candidate(p, v) == [prefix |-> p, value |-> v]

\* Every value at every prefix, prefix by prefix.
Requests ==
  LET values == ConcreteValues
      L == Len(values)
  IN  [k \in 1..(NumPrefixes * L) |-> Candidate((k - 1) \div L + 1, values[((k - 1) % L) + 1])]

Init ==
  /\ arm \in {"concrete", "symbolic"}
  /\ pc = IF arm = "concrete" THEN "batch" ELSE "loop"
  /\ prefix = 0 /\ attempts = <<>> /\ negatives = {} /\ entries = <<>>
  /\ corpus = {} /\ executed = {} /\ verdicts = <<>> /\ accepted = <<>>
  /\ identity = <<>> /\ outcome = "pending"

----------------------------------------------------------------------------
(* Leaving *)

Return(status) ==
  /\ pc' = "done" /\ outcome' = status

\* A tool error or evidence that disagrees leaves the augmentation.
Raise ==
  /\ Return("raised")
  /\ UNCHANGED <<arm, prefix, attempts, negatives, entries, batchVars>>

----------------------------------------------------------------------------
(* The concrete arm *)

EncodeBatch ==
  /\ pc = "batch" /\ pc' = "validate"
  /\ corpus' = ToSet(Requests) /\ entries' = Requests
  /\ UNCHANGED <<arm, prefix, attempts, negatives, batchVars, outcome>>

EncodeBatchFails ==
  /\ pc = "batch" /\ Raise
  /\ \E n \in 0..Len(Requests) : corpus' = ToSet(SubSeq(Requests, 1, n))

----------------------------------------------------------------------------
(* The symbolic arm *)

MoreToTry == prefix < NumPrefixes /\ Len(entries) < MaxCandidates

\* Fault: the pool is not left when it is exhausted.
NextPrefixForEver ==
  /\ pc = "loop" /\ Len(entries) < MaxCandidates
  /\ pc' = "prefix_check" /\ prefix' = IF prefix < NumPrefixes THEN prefix + 1 ELSE prefix
  /\ attempts' = IF prefix < NumPrefixes THEN Append(attempts, "open") ELSE attempts
  /\ UNCHANGED <<arm, negatives, entries, corpus, batchVars, outcome>>

NextPrefix ==
  /\ pc = "loop" /\ MoreToTry
  /\ pc' = "prefix_check" /\ prefix' = prefix + 1
  /\ attempts' = Append(attempts, "open")
  /\ UNCHANGED <<arm, negatives, entries, corpus, batchVars, outcome>>

\* Too little is left to begin another prefix.
BudgetReserve ==
  /\ pc = "loop" /\ MoreToTry
  /\ pc' = "prune"
  /\ attempts' = Append(attempts, "not_attempted_budget_reserve")
  /\ UNCHANGED <<arm, prefix, negatives, entries, corpus, batchVars, outcome>>

LoopOver ==
  /\ pc = "loop" /\ ~MoreToTry
  /\ pc' = "prune"
  /\ UNCHANGED <<arm, prefix, attempts, negatives, entries, corpus, batchVars, outcome>>

Present == Candidate(prefix, "model")
Closed(status) == [attempts EXCEPT ![Len(attempts)] = status]

ToolSucceeds ==
  /\ pc \in ToSet(Tools)
  /\ pc' = Follows(pc)
  /\ corpus' = IF pc = "encode" THEN corpus \union {Present} ELSE corpus
  /\ IF pc = "decode"
     THEN entries' = Append(entries, Present) /\ attempts' = Closed("candidate")
     ELSE UNCHANGED <<entries, attempts>>
  /\ UNCHANGED <<arm, prefix, negatives, batchVars, outcome>>

ToolAnswers(status) ==
  /\ pc \in ToSet(Tools) /\ status \in Negative[pc]
  /\ pc' = "loop" /\ negatives' = negatives \union {status}
  /\ attempts' = Closed(status)
  /\ UNCHANGED <<arm, prefix, entries, corpus, batchVars, outcome>>

\* The deadline leaves the tool no time, or a build or the codec is killed at
\* its own: the search is over.  A killed encoder may have written its file.
OutOfTime ==
  /\ pc \in ToSet(Tools)
  /\ pc' = "prune" /\ negatives' = negatives \union {"timeout"}
  /\ attempts' = Closed("cut_short")
  /\ corpus' \in IF pc = "encode" THEN {corpus, corpus \union {Present}} ELSE {corpus}
  /\ UNCHANGED <<arm, prefix, entries, batchVars, outcome>>

ToolRaises ==
  /\ pc \in ToSet(Tools) /\ Raise /\ UNCHANGED corpus

\* Fault: what an attempt left behind stays in the corpus.
PruneNothing ==
  /\ pc = "prune" /\ pc' = "validate"
  /\ UNCHANGED <<arm, prefix, attempts, negatives, entries, corpus, batchVars, outcome>>

\* Files no entry stands for are removed.
Prune ==
  /\ pc = "prune" /\ pc' = "validate"
  /\ corpus' = corpus \intersect ToSet(entries)
  /\ UNCHANGED <<arm, prefix, attempts, negatives, entries, batchVars, outcome>>

----------------------------------------------------------------------------
(* The native batch *)

\* Fault: the cases that have their seed are not remembered.
JudgeForgettingCases(state, entry, seen, goal, id) ==
  LET verdict ==
        CASE entry \notin seen                             -> "replay_mismatch"
          [] entry \notin goal                             -> "goal_false"
          [] id[entry] \in state.ids                       -> "duplicate"
          [] Len(state.accepted) >= MaxCandidates          -> "batch_candidate_limit"
          [] OTHER                                         -> "accepted"
  IN  [verdicts |-> Append(state.verdicts, verdict),
       accepted |-> IF verdict = "accepted" THEN Append(state.accepted, entry) ELSE state.accepted,
       ids |-> IF verdict = "accepted" THEN state.ids \union {id[entry]} ELSE state.ids]

\* The verdict on one entry, given those before it.
Judge(state, entry, seen, goal, id) ==
  LET verdict ==
        CASE entry \notin seen                             -> "replay_mismatch"
          [] entry \notin goal                             -> "goal_false"
          [] id[entry] \in state.ids                       -> "duplicate"
          [] \E e \in ToSet(state.accepted) :
               e.prefix = entry.prefix                     -> "prefix_candidate_limit"
          [] Len(state.accepted) >= MaxCandidates          -> "batch_candidate_limit"
          [] OTHER                                         -> "accepted"
  IN  [verdicts |-> Append(state.verdicts, verdict),
       accepted |-> IF verdict = "accepted" THEN Append(state.accepted, entry) ELSE state.accepted,
       ids |-> IF verdict = "accepted" THEN state.ids \union {id[entry]} ELSE state.ids]

\* Entry by entry, in the order in which they were committed.
Judged(list, seen, goal, id) ==
  LET after[n \in 0..Len(list)] ==
        IF n = 0 THEN [verdicts |-> <<>>, accepted |-> <<>>, ids |-> Warm]
        ELSE Judge(after[n - 1], list[n], seen, goal, id)
  IN  after[Len(list)]

\* What the batch says when nothing was accepted: the most material of the
\* negative results.
Unsuccessful(statuses) ==
  IF "timeout" \in statuses THEN "timeout"
  ELSE IF "invalid_model" \in statuses THEN "invalid_model"
  ELSE IF "replay_mismatch" \in statuses THEN "replay_mismatch"
  ELSE "no_candidate"

\* Fault: the status of the batch is passed on as it is.
SummaryOfBatch(batch) == batch

\* The concrete arm has collected no negative results.
Summary(batch) == IF batch = "no_candidate" THEN Unsuccessful(negatives) ELSE batch

\* The fuzzer executes every file of the corpus; only complete sequences that
\* name their file count as seen.
ValidateBatch ==
  /\ pc = "validate" /\ entries # <<>>
  /\ executed' = corpus
  /\ \E seen \in SUBSET corpus : \E goal \in SUBSET seen : \E id \in [goal -> Identities] :
       LET result == Judged(entries, seen, goal, id)
       IN  /\ verdicts' = result.verdicts /\ accepted' = result.accepted
           /\ identity' = id
           /\ Return(Summary(IF result.accepted # <<>> THEN "completed" ELSE "no_candidate"))
  /\ UNCHANGED <<arm, prefix, attempts, negatives, entries, corpus>>

NothingToValidate ==
  /\ pc = "validate" /\ entries = <<>>
  /\ Return(Summary("no_candidate"))
  /\ UNCHANGED <<arm, prefix, attempts, negatives, entries, corpus, batchVars>>

\* The symbolic arm takes a timeout of the batch for a result.
ValidationTimesOut ==
  /\ pc = "validate" /\ arm = "symbolic"
  /\ negatives' = negatives \union {"timeout"}
  /\ Return("timeout")
  /\ executed' \in {{}, corpus}
  /\ UNCHANGED <<arm, prefix, attempts, entries, corpus, verdicts, accepted, identity>>

ValidationRaises ==
  /\ pc = "validate" /\ entries # <<>> /\ Raise /\ UNCHANGED corpus

Next ==
  \/ EncodeBatch \/ EncodeBatchFails
  \/ NextPrefix \/ BudgetReserve \/ LoopOver
  \/ ToolSucceeds \/ OutOfTime \/ ToolRaises
  \/ \E status \in UNION {Negative[t] : t \in ToSet(Tools)} : ToolAnswers(status)
  \/ Prune \/ ValidateBatch \/ NothingToValidate \/ ValidationTimesOut \/ ValidationRaises

Spec == Init /\ [][Next]_vars

\* Every tool is a subprocess with a timeout and the code between them goes on.
FairSpec == Spec /\ WF_vars(Next)

----------------------------------------------------------------------------
(* Properties *)

\* The native batch runs exactly the committed candidates, in whatever step of
\* an attempt the search was cut short: a half-finished candidate would be
\* executed, counted and kept by the fuzzer without an entry that answers for it.
OnlyCommittedExecuted == executed # {} => executed = ToSet(entries)

\* Accepted seeds are new to the warmup and to each other, come from different
\* cases, are no more than the batch may hold, and were seen to reach the goal.
AcceptedSeedsDiffer ==
  /\ Len(accepted) <= MaxCandidates
  /\ \A i \in DOMAIN accepted :
       /\ accepted[i] \in executed /\ identity[accepted[i]] \notin Warm
       /\ \A j \in DOMAIN accepted : i # j =>
            /\ accepted[i].prefix # accepted[j].prefix
            /\ identity[accepted[i]] # identity[accepted[j]]

\* A caller that is told there was no candidate may rely on it: no attempt was
\* cut short, no model was invalid and no replay disagreed; and a search that
\* was cut short is reported so unless it found a seed.
OutcomeTellsWhy ==
  /\ outcome = "no_candidate" => \A i \in DOMAIN attempts :
       attempts[i] \notin {"cut_short", "timeout", "invalid_model", "replay_mismatch"}
  /\ (\E i \in DOMAIN attempts : attempts[i] = "cut_short")
     => outcome \in {"pending", "raised", "timeout", "completed"}
  /\ outcome = "completed" <=> accepted # <<>>
=============================================================================
