---------------------------- MODULE ToolVerdicts ----------------------------
(***************************************************************************)
(* What halmos.py makes of one run of the solver: parse_result and           *)
(* parse_suffix_result judge the JSON document, run_halmos the process that   *)
(* was to write it.  Tests are "prefix", "goal", "suffix1" and "suffix2" (a   *)
(* suffix of one or two uint256 arguments).  A document is a record:          *)
(*   formed   one contract, one test and every other field has its type       *)
(*   test, exit, top   the test, its exit code, the code of the process       *)
(*   models, count     potential models and how many it says there are        *)
(*   paths, loops      [all, ok, cut] and the number of bounded loops         *)
(* A model has a flag "valid", "invalid" or "malformed" and variables in the  *)
(* order of the JSON map, each with the argument its symbol and its name      *)
(* stand for, whether it is an exact uint256, and its value.                  *)
(***************************************************************************)
EXTENDS Integers, FiniteSets, Sequences, Functions

SuffixTests == {"suffix1", "suffix2"}
Names(test) == IF test = "suffix2" THEN {"arg0", "arg1"} ELSE {"arg0"}

Result(status) == [status |-> status, candidates |-> <<>>]

\* Every field the two readers compare before they look at the outcome.
Consistent(doc, test) ==
  /\ doc.formed /\ doc.test = test
  /\ doc.exit \in 0..5 /\ doc.top = (IF doc.exit = 0 THEN 0 ELSE 1)
  /\ doc.count = Len(doc.models)
  /\ doc.paths.ok <= doc.paths.all /\ doc.paths.cut <= doc.paths.all
  /\ doc.exit # 1 => doc.models = <<>>

\* Exactly the declared arguments, each once, whatever their order.
Typed(model, test) ==
  LET v == model.variables
  IN  /\ Len(v) = Cardinality(Names(test))
      /\ {v[i].name : i \in DOMAIN v} = Names(test)
      /\ \A i \in DOMAIN v : v[i].symbol = v[i].name /\ v[i].exact

Assignment(model) ==
  LET v == model.variables
  IN  [n \in {v[i].name : i \in DOMAIN v} |->
         (CHOOSE x \in Range(v) : x.name = n).value]

\* The valid models without repetitions, in the order of the document.
Candidates(models) ==
  LET taken[n \in 0..Len(models)] ==
        IF n = 0 THEN <<>>
        ELSE IF models[n].flag # "valid" \/ Assignment(models[n]) \in Range(taken[n - 1])
             THEN taken[n - 1] ELSE Append(taken[n - 1], Assignment(models[n]))
  IN  taken[Len(models)]

\* Fault: every test shares the words of the two generated ones.
UndecidedAlike(test, exit) ==
  CASE exit = 2 -> "timeout" [] exit = 3 -> "stuck"
    [] exit = 4 -> "all_paths_reverted" [] exit = 5 -> "tool_error"

Undecided(test, exit) ==
  CASE exit = 2 -> "timeout"
    [] exit = 3 -> IF test \in SuffixTests THEN "unsupported" ELSE "stuck"
    [] exit = 4 -> "all_paths_reverted"
    [] exit = 5 -> "tool_error"

NothingFound(doc, test) ==
  CASE test = "prefix" ->
         IF doc.loops = 0 /\ doc.paths.ok > 0 /\ doc.paths.cut = 0
         THEN "prefix_confirmed" ELSE "prefix_incomplete"
    [] test = "goal" -> "no_witness_within_bounds"
    [] test \in SuffixTests ->
         IF doc.loops = 0 /\ doc.paths.cut = 0 THEN "no_model_complete" ELSE "incomplete"

\* Any model that cannot be read spoils the others; one marked invalid does not.
Found(models, test) ==
  LET readable(m) == m.flag = "invalid" \/ (m.flag = "valid" /\ Typed(m, test))
  IN  IF models = <<>> \/ \E i \in DOMAIN models : ~readable(models[i])
      THEN Result("decode_error")
      ELSE IF Candidates(models) = <<>> THEN Result("invalid_model")
      ELSE [status |-> "candidate", candidates |-> Candidates(models)]

Parse(doc, test) ==
  IF ~Consistent(doc, test) THEN Result("result_mismatch")
  ELSE CASE doc.exit \in 2..5 -> Result(Undecided(test, doc.exit))
         [] doc.exit = 0 -> Result(NothingFound(doc, test))
         [] doc.exit = 1 /\ test = "prefix" -> Result("prefix_mismatch")
         [] doc.exit = 1 /\ test # "prefix" -> Found(doc.models, test)

\* Fault: the log of the process is not read.
VerdictWithoutLog(run, file, test) ==
  IF run.timedOut THEN Result("timeout")
  ELSE IF file = <<>> \/ ~file[1].json THEN Result("tool_error")
  ELSE IF file[1].doc.top # run.code THEN Result("result_mismatch")
  ELSE Parse(file[1].doc, test)

\* The deadline wins over any result; a code or a warning of the process wins
\* over the document.
Verdict(run, file, test) ==
  IF run.timedOut THEN Result("timeout")
  ELSE IF file = <<>> \/ ~file[1].json THEN Result("tool_error")
  ELSE IF file[1].doc.top # run.code THEN Result("result_mismatch")
  ELSE LET parsed == Parse(file[1].doc, test)
       IN  IF run.warned /\ parsed.status = "prefix_confirmed" THEN Result("prefix_incomplete")
           ELSE IF run.warned /\ parsed.status = "no_model_complete" THEN Result("incomplete")
           ELSE parsed

----------------------------------------------------------------------------
(* The answers a caller has to deal with *)

Troubles == {"timeout", "all_paths_reverted", "tool_error", "result_mismatch"}
PrefixStatuses ==
  Troubles \union {"prefix_confirmed", "prefix_incomplete", "prefix_mismatch", "stuck"}
GoalStatuses ==
  Troubles \union {"no_witness_within_bounds", "decode_error", "invalid_model", "candidate", "stuck"}
SuffixStatuses ==
  Troubles \union {"no_model_complete", "incomplete", "decode_error", "invalid_model",
                   "candidate", "unsupported"}
StatusesOf(test) ==
  CASE test = "prefix" -> PrefixStatuses
    [] test = "goal" -> GoalStatuses
    [] test \in SuffixTests -> SuffixStatuses
=============================================================================
