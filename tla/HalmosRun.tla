------------------------------ MODULE HalmosRun ------------------------------
(***************************************************************************)
(* Attempts of run_halmos on one output directory, against a solver that may  *)
(* find models, leave paths or loops unexplored with or without a word in its *)
(* log, die before, while or after it writes its result, and be stopped by    *)
(* the deadline at any time.  Each attempt has a directory of its own; what   *)
(* earlier attempts wrote stays.                                              *)
(***************************************************************************)
EXTENDS ToolVerdicts

CONSTANTS
  Tests,       \* tests asked for
  Worlds,      \* sequences of models the solver may come upon, per test
  MaxAttempts  \* bound

\* Models as the solver prints them, readable or not.
Variable == [symbol : STRING, name : STRING, exact : BOOLEAN, value : Nat]
Model == [flag : {"valid", "invalid", "malformed"}, variables : Seq(Variable)]

SolverAssumption ==
  /\ Tests # {} /\ Tests \subseteq {"prefix", "goal"} \union SuffixTests
  /\ \A t \in Tests : Worlds[t] \subseteq Seq(Model)
  /\ MaxAttempts \in Nat

VARIABLES
  pc,      \* "idle", "searching", "searched", "written"
  test,    \* the test of the attempt
  attempt, \* number of the attempt
  did,     \* what the solver of this attempt did with the test
  files,   \* result.json of every directory: <<>> or <<[json, doc]>>
  verdict  \* result of the last attempt: <<>> or <<result>>

vars == <<pc, test, attempt, did, files, verdict>>

Idle == [found |-> <<>>, cut |-> 0, loops |-> 0, warned |-> FALSE, finished |-> FALSE]

Init ==
  /\ pc = "idle" /\ test \in Tests /\ attempt = 0 /\ did = Idle
  /\ files = [n \in 1..MaxAttempts |-> <<>>] /\ verdict = <<>>

\* Fault: every attempt writes to the same place.
SharedDirectory(n) == 1

\* mkdtemp.
Directory(n) == n

Begin(t) ==
  /\ pc = "idle" /\ attempt < MaxAttempts
  /\ pc' = "searching" /\ test' = t /\ attempt' = attempt + 1
  /\ did' = Idle /\ verdict' = <<>> /\ UNCHANGED files

\* The solver explores; what it skips it counts, or says in its log.
Search ==
  /\ pc = "searching" /\ pc' = "searched"
  /\ \E found \in Worlds[test], cut \in 0..1, loops \in 0..1, warned \in BOOLEAN :
       did' = [found |-> found, cut |-> cut, loops |-> loops, warned |-> warned, finished |-> TRUE]
  /\ UNCHANGED <<test, attempt, files, verdict>>

Document(exit, models) ==
  [formed |-> TRUE, test |-> test, exit |-> exit, top |-> IF exit = 0 THEN 0 ELSE 1,
   models |-> models, count |-> Len(models),
   paths |-> [all |-> 2, ok |-> 1, cut |-> did.cut], loops |-> did.loops]

\* The variables of a model come in either order.
Turned(variables) == [i \in 1..Len(variables) |-> variables[(Len(variables) - i) + 1]]

Honest ==
  IF did.found = <<>> THEN {Document(e, <<>>) : e \in {0, 2, 3, 4, 5}}
  ELSE {Document(1, [i \in DOMAIN did.found |->
          [did.found[i] EXCEPT !.variables = IF turned THEN Turned(@) ELSE @]]) : turned \in BOOLEAN}

\* The maps of the document have no order; a document may also be broken off,
\* lack a field or speak of another test.
Write ==
  /\ pc = "searched" /\ pc' = "written"
  /\ \E doc \in Honest : \E out \in {[json |-> TRUE, doc |-> doc],
                                     [json |-> FALSE, doc |-> doc],
                                     [json |-> TRUE, doc |-> [doc EXCEPT !.formed = FALSE]],
                                     [json |-> TRUE, doc |-> [doc EXCEPT !.test = "other"]],
                                     [json |-> TRUE, doc |-> [doc EXCEPT !.count = @ + 1]]} :
       files' = [files EXCEPT ![Directory(attempt)] = <<out>>]
  /\ UNCHANGED <<test, attempt, did, verdict>>

Judge(run) ==
  /\ pc' = "idle"
  /\ verdict' = <<Verdict(run, files[Directory(attempt)], test)>>
  /\ UNCHANGED <<test, attempt, did, files>>

Exit ==
  /\ pc = "written"
  /\ \E code \in {0, 1, 137} :
       /\ code # 137 => files[Directory(attempt)][1].doc.top = code
       /\ Judge([timedOut |-> FALSE, code |-> code, warned |-> did.warned])

Dies ==
  /\ pc \in {"searching", "searched"}
  /\ Judge([timedOut |-> FALSE, code |-> 1, warned |-> did.warned])

Deadline ==
  /\ pc # "idle" /\ Judge([timedOut |-> TRUE, code |-> 0, warned |-> did.warned])

Next == (\E t \in Tests : Begin(t)) \/ Search \/ Write \/ Exit \/ Dies \/ Deadline

Spec == Init /\ [][Next]_vars

----------------------------------------------------------------------------
(* Properties *)

Judged == pc = "idle" /\ verdict # <<>>

\* A prefix is confirmed, and a query is complete without a model, only when the
\* solver of this very attempt went through the test it was asked, skipped
\* nothing and found nothing: not on what an earlier attempt left, not when it
\* died or was killed, not when only its log tells what was left out.
ConclusiveIsEarned ==
  Judged /\ verdict[1].status \in {"prefix_confirmed", "no_model_complete"} =>
    did.finished /\ did.found = <<>> /\ did.cut = 0 /\ did.loops = 0 /\ ~did.warned

\* The candidates are the valid assignments the solver of this attempt found,
\* each once and with all its arguments, whatever the order of the document.
CandidatesAreTheModels ==
  Judged /\ verdict[1].status = "candidate" =>
    LET c == verdict[1].candidates
        valid == {i \in DOMAIN did.found : did.found[i].flag = "valid"}
    IN  /\ Range(c) = {Assignment(did.found[i]) : i \in valid}
        /\ Cardinality(Range(c)) = Len(c)
        /\ \A i \in DOMAIN c : DOMAIN c[i] = Names(test)

\* Callers are given one of the statuses they distinguish for the kind of test.
StatusAnticipated == Judged => verdict[1].status \in StatusesOf(test)
=============================================================================
