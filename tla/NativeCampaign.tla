--------------------------- MODULE NativeCampaign ---------------------------
(***************************************************************************)
(* A native campaign: the Medusa adapter (observed.go, compact.go) hooks     *)
(* into a fuzzer with one worker, numbers and records what it executes, and *)
(* leaves an event stream, a report and a completion marker.  The wrapper    *)
(* (campaign in medusa.py) waits for it under an outer deadline and decides  *)
(* whether what it left can be used.                                        *)
(*                                                                         *)
(* Three threads run in the adapter: the worker, the timer that ends the     *)
(* search and the main one.  The process may be killed between any two       *)
(* steps, by the wrapper or by somebody else.  Which sequences the fuzzer    *)
(* generates and what its corpus takes in is nondeterministic.               *)
(***************************************************************************)
EXTENDS CompactStream

CONSTANTS
  Calls,     \* calls the fuzzer may make
  MaxSteps,  \* length of a generated sequence
  Imports,   \* sequences of the corpus directory
  Tests      \* sequences after which the search stops

CampaignAssumption ==
  /\ MaxSteps \in Nat \ {0} /\ Tests \in Nat
  /\ IsFiniteSet(Imports) /\ Imports \subseteq UNION {[1..n -> Calls] : n \in 1..MaxSteps}
  /\ Tests > Cardinality(Imports)

VARIABLES
  \* the fuzzer
  worker,     \* what the worker does
  unexecuted, \* imports not replayed yet
  pool,       \* sequences mutations may start from
  marked,     \* startup sequences the fuzzer took in for mutation
  stopping,   \* the fuzzer was told to stop
  \* the adapter
  index,      \* sequenceIndex
  generation, \* how the present sequence was made
  current,    \* its calls so far
  complete,   \* its last record is marked complete
  completed,  \* CompletedSequences
  known,      \* knownIdentities
  replayed, admitted, \* indices marked as replayed, as admitted
  timer, timedOut, limitReached, err,
  stream,     \* events written
  main,       \* what the main thread does
  \* what it leaves and what becomes of it
  disk, report, completion, code,
  outcome     \* of campaign(): "waiting", "returned" or an error

fuzzerVars == <<worker, unexecuted, pool, marked, stopping>>
hookVars == <<index, generation, current, complete, completed, known, replayed, admitted>>
timerVars == <<timer, timedOut>>
leftVars == <<disk, report, completion, code>>
vars == <<fuzzerVars, hookVars, timerVars, limitReached, err, stream, main, leftVars, outcome>>

None == [made |-> "none"]
NoReport == [status |-> "none"]
TornReport == [status |-> "torn"]

Init ==
  /\ worker = "idle" /\ unexecuted = Imports /\ pool = Imports /\ marked = {}
  /\ stopping = FALSE /\ index = 0 /\ generation = None /\ current = <<>>
  /\ complete = FALSE /\ completed = 0 /\ known = Imports /\ replayed = {} /\ admitted = {}
  /\ timer = "armed" /\ timedOut = FALSE /\ limitReached = FALSE /\ err = FALSE
  /\ stream = <<>> /\ main = "fuzzing"
  /\ disk = [events |-> <<>>, whole |-> FALSE] /\ report = NoReport
  /\ completion = FALSE /\ code = 0 /\ outcome = "waiting"

Alive == main \notin {"exited", "dead"}
Fuzzing == main = "fuzzing"

----------------------------------------------------------------------------
(* The worker of the fuzzer *)

Made(kind, parents, plan) == [made |-> kind, parents |-> parents, plan |-> plan]

\* Imports first; then new sequences, or mutations of one or two known ones.
Generate ==
  /\ Fuzzing /\ worker = "idle" /\ ~stopping /\ ~err
  /\ worker' = "executing" /\ index' = index + 1
  /\ current' = <<>> /\ complete' = FALSE
  /\ IF unexecuted # {}
     THEN \E c \in unexecuted :
            /\ unexecuted' = unexecuted \ {c}
            /\ generation' = Made("startup_replay", {c}, c)
     ELSE /\ \/ generation' = Made("new_sequence", {}, <<>>)
             \/ \E p, q \in pool : generation' = Made("mutation", {p, q}, <<>>)
          /\ UNCHANGED unexecuted
  /\ UNCHANGED <<pool, marked, stopping, completed, known, replayed, admitted,
                 timerVars, limitReached, err, stream, main, leftVars, outcome>>

Executed ==
  IF generation.made = "startup_replay" THEN current = generation.plan
  ELSE Len(current) = MaxSteps

\* One call, seen by the test hook; new coverage takes the prefix into the pool.
Execute(call) ==
  /\ Fuzzing /\ worker = "executing" /\ ~Executed
  /\ generation.made = "startup_replay" => call = generation.plan[Len(current) + 1]
  /\ current' = Append(current, call)
  /\ pool' \in {pool, pool \union {current'}}
  /\ UNCHANGED <<worker, unexecuted, marked, stopping, index, generation, complete, completed,
                 known, replayed, admitted, timerVars, limitReached, err, stream, main,
                 leftVars, outcome>>

\* The observer fails, or a call is none it knows: the hook returns an error.
StepFails ==
  /\ Fuzzing /\ worker = "executing" /\ ~Executed
  /\ err' = TRUE /\ worker' = "ended"
  /\ UNCHANGED <<unexecuted, pool, marked, stopping, hookVars, timerVars, limitReached,
                 stream, main, leftVars, outcome>>

\* A sequence is over when it is executed or the fuzzer was stopped.  A startup
\* replay is taken in for mutation only if it was not.
SequenceOver ==
  /\ Fuzzing /\ worker = "executing" /\ (Executed \/ stopping)
  /\ worker' = "tested"
  /\ marked' = IF generation.made = "startup_replay" /\ ~stopping
               THEN marked \union {index} ELSE marked
  /\ UNCHANGED <<unexecuted, pool, stopping, hookVars, timerVars, limitReached, err, stream,
                 main, leftVars, outcome>>

\* A stopped fuzzer leaves its worker, between sequences or within one.
WorkerEnds ==
  /\ Fuzzing /\ stopping /\ worker \in {"idle", "executing"}
  /\ worker' = "ended"
  /\ UNCHANGED <<unexecuted, pool, marked, stopping, hookVars, timerVars, limitReached, err,
                 stream, main, leftVars, outcome>>

----------------------------------------------------------------------------
(* The hook of a completed sequence *)

\* Fault: only whole sequences are remembered as parents.
RememberWhole == known \union {current}

Remember == known \union ToSet(PrefixReferences(current))

Lineage ==
  [index |-> index, kind |-> generation.made, parents |-> generation.parents,
   output |-> current,
   resolved |-> generation.parents # {} /\ generation.parents \subseteq Remember]

IsStartup == index <= Cardinality(Imports)

\* No calls, or a startup replay that is none of the imports: the hook fails
\* after it has counted the sequence.
TestedFails ==
  /\ Fuzzing /\ worker = "tested"
  /\ current = <<>> \/ (IsStartup /\ current \notin Imports)
  /\ completed' = completed + 1 /\ complete' = (current # <<>>)
  /\ known' = IF current = <<>> THEN known ELSE Remember
  /\ err' = TRUE /\ worker' = "ended"
  /\ UNCHANGED <<unexecuted, pool, marked, stopping, index, generation, current, replayed,
                 admitted, timerVars, limitReached, stream, main, leftVars, outcome>>

\* Counted, its prefixes remembered, admitted unless the time was up, written.
Tested ==
  /\ Fuzzing /\ worker = "tested"
  /\ current # <<>> /\ (IsStartup => current \in Imports)
  /\ completed' = completed + 1 /\ complete' = TRUE
  /\ known' = Remember
  /\ replayed' = IF IsStartup THEN replayed \union {index} ELSE replayed
  /\ admitted' = IF IsStartup /\ ~timedOut THEN admitted \union {index} ELSE admitted
  /\ stream' = Append(stream, SequenceEvent(index, current, Lineage))
  /\ worker' = "limit"
  /\ UNCHANGED <<unexecuted, pool, marked, stopping, index, generation, current, timerVars,
                 limitReached, err, main, leftVars, outcome>>

\* The event cannot be written.
TestedUnwritten ==
  /\ Fuzzing /\ worker = "tested"
  /\ current # <<>> /\ (IsStartup => current \in Imports)
  /\ completed' = completed + 1 /\ complete' = TRUE /\ known' = Remember
  /\ err' = TRUE /\ worker' = "ended"
  /\ UNCHANGED <<unexecuted, pool, marked, stopping, index, generation, current, replayed,
                 admitted, timerVars, limitReached, stream, main, leftVars, outcome>>

\* Fault: the hook stops the fuzzer and waits until its own worker has ended.
LimitCheckAndWait ==
  /\ Fuzzing /\ worker = "limit"
  /\ IF completed >= Tests
     THEN limitReached' = TRUE /\ stopping' = TRUE /\ worker' = "waiting"
     ELSE worker' = "idle" /\ UNCHANGED <<limitReached, stopping>>
  /\ UNCHANGED <<unexecuted, pool, marked, hookVars, timerVars, err, stream, main, leftVars, outcome>>

LimitCheck ==
  /\ Fuzzing /\ worker = "limit" /\ worker' = "idle"
  /\ IF completed >= Tests THEN limitReached' = TRUE /\ stopping' = TRUE
     ELSE UNCHANGED <<limitReached, stopping>>
  /\ UNCHANGED <<unexecuted, pool, marked, hookVars, timerVars, err, stream, main, leftVars, outcome>>

----------------------------------------------------------------------------
(* The timer *)

\* Fault: the fuzzer is stopped before the flag is raised.
TimerFiresStopping ==
  /\ Fuzzing /\ timer = "armed" /\ timer' = "fired" /\ stopping' = TRUE
  /\ UNCHANGED <<worker, unexecuted, pool, marked, hookVars, timedOut, limitReached, err, stream,
                 main, leftVars, outcome>>

\* It is stopped after the fuzzer returned; until the report reads the flag, a
\* function that was started may still raise it.
TimerFires ==
  /\ main \in {"fuzzing", "flushing", "reporting"} /\ timer = "armed" /\ timer' = "fired" /\ timedOut' = TRUE
  /\ UNCHANGED <<fuzzerVars, hookVars, limitReached, err, stream, main, leftVars, outcome>>

\* A fuzzer that returned has nothing left to stop.
TimerStops ==
  /\ Fuzzing /\ timer = "fired" /\ timer' = "done" /\ stopping' = TRUE
  /\ UNCHANGED <<worker, unexecuted, pool, marked, hookVars, timedOut, limitReached, err, stream,
                 main, leftVars, outcome>>

----------------------------------------------------------------------------
(* The main thread *)

StartReturns ==
  /\ Fuzzing /\ worker = "ended" /\ main' = "flushing"
  /\ UNCHANGED <<fuzzerVars, hookVars, timerVars, limitReached, err, stream, leftVars, outcome>>

\* Fault: the sequence that was cut short passes for a complete one.
FlushAsComplete ==
  /\ main = "flushing" /\ main' = "reporting"
  /\ LET cut == IF current # <<>> /\ ~complete
                THEN Append(stream, SequenceEvent(index, current, Lineage)) ELSE stream
     IN  /\ stream' = Append(cut, EofEvent(cut))
         /\ disk' = [events |-> stream', whole |-> TRUE]
  /\ UNCHANGED <<fuzzerVars, hookVars, timerVars, limitReached, err, report, completion, code,
                 outcome>>

\* A sequence that was cut short is written as partial; then the stream is closed.
Flush ==
  /\ main = "flushing" /\ main' = "reporting"
  /\ LET cut == IF current # <<>> /\ ~complete
                THEN Append(stream, PartialEvent(index, current)) ELSE stream
     IN  /\ stream' = Append(cut, EofEvent(cut))
         /\ disk' = [events |-> stream', whole |-> TRUE]
  /\ UNCHANGED <<fuzzerVars, hookVars, timerVars, limitReached, err, report, completion, code,
                 outcome>>

FlushFails ==
  /\ main = "flushing" /\ main' = "reporting" /\ err' = TRUE
  /\ disk' = [events |-> stream, whole |-> FALSE]
  /\ UNCHANGED <<fuzzerVars, hookVars, timerVars, limitReached, stream, report, completion, code,
                 outcome>>

StopReason ==
  CASE err                     -> "tool_error"
    [] ~err /\ timedOut        -> "time_limit"
    [] ~err /\ ~timedOut /\ limitReached -> "sequence_limit"
    [] OTHER                   -> "cancelled"

RunOutcome == IF err THEN "tool_error" ELSE IF timedOut THEN "timeout" ELSE "complete"

WriteReport ==
  /\ main = "reporting" /\ main' = "completing"
  /\ report' = [status |-> RunOutcome, stop |-> StopReason, completed |-> completed,
                meta |-> IF disk.whole THEN <<Metadata(disk)>> ELSE <<>>]
  /\ UNCHANGED <<fuzzerVars, hookVars, timerVars, limitReached, err, stream, disk, completion,
                 code, outcome>>

WriteCompletion ==
  /\ main = "completing" /\ main' = "exited" /\ completion' = TRUE
  /\ code' = IF err \/ timedOut \/ completed # Tests THEN 1 ELSE 0
  /\ UNCHANGED <<fuzzerVars, hookVars, timerVars, limitReached, err, stream, disk, report, outcome>>

----------------------------------------------------------------------------
(* The process ends before its time *)

\* A stream that was not closed stays undecodable, wherever it was cut off; a
\* report being written is torn.
Dies ==
  /\ main' = "dead" /\ code' = 2
  /\ UNCHANGED disk
  /\ report' \in IF main = "reporting" THEN {NoReport, TornReport} ELSE {report}
  /\ UNCHANGED <<fuzzerVars, hookVars, timerVars, limitReached, err, stream, completion>>

KilledByOthers == Alive /\ outcome = "waiting" /\ Dies /\ UNCHANGED outcome

OuterTimeout == Alive /\ outcome = "waiting" /\ Dies /\ outcome' = "timeout"

----------------------------------------------------------------------------
(* The wrapper *)

\* Fault: the report is believed whatever became of the process.
VerdictByReport ==
  CASE report \in {NoReport, TornReport} -> "tool_error"
    [] report.status = "tool_error"      -> "tool_error"
    [] report.meta = <<>>                -> "evidence_error"
    [] ~Accepted(disk, report.meta[1])   -> "evidence_error"
    [] Len(DecodedLineage(disk)) # report.completed -> "incomplete"
    [] OTHER                             -> "returned"

\* What campaign() makes of an adapter that ended in time.
Verdict ==
  CASE report = NoReport                 -> "tool_error"
    [] report = TornReport               -> "incompatible"
    [] report.status = "tool_error"      -> "tool_error"
    [] code # 0 /\ report.status # "timeout" -> "tool_error"
    [] report.meta = <<>>                -> "evidence_error"
    [] ~Accepted(disk, report.meta[1])   -> "evidence_error"
    [] ~completion                       -> "evidence_error"
    [] Len(DecodedLineage(disk)) # report.completed -> "incomplete"
    [] OTHER                             -> "returned"

Judge ==
  /\ ~Alive /\ outcome = "waiting" /\ outcome' = Verdict
  /\ UNCHANGED <<fuzzerVars, hookVars, timerVars, limitReached, err, stream, main, leftVars>>

----------------------------------------------------------------------------
(* Specification *)

Adapter ==
  \/ Generate \/ \E call \in Calls : Execute(call)
  \/ StepFails \/ SequenceOver \/ WorkerEnds
  \/ Tested \/ TestedFails \/ TestedUnwritten \/ LimitCheck
  \/ TimerStops \/ StartReturns \/ Flush \/ FlushFails \/ WriteReport \/ WriteCompletion

Next == Adapter \/ TimerFires \/ KilledByOthers \/ OuterTimeout \/ Judge

Spec == Init /\ [][Next]_vars

\* The threads of the adapter and the waiting wrapper go on; nobody has to kill.
FairSpec == Spec /\ WF_vars(Adapter) /\ WF_vars(TimerStops) /\ WF_vars(TimerFires) /\ WF_vars(Judge)

----------------------------------------------------------------------------
(* Properties *)

\* A sequence recorded as admitted for mutation was taken in by the fuzzer: a
\* timeout that came first is always visible to the hook.
AdmittedMeansMarked == admitted \subseteq marked

\* Every parent is resolved when its child is reported, although it may be a mere
\* prefix of an earlier sequence that added coverage.
Resolves(e) ==
  e.type = "sequence" /\ e.lineage[1].kind # "new_sequence" => e.lineage[1].resolved
ParentsResolve == \A i \in DOMAIN stream : Resolves(stream[i])

\* An adapter that finishes without an error leaves a stream its reader accepts,
\* with one lineage record for every sequence it counted, whenever it was stopped.
FinishedIsReadable ==
  main = "exited" /\ ~err =>
    Accepted(disk, report.meta[1]) /\ Len(DecodedLineage(disk)) = completed

\* What campaign() returns was left by an adapter that ran to its end without an
\* error, counts each sequence once and stopped for a reason its callers know.
ReturnedIsFinished ==
  outcome = "returned" =>
    /\ main = "exited" /\ ~err
    /\ report.stop \in {"time_limit", "sequence_limit"}
    /\ report.completed = CountOf("sequence", stream)
=============================================================================
