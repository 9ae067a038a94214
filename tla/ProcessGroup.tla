---------------------------- MODULE ProcessGroup ----------------------------
(***************************************************************************)
(* run_command (process.py): a tool runs in a session of its own, is waited  *)
(* for under a timeout and, when that expires, is asked to end, given two    *)
(* seconds and killed.  The signals go to the whole group, because a tool    *)
(* may start others.  One clock of the kernel tells when a wait is over; a   *)
(* process that is asked to end may end, take its time or not care.         *)
(***************************************************************************)
EXTENDS FiniteSets

CONSTANTS
  Launcher,    \* the child that is started and waited for
  Descendants  \* processes it may start, directly or not

GroupAssumption == IsFiniteSet(Descendants) /\ Launcher \notin Descendants

VARIABLES
  pc,       \* what run_command does
  running,  \* processes of the group that run
  unborn,   \* descendants not started yet
  asked,    \* those a SIGTERM has reached
  timedOut, \* timed_out
  result    \* "none", "not_started", "returned"

vars == <<pc, running, unborn, asked, timedOut, result>>

Group == Descendants \union {Launcher}

TypeOK ==
  /\ pc \in {"start", "waiting", "terminate", "grace", "kill", "reap", "done"}
  /\ running \subseteq Group /\ unborn \subseteq Descendants /\ asked \subseteq Group
  /\ timedOut \in BOOLEAN /\ result \in {"none", "not_started", "returned"}

Init ==
  /\ pc = "start" /\ running = {} /\ unborn = Descendants /\ asked = {}
  /\ timedOut = FALSE /\ result = "none"

----------------------------------------------------------------------------
(* The processes *)

\* Only a process that runs starts another one.
Spawn(d) ==
  /\ running # {} /\ d \in unborn
  /\ running' = running \union {d} /\ unborn' = unborn \ {d}
  /\ UNCHANGED <<pc, asked, timedOut, result>>

\* Any process ends when it likes, also one that was asked to.
Ends(p) ==
  /\ p \in running /\ running' = running \ {p}
  /\ UNCHANGED <<pc, unborn, asked, timedOut, result>>

----------------------------------------------------------------------------
(* run_command *)

Start ==
  /\ pc = "start"
  /\ \/ pc' = "waiting" /\ running' = {Launcher} /\ UNCHANGED result
     \/ pc' = "done" /\ result' = "not_started" /\ UNCHANGED running
  /\ UNCHANGED <<unborn, asked, timedOut>>

LauncherEnded == Launcher \notin running

\* Fault: the call waits until nobody holds the tool's output open.
WaitReturnsWhenQuiet ==
  /\ pc = "waiting" /\ running = {}
  /\ pc' = "done" /\ result' = "returned"
  /\ UNCHANGED <<running, unborn, asked, timedOut>>

\* The launcher ended in time; what it started is left alone.
WaitReturns ==
  /\ pc = "waiting" /\ LauncherEnded
  /\ pc' = "done" /\ result' = "returned"
  /\ UNCHANGED <<running, unborn, asked, timedOut>>

WaitExpires ==
  /\ pc = "waiting" /\ ~LauncherEnded
  /\ pc' = "terminate" /\ timedOut' = TRUE
  /\ UNCHANGED <<running, unborn, asked, result>>

\* SIGTERM reaches every process there is now; a group without any is ignored
\* and needs no grace.
Terminate ==
  /\ pc = "terminate"
  /\ pc' = IF running = {} THEN "kill" ELSE "grace"
  /\ asked' = running
  /\ UNCHANGED <<running, unborn, timedOut, result>>

\* Fault: a launcher that ends when it is asked to is the end of the story.
GraceTrusted ==
  /\ pc = "grace"
  /\ pc' = IF LauncherEnded THEN "done" ELSE "kill"
  /\ result' = IF LauncherEnded THEN "returned" ELSE result
  /\ UNCHANGED <<running, unborn, asked, timedOut>>

\* The launcher ends or two seconds pass, whichever comes first.
Grace ==
  /\ pc = "grace" /\ pc' = "kill"
  /\ UNCHANGED <<running, unborn, asked, timedOut, result>>

Kill ==
  /\ pc = "kill" /\ pc' = "reap" /\ running' = {}
  /\ UNCHANGED <<unborn, asked, timedOut, result>>

Reap ==
  /\ pc = "reap" /\ LauncherEnded
  /\ pc' = "done" /\ result' = "returned"
  /\ UNCHANGED <<running, unborn, asked, timedOut>>

RunCommand == Start \/ WaitReturns \/ WaitExpires \/ Terminate \/ Grace \/ Kill \/ Reap

Next == RunCommand \/ (\E d \in Descendants : Spawn(d)) \/ (\E p \in Group : Ends(p))

Spec == Init /\ [][Next]_vars

\* The calling thread goes on, and its waits are over when their time is.  The
\* processes of the group owe nothing.
FairSpec == Spec /\ WF_vars(RunCommand)

----------------------------------------------------------------------------
(* Properties *)

\* After a timeout nothing of the tool is left, whichever process ended by itself
\* during the grace period and whatever was started in it: a solver that lived on
\* would take time from the slots that follow.
NothingSurvivesTimeout == pc = "done" /\ timedOut => running = {}
=============================================================================
