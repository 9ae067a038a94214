---------------------------- MODULE PairedStudy ----------------------------
(***************************************************************************)
(* What a study driver promises, whatever happens to its process.  A study  *)
(* is a set of paired blocks.  Each is attempted, perhaps several times; an *)
(* attempt that succeeds finishes its block for good, and the study is      *)
(* declared complete only when every block is finished.  No attempt is ever *)
(* thrown away.                                                             *)
(*                                                                         *)
(* study_runner.py implements this (StudyRunner); how far the driver of     *)
(* Stage 5 does is the question of Stage5Study.                             *)
(***************************************************************************)
EXTENDS Naturals

CONSTANT Blocks

VARIABLES
  finished,  \* the blocks the study has recorded as finished
  made,      \* how many attempts were made
  attempts,  \* the attempts there is evidence of, <<block, number>>
  verdict    \* "complete" once the study says so, else "open"

vars == <<finished, made, attempts, verdict>>

Init == finished = {} /\ made = 0 /\ attempts = {} /\ verdict = "open"

\* A block that is not finished is attempted once more.
Attempt(b) ==
  /\ b \notin finished
  /\ made' = made + 1
  /\ attempts' = attempts \union {<<b, made + 1>>}
  /\ UNCHANGED <<finished, verdict>>

\* A block with an attempt is recorded as finished.
FinishBlock(b) ==
  /\ b \notin finished /\ \E n \in 1..made : <<b, n>> \in attempts
  /\ finished' = finished \union {b}
  /\ UNCHANGED <<made, attempts, verdict>>

Declare ==
  /\ finished = Blocks /\ verdict' = "complete"
  /\ UNCHANGED <<finished, made, attempts>>

\* The record is about to be rewritten, or was lost while it was.
Reopen ==
  /\ verdict' = "open"
  /\ UNCHANGED <<finished, made, attempts>>

Next ==
  \/ \E b \in Blocks : FinishBlock(b) \/ Attempt(b)
  \/ Declare \/ Reopen

Spec == Init /\ [][Next]_vars
=============================================================================
