------------------------------ MODULE Subjects -------------------------------
(***************************************************************************)
(* What a study is about, one subject at a time: the plans made from a warmup  *)
(* and the configuration of a study.  `part` is the subject of a behaviour;   *)
(* the variables of the other stay as they are.                              *)
(***************************************************************************)
EXTENDS Integers

CONSTANTS
  Observable, MaxObserved, Limit, SuffixCalls, MaxPlans, Hash,  \* of the plans
  Drafts, Changes, ProfileChanges, Identifiers, SeedBound, MaxEdits  \* of the configurations

VARIABLES
  part,
  observed,
  study, edits

subjectsVars == <<part, observed, study, edits>>

Plans == INSTANCE PrefixPlans WITH Executed <- Observable

Studies == INSTANCE StudyPlan

ASSUME SubjectsAssumption == Plans!PlansAssumption /\ Studies!StudyAssumption

SubjectsInit ==
  /\ part \in {"plans", "study"}
  /\ Plans!Init /\ Studies!Init
  /\ part # "study" => study = CHOOSE draft \in Drafts : TRUE

SubjectsNext ==
  \/ part = "plans" /\ Plans!Next /\ UNCHANGED <<part, study, edits>>
  \/ part = "study" /\ Studies!Next /\ UNCHANGED <<part, observed>>

SubjectsSpec == SubjectsInit /\ [][SubjectsNext]_subjectsVars

-----------------------------------------------------------------------------
\* The plans of a warmup (suffix.py) do not depend on the order in which the
\* fuzzer executed it, name no query twice, as the scheduler demands, and leave
\* out no choice with something to solve for.
PlansAnswerForWarmup ==
  part = "plans" => Plans!OrderIsIrrelevant /\ Plans!QueriesDiffer /\ Plans!PlansAreComplete

\* A configuration that is accepted (study.py) gives complete blocks; under a
\* frozen protocol it compares every arm, one thing at a time, on shared slots.
AcceptedStudiesCompare ==
  part = "study" =>
    /\ Studies!BlocksAreComplete /\ Studies!EveryArmCompared
    /\ Studies!OneThingVaries /\ Studies!OneSlotIsShared
=============================================================================
