--------------------------- MODULE Judgements_proofs ---------------------------
(***************************************************************************)
(* What the conclusions of the program are worth, for every value of the     *)
(* constants: a candidate that is confirmed is real, the benchmark compares   *)
(* what it may, the reports of the two searches are true, and the audits find *)
(* what was run.  Each part has an inductive invariant of its own; the         *)
(* theorems at the end put them together.                                     *)
(***************************************************************************)
EXTENDS Judgements, Subsequences_proofs

----------------------------------------------------------------------------
(* The replays of a candidate: what the evidence accepted so far shows.      *)
(* Foundry's steps are either the truth or, if Foundry is the unsound tool,    *)
(* only well reported; Medusa's report has to agree with them, and then one    *)
(* of the two is the truth.                                                    *)

ReplayTypeOK ==
  /\ stage \in {1, 5}
  /\ truth.flawed \in Behaviours /\ truth.repaired \in Behaviours
  /\ Len(truth.repaired) = Size
  /\ unsound \in {"none", "foundry", "medusa"}

\* What an accepted report shows, and what a confirmation says of a contract.
Breaks(told) == \A i \in 1..Size : told[i].success /\ (told[i].holds <=> i < Size)
Survives(told) == \A i \in 1..Size : told[i].holds /\ (i < Size => told[i].success)

\* The steps kept between the two witnesses of one contract.
StepsKept(effects) == DOMAIN steps = 1..Size /\ (unsound # "foundry" => steps = Reported(effects))

ReplayInv ==
  /\ ReplayTypeOK
  /\ stage = 5 =>
       /\ pc = "flawed_native" => StepsKept(truth.flawed) /\ Breaks(steps)
       /\ pc \in {"repaired_foundry", "repaired_native"} => Breaks(truth.flawed)
       /\ pc = "repaired_native" => StepsKept(truth.repaired) /\ Survives(steps)
       /\ verdict = "confirmed" => Breaks(truth.flawed) /\ Survives(truth.repaired)
  /\ stage = 1 =>
       /\ pc = "flawed_native" /\ unsound # "foundry" => Breaks(truth.flawed)
       /\ verdict = "confirmed" => Breaks(truth.flawed)
       /\ Size = 1

\* A set of natural numbers has a least one.
LEMMA LeastIs ==
  ASSUME NEW S, S \subseteq Nat, S # {}
  PROVE  \E m \in S : \A j \in S : m <= j
BY Least

\* Sizes are positive, and a behaviour has as many calls as its contract was asked.
LEMMA Sizes ==
  ASSUME ReplayTypeOK
  PROVE  /\ Size \in Nat \ {0}
         /\ truth.flawed \in [1..Size -> Effect] /\ truth.repaired \in [1..Size -> Effect]
<1>1. PICK n \in 1..MaxSuffix : truth.flawed \in [1..n -> Effect]
  BY DEF ReplayTypeOK, Behaviours
<1>2. PICK m \in 1..MaxSuffix : truth.repaired \in [1..m -> Effect]
  BY DEF ReplayTypeOK, Behaviours
<1>3. n \in Nat \ {0} /\ m \in Nat \ {0}
  BY ReplayAssumption
<1>4. Size = n /\ Len(truth.repaired) = m
  BY <1>1, <1>2, <1>3 DEF Size
<1> QED BY <1>1, <1>2, <1>3, <1>4 DEF ReplayTypeOK

\* The first violation of a report is at one of its steps, and none is earlier.
LEMMA FirstIsFirst ==
  ASSUME ReplayTypeOK, NEW told, DOMAIN told = 1..Size
  PROVE  /\ FirstViolation(told) = 0 => \A i \in 1..Size : told[i].read
         /\ FirstViolation(told) # 0 =>
              /\ FirstViolation(told) \in 1..Size /\ ~told[FirstViolation(told)].read
              /\ \A i \in 1..Size : i < FirstViolation(told) => told[i].read
<1> DEFINE broken == {i \in DOMAIN told : ~told[i].read}
<1>1. Size \in Nat /\ broken \subseteq 1..Size
  BY Sizes
<1>2. CASE broken = {}
  <2>1. FirstViolation(told) = 0
    BY <1>2 DEF FirstViolation
  <2>2. \A i \in 1..Size : told[i].read
    BY <1>2
  <2> QED BY <2>1, <2>2
<1>3. CASE broken # {}
  <2>1. PICK m \in broken : \A j \in broken : m <= j
    <3>1. broken \subseteq Nat
      BY <1>1
    <3> HIDE DEF broken
    <3> QED BY <1>3, <3>1, LeastIs
  <2>2. FirstViolation(told) = CHOOSE i \in broken : \A j \in broken : i <= j
    BY <1>3 DEF FirstViolation
  <2>3. /\ FirstViolation(told) \in broken
        /\ \A j \in broken : FirstViolation(told) <= j
    BY <2>1, <2>2
  <2> HIDE DEF broken
  <2>4. FirstViolation(told) \in 1..Size
    BY <1>1, <2>3
  <2>5. ~told[FirstViolation(told)].read
    BY <2>3 DEF broken
  <2>6. ASSUME NEW i \in 1..Size, i < FirstViolation(told) PROVE told[i].read
    <3>1. i \notin broken
      BY <1>1, <2>3, <2>4, <2>6
    <3> QED BY <3>1 DEF broken
  <2>7. FirstViolation(told) # 0
    BY <1>1, <2>4
  <2> QED BY <2>4, <2>5, <2>6, <2>7
<1> QED BY <1>2, <1>3

\* A well reported report of a tool has the steps of the behaviour, and is the
\* truth unless the tool is the unsound one.
LEMMA ReportShape ==
  ASSUME ReplayTypeOK, NEW tool, NEW effects \in [1..Size -> Effect],
         NEW told \in Reports(tool, effects), WellReported(told)
  PROVE  DOMAIN told = 1..Size /\ (unsound # tool => told = Reported(effects))
<1>1. CASE unsound = tool
  <2>1. told \in Anything
    BY <1>1 DEF Reports
  <2>2. PICK n \in 0..MaxSuffix : told \in [1..n -> Steps]
    BY <2>1 DEF Anything
  <2>3. n \in Nat
    BY ReplayAssumption
  <2>4. Len(told) = n /\ DOMAIN told = 1..n
    BY <2>2, <2>3
  <2> QED BY <1>1, <2>4 DEF WellReported
<1>2. CASE unsound # tool
  BY <1>2 DEF Reports, Reported
<1> QED BY <1>1, <1>2

\* What is reported of a behaviour is the behaviour.
LEMMA ReportedIsTrue ==
  ASSUME NEW effects \in [1..Size -> Effect], NEW i \in 1..Size
  PROVE  /\ Reported(effects)[i].success = effects[i].success
         /\ Reported(effects)[i].holds = effects[i].holds
BY DEF Reported

\* Steps with the outcome of a violation show one, at the last call and not before.
LEMMA OutcomeBreaks ==
  ASSUME ReplayTypeOK, NEW told, DOMAIN told = 1..Size, WellReported(told),
         Outcome(told, TRUE)
  PROVE  Breaks(told)
<1>1. FirstViolation(told) = Size /\ FirstViolation(told) # 0
  BY DEF Outcome
<1>2. ~told[Size].read /\ \A i \in 1..Size : i < Size => told[i].read
  BY <1>1, FirstIsFirst
<1>3. ASSUME NEW i \in 1..Size PROVE told[i].success /\ (told[i].holds <=> i < Size)
  <2>1. told[i].success
    BY DEF Outcome
  <2>2. told[i].read = told[i].holds
    BY <1>3 DEF WellReported
  <2>3. CASE i < Size
    BY <2>1, <2>2, <2>3, <1>2
  <2>4. CASE ~(i < Size)
    <3>1. i = Size
      BY <2>4, Sizes
    <3>2. ~told[i].holds
      BY <3>1, <2>2, <1>2
    <3> QED BY <2>1, <2>4, <3>2
  <2> QED BY <2>3, <2>4
<1> QED BY <1>3 DEF Breaks

\* Steps with the outcome of the repaired contract show no violation.
LEMMA OutcomeSurvives ==
  ASSUME ReplayTypeOK, NEW told, DOMAIN told = 1..Size, WellReported(told),
         Outcome(told, FALSE)
  PROVE  Survives(told)
<1>1. \A i \in 1..Size : told[i].read
  BY FirstIsFirst DEF Outcome
<1>2. ASSUME NEW i \in 1..Size PROVE told[i].holds /\ (i < Size => told[i].success)
  <2>1. told[i].holds
    BY <1>1 DEF WellReported
  <2>2. i < Size => i \in 1..Size - 1
    BY Sizes
  <2>3. \A j \in 1..Size - 1 : told[j].success
    BY DEF Outcome
  <2> QED BY <2>1, <2>2, <2>3
<1> QED BY <1>2 DEF Survives

\* Medusa's agreement with Foundry's steps makes the truth of what they show:
\* one of the two reports is the truth.
LEMMA WitnessesAgree ==
  ASSUME ReplayTypeOK, NEW effects \in [1..Size -> Effect], StepsKept(effects),
         NEW told \in Reports("medusa", effects), Agrees(told)
  PROVE  /\ \A i \in 1..Size : /\ steps[i].success = effects[i].success
                               /\ steps[i].holds = effects[i].holds
         /\ DOMAIN told = 1..Size
         /\ \A i \in 1..Size : told[i].read = effects[i].holds
<1>1. WellReported(told)
  BY DEF Agrees
<1>2. DOMAIN told = 1..Size /\ (unsound # "medusa" => told = Reported(effects))
  BY <1>1, ReportShape
<1>3. \A i \in 1..Size : /\ told[i].success = steps[i].success
                         /\ told[i].holds = steps[i].holds
                         /\ told[i].read = told[i].holds
  BY <1>1, <1>2 DEF Agrees, WellReported
<1>4. unsound # "foundry" => steps = Reported(effects)
  BY DEF StepsKept
<1>5. CASE unsound # "medusa"
  BY <1>2, <1>3, <1>5, ReportedIsTrue
<1>6. CASE unsound = "medusa"
  <2>1. steps = Reported(effects)
    BY <1>4, <1>6
  <2> QED BY <1>2, <1>3, <2>1, ReportedIsTrue
<1> QED BY <1>5, <1>6

\* The initial states satisfy the invariant.
LEMMA ReplayStarts == ASSUME Init PROVE ReplayInv
<1>1. ReplayTypeOK
  BY DEF Init, ReplayTypeOK, Size
<1> QED BY <1>1 DEF ReplayInv, Init

\* A refusal keeps it: nothing is confirmed by it.
LEMMA RefusalKeeps ==
  ASSUME ReplayInv, NEW why, why # "confirmed", Refuse(why)
  PROVE  ReplayInv'
<1>1. /\ pc' = "done" /\ verdict' # "confirmed"
      /\ stage' = stage /\ truth' = truth /\ unsound' = unsound
  BY DEF Refuse
<1>2. ReplayTypeOK' /\ Size' = Size
  BY <1>1 DEF ReplayInv, ReplayTypeOK, Size
<1> QED BY <1>1, <1>2 DEF ReplayInv

\* The steps that are accepted of Foundry, for the violation or for the repaired
\* contract, show what they have to.
LEMMA FoundryAccepts ==
  ASSUME ReplayTypeOK, NEW effects \in [1..Size -> Effect], NEW violation \in BOOLEAN,
         NEW told \in Reports("foundry", effects),
         WellReported(told), Outcome(told, violation)
  PROVE  /\ DOMAIN told = 1..Size
         /\ unsound # "foundry" => told = Reported(effects)
         /\ violation = TRUE => Breaks(told)
         /\ violation = FALSE => Survives(told)
<1>1. DOMAIN told = 1..Size /\ (unsound # "foundry" => told = Reported(effects))
  BY ReportShape
<1>2. CASE violation = TRUE
  BY <1>1, <1>2, OutcomeBreaks
<1>3. CASE violation = FALSE
  BY <1>1, <1>3, OutcomeSurvives
<1> QED BY <1>1, <1>2, <1>3

\* Every step keeps the invariant.
LEMMA ReplaySteps == ASSUME ReplayInv, [Next]_vars PROVE ReplayInv'
<1>1. ReplayTypeOK
  BY DEF ReplayInv
<1>2. /\ truth.flawed \in [1..Size -> Effect] /\ truth.repaired \in [1..Size -> Effect]
      /\ Size \in Nat \ {0}
  BY <1>1, Sizes
<1>3. ASSUME NEW next, Proceed(next) PROVE ReplayTypeOK' /\ Size' = Size /\ truth' = truth /\ stage' = stage
  BY <1>1, <1>3 DEF Proceed, ReplayTypeOK, Size
<1>4. CASE FlawedFoundry
  <2>1. Foundry(truth.flawed, TRUE, "flawed_native") /\ stage = 5
    BY <1>4 DEF FlawedFoundry
  <2>2. CASE TestRefused \/ Refuse("result_mismatch") \/ Refuse("replay_mismatch")
    BY <2>2, RefusalKeeps DEF TestRefused
  <2>3. ASSUME NEW told \in Reports("foundry", truth.flawed),
               WellReported(told), Outcome(told, TRUE),
               Proceed("flawed_native"), steps' = told
        PROVE  ReplayInv'
    <3>1. /\ DOMAIN told = 1..Size /\ Breaks(told)
          /\ unsound # "foundry" => told = Reported(truth.flawed)
      BY <1>1, <1>2, <2>3, FoundryAccepts
    <3>2. StepsKept(truth.flawed)' /\ Breaks(steps)'
      BY <1>3, <2>3, <3>1 DEF Proceed, StepsKept, Breaks, Reported
    <3> QED BY <1>3, <2>1, <2>3, <3>2 DEF ReplayInv, Proceed, Breaks, Survives
  <2> QED BY <2>1, <2>2, <2>3 DEF Foundry
<1>5. CASE RepairedFoundry
  <2>1. Foundry(truth.repaired, FALSE, "repaired_native") /\ stage = 5 /\ Breaks(truth.flawed)
    BY <1>5 DEF RepairedFoundry, ReplayInv
  <2>2. CASE TestRefused \/ Refuse("result_mismatch") \/ Refuse("replay_mismatch")
    BY <2>2, RefusalKeeps DEF TestRefused
  <2>3. ASSUME NEW told \in Reports("foundry", truth.repaired),
               WellReported(told), Outcome(told, FALSE),
               Proceed("repaired_native"), steps' = told
        PROVE  ReplayInv'
    <3>1. /\ DOMAIN told = 1..Size /\ Survives(told)
          /\ unsound # "foundry" => told = Reported(truth.repaired)
      BY <1>1, <1>2, <2>3, FoundryAccepts
    <3>2. StepsKept(truth.repaired)' /\ Survives(steps)'
      BY <1>3, <2>3, <3>1 DEF Proceed, StepsKept, Survives, Reported
    <3> QED BY <1>3, <2>1, <2>3, <3>2 DEF ReplayInv, Proceed, Breaks, Survives
  <2> QED BY <2>1, <2>2, <2>3 DEF Foundry
<1>6. CASE FlawedNative
  <2>1. stage = 5 /\ StepsKept(truth.flawed) /\ Breaks(steps)
    BY <1>6 DEF FlawedNative, ReplayInv
  <2>2. CASE Refuse("tool_error")
    BY <2>2, RefusalKeeps
  <2>3. ASSUME NEW told \in Reports("medusa", truth.flawed), Agrees(told),
               Proceed("repaired_foundry"), UNCHANGED steps
        PROVE  ReplayInv'
    <3>1. Breaks(truth.flawed)
      BY <1>1, <1>2, <2>1, <2>3, WitnessesAgree DEF Breaks
    <3> QED BY <1>3, <2>1, <2>3, <3>1 DEF ReplayInv, Proceed, Breaks, Survives
  <2> QED BY <1>6, <2>2, <2>3 DEF FlawedNative
<1>7. CASE RepairedNative
  <2>1. stage = 5 /\ StepsKept(truth.repaired) /\ Survives(steps) /\ Breaks(truth.flawed)
    BY <1>7 DEF RepairedNative, ReplayInv
  <2>2. CASE Refuse("tool_error") \/ Refuse("repaired_regression_failure")
    BY <2>2, RefusalKeeps
  <2>3. ASSUME NEW told \in Reports("medusa", truth.repaired), Agrees(told),
               Proceed("done"), UNCHANGED steps
        PROVE  ReplayInv'
    <3>1. Survives(truth.repaired)
      BY <1>1, <1>2, <2>1, <2>3, WitnessesAgree DEF Survives
    <3> QED BY <1>3, <2>1, <2>3, <3>1 DEF ReplayInv, Proceed, Breaks, Survives
  <2> QED BY <1>7, <2>2, <2>3 DEF RepairedNative
<1>8. CASE GoalFoundry
  <2>1. CASE TestRefused
    BY <2>1, RefusalKeeps DEF TestRefused
  <2>2. CASE /\ unsound = "foundry" \/ (truth.flawed[1].success /\ ~truth.flawed[1].holds)
             /\ Proceed("flawed_native") /\ UNCHANGED steps
    <3>1. stage = 1 /\ Size = 1
      BY <1>8 DEF GoalFoundry, ReplayInv
    <3>2. unsound # "foundry" => Breaks(truth.flawed)
      BY <2>2, <3>1 DEF Breaks
    <3> QED BY <1>3, <2>2, <3>1, <3>2 DEF ReplayInv, Proceed, Breaks
  <2> QED BY <1>8, <2>1, <2>2 DEF GoalFoundry
<1>9. CASE GoalNative
  <2>1. stage = 1 /\ Size = 1 /\ (unsound # "foundry" => Breaks(truth.flawed))
    BY <1>9 DEF GoalNative, ReplayInv
  <2>2. CASE Refuse("replay_mismatch")
    BY <2>2, RefusalKeeps
  <2>3. ASSUME NEW e, NEW told \in Reports("medusa", truth.flawed), Stage1Match(e, told),
               Proceed("done"), UNCHANGED steps
        PROVE  ReplayInv'
    <3>1. ASSUME unsound # "medusa" PROVE Breaks(truth.flawed)
      <4>1. WellReported(told)
        BY <2>3 DEF Stage1Match
      <4>2. DOMAIN told = 1..Size /\ told = Reported(truth.flawed)
        BY <1>1, <1>2, <3>1, <4>1, ReportShape
      <4>3. truth.flawed[1].success /\ ~truth.flawed[1].holds
        BY <1>2, <2>1, <2>3, <4>2, ReportedIsTrue DEF Stage1Match
      <4> QED BY <2>1, <4>3 DEF Breaks
    <3>2. unsound = "medusa" => Breaks(truth.flawed)
      BY <2>1
    <3>3. Breaks(truth.flawed)
      BY <3>1, <3>2
    <3> QED BY <1>3, <2>1, <2>3, <3>3 DEF ReplayInv, Proceed, Breaks
  <2> QED BY <1>9, <2>2, <2>3 DEF GoalNative
<1>10. CASE UNCHANGED vars
  BY <1>10 DEF vars, ReplayInv, ReplayTypeOK, Size, Breaks, Survives, StepsKept
<1> QED BY <1>4, <1>5, <1>6, <1>7, <1>8, <1>9, <1>10 DEF Next

----------------------------------------------------------------------------
(* The benchmark *)

CommonWork == [elapsed : Int, within : BOOLEAN, prefixes : BOOLEAN, goal : BOOLEAN]
NativeRun == [continued : BOOLEAN, resolved : BOOLEAN, import : BOOLEAN, continuation : BOOLEAN]
Outcomes == {"pending", "completed", "campaign_deadline", "tool_error", "evidence_error"}
Lineages == {"pending", "verified", "unverified"}
Augmentations ==
  {"pending", "not_applicable", "no_eligible_prefix", "completed",
   "no_candidate", "timeout", "invalid_model", "replay_mismatch"}
ArmRecord ==
  [execution : Outcomes, lineage : Lineages, goal : BOOLEAN, valid : BOOLEAN,
   augmentation : Augmentations, warm : BOOLEAN, accepted : BOOLEAN, late : BOOLEAN,
   native : Seq(NativeRun), files : SUBSET {"augmentation", "native", "metrics"}]

\* What the augmentation of an arm did is settled.
Augmented(r, arm) ==
  /\ r.augmentation # "pending"
  /\ arm = "native_resume" <=> r.augmentation = "not_applicable"

\* What a record says of its arm.
ArmSound(r, arm) ==
  /\ r \in ArmRecord
  /\ r.valid =>
       /\ r.execution = "completed" /\ r.lineage = "verified" /\ ~r.late
       /\ r.accepted => r.native[1].import
       /\ Augmented(r, arm)
       /\ r.goal <=> r.warm \/ r.native[1].import \/ r.native[1].continuation

\* The record of the present arm, stage by stage.
ArmOpen ==
  /\ benchRecord \in ArmRecord /\ benchRecord.warm = common.goal /\ Bench!Key \in DOMAIN corpora
  /\ benchPc # "finally" => ~benchRecord.valid
  /\ benchPc \in {"prefix_pool", "augmentation"} =>
       /\ ~benchRecord.accepted
       /\ benchRecord.augmentation =
            IF Bench!Arm = "native_resume" THEN "not_applicable" ELSE "pending"
  /\ benchPc \in {"native", "verify"} =>
       /\ Augmented(benchRecord, Bench!Arm)
       /\ benchRecord.accepted => corpora[Bench!Key] # {}
  /\ benchPc = "verify" =>
       /\ Len(benchRecord.native) = 1
       /\ benchRecord.accepted /\ benchRecord.native[1].continued => benchRecord.native[1].import
  /\ benchPc = "finally" => ArmSound(benchRecord, Bench!Arm)

BenchInv ==
  /\ benchPhase = "arm" => common \in CommonWork /\ (benchPc = "start" \/ ArmOpen)
  /\ left \in Int
  /\ \A k \in DOMAIN archive : ArmSound(archive[k], k[2])
  /\ Bench!SeedsStayInTheirArm
  /\ Bench!ValidRowsHitOrCensored

LEMMA BenchStarts == ASSUME Bench!Init PROVE BenchInv
BY DEF Bench!Init, BenchInv, Bench!SeedsStayInTheirArm, Bench!ValidRowsHitOrCensored, Bench!Rows

\* As long as the report and the other arms stay, so does what is said of them.
LEMMA BenchKept ==
  ASSUME BenchInv, UNCHANGED <<archive, corpora, report>>, left' \in Int,
         benchPhase' = "arm" => common' \in CommonWork /\ (benchPc' = "start" \/ ArmOpen')
  PROVE  BenchInv'
BY DEF BenchInv, Bench!SeedsStayInTheirArm, Bench!ValidRowsHitOrCensored, Bench!Rows, Bench!Row

\* A record that is given up is never valid.
LEMMA ArmEnds ==
  ASSUME BenchInv, benchPhase = "arm", benchPc \notin {"start", "finally"},
         UNCHANGED Bench!here, benchPc' = "finally", left' \in Int,
         benchRecord' \in ArmRecord, ~benchRecord'.valid, benchRecord'.warm = benchRecord.warm
  PROVE  BenchInv'
<1>1. /\ benchPhase' = "arm" /\ UNCHANGED <<block, turn, common, corpora, archive, report>>
      /\ common \in CommonWork /\ ArmOpen
  BY DEF Bench!here, BenchInv
<1>2. ArmOpen'
  BY <1>1 DEF ArmOpen, ArmSound, Bench!Key, Bench!Arm
<1> QED BY <1>1, <1>2, BenchKept

LEMMA BenchSteps ==
  ASSUME BenchInv, [Bench!Next]_benchVars
  PROVE  BenchInv'
<1> USE DEF Bench!here
<1>1. CASE Bench!CommonFails
  BY <1>1, BenchKept DEF Bench!CommonFails, BenchInv
<1>2. CASE Bench!PrepareCommon
  <2>1. common' \in CommonWork
    <3>1. PICK e \in 0..(Total + 1), p \in BOOLEAN, g \in BOOLEAN :
            common' = [elapsed |-> e, within |-> e <= CommonLimit, prefixes |-> p, goal |-> g]
      BY <1>2 DEF Bench!PrepareCommon
    <3> QED BY <3>1 DEF CommonWork
  <2> QED BY <1>2, <2>1, BenchKept DEF Bench!PrepareCommon, BenchInv
<1>3. CASE benchPhase = "arm" /\ Bench!Start
  <2>1. /\ benchPhase' = "arm" /\ benchPc' = "prefix_pool" /\ common \in CommonWork
        /\ left' = Total - common.elapsed /\ benchRecord' = Bench!NewRecord
        /\ corpora' = [k \in DOMAIN corpora \union {Bench!Key} |->
                         IF k = Bench!Key THEN {} ELSE corpora[k]]
        /\ UNCHANGED <<block, turn, common, archive, report>>
    BY <1>3 DEF Bench!Start, BenchInv
  <2>2. left' \in Int
    BY <2>1, JudgementsAssumption DEF Bench!BenchmarkAssumption, CommonWork
  <2>3. ArmOpen'
    <3>1. common.goal \in BOOLEAN
      BY <2>1 DEF CommonWork
    <3>2. Bench!NewRecord \in ArmRecord
      BY <3>1 DEF Bench!NewRecord, ArmRecord, Outcomes, Lineages, Augmentations
    <3> QED BY <2>1, <3>2 DEF ArmOpen, Bench!NewRecord, Bench!Key, Bench!Arm
  <2>4. Bench!SeedsStayInTheirArm'
    BY <2>1 DEF BenchInv, Bench!SeedsStayInTheirArm
  <2> QED BY <2>1, <2>2, <2>3, <2>4 DEF BenchInv, Bench!ValidRowsHitOrCensored, Bench!Rows, Bench!Row
<1>4. CASE benchPhase = "arm" /\ Bench!StartFails
  BY <1>4, BenchKept DEF Bench!StartFails, BenchInv
<1>5. ASSUME benchPhase = "arm", benchPc \notin {"start"} PROVE common \in CommonWork /\ ArmOpen
  BY <1>5 DEF BenchInv
<1>6. ASSUME NEW stage_ \in {"prefix_pool", "native"}, benchPhase = "arm", Bench!Refused(stage_)
      PROVE  BenchInv'
  <2>1. ArmOpen /\ benchPc = stage_
    BY <1>5, <1>6 DEF Bench!Refused
  <2>2. /\ benchRecord' = [benchRecord EXCEPT !.execution = "campaign_deadline"]
        /\ benchRecord \in ArmRecord /\ ~benchRecord.valid
    BY <1>6, <2>1 DEF Bench!Refused, Bench!Raise, ArmOpen
  <2>3. /\ benchRecord' \in ArmRecord /\ ~benchRecord'.valid
        /\ benchRecord'.warm = benchRecord.warm
    BY <2>2 DEF ArmRecord, Outcomes, Lineages, Augmentations
  <2> QED BY <1>6, <2>1, <2>3, ArmEnds DEF Bench!Refused, Bench!Raise, BenchInv
<1>7. CASE benchPhase = "arm" /\ Bench!PrefixPool
  <2>1. ArmOpen /\ benchPc = "prefix_pool" /\ left \in Int
    BY <1>5, <1>7 DEF Bench!PrefixPool, BenchInv
  <2>2. PICK d \in 0..1 : /\ left' = left - d
                          /\ benchRecord' = [benchRecord EXCEPT !.late = Bench!Late(d)]
    BY <1>7 DEF Bench!PrefixPool, Bench!Spend
  <2>3. Bench!Late(d) \in BOOLEAN
    BY <2>1 DEF Bench!Late, ArmOpen, ArmRecord, Outcomes, Lineages, Augmentations
  <2>4. ArmOpen'
    BY <1>7, <2>1, <2>2, <2>3 DEF Bench!PrefixPool, ArmOpen, ArmRecord, Outcomes, Lineages, Augmentations, Bench!Key, Bench!Arm
  <2> QED BY <1>5, <1>7, <2>1, <2>2, <2>4, BenchKept DEF Bench!PrefixPool
<1>8. CASE benchPhase = "arm" /\ Bench!SkipAugmentation
  <2>1. ArmOpen /\ benchPc = "augmentation" /\ left \in Int
    BY <1>5, <1>8 DEF Bench!SkipAugmentation, BenchInv
  <2>2. benchRecord \in ArmRecord /\ ~benchRecord.valid /\ ~benchRecord.accepted
    BY <2>1 DEF ArmOpen
  <2>3. /\ benchRecord' \in ArmRecord /\ ~benchRecord'.valid /\ ~benchRecord'.accepted
        /\ benchRecord'.warm = benchRecord.warm /\ Augmented(benchRecord', Bench!Arm)
    <3>1. CASE Bench!Arm = "native_resume"
      BY <1>8, <2>1, <2>2, <3>1 DEF Bench!SkipAugmentation, Augmented, ArmOpen
    <3>2. CASE Bench!Arm # "native_resume"
      BY <1>8, <2>2, <3>2 DEF Bench!SkipAugmentation, Augmented, ArmRecord, Outcomes, Lineages, Augmentations
    <3> QED BY <3>1, <3>2
  <2>4. ArmOpen'
    BY <1>8, <2>1, <2>3 DEF Bench!SkipAugmentation, ArmOpen, Augmented, Bench!Key, Bench!Arm
  <2> QED BY <1>5, <1>8, <2>1, <2>4, BenchKept DEF Bench!SkipAugmentation
<1>9. CASE benchPhase = "arm" /\ Bench!NoTimeToAugment
  <2>1. ArmOpen /\ benchPc = "augmentation"
    BY <1>5, <1>9 DEF Bench!NoTimeToAugment, Bench!Augments
  <2>2. /\ benchRecord' = [benchRecord EXCEPT !.execution = "campaign_deadline"]
        /\ benchRecord \in ArmRecord /\ ~benchRecord.valid
    BY <1>9, <2>1 DEF Bench!NoTimeToAugment, Bench!Raise, ArmOpen
  <2>3. /\ benchRecord' \in ArmRecord /\ ~benchRecord'.valid
        /\ benchRecord'.warm = benchRecord.warm
    BY <2>2 DEF ArmRecord, Outcomes, Lineages, Augmentations
  <2> QED BY <1>9, <2>1, <2>3, ArmEnds DEF Bench!NoTimeToAugment, Bench!Raise, BenchInv
<1>10. CASE benchPhase = "arm" /\ Bench!AugmentationRaises
  <2>1. ArmOpen /\ benchPc = "augmentation" /\ left \in Int
    BY <1>5, <1>10 DEF Bench!AugmentationRaises, Bench!Augments, BenchInv
  <2>2. PICK s \in {"tool_error", "evidence_error"}, d \in 0..(left + 1) :
          /\ left' = left - d
          /\ benchRecord' = [benchRecord EXCEPT !.execution = s, !.late = Bench!Late(d)]
    BY <1>10 DEF Bench!AugmentationRaises, Bench!Spend
  <2>3. Bench!Late(d) \in BOOLEAN /\ benchRecord \in ArmRecord /\ ~benchRecord.valid
    BY <2>1 DEF Bench!Late, ArmOpen, ArmRecord, Outcomes, Lineages, Augmentations
  <2>4. /\ benchRecord' \in ArmRecord /\ ~benchRecord'.valid
        /\ benchRecord'.warm = benchRecord.warm
    BY <2>2, <2>3 DEF ArmRecord, Outcomes, Lineages, Augmentations
  <2>5. left' \in Int
    BY <2>1, <2>2
  <2> QED BY <1>10, <2>1, <2>4, <2>5, ArmEnds DEF Bench!AugmentationRaises
<1>11. CASE benchPhase = "arm" /\ Bench!Augment
  <2>1. ArmOpen /\ benchPc = "augmentation" /\ left \in Int /\ Bench!Arm # "native_resume"
    BY <1>5, <1>11 DEF Bench!Augment, Bench!Augments, BenchInv
  <2>2. PICK s \in Bench!NegativeResults \union {"completed"}, d \in 0..(left + 1) :
          /\ left' = left - d
          /\ benchRecord' = [benchRecord EXCEPT !.augmentation = s, !.late = Bench!Late(d),
                               !.accepted = s = "completed", !.files = @ \union {"augmentation"}]
          /\ corpora' = IF s = "completed"
                        THEN [corpora EXCEPT ![Bench!Key] = @ \union {Bench!Arm}] ELSE corpora
    BY <1>11 DEF Bench!Augment, Bench!Spend
  <2>3. /\ Bench!Late(d) \in BOOLEAN /\ benchRecord \in ArmRecord /\ ~benchRecord.valid
        /\ s \in Augmentations /\ s \notin {"pending", "not_applicable"} /\ Bench!Key \in DOMAIN corpora
    BY <2>1 DEF Bench!Late, ArmOpen, ArmRecord, Outcomes, Lineages, Augmentations, Bench!NegativeResults, Augmentations
  <2>4. /\ benchRecord' \in ArmRecord /\ ~benchRecord'.valid
        /\ benchRecord'.warm = benchRecord.warm /\ benchRecord'.augmentation = s
        /\ benchRecord'.accepted = (s = "completed")
    BY <2>2, <2>3 DEF ArmRecord, Outcomes, Lineages, Augmentations
  <2>5. /\ benchPc' = "native" /\ benchPhase' = "arm"
        /\ UNCHANGED <<block, turn, common, archive, report>>
    BY <1>11 DEF Bench!Augment
  <2>6. ArmOpen'
    BY <2>1, <2>2, <2>3, <2>4, <2>5 DEF ArmOpen, Augmented, Bench!Key, Bench!Arm
  <2>7. Bench!SeedsStayInTheirArm'
    BY <2>2, <2>3 DEF BenchInv, Bench!SeedsStayInTheirArm, Bench!Key
  <2>8. left' \in Int
    BY <2>1, <2>2
  <2> QED
    BY <1>5, <1>11, <2>1, <2>5, <2>6, <2>7, <2>8
       DEF BenchInv, Bench!ValidRowsHitOrCensored, Bench!Rows, Bench!Row
<1>12. CASE benchPhase = "arm" /\ Bench!NoTimeForNative
  <2>1. ArmOpen /\ benchPc = "native"
    BY <1>5, <1>12 DEF Bench!NoTimeForNative
  <2>2. /\ benchRecord' = [benchRecord EXCEPT !.execution = "campaign_deadline"]
        /\ benchRecord \in ArmRecord /\ ~benchRecord.valid
    BY <1>12, <2>1 DEF Bench!NoTimeForNative, Bench!Raise, ArmOpen
  <2>3. /\ benchRecord' \in ArmRecord /\ ~benchRecord'.valid
        /\ benchRecord'.warm = benchRecord.warm
    BY <2>2 DEF ArmRecord, Outcomes, Lineages, Augmentations
  <2> QED BY <1>12, <2>1, <2>3, ArmEnds DEF Bench!NoTimeForNative, Bench!Raise, BenchInv
<1>13. CASE benchPhase = "arm" /\ Bench!NativeRaises
  <2>1. ArmOpen /\ benchPc = "native"
    BY <1>5, <1>13 DEF Bench!NativeRaises
  <2>2. PICK s \in {"tool_error", "evidence_error"}, f \in {{}, {"native"}} :
          benchRecord' = [benchRecord EXCEPT !.execution = s, !.files = @ \union f]
    BY <1>13 DEF Bench!NativeRaises
  <2>3. benchRecord \in ArmRecord /\ ~benchRecord.valid
    BY <2>1 DEF ArmOpen
  <2>4. /\ benchRecord' \in ArmRecord /\ ~benchRecord'.valid
        /\ benchRecord'.warm = benchRecord.warm
    BY <2>2, <2>3 DEF ArmRecord, Outcomes, Lineages, Augmentations
  <2> QED BY <1>13, <2>1, <2>4, ArmEnds DEF Bench!NativeRaises, BenchInv
<1>14. CASE benchPhase = "arm" /\ Bench!Native
  <2>1. ArmOpen /\ benchPc = "native" /\ left \in Int /\ common \in CommonWork
    BY <1>5, <1>14 DEF Bench!Native, BenchInv
  <2>2. PICK d \in 0..(left + 1), replayed \in BOOLEAN, continued \in BOOLEAN,
          resolved \in BOOLEAN, found \in BOOLEAN, again \in {FALSE, common.goal} :
          /\ continued => replayed
          /\ found => continued
          /\ Bench!Spend(d)
          /\ benchRecord' = [benchRecord EXCEPT !.late = Bench!Late(d), !.files = @ \union {"native"},
               !.native = <<[continued |-> continued, resolved |-> resolved,
                             import |-> replayed /\ (corpora[Bench!Key] # {} \/ again),
                             continuation |-> found]>>]
    BY <1>14 DEF Bench!Native
  <2>3. /\ Bench!Late(d) \in BOOLEAN /\ benchRecord \in ArmRecord /\ ~benchRecord.valid
        /\ again \in BOOLEAN /\ benchRecord.accepted => corpora[Bench!Key] # {}
        /\ Augmented(benchRecord, Bench!Arm)
    BY <2>1 DEF Bench!Late, ArmOpen, ArmRecord, Outcomes, Lineages, Augmentations, CommonWork
  <2> DEFINE run == [continued |-> continued, resolved |-> resolved,
                     import |-> replayed /\ (corpora[Bench!Key] # {} \/ again),
                     continuation |-> found]
  <2>4. run \in NativeRun /\ run.continued = continued
        /\ run.import = (replayed /\ (corpora[Bench!Key] # {} \/ again))
    BY <2>3 DEF NativeRun
  <2> HIDE DEF run
  <2>5. benchRecord' = [benchRecord EXCEPT !.late = Bench!Late(d), !.files = @ \union {"native"},
                          !.native = <<run>>]
    BY <2>2 DEF run
  <2>6. <<run>> \in Seq(NativeRun) /\ Len(<<run>>) = 1 /\ <<run>>[1] = run
    BY <2>4
  <2>7. /\ benchRecord' \in ArmRecord /\ ~benchRecord'.valid
        /\ benchRecord'.warm = benchRecord.warm
        /\ benchRecord'.augmentation = benchRecord.augmentation
        /\ benchRecord'.accepted = benchRecord.accepted
        /\ benchRecord'.native = <<run>>
    BY <2>3, <2>5, <2>6 DEF ArmRecord, Outcomes, Lineages, Augmentations
  <2>8. ArmOpen'
    BY <1>14, <2>1, <2>2, <2>3, <2>4, <2>6, <2>7
       DEF Bench!Native, ArmOpen, Augmented, Bench!Key, Bench!Arm
  <2>9. left' \in Int
    BY <2>1, <2>2 DEF Bench!Spend
  <2> QED BY <1>5, <1>14, <2>1, <2>8, <2>9, BenchKept DEF Bench!Native
<1>15. CASE benchPhase = "arm" /\ Bench!Verify
  <2>1. /\ ArmOpen /\ benchPc = "verify" /\ left \in Int /\ common \in CommonWork
        /\ benchPc' = "finally" /\ UNCHANGED <<Bench!here, left>>
    BY <1>5, <1>15 DEF Bench!Verify, BenchInv
  <2> DEFINE run == benchRecord.native[1]
             lineage == IF Bench!LineageOk THEN "verified" ELSE "unverified"
             reached == common.goal \/ run.import \/ run.continuation
             good == common.within /\ Bench!LineageOk /\ ~benchRecord.late
  <2>2. /\ benchRecord \in ArmRecord /\ Len(benchRecord.native) = 1
        /\ benchRecord.warm = common.goal /\ Augmented(benchRecord, Bench!Arm)
        /\ benchRecord.accepted /\ run.continued => run.import
    BY <2>1 DEF ArmOpen
  <2>3. run \in NativeRun
    BY <2>2 DEF ArmRecord, Outcomes, Lineages, Augmentations
  <2>4. /\ lineage \in Lineages /\ reached \in BOOLEAN /\ good \in BOOLEAN
        /\ good => lineage = "verified" /\ run.continued
    BY <2>1, <2>2, <2>3 DEF Bench!LineageOk, NativeRun, CommonWork, ArmRecord, Outcomes, Lineages, Augmentations
  <2>5. benchRecord' = [benchRecord EXCEPT !.lineage = lineage, !.files = @ \union {"metrics"},
                          !.goal = reached, !.execution = "completed", !.valid = good]
    BY <1>15 DEF Bench!Verify
  <2> HIDE DEF lineage, good, reached
  <2>6. /\ benchRecord' \in ArmRecord /\ benchRecord'.valid = good /\ benchRecord'.lineage = lineage
        /\ benchRecord'.goal = reached /\ benchRecord'.execution = "completed"
        /\ benchRecord'.warm = benchRecord.warm
        /\ benchRecord'.augmentation = benchRecord.augmentation
        /\ benchRecord'.accepted = benchRecord.accepted
        /\ benchRecord'.native = benchRecord.native
        /\ benchRecord'.late = benchRecord.late
    BY <2>2, <2>4, <2>5 DEF ArmRecord, Outcomes, Lineages, Augmentations
  <2>7. good => ~benchRecord.late
    BY DEF good
  <2>8. ArmSound(benchRecord', Bench!Arm)
    BY <2>2, <2>4, <2>6, <2>7 DEF ArmSound, Augmented, reached
  <2>9. ArmOpen'
    BY <2>1, <2>2, <2>6, <2>8 DEF ArmOpen, Bench!Key, Bench!Arm
  <2> QED BY <1>15, <2>1, <2>9, BenchKept
<1>16. CASE benchPhase = "arm" /\ Bench!MetricsRaise
  <2>1. ArmOpen /\ benchPc = "verify"
    BY <1>5, <1>16 DEF Bench!MetricsRaise
  <2> DEFINE lineage == IF Bench!LineageOk THEN "verified" ELSE "unverified"
  <2>2. /\ benchRecord' = [benchRecord EXCEPT !.lineage = lineage, !.execution = "tool_error"]
        /\ benchRecord \in ArmRecord /\ ~benchRecord.valid /\ lineage \in Lineages
    BY <1>16, <2>1 DEF Bench!MetricsRaise, ArmOpen, Lineages
  <2> HIDE DEF lineage
  <2>3. /\ benchRecord' \in ArmRecord /\ ~benchRecord'.valid
        /\ benchRecord'.warm = benchRecord.warm
    BY <2>2 DEF ArmRecord, Outcomes, Lineages, Augmentations
  <2> QED BY <1>16, <2>1, <2>3, ArmEnds DEF Bench!MetricsRaise, BenchInv
<1>17. CASE benchPhase = "arm" /\ Bench!Finally
  <2>1. ArmOpen /\ benchPc = "finally" /\ common \in CommonWork
    BY <1>5, <1>17 DEF Bench!Finally
  <2>2. ArmSound(benchRecord, Bench!Key[2])
    BY <2>1 DEF ArmOpen, Bench!Key
  <2>3. \A k \in DOMAIN archive' : ArmSound(archive'[k], k[2])
    BY <1>17, <2>2 DEF Bench!Finally, BenchInv
  <2>4. benchPhase' = "arm" => common' = common /\ benchPc' = "start"
    BY <1>17 DEF Bench!Finally
  <2>5. left' \in Int /\ UNCHANGED <<corpora, report>>
    BY <1>17 DEF Bench!Finally
  <2> QED
    BY <2>1, <2>3, <2>4, <2>5
       DEF BenchInv, Bench!SeedsStayInTheirArm, Bench!ValidRowsHitOrCensored, Bench!Rows, Bench!Row
<1>18. CASE Bench!Report
  <2>1. /\ benchPhase' = "ended" /\ UNCHANGED <<left, corpora, archive>>
        /\ \/ report' = <<[status |-> "missing evidence", rows |-> <<>>]>>
           \/ \E s : report' = <<[status |-> s,
                                  rows |-> [k \in DOMAIN archive |-> Bench!Row(archive[k])]]>>
    BY <1>18 DEF Bench!Report
  <2>2. ASSUME NEW k \in DOMAIN archive, archive[k].valid
        PROVE  Bench!Row(archive[k]).censored <=> ~Bench!Row(archive[k]).goal
    BY <2>2 DEF BenchInv, ArmSound, Bench!Row
  <2>3. \A k \in DOMAIN archive : Bench!Row(archive[k]).valid = archive[k].valid
    BY DEF Bench!Row
  <2>4. Bench!Rows' = <<>> \/ Bench!Rows' = [k \in DOMAIN archive |-> Bench!Row(archive[k])]
    <3>1. ASSUME NEW s, NEW rows, report' = <<[status |-> s, rows |-> rows]>>
          PROVE  Bench!Rows' = rows
      <4>1. report' # <<>> /\ report'[1] = [status |-> s, rows |-> rows]
        BY <3>1
      <4> QED BY <4>1 DEF Bench!Rows
    <3> QED BY <2>1, <3>1
  <2>5. Bench!ValidRowsHitOrCensored'
    BY <2>2, <2>3, <2>4 DEF Bench!ValidRowsHitOrCensored
  <2> QED BY <2>1, <2>5 DEF BenchInv, Bench!SeedsStayInTheirArm
<1>19. CASE UNCHANGED benchVars
  <2>1. ArmOpen => ArmOpen'
    BY <1>19 DEF benchVars, ArmOpen, Augmented, ArmSound, Bench!Key, Bench!Arm
  <2> QED
    BY <1>19, <2>1 DEF benchVars, BenchInv, Bench!SeedsStayInTheirArm,
       Bench!ValidRowsHitOrCensored, Bench!Rows, Bench!Row
<1>20. QED
  BY <1>1, <1>2, <1>3, <1>4, <1>6, <1>7, <1>8, <1>9, <1>10, <1>11, <1>12, <1>13, <1>14, <1>15,
     <1>16, <1>17, <1>18, <1>19 DEF Bench!Next, Bench!Running

LEMMA BenchAnswers ==
  ASSUME BenchInv
  PROVE  /\ Bench!ValidRanTheProtocol /\ Bench!ValidRowsHitOrCensored
         /\ Bench!SeedsStayInTheirArm
BY DEF BenchInv, ArmSound, Augmented, Bench!ValidRanTheProtocol

----------------------------------------------------------------------------
(* The search of Stage 1 *)

Attempt ==
  [prefix_check : Stage1!PrefixStatuses \union {"none"},
   solve : Stage1!GoalStatuses \union {"none"},
   replay : Stage1!ReplayStatuses \union {"none", "violation_confirmed", "reachable_confirmed"},
   admission : {"none", "duplicate", "replay_mismatch", "admitted_for_mutation"},
   evidence : {"none", "violation_at_suffix"},
   repaired : {"none", "property_preserved", "native_preserved"},
   elapsed : [Stage1!Stages -> Int]]

\* What a replay has to show in a scenario of mode m.
Shows(m) == IF m = "safety" THEN "violation_confirmed" ELSE "reachable_confirmed"

\* An attempt the search went on from, and why it did.
Left(a, m) ==
  \/ /\ a.prefix_check \in Stage1!PrefixStatuses \ {"prefix_confirmed"}
     /\ a.solve = "none" /\ a.replay = "none" /\ a.admission = "none"
  \/ /\ a.prefix_check = "prefix_confirmed"
     /\ a.solve \in Stage1!GoalStatuses \ {"candidate"}
     /\ a.replay = "none" /\ a.admission = "none"
  \/ /\ a.prefix_check = "prefix_confirmed" /\ a.solve = "candidate"
     /\ a.replay \in Stage1!ReplayStatuses /\ a.admission = "none"
  \/ /\ a.prefix_check = "prefix_confirmed" /\ a.solve = "candidate"
     /\ a.replay = Shows(m) /\ a.admission \in {"duplicate", "replay_mismatch"}

Underway == {"replay", "insert", "native", "evidence", "repaired", "repaired_native", "confirm"}

\* The stages of an attempt that are still to be measured.
Unmeasured(at) ==
  IF at = "prefix_check" THEN Stage1!Stages
  ELSE IF at = "solve" THEN {"s4_halmos_solve", "s5_replay_reinsert"}
  ELSE {"s5_replay_reinsert"}

\* The attempt that is underway has passed the checks before the present one.
Open(a, at, m) ==
  /\ \A s \in Unmeasured(at) : a.elapsed[s] = 0
  /\ a.prefix_check = IF at = "prefix_check" THEN "none" ELSE "prefix_confirmed"
  /\ a.solve = IF at \in Underway THEN "candidate" ELSE "none"
  /\ a.replay = IF at \in Underway \ {"replay"} THEN Shows(m) ELSE "none"
  /\ a.admission = IF at \in {"evidence", "repaired", "repaired_native", "confirm"}
                   THEN "admitted_for_mutation" ELSE "none"
  /\ at \in {"evidence", "repaired", "repaired_native"} => m = "safety"
  /\ at \in {"repaired", "repaired_native"} => a.evidence = "violation_at_suffix"
  /\ at = "confirm" /\ m = "safety" =>
       a.evidence = "violation_at_suffix" /\ a.repaired = "native_preserved"

\* What was measured adds up to e.
AddsUp(list, e, s) ==
  \E f \in [0..Len(list) -> Int] :
    /\ f[0] = 0 /\ \A n \in 1..Len(list) : f[n] = f[n - 1] + list[n].elapsed[s]
    /\ e = f[Len(list)]

Going == {"prefix_check", "solve"} \union Underway
Before == {"build", "warmup", "select", "controls"}

SearchBase ==
  /\ mode \in {"reach", "safety"} /\ prefixes \in Nat
  /\ searchAttempts \in Seq(Attempt) /\ elapsed \in [Stage1!Stages -> Int]
  /\ \A s \in Stage1!Stages : AddsUp(searchAttempts, elapsed[s], s)

\* The attempts, as far as the search has come.
Progress(list, at, m, most) ==
  /\ at \in Before => list = <<>>
  /\ at = "controls" => most > 0
  /\ at = "loop" =>
       /\ Len(list) <= most /\ most > 0
       /\ \A i \in 1..Len(list) : Left(list[i], m)
  /\ at \in Going =>
       /\ Len(list) \in 1..most
       /\ \A i \in 1..Len(list) : i < Len(list) => Left(list[i], m)
       /\ Open(list[Len(list)], at, m)

SearchInv ==
  /\ SearchBase
  /\ searchPc \in Before \union Going \union {"loop", "done"}
  /\ Progress(searchAttempts, searchPc, mode, prefixes)
  /\ searchPc # "done" => searchStatus = "incomplete" /\ confirmed = 0
  /\ Stage1!NegativeMeansExplored /\ Stage1!NoVerdictHidesFailure /\ Stage1!ConfirmedPassedAll

\* The sums of the property are those of AddsUp.
LEMMA SumsAre ==
  ASSUME searchAttempts \in Seq(Attempt), elapsed \in [Stage1!Stages -> Int],
         \A s \in Stage1!Stages : AddsUp(searchAttempts, elapsed[s], s)
  PROVE  Stage1!StageTimesAddUp
<1> DEFINE L == Len(searchAttempts)
<1>1. L \in Nat
  OBVIOUS
<1> HIDE DEF L
<1>2. ASSUME NEW s \in Stage1!Stages
      PROVE  LET sum[n \in 0..L] == IF n = 0 THEN 0 ELSE sum[n - 1] + searchAttempts[n].elapsed[s]
             IN  elapsed[s] = sum[L]
  <2> DEFINE Meets(f) == f = [n \in 0..L |->
               IF n = 0 THEN 0 ELSE f[n - 1] + searchAttempts[n].elapsed[s]]
             g == CHOOSE g : Meets(g)
  <2>1. PICK f \in [0..L -> Int] :
          /\ f[0] = 0 /\ \A n \in 1..L : f[n] = f[n - 1] + searchAttempts[n].elapsed[s]
          /\ elapsed[s] = f[L]
    BY <1>2 DEF AddsUp, L
  <2>2. Meets(f)
    <3> DEFINE h == [n \in 0..L |-> IF n = 0 THEN 0 ELSE f[n - 1] + searchAttempts[n].elapsed[s]]
    <3>1. \A n \in 0..L : n = 0 \/ n \in 1..L
      BY <1>1
    <3>2. \A n \in 0..L : f[n] = h[n]
      BY <2>1, <3>1
    <3>3. f = [n \in 0..L |-> f[n]] /\ h = [n \in 0..L |-> h[n]]
      BY <2>1
    <3> HIDE DEF h
    <3>4. f = h
      BY <3>2, <3>3
    <3> QED BY <3>4 DEF h
  <2>3. Meets(g)
    BY <2>2
  <2>4. \A n \in 0..L : g[n] = IF n = 0 THEN 0 ELSE g[n - 1] + searchAttempts[n].elapsed[s]
    <3> DEFINE h == [n \in 0..L |-> IF n = 0 THEN 0 ELSE g[n - 1] + searchAttempts[n].elapsed[s]]
    <3>1. g = h
      BY <2>3
    <3>2. \A n \in 0..L : h[n] = IF n = 0 THEN 0 ELSE g[n - 1] + searchAttempts[n].elapsed[s]
      OBVIOUS
    <3> HIDE DEF h, g
    <3> QED BY <3>1, <3>2
  <2> HIDE DEF g, Meets
  <2> DEFINE same == {n \in Nat : n <= L => g[n] = f[n]}
  <2>5. 0 \in same
    BY <1>1, <2>1, <2>4
  <2>6. ASSUME NEW n \in Nat, n \in same PROVE n + 1 \in same
    <3>1. SUFFICES ASSUME n + 1 <= L PROVE g[n + 1] = f[n + 1]
      OBVIOUS
    <3>2. n + 1 \in 1..L /\ n + 1 \in 0..L /\ (n + 1) - 1 = n /\ n + 1 # 0 /\ g[n] = f[n]
      BY <1>1, <2>6, <3>1
    <3> QED BY <2>1, <2>4, <3>2
  <2> HIDE DEF same
  <2>7. Nat \subseteq same
    BY <2>5, <2>6, Induction
  <2>8. g[L] = f[L]
    BY <1>1, <2>7 DEF same
  <2>9. elapsed[s] = g[L]
    BY <2>1, <2>8
  <2> QED BY <2>9 DEF g, Meets
<1> QED BY <1>2 DEF Stage1!StageTimesAddUp, L

\* An attempt that has taken no time yet adds nothing.
LEMMA FreshAddsNothing ==
  ASSUME NEW list \in Seq(Attempt), NEW e, NEW s, AddsUp(list, e, s),
         NEW a, a.elapsed[s] = 0
  PROVE  AddsUp(Append(list, a), e, s)
<1> DEFINE L == Len(list)
           more == Append(list, a)
<1>1. PICK f \in [0..L -> Int] :
        /\ f[0] = 0 /\ \A n \in 1..L : f[n] = f[n - 1] + list[n].elapsed[s]
        /\ e = f[L]
  BY DEF AddsUp
<1>2. L \in Nat /\ Len(more) = L + 1 /\ more[L + 1] = a /\ \A n \in 1..L : more[n] = list[n]
  OBVIOUS
<1> DEFINE g == [n \in 0..(L + 1) |-> IF n = L + 1 THEN e ELSE f[n]]
<1> HIDE DEF L, more
<1>3. g \in [0..(L + 1) -> Int] /\ g[0] = 0 /\ g[L + 1] = e
  BY <1>1, <1>2
<1>4. ASSUME NEW n \in 1..(L + 1) PROVE g[n] = g[n - 1] + more[n].elapsed[s]
  <2>1. n - 1 \in 0..L /\ n - 1 # L + 1 /\ (n \in 1..L \/ n = L + 1)
    BY <1>2
  <2>2. g[n - 1] = f[n - 1]
    BY <1>2, <2>1
  <2>3. CASE n = L + 1
    BY <1>1, <1>2, <1>3, <2>2, <2>3
  <2>4. CASE n \in 1..L
    <3>1. n # L + 1 /\ n \in 0..(L + 1)
      BY <1>2, <2>4
    <3>2. g[n] = f[n]
      BY <3>1
    <3>3. f[n] = f[n - 1] + list[n].elapsed[s] /\ more[n] = list[n]
      BY <1>1, <1>2, <2>4
    <3> HIDE DEF g
    <3> QED BY <2>2, <3>2, <3>3
  <2> QED BY <2>1, <2>3, <2>4
<1> HIDE DEF g
<1> QED BY <1>2, <1>3, <1>4 DEF AddsUp, more

\* Measuring a stage of the last attempt for the first time adds its time.
LEMMA MeasuringAdds ==
  ASSUME NEW list \in Seq(Attempt), Len(list) > 0, NEW e \in Int, NEW s, NEW d \in Int,
         AddsUp(list, e, s), NEW a,
         list[Len(list)].elapsed[s] \in Int, a.elapsed[s] = list[Len(list)].elapsed[s] + d,
         NEW new, new = [list EXCEPT ![Len(list)] = a], NEW sum, sum = e + d
  PROVE  AddsUp(new, sum, s)
<1> DEFINE L == Len(list)
<1>1. PICK f \in [0..L -> Int] :
        /\ f[0] = 0 /\ \A n \in 1..L : f[n] = f[n - 1] + list[n].elapsed[s]
        /\ e = f[L]
  BY DEF AddsUp
<1>2. /\ L \in Nat \ {0} /\ Len(new) = L /\ new[L] = a
      /\ \A n \in 1..L : n # L => new[n] = list[n]
      /\ a.elapsed[s] = list[L].elapsed[s] + d /\ list[L].elapsed[s] \in Int
  OBVIOUS
<1> DEFINE g == [n \in 0..L |-> IF n = L THEN e + d ELSE f[n]]
<1> HIDE DEF L
<1>5. \A n \in 0..L : g[n] = IF n = L THEN e + d ELSE f[n]
  OBVIOUS
<1>3. g \in [0..L -> Int] /\ g[0] = 0 /\ g[L] = e + d
  BY <1>1, <1>2
<1> HIDE DEF g
<1>4. ASSUME NEW n \in 1..L PROVE g[n] = g[n - 1] + new[n].elapsed[s]
  <2>1. n - 1 \in 0..L /\ n - 1 # L
    BY <1>2
  <2>2. g[n - 1] = f[n - 1] /\ f[n - 1] \in Int
    BY <1>1, <1>2, <1>5, <2>1
  <2>3. CASE n = L
    <3>1. f[L] = f[L - 1] + list[L].elapsed[s] /\ new[L].elapsed[s] = list[L].elapsed[s] + d
      BY <1>1, <1>2
    <3>2. f[L - 1] \in Int /\ list[L].elapsed[s] \in Int /\ g[L - 1] = f[L - 1]
      BY <1>2, <2>2, <2>3
    <3>3. g[L] = e + d /\ e = f[L]
      BY <1>1, <1>3
    <3> DEFINE x == f[L - 1]
               y == list[L].elapsed[s]
    <3>4. g[L] = (x + y) + d /\ new[L].elapsed[s] = y + d /\ g[L - 1] = x /\ x \in Int /\ y \in Int
      BY <3>1, <3>2, <3>3
    <3> HIDE DEF x, y
    <3>5. (x + y) + d = x + (y + d)
      BY <3>4
    <3>6. g[L] = g[L - 1] + new[L].elapsed[s]
      BY <3>4, <3>5, Zenon
    <3> QED BY <2>3, <3>6
  <2>4. CASE n # L
    <3>1. g[n] = f[n]
      BY <1>2, <1>5, <2>4
    <3>2. new[n] = list[n]
      BY <1>2, <2>4
    <3>3. f[n] = f[n - 1] + list[n].elapsed[s]
      BY <1>1
    <3> QED BY <2>2, <3>1, <3>2, <3>3
  <2> QED BY <2>3, <2>4
<1> QED BY <1>2, <1>3, <1>4 DEF AddsUp

LEMMA SearchStarts == ASSUME Stage1!Init PROVE SearchInv
<1>1. ASSUME NEW s \in Stage1!Stages PROVE AddsUp(<<>>, 0, s)
  <2> DEFINE f == [n \in 0..0 |-> 0]
  <2>1. f \in [0..Len(<<>>) -> Int] /\ f[0] = 0 /\ 0 = f[Len(<<>>)]
    OBVIOUS
  <2>2. \A n \in 1..Len(<<>>) : f[n] = f[n - 1] + (<<>>)[n].elapsed[s]
    OBVIOUS
  <2> HIDE DEF f
  <2> QED BY <2>1, <2>2 DEF AddsUp
<1>2. SearchBase
  BY <1>1 DEF Stage1!Init, Stage1!NoTime, SearchBase
<1> QED BY <1>2 DEF Stage1!Init, SearchInv, Progress, Before, Going, Underway,
     Stage1!NegativeMeansExplored, Stage1!NoVerdictHidesFailure, Stage1!ConfirmedPassedAll

\* The search goes on.
LEMMA SearchGoesOn ==
  ASSUME SearchInv, searchPc # "done", SearchBase', UNCHANGED <<confirmed, searchStatus>>,
         searchPc' \in Before \union Going \union {"loop"},
         Progress(searchAttempts', searchPc', mode', prefixes')
  PROVE  SearchInv'
BY DEF SearchInv, Stage1!NegativeMeansExplored, Stage1!NoVerdictHidesFailure,
       Stage1!ConfirmedPassedAll

\* The search ends without a result of its own.
LEMMA SearchGivesUp ==
  ASSUME SearchBase', searchPc' = "done",
         searchStatus' \in Stage1!Raised \union {"observer_mismatch", "no_eligible_prefix",
                                                "solve_budget_exhausted"}
  PROVE  SearchInv'
BY DEF SearchInv, Progress, Before, Going, Underway, Stage1!Raised,
       Stage1!NegativeMeansExplored, Stage1!NoVerdictHidesFailure, Stage1!ConfirmedPassedAll

\* What the summary says of the attempts.
LEMMA SummaryReads ==
  ASSUME NEW i \in DOMAIN searchAttempts, NEW x,
         x \in {searchAttempts[i].prefix_check, searchAttempts[i].solve,
                searchAttempts[i].replay, searchAttempts[i].admission}, x # "none"
  PROVE  /\ Stage1!Summary = "no_witness_within_bounds" =>
              x \in {"prefix_confirmed", "no_witness_within_bounds"}
         /\ x \in {"tool_error", "result_mismatch", "decode_error", "timeout"} =>
              Stage1!Summary \in {"tool_error", "timeout"}
<1> DEFINE states == (UNION {{searchAttempts[n].prefix_check, searchAttempts[n].solve,
                              searchAttempts[n].replay, searchAttempts[n].admission}
                             : n \in DOMAIN searchAttempts}) \ {"none"}
<1>1. x \in states
  OBVIOUS
<1>2. Stage1!Summary =
        IF states \intersect {"tool_error", "result_mismatch", "decode_error"} # {} THEN "tool_error"
        ELSE IF states \intersect {"timeout"} # {} THEN "timeout"
        ELSE IF states \intersect {"stuck", "prefix_incomplete", "all_paths_reverted"} # {}
             THEN "inconclusive"
        ELSE IF states \intersect {"prefix_mismatch", "replay_mismatch", "candidate_rejected",
                                   "invalid_model"} # {} THEN "validation_failed"
        ELSE IF states # {} /\ states \subseteq {"prefix_confirmed", "no_witness_within_bounds"}
             THEN "no_witness_within_bounds"
        ELSE "no_confirmed_candidate"
  BY DEF Stage1!Summary
<1> HIDE DEF states
<1> QED BY <1>1, <1>2

LEMMA NothingSaysNothing ==
  ASSUME Stage1!Summary = "no_witness_within_bounds", searchAttempts = <<>>
  PROVE  FALSE
<1> DEFINE states == (UNION {{searchAttempts[n].prefix_check, searchAttempts[n].solve,
                              searchAttempts[n].replay, searchAttempts[n].admission}
                             : n \in DOMAIN searchAttempts}) \ {"none"}
<1>1. states = {}
  OBVIOUS
<1>2. Stage1!Summary = "no_witness_within_bounds" => states # {}
  <2>1. Stage1!Summary =
        IF states \intersect {"tool_error", "result_mismatch", "decode_error"} # {} THEN "tool_error"
        ELSE IF states \intersect {"timeout"} # {} THEN "timeout"
        ELSE IF states \intersect {"stuck", "prefix_incomplete", "all_paths_reverted"} # {}
             THEN "inconclusive"
        ELSE IF states \intersect {"prefix_mismatch", "replay_mismatch", "candidate_rejected",
                                   "invalid_model"} # {} THEN "validation_failed"
        ELSE IF states # {} /\ states \subseteq {"prefix_confirmed", "no_witness_within_bounds"}
             THEN "no_witness_within_bounds"
        ELSE "no_confirmed_candidate"
    BY DEF Stage1!Summary
  <2> HIDE DEF states
  <2> QED BY <2>1
<1> QED BY <1>1, <1>2

\* The search ends with the summary of its attempts.
LEMMA SearchSummarizes ==
  ASSUME SearchInv, Stage1!Summarize
  PROVE  SearchInv'
<1>1. /\ searchPc = "loop" /\ Len(searchAttempts) = prefixes /\ searchPc' = "done"
      /\ searchStatus' = Stage1!Summary
      /\ UNCHANGED <<mode, prefixes, searchAttempts, elapsed, confirmed>>
  BY DEF Stage1!Summarize, Stage1!Report
<1>2. /\ searchAttempts \in Seq(Attempt) /\ prefixes > 0
      /\ \A i \in 1..Len(searchAttempts) : Left(searchAttempts[i], mode)
  BY <1>1 DEF SearchInv, SearchBase, Progress
<1>3. SearchBase'
  BY <1>1 DEF SearchInv, SearchBase
<1>4. DOMAIN searchAttempts = 1..Len(searchAttempts)
  BY <1>2
<1>5. Stage1!NegativeMeansExplored'
  <2>1. ASSUME Stage1!Summary = "no_witness_within_bounds", NEW i \in DOMAIN searchAttempts
        PROVE  /\ searchAttempts[i].prefix_check = "prefix_confirmed"
               /\ searchAttempts[i].solve = "no_witness_within_bounds"
    <3>1. Left(searchAttempts[i], mode)
      BY <1>2, <1>4, <2>1
    <3>2. /\ searchAttempts[i].prefix_check # "none" =>
               searchAttempts[i].prefix_check \in {"prefix_confirmed", "no_witness_within_bounds"}
          /\ searchAttempts[i].solve # "none" =>
               searchAttempts[i].solve \in {"prefix_confirmed", "no_witness_within_bounds"}
      BY <2>1, SummaryReads
    <3>3. "no_witness_within_bounds" \notin Stage1!PrefixStatuses /\ "none" \notin Stage1!PrefixStatuses
      BY DEF Stage1!PrefixStatuses, Stage1!Troubles
    <3>4. "none" \notin Stage1!GoalStatuses /\ "prefix_confirmed" \notin Stage1!GoalStatuses
      BY DEF Stage1!GoalStatuses, Stage1!Troubles
    <3> QED BY <3>1, <3>2, <3>3, <3>4 DEF Left
  <2> QED BY <1>1, <1>2, <2>1 DEF Stage1!NegativeMeansExplored
<1>6. Stage1!NoVerdictHidesFailure'
  <2>1. ASSUME Stage1!Summary \notin {"tool_error", "timeout"}, NEW i \in DOMAIN searchAttempts
        PROVE  {searchAttempts[i].prefix_check, searchAttempts[i].solve, searchAttempts[i].replay}
                  \intersect {"tool_error", "result_mismatch", "decode_error", "timeout"} = {}
    <3>1. ASSUME NEW x \in {searchAttempts[i].prefix_check, searchAttempts[i].solve,
                            searchAttempts[i].replay},
                 x \in {"tool_error", "result_mismatch", "decode_error", "timeout"}
          PROVE  FALSE
      BY <2>1, <3>1, SummaryReads
    <3> QED BY <3>1
  <2> QED BY <1>1, <2>1 DEF Stage1!NoVerdictHidesFailure
<1>7. Stage1!Summary \in {"tool_error", "timeout", "inconclusive", "validation_failed",
                         "no_witness_within_bounds", "no_confirmed_candidate"}
  <2> DEFINE states == (UNION {{searchAttempts[n].prefix_check, searchAttempts[n].solve,
                              searchAttempts[n].replay, searchAttempts[n].admission}
                             : n \in DOMAIN searchAttempts}) \ {"none"}
  <2>1. Stage1!Summary =
        IF states \intersect {"tool_error", "result_mismatch", "decode_error"} # {} THEN "tool_error"
        ELSE IF states \intersect {"timeout"} # {} THEN "timeout"
        ELSE IF states \intersect {"stuck", "prefix_incomplete", "all_paths_reverted"} # {}
             THEN "inconclusive"
        ELSE IF states \intersect {"prefix_mismatch", "replay_mismatch", "candidate_rejected",
                                   "invalid_model"} # {} THEN "validation_failed"
        ELSE IF states # {} /\ states \subseteq {"prefix_confirmed", "no_witness_within_bounds"}
             THEN "no_witness_within_bounds"
        ELSE "no_confirmed_candidate"
    BY DEF Stage1!Summary
  <2> HIDE DEF states
  <2> QED BY <2>1
<1>8. Stage1!ConfirmedPassedAll'
  BY <1>1, <1>7 DEF Stage1!ConfirmedPassedAll
<1> QED BY <1>1, <1>3, <1>5, <1>6, <1>8 DEF SearchInv, Progress, Before, Going, Underway

\* A stage of the present attempt is measured for the first time.
LEMMA StageIsMeasured ==
  ASSUME SearchInv, searchPc \in Going, NEW stage_ \in Unmeasured(searchPc), NEW a \in Attempt,
         a.elapsed = searchAttempts[Len(searchAttempts)].elapsed, Stage1!Measured(stage_, a),
         UNCHANGED <<mode, prefixes>>
  PROVE  /\ SearchBase' /\ Len(searchAttempts') = Len(searchAttempts)
         /\ \A i \in 1..Len(searchAttempts) :
              i < Len(searchAttempts) => searchAttempts'[i] = searchAttempts[i]
         /\ LET b == searchAttempts'[Len(searchAttempts)]
            IN  /\ b.prefix_check = a.prefix_check /\ b.solve = a.solve /\ b.replay = a.replay
                /\ b.admission = a.admission /\ b.evidence = a.evidence /\ b.repaired = a.repaired
                /\ \A s \in Unmeasured(searchPc) : s # stage_ => b.elapsed[s] = 0
<1> DEFINE L == Len(searchAttempts)
           this == searchAttempts[L]
<1>1. /\ searchAttempts \in Seq(Attempt) /\ L \in Nat /\ L > 0 /\ this \in Attempt
      /\ elapsed \in [Stage1!Stages -> Int]
      /\ \A s \in Unmeasured(searchPc) : this.elapsed[s] = 0
  BY DEF SearchInv, SearchBase, Progress, Open
<1>2. stage_ \in Stage1!Stages /\ Unmeasured(searchPc) \subseteq Stage1!Stages
  BY DEF Unmeasured, Stage1!Stages
<1>3. PICK d \in 0..1 :
        /\ elapsed' = [elapsed EXCEPT ![stage_] = @ + d]
        /\ searchAttempts' = [searchAttempts EXCEPT ![L] =
             [a EXCEPT !.elapsed[stage_] = elapsed'[stage_] - elapsed[stage_]]]
  BY DEF Stage1!Measured
<1> DEFINE b == [a EXCEPT !.elapsed[stage_] = elapsed'[stage_] - elapsed[stage_]]
<1>4. /\ elapsed' \in [Stage1!Stages -> Int] /\ elapsed'[stage_] = elapsed[stage_] + d
      /\ \A s \in Stage1!Stages : s # stage_ => elapsed'[s] = elapsed[s]
      /\ elapsed'[stage_] - elapsed[stage_] = d
  BY <1>1, <1>2, <1>3
<1>5. a.elapsed \in [Stage1!Stages -> Int] /\ a.elapsed = this.elapsed
  BY DEF Attempt
<1>6. /\ b.prefix_check = a.prefix_check /\ b.solve = a.solve /\ b.replay = a.replay
      /\ b.admission = a.admission /\ b.evidence = a.evidence /\ b.repaired = a.repaired
      /\ b.elapsed = [a.elapsed EXCEPT ![stage_] = d]
      /\ b \in Attempt
  <2> DEFINE time == [a.elapsed EXCEPT ![stage_] = d]
  <2>1. time \in [Stage1!Stages -> Int]
    <3>1. d \in Int
      OBVIOUS
    <3> QED BY <1>5, <3>1
  <2>2. b = [a EXCEPT !.elapsed = time]
    BY <1>4
  <2> HIDE DEF time, b
  <2>3. /\ b.prefix_check = a.prefix_check /\ b.solve = a.solve /\ b.replay = a.replay
        /\ b.admission = a.admission /\ b.evidence = a.evidence /\ b.repaired = a.repaired
        /\ b.elapsed = time /\ b \in Attempt
    BY <2>1, <2>2 DEF Attempt
  <2> QED BY <2>3 DEF time
<1>7. /\ b.elapsed[stage_] = this.elapsed[stage_] + d
      /\ \A s \in Stage1!Stages : s # stage_ => b.elapsed[s] = this.elapsed[s]
  BY <1>1, <1>2, <1>5, <1>6
<1>8. searchAttempts' = [searchAttempts EXCEPT ![L] = b]
  BY <1>3
<1> HIDE DEF b
<1>9. /\ searchAttempts' \in Seq(Attempt) /\ Len(searchAttempts') = L
      /\ searchAttempts'[L] = b
      /\ \A i \in 1..L : i < L => searchAttempts'[i] = searchAttempts[i]
  BY <1>1, <1>6, <1>8
<1>10. ASSUME NEW s \in Stage1!Stages PROVE AddsUp(searchAttempts', elapsed'[s], s)
  <2>1. AddsUp(searchAttempts, elapsed[s], s) /\ this.elapsed[s] \in Int /\ elapsed[s] \in Int
    BY <1>1, <1>5 DEF SearchInv, SearchBase
  <2>2. CASE s = stage_
    <3>1. /\ b.elapsed[s] = searchAttempts[L].elapsed[s] + d /\ searchAttempts[L].elapsed[s] \in Int
          /\ elapsed'[s] = elapsed[s] + d /\ d \in Int
      BY <1>4, <1>7, <2>1, <2>2
    <3> QED BY <1>1, <1>8, <2>1, <3>1, MeasuringAdds
  <2>3. CASE s # stage_
    <3>1. /\ b.elapsed[s] = searchAttempts[L].elapsed[s] + 0 /\ searchAttempts[L].elapsed[s] \in Int
          /\ elapsed'[s] = elapsed[s] + 0 /\ 0 \in Int
      BY <1>4, <1>7, <2>1, <2>3
    <3> QED BY <1>1, <1>8, <2>1, <3>1, MeasuringAdds
  <2> QED BY <2>2, <2>3
<1>11. SearchBase'
  BY <1>4, <1>9, <1>10 DEF SearchInv, SearchBase
<1>12. \A s \in Unmeasured(searchPc) : s # stage_ => b.elapsed[s] = 0
  BY <1>1, <1>2, <1>7
<1> QED BY <1>6, <1>9, <1>11, <1>12

\* A stage goes on inside the present attempt.
LEMMA AttemptIsReplaced ==
  ASSUME SearchInv, searchPc \in Going, NEW a \in Attempt,
         a.elapsed = searchAttempts[Len(searchAttempts)].elapsed,
         searchAttempts' = [searchAttempts EXCEPT ![Len(searchAttempts)] = a],
         UNCHANGED <<mode, prefixes, elapsed>>
  PROVE  /\ SearchBase' /\ Len(searchAttempts') = Len(searchAttempts)
         /\ \A i \in 1..Len(searchAttempts) :
              i < Len(searchAttempts) => searchAttempts'[i] = searchAttempts[i]
         /\ searchAttempts'[Len(searchAttempts)] = a
<1> DEFINE L == Len(searchAttempts)
<1>1. /\ searchAttempts \in Seq(Attempt) /\ L \in Nat /\ L > 0 /\ searchAttempts[L] \in Attempt
      /\ elapsed \in [Stage1!Stages -> Int]
  BY DEF SearchInv, SearchBase, Progress
<1>2. /\ searchAttempts' \in Seq(Attempt) /\ Len(searchAttempts') = L
      /\ searchAttempts'[L] = a
      /\ \A i \in 1..L : i < L => searchAttempts'[i] = searchAttempts[i]
  BY <1>1
<1>3. a.elapsed \in [Stage1!Stages -> Int] /\ a.elapsed = searchAttempts[L].elapsed
  BY DEF Attempt
<1>4. ASSUME NEW s \in Stage1!Stages PROVE AddsUp(searchAttempts', elapsed'[s], s)
  <2>1. /\ AddsUp(searchAttempts, elapsed[s], s) /\ elapsed[s] \in Int
        /\ searchAttempts[L].elapsed[s] \in Int /\ a.elapsed[s] = searchAttempts[L].elapsed[s] + 0
        /\ elapsed'[s] = elapsed[s] + 0 /\ 0 \in Int
    BY <1>1, <1>3 DEF SearchInv, SearchBase
  <2> QED BY <1>1, <2>1, MeasuringAdds
<1> QED BY <1>1, <1>2, <1>4 DEF SearchInv, SearchBase

LEMMA InsideKeeps ==
  ASSUME SearchInv, searchPc \in Going, NEW at \in Going, NEW a \in Attempt,
         a.elapsed = searchAttempts[Len(searchAttempts)].elapsed,
         Open(a, at, mode), Stage1!Inside(at, a)
  PROVE  SearchInv'
<1> DEFINE L == Len(searchAttempts)
<1>1. /\ searchPc' = at /\ searchAttempts' = [searchAttempts EXCEPT ![L] = a]
      /\ UNCHANGED <<mode, prefixes, elapsed, confirmed, searchStatus>>
  BY DEF Stage1!Inside, Stage1!Same
<1>2. /\ SearchBase' /\ Len(searchAttempts') = L
      /\ \A i \in 1..L : i < L => searchAttempts'[i] = searchAttempts[i]
      /\ searchAttempts'[L] = a
  BY <1>1, AttemptIsReplaced
<1>3. /\ L \in 1..prefixes /\ \A i \in 1..L : i < L => Left(searchAttempts[i], mode)
      /\ searchPc # "done"
  BY DEF SearchInv, Progress, Going, Underway
<1>4. Progress(searchAttempts', searchPc', mode', prefixes')
  <2> HIDE DEF L
  <2>1. at \notin Before /\ at # "controls" /\ at # "loop"
    BY DEF Going, Underway, Before
  <2>2. \A i \in 1..L : i < L => Left(searchAttempts'[i], mode)
    BY <1>2, <1>3
  <2> QED BY <1>1, <1>2, <1>3, <2>1, <2>2 DEF Progress
<1> QED BY <1>1, <1>2, <1>3, <1>4, SearchGoesOn

LEMMA LeavingKeeps ==
  ASSUME SearchInv, searchPc \in Going, NEW stage_ \in Unmeasured(searchPc), NEW a \in Attempt,
         a.elapsed = searchAttempts[Len(searchAttempts)].elapsed,
         Left(a, mode), Stage1!Measured(stage_, a), searchPc' = "loop",
         UNCHANGED <<mode, prefixes, confirmed, searchStatus>>
  PROVE  SearchInv'
<1> DEFINE L == Len(searchAttempts)
           b == searchAttempts'[L]
<1>1. /\ SearchBase' /\ Len(searchAttempts') = L
      /\ \A i \in 1..L : i < L => searchAttempts'[i] = searchAttempts[i]
      /\ b.prefix_check = a.prefix_check /\ b.solve = a.solve /\ b.replay = a.replay
      /\ b.admission = a.admission
  BY StageIsMeasured
<1>2. /\ L \in 1..prefixes /\ \A i \in 1..L : i < L => Left(searchAttempts[i], mode)
      /\ searchPc # "done" /\ prefixes \in Nat
  BY DEF SearchInv, SearchBase, Progress, Going, Underway
<1>3. Left(b, mode)
  BY <1>1 DEF Left
<1>4. Progress(searchAttempts', searchPc', mode', prefixes')
  <2> HIDE DEF L
  <2>1. \A i \in 1..L : Left(searchAttempts'[i], mode)
    <3>1. ASSUME NEW i \in 1..L PROVE Left(searchAttempts'[i], mode)
      <4>1. i < L \/ i = L
        BY <1>2
      <4> QED BY <1>1, <1>2, <1>3, <4>1
    <3> QED BY <3>1
  <2>2. L <= prefixes /\ prefixes > 0
    BY <1>2
  <2> QED BY <1>1, <2>1, <2>2 DEF Progress, Before, Going, Underway
<1> QED BY <1>1, <1>2, <1>4, SearchGoesOn

LEMMA SearchSteps ==
  ASSUME SearchInv, [Stage1!Next]_searchVars
  PROVE  SearchInv'
<1> DEFINE L == Len(searchAttempts)
           this == searchAttempts[L]
<1>1. ASSUME searchPc \in Going
      PROVE  /\ this \in Attempt /\ Open(this, searchPc, mode) /\ Stage1!This = this
             /\ L \in 1..prefixes /\ L \in Nat
             /\ \A i \in 1..L : i < L => Left(searchAttempts[i], mode)
             /\ searchPc # "done" /\ searchPc \notin Before /\ searchPc # "loop"
             /\ searchStatus = "incomplete" /\ confirmed = 0
  <2>1. searchAttempts \in Seq(Attempt) /\ L \in 1..prefixes /\ prefixes \in Nat
    BY <1>1 DEF SearchInv, SearchBase, Progress
  <2>2. this \in Attempt
    BY <2>1
  <2>3. Open(this, searchPc, mode) /\ \A i \in 1..L : i < L => Left(searchAttempts[i], mode)
    BY <1>1 DEF SearchInv, Progress
  <2> QED BY <1>1, <2>1, <2>2, <2>3 DEF Stage1!This, SearchInv, Going, Underway, Before
<1>2. Stage1!Expected = Shows(mode)
  BY DEF Stage1!Expected, Shows
<1>3. CASE Stage1!DeadlinePasses
  <2>1. UNCHANGED <<searchPc, mode, prefixes, searchAttempts, elapsed, confirmed, searchStatus>>
    BY <1>3 DEF Stage1!DeadlinePasses
  <2> QED BY <2>1 DEF SearchInv, SearchBase, Stage1!NegativeMeansExplored, Stage1!NoVerdictHidesFailure,
       Stage1!ConfirmedPassedAll, Stage1!This, Stage1!Expected
<1>4. CASE Stage1!Prepare
  <2>1. /\ <<searchPc, searchPc'>> \in {<<"build", "warmup">>, <<"warmup", "select">>, <<"controls", "loop">>}
        /\ UNCHANGED <<mode, prefixes, searchAttempts, elapsed, confirmed, searchStatus>>
    BY <1>4 DEF Stage1!Prepare
  <2>2. /\ searchPc \in Before /\ searchPc' \in Before \union {"loop"} /\ searchPc' # "controls"
        /\ searchPc' = "loop" => searchPc = "controls"
    BY <2>1 DEF Before
  <2>3. SearchBase' /\ searchAttempts = <<>> /\ (searchPc = "controls" => prefixes > 0) /\ prefixes \in Nat
    BY <2>1, <2>2 DEF SearchInv, SearchBase, Progress
  <2>4. Progress(searchAttempts', searchPc', mode', prefixes')
    <3>1. Len(<<>>) = 0 /\ \A i \in 1..Len(<<>>) : FALSE
      OBVIOUS
    <3> QED BY <2>1, <2>2, <2>3, <3>1 DEF Progress, Before, Going, Underway
  <2> QED BY <2>1, <2>2, <2>3, <2>4, SearchGoesOn DEF Before
<1>5. CASE Stage1!SelectPrefixes
  <2>1. /\ searchPc = "select" /\ prefixes' \in Nat
        /\ UNCHANGED <<mode, searchAttempts, elapsed, confirmed>>
        /\ IF prefixes' = 0 THEN searchPc' = "done" /\ searchStatus' = "no_eligible_prefix"
           ELSE searchPc' = "controls" /\ UNCHANGED searchStatus
    BY <1>5, JudgementsAssumption DEF Stage1!SelectPrefixes, Stage1!Report, Stage1!SearchAssumption
  <2>2. SearchBase' /\ searchAttempts = <<>>
    BY <2>1 DEF SearchInv, SearchBase, Progress, Before
  <2>3. CASE prefixes' = 0
    BY <2>1, <2>2, <2>3, SearchGivesUp
  <2>4. CASE prefixes' # 0
    <3>1. Progress(searchAttempts', searchPc', mode', prefixes')
      BY <2>1, <2>2, <2>4 DEF Progress, Before, Going, Underway
    <3> QED BY <2>1, <2>2, <2>4, <3>1, SearchGoesOn DEF Before
  <2> QED BY <2>3, <2>4
<1>6. CASE Stage1!PreparationRaises
  <2>1. /\ UNCHANGED <<mode, prefixes, searchAttempts, elapsed>> /\ searchPc' = "done"
        /\ searchStatus' \in Stage1!Raised \union {"observer_mismatch"}
    BY <1>6 DEF Stage1!PreparationRaises, Stage1!Report
  <2>2. SearchBase'
    BY <2>1 DEF SearchInv, SearchBase
  <2> QED BY <2>1, <2>2, SearchGivesUp
<1>7. CASE Stage1!Begin
  <2>1. /\ searchPc = "loop" /\ L < prefixes /\ searchPc' = "prefix_check"
        /\ searchAttempts' = Append(searchAttempts, Stage1!Fresh)
        /\ UNCHANGED <<mode, prefixes, elapsed, confirmed, searchStatus>>
    BY <1>7 DEF Stage1!Begin
  <2>2. /\ searchAttempts \in Seq(Attempt) /\ prefixes \in Nat
        /\ \A i \in 1..L : Left(searchAttempts[i], mode)
    BY <2>1 DEF SearchInv, SearchBase, Progress
  <2>3. /\ Stage1!Fresh \in Attempt /\ \A s \in Stage1!Stages : Stage1!Fresh.elapsed[s] = 0
        /\ Open(Stage1!Fresh, "prefix_check", mode)
    <3>1. Stage1!NoTime \in [Stage1!Stages -> Int] /\ \A s \in Stage1!Stages : Stage1!NoTime[s] = 0
      BY DEF Stage1!NoTime
    <3>2. Stage1!Fresh = [prefix_check |-> "none", solve |-> "none", replay |-> "none",
             admission |-> "none", evidence |-> "none", repaired |-> "none", elapsed |-> Stage1!NoTime]
      BY DEF Stage1!Fresh
    <3> QED BY <3>1, <3>2 DEF Attempt, Open, Unmeasured, Underway
  <2>4. ASSUME NEW s \in Stage1!Stages PROVE AddsUp(searchAttempts', elapsed'[s], s)
    BY <2>1, <2>2, <2>3, FreshAddsNothing DEF SearchInv, SearchBase
  <2>5. /\ searchAttempts' \in Seq(Attempt) /\ Len(searchAttempts') = L + 1 /\ L \in Nat
        /\ searchAttempts'[L + 1] = Stage1!Fresh
        /\ \A i \in 1..L : searchAttempts'[i] = searchAttempts[i]
    BY <2>1, <2>2, <2>3
  <2>6. SearchBase'
    BY <2>1, <2>4, <2>5 DEF SearchInv, SearchBase
  <2>7. Progress(searchAttempts', searchPc', mode', prefixes')
    <3> HIDE DEF L
    <3>1. \A i \in 1..(L + 1) : i < L + 1 => i \in 1..L
      BY <2>5
    <3>2. L + 1 \in 1..prefixes
      BY <2>1, <2>2, <2>5
    <3> QED BY <2>1, <2>2, <2>3, <2>5, <3>1, <3>2 DEF Progress, Before, Going, Underway
  <2> QED BY <2>1, <2>6, <2>7, SearchGoesOn DEF Going
<1>8. CASE Stage1!BudgetExhausted
  <2>1. /\ UNCHANGED <<mode, prefixes, searchAttempts, elapsed>> /\ searchPc' = "done"
        /\ searchStatus' = "solve_budget_exhausted"
    BY <1>8 DEF Stage1!BudgetExhausted, Stage1!Report
  <2>2. SearchBase'
    BY <2>1 DEF SearchInv, SearchBase
  <2> QED BY <2>1, <2>2, SearchGivesUp
<1>9. CASE Stage1!Summarize
  BY <1>9, SearchSummarizes
<1>10. CASE Stage1!PrefixCheck
  <2>1. PICK s \in Stage1!PrefixStatuses :
          /\ Stage1!Measured("s3_harness_prefix_replay", [Stage1!This EXCEPT !.prefix_check = s])
          /\ searchPc' = IF s = "prefix_confirmed" THEN "solve" ELSE "loop"
    BY <1>10 DEF Stage1!PrefixCheck
  <2>2. /\ searchPc = "prefix_check" /\ UNCHANGED <<mode, prefixes, confirmed, searchStatus>>
    BY <1>10 DEF Stage1!PrefixCheck, Stage1!Same
  <2>3. searchPc \in Going /\ "s3_harness_prefix_replay" \in Unmeasured(searchPc)
    BY <2>2 DEF Going, Unmeasured, Stage1!Stages
  <2> DEFINE a == [this EXCEPT !.prefix_check = s]
  <2>4. Stage1!Measured("s3_harness_prefix_replay", a)
    BY <1>1, <2>1, <2>3
  <2>5. /\ this \in Attempt /\ this.solve = "none" /\ this.replay = "none" /\ this.admission = "none"
    BY <1>1, <2>2, <2>3 DEF Open, Underway
  <2> HIDE DEF this
  <2>6. /\ a \in Attempt /\ a.elapsed = this.elapsed /\ a.prefix_check = s
        /\ a.solve = "none" /\ a.replay = "none" /\ a.admission = "none"
    BY <2>5 DEF Attempt
  <2> HIDE DEF a
  <2>7. a.elapsed = searchAttempts[Len(searchAttempts)].elapsed
    BY <2>6 DEF this
  <2>8. CASE s # "prefix_confirmed"
    <3>1. Left(a, mode) /\ searchPc' = "loop"
      BY <2>1, <2>6, <2>8 DEF Left
    <3> QED BY <2>2, <2>3, <2>4, <2>6, <2>7, <3>1, LeavingKeeps
  <2>9. CASE s = "prefix_confirmed"
    <3> DEFINE b == searchAttempts'[L]
    <3>1. /\ SearchBase' /\ Len(searchAttempts') = L
          /\ \A i \in 1..L : i < L => searchAttempts'[i] = searchAttempts[i]
          /\ b.prefix_check = a.prefix_check /\ b.solve = a.solve /\ b.replay = a.replay
          /\ b.admission = a.admission
          /\ \A t \in Unmeasured(searchPc) : t # "s3_harness_prefix_replay" => b.elapsed[t] = 0
      BY <2>2, <2>3, <2>4, <2>6, <2>7, StageIsMeasured
    <3>2. Open(b, "solve", mode)
      BY <2>2, <2>6, <2>9, <3>1 DEF Open, Unmeasured, Underway, Stage1!Stages
    <3>3. Progress(searchAttempts', searchPc', mode', prefixes')
      <4>1. /\ L \in 1..prefixes /\ \A i \in 1..L : i < L => Left(searchAttempts[i], mode)
        BY <1>1, <2>3
      <4>2. searchPc' = "solve" /\ searchPc' \in Going
        BY <2>1, <2>9 DEF Going
      <4> HIDE DEF L
      <4> QED BY <2>2, <3>1, <3>2, <4>1, <4>2 DEF Progress, Before
    <3> QED BY <2>1, <2>2, <2>9, <3>1, <3>3, SearchGoesOn DEF Going
  <2> QED BY <2>8, <2>9
<1>11. CASE Stage1!Solve
  <2>1. PICK s \in Stage1!GoalStatuses :
          /\ Stage1!Measured("s4_halmos_solve", [Stage1!This EXCEPT !.solve = s])
          /\ searchPc' = IF s = "candidate" THEN "replay" ELSE "loop"
    BY <1>11 DEF Stage1!Solve
  <2>2. /\ searchPc = "solve" /\ UNCHANGED <<mode, prefixes, confirmed, searchStatus>>
    BY <1>11 DEF Stage1!Solve, Stage1!Same
  <2>3. searchPc \in Going /\ "s4_halmos_solve" \in Unmeasured(searchPc)
    BY <2>2 DEF Going, Unmeasured
  <2> DEFINE a == [this EXCEPT !.solve = s]
  <2>4. Stage1!Measured("s4_halmos_solve", a)
    BY <1>1, <2>1, <2>3
  <2>5. /\ this \in Attempt /\ this.prefix_check = "prefix_confirmed"
        /\ this.replay = "none" /\ this.admission = "none"
    BY <1>1, <2>2, <2>3 DEF Open, Underway
  <2> HIDE DEF this
  <2>6. /\ a \in Attempt /\ a.elapsed = this.elapsed /\ a.prefix_check = "prefix_confirmed"
        /\ a.solve = s /\ a.replay = "none" /\ a.admission = "none"
    BY <2>5 DEF Attempt
  <2> HIDE DEF a
  <2>7. a.elapsed = searchAttempts[Len(searchAttempts)].elapsed
    BY <2>6 DEF this
  <2>8. CASE s # "candidate"
    <3>1. Left(a, mode) /\ searchPc' = "loop"
      BY <2>1, <2>6, <2>8 DEF Left
    <3> QED BY <2>2, <2>3, <2>4, <2>6, <2>7, <3>1, LeavingKeeps
  <2>9. CASE s = "candidate"
    <3> DEFINE b == searchAttempts'[L]
    <3>1. /\ SearchBase' /\ Len(searchAttempts') = L
          /\ \A i \in 1..L : i < L => searchAttempts'[i] = searchAttempts[i]
          /\ b.prefix_check = a.prefix_check /\ b.solve = a.solve /\ b.replay = a.replay
          /\ b.admission = a.admission
          /\ \A t \in Unmeasured(searchPc) : t # "s4_halmos_solve" => b.elapsed[t] = 0
      BY <2>2, <2>3, <2>4, <2>6, <2>7, StageIsMeasured
    <3>2. Open(b, "replay", mode)
      BY <2>2, <2>6, <2>9, <3>1 DEF Open, Unmeasured, Underway
    <3>3. Progress(searchAttempts', searchPc', mode', prefixes')
      <4>1. /\ L \in 1..prefixes /\ \A i \in 1..L : i < L => Left(searchAttempts[i], mode)
        BY <1>1, <2>3
      <4>2. searchPc' = "replay" /\ searchPc' \in Going
        BY <2>1, <2>9 DEF Going, Underway
      <4> HIDE DEF L
      <4> QED BY <2>2, <3>1, <3>2, <4>1, <4>2 DEF Progress, Before
    <3> QED BY <2>1, <2>2, <2>9, <3>1, <3>3, SearchGoesOn DEF Going, Underway
  <2> QED BY <2>8, <2>9
<1>12. CASE Stage1!StageRaises
  <2>1. /\ UNCHANGED <<mode, prefixes>> /\ searchPc' = "done" /\ searchStatus' \in Stage1!Raised
        /\ \/ searchPc = "prefix_check" /\ Stage1!Measured("s3_harness_prefix_replay", Stage1!This)
           \/ /\ searchPc = "prefix_check"
              /\ Stage1!Measured("s3_harness_prefix_replay",
                                 [Stage1!This EXCEPT !.prefix_check = "prefix_confirmed"])
           \/ searchPc = "solve" /\ Stage1!Measured("s4_halmos_solve", Stage1!This)
           \/ searchPc \in Underway /\ Stage1!Measured("s5_replay_reinsert", Stage1!This)
    BY <1>12 DEF Stage1!StageRaises, Stage1!Report, Stage1!Same, Underway
  <2>2. searchPc \in Going
    BY <2>1 DEF Going
  <2>3. PICK stage_ \in Stage1!Stages,
             a \in {this, [this EXCEPT !.prefix_check = "prefix_confirmed"]} :
          stage_ \in Unmeasured(searchPc) /\ Stage1!Measured(stage_, a)
    <3>1. Stage1!This = this
      BY <1>1, <2>2
    <3>2. /\ searchPc = "prefix_check" => "s3_harness_prefix_replay" \in Unmeasured(searchPc)
          /\ searchPc = "solve" => "s4_halmos_solve" \in Unmeasured(searchPc)
          /\ searchPc \in Underway => "s5_replay_reinsert" \in Unmeasured(searchPc)
      BY DEF Unmeasured, Underway, Stage1!Stages
    <3> HIDE DEF this
    <3> QED BY <2>1, <3>1, <3>2 DEF Stage1!Stages
  <2>4. a \in Attempt /\ a.elapsed = this.elapsed
    <3>1. "prefix_confirmed" \in Stage1!PrefixStatuses
      BY DEF Stage1!PrefixStatuses
    <3>2. this \in Attempt
      BY <1>1, <2>2
    <3> HIDE DEF this
    <3> QED BY <2>3, <3>1, <3>2 DEF Attempt
  <2>5. SearchBase'
    BY <2>1, <2>2, <2>3, <2>4, StageIsMeasured
  <2> QED BY <2>1, <2>5, SearchGivesUp
<1>13. ASSUME searchPc \in Underway, UNCHANGED <<mode, prefixes>>
       PROVE  /\ searchPc \in Going /\ "s5_replay_reinsert" \in Unmeasured(searchPc)
              /\ this \in Attempt /\ Open(this, searchPc, mode) /\ Stage1!This = this
  BY <1>1, <1>13 DEF Going, Underway, Unmeasured
<1>14. CASE Stage1!Replay
  <2>1. /\ searchPc = "replay"
        /\ \/ Stage1!Inside("insert", [Stage1!This EXCEPT !.replay = Shows(mode)])
           \/ \E s \in Stage1!ReplayStatuses : Stage1!Leaves([Stage1!This EXCEPT !.replay = s])
        /\ UNCHANGED <<mode, prefixes>>
    BY <1>2, <1>14 DEF Stage1!Replay, Stage1!Inside, Stage1!Leaves, Stage1!Same
  <2>2. searchPc \in Underway
    BY <2>1 DEF Underway
  <2>3. this \in Attempt /\ Open(this, "replay", mode) /\ Stage1!This = this
    BY <1>13, <2>1, <2>2
  <2>4. CASE Stage1!Inside("insert", [Stage1!This EXCEPT !.replay = Shows(mode)])
    <3> DEFINE a == [this EXCEPT !.replay = Shows(mode)]
    <3> HIDE DEF this
    <3>1. a \in Attempt /\ a.elapsed = this.elapsed /\ Open(a, "insert", mode)
      BY <2>3 DEF Attempt, Shows, Open, Unmeasured, Underway
    <3> HIDE DEF a
    <3> QED BY <1>13, <2>1, <2>2, <2>3, <2>4, <3>1, InsideKeeps DEF this, a, Going, Underway
  <2>5. ASSUME NEW s \in Stage1!ReplayStatuses, Stage1!Leaves([Stage1!This EXCEPT !.replay = s])
        PROVE  SearchInv'
    <3> DEFINE a == [this EXCEPT !.replay = s]
    <3>1. Stage1!Leaves(a)
      BY <2>3, <2>5
    <3> HIDE DEF this
    <3>2. a \in Attempt /\ a.elapsed = this.elapsed /\ Left(a, mode)
      BY <2>3 DEF Attempt, Open, Left, Underway
    <3> HIDE DEF a
    <3>3. /\ searchPc' = "loop" /\ Stage1!Measured("s5_replay_reinsert", a)
          /\ UNCHANGED <<mode, prefixes, confirmed, searchStatus>>
      BY <3>1 DEF Stage1!Leaves, Stage1!Same
    <3>4. a.elapsed = searchAttempts[Len(searchAttempts)].elapsed
      BY <3>2 DEF this
    <3> QED BY <1>13, <2>1, <2>2, <3>2, <3>3, <3>4, LeavingKeeps
  <2> QED BY <2>1, <2>4, <2>5
<1>15. ASSUME NEW v \in {"duplicate", "replay_mismatch"}, searchPc \in {"insert", "native"},
              Stage1!Leaves([Stage1!This EXCEPT !.admission = v])
       PROVE  SearchInv'
  <2>1. searchPc \in Underway /\ UNCHANGED <<mode, prefixes>>
    BY <1>15 DEF Stage1!Leaves, Stage1!Same, Underway
  <2>2. this \in Attempt /\ Open(this, searchPc, mode) /\ Stage1!This = this
    BY <1>13, <2>1
  <2> DEFINE a == [this EXCEPT !.admission = v]
  <2>3. Stage1!Leaves(a)
    BY <1>15, <2>2
  <2> HIDE DEF this
  <2>4. a \in Attempt /\ a.elapsed = this.elapsed /\ Left(a, mode)
    BY <1>15, <2>1, <2>2 DEF Attempt, Open, Left, Underway
  <2> HIDE DEF a
  <2>5. /\ searchPc' = "loop" /\ Stage1!Measured("s5_replay_reinsert", a)
        /\ UNCHANGED <<mode, prefixes, confirmed, searchStatus>>
    BY <2>3 DEF Stage1!Leaves, Stage1!Same
  <2>6. a.elapsed = searchAttempts[Len(searchAttempts)].elapsed
    BY <2>4 DEF this
  <2> QED BY <1>13, <2>1, <2>4, <2>5, <2>6, LeavingKeeps
<1>16. ASSUME NEW at \in Underway, NEW a, searchPc \in Underway, Stage1!Inside(at, a),
              a \in Attempt /\ a.elapsed = this.elapsed /\ Open(a, at, mode)
       PROVE  SearchInv'
  <2>1. UNCHANGED <<mode, prefixes>>
    BY <1>16 DEF Stage1!Inside, Stage1!Same
  <2>2. searchPc \in Going /\ at \in Going
    BY <1>13, <1>16, <2>1 DEF Going
  <2> QED BY <1>16, <2>2, InsideKeeps
<1>17. CASE Stage1!Insert
  <2>1. searchPc = "insert" /\ searchPc \in Underway /\ UNCHANGED <<mode, prefixes>>
    BY <1>17 DEF Stage1!Insert, Stage1!Inside, Stage1!Leaves, Stage1!Same, Underway
  <2>2. this \in Attempt /\ Open(this, "insert", mode) /\ Stage1!This = this
    BY <1>13, <2>1
  <2>3. CASE Stage1!Inside("native", Stage1!This)
    <3>1. Open(this, "native", mode)
      BY <2>2 DEF Open, Unmeasured, Underway
    <3> QED BY <1>16, <2>1, <2>2, <2>3, <3>1 DEF Underway
  <2>4. CASE Stage1!Leaves([Stage1!This EXCEPT !.admission = "duplicate"])
    BY <1>15, <2>1, <2>4
  <2> QED BY <1>17, <2>3, <2>4 DEF Stage1!Insert
<1>18. CASE Stage1!Native
  <2>1. searchPc = "native" /\ searchPc \in Underway /\ UNCHANGED <<mode, prefixes>>
    BY <1>18 DEF Stage1!Native, Stage1!Inside, Stage1!Leaves, Stage1!Same, Underway
  <2>2. this \in Attempt /\ Open(this, "native", mode) /\ Stage1!This = this
    BY <1>13, <2>1
  <2>3. CASE Stage1!Leaves([Stage1!This EXCEPT !.admission = "replay_mismatch"])
    BY <1>15, <2>1, <2>3
  <2>4. ASSUME NEW at \in {"evidence", "confirm"},
               Stage1!Inside(at, [Stage1!This EXCEPT !.admission = "admitted_for_mutation"]),
               mode = IF at = "evidence" THEN "safety" ELSE "reach"
        PROVE  SearchInv'
    <3> DEFINE a == [this EXCEPT !.admission = "admitted_for_mutation"]
    <3>1. Stage1!Inside(at, a)
      BY <2>2, <2>4
    <3> HIDE DEF this
    <3>2. a \in Attempt /\ a.elapsed = this.elapsed /\ Open(a, at, mode)
      BY <2>2, <2>4 DEF Attempt, Open, Unmeasured, Underway
    <3> HIDE DEF a
    <3> QED BY <1>16, <2>1, <2>4, <3>1, <3>2 DEF Underway
  <2> QED BY <1>18, <2>3, <2>4 DEF Stage1!Native
<1>19. CASE Stage1!Evidence
  <2>1. searchPc = "evidence" /\ searchPc \in Underway /\ UNCHANGED <<mode, prefixes>>
    BY <1>19 DEF Stage1!Evidence, Stage1!Inside, Stage1!Same, Underway
  <2>2. this \in Attempt /\ Open(this, "evidence", mode) /\ Stage1!This = this
    BY <1>13, <2>1
  <2> DEFINE a == [this EXCEPT !.evidence = "violation_at_suffix"]
  <2>3. Stage1!Inside("repaired", a)
    BY <1>19, <2>2 DEF Stage1!Evidence
  <2> HIDE DEF this
  <2>4. a \in Attempt /\ a.elapsed = this.elapsed /\ Open(a, "repaired", mode)
    BY <2>2 DEF Attempt, Open, Unmeasured, Underway
  <2> HIDE DEF a
  <2> QED BY <1>16, <2>1, <2>3, <2>4 DEF Underway
<1>20. CASE Stage1!RepairedReplay
  <2>1. searchPc = "repaired" /\ searchPc \in Underway /\ UNCHANGED <<mode, prefixes>>
    BY <1>20 DEF Stage1!RepairedReplay, Stage1!Inside, Stage1!Same, Underway
  <2>2. this \in Attempt /\ Open(this, "repaired", mode) /\ Stage1!This = this
    BY <1>13, <2>1
  <2> DEFINE a == [this EXCEPT !.repaired = "property_preserved"]
  <2>3. Stage1!Inside("repaired_native", a)
    BY <1>20, <2>2 DEF Stage1!RepairedReplay
  <2> HIDE DEF this
  <2>4. a \in Attempt /\ a.elapsed = this.elapsed /\ Open(a, "repaired_native", mode)
    BY <2>2 DEF Attempt, Open, Unmeasured, Underway
  <2> HIDE DEF a
  <2> QED BY <1>16, <2>1, <2>3, <2>4 DEF Underway
<1>21. CASE Stage1!RepairedNative
  <2>1. searchPc = "repaired_native" /\ searchPc \in Underway /\ UNCHANGED <<mode, prefixes>>
    BY <1>21 DEF Stage1!RepairedNative, Stage1!Inside, Stage1!Same, Underway
  <2>2. this \in Attempt /\ Open(this, "repaired_native", mode) /\ Stage1!This = this
    BY <1>13, <2>1
  <2> DEFINE a == [this EXCEPT !.repaired = "native_preserved"]
  <2>3. Stage1!Inside("confirm", a)
    BY <1>21, <2>2 DEF Stage1!RepairedNative
  <2> HIDE DEF this
  <2>4. a \in Attempt /\ a.elapsed = this.elapsed /\ Open(a, "confirm", mode)
    BY <2>2 DEF Attempt, Open, Unmeasured, Underway
  <2> HIDE DEF a
  <2> QED BY <1>16, <2>1, <2>3, <2>4 DEF Underway
<1>22. CASE Stage1!Confirm
  <2>1. /\ searchPc = "confirm" /\ searchPc \in Underway /\ UNCHANGED <<mode, prefixes>>
        /\ confirmed' = confirmed + 1 /\ searchPc' = "done"
        /\ searchStatus' = IF mode = "safety" THEN "safety_confirmed" ELSE "stage1_confirmed"
        /\ Stage1!Measured("s5_replay_reinsert", Stage1!This)
    BY <1>22 DEF Stage1!Confirm, Stage1!Same, Stage1!Report, Underway
  <2>2. /\ this \in Attempt /\ Open(this, "confirm", mode) /\ Stage1!This = this
        /\ searchPc \in Going /\ "s5_replay_reinsert" \in Unmeasured(searchPc)
    BY <1>13, <2>1
  <2>3. /\ L \in 1..prefixes /\ L \in Nat /\ confirmed = 0
        /\ \A i \in 1..L : i < L => Left(searchAttempts[i], mode)
    BY <1>1, <2>2
  <2> DEFINE b == searchAttempts'[L]
  <2>4. /\ SearchBase' /\ Len(searchAttempts') = L
        /\ \A i \in 1..L : i < L => searchAttempts'[i] = searchAttempts[i]
        /\ b.prefix_check = this.prefix_check /\ b.solve = this.solve /\ b.replay = this.replay
        /\ b.admission = this.admission /\ b.evidence = this.evidence /\ b.repaired = this.repaired
    BY <2>1, <2>2, StageIsMeasured
  <2>5. Stage1!This' = b /\ Stage1!Expected' = Shows(mode)
    BY <2>1, <2>4 DEF Stage1!This, Stage1!Expected, Shows
  <2>6. ASSUME NEW i \in 1..(L - 1) PROVE searchAttempts'[i].admission # "admitted_for_mutation"
    <3>1. i \in 1..L /\ i < L
      BY <2>3
    <3> QED BY <2>3, <2>4, <3>1 DEF Left
  <2>7. searchAttempts' # <<>>
    <3>1. Len(<<>>) = 0 /\ L # 0
      BY <2>3
    <3> QED BY <2>4, <3>1
  <2>8. Stage1!ConfirmedPassedAll'
    <3> HIDE DEF L, this, b
    <3>1. confirmed' = 1
      BY <2>1, <2>3
    <3>2. /\ b.prefix_check = "prefix_confirmed" /\ b.solve = "candidate" /\ b.replay = Shows(mode)
          /\ b.admission = "admitted_for_mutation"
          /\ mode = "safety" => b.evidence = "violation_at_suffix" /\ b.repaired = "native_preserved"
      BY <2>2, <2>4 DEF Open, Underway
    <3>3. mode' = mode
      BY <2>1
    <3> QED BY <2>4, <2>5, <2>6, <2>7, <3>1, <3>2, <3>3 DEF Stage1!ConfirmedPassedAll
  <2>9. Stage1!NegativeMeansExplored' /\ Stage1!NoVerdictHidesFailure'
    BY <2>1 DEF Stage1!NegativeMeansExplored, Stage1!NoVerdictHidesFailure
  <2> QED BY <2>1, <2>4, <2>8, <2>9 DEF SearchInv, Progress, Before, Going, Underway
<1>23. CASE UNCHANGED searchVars
  BY <1>23 DEF searchVars, SearchInv, SearchBase, Stage1!NegativeMeansExplored,
     Stage1!NoVerdictHidesFailure, Stage1!ConfirmedPassedAll, Stage1!This, Stage1!Expected
<1>24. CASE Stage1!CandidateUnwritten
  <2>1. /\ UNCHANGED <<mode, prefixes, searchAttempts, elapsed>> /\ searchPc' = "done"
        /\ searchStatus' \in Stage1!Raised \union {"observer_mismatch"}
    BY <1>24 DEF Stage1!CandidateUnwritten, Stage1!Report, Stage1!Same, Stage1!Raised
  <2>2. SearchBase'
    BY <2>1 DEF SearchInv, SearchBase
  <2> QED BY <2>1, <2>2, SearchGivesUp
<1> QED
  BY <1>3, <1>4, <1>5, <1>6, <1>7, <1>8, <1>9, <1>10, <1>11, <1>12, <1>14, <1>17, <1>18, <1>19,
     <1>20, <1>21, <1>22, <1>23, <1>24 DEF Stage1!Next

LEMMA SearchAnswers ==
  ASSUME SearchInv
  PROVE  /\ Stage1!NegativeMeansExplored /\ Stage1!NoVerdictHidesFailure
         /\ Stage1!ConfirmedPassedAll /\ Stage1!StageTimesAddUp
BY SumsAre DEF SearchInv, SearchBase

----------------------------------------------------------------------------
(* The search of the Stage 5 mechanism *)

\* What becomes of a candidate that is not confirmed.
Settled ==
  {"timeout", "tool_error", "result_mismatch", "replay_mismatch", "duplicate_warmup_sequence",
   "repaired_regression_failure"}

CandidateTried ==
  [flawed : {"none", "violation_confirmed"}, native : {"none", "violation_confirmed"},
   repaired : {"none", "property_preserved"},
   status : Settled \union {"pending", "safety_confirmed"}]

PlanTried ==
  [prefix : Nat, plan : Nat,
   prefix_check : Mechanism!PrefixStatuses \union {"none"},
   solve : Mechanism!SuffixStatuses \union {"none"},
   status : Mechanism!PrefixStatuses \union Mechanism!SuffixStatuses \union {"none", "no_candidate"},
   candidates : Seq(CandidateTried)]

Trying == {"flawed_replay", "flawed_native", "repaired_replay", "repaired_native"}
Planning == {"prefix_check", "solve"} \union Trying

\* A plan that is done with.
Closed(a) ==
  a.status # "none" /\ \A c \in 1..Len(a.candidates) : a.candidates[c].status \in Settled

\* Those before the k-th candidate are settled, the others are to come.
UpTo(a, k) ==
  /\ k \in 1..Len(a.candidates)
  /\ \A c \in 1..Len(a.candidates) :
       IF c < k THEN a.candidates[c].status \in Settled ELSE a.candidates[c].status = "pending"

\* What the candidate that is tried has been through.
Passed(c, at) ==
  /\ at # "flawed_replay" => c.flawed = "violation_confirmed"
  /\ at \in {"repaired_replay", "repaired_native"} => c.native = "violation_confirmed"
  /\ at = "repaired_native" => c.repaired = "property_preserved"

\* The plan that is tried.
OpenPlan(a, at) ==
  /\ at \in {"prefix_check", "solve"} => a.candidates = <<>>
  /\ at # "prefix_check" => a.prefix_check = "prefix_confirmed"
  /\ at \in Trying => \E k \in 1..Len(a.candidates) : UpTo(a, k) /\ Passed(a.candidates[k], at)

\* The plans before the q-th of prefix p, each once.
ComesBefore(i, j, p, q) == i < p \/ (i = p /\ j < q)
Covers(list, ps, p, q) ==
  /\ \A n \in 1..Len(list) :
       /\ list[n].prefix \in 1..Len(ps) /\ list[n].plan \in 1..ps[list[n].prefix]
       /\ ComesBefore(list[n].prefix, list[n].plan, p, q)
  /\ \A i \in 1..Len(ps) : \A j \in 1..ps[i] :
       ComesBefore(i, j, p, q) => \E n \in 1..Len(list) : list[n].prefix = i /\ list[n].plan = j
  /\ \A n, m \in 1..Len(list) :
       list[n].prefix = list[m].prefix /\ list[n].plan = list[m].plan => n = m

NoneConfirmed(a) == \A c \in 1..Len(a.candidates) : a.candidates[c].status # "safety_confirmed"

MechBase ==
  /\ mechanismAttempts \in Seq(PlanTried) /\ plans \in Seq(Nat)
  /\ prefix \in Nat \ {0} /\ plan \in Nat \ {0}
  /\ Covers(mechanismAttempts, plans, prefix, plan)

PlansSoFar(list, at) ==
  /\ at = "loop" => \A n \in 1..Len(list) : Closed(list[n])
  /\ at \in Planning =>
       /\ Len(list) > 0 /\ OpenPlan(list[Len(list)], at)
       /\ \A n \in 1..Len(list) : n < Len(list) => Closed(list[n])

MechInv ==
  /\ MechBase
  /\ mechanismPc \in Planning \union {"prepare", "loop", "done"}
  /\ mechanismPc = "prepare" => mechanismAttempts = <<>> /\ prefix = 1 /\ plan = 1
  /\ PlansSoFar(mechanismAttempts, mechanismPc)
  /\ mechanismPc # "done" => mechanismStatus = "running"
  /\ mechanismStatus # "safety_confirmed" =>
       \A n \in 1..Len(mechanismAttempts) : NoneConfirmed(mechanismAttempts[n])
  /\ Mechanism!NoCandidateWentThrough /\ Mechanism!ConfirmedInFourReplays

LEMMA CountsAlike == ASSUME NEW S PROVE Mechanism!Cardinality(S) = Cardinality(S)
BY DEF Mechanism!Cardinality, Cardinality

\* Where candidates are confirmed, and what a report says of it.
ConfirmedOf(a) == {c \in DOMAIN a.candidates : a.candidates[c].status = "safety_confirmed"}
Confirmations(list) == UNION {{<<n, c>> : c \in ConfirmedOf(list[n])} : n \in DOMAIN list}

FourReplays(list, s) ==
  /\ s = "safety_confirmed" <=> Confirmations(list) # {}
  /\ Mechanism!Cardinality(Confirmations(list)) <= 1
  /\ \A x \in Confirmations(list) :
       /\ x[1] = Len(list) /\ list[x[1]].prefix_check = "prefix_confirmed"
       /\ list[x[1]].candidates[x[2]].flawed = "violation_confirmed"
       /\ list[x[1]].candidates[x[2]].native = "violation_confirmed"
       /\ list[x[1]].candidates[x[2]].repaired = "property_preserved"

LEMMA ReplaysAreFour ==
  Mechanism!ConfirmedInFourReplays <=> FourReplays(mechanismAttempts, mechanismStatus)
BY DEF Mechanism!ConfirmedInFourReplays, FourReplays, Confirmations, ConfirmedOf

LEMMA ConfirmationsAre ==
  ASSUME NEW list, NEW x
  PROVE  x \in Confirmations(list) <=>
           \E n \in DOMAIN list : \E c \in ConfirmedOf(list[n]) : x = <<n, c>>
<1> DEFINE Of(n) == {<<n, c>> : c \in ConfirmedOf(list[n])}
           All == {Of(n) : n \in DOMAIN list}
<1>1. Confirmations(list) = UNION All
  BY Zenon DEF Confirmations
<1>2. ASSUME NEW n PROVE x \in Of(n) <=> \E c \in ConfirmedOf(list[n]) : x = <<n, c>>
  OBVIOUS
<1>3. ASSUME NEW m PROVE m \in All <=> \E n \in DOMAIN list : m = Of(n)
  OBVIOUS
<1> HIDE DEF Of, All
<1>4. x \in UNION All <=> \E m \in All : x \in m
  OBVIOUS
<1> QED BY ONLY <1>1, <1>2, <1>3, <1>4, Zenon

\* Without a confirmed candidate there is nothing to be said of one.
LEMMA NothingConfirmed ==
  ASSUME NEW list \in Seq(PlanTried), NEW s, s # "safety_confirmed",
         \A n \in 1..Len(list) : NoneConfirmed(list[n])
  PROVE  FourReplays(list, s)
<1>1. ASSUME NEW n \in DOMAIN list PROVE ConfirmedOf(list[n]) = {}
  <2>1. n \in 1..Len(list)
    OBVIOUS
  <2>2. list[n] \in PlanTried
    BY <2>1
  <2>3. list[n].candidates \in Seq(CandidateTried)
    BY <2>2 DEF PlanTried
  <2> QED BY <2>1, <2>3 DEF NoneConfirmed, ConfirmedOf
<1>2. Confirmations(list) = {}
  BY <1>1, ConfirmationsAre
<1>3. Mechanism!Cardinality({}) <= 1
  <2>1. Mechanism!Cardinality({}) = 0
    BY CountsAlike, FS_EmptySet
  <2> QED BY <2>1
<1> QED BY <1>2, <1>3 DEF FourReplays

LEMMA MechStarts == ASSUME Mechanism!Init PROVE MechInv
<1>1. MechBase
  BY DEF Mechanism!Init, MechBase, Covers
<1>2. \A n \in 1..Len(mechanismAttempts) : NoneConfirmed(mechanismAttempts[n])
  BY DEF Mechanism!Init
<1>3. mechanismStatus # "safety_confirmed"
  BY DEF Mechanism!Init
<1>4. Mechanism!ConfirmedInFourReplays
  BY <1>1, <1>2, <1>3, NothingConfirmed, ReplaysAreFour DEF MechBase
<1> QED BY <1>1, <1>2, <1>4 DEF Mechanism!Init, MechInv, PlansSoFar, Planning, Trying,
     Mechanism!NoCandidateWentThrough

\* What every state keeps in which no candidate is confirmed.
LEMMA MechGoesOn ==
  ASSUME MechBase', mechanismStatus' = "running",
         mechanismPc' \in Planning \union {"prepare", "loop"},
         mechanismPc' # "prepare",
         PlansSoFar(mechanismAttempts', mechanismPc'),
         \A n \in 1..Len(mechanismAttempts') : NoneConfirmed(mechanismAttempts'[n])
  PROVE  MechInv'
<1>1. FourReplays(mechanismAttempts', mechanismStatus')
  BY NothingConfirmed DEF MechBase
<1>2. Mechanism!ConfirmedInFourReplays'
  BY <1>1 DEF Mechanism!ConfirmedInFourReplays, FourReplays, Confirmations, ConfirmedOf
<1> QED BY <1>2 DEF MechInv, Planning, Trying, Mechanism!NoCandidateWentThrough

\* A report that names another status than the two conclusions.
LEMMA MechGivesUp ==
  ASSUME MechInv, mechanismPc # "done", NEW s, s \notin {"safety_confirmed", "no_candidate"},
         Mechanism!Report(s), UNCHANGED mechanismAttempts
  PROVE  MechInv'
<1>1. mechanismPc' = "done" /\ mechanismStatus' = s /\ MechBase'
  BY DEF Mechanism!Report, MechInv, MechBase
<1>2. \A n \in 1..Len(mechanismAttempts') : NoneConfirmed(mechanismAttempts'[n])
  BY DEF MechInv
<1>3. FourReplays(mechanismAttempts', mechanismStatus')
  BY <1>1, <1>2, NothingConfirmed DEF MechBase
<1>4. Mechanism!ConfirmedInFourReplays'
  BY <1>3 DEF Mechanism!ConfirmedInFourReplays, FourReplays, Confirmations, ConfirmedOf
<1> QED BY <1>1, <1>2, <1>4 DEF MechInv, PlansSoFar, Planning, Trying,
     Mechanism!NoCandidateWentThrough

\* A plan that is open, or done with, has no confirmed candidate.
LEMMA OpenIsUnconfirmed ==
  ASSUME NEW a \in PlanTried, NEW at \in Planning, OpenPlan(a, at)
  PROVE  NoneConfirmed(a)
<1>1. CASE at \in {"prefix_check", "solve"}
  BY <1>1 DEF OpenPlan, NoneConfirmed
<1>2. CASE at \in Trying
  <2>1. PICK k \in 1..Len(a.candidates) : UpTo(a, k)
    BY <1>2 DEF OpenPlan
  <2> QED BY <2>1 DEF UpTo, Settled, NoneConfirmed
<1> QED BY <1>1, <1>2 DEF Planning

LEMMA ClosedIsUnconfirmed == ASSUME NEW a, Closed(a) PROVE NoneConfirmed(a)
BY DEF Closed, NoneConfirmed, Settled

\* The plan that is tried.
LEMMA ThisIs ==
  ASSUME MechInv, mechanismPc \in Planning
  PROVE  /\ mechanismAttempts \in Seq(PlanTried) /\ Len(mechanismAttempts) > 0
         /\ Mechanism!This = mechanismAttempts[Len(mechanismAttempts)]
         /\ Mechanism!This \in PlanTried
         /\ OpenPlan(Mechanism!This, mechanismPc)
         /\ mechanismStatus = "running"
<1>1. mechanismAttempts \in Seq(PlanTried) /\ Len(mechanismAttempts) > 0
  BY DEF MechInv, MechBase, PlansSoFar
<1>2. Mechanism!This = mechanismAttempts[Len(mechanismAttempts)]
  BY DEF Mechanism!This
<1>3. mechanismAttempts[Len(mechanismAttempts)] \in PlanTried
  BY <1>1
<1>4. mechanismPc # "done"
  BY DEF Planning, Trying
<1> QED BY <1>1, <1>2, <1>3, <1>4 DEF MechInv, PlansSoFar

LEMMA CoversAlike ==
  ASSUME NEW list, NEW other, NEW ps, NEW p, NEW q, Covers(list, ps, p, q),
         Len(other) = Len(list),
         \A n \in 1..Len(list) : other[n].prefix = list[n].prefix /\ other[n].plan = list[n].plan
  PROVE  Covers(other, ps, p, q)
<1> DEFINE N == Len(list)
<1>1. \A n \in 1..N : /\ list[n].prefix \in 1..Len(ps) /\ list[n].plan \in 1..ps[list[n].prefix]
                      /\ ComesBefore(list[n].prefix, list[n].plan, p, q)
  BY DEF Covers
<1>2. \A i \in 1..Len(ps) : \A j \in 1..ps[i] :
        ComesBefore(i, j, p, q) => \E n \in 1..N : list[n].prefix = i /\ list[n].plan = j
  BY DEF Covers
<1>3. \A n, m \in 1..N :
        list[n].prefix = list[m].prefix /\ list[n].plan = list[m].plan => n = m
  BY DEF Covers
<1>4. Len(other) = N
  OBVIOUS
<1>5. \A n \in 1..N : other[n].prefix = list[n].prefix /\ other[n].plan = list[n].plan
  OBVIOUS
<1> HIDE DEF N
<1>6. \A n \in 1..N : /\ other[n].prefix \in 1..Len(ps) /\ other[n].plan \in 1..ps[other[n].prefix]
                      /\ ComesBefore(other[n].prefix, other[n].plan, p, q)
  BY <1>1, <1>5, Zenon
<1>7. \A i \in 1..Len(ps) : \A j \in 1..ps[i] :
        ComesBefore(i, j, p, q) => \E n \in 1..N : other[n].prefix = i /\ other[n].plan = j
  <2> SUFFICES ASSUME NEW i \in 1..Len(ps), NEW j \in 1..ps[i], ComesBefore(i, j, p, q)
               PROVE  \E n \in 1..N : other[n].prefix = i /\ other[n].plan = j
    OBVIOUS
  <2>1. PICK n \in 1..N : list[n].prefix = i /\ list[n].plan = j
    BY <1>2, Zenon
  <2> QED BY <2>1, <1>5, Zenon
<1>8. \A n, m \in 1..N :
        other[n].prefix = other[m].prefix /\ other[n].plan = other[m].plan => n = m
  BY <1>3, <1>5, Zenon
<1> QED BY <1>4, <1>6, <1>7, <1>8, Zenon DEF Covers

\* The plan that is tried goes on, or is done with.
LEMMA GoesKeeps ==
  ASSUME MechInv, mechanismPc \in Planning, NEW next \in Planning \union {"loop"},
         NEW a \in PlanTried, Mechanism!Goes(next, a),
         a.prefix = Mechanism!This.prefix, a.plan = Mechanism!This.plan,
         next = "loop" => Closed(a), next # "loop" => OpenPlan(a, next)
  PROVE  MechInv'
<1> DEFINE last == Len(mechanismAttempts)
<1>1. /\ mechanismAttempts' = [mechanismAttempts EXCEPT ![last] = a]
      /\ mechanismPc' = next /\ mechanismStatus' = "running"
      /\ plans' = plans /\ prefix' = prefix /\ plan' = plan
  BY ThisIs DEF Mechanism!Goes
<1>2. /\ mechanismAttempts \in Seq(PlanTried) /\ last \in Nat \ {0}
      /\ mechanismAttempts[last].prefix = a.prefix /\ mechanismAttempts[last].plan = a.plan
  BY ThisIs
<1>3. /\ mechanismAttempts' \in Seq(PlanTried) /\ Len(mechanismAttempts') = last
      /\ mechanismAttempts'[last] = a
      /\ \A n \in 1..last : n # last => mechanismAttempts'[n] = mechanismAttempts[n]
  BY <1>1, <1>2
<1>4. \A n \in 1..last : /\ mechanismAttempts'[n].prefix = mechanismAttempts[n].prefix
                         /\ mechanismAttempts'[n].plan = mechanismAttempts[n].plan
  BY <1>2, <1>3
<1> HIDE DEF last
<1>5. MechBase'
  <2>1. Covers(mechanismAttempts, plans, prefix, plan) /\ last = Len(mechanismAttempts)
    BY DEF MechInv, MechBase, last
  <2>2. Covers(mechanismAttempts', plans, prefix, plan)
    <3>1. Len(mechanismAttempts') = last
      BY <1>3
    <3>2. \A n \in 1..last : /\ mechanismAttempts'[n].prefix = mechanismAttempts[n].prefix
                             /\ mechanismAttempts'[n].plan = mechanismAttempts[n].plan
      BY <1>4
    <3> DEFINE list == mechanismAttempts
               other == mechanismAttempts'
    <3>3. /\ Covers(list, plans, prefix, plan) /\ last = Len(list) /\ Len(other) = last
          /\ \A n \in 1..last : other[n].prefix = list[n].prefix /\ other[n].plan = list[n].plan
      BY <2>1, <3>1, <3>2
    <3> HIDE DEF list, other
    <3>5. \A n \in 1..last : /\ other[n].prefix \in 1..Len(plans)
                             /\ other[n].plan \in 1..plans[other[n].prefix]
                             /\ ComesBefore(other[n].prefix, other[n].plan, prefix, plan)
      BY <3>3 DEF Covers
    <3>6. ASSUME NEW i \in 1..Len(plans), NEW j \in 1..plans[i], ComesBefore(i, j, prefix, plan)
          PROVE  \E n \in 1..last : other[n].prefix = i /\ other[n].plan = j
      <4>1. PICK n \in 1..last : list[n].prefix = i /\ list[n].plan = j
        BY <3>3, <3>6 DEF Covers
      <4> QED BY <3>3, <4>1
    <3>7. ASSUME NEW n \in 1..last, NEW m \in 1..last,
                 other[n].prefix = other[m].prefix, other[n].plan = other[m].plan
          PROVE  n = m
      <4>1. list[n].prefix = list[m].prefix /\ list[n].plan = list[m].plan
        BY <3>3, <3>7
      <4> QED BY <3>3, <4>1 DEF Covers
    <3>4. Covers(other, plans, prefix, plan)
      BY <3>3, <3>5, <3>6, <3>7 DEF Covers
    <3> QED BY <3>4 DEF other
  <2>3. plans \in Seq(Nat) /\ prefix \in Nat \ {0} /\ plan \in Nat \ {0}
    BY DEF MechInv, MechBase
  <2> QED BY <1>1, <1>3, <2>2, <2>3 DEF MechBase
<1>6. \A n \in 1..last : n # last => Closed(mechanismAttempts'[n])
  <2>1. \A n \in 1..last : n < last => Closed(mechanismAttempts[n])
    BY DEF MechInv, PlansSoFar, last
  <2> QED BY <2>1, <1>2, <1>3
<1>7. NoneConfirmed(a)
  BY OpenIsUnconfirmed, ClosedIsUnconfirmed
<1>8. \A n \in 1..Len(mechanismAttempts') : NoneConfirmed(mechanismAttempts'[n])
  BY <1>3, <1>6, <1>7, ClosedIsUnconfirmed
<1>9. PlansSoFar(mechanismAttempts', mechanismPc')
  <2>1. CASE next = "loop"
    BY <2>1, <1>1, <1>2, <1>3, <1>6 DEF PlansSoFar, Planning, Trying
  <2>2. CASE next # "loop"
    BY <2>2, <1>1, <1>2, <1>3, <1>6 DEF PlansSoFar, Planning, Trying
  <2> QED BY <2>1, <2>2
<1>10. mechanismPc' # "prepare"
  BY <1>1 DEF Planning, Trying
<1> QED BY <1>1, <1>5, <1>8, <1>9, <1>10, MechGoesOn

LEMMA PrefixChecked ==
  ASSUME MechInv, Mechanism!PrefixCheck PROVE MechInv'
<1> DEFINE this == Mechanism!This
<1>1. mechanismPc = "prefix_check" /\ mechanismPc \in Planning
  BY DEF Mechanism!PrefixCheck, Planning
<1>2. this \in PlanTried /\ this.candidates = <<>>
  BY <1>1, ThisIs DEF OpenPlan
<1>3. PICK s \in Mechanism!PrefixStatuses :
        IF s = "prefix_confirmed"
        THEN Mechanism!Goes("solve", [this EXCEPT !.prefix_check = s])
        ELSE Mechanism!Goes("loop", [this EXCEPT !.prefix_check = s, !.status = s])
  BY DEF Mechanism!PrefixCheck
<1> HIDE DEF this
<1>4. s # "none"
  BY DEF Mechanism!PrefixStatuses, Mechanism!Troubles
<1>5. CASE s = "prefix_confirmed"
  <2> DEFINE a == [this EXCEPT !.prefix_check = s]
  <2>1. a \in PlanTried /\ a.candidates = <<>> /\ a.prefix_check = "prefix_confirmed"
        /\ a.prefix = this.prefix /\ a.plan = this.plan
    BY <1>2, <1>5 DEF PlanTried
  <2>2. Mechanism!Goes("solve", a)
    BY <1>3, <1>5
  <2> HIDE DEF a
  <2>3. OpenPlan(a, "solve")
    BY <2>1 DEF OpenPlan, Trying
  <2>4. "solve" \in Planning \union {"loop"} /\ "solve" # "loop"
    BY DEF Planning
  <2> QED BY <1>1, <2>1, <2>2, <2>3, <2>4, GoesKeeps DEF this
<1>6. CASE s # "prefix_confirmed"
  <2> DEFINE a == [this EXCEPT !.prefix_check = s, !.status = s]
  <2>1. a \in PlanTried /\ a.candidates = <<>> /\ a.status = s
        /\ a.prefix = this.prefix /\ a.plan = this.plan
    BY <1>2, <1>6 DEF PlanTried
  <2>2. Mechanism!Goes("loop", a)
    BY <1>3, <1>6
  <2> HIDE DEF a
  <2>3. Closed(a)
    BY <2>1, <1>4 DEF Closed
  <2>4. "loop" \in Planning \union {"loop"}
    OBVIOUS
  <2> QED BY <1>1, <2>1, <2>2, <2>3, <2>4, GoesKeeps DEF this
<1> QED BY <1>5, <1>6

LEMMA Solved ==
  ASSUME Mechanism!MechanismAssumption, MechInv, Mechanism!Solve PROVE MechInv'
<1> DEFINE this == Mechanism!This
           fresh == [flawed |-> "none", native |-> "none", repaired |-> "none",
                     status |-> "pending"]
           some(n) == [this EXCEPT !.solve = "candidate", !.candidates = [i \in 1..n |-> fresh]]
<1>1. mechanismPc = "solve" /\ mechanismPc \in Planning
  BY DEF Mechanism!Solve, Planning
<1>2. this \in PlanTried /\ this.candidates = <<>> /\ this.prefix_check = "prefix_confirmed"
  BY <1>1, ThisIs DEF OpenPlan
<1>3. \/ \E s \in Mechanism!SuffixStatuses \ {"candidate"} :
            Mechanism!Goes("loop", [this EXCEPT !.solve = s, !.status = s])
      \/ \E n \in 1..MaxCandidates : Mechanism!Goes("flawed_replay", some(n))
  BY DEF Mechanism!Solve
<1> HIDE DEF this
<1>4. ASSUME NEW s \in Mechanism!SuffixStatuses \ {"candidate"},
             Mechanism!Goes("loop", [this EXCEPT !.solve = s, !.status = s])
      PROVE  MechInv'
  <2> DEFINE a == [this EXCEPT !.solve = s, !.status = s]
  <2>1. a \in PlanTried /\ a.candidates = <<>> /\ a.status = s
        /\ a.prefix = this.prefix /\ a.plan = this.plan
    BY <1>2 DEF PlanTried
  <2>2. Mechanism!Goes("loop", a)
    BY <1>4
  <2>3. s # "none"
    BY DEF Mechanism!SuffixStatuses, Mechanism!Troubles
  <2> HIDE DEF a
  <2>4. Closed(a)
    BY <2>1, <2>3 DEF Closed
  <2>5. "loop" \in Planning \union {"loop"}
    OBVIOUS
  <2> QED BY <1>1, <2>1, <2>2, <2>4, <2>5, GoesKeeps DEF this
<1>5. ASSUME NEW n \in 1..MaxCandidates, Mechanism!Goes("flawed_replay", some(n))
      PROVE  MechInv'
  <2> DEFINE a == some(n)
             list == [i \in 1..n |-> fresh]
  <2>1. fresh \in CandidateTried /\ fresh.status = "pending"
    BY DEF CandidateTried
  <2> HIDE DEF fresh
  <2>2. n \in Nat /\ n >= 1
    BY DEF Mechanism!MechanismAssumption
  <2>3. list \in Seq(CandidateTried) /\ Len(list) = n /\ \A i \in 1..n : list[i] = fresh
    BY <2>1, <2>2
  <2>4. "candidate" \in Mechanism!SuffixStatuses
    BY DEF Mechanism!SuffixStatuses
  <2>5. a = [this EXCEPT !.solve = "candidate", !.candidates = list]
    OBVIOUS
  <2> HIDE DEF list
  <2>6. a \in PlanTried /\ a.candidates = list /\ a.prefix_check = "prefix_confirmed"
        /\ a.prefix = this.prefix /\ a.plan = this.plan
    BY <1>2, <2>3, <2>4, <2>5 DEF PlanTried
  <2>7. Mechanism!Goes("flawed_replay", a)
    BY <1>5
  <2> HIDE DEF a
  <2>8. UpTo(a, 1) /\ Passed(a.candidates[1], "flawed_replay") /\ 1 \in 1..Len(a.candidates)
    BY <2>1, <2>2, <2>3, <2>6 DEF UpTo, Passed
  <2>9. OpenPlan(a, "flawed_replay")
    BY <2>6, <2>8 DEF OpenPlan
  <2>10. "flawed_replay" \in Planning \union {"loop"} /\ "flawed_replay" # "loop"
    BY DEF Planning, Trying
  <2> QED BY <1>1, <2>6, <2>7, <2>9, <2>10, GoesKeeps DEF this
<1> QED BY <1>3, <1>4, <1>5

\* The candidate that is tried.
LEMMA UntriedIs ==
  ASSUME MechInv, mechanismPc \in Trying
  PROVE  /\ Mechanism!Untried \in 1..Len(Mechanism!This.candidates)
         /\ UpTo(Mechanism!This, Mechanism!Untried) /\ Passed(Mechanism!Now, mechanismPc)
         /\ Mechanism!Now \in CandidateTried /\ Mechanism!Now.status = "pending"
         /\ Mechanism!Now = Mechanism!This.candidates[Mechanism!Untried]
         /\ Mechanism!This.prefix_check = "prefix_confirmed"
<1> DEFINE this == Mechanism!This
<1>1. mechanismPc \in Planning
  BY DEF Planning
<1>2. this \in PlanTried /\ OpenPlan(this, mechanismPc)
  BY <1>1, ThisIs
<1>3. Mechanism!Untried = CHOOSE i \in DOMAIN this.candidates :
             /\ this.candidates[i].status = "pending"
             /\ \A j \in 1..i - 1 : this.candidates[j].status # "pending"
  BY DEF Mechanism!Untried
<1>4. Mechanism!Now = this.candidates[Mechanism!Untried]
  BY DEF Mechanism!Now
<1> HIDE DEF this
<1>5. PICK k \in 1..Len(this.candidates) : UpTo(this, k) /\ Passed(this.candidates[k], mechanismPc)
  BY <1>2 DEF OpenPlan
<1>6. this.prefix_check = "prefix_confirmed"
  BY <1>2 DEF OpenPlan, Trying
<1>7. this.candidates \in Seq(CandidateTried)
  BY <1>2 DEF PlanTried
<1>8. \A i \in DOMAIN this.candidates :
        /\ this.candidates[i].status = "pending"
        /\ \A j \in 1..i - 1 : this.candidates[j].status # "pending"
        => i = k
  <2> SUFFICES ASSUME NEW i \in DOMAIN this.candidates, this.candidates[i].status = "pending",
                      \A j \in 1..i - 1 : this.candidates[j].status # "pending"
               PROVE  i = k
    OBVIOUS
  <2>1. i \in 1..Len(this.candidates)
    BY <1>7
  <2>2. ~(i < k)
    BY <2>1, <1>5 DEF UpTo, Settled
  <2>3. this.candidates[k].status = "pending"
    BY <1>5 DEF UpTo
  <2>4. ~(k < i)
    BY <2>1, <2>3
  <2> QED BY <2>1, <2>2, <2>4
<1>9. /\ k \in DOMAIN this.candidates /\ this.candidates[k].status = "pending"
      /\ \A j \in 1..k - 1 : this.candidates[j].status # "pending"
  BY <1>5, <1>7 DEF UpTo, Settled
<1>10. Mechanism!Untried = k
  BY <1>3, <1>8, <1>9
<1>11. this.candidates[k] \in CandidateTried
  BY <1>7
<1> QED BY <1>4, <1>5, <1>6, <1>9, <1>10, <1>11 DEF this

LEMMA OneChanged ==
  ASSUME NEW a \in PlanTried, NEW k \in 1..Len(a.candidates), NEW c \in CandidateTried,
         NEW b, b = [a EXCEPT !.candidates[k] = c]
  PROVE  /\ b \in PlanTried /\ b.prefix = a.prefix /\ b.plan = a.plan /\ b.status = a.status
         /\ b.prefix_check = a.prefix_check /\ Len(b.candidates) = Len(a.candidates)
         /\ \A i \in 1..Len(a.candidates) :
              b.candidates[i] = IF i = k THEN c ELSE a.candidates[i]
<1> DEFINE list == a.candidates
           changed == [list EXCEPT ![k] = c]
<1>1. list \in Seq(CandidateTried)
  BY DEF PlanTried
<1>2. b = [a EXCEPT !.candidates = changed]
  OBVIOUS
<1>3. /\ changed \in Seq(CandidateTried) /\ Len(changed) = Len(list)
      /\ \A i \in 1..Len(list) : changed[i] = IF i = k THEN c ELSE list[i]
  BY <1>1
<1> HIDE DEF changed
<1>4. /\ b \in PlanTried /\ b.candidates = changed /\ b.prefix = a.prefix /\ b.plan = a.plan
      /\ b.status = a.status /\ b.prefix_check = a.prefix_check
  BY <1>2, <1>3 DEF PlanTried
<1> QED BY <1>3, <1>4

\* The candidate goes on to the next check.
LEMMA TriesOn ==
  ASSUME MechInv, mechanismPc \in Trying, NEW next \in Trying, NEW c \in CandidateTried,
         c.status = "pending", Passed(c, next), Mechanism!Goes(next, Mechanism!With(c))
  PROVE  MechInv'
<1> DEFINE this == Mechanism!This
           k == Mechanism!Untried
           a == [this EXCEPT !.candidates[k] = c]
<1>1. /\ k \in 1..Len(this.candidates) /\ UpTo(this, k) /\ this.prefix_check = "prefix_confirmed"
  BY UntriedIs
<1>2. mechanismPc \in Planning /\ next \in Planning \union {"loop"} /\ next # "loop"
  BY DEF Planning, Trying
<1>3. this \in PlanTried
  BY <1>2, ThisIs
<1>4. Mechanism!Goes(next, a)
  BY DEF Mechanism!With
<1> HIDE DEF this, k
<1>5. a = [this EXCEPT !.candidates[k] = c]
  OBVIOUS
<1> HIDE DEF a
<1>6. /\ a \in PlanTried /\ a.prefix = this.prefix /\ a.plan = this.plan
      /\ a.prefix_check = this.prefix_check /\ Len(a.candidates) = Len(this.candidates)
      /\ \A i \in 1..Len(this.candidates) :
           a.candidates[i] = IF i = k THEN c ELSE this.candidates[i]
  BY <1>1, <1>3, <1>5, OneChanged
<1>7. UpTo(a, k) /\ a.candidates[k] = c
  BY <1>1, <1>6 DEF UpTo
<1>8. OpenPlan(a, next)
  <2>1. next \notin {"prefix_check", "solve"}
    BY DEF Trying
  <2> QED BY <2>1, <1>1, <1>6, <1>7 DEF OpenPlan
<1> QED BY <1>2, <1>4, <1>6, <1>8, GoesKeeps DEF this

\* The candidate is settled: on to the next, or the plan is done.
LEMMA SettleKeeps ==
  ASSUME MechInv, mechanismPc \in Trying, NEW s \in Settled, Mechanism!Settle(s)
  PROVE  MechInv'
<1> DEFINE this == Mechanism!This
           k == Mechanism!Untried
           c == [Mechanism!Now EXCEPT !.status = s]
           a == [this EXCEPT !.candidates[k] = c]
           done == [a EXCEPT !.status = "no_candidate"]
<1>1. k \in 1..Len(this.candidates) /\ UpTo(this, k) /\ this.prefix_check = "prefix_confirmed"
      /\ Mechanism!Now \in CandidateTried
  BY UntriedIs
<1>2. mechanismPc \in Planning
  BY DEF Planning
<1>3. this \in PlanTried
  BY <1>2, ThisIs
<1>4. IF k < Len(this.candidates) THEN Mechanism!Goes("flawed_replay", a)
      ELSE Mechanism!Goes("loop", done)
  BY DEF Mechanism!Settle, Mechanism!With
<1>5. c \in CandidateTried /\ c.status = s
  BY <1>1 DEF CandidateTried
<1> HIDE DEF this, k, c
<1>6. a = [this EXCEPT !.candidates[k] = c]
  OBVIOUS
<1> HIDE DEF a
<1>7. /\ a \in PlanTried /\ a.prefix = this.prefix /\ a.plan = this.plan
      /\ a.prefix_check = this.prefix_check /\ Len(a.candidates) = Len(this.candidates)
      /\ \A i \in 1..Len(this.candidates) :
           a.candidates[i] = IF i = k THEN c ELSE this.candidates[i]
  BY <1>1, <1>3, <1>5, <1>6, OneChanged
<1>8. /\ k \in 1..Len(a.candidates)
      /\ \A i \in 1..Len(a.candidates) :
           IF i <= k THEN a.candidates[i].status \in Settled ELSE a.candidates[i].status = "pending"
  BY <1>1, <1>5, <1>7 DEF UpTo
<1>9. CASE k < Len(this.candidates)
  <2>1. k + 1 \in 1..Len(a.candidates)
    BY <1>1, <1>7, <1>9
  <2>2. UpTo(a, k + 1)
    BY <2>1, <1>8 DEF UpTo
  <2>3. Passed(a.candidates[k + 1], "flawed_replay")
    BY DEF Passed
  <2>4. OpenPlan(a, "flawed_replay")
    BY <2>1, <2>2, <2>3, <1>1, <1>7 DEF OpenPlan
  <2>5. "flawed_replay" \in Planning \union {"loop"} /\ "flawed_replay" # "loop"
    BY DEF Planning, Trying
  <2>6. Mechanism!Goes("flawed_replay", a)
    BY <1>4, <1>9
  <2> QED BY <1>2, <1>7, <2>4, <2>5, <2>6, GoesKeeps DEF this
<1>10. CASE ~(k < Len(this.candidates))
  <2>1. Mechanism!Goes("loop", done)
    BY <1>4, <1>10
  <2>2. /\ done \in PlanTried /\ done.prefix = this.prefix /\ done.plan = this.plan
        /\ done.status = "no_candidate" /\ done.candidates = a.candidates
    BY <1>7 DEF PlanTried
  <2>3. \A i \in 1..Len(a.candidates) : i <= k
    BY <1>1, <1>7, <1>10
  <2> HIDE DEF done
  <2>4. Closed(done)
    BY <2>2, <2>3, <1>8 DEF Closed
  <2>5. "loop" \in Planning \union {"loop"}
    OBVIOUS
  <2> QED BY <1>2, <2>1, <2>2, <2>4, <2>5, GoesKeeps DEF this
<1> QED BY <1>9, <1>10

LEMMA FlawedReplayed ==
  ASSUME MechInv, Mechanism!FlawedReplay PROVE MechInv'
<1>1. mechanismPc \in Trying /\ "flawed_native" \in Trying
  BY DEF Mechanism!FlawedReplay, Trying
<1>2. PICK s \in Mechanism!ReplayStatuses :
        IF s = "violation_confirmed"
        THEN Mechanism!Goes("flawed_native", Mechanism!With([Mechanism!Now EXCEPT !.flawed = s]))
        ELSE Mechanism!Settle(s)
  BY DEF Mechanism!FlawedReplay
<1>3. CASE s = "violation_confirmed"
  <2> DEFINE c == [Mechanism!Now EXCEPT !.flawed = s]
  <2>1. Mechanism!Now \in CandidateTried /\ Mechanism!Now.status = "pending"
    BY <1>1, UntriedIs
  <2>2. c \in CandidateTried /\ c.status = "pending" /\ Passed(c, "flawed_native")
    BY <2>1, <1>3 DEF CandidateTried, Passed
  <2>3. Mechanism!Goes("flawed_native", Mechanism!With(c))
    BY <1>2, <1>3
  <2> HIDE DEF c
  <2> QED BY <1>1, <2>2, <2>3, TriesOn
<1>4. CASE s # "violation_confirmed"
  <2>1. s \in Settled
    BY <1>4 DEF Mechanism!ReplayStatuses, Settled
  <2> QED BY <1>1, <1>2, <1>4, <2>1, SettleKeeps
<1> QED BY <1>3, <1>4

LEMMA FlawedValidated ==
  ASSUME MechInv, Mechanism!FlawedNative PROVE MechInv'
<1>1. mechanismPc = "flawed_native" /\ mechanismPc \in Trying /\ "repaired_replay" \in Trying
  BY DEF Mechanism!FlawedNative, Trying
<1>2. CASE Mechanism!Settle("duplicate_warmup_sequence")
  <2>1. "duplicate_warmup_sequence" \in Settled
    BY DEF Settled
  <2> QED BY <1>1, <1>2, <2>1, SettleKeeps
<1>3. CASE Mechanism!Goes("repaired_replay",
             Mechanism!With([Mechanism!Now EXCEPT !.native = "violation_confirmed"]))
  <2> DEFINE c == [Mechanism!Now EXCEPT !.native = "violation_confirmed"]
  <2>1. /\ Mechanism!Now \in CandidateTried /\ Mechanism!Now.status = "pending"
        /\ Passed(Mechanism!Now, "flawed_native")
    BY <1>1, UntriedIs
  <2>2. c \in CandidateTried /\ c.status = "pending" /\ Passed(c, "repaired_replay")
    BY <2>1 DEF CandidateTried, Passed
  <2>3. Mechanism!Goes("repaired_replay", Mechanism!With(c))
    BY <1>3
  <2> HIDE DEF c
  <2> QED BY <1>1, <2>2, <2>3, TriesOn
<1> QED BY <1>2, <1>3 DEF Mechanism!FlawedNative

LEMMA RepairedReplayed ==
  ASSUME MechInv, Mechanism!RepairedReplay PROVE MechInv'
<1>1. mechanismPc = "repaired_replay" /\ mechanismPc \in Trying /\ "repaired_native" \in Trying
  BY DEF Mechanism!RepairedReplay, Trying
<1>2. PICK s \in Mechanism!RepairedStatuses :
        IF s = "property_preserved"
        THEN Mechanism!Goes("repaired_native", Mechanism!With([Mechanism!Now EXCEPT !.repaired = s]))
        ELSE Mechanism!Settle("repaired_regression_failure")
  BY DEF Mechanism!RepairedReplay
<1>3. CASE s = "property_preserved"
  <2> DEFINE c == [Mechanism!Now EXCEPT !.repaired = s]
  <2>1. /\ Mechanism!Now \in CandidateTried /\ Mechanism!Now.status = "pending"
        /\ Passed(Mechanism!Now, "repaired_replay")
    BY <1>1, UntriedIs
  <2>2. c \in CandidateTried /\ c.status = "pending" /\ Passed(c, "repaired_native")
    BY <2>1, <1>3 DEF CandidateTried, Passed
  <2>3. Mechanism!Goes("repaired_native", Mechanism!With(c))
    BY <1>2, <1>3
  <2> HIDE DEF c
  <2> QED BY <1>1, <2>2, <2>3, TriesOn
<1>4. CASE s # "property_preserved"
  <2>1. "repaired_regression_failure" \in Settled
    BY DEF Settled
  <2> QED BY <1>1, <1>2, <1>4, <2>1, SettleKeeps
<1> QED BY <1>3, <1>4

\* The plans there are, and those that were tried.
PlannedOf(ps) == UNION {{<<i, j>> : j \in 1..ps[i]} : i \in DOMAIN ps}
TriedOf(list) == {<<list[n].prefix, list[n].plan>> : n \in DOMAIN list}

LEMMA PlannedAre ==
  ASSUME NEW ps, NEW x
  PROVE  x \in PlannedOf(ps) <=> \E i \in DOMAIN ps : \E j \in 1..ps[i] : x = <<i, j>>
<1> DEFINE Of(i) == {<<i, j>> : j \in 1..ps[i]}
           All == {Of(i) : i \in DOMAIN ps}
<1>1. PlannedOf(ps) = UNION All
  BY Zenon DEF PlannedOf
<1>2. ASSUME NEW i PROVE x \in Of(i) <=> \E j \in 1..ps[i] : x = <<i, j>>
  OBVIOUS
<1>3. ASSUME NEW m PROVE m \in All <=> \E i \in DOMAIN ps : m = Of(i)
  OBVIOUS
<1> HIDE DEF Of, All
<1>4. x \in UNION All <=> \E m \in All : x \in m
  OBVIOUS
<1> QED BY ONLY <1>1, <1>2, <1>3, <1>4, Zenon

\* After the last prefix every plan was tried, each once.
LEMMA AllTried ==
  ASSUME NEW list \in Seq(PlanTried), NEW ps \in Seq(Nat), NEW p \in Nat, NEW q \in Nat,
         p > Len(ps), Covers(list, ps, p, q)
  PROVE  TriedOf(list) = PlannedOf(ps) /\ Cardinality(PlannedOf(ps)) = Len(list)
<1> DEFINE N == Len(list)
           f == [n \in 1..N |-> <<list[n].prefix, list[n].plan>>]
           S == TriedOf(list)
<1>1. N \in Nat /\ DOMAIN list = 1..N /\ DOMAIN ps = 1..Len(ps)
  OBVIOUS
<1>2. \A n \in 1..N : list[n].prefix \in 1..Len(ps) /\ list[n].plan \in 1..ps[list[n].prefix]
  BY DEF Covers
<1>3. \A i \in 1..Len(ps) : \A j \in 1..ps[i] :
        \E n \in 1..N : list[n].prefix = i /\ list[n].plan = j
  <2>1. \A i \in 1..Len(ps) : i < p
    OBVIOUS
  <2> QED BY <2>1 DEF Covers, ComesBefore
<1>4. \A n, m \in 1..N :
        list[n].prefix = list[m].prefix /\ list[n].plan = list[m].plan => n = m
  BY DEF Covers
<1>5. ASSUME NEW x PROVE x \in TriedOf(list) <=> x \in PlannedOf(ps)
  <2>1. x \in TriedOf(list) <=> \E n \in 1..N : x = <<list[n].prefix, list[n].plan>>
    BY <1>1 DEF TriedOf
  <2>2. x \in PlannedOf(ps) <=> \E i \in 1..Len(ps) : \E j \in 1..ps[i] : x = <<i, j>>
    <3>1. x \in PlannedOf(ps) <=> \E i \in DOMAIN ps : \E j \in 1..ps[i] : x = <<i, j>>
      BY PlannedAre
    <3> QED BY ONLY <3>1, <1>1
  <2> HIDE DEF N
  <2>3. ASSUME NEW i \in 1..Len(ps), NEW j \in 1..ps[i], x = <<i, j>>
        PROVE  \E n \in 1..N : x = <<list[n].prefix, list[n].plan>>
    BY <1>3, <2>3, Zenon
  <2>4. ASSUME NEW n \in 1..N, x = <<list[n].prefix, list[n].plan>>
        PROVE  \E i \in 1..Len(ps) : \E j \in 1..ps[i] : x = <<i, j>>
    BY <1>2, <2>4, Zenon
  <2> QED BY ONLY <2>1, <2>2, <2>3, <2>4, Zenon
<1>6. TriedOf(list) = PlannedOf(ps)
  BY <1>5
<1>7. f \in [1..N -> S] /\ \A x \in S : \E n \in 1..N : f[n] = x
  BY <1>1 DEF TriedOf
<1>8. \A n, m \in 1..N : f[n] = f[m] => n = m
  BY <1>4
<1> HIDE DEF f, S, N
<1>9. IsFiniteSet(1..N) /\ Cardinality(1..N) = N
  BY <1>1, CountTo
<1>10. ExistsBijection(1..N, S)
  <2>1. f \in Bijection(1..N, S)
    BY <1>7, <1>8, Fun_IsBij
  <2> QED BY <2>1 DEF ExistsBijection
<1>11. Cardinality(S) = N
  BY <1>9, <1>10, FS_Bijection
<1> QED BY <1>6, <1>11 DEF N, S

LEMMA WentThrough == ASSUME MechInv, Mechanism!NoCandidate PROVE MechInv'
<1>1. /\ mechanismPc = "loop" /\ prefix > Len(plans)
      /\ mechanismPc' = "done" /\ mechanismStatus' = "no_candidate"
      /\ UNCHANGED <<mechanismAttempts, plans, prefix, plan>>
  BY DEF Mechanism!NoCandidate, Mechanism!Report
<1>2. /\ mechanismAttempts \in Seq(PlanTried) /\ plans \in Seq(Nat) /\ prefix \in Nat
      /\ plan \in Nat /\ Covers(mechanismAttempts, plans, prefix, plan)
  BY DEF MechInv, MechBase
<1>3. MechBase'
  BY <1>1 DEF MechInv, MechBase
<1>4. \A n \in 1..Len(mechanismAttempts) : Closed(mechanismAttempts[n])
  BY <1>1 DEF MechInv, PlansSoFar
<1>5. \A n \in 1..Len(mechanismAttempts') : NoneConfirmed(mechanismAttempts'[n])
  BY <1>1, <1>4, ClosedIsUnconfirmed
<1>6. FourReplays(mechanismAttempts', mechanismStatus')
  BY <1>1, <1>3, <1>5, NothingConfirmed DEF MechBase
<1>7. Mechanism!ConfirmedInFourReplays'
  BY <1>6 DEF Mechanism!ConfirmedInFourReplays, FourReplays, Confirmations, ConfirmedOf
<1>8. Mechanism!NoCandidateWentThrough'
  <2>1. /\ TriedOf(mechanismAttempts) = PlannedOf(plans)
        /\ Mechanism!Cardinality(PlannedOf(plans)) = Len(mechanismAttempts)
    BY <1>1, <1>2, AllTried, CountsAlike
  <2>2. Mechanism!Tried' = Mechanism!Planned'
        /\ Mechanism!Cardinality(Mechanism!Planned') = Len(mechanismAttempts')
    BY <2>1, <1>1 DEF Mechanism!Tried, Mechanism!Planned, TriedOf, PlannedOf
  <2>3. ASSUME NEW n \in DOMAIN mechanismAttempts
        PROVE  /\ mechanismAttempts[n].status # "none"
               /\ \A c \in DOMAIN mechanismAttempts[n].candidates :
                    mechanismAttempts[n].candidates[c].status \notin {"pending", "safety_confirmed"}
    <3>1. n \in 1..Len(mechanismAttempts)
      BY <1>2
    <3>2. mechanismAttempts[n] \in PlanTried
      BY <3>1, <1>2
    <3>3. mechanismAttempts[n].candidates \in Seq(CandidateTried)
      BY <3>2 DEF PlanTried
    <3> QED BY <3>1, <3>3, <1>4 DEF Closed, Settled
  <2> QED BY <1>1, <2>2, <2>3 DEF Mechanism!NoCandidateWentThrough
<1> QED BY <1>1, <1>3, <1>5, <1>7, <1>8 DEF MechInv, PlansSoFar, Planning, Trying

LEMMA OneConfirmed ==
  ASSUME NEW list, NEW n, NEW k, n = Len(list), Confirmations(list) = {<<n, k>>},
         list[n].prefix_check = "prefix_confirmed",
         list[n].candidates[k].flawed = "violation_confirmed",
         list[n].candidates[k].native = "violation_confirmed",
         list[n].candidates[k].repaired = "property_preserved"
  PROVE  FourReplays(list, "safety_confirmed")
<1>1. Mechanism!Cardinality({<<n, k>>}) = 1
  BY CountsAlike, FS_Singleton
<1>2. Mechanism!Cardinality(Confirmations(list)) <= 1
  BY <1>1
<1>3. \A x \in Confirmations(list) : x[1] = n /\ x[2] = k
  OBVIOUS
<1>4. Confirmations(list) # {}
  OBVIOUS
<1> QED BY <1>2, <1>3, <1>4 DEF FourReplays

LEMMA FinallyConfirmed == ASSUME MechInv, Mechanism!RepairedNative PROVE MechInv'
<1> DEFINE this == Mechanism!This
           k == Mechanism!Untried
           c == [Mechanism!Now EXCEPT !.status = "safety_confirmed"]
           a == [this EXCEPT !.candidates[k] = c]
           last == Len(mechanismAttempts)
<1>1. /\ mechanismPc = "repaired_native" /\ mechanismPc' = "done"
      /\ mechanismStatus' = "safety_confirmed" /\ UNCHANGED <<plans, prefix, plan>>
      /\ mechanismAttempts' = [mechanismAttempts EXCEPT ![last] = a]
  BY DEF Mechanism!RepairedNative, Mechanism!Report, Mechanism!With
<1>2. mechanismPc \in Trying /\ mechanismPc \in Planning
  BY <1>1 DEF Planning, Trying
<1>3. /\ k \in 1..Len(this.candidates) /\ UpTo(this, k) /\ this.prefix_check = "prefix_confirmed"
      /\ Mechanism!Now \in CandidateTried /\ Passed(Mechanism!Now, "repaired_native")
  BY <1>1, <1>2, UntriedIs
<1>4. /\ this \in PlanTried /\ mechanismAttempts \in Seq(PlanTried) /\ last \in Nat \ {0}
      /\ this = mechanismAttempts[last]
  BY <1>2, ThisIs
<1>5. /\ c \in CandidateTried /\ c.status = "safety_confirmed"
      /\ c.flawed = "violation_confirmed" /\ c.native = "violation_confirmed"
      /\ c.repaired = "property_preserved"
  BY <1>3 DEF CandidateTried, Passed
<1> HIDE DEF this, k, c
<1>6. a = [this EXCEPT !.candidates[k] = c]
  OBVIOUS
<1> HIDE DEF a
<1>7. /\ a \in PlanTried /\ a.prefix = this.prefix /\ a.plan = this.plan
      /\ a.prefix_check = this.prefix_check /\ Len(a.candidates) = Len(this.candidates)
      /\ \A i \in 1..Len(this.candidates) :
           a.candidates[i] = IF i = k THEN c ELSE this.candidates[i]
  BY <1>3, <1>4, <1>5, <1>6, OneChanged
<1>8. /\ mechanismAttempts' \in Seq(PlanTried) /\ Len(mechanismAttempts') = last
      /\ mechanismAttempts'[last] = a
      /\ \A n \in 1..last : n # last => mechanismAttempts'[n] = mechanismAttempts[n]
  BY <1>1, <1>4, <1>7
<1>9. \A n \in 1..last : /\ mechanismAttempts'[n].prefix = mechanismAttempts[n].prefix
                         /\ mechanismAttempts'[n].plan = mechanismAttempts[n].plan
  BY <1>4, <1>7, <1>8
<1>10. MechBase'
  <2> HIDE DEF last
  <2>1. Covers(mechanismAttempts, plans, prefix, plan) /\ last = Len(mechanismAttempts)
    BY DEF MechInv, MechBase, last
  <2>2. Covers(mechanismAttempts', plans, prefix, plan)
    BY <2>1, <1>8, <1>9, CoversAlike
  <2>3. plans \in Seq(Nat) /\ prefix \in Nat \ {0} /\ plan \in Nat \ {0}
    BY DEF MechInv, MechBase
  <2> QED BY <1>1, <1>8, <2>2, <2>3 DEF MechBase
<1>11. \A n \in 1..last : n # last => Closed(mechanismAttempts[n])
  BY <1>2, <1>4 DEF MechInv, PlansSoFar
<1>12. ASSUME NEW n \in DOMAIN mechanismAttempts', NEW x \in ConfirmedOf(mechanismAttempts'[n])
       PROVE  n = last /\ x = k
  <2>1. n \in 1..last
    BY <1>8
  <2>2. mechanismAttempts'[n] \in PlanTried
    BY <2>1, <1>8
  <2>3. mechanismAttempts'[n].candidates \in Seq(CandidateTried)
    BY <2>2 DEF PlanTried
  <2>4. x \in 1..Len(mechanismAttempts'[n].candidates)
        /\ mechanismAttempts'[n].candidates[x].status = "safety_confirmed"
    BY <2>3 DEF ConfirmedOf
  <2>5. n = last
    BY <2>1, <2>4, <1>8, <1>11 DEF Closed, Settled
  <2>6. x = k
    <3>1. x \in 1..Len(this.candidates) /\ a.candidates[x].status = "safety_confirmed"
      BY <2>4, <2>5, <1>7, <1>8
    <3>2. x # k => this.candidates[x].status = "safety_confirmed"
      BY <3>1, <1>7
    <3> QED BY <3>1, <3>2, <1>3 DEF UpTo, Settled
  <2> QED BY <2>5, <2>6
<1>13. last \in DOMAIN mechanismAttempts' /\ k \in ConfirmedOf(mechanismAttempts'[last])
  <2>1. a.candidates \in Seq(CandidateTried)
    BY <1>7 DEF PlanTried
  <2> QED BY <2>1, <1>3, <1>4, <1>5, <1>7, <1>8 DEF ConfirmedOf
<1>14. Confirmations(mechanismAttempts') = {<<last, k>>}
  <2> DEFINE list == mechanismAttempts'
  <2> HIDE DEF list, last
  <2>1. ASSUME NEW x PROVE x \in Confirmations(list) <=> x = <<last, k>>
    <3>1. x \in Confirmations(list) <=>
            \E n \in DOMAIN list : \E y \in ConfirmedOf(list[n]) : x = <<n, y>>
      BY ConfirmationsAre
    <3>2. \A n \in DOMAIN list : \A y \in ConfirmedOf(list[n]) : n = last /\ y = k
      BY <1>12 DEF list
    <3>3. last \in DOMAIN list /\ k \in ConfirmedOf(list[last])
      BY <1>13 DEF list
    <3> QED BY ONLY <3>1, <3>2, <3>3, Zenon
  <2>2. Confirmations(list) = {<<last, k>>}
    BY <2>1
  <2> QED BY <2>2 DEF list
<1>15. FourReplays(mechanismAttempts', mechanismStatus')
  <2>1. /\ mechanismAttempts'[last].prefix_check = "prefix_confirmed"
        /\ mechanismAttempts'[last].candidates[k] = c
    BY <1>3, <1>7, <1>8
  <2> HIDE DEF last
  <2> QED BY <1>1, <1>5, <1>8, <1>14, <2>1, OneConfirmed
<1>16. Mechanism!ConfirmedInFourReplays'
  BY <1>15 DEF Mechanism!ConfirmedInFourReplays, FourReplays, Confirmations, ConfirmedOf
<1> QED BY <1>1, <1>10, <1>16 DEF MechInv, PlansSoFar, Planning, Trying,
     Mechanism!NoCandidateWentThrough

LEMMA MechPrepared == ASSUME Mechanism!MechanismAssumption, MechInv, Mechanism!Prepare PROVE MechInv'
<1>1. /\ mechanismPc = "prepare" /\ mechanismStatus = "running"
      /\ mechanismAttempts = <<>> /\ prefix = 1 /\ plan = 1
      /\ UNCHANGED mechanismAttempts /\ mechanismPc # "done"
  BY DEF Mechanism!Prepare, MechInv
<1>2. ASSUME NEW s \in Mechanism!Raised \union {"no_eligible_prefix"}, Mechanism!Report(s)
      PROVE  MechInv'
  <2>1. s \notin {"safety_confirmed", "no_candidate"}
    BY DEF Mechanism!Raised
  <2> QED BY <2>1, <1>1, <1>2, MechGivesUp
<1>3. ASSUME NEW n \in 1..MaxPrefixes, plans' \in [1..n -> 0..MaxPlans], mechanismPc' = "loop",
             UNCHANGED <<prefix, plan, mechanismStatus>>
      PROVE  MechInv'
  <2>1. plans' \in Seq(Nat)
    BY <1>3 DEF Mechanism!MechanismAssumption
  <2>2. /\ mechanismAttempts' = <<>> /\ prefix' = 1 /\ plan' = 1 /\ mechanismStatus' = "running"
    BY <1>1, <1>3
  <2>3. Len(mechanismAttempts') = 0 /\ mechanismAttempts' \in Seq(PlanTried)
    BY <2>2
  <2>4. Covers(mechanismAttempts', plans', prefix', plan')
    BY <2>1, <2>2, <2>3 DEF Covers, ComesBefore
  <2>5. MechBase'
    BY <2>1, <2>2, <2>3, <2>4 DEF MechBase
  <2>6. PlansSoFar(mechanismAttempts', mechanismPc')
        /\ \A m \in 1..Len(mechanismAttempts') : NoneConfirmed(mechanismAttempts'[m])
    BY <2>3, <1>3 DEF PlansSoFar, Planning, Trying
  <2> QED BY <1>3, <2>2, <2>5, <2>6, MechGoesOn
<1>4. \/ \E s \in Mechanism!Raised \union {"no_eligible_prefix"} : Mechanism!Report(s)
      \/ /\ \E n \in 1..MaxPrefixes : plans' \in [1..n -> 0..MaxPlans]
         /\ mechanismPc' = "loop" /\ UNCHANGED <<prefix, plan, mechanismStatus>>
  BY DEF Mechanism!Prepare
<1> QED BY <1>2, <1>3, <1>4

\* Every plan of a prefix that is done with comes before the next prefix.
LEMMA MechNextPrefix == ASSUME MechInv, Mechanism!NextPrefix PROVE MechInv'
<1>1. /\ mechanismPc = "loop" /\ mechanismPc' = "loop" /\ prefix <= Len(plans)
      /\ plan > plans[prefix] /\ prefix' = prefix + 1 /\ plan' = 1
      /\ UNCHANGED <<plans, mechanismAttempts, mechanismStatus>>
  BY DEF Mechanism!NextPrefix
<1>2. /\ mechanismAttempts \in Seq(PlanTried) /\ plans \in Seq(Nat)
      /\ prefix \in Nat \ {0} /\ plan \in Nat \ {0}
      /\ Covers(mechanismAttempts, plans, prefix, plan)
      /\ mechanismStatus = "running"
      /\ \A n \in 1..Len(mechanismAttempts) : Closed(mechanismAttempts[n])
  BY <1>1 DEF MechInv, MechBase, PlansSoFar
<1>3. ASSUME NEW i \in 1..Len(plans), NEW j \in 1..plans[i]
      PROVE  ComesBefore(i, j, prefix, plan) <=> ComesBefore(i, j, prefix + 1, 1)
  <2>1. plans[i] \in Nat /\ i \in Nat /\ j \in Nat /\ j >= 1
    BY <1>2
  <2>2. i = prefix => j < plan
    BY <2>1, <1>1, <1>2
  <2> QED BY <2>1, <2>2, <1>2 DEF ComesBefore
<1>4. Covers(mechanismAttempts, plans, prefix + 1, 1)
  <2>1. ASSUME NEW n \in 1..Len(mechanismAttempts)
        PROVE  /\ mechanismAttempts[n].prefix \in 1..Len(plans)
               /\ mechanismAttempts[n].plan \in 1..plans[mechanismAttempts[n].prefix]
               /\ ComesBefore(mechanismAttempts[n].prefix, mechanismAttempts[n].plan, prefix + 1, 1)
    <3>1. /\ mechanismAttempts[n].prefix \in 1..Len(plans)
          /\ mechanismAttempts[n].plan \in 1..plans[mechanismAttempts[n].prefix]
          /\ ComesBefore(mechanismAttempts[n].prefix, mechanismAttempts[n].plan, prefix, plan)
      BY <1>2 DEF Covers
    <3> QED BY <3>1, <1>3
  <2>2. ASSUME NEW i \in 1..Len(plans), NEW j \in 1..plans[i], ComesBefore(i, j, prefix + 1, 1)
        PROVE  \E n \in 1..Len(mechanismAttempts) :
                 mechanismAttempts[n].prefix = i /\ mechanismAttempts[n].plan = j
    <3>1. ComesBefore(i, j, prefix, plan)
      BY <2>2, <1>3
    <3> QED BY <3>1, <1>2 DEF Covers
  <2>3. \A n, m \in 1..Len(mechanismAttempts) :
          mechanismAttempts[n].prefix = mechanismAttempts[m].prefix
            /\ mechanismAttempts[n].plan = mechanismAttempts[m].plan => n = m
    BY <1>2 DEF Covers
  <2> QED BY <2>1, <2>2, <2>3, Zenon DEF Covers
<1>5. MechBase'
  <2>1. prefix + 1 \in Nat \ {0} /\ 1 \in Nat \ {0}
    BY <1>2
  <2> QED BY <2>1, <1>1, <1>2, <1>4 DEF MechBase
<1>6. PlansSoFar(mechanismAttempts', mechanismPc')
      /\ \A n \in 1..Len(mechanismAttempts') : NoneConfirmed(mechanismAttempts'[n])
  BY <1>1, <1>2, ClosedIsUnconfirmed DEF PlansSoFar, Planning, Trying
<1> QED BY <1>1, <1>2, <1>5, <1>6, MechGoesOn

LEMMA MechBegins == ASSUME MechInv, Mechanism!Begin PROVE MechInv'
<1> DEFINE a == [prefix |-> prefix, plan |-> plan, prefix_check |-> "none",
                 solve |-> "none", status |-> "none", candidates |-> <<>>]
           old == mechanismAttempts
           N == Len(old)
           new == Append(old, a)
<1>1. /\ mechanismPc = "loop" /\ mechanismPc' = "prefix_check" /\ prefix <= Len(plans)
      /\ plan <= plans[prefix] /\ plan' = plan + 1 /\ mechanismAttempts' = new
      /\ UNCHANGED <<plans, prefix, mechanismStatus>>
  BY DEF Mechanism!Begin
<1>2. /\ old \in Seq(PlanTried) /\ plans \in Seq(Nat)
      /\ prefix \in Nat \ {0} /\ plan \in Nat \ {0}
      /\ Covers(old, plans, prefix, plan)
      /\ mechanismStatus = "running"
      /\ \A n \in 1..N : Closed(old[n])
  BY <1>1 DEF MechInv, MechBase, PlansSoFar
<1>3. /\ a \in PlanTried /\ a.prefix = prefix /\ a.plan = plan /\ a.candidates = <<>>
  BY <1>2 DEF PlanTried
<1> HIDE DEF a
<1>4. /\ new \in Seq(PlanTried) /\ Len(new) = N + 1 /\ N \in Nat
      /\ new[N + 1] = a /\ \A n \in 1..N : new[n] = old[n]
  BY <1>2, <1>3
<1>5. /\ \A n \in 1..N : /\ old[n].prefix \in 1..Len(plans)
                          /\ old[n].plan \in 1..plans[old[n].prefix]
                          /\ ComesBefore(old[n].prefix, old[n].plan, prefix, plan)
      /\ \A i \in 1..Len(plans) : \A j \in 1..plans[i] :
           ComesBefore(i, j, prefix, plan) => \E n \in 1..N : old[n].prefix = i /\ old[n].plan = j
      /\ \A n, m \in 1..N : old[n].prefix = old[m].prefix /\ old[n].plan = old[m].plan => n = m
  BY <1>2 DEF Covers
<1> HIDE DEF old, N, new
<1>6. \A i, j \in Nat : ComesBefore(i, j, prefix, plan + 1)
                         <=> ComesBefore(i, j, prefix, plan) \/ (i = prefix /\ j = plan)
  BY <1>2 DEF ComesBefore
<1>7. ~ComesBefore(prefix, plan, prefix, plan)
  BY <1>2 DEF ComesBefore
<1>8. prefix \in 1..Len(plans) /\ plan \in 1..plans[prefix] /\ \A i \in 1..Len(plans) : plans[i] \in Nat
  BY <1>1, <1>2
<1>9. \A n \in 1..N : old[n].prefix \in Nat /\ old[n].plan \in Nat
  BY <1>5, <1>8
<1>10. \A n \in 1..N + 1 : n \in 1..N \/ n = N + 1
  BY <1>4
<1>11. Covers(new, plans, prefix, plan + 1)
  <2>1. ASSUME NEW n \in 1..N + 1
        PROVE  /\ new[n].prefix \in 1..Len(plans) /\ new[n].plan \in 1..plans[new[n].prefix]
               /\ ComesBefore(new[n].prefix, new[n].plan, prefix, plan + 1)
    <3>1. CASE n \in 1..N
      BY <3>1, <1>4, <1>5, <1>6, <1>9
    <3>2. CASE n = N + 1
      BY <3>2, <1>2, <1>3, <1>4, <1>6, <1>8
    <3> QED BY <3>1, <3>2, <1>10
  <2>2. ASSUME NEW i \in 1..Len(plans), NEW j \in 1..plans[i],
               ComesBefore(i, j, prefix, plan + 1)
        PROVE  \E n \in 1..N + 1 : new[n].prefix = i /\ new[n].plan = j
    <3>1. i \in Nat /\ j \in Nat
      BY <1>8
    <3>2. CASE i = prefix /\ j = plan
      <4>1. N + 1 \in 1..N + 1
        BY <1>4
      <4> QED BY <3>2, <4>1, <1>3, <1>4
    <3>3. CASE ComesBefore(i, j, prefix, plan)
      <4>1. PICK n \in 1..N : old[n].prefix = i /\ old[n].plan = j
        BY <3>3, <1>5
      <4>2. n \in 1..N + 1 /\ new[n] = old[n]
        BY <1>4
      <4> QED BY <4>1, <4>2
    <3> QED BY <3>1, <3>2, <3>3, <2>2, <1>6
  <2>3. ASSUME NEW n \in 1..N + 1, NEW m \in 1..N + 1,
               new[n].prefix = new[m].prefix, new[n].plan = new[m].plan
        PROVE  n = m
    <3>1. ASSUME NEW l \in 1..N PROVE ~(new[l].prefix = prefix /\ new[l].plan = plan)
      BY <1>4, <1>5, <1>7
    <3>2. CASE n \in 1..N /\ m \in 1..N
      <4>1. new[n] = old[n] /\ new[m] = old[m]
        BY <3>2, <1>4
      <4> QED BY <3>2, <4>1, <2>3, <1>5
    <3>3. CASE n = N + 1 \/ m = N + 1
      BY <3>1, <3>3, <2>3, <1>3, <1>4, <1>10
    <3> QED BY <3>2, <3>3, <1>10
  <2>4. 1..Len(new) = 1..N + 1
    BY <1>4
  <2>5. /\ \A n \in 1..Len(new) :
             /\ new[n].prefix \in 1..Len(plans) /\ new[n].plan \in 1..plans[new[n].prefix]
             /\ ComesBefore(new[n].prefix, new[n].plan, prefix, plan + 1)
        /\ \A n, m \in 1..Len(new) :
             new[n].prefix = new[m].prefix /\ new[n].plan = new[m].plan => n = m
    BY <2>1, <2>3, <2>4
  <2>6. \A i \in 1..Len(plans) : \A j \in 1..plans[i] :
          ComesBefore(i, j, prefix, plan + 1) =>
            \E n \in 1..Len(new) : new[n].prefix = i /\ new[n].plan = j
    <3> SUFFICES ASSUME NEW i \in 1..Len(plans), NEW j \in 1..plans[i],
                        ComesBefore(i, j, prefix, plan + 1)
                 PROVE  \E n \in 1..Len(new) : new[n].prefix = i /\ new[n].plan = j
      OBVIOUS
    <3>1. PICK n \in 1..N + 1 : new[n].prefix = i /\ new[n].plan = j
      BY <2>2
    <3> QED BY <3>1, <2>4
  <2> QED BY <2>5, <2>6, Zenon DEF Covers
<1>12. MechBase'
  <2>1. plan + 1 \in Nat \ {0}
    BY <1>2
  <2> QED BY <2>1, <1>1, <1>2, <1>4, <1>11 DEF MechBase
<1>13. OpenPlan(a, "prefix_check") /\ NoneConfirmed(a)
  BY <1>3 DEF OpenPlan, NoneConfirmed, Trying
<1>14. /\ PlansSoFar(new, "prefix_check")
       /\ \A n \in 1..Len(new) : NoneConfirmed(new[n])
  <2>1. \A n \in 1..Len(new) : n < Len(new) => Closed(new[n])
    BY <1>2, <1>4
  <2>2. \A n \in 1..Len(new) : n < Len(new) \/ n = N + 1
    BY <1>4
  <2>3. Len(new) > 0 /\ new[Len(new)] = a
    BY <1>4
  <2> QED BY <2>1, <2>2, <2>3, <1>4, <1>13, ClosedIsUnconfirmed DEF PlansSoFar
<1>15. mechanismPc' \in Planning /\ mechanismPc' # "prepare"
  BY <1>1 DEF Planning
<1> QED BY <1>1, <1>2, <1>12, <1>14, <1>15, MechGoesOn

LEMMA MechSteps ==
  ASSUME Mechanism!MechanismAssumption, MechInv, [Mechanism!Next]_mechanismVars PROVE MechInv'
<1>1. CASE Mechanism!DeadlinePasses \/ UNCHANGED mechanismVars
  <2>1. UNCHANGED <<mechanismPc, plans, prefix, plan, mechanismAttempts, mechanismStatus>>
    BY <1>1 DEF Mechanism!DeadlinePasses, mechanismVars
  <2>2. MechBase'
    BY <2>1 DEF MechInv, MechBase
  <2>3. Mechanism!NoCandidateWentThrough'
    <3>1. Mechanism!Tried' = Mechanism!Tried /\ Mechanism!Planned' = Mechanism!Planned
      BY <2>1 DEF Mechanism!Tried, Mechanism!Planned
    <3>2. Mechanism!NoCandidateWentThrough
      BY DEF MechInv
    <3> QED BY <2>1, <3>1, <3>2, Zenon DEF Mechanism!NoCandidateWentThrough
  <2>4. Mechanism!ConfirmedInFourReplays'
    BY <2>1 DEF MechInv, Mechanism!ConfirmedInFourReplays
  <2> QED BY <2>1, <2>2, <2>3, <2>4 DEF MechInv
<1>2. CASE Mechanism!BudgetExhausted
  <2>1. mechanismPc # "done" /\ UNCHANGED mechanismAttempts
        /\ Mechanism!Report("solve_budget_exhausted")
    BY <1>2 DEF Mechanism!BudgetExhausted
  <2> QED BY <2>1, MechGivesUp
<1>3. CASE Mechanism!Raises
  <2>1. PICK s \in Mechanism!Raised :
          mechanismPc # "done" /\ UNCHANGED mechanismAttempts /\ Mechanism!Report(s)
    BY <1>3 DEF Mechanism!Raises
  <2>2. s \notin {"safety_confirmed", "no_candidate"}
    BY DEF Mechanism!Raised
  <2> QED BY <2>1, <2>2, MechGivesUp
<1>4. CASE Mechanism!RepairedRegression
  <2>1. mechanismPc # "done" /\ UNCHANGED mechanismAttempts
        /\ Mechanism!Report("repaired_regression_failure")
    BY <1>4 DEF Mechanism!RepairedRegression
  <2> QED BY <2>1, MechGivesUp
<1> QED BY <1>1, <1>2, <1>3, <1>4, MechPrepared, MechNextPrefix, MechBegins, WentThrough,
       PrefixChecked, Solved, FlawedReplayed, FlawedValidated, RepairedReplayed, FinallyConfirmed
     DEF Mechanism!Next

LEMMA MechAnswers ==
  ASSUME MechInv PROVE Mechanism!NoCandidateWentThrough /\ Mechanism!ConfirmedInFourReplays
BY DEF MechInv

----------------------------------------------------------------------------
(* The row of a Stage 5 audit *)

\* The first call after which the property does not hold.
LEMMA FirstFails ==
  ASSUME NEW h \in Seq(BOOLEAN)
  PROVE  /\ Stage5!First(h) \in 0..Len(h)
         /\ Stage5!First(h) = 0 => \A i \in 1..Len(h) : h[i]
         /\ Stage5!First(h) # 0 =>
              ~h[Stage5!First(h)] /\ \A i \in 1..Len(h) : i < Stage5!First(h) => h[i]
<1> DEFINE S == {i \in 1..Len(h) : ~h[i]}
<1>1. DOMAIN h = 1..Len(h)
  OBVIOUS
<1>2. CASE S = {}
  <2>1. \A i \in 1..Len(h) : h[i]
    BY <1>2
  <2> QED BY <1>1, <2>1 DEF Stage5!First
<1>3. CASE S # {}
  <2>1. S \subseteq Nat
    OBVIOUS
  <2>2. \E m \in S : \A j \in S : m <= j
    <3> HIDE DEF S
    <3> QED BY <1>3, <2>1, LeastIs
  <2>3. \E n \in DOMAIN h : ~h[n] /\ \A m \in DOMAIN h : ~h[m] => n <= m
    BY <1>1, <2>2
  <2>4. /\ Stage5!First(h) \in 1..Len(h) /\ ~h[Stage5!First(h)]
        /\ \A m \in 1..Len(h) : ~h[m] => Stage5!First(h) <= m
    BY <1>1, <2>3 DEF Stage5!First
  <2> QED BY <2>4
<1> QED BY <1>2, <1>3

\* The calls of a proposal after its prefix.
LEMMA SuffixIs ==
  ASSUME Stage5!Stage5AuditAssumption, NEW h \in Seq(BOOLEAN), Len(h) >= PrefixLength
  PROVE  /\ Stage5!Suffix(h) \in Seq(BOOLEAN) /\ Len(Stage5!Suffix(h)) = Len(h) - PrefixLength
         /\ \A i \in 1..Len(h) - PrefixLength : Stage5!Suffix(h)[i] = h[PrefixLength + i]
<1>1. PrefixLength \in Nat \ {0} /\ Len(h) \in Nat
  BY DEF Stage5!Stage5AuditAssumption
<1> QED BY <1>1 DEF Stage5!Suffix

Statuses == {"candidate_rejected", "repaired_regression_failure", "confirmed"}

\* What is recorded of a query whose files are in order.
RecordOf(c) ==
  [query |-> c, status |-> Stage5!Result(c), assigned |-> c, model |-> c,
   foundry |-> Stage5!Suffix(Holds[c]), native |-> [calls |-> c, holds |-> Holds[c]],
   repaired_foundry |-> Stage5!Suffix(RepairedHolds[c]),
   repaired_native |-> [calls |-> c, holds |-> RepairedHolds[c]]]
RefOf(c) ==
  [query |-> c, status |-> Stage5!Result(c), length |-> Len(Holds[c]) - PrefixLength]

\* The logs of a query are believed only if they show what its calls do.
Faithful(q, c) ==
  q.query = c /\ Stage5!CandidateHolds(q) => Stage5!First(q.native.holds) = Stage5!First(Holds[c])

\* A confirmed query that agrees with its reference is believed, and rightly.
Believable(q, ref) ==
  q.query = ref.query /\ q.status = ref.status /\ q.status = "confirmed" /\ Stage5!CandidateHolds(q)
    => /\ Stage5!Result(q.query) = "confirmed"
       /\ Stage5!First(q.native.holds) = Stage5!First(Holds[q.query])

\* What a proposal does, and what is recorded of it.
LEMMA ProposalIs ==
  ASSUME Stage5!Stage5AuditAssumption, NEW c \in Proposals
  PROVE  /\ c \in DOMAIN Holds /\ Holds[c] \in Seq(BOOLEAN) /\ RepairedHolds[c] \in Seq(BOOLEAN)
         /\ Len(Holds[c]) \in PrefixLength + 1..PrefixLength + 2 /\ PrefixLength \in Nat \ {0}
         /\ Len(RepairedHolds[c]) = Len(Holds[c])
         /\ Stage5!Result(c) \in Statuses
         /\ Stage5!First(Holds[c]) \in Nat /\ Stage5!First(RepairedHolds[c]) \in Nat
         /\ Stage5!Result(c) = "confirmed" <=>
              Stage5!First(Holds[c]) # 0 /\ Stage5!First(RepairedHolds[c]) = 0
         /\ Stage5!First(Holds[c]) # 0 =>
              (Stage5!First(Holds[c]) = PrefixLength + 2 <=> Stage5!Suffix(Holds[c])[1])
<1>1. /\ c \in DOMAIN Holds /\ Holds[c] \in Seq(BOOLEAN) /\ RepairedHolds[c] \in Seq(BOOLEAN)
      /\ Len(Holds[c]) \in PrefixLength + 1..PrefixLength + 2 /\ PrefixLength \in Nat \ {0}
      /\ Len(RepairedHolds[c]) = Len(Holds[c])
      /\ \A n \in 1..PrefixLength : Holds[c][n]
  BY DEF Stage5!Stage5AuditAssumption
<1>2. Stage5!First(Holds[c]) \in Nat /\ Stage5!First(RepairedHolds[c]) \in Nat
  BY <1>1, FirstFails
<1>3. /\ Stage5!Result(c) \in Statuses
      /\ Stage5!Result(c) = "confirmed" <=>
           Stage5!First(Holds[c]) # 0 /\ Stage5!First(RepairedHolds[c]) = 0
  BY DEF Stage5!Result, Statuses
<1>4. ASSUME Stage5!First(Holds[c]) # 0
      PROVE  Stage5!First(Holds[c]) = PrefixLength + 2 <=> Stage5!Suffix(Holds[c])[1]
  <2> DEFINE h == Holds[c]
             first == Stage5!First(h)
  <2>1. h \in Seq(BOOLEAN) /\ Len(h) \in PrefixLength + 1..PrefixLength + 2
        /\ \A n \in 1..PrefixLength : h[n]
    BY <1>1
  <2> HIDE DEF h
  <2>2. first \in 1..Len(h) /\ ~h[first] /\ \A i \in 1..Len(h) : i < first => h[i]
    BY <1>4, <2>1, FirstFails DEF h
  <2>3. Stage5!Suffix(h)[1] = h[PrefixLength + 1]
    BY <2>1, <1>1, SuffixIs
  <2> HIDE DEF first
  <2>4. first \notin 1..PrefixLength
    BY <2>1, <2>2, Zenon
  <2>5. PrefixLength \in Nat \ {0} /\ Len(h) \in PrefixLength + 1..PrefixLength + 2
        /\ first \in 1..Len(h)
    BY <2>1, <2>2, <1>1
  <2>6. /\ first \in {PrefixLength + 1, PrefixLength + 2}
        /\ PrefixLength + 1 # PrefixLength + 2
        /\ first = PrefixLength + 2 => PrefixLength + 1 \in 1..Len(h) /\ PrefixLength + 1 < first
    BY ONLY <2>4, <2>5
  <2>7. first = PrefixLength + 2 => h[PrefixLength + 1]
    BY <2>2, <2>6, Zenon
  <2>8. first = PrefixLength + 1 => ~h[PrefixLength + 1]
    BY <2>2, Zenon
  <2>9. first = PrefixLength + 2 <=> h[PrefixLength + 1]
    BY ONLY <2>6, <2>7, <2>8, Zenon
  <2> QED BY <2>3, <2>9, Zenon DEF h, first
<1> QED BY <1>1, <1>2, <1>3, <1>4

LEMMA AskedIsBelievable == ASSUME NEW c, NEW ref PROVE Believable(RecordOf(c), ref)
BY DEF Believable, RecordOf

\* One file of the query was overwritten.
OtherRun(q, c) ==
  \E d : \E l \in Seq(BOOLEAN) :
    /\ Len(l) = Len(Stage5!Suffix(Holds[c]))
    /\ q = [RecordOf(c) EXCEPT !.native =
              [calls |-> d, holds |-> [n \in 1..PrefixLength |-> TRUE] \o l]]
Spoilt(q, c) ==
  \/ \E s, d, e : q = [RecordOf(c) EXCEPT !.query = e, !.status = s, !.assigned = d]
  \/ \E d : q = [RecordOf(c) EXCEPT !.model = d]
  \/ \E l : q = [RecordOf(c) EXCEPT !.foundry = l] \/ q = [RecordOf(c) EXCEPT !.repaired_foundry = l]
  \/ OtherRun(q, c)
  \/ \E r : q = [RecordOf(c) EXCEPT !.repaired_native = r]

\* Whichever file of a query is overwritten, what is believed of it is true.
LEMMA SpoiltIsFaithful ==
  ASSUME Stage5!Stage5AuditAssumption, NEW c \in Proposals, NEW q, Spoilt(q, c)
  PROVE  Faithful(q, c)
<1>1. CASE OtherRun(q, c)
  <2>1. PICK d : \E l \in Seq(BOOLEAN) :
          /\ Len(l) = Len(Stage5!Suffix(Holds[c]))
          /\ q = [RecordOf(c) EXCEPT !.native =
                    [calls |-> d, holds |-> [n \in 1..PrefixLength |-> TRUE] \o l]]
    BY <1>1 DEF OtherRun
  <2>2. PICK l \in Seq(BOOLEAN) :
          /\ Len(l) = Len(Stage5!Suffix(Holds[c]))
          /\ q = [RecordOf(c) EXCEPT !.native =
                    [calls |-> d, holds |-> [n \in 1..PrefixLength |-> TRUE] \o l]]
    BY <2>1
  <2> DEFINE h == [n \in 1..PrefixLength |-> TRUE] \o l
             k == Holds[c]
  <2>3. q = [RecordOf(c) EXCEPT !.native = [calls |-> d, holds |-> h]]
    BY <2>2
  <2>4. h = [n \in 1..PrefixLength |-> TRUE] \o l
    OBVIOUS
  <2> HIDE DEF h
  <2>5. q.native.holds = h /\ q.foundry = Stage5!Suffix(k)
    BY <2>3 DEF RecordOf
  <2>6. /\ k \in Seq(BOOLEAN) /\ PrefixLength \in Nat
        /\ PrefixLength <= Len(k)
    <3>1. /\ Holds[c] \in Seq(BOOLEAN) /\ PrefixLength \in Nat \ {0}
          /\ Len(Holds[c]) \in PrefixLength + 1..PrefixLength + 2
      BY ProposalIs
    <3>2. Len(k) \in PrefixLength + 1..PrefixLength + 2
      BY <3>1
    <3> HIDE DEF k
    <3>3. PrefixLength <= Len(k)
      BY <3>1, <3>2
    <3> QED BY <3>1, <3>3 DEF k
  <2>7. \A n \in 1..PrefixLength : k[n] = TRUE
    BY DEF Stage5!Stage5AuditAssumption
  <2> HIDE DEF k
  <2>8. Len(l) = Len(k) - PrefixLength
    BY <2>2, <2>6, SuffixIs DEF k
  <2>9. TRUE \in BOOLEAN
    OBVIOUS
  <2>10. h \in Seq(BOOLEAN) /\ Len(h) = PrefixLength + Len(l) /\ \A n \in 1..PrefixLength : h[n] = TRUE
    BY <2>4, <2>6, <2>9, Prefixed
  <2>11. Len(h) = Len(k)
    BY <2>6, <2>8, <2>10
  <2>12. \A n \in 1..PrefixLength : h[n] = k[n]
    BY <2>7, <2>10, Zenon
  <2>13. Stage5!Suffix(h) = Stage5!Suffix(k) => h = k
    BY <2>6, <2>10, <2>11, <2>12, SameRest DEF Stage5!Suffix
  <2>14. Stage5!CandidateHolds(q) => h = k
    BY <2>5, <2>13 DEF Stage5!CandidateHolds
  <2> QED BY <2>5, <2>14 DEF Faithful, k
<1>2. CASE ~OtherRun(q, c)
  <2>1. q.native = [calls |-> c, holds |-> Holds[c]]
    BY <1>2 DEF RecordOf, Spoilt
  <2>2. q.native.holds = Holds[c]
    BY <2>1
  <2> QED BY <2>1, <2>2 DEF Faithful
<1> QED BY <1>1, <1>2

SlotRecord ==
  [status : Statuses \union {"running", "completed", "campaign_deadline"}, valid : BOOLEAN,
   decisions : Seq(Proposals),
   refs : Seq([query : Proposals, status : Statuses, length : Int]),
   confirmations : Seq([query : Proposals, first : Nat, two : BOOLEAN, imported : Proposals]),
   augmented : Nat, native : Nat, launched : Nat, search : Nat, stopped : Nat, charged : Nat]

QueryRecord ==
  [query : Proposals, status : Statuses, assigned : Proposals, model : Proposals,
   foundry : Seq(BOOLEAN), native : [calls : Proposals, holds : Seq(BOOLEAN)],
   repaired_foundry : Seq(BOOLEAN), repaired_native : [calls : Proposals, holds : Seq(BOOLEAN)]]
EventRecord ==
  [calls : DOMAIN Holds, holds : Seq(BOOLEAN), goal : BOOLEAN,
   kind : {"startup_replay", "mutation"}, offset : Nat]

\* A decision, its reference and its query belong together.
OneRecorded(q, ref, d) == ref = RefOf(d) /\ q = RecordOf(d)
QueriesRecorded(list, s, hurt) ==
  /\ Len(s.refs) = Len(list) /\ \A i \in 1..Len(list) : Believable(list[i], s.refs[i])
  /\ ~hurt => /\ Len(s.decisions) = Len(list)
              /\ \A i \in 1..Len(list) : OneRecorded(list[i], s.refs[i], s.decisions[i])

\* Only the last query may be confirmed, and then the slot has its confirmation.
NothingFound(s) ==
  s.confirmations = <<>> /\ \A i \in 1..Len(s.refs) : s.refs[i].status # "confirmed"
FoundLast(s) ==
  /\ Len(s.refs) > 0 /\ s.refs[Len(s.refs)].status = "confirmed"
  /\ s.confirmations = <<Stage5!Confirmation(s.decisions[Len(s.refs)])>>
  /\ \A i \in 1..Len(s.refs) : i < Len(s.refs) => s.refs[i].status # "confirmed"

Imports(w, s) ==
  {w[i] : i \in 1..Len(w)}
    \union {s.confirmations[i].imported : i \in 1..Len(s.confirmations)}

IsReplay(e) == e.kind = "startup_replay"
TrueEvent(e) == e.holds = Holds[e.calls] /\ e.goal = (Stage5!First(e.holds) # 0)
EventsUntil(list, s, t) == \A n \in 1..Len(list) : s.launched + s.search + list[n].offset <= t

\* What is left of the imports and what was replayed of them.
Replayed(list, imports, rest) ==
  /\ rest \subseteq imports
  /\ \A n \in 1..Len(list) : IsReplay(list[n]) => list[n].calls \in imports \ rest
  /\ \A s \in imports \ rest : \E n \in 1..Len(list) : IsReplay(list[n]) /\ list[n].calls = s
  /\ \A n, m \in 1..Len(list) :
       IsReplay(list[n]) /\ IsReplay(list[m]) /\ list[n].calls = list[m].calls => n = m

\* The search began after all that came before it; what the slot says of times.
Begun(s, t) ==
  /\ 1 <= s.augmented /\ s.augmented <= s.native /\ s.native <= s.launched
  /\ s.launched + s.search <= t
SlotTimed(at, s, t) ==
  /\ at \in {"symbolic", "native", "stopped"} => s.status = "running" /\ s.valid = FALSE
  /\ at = "native" => Begun(s, t)
  /\ at = "stopped" => Begun(s, t) /\ s.launched + s.stopped <= t
  /\ s.valid => /\ at \in {"ended", "audited"} /\ s.status = "completed"
                /\ Begun(s, Total5) /\ s.launched + s.stopped <= Total5

Ordered(at, w, list, s, events, rest, t) ==
  /\ Stage5!Violating(w) => list = <<>>
  /\ NothingFound(s) \/ FoundLast(s)
  /\ at = "symbolic" => events = <<>>
  /\ \A n \in 1..Len(events) : TrueEvent(events[n])
  /\ at = "native" => EventsUntil(events, s, t)
  /\ at = "stopped" \/ s.valid => EventsUntil(events, s, s.launched + s.stopped)
  /\ Replayed(events, Imports(w, s), rest)

RowBase ==
  /\ phase \in {"symbolic", "native", "stopped", "ended", "audited"} /\ damaged \in BOOLEAN
  /\ now \in Nat \ {0} /\ warmup \in Warmups5
  /\ slot \in SlotRecord /\ queries \in Seq(QueryRecord) /\ stream \in Seq(EventRecord)
  /\ phase \in {"symbolic", "native", "stopped"} => damaged = FALSE
  /\ QueriesRecorded(queries, slot, damaged) /\ (~damaged => SlotTimed(phase, slot, now))

RowInv ==
  /\ RowBase
  /\ ~damaged => Ordered(phase, warmup, queries, slot, stream, pending, now)
  /\ phase = "audited" => slot.valid
  /\ Stage5!ConfirmedIsReal /\ Stage5!AuditedOnceReplayed /\ Stage5!FirstHitIsCause

LEMMA RowStarts == ASSUME Stage5!Stage5AuditAssumption, Stage5!Init PROVE RowInv
<1>1. RowBase
  <2>1. slot \in SlotRecord
    BY DEF Stage5!Init, SlotRecord
  <2>2. queries \in Seq(QueryRecord) /\ stream \in Seq(EventRecord)
    BY DEF Stage5!Init
  <2>3. QueriesRecorded(queries, slot, damaged)
    BY DEF Stage5!Init, QueriesRecorded
  <2>4. SlotTimed(phase, slot, now)
    BY DEF Stage5!Init, SlotTimed
  <2>5. now \in Nat \ {0}
    BY DEF Stage5!Init
  <2> QED BY <2>1, <2>2, <2>3, <2>4, <2>5 DEF RowBase, Stage5!Init
<1>2. warmup \in Seq(DOMAIN Holds)
  BY DEF Stage5!Init, Stage5!Stage5AuditAssumption
<1>3. Imports(warmup, slot) = pending
  BY <1>2 DEF Imports, Stage5!Init, Stage5!Range
<1>4. Replayed(stream, Imports(warmup, slot), pending)
  BY <1>3 DEF Replayed, Stage5!Init
<1>5. Ordered(phase, warmup, queries, slot, stream, pending, now)
  BY <1>4 DEF Ordered, Stage5!Init, NothingFound, EventsUntil
<1> QED BY <1>1, <1>5 DEF RowInv, Stage5!Init, Stage5!ConfirmedIsReal, Stage5!HasRow,
     Stage5!AuditedOnceReplayed, Stage5!FirstHitIsCause

\* Before the audit there is no row.
LEMMA RowToCome ==
  ASSUME phase' # "audited"
  PROVE  Stage5!ConfirmedIsReal' /\ Stage5!AuditedOnceReplayed' /\ Stage5!FirstHitIsCause'
BY DEF Stage5!ConfirmedIsReal, Stage5!HasRow, Stage5!AuditedOnceReplayed, Stage5!FirstHitIsCause

LEMMA AskedIs ==
  ASSUME Stage5!Stage5AuditAssumption, NEW c \in Proposals
  PROVE  /\ RecordOf(c) \in QueryRecord
         /\ RefOf(c) \in [query : Proposals, status : Statuses, length : Int]
         /\ Stage5!Confirmation(c) \in
              [query : Proposals, first : Nat, two : BOOLEAN, imported : Proposals]
<1>1. /\ Holds[c] \in Seq(BOOLEAN) /\ RepairedHolds[c] \in Seq(BOOLEAN)
      /\ Len(Holds[c]) \in PrefixLength + 1..PrefixLength + 2 /\ PrefixLength \in Nat \ {0}
      /\ Len(RepairedHolds[c]) = Len(Holds[c])
      /\ Stage5!Result(c) \in Statuses /\ Stage5!First(Holds[c]) \in Nat
  BY ProposalIs
<1>2. Len(Holds[c]) \in Nat /\ Len(Holds[c]) >= PrefixLength /\ Len(RepairedHolds[c]) >= PrefixLength
  BY <1>1
<1>3. Stage5!Suffix(Holds[c]) \in Seq(BOOLEAN) /\ Stage5!Suffix(RepairedHolds[c]) \in Seq(BOOLEAN)
  BY <1>1, <1>2, SuffixIs
<1>4. RecordOf(c) \in QueryRecord
  BY <1>1, <1>3 DEF RecordOf, QueryRecord
<1>5. Len(Holds[c]) - PrefixLength \in Int
  BY <1>1
<1>6. RefOf(c) \in [query : Proposals, status : Statuses, length : Int]
  BY <1>1, <1>5 DEF RefOf
<1>7. Stage5!Confirmation(c) \in
        [query : Proposals, first : Nat, two : BOOLEAN, imported : Proposals]
  BY <1>1 DEF Stage5!Confirmation
<1> QED BY <1>4, <1>6, <1>7

\* The records z are those of s and one more query, about c.
Grown(list, s, c, z) ==
  /\ QueriesRecorded(Append(list, RecordOf(c)), z, FALSE)
  /\ Len(z.refs) = Len(s.refs) + 1 /\ Len(s.refs) \in Nat
  /\ z.refs[Len(s.refs) + 1] = RefOf(c) /\ z.decisions[Len(s.refs) + 1] = c
  /\ \A i \in 1..Len(s.refs) : z.refs[i] = s.refs[i]

LEMMA RecordedGrows ==
  ASSUME Stage5!Stage5AuditAssumption, NEW c \in Proposals, NEW list \in Seq(QueryRecord),
         NEW s \in SlotRecord, QueriesRecorded(list, s, FALSE), NEW z,
         z.decisions = Append(s.decisions, c), z.refs = Append(s.refs, RefOf(c))
  PROVE  Grown(list, s, c, z)
<1> DEFINE N == Len(list)
           R == [query : Proposals, status : Statuses, length : Int]
           new == Append(list, RecordOf(c))
<1>1. s.refs \in Seq(R) /\ s.decisions \in Seq(Proposals) /\ N \in Nat
  BY DEF SlotRecord
<1>2. Len(s.refs) = N /\ Len(s.decisions) = N
      /\ \A i \in 1..N : OneRecorded(list[i], s.refs[i], s.decisions[i])
  BY DEF QueriesRecorded
<1>3. RecordOf(c) \in QueryRecord /\ RefOf(c) \in R
  BY AskedIs
<1> HIDE DEF R
<1>4. /\ Len(new) = N + 1 /\ new[N + 1] = RecordOf(c) /\ \A i \in 1..N : new[i] = list[i]
  BY <1>1, <1>3
<1>5. /\ Len(z.refs) = N + 1 /\ z.refs[N + 1] = RefOf(c) /\ \A i \in 1..N : z.refs[i] = s.refs[i]
  BY <1>1, <1>2, <1>3
<1>6. /\ Len(z.decisions) = N + 1 /\ z.decisions[N + 1] = c
      /\ \A i \in 1..N : z.decisions[i] = s.decisions[i]
  BY <1>1, <1>2
<1>7. OneRecorded(RecordOf(c), RefOf(c), c)
  BY DEF OneRecorded
<1>10. \A i \in 1..N + 1 : i \in 1..N \/ i = N + 1
  BY <1>1
<1> HIDE DEF new, N
<1>8. ASSUME NEW i \in 1..N + 1 PROVE OneRecorded(new[i], z.refs[i], z.decisions[i])
  <2>1. CASE i \in 1..N
    BY <2>1, <1>2, <1>4, <1>5, <1>6
  <2>2. CASE i = N + 1
    BY <2>2, <1>4, <1>5, <1>6, <1>7
  <2> QED BY <2>1, <2>2, <1>10
<1>11. ASSUME NEW i \in 1..N + 1 PROVE Believable(new[i], z.refs[i])
  <2>1. new[i] = RecordOf(z.decisions[i])
    BY <1>8 DEF OneRecorded
  <2> QED BY <2>1, AskedIsBelievable
<1>9. QueriesRecorded(new, z, FALSE)
  BY <1>4, <1>5, <1>6, <1>8, <1>11 DEF QueriesRecorded
<1> QED BY <1>1, <1>2, <1>5, <1>6, <1>9 DEF new, Grown

\* What only depends on what was asked and confirmed.
LEMMA SameFound ==
  ASSUME NEW s, NEW z, z.refs = s.refs, z.decisions = s.decisions,
         z.confirmations = s.confirmations
  PROVE  /\ NothingFound(z) <=> NothingFound(s)
         /\ FoundLast(z) <=> FoundLast(s)
         /\ \A w : Imports(w, z) = Imports(w, s)
         /\ \A list, hurt : QueriesRecorded(list, z, hurt) <=> QueriesRecorded(list, s, hurt)
BY DEF NothingFound, FoundLast, Imports, QueriesRecorded

\* The slot goes on in time.
LEMMA TimeGoesOn ==
  ASSUME now \in Nat \ {0}, now' \in Stage5!Later
  PROVE  now' \in Nat \ {0} /\ now <= now'
BY DEF Stage5!Later

\* A query that is not confirmed leaves nothing found; a confirmed one is the last.
LEMMA FoundGrows ==
  ASSUME NEW c, NEW s, NEW z, NothingFound(s), Len(s.refs) \in Nat,
         Len(z.refs) = Len(s.refs) + 1, z.refs[Len(s.refs) + 1] = RefOf(c),
         z.decisions[Len(s.refs) + 1] = c, \A i \in 1..Len(s.refs) : z.refs[i] = s.refs[i],
         z.confirmations = IF Stage5!Result(c) = "confirmed" THEN <<Stage5!Confirmation(c)>> ELSE <<>>
  PROVE  NothingFound(z) \/ FoundLast(z)
<1> DEFINE N == Len(s.refs)
<1>1. N \in Nat /\ Len(z.refs) = N + 1 /\ z.refs[N + 1].status = Stage5!Result(c)
      /\ z.decisions[N + 1] = c /\ \A i \in 1..N : z.refs[i].status # "confirmed"
  BY DEF NothingFound, RefOf
<1>2. \A i \in 1..N + 1 : i \in 1..N \/ i = N + 1
  BY <1>1
<1>3. \A i \in 1..N + 1 : i < N + 1 => i \in 1..N
  BY <1>1
<1>4. N + 1 > 0
  BY <1>1
<1> HIDE DEF N
<1>5. CASE Stage5!Result(c) = "confirmed"
  <2>1. z.confirmations = <<Stage5!Confirmation(c)>>
    BY <1>5
  <2> QED BY <1>1, <1>3, <1>4, <1>5, <2>1 DEF FoundLast
<1>6. CASE Stage5!Result(c) # "confirmed"
  <2>1. z.confirmations = <<>>
    BY <1>6
  <2> QED BY <1>1, <1>2, <1>6, <2>1 DEF NothingFound
<1> QED BY <1>5, <1>6

\* What is to be replayed is in the imports, and all imports are sequences.
LEMMA ImportsAre ==
  ASSUME Stage5!Stage5AuditAssumption, NEW w \in Warmups5, NEW s \in SlotRecord
  PROVE  Imports(w, s) \subseteq DOMAIN Holds
<1>1. w \in Seq(DOMAIN Holds) /\ Proposals \subseteq DOMAIN Holds
  BY DEF Stage5!Stage5AuditAssumption
<1>2. s.confirmations \in
        Seq([query : Proposals, first : Nat, two : BOOLEAN, imported : Proposals])
  BY DEF SlotRecord
<1>3. \A i \in 1..Len(w) : w[i] \in DOMAIN Holds
  BY <1>1
<1> DEFINE C == [query : Proposals, first : Nat, two : BOOLEAN, imported : Proposals]
<1>5. s.confirmations \in Seq(C)
  BY <1>2
<1> HIDE DEF C
<1>4. ASSUME NEW i \in 1..Len(s.confirmations) PROVE s.confirmations[i].imported \in Proposals
  <2>1. s.confirmations[i] \in C
    BY <1>5
  <2> QED BY <2>1 DEF C
<1> QED BY <1>1, <1>3, <1>4 DEF Imports

LEMMA NothingReplayed ==
  ASSUME NEW imports, NEW rest
  PROVE  Replayed(<<>>, imports, rest) <=> rest = imports
BY DEF Replayed

\* With nothing confirmed the warmup is imported; a confirmed candidate joins it.
LEMMA ImportsGrow ==
  ASSUME NEW w, NEW s, NEW z, s.confirmations = <<>>
  PROVE  /\ z.confirmations = <<>> => Imports(w, z) = Imports(w, s)
         /\ \A c : z.confirmations = <<Stage5!Confirmation(c)>> =>
              Imports(w, z) = Imports(w, s) \union {c}
BY DEF Imports, Stage5!Confirmation

LEMMA RowQuery ==
  ASSUME Stage5!Stage5AuditAssumption, RowInv, NEW c \in Proposals, Stage5!Query(c)
  PROVE  RowInv'
<1>1. /\ phase = "symbolic" /\ ~Stage5!Violating(warmup) /\ slot.confirmations = <<>>
      /\ now' \in Stage5!Later
      /\ warmup' = warmup /\ stream' = stream /\ damaged' = damaged
  BY DEF Stage5!Query
<1>2. /\ slot \in SlotRecord /\ queries \in Seq(QueryRecord) /\ stream = <<>> /\ damaged = FALSE
      /\ warmup \in Warmups5 /\ now \in Nat \ {0} /\ QueriesRecorded(queries, slot, FALSE)
      /\ slot.status = "running" /\ slot.valid = FALSE
      /\ NothingFound(slot) /\ Replayed(<<>>, Imports(warmup, slot), pending)
  <2>1. RowBase /\ damaged = FALSE /\ Ordered(phase, warmup, queries, slot, stream, pending, now)
    BY <1>1 DEF RowInv, RowBase
  <2>2. ~FoundLast(slot)
    BY <1>1 DEF FoundLast
  <2> QED BY <1>1, <2>1, <2>2 DEF RowBase, Ordered, SlotTimed
<1>3. queries' = Append(queries, RecordOf(c))
  BY DEF Stage5!Query, RecordOf
<1>4. pending = Imports(warmup, slot)
  BY <1>2, NothingReplayed
<1> DEFINE G == /\ slot' \in SlotRecord /\ slot'.valid = FALSE
                /\ slot'.decisions = Append(slot.decisions, c)
                /\ slot'.refs = Append(slot.refs, RefOf(c))
                /\ slot'.confirmations =
                     IF Stage5!Result(c) = "confirmed" THEN <<Stage5!Confirmation(c)>> ELSE <<>>
                /\ phase' \in {"symbolic", "ended"} /\ (phase' = "symbolic" => slot'.status = "running")
                /\ pending' = IF Stage5!Result(c) = "confirmed" THEN pending \union {c} ELSE pending
<1>5. G
  <2> DEFINE R == [query : Proposals, status : Statuses, length : Int]
             F == [query : Proposals, first : Nat, two : BOOLEAN, imported : Proposals]
             asked == [slot EXCEPT !.decisions = Append(@, c), !.refs = Append(@, RefOf(c))]
  <2>1. slot.decisions \in Seq(Proposals) /\ slot.refs \in Seq(R)
    BY <1>2 DEF SlotRecord
  <2>2. RefOf(c) \in R /\ Stage5!Confirmation(c) \in F /\ Stage5!Result(c) \in Statuses
    BY AskedIs, ProposalIs
  <2>3. Append(slot.decisions, c) \in Seq(Proposals) /\ Append(slot.refs, RefOf(c)) \in Seq(R)
        /\ <<Stage5!Confirmation(c)>> \in Seq(F)
    BY <2>1, <2>2
  <2>4. CASE Stage5!Result(c) = "confirmed"
    <3>1. /\ slot' = [asked EXCEPT !.confirmations = <<Stage5!Confirmation(c)>>]
          /\ pending' = pending \union {c} /\ phase' = phase
      BY <2>4 DEF Stage5!Query, RefOf
    <3> QED BY <1>1, <1>2, <2>3, <2>4, <3>1 DEF SlotRecord
  <2>5. CASE Stage5!Result(c) = "candidate_rejected"
    <3>1. slot' = asked /\ pending' = pending /\ phase' = phase
      BY <2>5 DEF Stage5!Query, RefOf
    <3> QED BY <1>1, <1>2, <2>3, <2>5, <3>1 DEF SlotRecord
  <2>6. CASE Stage5!Result(c) = "repaired_regression_failure"
    <3>1. slot' = [asked EXCEPT !.status = Stage5!Result(c)] /\ pending' = pending /\ phase' = "ended"
      BY <2>6 DEF Stage5!Query, RefOf
    <3> QED BY <1>1, <1>2, <2>2, <2>3, <2>6, <3>1 DEF SlotRecord
  <2> QED BY <2>2, <2>4, <2>5, <2>6 DEF Statuses
<1>6. /\ QueriesRecorded(queries', slot', FALSE)
      /\ Len(slot'.refs) = Len(slot.refs) + 1 /\ Len(slot.refs) \in Nat
      /\ slot'.refs[Len(slot.refs) + 1] = RefOf(c) /\ slot'.decisions[Len(slot.refs) + 1] = c
      /\ \A i \in 1..Len(slot.refs) : slot'.refs[i] = slot.refs[i]
  <2>1. slot'.decisions = Append(slot.decisions, c) /\ slot'.refs = Append(slot.refs, RefOf(c))
    BY <1>5
  <2>2. queries \in Seq(QueryRecord) /\ slot \in SlotRecord /\ QueriesRecorded(queries, slot, FALSE)
    BY <1>2
  <2> HIDE DEF G
  <2>3. Grown(queries, slot, c, slot')
    BY <2>1, <2>2, RecordedGrows
  <2> QED BY <1>3, <2>3 DEF Grown
<1>7. NothingFound(slot') \/ FoundLast(slot')
  BY <1>2, <1>5, <1>6, FoundGrows
<1>8. Imports(warmup, slot') = pending'
  BY <1>1, <1>4, <1>5, ImportsGrow
<1>9. RowBase'
  <2>1. queries' \in Seq(QueryRecord)
    BY <1>2, <1>3, AskedIs
  <2>2. SlotTimed(phase', slot', now')
    BY <1>5 DEF SlotTimed
  <2>3. now' \in Nat \ {0}
    BY <1>1, <1>2, TimeGoesOn
  <2> QED BY <1>1, <1>2, <1>5, <1>6, <2>1, <2>2, <2>3 DEF RowBase, RowInv
<1>10. Ordered(phase', warmup', queries', slot', stream', pending', now')
  <2>1. Replayed(stream', Imports(warmup', slot'), pending')
    BY <1>1, <1>2, <1>8, NothingReplayed
  <2>2. Stage5!Violating(warmup') => queries' = <<>>
    BY <1>1
  <2>3. phase' \notin {"native", "stopped"} /\ slot'.valid = FALSE /\ stream' = <<>>
    BY <1>1, <1>2, <1>5
  <2>4. \A n \in 1..Len(stream') : TrueEvent(stream'[n])
    BY <2>3
  <2> QED BY ONLY <1>7, <2>1, <2>2, <2>3, <2>4 DEF Ordered
<1> QED BY <1>5, <1>9, <1>10, RowToCome DEF RowInv

LEMMA RowNative ==
  ASSUME Stage5!Stage5AuditAssumption, RowInv, Stage5!NativeStarts
  PROVE  RowInv'
<1>1. PICK opened \in now..now', asked \in now..now', launched \in now..now' :
        /\ opened <= asked /\ asked <= launched
        /\ IF Total5 - asked <= EvidenceReserve
           THEN /\ phase' = "ended"
                /\ slot' = [slot EXCEPT !.status = "campaign_deadline", !.augmented = now,
                                        !.charged = now']
           ELSE /\ phase' = "native"
                /\ slot' = [slot EXCEPT !.augmented = now, !.native = opened,
                                        !.launched = launched, !.search = now' - launched]
  BY DEF Stage5!NativeStarts
<1>2. /\ phase = "symbolic" /\ now' \in Stage5!Later
      /\ warmup' = warmup /\ queries' = queries /\ pending' = pending /\ stream' = stream
      /\ damaged' = damaged
  BY DEF Stage5!NativeStarts
<1>3. RowBase /\ damaged = FALSE /\ Ordered(phase, warmup, queries, slot, stream, pending, now)
  BY <1>2 DEF RowInv, RowBase
<1>4. now \in Nat \ {0} /\ now' \in Nat \ {0} /\ now <= now'
  BY <1>2, <1>3, TimeGoesOn DEF RowBase
<1>5. slot \in SlotRecord /\ stream = <<>> /\ slot.status = "running" /\ slot.valid = FALSE
  BY <1>2, <1>3 DEF RowBase, Ordered, SlotTimed
<1>6. /\ slot' \in SlotRecord /\ slot'.refs = slot.refs /\ slot'.decisions = slot.decisions
      /\ slot'.confirmations = slot.confirmations /\ slot'.valid = slot.valid
      /\ phase' \in {"native", "ended"} /\ SlotTimed(phase', slot', now')
  <2>1. CASE Total5 - asked <= EvidenceReserve
    <3>1. phase' = "ended" /\ slot' = [slot EXCEPT !.status = "campaign_deadline",
                                        !.augmented = now, !.charged = now']
      BY <1>1, <2>1
    <3>2. now \in Nat /\ now' \in Nat
      BY <1>4
    <3>3. /\ slot' \in SlotRecord /\ slot'.refs = slot.refs /\ slot'.decisions = slot.decisions
          /\ slot'.confirmations = slot.confirmations /\ slot'.valid = slot.valid
      BY <1>5, <3>1, <3>2 DEF SlotRecord
    <3> QED BY <1>5, <3>1, <3>3 DEF SlotTimed
  <2>2. CASE ~(Total5 - asked <= EvidenceReserve)
    <3>1. phase' = "native" /\ slot' = [slot EXCEPT !.augmented = now, !.native = opened,
                                        !.launched = launched, !.search = now' - launched]
      BY <1>1, <2>2
    <3>2. /\ now \in Nat /\ opened \in Nat /\ launched \in Nat /\ now' - launched \in Nat
          /\ 1 <= now /\ now <= opened /\ opened <= launched
          /\ launched + (now' - launched) <= now'
      BY <1>1, <1>4
    <3>3. /\ slot' \in SlotRecord /\ slot'.refs = slot.refs /\ slot'.decisions = slot.decisions
          /\ slot'.confirmations = slot.confirmations /\ slot'.valid = slot.valid
          /\ slot'.status = slot.status /\ slot'.augmented = now /\ slot'.native = opened
          /\ slot'.launched = launched /\ slot'.search = now' - launched
      BY <1>5, <3>1, <3>2 DEF SlotRecord
    <3>4. Begun(slot', now')
      BY <3>2, <3>3 DEF Begun
    <3> QED BY <1>5, <3>1, <3>3, <3>4 DEF SlotTimed
  <2> QED BY <2>1, <2>2
<1>7. RowBase'
  <2>1. QueriesRecorded(queries', slot', damaged')
    BY <1>2, <1>3, <1>6, SameFound DEF RowBase
  <2> QED BY <1>2, <1>3, <1>4, <1>6, <2>1 DEF RowBase
<1>8. Ordered(phase', warmup', queries', slot', stream', pending', now')
  <2>1. Replayed(stream', Imports(warmup', slot'), pending')
    BY <1>2, <1>3, <1>6, SameFound DEF Ordered
  <2>2. NothingFound(slot') \/ FoundLast(slot')
    BY <1>3, <1>6, SameFound DEF Ordered
  <2> QED BY <1>2, <1>3, <1>5, <1>6, <2>1, <2>2 DEF Ordered, EventsUntil
<1> QED BY <1>2, <1>6, <1>7, <1>8, RowToCome DEF RowInv

\* One more event of the native search, which is true.
LEMMA EventsGrow ==
  ASSUME NEW list \in Seq(EventRecord), NEW e \in EventRecord, NEW s \in SlotRecord,
         NEW t \in Nat, NEW u \in Nat, t <= u, EventsUntil(list, s, t),
         s.launched + s.search + e.offset <= u,
         TrueEvent(e), \A n \in 1..Len(list) : TrueEvent(list[n])
  PROVE  /\ Append(list, e) \in Seq(EventRecord)
         /\ EventsUntil(Append(list, e), s, u)
         /\ \A n \in 1..Len(Append(list, e)) : TrueEvent(Append(list, e)[n])
<1> DEFINE N == Len(list)
           new == Append(list, e)
<1>1. N \in Nat /\ new \in Seq(EventRecord) /\ Len(new) = N + 1 /\ new[N + 1] = e
      /\ \A n \in 1..N : new[n] = list[n] /\ list[n] \in EventRecord
  OBVIOUS
<1>2. \A n \in 1..N + 1 : n \in 1..N \/ n = N + 1
  BY <1>1
<1>3. s.launched \in Nat /\ s.search \in Nat
  BY DEF SlotRecord
<1>4. ASSUME NEW n \in 1..N PROVE s.launched + s.search + list[n].offset <= u
  <2>1. list[n].offset \in Nat /\ s.launched + s.search + list[n].offset <= t
    BY <1>1 DEF EventsUntil, EventRecord
  <2> QED BY <1>3, <2>1
<1> HIDE DEF new, N
<1>5. EventsUntil(new, s, u)
  BY <1>1, <1>2, <1>4 DEF EventsUntil
<1>6. \A n \in 1..Len(new) : TrueEvent(new[n])
  BY <1>1, <1>2 DEF N
<1> QED BY <1>1, <1>5, <1>6 DEF new

\* A replay of what was pending, or a sequence that is no replay.
LEMMA ReplaysGrow ==
  ASSUME NEW list \in Seq(EventRecord), NEW e \in EventRecord, NEW imports, NEW rest,
         Replayed(list, imports, rest), IsReplay(e) <=> rest # {}, IsReplay(e) => e.calls \in rest
  PROVE  Replayed(Append(list, e), imports, rest \ {e.calls})
<1> DEFINE N == Len(list)
           new == Append(list, e)
           remaining == rest \ {e.calls}
<1>1. N \in Nat /\ Len(new) = N + 1 /\ new[N + 1] = e /\ \A n \in 1..N : new[n] = list[n]
  OBVIOUS
<1>2. (\A n \in 1..N + 1 : n \in 1..N \/ n = N + 1) /\ \A n \in 1..N : n \in 1..N + 1
  BY <1>1
<1>3. N + 1 \in 1..N + 1
  BY <1>1
<1>4. /\ rest \subseteq imports
      /\ \A n \in 1..N : IsReplay(list[n]) => list[n].calls \in imports \ rest
      /\ \A s \in imports \ rest : \E n \in 1..N : IsReplay(list[n]) /\ list[n].calls = s
      /\ \A n, m \in 1..N :
           IsReplay(list[n]) /\ IsReplay(list[m]) /\ list[n].calls = list[m].calls => n = m
  BY DEF Replayed
<1> HIDE DEF N, new
<1>5. remaining \subseteq imports
  BY <1>4
<1>6. ASSUME NEW n \in 1..N + 1, IsReplay(new[n]) PROVE new[n].calls \in imports \ remaining
  BY <1>1, <1>2, <1>4, <1>6
<1>7. ASSUME NEW s \in imports \ remaining
      PROVE  \E n \in 1..N + 1 : IsReplay(new[n]) /\ new[n].calls = s
  <2>1. CASE s \in rest
    <3>1. s = e.calls /\ IsReplay(e)
      BY <1>7, <2>1
    <3> QED BY <1>1, <1>3, <3>1
  <2>2. CASE s \notin rest
    BY <1>1, <1>2, <1>4, <1>7, <2>2
  <2> QED BY <2>1, <2>2
<1>8. ASSUME NEW n \in 1..N + 1, NEW m \in 1..N + 1,
             IsReplay(new[n]), IsReplay(new[m]), new[n].calls = new[m].calls
      PROVE  n = m
  <2>1. CASE n \in 1..N /\ m \in 1..N
    BY <1>1, <1>4, <1>8, <2>1
  <2>2. CASE n = N + 1 /\ m \in 1..N
    BY <1>1, <1>4, <1>8, <2>2
  <2>3. CASE n \in 1..N /\ m = N + 1
    BY <1>1, <1>4, <1>8, <2>3
  <2> QED BY <1>2, <2>1, <2>2, <2>3
<1> QED BY <1>1, <1>5, <1>6, <1>7, <1>8 DEF Replayed, new

LEMMA RowExecute ==
  ASSUME Stage5!Stage5AuditAssumption, RowInv, Stage5!Execute
  PROVE  RowInv'
<1>1. /\ phase = "native" /\ now' \in Stage5!Later
      /\ phase' = phase /\ warmup' = warmup /\ queries' = queries /\ slot' = slot
      /\ damaged' = damaged
  BY DEF Stage5!Execute
<1>2. RowBase /\ damaged = FALSE /\ Ordered(phase, warmup, queries, slot, stream, pending, now)
  BY <1>1 DEF RowInv, RowBase
<1>3. now \in Nat \ {0} /\ now' \in Nat \ {0} /\ now <= now'
  BY <1>1, <1>2, TimeGoesOn DEF RowBase
<1>4. /\ slot \in SlotRecord /\ stream \in Seq(EventRecord) /\ warmup \in Warmups5
      /\ slot.status = "running" /\ slot.valid = FALSE /\ Begun(slot, now)
      /\ slot.augmented \in Nat /\ slot.native \in Nat
      /\ slot.launched \in Nat /\ slot.search \in Nat /\ slot.launched + slot.search <= now
  BY <1>1, <1>2 DEF RowBase, SlotTimed, SlotRecord, Begun
<1>5. /\ EventsUntil(stream, slot, now) /\ \A n \in 1..Len(stream) : TrueEvent(stream[n])
      /\ Replayed(stream, Imports(warmup, slot), pending)
  BY <1>1, <1>2 DEF Ordered
<1> DEFINE kind == IF pending # {} THEN "startup_replay" ELSE "mutation"
           Event(s) == [calls |-> s, holds |-> Holds[s], goal |-> Stage5!First(Holds[s]) # 0,
                        kind |-> kind, offset |-> now' - slot.launched - slot.search]
<1>6. PICK s \in (IF pending # {} THEN pending ELSE Generated) :
        stream' = Append(stream, Event(s)) /\ pending' = pending \ {s}
  BY DEF Stage5!Execute
<1>7. s \in DOMAIN Holds
  <2>1. pending \subseteq DOMAIN Holds
    BY <1>4, <1>5, ImportsAre DEF Replayed
  <2>2. Generated \subseteq DOMAIN Holds
    BY DEF Stage5!Stage5AuditAssumption
  <2> QED BY <1>6, <2>1, <2>2
<1> DEFINE e == Event(s)
<1>8. e \in EventRecord /\ e.calls = s /\ TrueEvent(e)
      /\ slot.launched + slot.search + e.offset <= now'
      /\ (IsReplay(e) <=> pending # {})
  <2>1. /\ now' - slot.launched - slot.search \in Nat
        /\ slot.launched + slot.search + (now' - slot.launched - slot.search) <= now'
    BY <1>3, <1>4
  <2>2. Holds[s] \in Seq(BOOLEAN)
    BY <1>7 DEF Stage5!Stage5AuditAssumption
  <2>3. (Stage5!First(Holds[s]) # 0) \in BOOLEAN
    OBVIOUS
  <2>4. e \in EventRecord
    BY <1>7, <2>1, <2>2, <2>3 DEF EventRecord
  <2> QED BY <2>1, <2>4 DEF TrueEvent, IsReplay
<1>9. IsReplay(e) => e.calls \in pending
  BY <1>6, <1>8
<1>10. stream' = Append(stream, e) /\ pending' = pending \ {e.calls}
  BY <1>6
<1> HIDE DEF e
<1>11. /\ stream' \in Seq(EventRecord) /\ EventsUntil(stream', slot', now')
       /\ \A n \in 1..Len(stream') : TrueEvent(stream'[n])
  BY <1>1, <1>3, <1>4, <1>5, <1>8, <1>10, EventsGrow
<1>12. Replayed(stream', Imports(warmup', slot'), pending')
  BY <1>1, <1>4, <1>5, <1>8, <1>9, <1>10, ReplaysGrow
<1>13. RowBase'
  <2>1. Begun(slot', now')
    BY <1>1, <1>3, <1>4 DEF Begun
  <2>2. SlotTimed(phase', slot', now')
    BY <1>1, <1>4, <2>1 DEF SlotTimed
  <2> QED BY <1>1, <1>2, <1>3, <1>11, <2>2 DEF RowBase
<1>14. Ordered(phase', warmup', queries', slot', stream', pending', now')
  <2>1. /\ Stage5!Violating(warmup') => queries' = <<>>
        /\ NothingFound(slot') \/ FoundLast(slot')
    BY <1>1, <1>2 DEF Ordered
  <2> QED BY <1>1, <1>4, <1>11, <1>12, <2>1 DEF Ordered
<1> QED BY <1>1, <1>13, <1>14, RowToCome DEF RowInv

LEMMA RowStops ==
  ASSUME Stage5!Stage5AuditAssumption, RowInv, Stage5!NativeStops
  PROVE  RowInv'
<1>1. /\ phase = "native" /\ phase' = "stopped" /\ now' \in Stage5!Later
      /\ slot' = [slot EXCEPT !.stopped = now' - slot.launched]
      /\ warmup' = warmup /\ queries' = queries /\ pending' = pending /\ stream' = stream
      /\ damaged' = damaged
  BY DEF Stage5!NativeStops
<1>2. RowBase /\ damaged = FALSE /\ Ordered(phase, warmup, queries, slot, stream, pending, now)
  BY <1>1 DEF RowInv, RowBase
<1>3. now \in Nat \ {0} /\ now' \in Nat \ {0} /\ now <= now'
  BY <1>1, <1>2, TimeGoesOn DEF RowBase
<1>4. /\ slot \in SlotRecord /\ stream \in Seq(EventRecord) /\ Begun(slot, now)
      /\ slot.augmented \in Nat /\ slot.native \in Nat
      /\ slot.launched \in Nat /\ slot.search \in Nat /\ slot.launched + slot.search <= now
      /\ slot.status = "running" /\ slot.valid = FALSE
  BY <1>1, <1>2 DEF RowBase, SlotTimed, SlotRecord, Begun
<1>5. now' - slot.launched \in Nat /\ slot.launched + (now' - slot.launched) = now'
  BY <1>3, <1>4
<1>6. /\ slot' \in SlotRecord /\ slot'.augmented = slot.augmented /\ slot'.native = slot.native
      /\ slot'.launched = slot.launched /\ slot'.search = slot.search
      /\ slot'.stopped = now' - slot.launched
      /\ slot'.refs = slot.refs /\ slot'.decisions = slot.decisions
      /\ slot'.confirmations = slot.confirmations
      /\ slot'.status = slot.status /\ slot'.valid = slot.valid
  BY <1>1, <1>4, <1>5 DEF SlotRecord
<1>7. RowBase'
  <2>1. Begun(slot', now') /\ slot'.launched + slot'.stopped <= now'
    BY <1>3, <1>4, <1>5, <1>6 DEF Begun
  <2>2. SlotTimed(phase', slot', now')
    BY <1>1, <1>4, <1>6, <2>1 DEF SlotTimed
  <2>3. QueriesRecorded(queries', slot', damaged')
    BY <1>1, <1>2, <1>6, SameFound DEF RowBase
  <2> QED BY <1>1, <1>2, <1>3, <1>6, <2>2, <2>3 DEF RowBase
<1>8. EventsUntil(stream', slot', slot'.launched + slot'.stopped)
  <2>1. ASSUME NEW n \in 1..Len(stream)
        PROVE  slot.launched + slot.search + stream[n].offset <= now'
    <3>1. stream[n] \in EventRecord
      BY <1>4
    <3>2. stream[n].offset \in Nat
      BY <3>1 DEF EventRecord
    <3>3. slot.launched + slot.search + stream[n].offset <= now
      BY <1>1, <1>2 DEF Ordered, EventsUntil
    <3> QED BY <1>3, <1>4, <3>2, <3>3
  <2> QED BY <1>1, <1>5, <1>6, <2>1 DEF EventsUntil
<1>9. Ordered(phase', warmup', queries', slot', stream', pending', now')
  <2>1. Replayed(stream', Imports(warmup', slot'), pending')
    BY <1>1, <1>2, <1>6, SameFound DEF Ordered
  <2>2. NothingFound(slot') \/ FoundLast(slot')
    BY <1>2, <1>6, SameFound DEF Ordered
  <2> QED BY <1>1, <1>2, <1>4, <1>6, <1>8, <2>1, <2>2 DEF Ordered
<1> QED BY <1>1, <1>7, <1>9, RowToCome DEF RowInv

\* The slot is valid when the last stage ended in the budget.
LEMMA RowEnds ==
  ASSUME Stage5!Stage5AuditAssumption, RowInv, Stage5!SlotEnds
  PROVE  RowInv'
<1>1. PICK opened \in now..now', ended \in now..now' :
        slot' = IF opened >= Total5
                THEN [slot EXCEPT !.status = "campaign_deadline", !.charged = now']
                ELSE [slot EXCEPT !.status = "completed", !.valid = ended <= Total5,
                                  !.charged = now']
  BY DEF Stage5!SlotEnds
<1>2. /\ phase = "stopped" /\ phase' = "ended" /\ now' \in Stage5!Later
      /\ warmup' = warmup /\ queries' = queries /\ pending' = pending /\ stream' = stream
      /\ damaged' = damaged
  BY DEF Stage5!SlotEnds
<1>3. RowBase /\ damaged = FALSE /\ Ordered(phase, warmup, queries, slot, stream, pending, now)
  BY <1>2 DEF RowInv, RowBase
<1>4. now \in Nat \ {0} /\ now' \in Nat \ {0} /\ now <= now' /\ Total5 \in Nat
  BY <1>2, <1>3, TimeGoesOn DEF RowBase, Stage5!Stage5AuditAssumption
<1>5. /\ slot \in SlotRecord /\ slot.valid = FALSE /\ Begun(slot, now)
      /\ slot.launched \in Nat /\ slot.search \in Nat /\ slot.stopped \in Nat
      /\ slot.launched + slot.stopped <= now
  BY <1>2, <1>3 DEF RowBase, SlotTimed, SlotRecord
<1>6. (ended <= Total5) \in BOOLEAN /\ now' \in Nat
  BY <1>4
<1>7. /\ slot' \in SlotRecord /\ slot'.augmented = slot.augmented /\ slot'.native = slot.native
      /\ slot'.launched = slot.launched /\ slot'.search = slot.search
      /\ slot'.stopped = slot.stopped
      /\ slot'.refs = slot.refs /\ slot'.decisions = slot.decisions
      /\ slot'.confirmations = slot.confirmations
      /\ slot'.valid => slot'.status = "completed" /\ ended <= Total5
  <2>1. CASE opened >= Total5
    <3>1. slot' = [slot EXCEPT !.status = "campaign_deadline", !.charged = now']
      BY <1>1, <2>1
    <3> QED BY <1>5, <1>6, <3>1 DEF SlotRecord
  <2>2. CASE ~(opened >= Total5)
    <3>1. slot' = [slot EXCEPT !.status = "completed", !.valid = ended <= Total5, !.charged = now']
      BY <1>1, <2>2
    <3> QED BY <1>5, <1>6, <3>1 DEF SlotRecord
  <2> QED BY <2>1, <2>2
<1>8. RowBase'
  <2>1. slot'.valid => Begun(slot', Total5) /\ slot'.launched + slot'.stopped <= Total5
    <3>1. now <= ended /\ ended \in Int
      BY <1>4
    <3> QED BY <1>4, <1>5, <1>7, <3>1 DEF Begun
  <2>2. SlotTimed(phase', slot', now')
    BY <1>2, <1>7, <2>1 DEF SlotTimed
  <2>3. QueriesRecorded(queries', slot', damaged')
    BY <1>2, <1>3, <1>7, SameFound DEF RowBase
  <2> QED BY <1>2, <1>3, <1>4, <1>7, <2>2, <2>3 DEF RowBase
<1>9. Ordered(phase', warmup', queries', slot', stream', pending', now')
  <2>1. Replayed(stream', Imports(warmup', slot'), pending')
    BY <1>2, <1>3, <1>7, SameFound DEF Ordered
  <2>2. NothingFound(slot') \/ FoundLast(slot')
    BY <1>3, <1>7, SameFound DEF Ordered
  <2>3. EventsUntil(stream', slot', slot'.launched + slot'.stopped)
    BY <1>2, <1>3, <1>7 DEF Ordered, EventsUntil
  <2> QED BY <1>2, <1>3, <2>1, <2>2, <2>3 DEF Ordered
<1> QED BY <1>2, <1>8, <1>9, RowToCome DEF RowInv

\* Overwriting one query leaves the others as they are, and what is believed true.
LEMMA QuerySpoilt ==
  ASSUME Stage5!Stage5AuditAssumption, NEW list \in Seq(QueryRecord), NEW s \in SlotRecord,
         QueriesRecorded(list, s, FALSE), NEW i \in 1..Len(list), NEW q \in QueryRecord,
         Spoilt(q, list[i].query), NEW new, new = [list EXCEPT ![i] = q]
  PROVE  new \in Seq(QueryRecord) /\ QueriesRecorded(new, s, TRUE)
<1>1. new \in Seq(QueryRecord) /\ Len(new) = Len(list) /\ new[i] = q
      /\ \A j \in 1..Len(list) : j # i => new[j] = list[j]
  OBVIOUS
<1>2. /\ Len(s.refs) = Len(list) /\ Len(s.decisions) = Len(list)
      /\ \A j \in 1..Len(list) : Believable(list[j], s.refs[j])
      /\ OneRecorded(list[i], s.refs[i], s.decisions[i])
  BY DEF QueriesRecorded
<1>3. s.decisions \in Seq(Proposals)
  BY DEF SlotRecord
<1>4. s.decisions[i] \in Proposals
  BY <1>2, <1>3
<1>5. list[i].query = s.decisions[i]
  <2>1. list[i] = RecordOf(s.decisions[i])
    BY <1>2 DEF OneRecorded
  <2> QED BY <2>1 DEF RecordOf
<1>6. Faithful(q, s.decisions[i])
  BY <1>4, <1>5, SpoiltIsFaithful
<1>8. Believable(q, s.refs[i])
  <2>1. s.refs[i].query = s.decisions[i] /\ s.refs[i].status = Stage5!Result(s.decisions[i])
    BY <1>2 DEF OneRecorded, RefOf
  <2> QED BY <1>6, <2>1 DEF Believable, Faithful
<1>7. ASSUME NEW j \in 1..Len(list) PROVE Believable(new[j], s.refs[j])
  <2>1. CASE j = i
    BY <1>1, <1>8, <2>1
  <2>2. CASE j # i
    BY <1>1, <1>2, <2>2
  <2> QED BY <2>1, <2>2
<1> QED BY <1>1, <1>2, <1>7 DEF QueriesRecorded

\* What one file of a query may be overwritten with.
Logs(d) == [1..Len(Stage5!Suffix(Holds[d])) -> BOOLEAN]
RunOf(c, l) == [calls |-> c, holds |-> [n \in 1..PrefixLength |-> TRUE] \o l]
OtherRuns(c, d) == {RunOf(c, l) : l \in Logs(d)}
SpoiltTo(q, c, d) ==
  \/ \E x \in Statuses, e \in Proposals :
       q = [RecordOf(d) EXCEPT !.query = e, !.status = x, !.assigned = c]
  \/ q = [RecordOf(d) EXCEPT !.model = c]
  \/ \E l \in Logs(d) : q = [RecordOf(d) EXCEPT !.foundry = l]
  \/ \E l \in Logs(d) : q = [RecordOf(d) EXCEPT !.repaired_foundry = l]
  \/ \E r \in OtherRuns(c, d) : q = [RecordOf(d) EXCEPT !.native = r]
  \/ \E r \in OtherRuns(c, d) : q = [RecordOf(d) EXCEPT !.repaired_native = r]

LEMMA SpoiltIs ==
  ASSUME Stage5!Stage5AuditAssumption, NEW d \in Proposals, NEW c \in Proposals, NEW q,
         SpoiltTo(q, c, d)
  PROVE  q \in QueryRecord /\ Spoilt(q, d)
<1>1. RecordOf(d) \in QueryRecord
  BY AskedIs
<1> DEFINE k == Len(Stage5!Suffix(Holds[d]))
           logs == Logs(d)
           runs == OtherRuns(c, d)
           run(l) == RunOf(c, l)
<1>2. k \in Nat /\ PrefixLength \in Nat
  <2>1. /\ Holds[d] \in Seq(BOOLEAN) /\ PrefixLength \in Nat \ {0}
        /\ Len(Holds[d]) \in PrefixLength + 1..PrefixLength + 2
    BY ProposalIs
  <2>2. Len(Holds[d]) >= PrefixLength
    BY ONLY <2>1
  <2>3. Stage5!Suffix(Holds[d]) \in Seq(BOOLEAN)
    BY <2>1, <2>2, SuffixIs
  <2>4. Len(Stage5!Suffix(Holds[d])) \in Nat
    BY ONLY <2>3
  <2> QED BY <2>1, <2>4
<1>3. \A l \in logs : l \in Seq(BOOLEAN) /\ Len(l) = k
  <2> HIDE DEF k
  <2>1. \A l \in [1..k -> BOOLEAN] : l \in Seq(BOOLEAN) /\ Len(l) = k
    BY ONLY <1>2
  <2> QED BY <2>1 DEF Logs, k
<1>4. \A r \in runs : \E l \in logs : r = run(l)
  BY DEF OtherRuns
<1> HIDE DEF k, logs, runs
<1>5. ASSUME NEW l \in Seq(BOOLEAN) PROVE run(l) \in [calls : Proposals, holds : Seq(BOOLEAN)]
  <2>1. TRUE \in BOOLEAN
    OBVIOUS
  <2> DEFINE h == [n \in 1..PrefixLength |-> TRUE] \o l
  <2>2. h = [n \in 1..PrefixLength |-> TRUE] \o l
    OBVIOUS
  <2>4. PrefixLength \in Nat
    BY <1>2
  <2> HIDE DEF h
  <2>3. h \in Seq(BOOLEAN)
    BY ONLY <2>1, <2>2, <2>4, Prefixed
  <2> QED BY <2>3 DEF h, RunOf
<1> HIDE DEF run
<1>6. ASSUME NEW r \in runs PROVE r \in [calls : Proposals, holds : Seq(BOOLEAN)]
  <2>1. PICK l \in logs : r = run(l)
    BY <1>4
  <2>2. l \in Seq(BOOLEAN)
    BY <1>3
  <2> QED BY <1>5, <2>1, <2>2
<1>7. CASE \E x \in Statuses, e \in Proposals :
             q = [RecordOf(d) EXCEPT !.query = e, !.status = x, !.assigned = c]
  <2>1. PICK x \in Statuses, e \in Proposals :
          q = [RecordOf(d) EXCEPT !.query = e, !.status = x, !.assigned = c]
    BY <1>7
  <2>2. q \in QueryRecord
    BY <1>1, <2>1 DEF QueryRecord
  <2> QED BY <2>1, <2>2 DEF Spoilt
<1>8. CASE q = [RecordOf(d) EXCEPT !.model = c]
  <2>1. q \in QueryRecord
    BY <1>1, <1>8 DEF QueryRecord
  <2> QED BY <1>8, <2>1 DEF Spoilt
<1>9. CASE \E l \in logs : q = [RecordOf(d) EXCEPT !.foundry = l]
  <2>1. PICK l \in logs : q = [RecordOf(d) EXCEPT !.foundry = l]
    BY <1>9
  <2>2. q \in QueryRecord
    BY <1>1, <1>3, <2>1 DEF QueryRecord
  <2> QED BY <2>1, <2>2 DEF Spoilt
<1>10. CASE \E l \in logs : q = [RecordOf(d) EXCEPT !.repaired_foundry = l]
  <2>1. PICK l \in logs : q = [RecordOf(d) EXCEPT !.repaired_foundry = l]
    BY <1>10
  <2>2. q \in QueryRecord
    BY <1>1, <1>3, <2>1 DEF QueryRecord
  <2> QED BY <2>1, <2>2 DEF Spoilt
<1>11. CASE \E r \in runs : q = [RecordOf(d) EXCEPT !.native = r]
  <2>1. PICK r \in runs : q = [RecordOf(d) EXCEPT !.native = r]
    BY <1>11
  <2>2. PICK l \in logs : r = run(l)
    BY <1>4
  <2>3. q \in QueryRecord
    BY <1>1, <1>6, <2>1 DEF QueryRecord
  <2>4. l \in Seq(BOOLEAN) /\ Len(l) = Len(Stage5!Suffix(Holds[d]))
    BY <1>3 DEF k
  <2>5. q = [RecordOf(d) EXCEPT !.native =
               [calls |-> c, holds |-> [n \in 1..PrefixLength |-> TRUE] \o l]]
    BY <2>1, <2>2 DEF run, RunOf
  <2> QED BY <2>3, <2>4, <2>5 DEF Spoilt, OtherRun
<1>12. CASE \E r \in runs : q = [RecordOf(d) EXCEPT !.repaired_native = r]
  <2>1. PICK r \in runs : q = [RecordOf(d) EXCEPT !.repaired_native = r]
    BY <1>12
  <2>2. q \in QueryRecord
    BY <1>1, <1>6, <2>1 DEF QueryRecord
  <2> QED BY <2>1, <2>2 DEF Spoilt
<1> QED BY <1>7, <1>8, <1>9, <1>10, <1>11, <1>12 DEF SpoiltTo, logs, runs

\* One of the files of a query is overwritten.
LEMMA QueryHurt ==
  ASSUME Stage5!Stage5AuditAssumption, queries \in Seq(QueryRecord), slot \in SlotRecord,
         QueriesRecorded(queries, slot, FALSE), NEW i \in DOMAIN queries, NEW c \in Proposals,
         Stage5!QueryDamage(i, c)
  PROVE  queries' \in Seq(QueryRecord) /\ QueriesRecorded(queries', slot, TRUE)
<1>1. i \in 1..Len(queries) /\ queries[i] \in QueryRecord
  OBVIOUS
<1> DEFINE d == slot.decisions[i]
<1>2. queries[i] = RecordOf(d) /\ d \in Proposals
  <2>1. slot.decisions \in Seq(Proposals) /\ Len(slot.decisions) = Len(queries)
    BY DEF SlotRecord, QueriesRecorded
  <2>2. OneRecorded(queries[i], slot.refs[i], slot.decisions[i])
    BY <1>1 DEF QueriesRecorded
  <2> QED BY <1>1, <2>1, <2>2 DEF OneRecorded
<1> HIDE DEF d
<1>3. queries[i].query = d
  BY <1>2 DEF RecordOf
<1> DEFINE logs == Logs(d)
           runs == OtherRuns(c, d)
           New(q) == SpoiltTo(q, c, d)
<1>4. \E q : New(q) /\ queries' = [queries EXCEPT ![i] = q]
  <2>1. \/ \E x \in Statuses, e \in Proposals :
             queries' = [queries EXCEPT ![i].query = e, ![i].status = x, ![i].assigned = c]
        \/ queries' = [queries EXCEPT ![i].model = c]
        \/ \E f \in {"foundry", "repaired_foundry"}, l \in logs :
             queries' = [queries EXCEPT ![i][f] = l]
        \/ \E f \in {"native", "repaired_native"}, r \in runs :
             queries' = [queries EXCEPT ![i][f] = r]
    BY <1>3 DEF Stage5!QueryDamage, Stage5!Results, Statuses, Logs, OtherRuns, RunOf
  <2> HIDE DEF logs, runs
  <2>2. CASE \E x \in Statuses, e \in Proposals :
               queries' = [queries EXCEPT ![i].query = e, ![i].status = x, ![i].assigned = c]
    <3>1. PICK x \in Statuses, e \in Proposals :
            queries' = [queries EXCEPT ![i].query = e, ![i].status = x, ![i].assigned = c]
      BY <2>2
    <3> DEFINE q == [RecordOf(d) EXCEPT !.query = e, !.status = x, !.assigned = c]
    <3>2. queries' = [queries EXCEPT ![i] = q]
      BY <3>1, <1>1, <1>2
    <3> QED BY <3>2 DEF SpoiltTo
  <2>3. CASE queries' = [queries EXCEPT ![i].model = c]
    <3> DEFINE q == [RecordOf(d) EXCEPT !.model = c]
    <3>1. queries' = [queries EXCEPT ![i] = q]
      BY <2>3, <1>1, <1>2
    <3> QED BY <3>1 DEF SpoiltTo
  <2>4. CASE \E f \in {"foundry", "repaired_foundry"}, l \in logs :
               queries' = [queries EXCEPT ![i][f] = l]
    <3>1. PICK f \in {"foundry", "repaired_foundry"}, l \in logs :
            queries' = [queries EXCEPT ![i][f] = l]
      BY <2>4
    <3> DEFINE q == [RecordOf(d) EXCEPT ![f] = l]
    <3>2. queries' = [queries EXCEPT ![i] = q]
      BY <3>1, <1>1, <1>2, InEntry
    <3>3. q = [RecordOf(d) EXCEPT !.foundry = l] \/ q = [RecordOf(d) EXCEPT !.repaired_foundry = l]
      BY <3>1
    <3> QED BY <3>2, <3>3 DEF SpoiltTo, logs, runs
  <2>5. CASE \E f \in {"native", "repaired_native"}, r \in runs :
               queries' = [queries EXCEPT ![i][f] = r]
    <3>1. PICK f \in {"native", "repaired_native"}, r \in runs :
            queries' = [queries EXCEPT ![i][f] = r]
      BY <2>5
    <3> DEFINE q == [RecordOf(d) EXCEPT ![f] = r]
    <3>2. queries' = [queries EXCEPT ![i] = q]
      BY <3>1, <1>1, <1>2, InEntry
    <3>3. q = [RecordOf(d) EXCEPT !.native = r] \/ q = [RecordOf(d) EXCEPT !.repaired_native = r]
      BY <3>1
    <3> QED BY <3>2, <3>3 DEF SpoiltTo, logs, runs
  <2> QED BY <2>1, <2>2, <2>3, <2>4, <2>5
<1>5. PICK q : New(q) /\ queries' = [queries EXCEPT ![i] = q]
  BY <1>4
<1>6. q \in QueryRecord /\ Spoilt(q, d)
  BY <1>2, <1>5, SpoiltIs
<1> HIDE DEF New
<1> QED BY <1>1, <1>3, <1>5, <1>6, QuerySpoilt

\* What slot.json says is overwritten; the queries are still what was asked.
LEMMA SlotHurt ==
  ASSUME Stage5!Stage5AuditAssumption, queries \in Seq(QueryRecord), slot \in SlotRecord,
         QueriesRecorded(queries, slot, FALSE), Stage5!SlotDamage
  PROVE  slot' \in SlotRecord /\ QueriesRecorded(queries, slot', TRUE) /\ slot'.valid = slot.valid
<1> DEFINE R == [query : Proposals, status : Statuses, length : Int]
           F == [query : Proposals, first : Nat, two : BOOLEAN, imported : Proposals]
<1>1. slot.refs \in Seq(R) /\ slot.decisions \in Seq(Proposals) /\ Len(slot.refs) = Len(queries)
  BY DEF SlotRecord, QueriesRecorded
<1>2. ASSUME NEW i \in 1..Len(queries), NEW ref PROVE Believable(queries[i], ref)
  <2>1. queries[i] = RecordOf(slot.decisions[i])
    BY DEF QueriesRecorded, OneRecorded
  <2> QED BY <2>1, AskedIsBelievable
<1>3. ASSUME NEW z, Len(z.refs) = Len(slot.refs) PROVE QueriesRecorded(queries, z, TRUE)
  BY <1>1, <1>2, <1>3 DEF QueriesRecorded
<1>4. CASE \E i \in DOMAIN slot.refs, c \in Proposals, x \in Statuses, n \in 1..2 :
             slot' = [slot EXCEPT !.refs[i] = [query |-> c, status |-> x, length |-> n]]
  <2>1. PICK i \in DOMAIN slot.refs, c \in Proposals, x \in Statuses, n \in 1..2 :
          slot' = [slot EXCEPT !.refs[i] = [query |-> c, status |-> x, length |-> n]]
    BY <1>4
  <2> DEFINE ref == [query |-> c, status |-> x, length |-> n]
             refs == [slot.refs EXCEPT ![i] = ref]
  <2>2. ref \in R
    OBVIOUS
  <2> HIDE DEF ref, R
  <2>3. refs \in Seq(R) /\ Len(refs) = Len(slot.refs)
    BY <1>1, <2>2
  <2>4. slot' = [slot EXCEPT !.refs = refs]
    BY <2>1 DEF ref, SlotRecord
  <2> HIDE DEF refs
  <2>5. slot' \in SlotRecord /\ slot'.refs = refs /\ slot'.valid = slot.valid
    BY <2>3, <2>4 DEF SlotRecord, R
  <2> QED BY <1>3, <2>3, <2>5
<1>5. CASE \E i \in DOMAIN slot.decisions, c \in Proposals :
             slot' = [slot EXCEPT !.decisions[i] = c]
  <2>1. PICK i \in DOMAIN slot.decisions, c \in Proposals : slot' = [slot EXCEPT !.decisions[i] = c]
    BY <1>5
  <2>2. [slot.decisions EXCEPT ![i] = c] \in Seq(Proposals)
    BY <1>1
  <2>3. slot' \in SlotRecord /\ slot'.refs = slot.refs /\ slot'.valid = slot.valid
    BY <2>1, <2>2 DEF SlotRecord
  <2> QED BY <1>3, <2>3
<1>6. CASE \E list \in Seq(F) : slot' = [slot EXCEPT !.confirmations = list]
  <2>1. slot' \in SlotRecord /\ slot'.refs = slot.refs /\ slot'.valid = slot.valid
    BY <1>6 DEF SlotRecord
  <2> QED BY <1>3, <2>1
<1>7. CASE \E f \in {"augmented", "native", "search", "stopped", "charged"}, t \in 0..Total5 + 1 :
             slot' = [slot EXCEPT ![f] = t]
  <2>1. PICK f \in {"augmented", "native", "search", "stopped", "charged"}, t \in 0..Total5 + 1 :
          slot' = [slot EXCEPT ![f] = t]
    BY <1>7
  <2>2. t \in Nat
    OBVIOUS
  <2>3. slot' \in SlotRecord /\ slot'.refs = slot.refs /\ slot'.valid = slot.valid
    BY <2>1, <2>2 DEF SlotRecord
  <2> QED BY <1>3, <2>3
<1>8. ASSUME NEW c \in Proposals, NEW d \in Proposals, NEW n \in 1..PrefixLength + 2
      PROVE  <<[query |-> c, first |-> n, two |-> n = PrefixLength + 2, imported |-> d]>> \in Seq(F)
  <2>1. n \in Nat /\ (n = PrefixLength + 2) \in BOOLEAN
    BY DEF Stage5!Stage5AuditAssumption
  <2>2. [query |-> c, first |-> n, two |-> n = PrefixLength + 2, imported |-> d] \in F
    BY <2>1
  <2> QED BY <2>2
<1>9. <<>> \in Seq(F)
  OBVIOUS
<1> HIDE DEF F
<1>10. \/ \E i \in DOMAIN slot.refs, c \in Proposals, x \in Statuses, n \in 1..2 :
            slot' = [slot EXCEPT !.refs[i] = [query |-> c, status |-> x, length |-> n]]
       \/ \E i \in DOMAIN slot.decisions, c \in Proposals : slot' = [slot EXCEPT !.decisions[i] = c]
       \/ \E list \in Seq(F) : slot' = [slot EXCEPT !.confirmations = list]
       \/ \E f \in {"augmented", "native", "search", "stopped", "charged"}, t \in 0..Total5 + 1 :
            slot' = [slot EXCEPT ![f] = t]
  BY <1>8, <1>9 DEF Stage5!SlotDamage, Stage5!Results, Statuses
<1> QED BY <1>4, <1>5, <1>6, <1>7, <1>10

LEMMA RowDamage ==
  ASSUME Stage5!Stage5AuditAssumption, RowInv, Stage5!Damage
  PROVE  RowInv'
<1>1. /\ phase = "ended" /\ slot.valid /\ ~damaged /\ damaged' = TRUE
      /\ phase' = phase /\ now' = now /\ warmup' = warmup /\ pending' = pending
  BY DEF Stage5!Damage
<1>2. RowBase
  BY DEF RowInv
<1>3. /\ slot \in SlotRecord /\ queries \in Seq(QueryRecord) /\ stream \in Seq(EventRecord)
      /\ QueriesRecorded(queries, slot, FALSE)
  BY <1>1, <1>2 DEF RowBase
<1> DEFINE Event == \E i \in DOMAIN stream, s \in DOMAIN Holds :
             stream' = [stream EXCEPT ![i].calls = s, ![i].holds = Holds[s]]
           G == /\ queries' \in Seq(QueryRecord) /\ slot' \in SlotRecord
                /\ stream' \in Seq(EventRecord) /\ QueriesRecorded(queries', slot', TRUE)
<1>4. \/ (\E i \in DOMAIN queries, c \in Proposals : Stage5!QueryDamage(i, c))
           /\ slot' = slot /\ stream' = stream
      \/ Stage5!SlotDamage /\ queries' = queries /\ stream' = stream
      \/ Event /\ queries' = queries /\ slot' = slot
  BY DEF Stage5!Damage
<1>5. ASSUME \E i \in DOMAIN queries, c \in Proposals : Stage5!QueryDamage(i, c),
             slot' = slot, stream' = stream PROVE G
  <2>1. PICK i \in DOMAIN queries, c \in Proposals : Stage5!QueryDamage(i, c)
    BY <1>5
  <2>2. queries' \in Seq(QueryRecord) /\ QueriesRecorded(queries', slot, TRUE)
    BY <1>3, <2>1, QueryHurt
  <2> QED BY <1>3, <1>5, <2>2
<1>6. ASSUME Stage5!SlotDamage, queries' = queries, stream' = stream PROVE G
  <2>1. slot' \in SlotRecord /\ QueriesRecorded(queries, slot', TRUE)
    BY <1>3, <1>6, SlotHurt
  <2> QED BY <1>3, <1>6, <2>1
<1>7. ASSUME Event, queries' = queries, slot' = slot PROVE G
  <2>1. PICK i \in DOMAIN stream, s \in DOMAIN Holds :
          stream' = [stream EXCEPT ![i].calls = s, ![i].holds = Holds[s]]
    BY <1>7
  <2>2. i \in 1..Len(stream) /\ stream[i] \in EventRecord
    BY <1>3
  <2> DEFINE e == [stream[i] EXCEPT !.calls = s, !.holds = Holds[s]]
  <2>3. Holds[s] \in Seq(BOOLEAN)
    BY DEF Stage5!Stage5AuditAssumption
  <2>4. e \in EventRecord
    BY <2>2, <2>3 DEF EventRecord
  <2>5. stream' = [stream EXCEPT ![i] = e]
    BY <2>1, <2>2, <1>3
  <2> HIDE DEF e
  <2>6. stream' \in Seq(EventRecord)
    BY <1>3, <2>2, <2>4, <2>5
  <2>7. QueriesRecorded(queries, slot, TRUE)
    BY <1>3 DEF QueriesRecorded
  <2> QED BY <1>3, <1>7, <2>6, <2>7
<1> HIDE DEF Event
<1> HIDE DEF G
<1>8. G
  BY <1>4, <1>5, <1>6, <1>7
<1>9. RowBase'
  BY <1>1, <1>2, <1>8 DEF RowBase, G
<1> QED BY <1>1, <1>9, RowToCome DEF RowInv

----------------------------------------------------------------------------
(* The audit of a Stage 5 slot *)

\* The confirmed queries.
Confirmed5 == {q \in Stage5!Range(queries) : q.status = "confirmed"}

\* What a confirmed proposal should be reported as.
Report(d) ==
  [query |-> d, first |-> Stage5!First(Holds[d]),
   two |-> Stage5!First(Holds[d]) = PrefixLength + 2]

\* The confirmations of a row, one for each confirmed query, in their order.
LEMMA RebuiltFrom ==
  ASSUME RowBase
  PROVE  /\ Stage5!Rebuilt \in Seq([query : Proposals, first : Nat, two : BOOLEAN])
         /\ Len(Stage5!Rebuilt) = Cardinality({n \in 1..Len(queries) : queries[n] \in Confirmed5})
         /\ \A i \in 1..Len(Stage5!Rebuilt) : \E n \in 1..Len(queries) :
              /\ queries[n].status = "confirmed"
              /\ Stage5!Rebuilt[i] =
                   [query |-> queries[n].query, first |-> Stage5!First(queries[n].native.holds),
                    two |-> Stage5!First(queries[n].native.holds) = PrefixLength + 2]
<1> DEFINE chosen == Among(queries, Confirmed5)
           Made(q) == [query |-> q.query, first |-> Stage5!First(q.native.holds),
                       two |-> Stage5!First(q.native.holds) = PrefixLength + 2]
           F == [query : Proposals, first : Nat, two : BOOLEAN]
<1>1. queries \in Seq(QueryRecord)
  BY DEF RowBase
<1>2. chosen \in Seq(QueryRecord) /\ \E pos : PlacedAt(chosen, queries, Confirmed5, pos)
  BY <1>1, AmongPlaces
<1>3. Len(chosen) = Cardinality({n \in 1..Len(queries) : queries[n] \in Confirmed5})
  BY <1>1, AmongCount
<1>4. Stage5!Rebuilt = [i \in DOMAIN chosen |-> Made(chosen[i])]
  <2>1. Stage5!Among(queries, Confirmed5) = Among(queries, Confirmed5)
    BY DEF Stage5!Among, Among
  <2> QED BY <2>1 DEF Stage5!Rebuilt, Confirmed5
<1> HIDE DEF chosen
<1>5. ASSUME NEW q \in QueryRecord PROVE Made(q) \in F
  <2>1. q.query \in Proposals /\ q.native.holds \in Seq(BOOLEAN)
    BY DEF QueryRecord
  <2>2. Stage5!First(q.native.holds) \in Nat
    BY <2>1, FirstFails
  <2>3. (Stage5!First(q.native.holds) = PrefixLength + 2) \in BOOLEAN
    OBVIOUS
  <2> QED BY <2>1, <2>2, <2>3
<1>6. ASSUME NEW i \in 1..Len(chosen)
      PROVE  \E n \in 1..Len(queries) : queries[n].status = "confirmed" /\ chosen[i] = queries[n]
  <2>1. PICK pos : PlacedAt(chosen, queries, Confirmed5, pos)
    BY <1>2
  <2>2. pos[i] \in 1..Len(queries) /\ chosen[i] = queries[pos[i]] /\ chosen[i] \in Confirmed5
    BY <2>1 DEF PlacedAt
  <2>3. queries[pos[i]].status = "confirmed"
    BY <2>2 DEF Confirmed5
  <2> QED BY <2>2, <2>3
<1> HIDE DEF Made, F
<1>7. /\ Stage5!Rebuilt \in Seq(F) /\ Len(Stage5!Rebuilt) = Len(chosen)
      /\ \A i \in 1..Len(chosen) : Stage5!Rebuilt[i] = Made(chosen[i])
  <2>1. Len(chosen) \in Nat /\ DOMAIN chosen = 1..Len(chosen)
        /\ \A i \in 1..Len(chosen) : chosen[i] \in QueryRecord
    BY <1>2
  <2>2. \A i \in 1..Len(chosen) : Made(chosen[i]) \in F
    BY <1>5, <2>1
  <2> QED BY <1>4, <2>1, <2>2
<1> QED BY <1>3, <1>6, <1>7 DEF Made, F

\* What the audit checked of a query, the references tell of its proposal.
LEMMA RowIsReal ==
  ASSUME Stage5!Stage5AuditAssumption, RowBase, Stage5!QueriesHold,
         NEW i \in 1..Len(Stage5!Rebuilt)
  PROVE  \E d \in Proposals : Stage5!Rebuilt[i] = Report(d) /\ Stage5!Result(d) = "confirmed"
<1>1. PICK n \in 1..Len(queries) :
        /\ queries[n].status = "confirmed"
        /\ Stage5!Rebuilt[i] =
             [query |-> queries[n].query, first |-> Stage5!First(queries[n].native.holds),
              two |-> Stage5!First(queries[n].native.holds) = PrefixLength + 2]
  BY RebuiltFrom
<1> DEFINE d == queries[n].query
<1>2. d \in Proposals /\ Believable(queries[n], slot.refs[n])
  <2>1. queries[n] \in QueryRecord
    BY DEF RowBase
  <2> QED BY <2>1 DEF RowBase, QueriesRecorded, QueryRecord
<1>3. /\ queries[n].query = slot.refs[n].query /\ queries[n].status = slot.refs[n].status
      /\ Stage5!CandidateHolds(queries[n])
  <2>1. n \in DOMAIN queries
    BY DEF RowBase
  <2> QED BY <1>1, <2>1 DEF Stage5!QueriesHold
<1>4. Stage5!Result(d) = "confirmed" /\ Stage5!First(queries[n].native.holds) = Stage5!First(Holds[d])
  BY <1>1, <1>2, <1>3 DEF Believable
<1> QED BY <1>1, <1>2, <1>4 DEF Report

\* The files of an undamaged slot are in order.
LEMMA FilesInOrder ==
  ASSUME Stage5!Stage5AuditAssumption, RowBase, damaged = FALSE
  PROVE  Stage5!QueriesHold
<1>1. /\ queries \in Seq(QueryRecord) /\ slot.decisions \in Seq(Proposals)
      /\ slot.refs \in Seq([query : Proposals, status : Statuses, length : Int])
      /\ Len(slot.refs) = Len(queries) /\ Len(slot.decisions) = Len(queries)
      /\ \A i \in 1..Len(queries) : OneRecorded(queries[i], slot.refs[i], slot.decisions[i])
  BY DEF RowBase, SlotRecord, QueriesRecorded
<1> DEFINE L == Len(queries)
<1>2. L \in Nat /\ DOMAIN queries = 1..L /\ DOMAIN slot.refs = 1..L /\ DOMAIN slot.decisions = 1..L
  BY <1>1
<1>3. ASSUME NEW i \in 1..L
      PROVE  /\ slot.decisions[i] \in Proposals /\ slot.refs[i] = RefOf(slot.decisions[i])
             /\ queries[i] = RecordOf(slot.decisions[i])
  BY <1>1, <1>2 DEF OneRecorded
<1>4. slot.decisions = [i \in DOMAIN slot.refs |-> slot.refs[i].query]
  <2>1. ASSUME NEW i \in 1..L PROVE slot.decisions[i] = slot.refs[i].query
    <3>1. slot.refs[i] = RefOf(slot.decisions[i])
      BY <1>3
    <3> QED BY <3>1 DEF RefOf
  <2> HIDE DEF L
  <2>2. slot.decisions = [i \in 1..L |-> slot.decisions[i]]
    BY <1>1, <1>2, ListIs
  <2> QED BY <1>2, <2>1, <2>2
<1>5. ASSUME NEW i \in 1..L
      PROVE  /\ queries[i].status = slot.refs[i].status /\ queries[i].query = slot.refs[i].query
             /\ Len(Stage5!Suffix(Holds[queries[i].query])) = slot.refs[i].length
             /\ queries[i].model = queries[i].assigned
             /\ queries[i].status = "confirmed" => Stage5!CandidateHolds(queries[i])
  <2> DEFINE d == slot.decisions[i]
  <2>1. d \in Proposals /\ slot.refs[i] = RefOf(d) /\ queries[i] = RecordOf(d)
    BY <1>3
  <2> HIDE DEF d
  <2>2. /\ Holds[d] \in Seq(BOOLEAN) /\ PrefixLength \in Nat \ {0}
        /\ Len(Holds[d]) \in PrefixLength + 1..PrefixLength + 2
        /\ Stage5!Result(d) = "confirmed" <=>
             Stage5!First(Holds[d]) # 0 /\ Stage5!First(RepairedHolds[d]) = 0
    BY <2>1, ProposalIs
  <2>3. Len(Holds[d]) >= PrefixLength
    BY <2>2
  <2>4. Len(Stage5!Suffix(Holds[d])) = Len(Holds[d]) - PrefixLength
    BY <2>2, <2>3, SuffixIs
  <2>5. /\ queries[i].status = slot.refs[i].status /\ queries[i].query = slot.refs[i].query
        /\ queries[i].query = d /\ slot.refs[i].length = Len(Holds[d]) - PrefixLength
        /\ queries[i].model = queries[i].assigned /\ queries[i].status = Stage5!Result(d)
    BY <2>1 DEF RecordOf, RefOf
  <2>6. Stage5!Result(d) = "confirmed" => Stage5!CandidateHolds(RecordOf(d))
    BY <2>2 DEF Stage5!CandidateHolds, RecordOf
  <2> QED BY <2>1, <2>4, <2>5, <2>6
<1> HIDE DEF L
<1> QED BY <1>1, <1>2, <1>4, <1>5 DEF Stage5!QueriesHold

\* Which queries of an undamaged slot are confirmed, its references tell.
LEMMA ConfirmedByRef ==
  ASSUME RowBase, damaged = FALSE, NEW n \in 1..Len(queries)
  PROVE  /\ queries[n] \in Confirmed5 <=> slot.refs[n].status = "confirmed"
         /\ queries[n] = RecordOf(slot.decisions[n])
<1>1. OneRecorded(queries[n], slot.refs[n], slot.decisions[n])
  BY DEF RowBase, QueriesRecorded
<1>2. slot.refs[n] = RefOf(slot.decisions[n]) /\ queries[n] = RecordOf(slot.decisions[n])
  BY <1>1 DEF OneRecorded
<1>3. queries[n].status = slot.refs[n].status
  BY <1>2 DEF RecordOf, RefOf
<1>4. queries[n] \in Stage5!Range(queries)
  BY DEF RowBase, Stage5!Range
<1> QED BY <1>2, <1>3, <1>4 DEF Confirmed5

\* Nothing is rebuilt when nothing was confirmed, else the one confirmation.
LEMMA RebuiltUndamaged ==
  ASSUME Stage5!Stage5AuditAssumption, RowBase, damaged = FALSE
  PROVE  /\ NothingFound(slot) => Len(Stage5!Rebuilt) = 0
         /\ FoundLast(slot) =>
              /\ Len(Stage5!Rebuilt) = 1
              /\ Stage5!Rebuilt[1] = Report(slot.decisions[Len(slot.refs)])
<1> DEFINE N == Len(slot.refs)
           places == {n \in 1..Len(queries) : queries[n] \in Confirmed5}
<1>1. N = Len(queries) /\ N \in Nat
  BY DEF RowBase, QueriesRecorded
<1>2. Len(Stage5!Rebuilt) = Cardinality(places)
  BY RebuiltFrom
<1>3. places = {n \in 1..N : slot.refs[n].status = "confirmed"}
  BY <1>1, ConfirmedByRef
<1>4. ASSUME NothingFound(slot) PROVE Len(Stage5!Rebuilt) = 0
  <2>1. places = {}
    BY <1>3, <1>4 DEF NothingFound
  <2> QED BY <1>2, <2>1, FS_EmptySet
<1>5. ASSUME FoundLast(slot)
      PROVE  Len(Stage5!Rebuilt) = 1 /\ Stage5!Rebuilt[1] = Report(slot.decisions[N])
  <2>1. N \in 1..N /\ slot.refs[N].status = "confirmed"
        /\ \A i \in 1..N : i < N => slot.refs[i].status # "confirmed"
    BY <1>1, <1>5 DEF FoundLast
  <2>2. \A i \in 1..N : i < N \/ i = N
    BY <1>1
  <2>3. places = {N}
    BY <1>3, <2>1, <2>2
  <2> HIDE DEF places
  <2>4. Len(Stage5!Rebuilt) = 1
    BY <1>2, <2>3, FS_Singleton
  <2>5. PICK n \in 1..Len(queries) :
          /\ queries[n].status = "confirmed"
          /\ Stage5!Rebuilt[1] =
               [query |-> queries[n].query, first |-> Stage5!First(queries[n].native.holds),
                two |-> Stage5!First(queries[n].native.holds) = PrefixLength + 2]
    BY <2>4, RebuiltFrom
  <2>6. n \in places
    <3>1. queries[n] \in Stage5!Range(queries)
      BY DEF RowBase, Stage5!Range
    <3> QED BY <2>5, <3>1 DEF places, Confirmed5
  <2>7. n = N
    BY <2>3, <2>6
  <2>8. queries[n] = RecordOf(slot.decisions[N])
    BY <2>7, ConfirmedByRef
  <2> QED BY <2>4, <2>5, <2>8 DEF RecordOf, Report
<1> QED BY <1>4, <1>5

\* An import that was replayed was replayed once.
LEMMA ReplayedOnce ==
  ASSUME RowBase, NEW imports, NEW rest, Replayed(stream, imports, rest),
         NEW s \in imports \ rest, \A n \in 1..Len(stream) : TrueEvent(stream[n])
  PROVE  Len(Stage5!ReplaysOf(s)) = 1 /\ Stage5!ReplaysOf(s)[1].holds = Holds[s]
<1> DEFINE S == {e \in Stage5!Range(stream) : e.calls = s /\ e.kind = "startup_replay"}
           places == {n \in 1..Len(stream) : stream[n] \in S}
<1>1. stream \in Seq(EventRecord)
  BY DEF RowBase
<1>2. Stage5!ReplaysOf(s) = Among(stream, S)
  BY DEF Stage5!ReplaysOf, Stage5!Among, Among
<1>3. PICK n \in 1..Len(stream) : IsReplay(stream[n]) /\ stream[n].calls = s
  BY DEF Replayed
<1>4. \A m \in 1..Len(stream) : IsReplay(stream[m]) /\ stream[m].calls = s => m = n
  BY <1>3 DEF Replayed
<1>5. \A m \in 1..Len(stream) : stream[m] \in S <=> IsReplay(stream[m]) /\ stream[m].calls = s
  BY <1>1 DEF IsReplay, Stage5!Range
<1>6. places = {n}
  BY <1>3, <1>4, <1>5
<1> HIDE DEF S
<1>7. Len(Among(stream, S)) = 1
  <2>1. Len(Among(stream, S)) = Cardinality(places)
    BY <1>1, AmongCount
  <2>2. Cardinality({n}) = 1
    BY FS_Singleton
  <2> QED BY <1>6, <2>1, <2>2
<1>8. Among(stream, S)[1] \in S /\ \E m \in 1..Len(stream) : Among(stream, S)[1] = stream[m]
  <2>1. PICK pos : PlacedAt(Among(stream, S), stream, S, pos)
    BY <1>1, AmongPlaces
  <2> QED BY <1>7, <2>1 DEF PlacedAt
<1>9. PICK m \in 1..Len(stream) : Among(stream, S)[1] = stream[m]
  BY <1>8
<1>10. stream[m].calls = s /\ stream[m].holds = Holds[stream[m].calls]
  BY <1>5, <1>8, <1>9 DEF TrueEvent
<1> QED BY <1>2, <1>7, <1>9, <1>10

\* The stages by name.
HitStages == {"warmup", "augmentation", "native_import", "native_continuation"}
LEMMA RankIs ==
  /\ Stage5!StageRank["augmentation"] = 1 /\ Stage5!StageRank["native_continuation"] = 2
  /\ Stage5!StageRank["native_import"] = 3 /\ Stage5!StageRank["warmup"] = 4
BY DEF Stage5!StageRank

\* What is the same for all slots that end valid and undamaged.
SlotInOrder ==
  /\ RowBase /\ damaged = FALSE /\ slot.valid
  /\ Ordered(phase, warmup, queries, slot, stream, pending, now)

\* The three sources of a finding.
WarmupHit(h) ==
  \E i \in 1..Len(warmup) : /\ Stage5!First(Holds[warmup[i]]) # 0
                           /\ h = <<0, "warmup", Stage5!First(Holds[warmup[i]])>>
AugmentationHit(h) ==
  Len(Stage5!Rebuilt) >= 1 /\ h = <<slot.augmented, "augmentation", Stage5!Rebuilt[1].first>>
NativeHit(h) ==
  \E i \in 1..Len(stream) :
    /\ Stage5!First(stream[i].holds) # 0
    /\ h = <<slot.native + slot.search + stream[i].offset,
             IF IsReplay(stream[i]) THEN "native_import" ELSE "native_continuation",
             Stage5!First(stream[i].holds)>>

LEMMA HitsAre ==
  ASSUME Stage5!Stage5AuditAssumption, RowBase
  PROVE  \A h : h \in Stage5!Hits <=> WarmupHit(h) \/ AugmentationHit(h) \/ NativeHit(h)
<1> DEFINE W == {<<0, "warmup", Stage5!First(Holds[warmup[i]])>> :
                   i \in {j \in DOMAIN warmup : Stage5!First(Holds[warmup[j]]) # 0}}
           A == {<<slot.augmented, "augmentation", Stage5!Rebuilt[1].first>> :
                   i \in {j \in DOMAIN Stage5!Rebuilt : j = 1}}
           N == {<<Stage5!NativeTime(stream[i]),
                   IF stream[i].kind = "startup_replay" THEN "native_import" ELSE "native_continuation",
                   Stage5!First(stream[i].holds)>> :
                   i \in {j \in DOMAIN stream : Stage5!First(stream[j].holds) # 0}}
<1>1. Stage5!Hits = W \union A \union N
  BY DEF Stage5!Hits
<1>2. DOMAIN warmup = 1..Len(warmup) /\ DOMAIN stream = 1..Len(stream)
  <2>1. warmup \in Seq(DOMAIN Holds) /\ stream \in Seq(EventRecord)
    BY DEF RowBase, Stage5!Stage5AuditAssumption
  <2> QED BY <2>1
<1>3. DOMAIN Stage5!Rebuilt = 1..Len(Stage5!Rebuilt) /\ Len(Stage5!Rebuilt) \in Nat
  <2>1. Stage5!Rebuilt \in Seq([query : Proposals, first : Nat, two : BOOLEAN])
    BY RebuiltFrom
  <2> QED BY <2>1
<1>4. \A h : h \in W <=> WarmupHit(h)
  BY <1>2 DEF WarmupHit
<1>5. \A h : h \in A <=> AugmentationHit(h)
  BY <1>3 DEF AugmentationHit
<1>6. \A h : h \in N <=> NativeHit(h)
  BY <1>2 DEF NativeHit, IsReplay, Stage5!NativeTime
<1> HIDE DEF W, A, N
<1> QED BY <1>1, <1>4, <1>5, <1>6

\* When a finding can have been made, and from what it came.
LEMMA HitIs ==
  ASSUME Stage5!Stage5AuditAssumption, SlotInOrder, NEW h \in Stage5!Hits
  PROVE  /\ h[1] \in Nat /\ h[1] <= Stage5!ObservationEnd /\ h[1] <= Total5 /\ h[2] \in HitStages
         /\ h[2] = "warmup" => h[1] = 0 /\ Stage5!Violating(warmup)
         /\ h[2] # "warmup" => h[1] >= 1 /\ h[1] >= slot.augmented
         /\ h[2] = "augmentation" => Len(Stage5!Rebuilt) >= 1
         /\ h[2] = "native_import" => Stage5!Violating(warmup) \/ Len(Stage5!Rebuilt) >= 1
<1>1. WarmupHit(h) \/ AugmentationHit(h) \/ NativeHit(h)
  BY HitsAre DEF SlotInOrder
<1>2. /\ slot.augmented \in Nat /\ slot.native \in Nat /\ slot.launched \in Nat
      /\ slot.search \in Nat /\ slot.stopped \in Nat /\ Total5 \in Nat
      /\ 1 <= slot.augmented /\ slot.augmented <= slot.native /\ slot.native <= slot.launched
      /\ slot.launched + slot.stopped <= Total5
      /\ Stage5!ObservationEnd = slot.native + slot.stopped
  BY DEF SlotInOrder, RowBase, SlotTimed, Begun, SlotRecord, Stage5!Stage5AuditAssumption,
     Stage5!ObservationEnd
<1>3. CASE WarmupHit(h)
  <2>1. PICK i \in 1..Len(warmup) : /\ Stage5!First(Holds[warmup[i]]) # 0
                                    /\ h = <<0, "warmup", Stage5!First(Holds[warmup[i]])>>
    BY <1>3 DEF WarmupHit
  <2>2. h[1] = 0 /\ h[2] = "warmup"
    BY <2>1
  <2>3. i \in DOMAIN warmup
    <3>1. warmup \in Seq(DOMAIN Holds)
      BY DEF SlotInOrder, RowBase, Stage5!Stage5AuditAssumption
    <3> QED BY <3>1
  <2>4. Stage5!Violating(warmup)
    BY <2>1, <2>3 DEF Stage5!Violating
  <2> QED BY <1>2, <2>2, <2>4 DEF HitStages
<1>4. CASE AugmentationHit(h)
  <2>1. h[1] = slot.augmented /\ h[2] = "augmentation" /\ Len(Stage5!Rebuilt) >= 1
    BY <1>4 DEF AugmentationHit
  <2> QED BY <1>2, <2>1 DEF HitStages
<1>5. CASE NativeHit(h)
  <2>1. PICK i \in 1..Len(stream) :
          /\ Stage5!First(stream[i].holds) # 0
          /\ h = <<slot.native + slot.search + stream[i].offset,
                   IF IsReplay(stream[i]) THEN "native_import" ELSE "native_continuation",
                   Stage5!First(stream[i].holds)>>
    BY <1>5 DEF NativeHit
  <2>2. h[1] = slot.native + slot.search + stream[i].offset
        /\ h[2] = IF IsReplay(stream[i]) THEN "native_import" ELSE "native_continuation"
    BY <2>1
  <2>3. /\ stream[i].offset \in Nat
        /\ slot.launched + slot.search + stream[i].offset <= slot.launched + slot.stopped
    <3>1. stream[i] \in EventRecord
      BY DEF SlotInOrder, RowBase
    <3> QED BY <3>1 DEF EventRecord, SlotInOrder, Ordered, EventsUntil
  <2>4. /\ h[1] \in Nat /\ h[1] <= Stage5!ObservationEnd /\ h[1] <= Total5
        /\ h[1] >= 1 /\ h[1] >= slot.augmented
    <3> DEFINE o == stream[i].offset
    <3>1. o \in Nat /\ slot.launched + slot.search + o <= slot.launched + slot.stopped
          /\ h[1] = slot.native + slot.search + o
      BY <2>2, <2>3
    <3> HIDE DEF o
    <3> DEFINE a == slot.native  l == slot.launched  s == slot.search  z == slot.stopped
               g == slot.augmented
    <3>2. /\ a \in Nat /\ l \in Nat /\ s \in Nat /\ z \in Nat /\ Total5 \in Nat /\ g \in Nat
          /\ 1 <= g /\ g <= a /\ a <= l /\ l + z <= Total5 /\ l + s + o <= l + z
      BY ONLY <1>2, <3>1
    <3>3. h[1] = a + s + o /\ Stage5!ObservationEnd = a + z
      BY ONLY <1>2, <3>1
    <3> HIDE DEF a, l, s, z, g
    <3>4. /\ a + s + o \in Nat /\ a + s + o <= a + z /\ a + s + o <= Total5
          /\ a + s + o >= 1 /\ a + s + o >= g
      BY ONLY <3>1, <3>2
    <3> QED BY <3>3, <3>4 DEF g
  <2>5. ASSUME IsReplay(stream[i]) PROVE Stage5!Violating(warmup) \/ Len(Stage5!Rebuilt) >= 1
    <3>1. stream[i].calls \in Imports(warmup, slot)
      BY <2>5 DEF SlotInOrder, Ordered, Replayed
    <3>2. Stage5!First(Holds[stream[i].calls]) # 0
      BY <2>1 DEF SlotInOrder, Ordered, TrueEvent
    <3>3. CASE \E j \in 1..Len(warmup) : warmup[j] = stream[i].calls
      <4>1. PICK j \in 1..Len(warmup) : warmup[j] = stream[i].calls
        BY <3>3
      <4>2. j \in DOMAIN warmup
        <5>1. warmup \in Seq(DOMAIN Holds)
          BY DEF SlotInOrder, RowBase, Stage5!Stage5AuditAssumption
        <5> QED BY <5>1
      <4> QED BY <3>2, <4>1, <4>2 DEF Stage5!Violating
    <3>4. CASE ~\E j \in 1..Len(warmup) : warmup[j] = stream[i].calls
      <4>1. \E j \in 1..Len(slot.confirmations) : slot.confirmations[j].imported = stream[i].calls
        BY <3>1, <3>4 DEF Imports
      <4>2. slot.confirmations # <<>>
        BY <4>1
      <4>3. FoundLast(slot)
        BY <4>2 DEF SlotInOrder, Ordered, NothingFound
      <4>4. Len(Stage5!Rebuilt) = 1
        BY <4>3, RebuiltUndamaged DEF SlotInOrder
      <4> QED BY <4>4
    <3> QED BY <3>3, <3>4
  <2>6. CASE IsReplay(stream[i])
    <3>1. h[2] = "native_import"
      BY <2>2, <2>6
    <3> QED BY <2>4, <2>5, <2>6, <3>1 DEF HitStages
  <2>7. CASE ~IsReplay(stream[i])
    <3>1. h[2] = "native_continuation"
      BY <2>2, <2>7
    <3> QED BY <2>4, <3>1 DEF HitStages
  <2> QED BY <2>6, <2>7
<1> QED BY <1>1, <1>3, <1>4, <1>5

\* The first finding is one of them, and none comes before it.
NoneBefore(h) ==
  \A g \in Stage5!Hits :
    h[1] < g[1] \/ (h[1] = g[1] /\ Stage5!StageRank[h[2]] <= Stage5!StageRank[g[2]])

LEMMA FirstHitIs ==
  ASSUME Stage5!Stage5AuditAssumption, SlotInOrder
  PROVE  \/ Stage5!Hits = {} /\ Stage5!FirstHit = <<>>
         \/ \E h \in Stage5!Hits : Stage5!FirstHit = <<h>> /\ NoneBefore(h)
<1> DEFINE key(h) == 5 * h[1] + Stage5!StageRank[h[2]]
           S == {key(h) : h \in Stage5!Hits}
<1>1. CASE Stage5!Hits = {}
  BY <1>1 DEF Stage5!FirstHit
<1>2. CASE Stage5!Hits # {}
  <2>1. ASSUME NEW h \in Stage5!Hits
        PROVE  h[1] \in Nat /\ Stage5!StageRank[h[2]] \in 1..4
    <3>1. h[1] \in Nat /\ h[2] \in HitStages
      BY HitIs
    <3>2. Stage5!StageRank[h[2]] \in {1, 2, 3, 4}
      BY <3>1, RankIs DEF HitStages
    <3> QED BY <3>1, <3>2
  <2>2. ASSUME NEW h \in Stage5!Hits PROVE key(h) \in Nat
    BY <2>1
  <2> HIDE DEF key
  <2>3. S \subseteq Nat /\ S # {}
    BY <1>2, <2>2
  <2>4. PICK m \in S : \A j \in S : m <= j
    BY <2>3, LeastIs
  <2>5. PICK h \in Stage5!Hits : m = key(h)
    BY <2>4
  <2>6. ASSUME NEW g \in Stage5!Hits
        PROVE  h[1] < g[1] \/ (h[1] = g[1] /\ Stage5!StageRank[h[2]] <= Stage5!StageRank[g[2]])
    <3>1. key(h) <= key(g)
      BY <2>4, <2>5
    <3>2. 5 * h[1] + Stage5!StageRank[h[2]] <= 5 * g[1] + Stage5!StageRank[g[2]]
      BY <3>1 DEF key
    <3>3. /\ h[1] \in Nat /\ Stage5!StageRank[h[2]] \in 1..4
          /\ g[1] \in Nat /\ Stage5!StageRank[g[2]] \in 1..4
      BY <2>1
    <3> QED BY <3>2, <3>3, KeyOrder
  <2>7. \E a \in Stage5!Hits : NoneBefore(a)
    BY <2>6 DEF NoneBefore
  <2> DEFINE first == CHOOSE a \in Stage5!Hits : NoneBefore(a)
  <2>8. first \in Stage5!Hits /\ NoneBefore(first)
    BY <2>7
  <2>9. Stage5!FirstHit = <<first>>
    BY <1>2 DEF Stage5!FirstHit, NoneBefore
  <2> QED BY <2>8, <2>9
<1> QED BY <1>1, <1>2

\* The stages of the first finding, and what its absence means.
FirstStages == {Stage5!FirstHit[i][2] : i \in DOMAIN Stage5!FirstHit}

LEMMA FirstIsCause ==
  ASSUME Stage5!Stage5AuditAssumption, SlotInOrder
  PROVE  /\ Stage5!Violating(warmup) => FirstStages = {"warmup"}
         /\ ~Stage5!Violating(warmup) /\ Len(Stage5!Rebuilt) >= 1 => FirstStages = {"augmentation"}
         /\ "native_import" \notin FirstStages
         /\ Stage5!FirstHit = <<>> =>
              ~Stage5!Violating(warmup) /\ ~\E i \in DOMAIN stream : stream[i].goal
         /\ Stage5!FirstHit # <<>> => Stage5!FirstHit[1][1] <= Total5
         /\ \A i \in DOMAIN Stage5!FirstHit : Stage5!FirstHit[i][1] <= Stage5!ObservationEnd
<1>1. ASSUME Stage5!Violating(warmup) PROVE \E g \in Stage5!Hits : g[1] = 0 /\ g[2] = "warmup"
  <2>1. PICK i \in DOMAIN warmup : Stage5!First(Holds[warmup[i]]) # 0
    BY <1>1 DEF Stage5!Violating
  <2>2. i \in 1..Len(warmup)
    <3>1. warmup \in Seq(DOMAIN Holds)
      BY DEF SlotInOrder, RowBase, Stage5!Stage5AuditAssumption
    <3> QED BY <3>1
  <2> DEFINE g == <<0, "warmup", Stage5!First(Holds[warmup[i]])>>
  <2>3. g \in Stage5!Hits
    BY <2>1, <2>2, HitsAre DEF WarmupHit, SlotInOrder
  <2>4. g[1] = 0 /\ g[2] = "warmup"
    OBVIOUS
  <2> HIDE DEF g
  <2> QED BY <2>3, <2>4
<1>2. ASSUME Len(Stage5!Rebuilt) >= 1
      PROVE  \E g \in Stage5!Hits : g[1] = slot.augmented /\ g[2] = "augmentation"
  <2> DEFINE g == <<slot.augmented, "augmentation", Stage5!Rebuilt[1].first>>
  <2>1. g \in Stage5!Hits
    BY <1>2, HitsAre DEF AugmentationHit, SlotInOrder
  <2>2. g[1] = slot.augmented /\ g[2] = "augmentation"
    OBVIOUS
  <2> HIDE DEF g
  <2> QED BY <2>1, <2>2
<1>3. ASSUME NEW i \in DOMAIN stream, stream[i].goal PROVE Stage5!Hits # {}
  <2>1. i \in 1..Len(stream)
    BY DEF SlotInOrder, RowBase
  <2>2. Stage5!First(stream[i].holds) # 0
    BY <1>3, <2>1 DEF SlotInOrder, Ordered, TrueEvent
  <2>3. \E h : NativeHit(h)
    BY <2>1, <2>2 DEF NativeHit
  <2> QED BY <2>3, HitsAre DEF SlotInOrder
<1>4. CASE Stage5!Hits = {} /\ Stage5!FirstHit = <<>>
  <2>1. FirstStages = {}
    BY <1>4 DEF FirstStages
  <2>2. ~Stage5!Violating(warmup) /\ ~(Len(Stage5!Rebuilt) >= 1)
    BY <1>1, <1>2, <1>4
  <2>3. ~\E i \in DOMAIN stream : stream[i].goal
    BY <1>3, <1>4
  <2> QED BY <1>4, <2>1, <2>2, <2>3
<1>5. ASSUME NEW h \in Stage5!Hits, Stage5!FirstHit = <<h>>, NoneBefore(h)
      PROVE  /\ FirstStages = {h[2]} /\ Stage5!FirstHit # <<>>
             /\ Stage5!FirstHit[1][1] <= Total5
             /\ \A i \in DOMAIN Stage5!FirstHit : Stage5!FirstHit[i][1] <= Stage5!ObservationEnd
             /\ Stage5!Violating(warmup) => h[2] = "warmup"
             /\ ~Stage5!Violating(warmup) /\ Len(Stage5!Rebuilt) >= 1 => h[2] = "augmentation"
             /\ h[2] # "native_import"
  <2>1. /\ FirstStages = {h[2]} /\ Stage5!FirstHit # <<>> /\ Stage5!FirstHit[1] = h
        /\ DOMAIN Stage5!FirstHit = {1}
    BY <1>5 DEF FirstStages
  <2>2. /\ h[1] \in Nat /\ h[1] <= Stage5!ObservationEnd /\ h[1] <= Total5 /\ h[2] \in HitStages
        /\ h[2] = "warmup" => Stage5!Violating(warmup)
        /\ h[2] # "warmup" => h[1] >= 1 /\ h[1] >= slot.augmented
        /\ h[2] = "native_import" => Stage5!Violating(warmup) \/ Len(Stage5!Rebuilt) >= 1
    BY HitIs
  <2>3. ASSUME Stage5!Violating(warmup) PROVE h[2] = "warmup"
    <3>1. PICK g \in Stage5!Hits : g[1] = 0 /\ g[2] = "warmup"
      BY <1>1, <2>3
    <3>2. h[1] < 0 \/ h[1] = 0
      BY <1>5, <3>1 DEF NoneBefore
    <3> QED BY <2>2, <3>2
  <2>4. ASSUME ~Stage5!Violating(warmup), Len(Stage5!Rebuilt) >= 1 PROVE h[2] = "augmentation"
    <3>1. PICK g \in Stage5!Hits : g[1] = slot.augmented /\ g[2] = "augmentation"
      BY <1>2, <2>4
    <3>2. h[1] < slot.augmented
          \/ (h[1] = slot.augmented /\ Stage5!StageRank[h[2]] <= 1)
      BY <1>5, <3>1, RankIs DEF NoneBefore
    <3>3. h[2] # "warmup" /\ h[1] >= slot.augmented
      BY <2>2, <2>4
    <3>4. slot.augmented \in Nat
      BY DEF SlotInOrder, RowBase, SlotRecord
    <3>5. Stage5!StageRank[h[2]] <= 1
      BY <2>2, <3>2, <3>3, <3>4
    <3> QED BY <2>2, <3>3, <3>5, RankIs DEF HitStages
  <2> QED BY <2>1, <2>2, <2>3, <2>4
<1>6. CASE \E h \in Stage5!Hits : Stage5!FirstHit = <<h>> /\ NoneBefore(h)
  <2>1. PICK h \in Stage5!Hits : Stage5!FirstHit = <<h>> /\ NoneBefore(h)
    BY <1>6
  <2> QED BY <1>5, <2>1
<1> QED BY <1>4, <1>6, FirstHitIs

\* A slot with its files in order passes when its import was replayed.
LEMMA InOrderPasses ==
  ASSUME Stage5!Stage5AuditAssumption, SlotInOrder,
         slot.charged <= Total5,
         {slot.confirmations[i].imported : i \in DOMAIN slot.confirmations} \cap pending = {}
  PROVE  Stage5!SlotPasses
<1>1. /\ slot.valid /\ slot.status = "completed" /\ slot.charged <= Total5
      /\ Stage5!ObservationEnd <= Total5 + CleanupTolerance
  <2>1. /\ slot.native \in Nat /\ slot.launched \in Nat /\ slot.stopped \in Nat
        /\ Total5 \in Nat /\ CleanupTolerance \in Nat
        /\ slot.native <= slot.launched /\ slot.launched + slot.stopped <= Total5
    BY DEF SlotInOrder, RowBase, SlotTimed, SlotRecord, Begun, Stage5!Stage5AuditAssumption
  <2>2. Stage5!ObservationEnd <= Total5 + CleanupTolerance
    BY <2>1 DEF Stage5!ObservationEnd
  <2> QED BY <2>2 DEF SlotInOrder, RowBase, SlotTimed
<1>2. Stage5!QueriesHold
  BY FilesInOrder DEF SlotInOrder
<1>3. \A i \in DOMAIN stream : stream[i].goal = (Stage5!First(stream[i].holds) # 0)
  <2>1. DOMAIN stream = 1..Len(stream)
    BY DEF SlotInOrder, RowBase
  <2> QED BY <2>1 DEF SlotInOrder, Ordered, TrueEvent
<1>4. Stage5!FirstHit # <<>> => Stage5!FirstHit[1][1] <= Total5
  BY FirstIsCause
<1>5. Stage5!Rebuilt \in Seq([query : Proposals, first : Nat, two : BOOLEAN])
  BY RebuiltFrom DEF SlotInOrder
<1>6. CASE NothingFound(slot)
  <2>1. Len(Stage5!Rebuilt) = 0 /\ slot.confirmations = <<>>
    BY <1>6, RebuiltUndamaged DEF SlotInOrder, NothingFound
  <2>2. Len(slot.confirmations) = 0 /\ DOMAIN Stage5!Rebuilt = {}
    BY <1>5, <2>1
  <2>3. Stage5!ConfirmationsHold
    BY <2>1, <2>2 DEF Stage5!ConfirmationsHold
  <2> QED BY <1>1, <1>2, <1>3, <1>4, <2>3 DEF Stage5!SlotPasses
<1>7. CASE FoundLast(slot)
  <2> DEFINE d == slot.decisions[Len(slot.refs)]
  <2>1. Len(Stage5!Rebuilt) = 1 /\ Stage5!Rebuilt[1] = Report(d)
    BY <1>7, RebuiltUndamaged DEF SlotInOrder
  <2>2. slot.confirmations = <<Stage5!Confirmation(d)>>
    BY <1>7 DEF FoundLast
  <2> HIDE DEF d
  <2>3. /\ Len(slot.confirmations) = 1 /\ DOMAIN Stage5!Rebuilt = {1} /\ DOMAIN slot.confirmations = {1}
        /\ slot.confirmations[1] = Stage5!Confirmation(d)
    BY <1>5, <2>1, <2>2
  <2>4. d \in Imports(warmup, slot) \ pending
    <3>1. Stage5!Confirmation(d).imported = d
      BY DEF Stage5!Confirmation
    <3>2. d \notin pending
      BY <2>3, <3>1
    <3>3. 1 \in 1..Len(slot.confirmations)
      BY <2>3
    <3> QED BY <2>3, <3>1, <3>2, <3>3 DEF Imports
  <2>5. Len(Stage5!ReplaysOf(d)) = 1 /\ Stage5!ReplaysOf(d)[1].holds = Holds[d]
    BY <2>4, ReplayedOnce DEF SlotInOrder, Ordered
  <2>6. Stage5!ConfirmationsHold
    <3> DEFINE c == slot.confirmations[1]
    <3>1. /\ [query |-> c.query, first |-> c.first, two |-> c.two] = Stage5!Rebuilt[1]
          /\ c.imported = d /\ c.first = Stage5!First(Holds[d])
      BY <2>1, <2>3 DEF Stage5!Confirmation, Report
    <3> QED BY <2>1, <2>3, <2>5, <3>1 DEF Stage5!ConfirmationsHold
  <2> QED BY <1>1, <1>2, <1>3, <1>4, <2>6 DEF Stage5!SlotPasses
<1> QED BY <1>6, <1>7 DEF SlotInOrder, Ordered

LEMMA RowAudited ==
  ASSUME Stage5!Stage5AuditAssumption, RowInv, Stage5!Audit
  PROVE  RowInv'
<1>1. /\ phase = "ended" /\ slot.valid /\ phase' = "audited"
      /\ now' = now /\ warmup' = warmup /\ queries' = queries /\ slot' = slot
      /\ pending' = pending /\ stream' = stream /\ damaged' = damaged
      /\ row' = IF Stage5!SlotPasses
                THEN <<[first |-> Stage5!FirstHit, confirmed |-> Stage5!Rebuilt,
                        end |-> Stage5!ObservationEnd, censored |-> Stage5!FirstHit = <<>>]>> ELSE <<>>
  BY DEF Stage5!Audit
<1>2. RowBase /\ (damaged = FALSE => SlotInOrder)
  BY <1>1 DEF RowInv, SlotInOrder
<1>3. RowBase'
  <2>1. ~damaged => SlotTimed(phase', slot, now)
    BY <1>1, <1>2 DEF RowBase, SlotTimed
  <2> QED BY <1>1, <1>2, <2>1 DEF RowBase
<1>4. ~damaged' => Ordered(phase', warmup', queries', slot', stream', pending', now')
  <2>1. ASSUME damaged = FALSE PROVE Ordered(phase', warmup, queries, slot, stream, pending, now)
    BY <1>1, <1>2, <2>1 DEF SlotInOrder, Ordered
  <2> QED BY <1>1, <1>2, <2>1 DEF RowBase
<1>5. ASSUME Stage5!HasRow'
      PROVE  /\ Stage5!SlotPasses
             /\ row'[1] = [first |-> Stage5!FirstHit, confirmed |-> Stage5!Rebuilt,
                           end |-> Stage5!ObservationEnd, censored |-> Stage5!FirstHit = <<>>]
  <2>1. row' # <<>>
    BY <1>5 DEF Stage5!HasRow
  <2> QED BY <1>1, <2>1
<1>6. Stage5!ConfirmedIsReal'
  <2>1. SUFFICES ASSUME Stage5!HasRow', NEW i \in DOMAIN row'[1].confirmed,
                        NEW c, c = row'[1].confirmed[i]
                 PROVE  /\ c.first = Stage5!First(Holds[c.query])
                        /\ Stage5!First(RepairedHolds[c.query]) = 0
                        /\ c.two <=> Stage5!Suffix(Holds[c.query])[1]
    BY DEF Stage5!ConfirmedIsReal, Stage5!Row
  <2>2. Stage5!QueriesHold /\ row'[1].confirmed = Stage5!Rebuilt
    BY <1>5, <2>1 DEF Stage5!SlotPasses
  <2>3. i \in 1..Len(Stage5!Rebuilt)
    <3>1. Stage5!Rebuilt \in Seq([query : Proposals, first : Nat, two : BOOLEAN])
      BY <1>2, RebuiltFrom
    <3> QED BY <2>1, <2>2, <3>1
  <2>4. PICK d \in Proposals : Stage5!Rebuilt[i] = Report(d) /\ Stage5!Result(d) = "confirmed"
    BY <1>2, <2>2, <2>3, RowIsReal
  <2>5. c = Report(d)
    BY <2>1, <2>2, <2>4
  <2>6. c.query = d /\ c.first = Stage5!First(Holds[d])
        /\ c.two = (Stage5!First(Holds[d]) = PrefixLength + 2)
    BY <2>5 DEF Report
  <2>7. /\ Stage5!First(RepairedHolds[d]) = 0
        /\ Stage5!First(Holds[d]) = PrefixLength + 2 <=> Stage5!Suffix(Holds[d])[1]
    BY <2>4, ProposalIs
  <2> QED BY <2>6, <2>7
<1>7. Stage5!AuditedOnceReplayed'
  <2>1. ASSUME damaged = FALSE, slot.charged <= Total5,
               {slot.confirmations[i].imported : i \in DOMAIN slot.confirmations} \cap pending = {}
        PROVE  Stage5!HasRow'
    <3>1. Stage5!SlotPasses
      BY <1>2, <2>1, InOrderPasses
    <3>2. row' # <<>>
      BY <1>1, <3>1
    <3> QED BY <1>1, <3>2 DEF Stage5!HasRow
  <2>2. ~damaged => damaged = FALSE
    BY <1>2 DEF RowBase
  <2> QED BY <1>1, <2>1, <2>2 DEF Stage5!AuditedOnceReplayed
<1>8. Stage5!FirstHitIsCause'
  <2>1. SUFFICES ASSUME Stage5!HasRow', ~damaged'
                 PROVE  LET stages == {row'[1].first[i][2] : i \in DOMAIN row'[1].first}
                        IN  /\ Stage5!Violating(warmup') => stages = {"warmup"}
                            /\ ~Stage5!Violating(warmup') /\ row'[1].confirmed # <<>>
                                 => stages = {"augmentation"}
                            /\ "native_import" \notin stages
                            /\ row'[1].censored => ~Stage5!Violating(warmup')
                                                   /\ ~\E i \in DOMAIN stream' : stream'[i].goal
                            /\ \A i \in DOMAIN row'[1].first : row'[1].first[i][1] <= row'[1].end
    BY DEF Stage5!FirstHitIsCause, Stage5!Row
  <2>2. /\ row'[1].first = Stage5!FirstHit /\ row'[1].confirmed = Stage5!Rebuilt
        /\ row'[1].censored = (Stage5!FirstHit = <<>>) /\ row'[1].end = Stage5!ObservationEnd
    BY <1>5, <2>1
  <2>3. SlotInOrder
    BY <1>1, <1>2, <2>1 DEF RowBase
  <2>4. Stage5!Rebuilt # <<>> => Len(Stage5!Rebuilt) >= 1
    <3>1. Stage5!Rebuilt \in Seq([query : Proposals, first : Nat, two : BOOLEAN])
      BY <1>2, RebuiltFrom
    <3> QED BY <3>1
  <2>5. {row'[1].first[i][2] : i \in DOMAIN row'[1].first} = FirstStages
    BY <2>2 DEF FirstStages
  <2> QED BY <1>1, <2>2, <2>3, <2>4, <2>5, FirstIsCause
<1> QED BY <1>1, <1>3, <1>4, <1>6, <1>7, <1>8 DEF RowInv

\* Whatever the slot does, is done to its files and the audit answers.
LEMMA RowSteps ==
  ASSUME Stage5!Stage5AuditAssumption, RowInv, [Stage5!Next]_stage5Vars
  PROVE  RowInv'
<1>1. CASE \E c \in Proposals : Stage5!Query(c)
  BY <1>1, RowQuery
<1>2. CASE Stage5!NativeStarts
  BY <1>2, RowNative
<1>3. CASE Stage5!Execute
  BY <1>3, RowExecute
<1>4. CASE Stage5!NativeStops
  BY <1>4, RowStops
<1>5. CASE Stage5!Damage
  BY <1>5, RowDamage
<1>6. CASE Stage5!Audit
  BY <1>6, RowAudited
<1>8. CASE Stage5!SlotEnds
  BY <1>8, RowEnds
<1>7. CASE UNCHANGED stage5Vars
  BY <1>7 DEF stage5Vars, RowInv, RowBase, Stage5!ConfirmedIsReal, Stage5!HasRow, Stage5!Row,
       Stage5!AuditedOnceReplayed, Stage5!FirstHitIsCause
<1> QED BY <1>1, <1>2, <1>3, <1>4, <1>5, <1>6, <1>7, <1>8 DEF Stage5!Next

LEMMA RowAnswers ==
  ASSUME RowInv
  PROVE  Stage5!ConfirmedIsReal /\ Stage5!AuditedOnceReplayed /\ Stage5!FirstHitIsCause
BY DEF RowInv

----------------------------------------------------------------------------
(* The audit of a Stage 3 slot: folds and what they add up to.               *)

\* What has been visited once the steps at the places A of the sequences t are
\* counted, I being the sequences begun: a place is the sequence and the step.
SlotStep(t, x) == SubSeq(t[x[1]], 1, x[2])
Visits(t, I, A) ==
  [ids |-> {t[i] : i \in I},
   states |-> {SlotAudit!StateOf(SlotStep(t, x)) : x \in A},
   hits |-> [m \in {t[x[1]][x[2]] : x \in A} |-> Cardinality({x \in A : t[x[1]][x[2]] = m})],
   goal |-> \E x \in A : SlotAudit!GoalAt(SlotStep(t, x))]

\* One more hit of m.
HitAgain(hits, m) ==
  [x \in DOMAIN hits \union {m} |->
     (IF x \in DOMAIN hits THEN hits[x] ELSE 0) + (IF x = m THEN 1 ELSE 0)]

\* One more step counts one more place.
LEMMA VisitAdds ==
  ASSUME NEW t \in Seq(Seq(Calls)), NEW I, NEW A, IsFiniteSet(A),
         NEW i \in 1..Len(t), NEW k \in 1..Len(t[i]), <<i, k>> \notin A
  PROVE  SlotAudit!VisitStep(Visits(t, I, A), SlotAudit!PrefixReferences(t[i])[k])
           = Visits(t, I, A \union {<<i, k>>})
<1> DEFINE x == <<i, k>>
           B == A \union {x}
           old == Visits(t, I, A)
           walk == SlotAudit!PrefixReferences(t[i])[k]
           m == t[i][k]
           new == SlotAudit!VisitStep(old, walk)
           At(y) == t[y[1]][y[2]]
           Here(C, n) == {y \in C : At(y) = n}
<1>1. t[i] \in Seq(Calls) /\ Len(t[i]) \in Nat
  OBVIOUS
<1>2. walk = SubSeq(t[i], 1, k)
  BY <1>1 DEF SlotAudit!PrefixReferences
<1>3. walk = SlotStep(t, x)
  BY <1>2 DEF SlotStep
<1>4. SlotAudit!Marker(walk) = m
  <2>1. Len(SubSeq(t[i], 1, k)) = k /\ SubSeq(t[i], 1, k)[k] = t[i][k]
    BY <1>1
  <2> QED BY <2>1, <1>2 DEF SlotAudit!Marker, SlotAudit!Last
<1>5. At(x) = m
  OBVIOUS
<1>6. {SlotAudit!StateOf(SlotStep(t, y)) : y \in B}
        = {SlotAudit!StateOf(SlotStep(t, y)) : y \in A} \union {SlotAudit!StateOf(walk)}
  BY <1>3
<1>7. (\E y \in B : SlotAudit!GoalAt(SlotStep(t, y)))
        <=> (\E y \in A : SlotAudit!GoalAt(SlotStep(t, y))) \/ SlotAudit!GoalAt(walk)
  BY <1>3
<1> HIDE DEF walk
<1>8. {At(y) : y \in B} = {At(y) : y \in A} \union {m}
  BY <1>5
<1> DEFINE D == {At(y) : y \in A}
           count(n) == (IF n \in D THEN Cardinality(Here(A, n)) ELSE 0) + (IF n = m THEN 1 ELSE 0)
<1>9. ASSUME NEW n \in D \union {m} PROVE Cardinality(Here(B, n)) = count(n)
  <2>1. IsFiniteSet(Here(A, n)) /\ Cardinality(Here(A, n)) \in Nat
    BY FS_Subset, FS_CardinalityType
  <2>2. n \notin D => Here(A, n) = {}
    OBVIOUS
  <2>3. n \notin D => Cardinality(Here(A, n)) = 0
    BY <2>2, FS_EmptySet
  <2>4. CASE n = m
    <3>1. Here(B, n) = Here(A, n) \union {x} /\ x \notin Here(A, n)
      BY <2>4, <1>5
    <3>2. Cardinality(Here(B, n)) = Cardinality(Here(A, n)) + 1
      BY <3>1, <2>1, FS_AddElement
    <3> QED BY <3>2, <2>1, <2>3, <2>4
  <2>5. CASE n # m
    <3>1. Here(B, n) = Here(A, n)
      BY <2>5, <1>5
    <3>2. n \in D
      BY <2>5
    <3> HIDE DEF D, Here
    <3> QED BY <3>1, <3>2, <2>5, <2>1
  <2> QED BY <2>4, <2>5
<1>10. [n \in {At(y) : y \in B} |-> Cardinality(Here(B, n))] = [n \in D \union {m} |-> count(n)]
  <2> DEFINE E == {At(y) : y \in B}
  <2>1. E = D \union {m}
    BY <1>8
  <2> HIDE DEF E, D, Here, count
  <2>2. [n \in E |-> Cardinality(Here(B, n))] = [n \in D \union {m} |-> count(n)]
    BY <2>1, <1>9
  <2> QED BY <2>2 DEF E
<1>11. new = [ids |-> old.ids, states |-> old.states \union {SlotAudit!StateOf(walk)},
              hits |-> [n \in D \union {m} |-> count(n)],
              goal |-> old.goal \/ SlotAudit!GoalAt(walk)]
  <2>1. DOMAIN old.hits = D /\ \A n \in D : old.hits[n] = Cardinality(Here(A, n))
    BY DEF Visits
  <2>2. HitAgain(old.hits, m) = [n \in D \union {m} |-> count(n)]
    <3> HIDE DEF old, D, Here
    <3> QED BY <2>1 DEF HitAgain
  <2>3. old = [ids |-> old.ids, states |-> old.states, hits |-> old.hits, goal |-> old.goal]
    BY DEF Visits
  <2> HIDE DEF old, D, count
  <2>4. new = [ids |-> old.ids, states |-> old.states \union {SlotAudit!StateOf(walk)},
               hits |-> HitAgain(old.hits, m), goal |-> old.goal \/ SlotAudit!GoalAt(walk)]
    <3>1. new = [old EXCEPT !.states = old.states \union {SlotAudit!StateOf(walk)},
                            !.goal = old.goal \/ SlotAudit!GoalAt(walk),
                            !.hits = HitAgain(old.hits, m)]
      BY <1>4 DEF SlotAudit!VisitStep, HitAgain
    <3> QED BY <3>1, <2>3
  <2> QED BY <2>2, <2>4
<1>12. Visits(t, I, B) = [ids |-> old.ids, states |-> old.states \union {SlotAudit!StateOf(walk)},
              hits |-> [n \in D \union {m} |-> count(n)],
              goal |-> old.goal \/ SlotAudit!GoalAt(walk)]
  <2>1. Visits(t, I, B) =
          [ids |-> {t[j] : j \in I}, states |-> {SlotAudit!StateOf(SlotStep(t, y)) : y \in B},
           hits |-> [n \in {At(y) : y \in B} |-> Cardinality(Here(B, n))],
           goal |-> \E y \in B : SlotAudit!GoalAt(SlotStep(t, y))]
    BY DEF Visits
  <2>2. old.ids = {t[j] : j \in I} /\ old.states = {SlotAudit!StateOf(SlotStep(t, y)) : y \in A}
        /\ old.goal = (\E y \in A : SlotAudit!GoalAt(SlotStep(t, y)))
    BY DEF Visits
  <2> DEFINE g1 == \E y \in B : SlotAudit!GoalAt(SlotStep(t, y))
             g2 == old.goal \/ SlotAudit!GoalAt(walk)
  <2>3. g1 = g2
    BY <1>7, <2>2
  <2> HIDE DEF g1, g2, old, D, count, Here, B
  <2>4. Visits(t, I, B) =
          [ids |-> old.ids, states |-> old.states \union {SlotAudit!StateOf(walk)},
           hits |-> [n \in {At(y) : y \in B} |-> Cardinality(Here(B, n))], goal |-> g2]
    BY <2>1, <2>2, <2>3, <1>6 DEF g1
  <2> QED BY <2>4, <1>10 DEF g2
<1> QED BY <1>11, <1>12 DEF walk

\* The places of the first n sequences, as the runner counts them.
Places(t, n) == {x \in (1..n) \X (1..4) : x[2] <= Len(t[x[1]])}

\* A sequence is visited step by step.
LEMMA VisitsSequence ==
  ASSUME SlotAudit!AuditAssumption, NEW t \in Seq(Plans), NEW n \in 1..Len(t)
  PROVE  SlotAudit!VisitSteps(Visits(t, 1..(n - 1), Places(t, n - 1)), t[n])
           = Visits(t, 1..n, Places(t, n))
<1> DEFINE L == Len(t[n])
           snap == Visits(t, 1..(n - 1), Places(t, n - 1))
           Upto(k) == Places(t, n - 1) \union {<<n, j>> : j \in 1..k}
           refs == SlotAudit!PrefixReferences(t[n])
           first == [snap EXCEPT !.ids = snap.ids \union {t[n]}]
           h == [k \in 0..L |-> Visits(t, 1..n, Upto(k))]
           Meets(f) == f = [k \in 0..L |->
             IF k = 0 THEN first ELSE SlotAudit!VisitStep(f[k - 1], refs[k])]
<1>1. t[n] \in Plans /\ Plans \subseteq Seq(Calls) /\ L \in 1..4
  BY DEF SlotAudit!AuditAssumption
<1>2. t \in Seq(Seq(Calls)) /\ \A i \in 1..Len(t) : t[i] \in Plans /\ Len(t[i]) \in 1..4
  BY DEF SlotAudit!AuditAssumption
<1>3. Places(t, n - 1) \subseteq (1..(n - 1)) \X (1..4) /\ IsFiniteSet(Places(t, n - 1))
  <2>1. n - 1 \in Nat /\ IsFiniteSet((1..(n - 1)) \X (1..4))
    BY PlacesFinite
  <2> QED BY <2>1, FS_Subset DEF Places
<1>4. ASSUME NEW k \in 0..L PROVE IsFiniteSet(Upto(k))
  <2>1. Upto(k) \subseteq (1..n) \X (1..4)
    <3>1. n \in Nat /\ 1..(n - 1) \subseteq 1..n /\ n \in 1..n
      OBVIOUS
    <3>2. \A j \in 1..k : j \in 1..4
      <4> HIDE DEF L
      <4> QED BY <1>1
    <3> QED BY <3>1, <3>2, <1>3
  <2>2. IsFiniteSet((1..n) \X (1..4))
    BY PlacesFinite
  <2> QED BY <2>1, <2>2, FS_Subset
<1>5. h[0] = first
  <2>1. Upto(0) = Places(t, n - 1)
    OBVIOUS
  <2>2. {t[i] : i \in 1..n} = {t[i] : i \in 1..(n - 1)} \union {t[n]}
    <3>1. 1..n = (1..(n - 1)) \union {n}
      OBVIOUS
    <3> QED BY <3>1
  <2>3. h[0] = Visits(t, 1..n, Upto(0))
    <3>1. 0 \in 0..L
      BY <1>1
    <3> HIDE DEF Upto
    <3> QED BY <3>1
  <2>4. h[0] = Visits(t, 1..n, Places(t, n - 1))
    BY <2>1, <2>3
  <2>5. first = Visits(t, 1..n, Places(t, n - 1))
    <3> DEFINE A == Places(t, n - 1)
               before == Visits(t, 1..(n - 1), A)
               after == Visits(t, 1..n, A)
    <3>1. /\ before.ids = {t[i] : i \in 1..(n - 1)} /\ after.ids = {t[i] : i \in 1..n}
          /\ before.states = after.states /\ before.hits = after.hits /\ before.goal = after.goal
          /\ before = [ids |-> before.ids, states |-> before.states, hits |-> before.hits,
                       goal |-> before.goal]
          /\ after = [ids |-> after.ids, states |-> after.states, hits |-> after.hits,
                      goal |-> after.goal]
      BY DEF Visits
    <3>2. first = [before EXCEPT !.ids = before.ids \union {t[n]}]
      OBVIOUS
    <3> HIDE DEF before, after, first
    <3>3. first = after
      BY <2>2, <3>1, <3>2
    <3> QED BY <3>3 DEF after
  <2> HIDE DEF h, first
  <2> QED BY <2>4, <2>5
<1>6. ASSUME NEW k \in 1..L PROVE h[k] = SlotAudit!VisitStep(h[k - 1], refs[k])
  <2>1. Upto(k) = Upto(k - 1) \union {<<n, k>>}
    <3>1. 1..k = (1..(k - 1)) \union {k}
      BY <1>1
    <3>2. {<<n, j>> : j \in (1..(k - 1)) \union {k}} = {<<n, j>> : j \in 1..(k - 1)} \union {<<n, k>>}
      OBVIOUS
    <3> QED BY <3>1, <3>2
  <2>2. <<n, k>> \notin Upto(k - 1)
    BY <1>1, <1>3
  <2>3. k - 1 \in 0..L /\ k \in 0..L /\ k \in 1..Len(t[n])
    BY <1>1
  <2>4. IsFiniteSet(Upto(k - 1))
    BY <1>4, <2>3
  <2>5. h[k] = Visits(t, 1..n, Upto(k)) /\ h[k - 1] = Visits(t, 1..n, Upto(k - 1))
    BY <2>3
  <2> HIDE DEF h, Upto
  <2> QED BY <1>2, <2>1, <2>2, <2>3, <2>4, <2>5, VisitAdds
<1> DEFINE u == [k \in 0..L |-> IF k = 0 THEN first ELSE SlotAudit!VisitStep(h[k - 1], refs[k])]
<1>7. Meets(h)
  <2>1. \A k \in 0..L : h[k] = u[k]
    <3>1. \A k \in 0..L : k = 0 \/ k \in 1..L
      BY <1>1
    <3> HIDE DEF h, first, refs
    <3> QED BY <3>1, <1>5, <1>6
  <2>2. h = [k \in 0..L |-> h[k]] /\ u = [k \in 0..L |-> u[k]]
    <3> HIDE DEF first, refs, Upto
    <3> QED OBVIOUS
  <2> HIDE DEF h, u
  <2>3. h = u
    BY <2>1, <2>2
  <2> QED BY <2>3 DEF u
<1> DEFINE g == CHOOSE f : Meets(f)
<1>8. Meets(g)
  BY <1>7
<1> HIDE DEF h
<1>9. SlotAudit!VisitSteps(snap, t[n]) = g[L]
  BY DEF SlotAudit!VisitSteps
<1>10. g[0] = first /\ \A k \in 1..L : g[k] = SlotAudit!VisitStep(g[k - 1], refs[k])
  <2> DEFINE v == [k \in 0..L |-> IF k = 0 THEN first ELSE SlotAudit!VisitStep(g[k - 1], refs[k])]
  <2>1. g = v
    BY <1>8
  <2>2. v[0] = first /\ \A k \in 1..L : v[k] = SlotAudit!VisitStep(g[k - 1], refs[k])
    <3>1. 0 \in 0..L /\ \A k \in 1..L : k \in 0..L /\ k # 0
      BY <1>1
    <3> HIDE DEF first, refs, g
    <3> QED BY <3>1
  <2> HIDE DEF v, g
  <2> QED BY <2>1, <2>2
<1> HIDE DEF g, first, refs
<1>11. g[L] = h[L]
  <2>1. \A k \in 1..L : g[k - 1] = h[k - 1] => g[k] = h[k]
    BY <1>6, <1>10
  <2>3. L \in Nat /\ g[0] = h[0]
    BY <1>1, <1>5, <1>10
  <2> HIDE DEF L
  <2>2. \A k \in 0..L : g[k] = h[k]
    BY <2>1, <2>3, Folded
  <2> QED BY <2>2, <1>1
<1>12. h[L] = Visits(t, 1..n, Upto(L))
  BY <1>1 DEF h
<1>13. Upto(L) = Places(t, n)
  <2>1. n \in Nat /\ 1..n = (1..(n - 1)) \union {n} /\ n \notin 1..(n - 1)
    OBVIOUS
  <2>2. Places(t, n) = Places(t, n - 1) \union {x \in {n} \X (1..4) : x[2] <= Len(t[x[1]])}
    BY <2>1 DEF Places
  <2>3. ASSUME NEW x
        PROVE  x \in {y \in {n} \X (1..4) : y[2] <= Len(t[y[1]])} <=> x \in {<<n, j>> : j \in 1..L}
    <3>1. ASSUME x \in {y \in {n} \X (1..4) : y[2] <= Len(t[y[1]])} PROVE \E j \in 1..L : x = <<n, j>>
      <4>1. x = <<n, x[2]>> /\ x[2] \in 1..4 /\ x[2] <= L
        BY <3>1
      <4> HIDE DEF L
      <4> QED BY <4>1, <1>1
    <3>2. ASSUME NEW j \in 1..L, x = <<n, j>>
          PROVE  x \in {y \in {n} \X (1..4) : y[2] <= Len(t[y[1]])}
      <4>1. j \in 1..4 /\ j <= L
        <5> HIDE DEF L
        <5> QED BY <1>1
      <4> QED BY <3>2, <4>1
    <3> HIDE DEF L
    <3> QED BY <3>1, <3>2
  <2> QED BY <2>2, <2>3
<1> QED BY <1>9, <1>11, <1>12, <1>13

\* The audit visits the sequences one by one and counts all of their places.
LEMMA AuditSees ==
  ASSUME SlotAudit!AuditAssumption, NEW t \in Seq(Plans)
  PROVE  SlotAudit!AuditSnapshot(t) = Visits(t, 1..Len(t), Places(t, Len(t)))
<1> DEFINE L == Len(t)
           first == SlotAudit!Visited
           h == [n \in 0..L |-> Visits(t, 1..n, Places(t, n))]
           Meets(f) == f = [n \in 0..L |->
             IF n = 0 THEN first ELSE SlotAudit!VisitSteps(f[n - 1], t[n])]
<1>1. L \in Nat
  OBVIOUS
<1>2. h[0] = first
  <2>1. 1..0 = {} /\ Places(t, 0) = {}
    BY DEF Places
  <2>2. h[0] = Visits(t, {}, {})
    <3>1. 0 \in 0..L
      BY <1>1
    <3> QED BY <3>1, <2>1
  <2>3. Visits(t, {}, {}).hits = <<>>
    <3> DEFINE f == Visits(t, {}, {}).hits
    <3>1. f = [m \in {t[x[1]][x[2]] : x \in {}} |-> Cardinality({x \in {} : t[x[1]][x[2]] = m})]
      BY DEF Visits
    <3>2. {t[x[1]][x[2]] : x \in {}} = {}
      OBVIOUS
    <3>3. DOMAIN f = {} /\ f = [m \in {} |-> f[m]]
      BY <3>1, <3>2
    <3> HIDE DEF f
    <3>4. f = <<>>
      BY <3>3
    <3> QED BY <3>4 DEF f
  <2>4. Visits(t, {}, {}) = [ids |-> {}, states |-> {}, hits |-> Visits(t, {}, {}).hits, goal |-> FALSE]
    BY DEF Visits
  <2> QED BY <2>2, <2>3, <2>4 DEF SlotAudit!Visited
<1>3. ASSUME NEW n \in 1..L PROVE h[n] = SlotAudit!VisitSteps(h[n - 1], t[n])
  <2>1. n \in 0..L /\ n - 1 \in 0..L /\ n \in 1..Len(t)
    OBVIOUS
  <2>2. h[n] = Visits(t, 1..n, Places(t, n)) /\ h[n - 1] = Visits(t, 1..(n - 1), Places(t, n - 1))
    BY <2>1
  <2> HIDE DEF h
  <2> QED BY <2>1, <2>2, VisitsSequence
<1> DEFINE u == [n \in 0..L |-> IF n = 0 THEN first ELSE SlotAudit!VisitSteps(h[n - 1], t[n])]
<1>4. Meets(h)
  <2>1. \A n \in 0..L : h[n] = u[n]
    <3>1. \A n \in 0..L : n = 0 \/ n \in 1..L
      BY <1>1
    <3> HIDE DEF h, first
    <3> QED BY <3>1, <1>2, <1>3
  <2>2. h = [n \in 0..L |-> h[n]] /\ u = [n \in 0..L |-> u[n]]
    <3> HIDE DEF first
    <3> QED OBVIOUS
  <2> HIDE DEF h, u
  <2>3. h = u
    BY <2>1, <2>2
  <2> QED BY <2>3 DEF u
<1> DEFINE g == CHOOSE f : Meets(f)
<1>5. Meets(g)
  BY <1>4
<1> HIDE DEF h
<1>6. SlotAudit!AuditSnapshot(t) = g[L]
  BY DEF SlotAudit!AuditSnapshot
<1>7. g[0] = first /\ \A n \in 1..L : g[n] = SlotAudit!VisitSteps(g[n - 1], t[n])
  <2> DEFINE v == [n \in 0..L |-> IF n = 0 THEN first ELSE SlotAudit!VisitSteps(g[n - 1], t[n])]
  <2>1. g = v
    BY <1>5
  <2>2. v[0] = first /\ \A n \in 1..L : v[n] = SlotAudit!VisitSteps(g[n - 1], t[n])
    <3>1. 0 \in 0..L /\ \A n \in 1..L : n \in 0..L /\ n # 0
      BY <1>1
    <3> HIDE DEF first, g
    <3> QED BY <3>1
  <2> HIDE DEF v, g
  <2> QED BY <2>1, <2>2
<1> HIDE DEF g, first
<1>8. g[L] = h[L]
  <2>1. \A n \in 1..L : g[n - 1] = h[n - 1] => g[n] = h[n]
    BY <1>3, <1>7
  <2>2. g[0] = h[0]
    BY <1>2, <1>7
  <2> HIDE DEF L
  <2>3. \A n \in 0..L : g[n] = h[n]
    BY <2>1, <2>2, <1>1, Folded
  <2> QED BY <2>3, <1>1
<1>9. h[L] = Visits(t, 1..L, Places(t, L))
  BY <1>1 DEF h
<1> QED BY <1>6, <1>8, <1>9

LEMMA SlotCount == ASSUME NEW S PROVE SlotAudit!Cardinality(S) = Cardinality(S)
BY DEF SlotAudit!Cardinality, Cardinality

\* What the runner finds of events is what their calls visit.
CallsOf(events) == [i \in DOMAIN events |-> events[i].calls]

LEMMA RunnerSees ==
  ASSUME SlotAudit!AuditAssumption, NEW E, NEW s \in Seq(E), \A e \in E : e.calls \in Plans
  PROVE  /\ CallsOf(s) \in Seq(Plans) /\ Len(CallsOf(s)) = Len(s)
         /\ SlotAudit!Snapshot(s) = Visits(CallsOf(s), 1..Len(s), Places(CallsOf(s), Len(s)))
<1> DEFINE t == CallsOf(s)
           L == Len(s)
           A == Places(t, L)
<1>1. L \in Nat /\ DOMAIN s = 1..L /\ \A i \in 1..L : s[i] \in E
  OBVIOUS
<1>2. t \in Seq(Plans) /\ Len(t) = L /\ \A i \in 1..L : t[i] = s[i].calls
  BY <1>1 DEF CallsOf
<1> HIDE DEF L, t
<1>3. \A i \in 1..L : t[i] \in Seq(Calls) /\ Len(t[i]) \in 1..4
  BY <1>1, <1>2 DEF SlotAudit!AuditAssumption
<1> DEFINE walks == UNION {SlotAudit!ToSet(SlotAudit!Steps(s[i])) : i \in DOMAIN s}
<1>4. A = {x \in (DOMAIN s) \X (1..4) : x[2] <= Len(s[x[1]].calls)}
  BY <1>1, <1>2 DEF Places
<1>5. \A x \in A : x[1] \in 1..L /\ x[2] \in 1..Len(t[x[1]])
  BY <1>3 DEF Places
<1>6. ASSUME NEW p PROVE p \in walks <=> \E x \in A : p = SlotStep(t, x)
  <2>1. ASSUME NEW i \in 1..L
        PROVE  SlotAudit!ToSet(SlotAudit!Steps(s[i])) = {SubSeq(t[i], 1, k) : k \in 1..Len(t[i])}
    BY <2>1, <1>2, <1>3 DEF SlotAudit!ToSet, SlotAudit!Steps, SlotAudit!PrefixReferences
  <2>2. p \in walks <=> \E i \in 1..L : \E k \in 1..Len(t[i]) : p = SubSeq(t[i], 1, k)
    BY <2>1, <1>1
  <2>3. ASSUME NEW i \in 1..L, NEW k \in 1..Len(t[i])
        PROVE  <<i, k>> \in A /\ SlotStep(t, <<i, k>>) = SubSeq(t[i], 1, k)
    <3>1. k \in 1..4 /\ k <= Len(t[i])
      <4> DEFINE l == Len(t[i])
      <4>1. l \in 1..4
        BY <1>3
      <4>2. k \in 1..l
        OBVIOUS
      <4> HIDE DEF l
      <4>3. k \in 1..4 /\ k <= l
        BY <4>1, <4>2
      <4> QED BY <4>3 DEF l
    <3> QED BY <3>1 DEF Places, SlotStep
  <2>4. \A x \in A : SlotStep(t, x) = SubSeq(t[x[1]], 1, x[2])
    BY DEF SlotStep
  <2> HIDE DEF walks, A
  <2> QED BY <2>2, <2>3, <2>4, <1>5
<1>7. ASSUME NEW x \in A PROVE SlotAudit!Marker(SlotStep(t, x)) = t[x[1]][x[2]]
  <2>1. t[x[1]] \in Seq(Calls) /\ x[2] \in 1..Len(t[x[1]])
    BY <1>3, <1>5
  <2>2. Len(SubSeq(t[x[1]], 1, x[2])) = x[2] /\ SubSeq(t[x[1]], 1, x[2])[x[2]] = t[x[1]][x[2]]
    BY <2>1
  <2> QED BY <2>2 DEF SlotAudit!Marker, SlotAudit!Last, SlotStep
<1> DEFINE snap == SlotAudit!Snapshot(s)
           seen == Visits(t, 1..L, A)
<1>8. snap.ids = seen.ids
  BY <1>1, <1>2 DEF SlotAudit!Snapshot, Visits
<1>9. snap.states = seen.states
  <2>1. snap.states = {SlotAudit!StateOf(p) : p \in walks}
    BY DEF SlotAudit!Snapshot
  <2>2. seen.states = {SlotAudit!StateOf(SlotStep(t, x)) : x \in A}
    BY DEF Visits
  <2> HIDE DEF walks, A, snap, seen
  <2> QED BY <2>1, <2>2, <1>6
<1>10. snap.goal = seen.goal
  <2>1. snap.goal = (\E p \in walks : SlotAudit!GoalAt(p))
    BY DEF SlotAudit!Snapshot
  <2>2. seen.goal = (\E x \in A : SlotAudit!GoalAt(SlotStep(t, x)))
    BY DEF Visits
  <2>3. (\E p \in walks : SlotAudit!GoalAt(p)) <=> (\E x \in A : SlotAudit!GoalAt(SlotStep(t, x)))
    <3> HIDE DEF walks, A
    <3> QED BY <1>6
  <2> HIDE DEF walks, A, snap, seen
  <2> QED BY <2>1, <2>2, <2>3
<1>11. snap.hits = seen.hits
  <2> DEFINE D1 == {SlotAudit!Marker(p) : p \in walks}
             D2 == {t[x[1]][x[2]] : x \in A}
             c1(m) == Cardinality({x \in A : s[x[1]].calls[x[2]] = m})
             c2(m) == Cardinality({x \in A : t[x[1]][x[2]] = m})
  <2>1. snap.hits = [m \in D1 |-> c1(m)]
    <3> DEFINE B == {x \in (DOMAIN s) \X (1..4) : x[2] <= Len(s[x[1]].calls)}
           F == [m \in D1 |-> Cardinality({x \in B : s[x[1]].calls[x[2]] = m})]
           S == {SlotAudit!StateOf(p) : p \in walks}
           G == \E p \in walks : SlotAudit!GoalAt(p)
           I == {s[i].calls : i \in DOMAIN s}
           F0 == [m \in D1 |-> SlotAudit!Cardinality({x \in B : s[x[1]].calls[x[2]] = m})]
    <3>4. snap = [ids |-> I, states |-> S, hits |-> F0, goal |-> G]
      BY DEF SlotAudit!Snapshot
    <3>5. F0 = F
      <4> HIDE DEF D1, B
      <4> QED BY SlotCount
    <3>3. snap = [ids |-> I, states |-> S, hits |-> F, goal |-> G]
      <4> HIDE DEF snap, G, S, I, F, F0
      <4> QED BY <3>4, <3>5
    <3>1. snap.hits = [m \in D1 |-> Cardinality({x \in B : s[x[1]].calls[x[2]] = m})]
      <4> HIDE DEF snap, G, S, I, D1, B
      <4> QED BY <3>3
    <3>2. A = B
      BY <1>4
    <3> HIDE DEF D1, A, B, snap
    <3> QED BY <3>1, <3>2
  <2>2. seen.hits = [m \in D2 |-> c2(m)]
    BY DEF Visits
  <2>3. D1 = D2
    <3> HIDE DEF walks, A
    <3> QED BY <1>6, <1>7
  <2>4. ASSUME NEW m PROVE c1(m) = c2(m)
    <3>1. \A x \in A : s[x[1]].calls = t[x[1]]
      BY <1>2, <1>5
    <3> HIDE DEF A
    <3>2. {x \in A : s[x[1]].calls[x[2]] = m} = {x \in A : t[x[1]][x[2]] = m}
      BY <3>1
    <3> QED BY <3>2
  <2> HIDE DEF D1, D2, c1, c2, snap, seen
  <2> QED BY <2>1, <2>2, <2>3, <2>4
<1>12. snap = [ids |-> snap.ids, states |-> snap.states, hits |-> snap.hits, goal |-> snap.goal]
  BY DEF SlotAudit!Snapshot
<1>13. seen = [ids |-> seen.ids, states |-> seen.states, hits |-> seen.hits, goal |-> seen.goal]
  BY DEF Visits
<1>14. snap = seen
  <2> HIDE DEF snap, seen
  <2> QED BY <1>8, <1>9, <1>10, <1>11, <1>12, <1>13
<1> QED BY <1>2, <1>14 DEF t, L

LEMMA SlotAmong == ASSUME NEW s, NEW S PROVE SlotAudit!Among(s, S) = Among(s, S)
BY DEF SlotAudit!Among, Among

\* A list without its ith element.
LEMMA RemoveAtIs ==
  ASSUME NEW T, NEW s \in Seq(T), NEW i \in 1..Len(s)
  PROVE  /\ SlotAudit!RemoveAt(s, i) \in Seq(T)
         /\ Len(SlotAudit!RemoveAt(s, i)) = Len(s) - 1
         /\ \A j \in 1..(Len(s) - 1) :
              SlotAudit!RemoveAt(s, i)[j] = IF j < i THEN s[j] ELSE s[j + 1]
<1> DEFINE r == SlotAudit!RemoveAt(s, i)
<1>1. r = SubSeq(s, 1, i - 1) \o SubSeq(s, i + 1, Len(s))
  BY DEF SlotAudit!RemoveAt
<1> HIDE DEF r
<1>2. /\ r \in Seq(T) /\ Len(r) = Len(s) - 1
      /\ \A j \in 1..(Len(s) - 1) : r[j] = IF j < i THEN s[j] ELSE s[j + 1]
  BY <1>1, WithoutOne
<1> QED BY <1>2 DEF r

\* The events of a campaign: completed sequences with their lineage, and one that
\* was cut short.
SlotKinds == {"startup_replay", "new_sequence", "mutation"}
SlotLineages ==
  [index : Nat, kind : SlotKinds, parents : SUBSET Seq(Calls), output : Plans,
   executed : {TRUE}, resolved : BOOLEAN, different : BOOLEAN, offset : Int]
SlotEvents ==
  {SlotAudit!SequenceEvent(i, c, l) : i \in Nat, c \in Plans, l \in SlotLineages}
SlotPartials == {SlotAudit!PartialEvent(i, c) : i \in Nat, c \in Seq(Calls) \ {<<>>}}

LEMMA EventIs ==
  ASSUME NEW e \in SlotEvents
  PROVE  /\ e.type = "sequence" /\ e.index \in Nat /\ e.calls \in Plans /\ e.complete
         /\ e.refs = SlotAudit!PrefixReferences(e.calls) /\ e.lineage # <<>>
         /\ e.lineage[1] \in SlotLineages /\ SlotAudit!Kind(e) \in SlotKinds
         /\ SlotAudit!Kind(e) = e.lineage[1].kind
<1>1. PICK i \in Nat, c \in Plans, l \in SlotLineages : e = SlotAudit!SequenceEvent(i, c, l)
  BY DEF SlotEvents
<1>2. e = [type |-> "sequence", index |-> i, calls |-> c, complete |-> TRUE,
           refs |-> SlotAudit!PrefixReferences(c), lineage |-> <<l>>]
  BY <1>1 DEF SlotAudit!SequenceEvent
<1>3. e.lineage[1] = l /\ e.lineage # <<>>
  BY <1>2
<1> QED BY <1>2, <1>3 DEF SlotAudit!Kind, SlotLineages

LEMMA PartialIs ==
  ASSUME NEW e \in SlotPartials
  PROVE  /\ e.type = "partial" /\ e.index \in Nat /\ e.calls \in Seq(Calls) /\ e.calls # <<>>
         /\ ~e.complete /\ e.lineage = <<>> /\ e.refs = SlotAudit!PrefixReferences(e.calls)
BY DEF SlotPartials, SlotAudit!PartialEvent

----------------------------------------------------------------------------
(* The uses of seeds as parents *)

Bred(events, I) == {i \in I : SlotAudit!Kind(events[i]) = "mutation"}
Parents(e) == e.lineage[1].parents
UseOf(events, p, J) ==
  [selected |-> Cardinality({i \in J : p \in Parents(events[i])}),
   different |-> Cardinality({i \in {k \in J : events[k].lineage[1].different} :
                                p \in Parents(events[i])}),
   executed |-> Cardinality({i \in {k \in J : events[k].lineage[1].executed} :
                               p \in Parents(events[i])})]
UsesOf(events, I) ==
  [p \in UNION {Parents(events[i]) : i \in Bred(events, I)} |-> UseOf(events, p, Bred(events, I))]

\* One more mutation counts one more use of each of its parents.
LEMMA UseAgain ==
  ASSUME NEW events, NEW J, IsFiniteSet(J), NEW x, x \notin J, NEW p,
         events[x].lineage[1].different \in BOOLEAN, events[x].lineage[1].executed \in BOOLEAN
  PROVE  UseOf(events, p, J \union {x}) =
           [selected |-> UseOf(events, p, J).selected + (IF p \in Parents(events[x]) THEN 1 ELSE 0),
            different |-> UseOf(events, p, J).different
              + (IF p \in Parents(events[x]) /\ events[x].lineage[1].different THEN 1 ELSE 0),
            executed |-> UseOf(events, p, J).executed
              + (IF p \in Parents(events[x]) /\ events[x].lineage[1].executed THEN 1 ELSE 0)]
<1> DEFINE K == J \union {x}
           A(M) == {i \in M : p \in Parents(events[i])}
           D(M) == {i \in {k \in M : events[k].lineage[1].different} : p \in Parents(events[i])}
           E(M) == {i \in {k \in M : events[k].lineage[1].executed} : p \in Parents(events[i])}
           a == p \in Parents(events[x])
           d == p \in Parents(events[x]) /\ events[x].lineage[1].different
           e == p \in Parents(events[x]) /\ events[x].lineage[1].executed
<1>1. /\ IsFiniteSet(A(J)) /\ x \notin A(J) /\ IsFiniteSet(D(J)) /\ x \notin D(J)
      /\ IsFiniteSet(E(J)) /\ x \notin E(J)
  BY FS_Subset
<1>2. /\ A(K) = A(J) \union (IF a THEN {x} ELSE {}) /\ D(K) = D(J) \union (IF d THEN {x} ELSE {})
      /\ E(K) = E(J) \union (IF e THEN {x} ELSE {})
  OBVIOUS
<1>3. a \in BOOLEAN /\ d \in BOOLEAN /\ e \in BOOLEAN
  OBVIOUS
<1>4. UseOf(events, p, J) = [selected |-> Cardinality(A(J)), different |-> Cardinality(D(J)),
                             executed |-> Cardinality(E(J))]
  BY DEF UseOf
<1>5. UseOf(events, p, K) = [selected |-> Cardinality(A(K)), different |-> Cardinality(D(K)),
                             executed |-> Cardinality(E(K))]
  BY DEF UseOf
<1> HIDE DEF A, D, E, K
<1>6. Cardinality(A(K)) = Cardinality(A(J)) + (IF a THEN 1 ELSE 0)
  <2> HIDE DEF a
  <2> QED BY <1>1, <1>2, <1>3, OneMore
<1>7. Cardinality(D(K)) = Cardinality(D(J)) + (IF d THEN 1 ELSE 0)
  <2> HIDE DEF d
  <2> QED BY <1>1, <1>2, <1>3, OneMore
<1>8. Cardinality(E(K)) = Cardinality(E(J)) + (IF e THEN 1 ELSE 0)
  <2> HIDE DEF e
  <2> QED BY <1>1, <1>2, <1>3, OneMore
<1>9. UseOf(events, p, K) =
        [selected |-> UseOf(events, p, J).selected + (IF a THEN 1 ELSE 0),
         different |-> UseOf(events, p, J).different + (IF d THEN 1 ELSE 0),
         executed |-> UseOf(events, p, J).executed + (IF e THEN 1 ELSE 0)]
  <2> HIDE DEF a, d, e
  <2>1. /\ UseOf(events, p, J).selected = Cardinality(A(J))
        /\ UseOf(events, p, J).different = Cardinality(D(J))
        /\ UseOf(events, p, J).executed = Cardinality(E(J))
    BY <1>4
  <2> QED BY <1>5, <1>6, <1>7, <1>8, <2>1
<1> QED BY <1>9 DEF K

LEMMA UseCounts ==
  ASSUME NEW events, NEW I, IsFiniteSet(I), NEW x, x \notin I,
         SlotAudit!Kind(events[x]) = "mutation",
         events[x].lineage[1].different \in BOOLEAN, events[x].lineage[1].executed \in BOOLEAN
  PROVE  SlotAudit!CountUse(UsesOf(events, I), events[x].lineage[1]) = UsesOf(events, I \union {x})
<1> DEFINE l == events[x].lineage[1]
           J == Bred(events, I)
           K == Bred(events, I \union {x})
           D == UNION {Parents(events[i]) : i \in J}
           old == UsesOf(events, I)
           Zero == [selected |-> 0, different |-> 0, executed |-> 0]
           Old(p) == IF p \in DOMAIN old THEN old[p] ELSE Zero
           Add(p, flag) == IF p \in l.parents /\ flag THEN 1 ELSE 0
           New(p) == [selected |-> Old(p).selected + Add(p, TRUE),
                      different |-> Old(p).different + Add(p, l.different),
                      executed |-> Old(p).executed + Add(p, l.executed)]
<1>1. K = J \union {x} /\ x \notin J /\ IsFiniteSet(J)
  <2>1. J \subseteq I
    BY DEF Bred
  <2>2. K = J \union {x}
    BY DEF Bred
  <2> QED BY <2>1, <2>2, FS_Subset
<1>2. DOMAIN old = D /\ \A p \in D : old[p] = UseOf(events, p, J)
  BY DEF UsesOf
<1>3. UNION {Parents(events[i]) : i \in K} = D \union l.parents
  <2>1. \A i : i \in K <=> i \in J \/ i = x
    BY <1>1
  <2> HIDE DEF K, J
  <2> QED BY <2>1 DEF Parents
<1>4. SlotAudit!CountUse(old, l) = [p \in DOMAIN old \union l.parents |-> New(p)]
  BY DEF SlotAudit!CountUse
<1>5. UsesOf(events, I \union {x}) = [p \in D \union l.parents |-> UseOf(events, p, K)]
  <2> DEFINE X == UNION {Parents(events[i]) : i \in K}
             Y == D \union l.parents
  <2>1. UsesOf(events, I \union {x}) = [p \in X |-> UseOf(events, p, K)]
    BY DEF UsesOf
  <2>2. X = Y
    BY <1>3
  <2> HIDE DEF X, Y, K
  <2>3. UsesOf(events, I \union {x}) = [p \in Y |-> UseOf(events, p, K)]
    BY <2>1, <2>2
  <2> QED BY <2>3 DEF Y
<1>6. ASSUME NEW p PROVE Old(p) = UseOf(events, p, J)
  <2>1. CASE p \in D
    BY <2>1, <1>2
  <2>2. CASE p \notin D
    <3>1. \A i \in J : p \notin Parents(events[i])
      BY <2>2
    <3>2. UseOf(events, p, J) = [selected |-> Cardinality({}), different |-> Cardinality({}),
                                 executed |-> Cardinality({})]
      <4>1. /\ {i \in J : p \in Parents(events[i])} = {}
            /\ {i \in {k \in J : events[k].lineage[1].different} : p \in Parents(events[i])} = {}
            /\ {i \in {k \in J : events[k].lineage[1].executed} : p \in Parents(events[i])} = {}
        BY <3>1
      <4> QED BY <4>1 DEF UseOf
    <3> QED BY <3>2, <2>2, <1>2, FS_EmptySet
  <2> QED BY <2>1, <2>2
<1>7. ASSUME NEW p PROVE New(p) = UseOf(events, p, K)
  <2> DEFINE u == UseOf(events, p, J)
  <2>1. Old(p) = u
    BY <1>6
  <2>2. UseOf(events, p, J \union {x}) =
          [selected |-> u.selected + (IF p \in Parents(events[x]) THEN 1 ELSE 0),
           different |-> u.different
             + (IF p \in Parents(events[x]) /\ events[x].lineage[1].different THEN 1 ELSE 0),
           executed |-> u.executed
             + (IF p \in Parents(events[x]) /\ events[x].lineage[1].executed THEN 1 ELSE 0)]
    BY <1>1, UseAgain
  <2>3. p \in l.parents <=> p \in Parents(events[x])
    BY DEF Parents
  <2> HIDE DEF u, J, K, Old
  <2>4. New(p) =
          [selected |-> u.selected + (IF p \in Parents(events[x]) THEN 1 ELSE 0),
           different |-> u.different
             + (IF p \in Parents(events[x]) /\ events[x].lineage[1].different THEN 1 ELSE 0),
           executed |-> u.executed
             + (IF p \in Parents(events[x]) /\ events[x].lineage[1].executed THEN 1 ELSE 0)]
    BY <2>1, <2>3
  <2> QED BY <1>1, <2>2, <2>4
<1> HIDE DEF New, K, D, old, l
<1>8. [p \in D \union l.parents |-> New(p)] = [p \in D \union l.parents |-> UseOf(events, p, K)]
  BY <1>7
<1>9. SlotAudit!CountUse(old, l) = UsesOf(events, I \union {x})
  BY <1>2, <1>4, <1>5, <1>8
<1> QED BY <1>9 DEF old, l

\* The audit counts the uses one by one, and counts all of them.
LEMMA UsesCounted ==
  ASSUME NEW events \in Seq(SlotEvents)
  PROVE  SlotAudit!AuditUses(events) = SlotAudit!SeedUse(events)
<1> DEFINE L == Len(events)
           first == <<>>
           Next1(v, n) == IF SlotAudit!Kind(events[n]) # "mutation" THEN v
                          ELSE SlotAudit!CountUse(v, events[n].lineage[1])
           h == [n \in 0..L |-> UsesOf(events, 1..n)]
           Meets(f) == f = [n \in 0..L |->
             IF n = 0 THEN <<>>
             ELSE IF SlotAudit!Kind(events[n]) # "mutation" THEN f[n - 1]
             ELSE SlotAudit!CountUse(f[n - 1], events[n].lineage[1])]
<1>1. L \in Nat
  OBVIOUS
<1>2. h[0] = first
  <2>1. 1..0 = {} /\ Bred(events, {}) = {}
    BY DEF Bred
  <2>2. UNION {Parents(events[i]) : i \in Bred(events, {})} = {}
    BY <2>1
  <2> DEFINE f == UsesOf(events, {})
  <2>3. f = [p \in {} |-> f[p]] /\ DOMAIN f = {}
    BY <2>2 DEF UsesOf
  <2>4. h[0] = f
    <3>1. 0 \in 0..L
      BY <1>1
    <3> QED BY <3>1, <2>1
  <2> HIDE DEF f, h
  <2> QED BY <2>3, <2>4
<1>3. ASSUME NEW n \in 1..L PROVE h[n] = Next1(h[n - 1], n)
  <2>1. n \in 0..L /\ n - 1 \in 0..L /\ 1..n = (1..(n - 1)) \union {n} /\ n \notin 1..(n - 1)
    OBVIOUS
  <2>2. h[n] = UsesOf(events, 1..n) /\ h[n - 1] = UsesOf(events, 1..(n - 1))
    BY <2>1
  <2> HIDE DEF h
  <2>3. IsFiniteSet(1..(n - 1))
    <3>1. n - 1 \in Nat
      OBVIOUS
    <3> QED BY <3>1, CountTo
  <2>4. events[n] \in SlotEvents
    OBVIOUS
  <2>5. events[n].lineage[1] \in SlotLineages
    BY <2>4, EventIs
  <2>6. events[n].lineage[1].different \in BOOLEAN /\ events[n].lineage[1].executed \in BOOLEAN
    BY <2>5 DEF SlotLineages
  <2>7. CASE SlotAudit!Kind(events[n]) = "mutation"
    <3> DEFINE I == 1..(n - 1)
    <3>1. h[n] = UsesOf(events, I \union {n})
      BY <2>1, <2>2
    <3>2. n \notin I /\ IsFiniteSet(I) /\ h[n - 1] = UsesOf(events, I)
      BY <2>1, <2>2, <2>3
    <3> HIDE DEF I
    <3>3. SlotAudit!CountUse(UsesOf(events, I), events[n].lineage[1]) = UsesOf(events, I \union {n})
      BY <3>2, <2>6, <2>7, UseCounts
    <3> QED BY <3>1, <3>2, <3>3, <2>7
  <2>8. CASE SlotAudit!Kind(events[n]) # "mutation"
    <3>1. Bred(events, 1..n) = Bred(events, 1..(n - 1))
      BY <2>1, <2>8 DEF Bred
    <3>2. UsesOf(events, 1..n) = UsesOf(events, 1..(n - 1))
      BY <3>1 DEF UsesOf
    <3> QED BY <2>2, <3>2, <2>8
  <2> QED BY <2>7, <2>8
<1> DEFINE u == [n \in 0..L |-> IF n = 0 THEN first ELSE Next1(h[n - 1], n)]
<1>4. Meets(h)
  <2>1. \A n \in 0..L : h[n] = u[n]
    <3>1. \A n \in 0..L : n = 0 \/ n \in 1..L
      BY <1>1
    <3> HIDE DEF h, first
    <3> QED BY <3>1, <1>2, <1>3
  <2>2. h = [n \in 0..L |-> h[n]] /\ u = [n \in 0..L |-> u[n]]
    <3> HIDE DEF first
    <3> QED OBVIOUS
  <2> HIDE DEF h, u
  <2>3. h = u
    BY <2>1, <2>2
  <2> QED BY <2>3 DEF u
<1> DEFINE g == CHOOSE f : Meets(f)
<1>5. Meets(g)
  BY <1>4
<1> HIDE DEF h
<1>6. SlotAudit!AuditUses(events) = g[L]
  BY DEF SlotAudit!AuditUses
<1>7. g[0] = first /\ \A n \in 1..L : g[n] = Next1(g[n - 1], n)
  <2> DEFINE v == [n \in 0..L |-> IF n = 0 THEN first ELSE Next1(g[n - 1], n)]
  <2>1. g = v
    BY <1>5
  <2>2. v[0] = first /\ \A n \in 1..L : v[n] = Next1(g[n - 1], n)
    <3>1. 0 \in 0..L /\ \A n \in 1..L : n \in 0..L /\ n # 0
      BY <1>1
    <3> HIDE DEF first, g
    <3> QED BY <3>1
  <2> HIDE DEF v, g
  <2> QED BY <2>1, <2>2
<1> HIDE DEF g, first
<1>8. g[L] = h[L]
  <2>1. \A n \in 1..L : g[n - 1] = h[n - 1] => g[n] = h[n]
    BY <1>3, <1>7
  <2>2. g[0] = h[0]
    BY <1>2, <1>7
  <2> HIDE DEF L
  <2>3. \A n \in 0..L : g[n] = h[n]
    BY <2>1, <2>2, <1>1, Folded
  <2> QED BY <2>3, <1>1
<1>9. h[L] = UsesOf(events, 1..L)
  BY <1>1 DEF h
<1>10. UsesOf(events, 1..L) = SlotAudit!SeedUse(events)
  <2> DEFINE bred == {i \in DOMAIN events : SlotAudit!Kind(events[i]) = "mutation"}
             Of(p, those) == SlotAudit!Cardinality({i \in those : p \in events[i].lineage[1].parents})
             Use(p) == [selected |-> Of(p, bred),
                        different |-> Of(p, {i \in bred : events[i].lineage[1].different}),
                        executed |-> Of(p, {i \in bred : events[i].lineage[1].executed})]
             X == UNION {events[i].lineage[1].parents : i \in bred}
  <2>1. bred = Bred(events, 1..L)
    BY DEF Bred
  <2>2. SlotAudit!SeedUse(events) = [p \in X |-> Use(p)]
    BY DEF SlotAudit!SeedUse
  <2>3. ASSUME NEW p PROVE Use(p) = UseOf(events, p, bred)
    <3> HIDE DEF bred
    <3> QED BY SlotCount DEF UseOf, Parents
  <2>4. UsesOf(events, 1..L) = [p \in X |-> UseOf(events, p, bred)]
    <3> HIDE DEF bred
    <3>1. X = UNION {Parents(events[i]) : i \in bred}
      BY DEF Parents
    <3> HIDE DEF X
    <3> QED BY <2>1, <3>1 DEF UsesOf
  <2> HIDE DEF X, Use, bred
  <2> QED BY <2>2, <2>3, <2>4
<1> QED BY <1>6, <1>8, <1>9, <1>10

----------------------------------------------------------------------------
(* The metrics *)

\* What the runner finds of events is what the audit finds of their calls.
LEMMA SameSnapshot ==
  ASSUME SlotAudit!AuditAssumption, NEW E, NEW s \in Seq(E), \A e \in E : e.calls \in Plans
  PROVE  SlotAudit!Snapshot(s) = SlotAudit!AuditSnapshot(CallsOf(s))
<1> DEFINE t == CallsOf(s)
<1>1. /\ t \in Seq(Plans) /\ Len(t) = Len(s)
      /\ SlotAudit!Snapshot(s) = Visits(t, 1..Len(s), Places(t, Len(s)))
  BY RunnerSees
<1> HIDE DEF t
<1>2. SlotAudit!AuditSnapshot(t) = Visits(t, 1..Len(t), Places(t, Len(t)))
  BY <1>1, AuditSees
<1> QED BY <1>1, <1>2 DEF t

LEMMA ChosenAre ==
  ASSUME NEW s \in Seq(SlotEvents), NEW kinds
  PROVE  /\ SlotAudit!OfKind(kinds, s) \in Seq(SlotEvents)
         /\ SlotAudit!OfKind(kinds, s)
              = Among(s, {e \in SlotAudit!ToSet(s) : SlotAudit!Kind(e) \in kinds})
BY SlotAmong, AmongInside DEF SlotAudit!OfKind

LEMMA EventsCallPlans == \A e \in SlotEvents : e.calls \in Plans
BY EventIs

LEMMA SameDelta ==
  ASSUME NEW base, NEW addition
  PROVE  SlotAudit!AuditDelta(base, addition) = SlotAudit!SetDelta(base, addition)
BY DEF SlotAudit!AuditDelta, SlotAudit!SetDelta

\* The audit's metrics are the runner's, of the same sequences.
LEMMA MetricsAgree ==
  ASSUME SlotAudit!AuditAssumption, slotWarmup \in Seq(Plans),
         NEW r, r.complete \in Seq(SlotEvents)
  PROVE  SlotAudit!AuditMetrics(r) = SlotAudit!SegmentedMetrics(slotWarmup, r.complete)
<1> DEFINE c == r.complete
           E == {[calls |-> p] : p \in Plans}
           lifted == [i \in DOMAIN slotWarmup |-> [calls |-> slotWarmup[i]]]
           Startup == {"startup_replay"}
           Rest == {"new_sequence", "mutation"}
           Run(kinds) == SlotAudit!Snapshot(SlotAudit!OfKind(kinds, c))
           Aud(kinds) == SlotAudit!AuditSnapshot(CallsOf(SlotAudit!OfKind(kinds, c)))
<1>1. SlotAudit!Snapshot(lifted) = SlotAudit!AuditSnapshot(slotWarmup)
  <2>1. lifted \in Seq(E) /\ \A e \in E : e.calls \in Plans
    OBVIOUS
  <2>2. CallsOf(lifted) = slotWarmup
    <3>1. \A i \in DOMAIN slotWarmup : lifted[i].calls = slotWarmup[i]
      OBVIOUS
    <3>2. slotWarmup = [i \in DOMAIN slotWarmup |-> slotWarmup[i]]
      OBVIOUS
    <3>3. DOMAIN lifted = DOMAIN slotWarmup
      OBVIOUS
    <3> HIDE DEF lifted
    <3>4. CallsOf(lifted) = [i \in DOMAIN slotWarmup |-> slotWarmup[i]]
      BY <3>1, <3>3 DEF CallsOf
    <3> QED BY <3>2, <3>4
  <2> HIDE DEF lifted, E
  <2>3. SlotAudit!Snapshot(lifted) = SlotAudit!AuditSnapshot(CallsOf(lifted))
    BY <2>1, SameSnapshot
  <2> QED BY <2>2, <2>3
<1>2. ASSUME NEW kinds PROVE Run(kinds) = Aud(kinds)
  <2> DEFINE s == SlotAudit!OfKind(kinds, c)
  <2>1. s \in Seq(SlotEvents)
    BY ChosenAre
  <2> HIDE DEF s
  <2>2. SlotAudit!Snapshot(s) = SlotAudit!AuditSnapshot(CallsOf(s))
    BY <2>1, SameSnapshot, EventsCallPlans
  <2> QED BY <2>2 DEF s
<1>3. SlotAudit!AuditUses(c) = SlotAudit!SeedUse(c)
  BY UsesCounted
<1> DEFINE w == SlotAudit!AuditSnapshot(slotWarmup)
           m == Aud(Startup)
           n == Aud(Rest)
           It(snap, d) == SlotAudit!Items(snap, d)
           W == SlotAudit!Snapshot(lifted)
           M == Run(Startup)
           N == Run(Rest)
           Runs(x, y, z) ==
             [warmup |-> x, import |-> y, continuation |-> z, uses |-> SlotAudit!SeedUse(c),
              deltas |-> [d \in SlotAudit!Dimensions |->
                [import |-> SlotAudit!SetDelta(It(x, d), It(y, d)),
                 continuation |-> SlotAudit!SetDelta(It(x, d) \union It(y, d), It(z, d)),
                 total |-> SlotAudit!SetDelta(It(x, d), It(y, d) \union It(z, d))]]]
<1>4. SlotAudit!SegmentedMetrics(slotWarmup, c) = Runs(W, M, N)
  BY DEF SlotAudit!SegmentedMetrics
<1>5. SlotAudit!AuditMetrics(r) = Runs(w, m, n)
  <2> DEFINE segments == [warmup |-> w, import |-> m, continuation |-> n]
             Audits ==
               [warmup |-> segments.warmup, import |-> segments.import,
                continuation |-> segments.continuation, uses |-> SlotAudit!AuditUses(c),
                deltas |-> [d \in SlotAudit!Dimensions |->
                  [import |-> SlotAudit!AuditDelta(It(segments["warmup"], d), It(segments["import"], d)),
                   continuation |-> SlotAudit!AuditDelta(
                     It(segments["warmup"], d) \union It(segments["import"], d),
                     It(segments["continuation"], d)),
                   total |-> SlotAudit!AuditDelta(It(segments["warmup"], d),
                     It(segments["import"], d) \union It(segments["continuation"], d))]]]
  <2>1. SlotAudit!AuditMetrics(r) = Audits
    BY DEF SlotAudit!AuditMetrics, CallsOf
  <2>2. segments["warmup"] = w /\ segments["import"] = m /\ segments["continuation"] = n
        /\ segments.warmup = w /\ segments.import = m /\ segments.continuation = n
    OBVIOUS
  <2> HIDE DEF segments, w, m, n, c
  <2>3. Audits = Runs(w, m, n)
    BY <2>2, <1>3, SameDelta
  <2> QED BY <2>1, <2>3
<1>6. W = w /\ M = m /\ N = n
  BY <1>1, <1>2
<1> HIDE DEF W, M, N, w, m, n, Runs
<1> QED BY <1>4, <1>5, <1>6

----------------------------------------------------------------------------
(* One sequence less is seen in the metrics *)

\* Where the sequences of some kinds hit m.
HitPlaces(s, kinds, m) ==
  {x \in (1..Len(s)) \X (1..4) :
     /\ SlotAudit!Kind(s[x[1]]) \in kinds
     /\ x[2] <= Len(s[x[1]].calls) /\ s[x[1]].calls[x[2]] = m}

LEMMA SlotHitsAre ==
  ASSUME SlotAudit!AuditAssumption, NEW s \in Seq(SlotEvents), NEW kinds, NEW m
  PROVE  LET hits == SlotAudit!Snapshot(SlotAudit!OfKind(kinds, s)).hits
         IN  /\ m \in DOMAIN hits <=> HitPlaces(s, kinds, m) # {}
             /\ m \in DOMAIN hits => hits[m] = Cardinality(HitPlaces(s, kinds, m))
             /\ IsFiniteSet(HitPlaces(s, kinds, m))
<1> DEFINE S == {e \in SlotAudit!ToSet(s) : SlotAudit!Kind(e) \in kinds}
           c == SlotAudit!OfKind(kinds, s)
           t == CallsOf(c)
           H == HitPlaces(s, kinds, m)
           hits == SlotAudit!Snapshot(c).hits
<1>1. c \in Seq(SlotEvents) /\ c = Among(s, S) /\ \E pos : PlacedAt(Among(s, S), s, S, pos)
  BY ChosenAre, AmongPlaces
<1>2. PICK pos : PlacedAt(c, s, S, pos)
  BY <1>1
<1> DEFINE L == Len(c)
           N == Len(s)
<1>3. L \in Nat /\ N \in Nat /\ Len(t) = L /\ \A j \in 1..L : t[j] = c[j].calls
  <2>1. DOMAIN c = 1..Len(c) /\ Len(c) \in Nat
    BY <1>1
  <2> HIDE DEF c
  <2> QED BY <2>1 DEF CallsOf
<1>4. /\ pos \in [1..L -> 1..N]
      /\ \A j \in 1..L : c[j] = s[pos[j]] /\ SlotAudit!Kind(s[pos[j]]) \in kinds
      /\ \A j, k \in 1..L : j < k => pos[j] < pos[k]
      /\ \A n \in 1..N : SlotAudit!Kind(s[n]) \in kinds => \E j \in 1..L : pos[j] = n
  <2>1. \A n \in 1..N : s[n] \in SlotAudit!ToSet(s)
    BY DEF SlotAudit!ToSet
  <2>2. \A n \in 1..N : s[n] \in S <=> SlotAudit!Kind(s[n]) \in kinds
    BY <2>1
  <2> HIDE DEF S, c
  <2> QED BY <1>2, <2>2 DEF PlacedAt
<1>5. /\ t \in Seq(Plans)
      /\ SlotAudit!Snapshot(c) = Visits(t, 1..L, Places(t, L))
  <2> HIDE DEF c
  <2> QED BY <1>1, EventsCallPlans, RunnerSees
<1> DEFINE A == Places(t, L)
           B == {x \in A : t[x[1]][x[2]] = m}
<1>6. hits = [k \in {t[x[1]][x[2]] : x \in A} |-> Cardinality({x \in A : t[x[1]][x[2]] = k})]
  <2> HIDE DEF t, c, L
  <2> QED BY <1>5 DEF Visits
<1>7. /\ m \in DOMAIN hits <=> B # {}
      /\ m \in DOMAIN hits => hits[m] = Cardinality(B)
  <2> HIDE DEF t, c, L, A, hits
  <2>1. DOMAIN hits = {t[x[1]][x[2]] : x \in A}
    BY <1>6
  <2>2. m \in DOMAIN hits <=> \E x \in A : t[x[1]][x[2]] = m
    BY <2>1
  <2>3. m \in DOMAIN hits => hits[m] = Cardinality(B)
    BY <1>6
  <2> QED BY <2>2, <2>3
<1>8. IsFiniteSet(H)
  <2>1. IsFiniteSet((1..N) \X (1..4))
    BY <1>3, PlacesFinite
  <2> QED BY <2>1, FS_Subset DEF HitPlaces
<1> HIDE DEF c, hits, L, N
<1> DEFINE f == [x \in B |-> <<pos[x[1]], x[2]>>]
<1>9. ASSUME NEW x \in B PROVE x[1] \in 1..L /\ x[2] \in 1..4 /\ f[x] \in H
  <2>1. x[1] \in 1..L /\ x[2] \in 1..4 /\ x[2] <= Len(t[x[1]]) /\ t[x[1]][x[2]] = m
    BY DEF Places
  <2>2. t[x[1]] = s[pos[x[1]]].calls
    BY <2>1, <1>3, <1>4
  <2>3. pos[x[1]] \in 1..N /\ SlotAudit!Kind(s[pos[x[1]]]) \in kinds
    BY <2>1, <1>4
  <2> DEFINE y == <<pos[x[1]], x[2]>>
  <2>4. y[1] = pos[x[1]] /\ y[2] = x[2] /\ y \in (1..N) \X (1..4)
    BY <2>1, <2>3
  <2> HIDE DEF y, t
  <2>5. y \in HitPlaces(s, kinds, m)
    BY <2>1, <2>2, <2>3, <2>4 DEF HitPlaces, N
  <2>6. f[x] = y
    BY DEF y
  <2> QED BY <2>1, <2>5, <2>6
<1>10. ASSUME NEW x \in B, NEW y \in B, f[x] = f[y] PROVE x = y
  <2>1. x[1] \in 1..L /\ y[1] \in 1..L /\ x = <<x[1], x[2]>> /\ y = <<y[1], y[2]>>
    BY <1>9 DEF Places
  <2>2. pos[x[1]] = pos[y[1]] /\ x[2] = y[2]
    <3>1. f[x] = <<pos[x[1]], x[2]>> /\ f[y] = <<pos[y[1]], y[2]>>
      OBVIOUS
    <3> HIDE DEF f, B
    <3> QED BY <3>1, <1>10
  <2>3. x[1] = y[1]
    <3>1. ~(x[1] < y[1]) /\ ~(y[1] < x[1])
      <4>1. pos[x[1]] \in Nat /\ pos[y[1]] \in Nat
        BY <2>1, <1>4, <1>3
      <4> QED BY <2>1, <2>2, <4>1, <1>4
    <3> QED BY <3>1, <2>1, <1>3
  <2> QED BY <2>1, <2>2, <2>3
<1>11. ASSUME NEW y \in H PROVE \E x \in B : f[x] = y
  <2>1. /\ y[1] \in 1..N /\ y[2] \in 1..4 /\ y = <<y[1], y[2]>> /\ SlotAudit!Kind(s[y[1]]) \in kinds
        /\ y[2] <= Len(s[y[1]].calls) /\ s[y[1]].calls[y[2]] = m
    BY DEF HitPlaces, N
  <2>2. PICK j \in 1..L : pos[j] = y[1]
    BY <2>1, <1>4
  <2>3. t[j] = s[y[1]].calls
    <3>1. t[j] = c[j].calls /\ c[j] = s[pos[j]]
      BY <1>3, <1>4
    <3> HIDE DEF t
    <3> QED BY <2>2, <3>1
  <2> DEFINE x == <<j, y[2]>>
  <2>4. x \in (1..L) \X (1..4) /\ x[1] = j /\ x[2] = y[2]
    BY <2>1
  <2> HIDE DEF x, t
  <2>5. x \in A
    BY <2>1, <2>3, <2>4 DEF Places
  <2>6. x \in B
    BY <2>1, <2>3, <2>4, <2>5
  <2>7. f[x] = y
    BY <2>1, <2>2, <2>4, <2>6
  <2> HIDE DEF B, f
  <2> QED BY <2>6, <2>7
<1>12. Cardinality(B) = Cardinality(H) /\ (B # {} <=> H # {})
  <2>1. f \in [B -> H]
    BY <1>9
  <2> HIDE DEF B, f, H
  <2>2. f \in Bijection(B, H)
    BY <2>1, <1>10, <1>11, Fun_IsBij
  <2>3. f \in Injection(B, H)
    BY <2>1, <1>10, Fun_IsInj
  <2>4. IsFiniteSet(B)
    BY <2>3, <1>8, FS_Injection
  <2>5. ExistsBijection(B, H)
    BY <2>2 DEF ExistsBijection
  <2>6. Cardinality(H) = Cardinality(B)
    BY <2>4, <2>5, FS_Bijection
  <2>7. B # {} <=> H # {}
    BY <2>1, <1>11
  <2> QED BY <2>6, <2>7
<1>13. /\ m \in DOMAIN hits <=> H # {}
       /\ m \in DOMAIN hits => hits[m] = Cardinality(H)
       /\ IsFiniteSet(H)
  <2> HIDE DEF B, H
  <2> QED BY <1>7, <1>8, <1>12
<1> HIDE DEF H
<1> QED BY <1>13 DEF hits, c, H

LEMMA MetricsTell ==
  ASSUME SlotAudit!AuditAssumption, NEW w, NEW s \in Seq(SlotEvents), NEW i \in 1..Len(s)
  PROVE  SlotAudit!SegmentedMetrics(w, SlotAudit!RemoveAt(s, i)) # SlotAudit!SegmentedMetrics(w, s)
<1> DEFINE r == SlotAudit!RemoveAt(s, i)
           Startup == {"startup_replay"}
           Rest == {"new_sequence", "mutation"}
           kinds == IF SlotAudit!Kind(s[i]) = "startup_replay" THEN Startup ELSE Rest
           m == s[i].calls[1]
           N == Len(s)
           Seen(q, k) == SlotAudit!Snapshot(SlotAudit!OfKind(k, q))
<1>1. SUFFICES ASSUME SlotAudit!SegmentedMetrics(w, r) = SlotAudit!SegmentedMetrics(w, s)
               PROVE  FALSE
  OBVIOUS
<1>2. Seen(r, kinds) = Seen(s, kinds)
  <2>1. \A q : /\ SlotAudit!SegmentedMetrics(w, q).import = Seen(q, Startup)
               /\ SlotAudit!SegmentedMetrics(w, q).continuation = Seen(q, Rest)
    BY DEF SlotAudit!SegmentedMetrics
  <2> HIDE DEF Seen, r
  <2>2. Seen(r, Startup) = Seen(s, Startup) /\ Seen(r, Rest) = Seen(s, Rest)
    BY <2>1, <1>1
  <2> QED BY <2>2
<1>3. /\ r \in Seq(SlotEvents) /\ Len(r) = N - 1 /\ N \in Nat
      /\ \A j \in 1..(N - 1) : r[j] = IF j < i THEN s[j] ELSE s[j + 1]
  BY RemoveAtIs
<1>4. SlotAudit!Kind(s[i]) \in kinds /\ s[i].calls \in Plans
  <2>1. SlotAudit!Kind(s[i]) \in SlotKinds /\ s[i].calls \in Plans
    BY EventIs
  <2> QED BY <2>1 DEF SlotKinds
<1>5. Len(s[i].calls) \in 1..4
  BY <1>4 DEF SlotAudit!AuditAssumption
<1> DEFINE P == HitPlaces(r, kinds, m)
           Q == HitPlaces(s, kinds, m)
           x0 == <<i, 1>>
<1>6. x0 \in Q
  <2>1. x0[1] = i /\ x0[2] = 1 /\ x0 \in (1..N) \X (1..4)
    OBVIOUS
  <2>2. s[i].calls[1] = m
    OBVIOUS
  <2> HIDE DEF x0, kinds, m
  <2>3. /\ SlotAudit!Kind(s[x0[1]]) \in kinds
        /\ x0[2] <= Len(s[x0[1]].calls) /\ s[x0[1]].calls[x0[2]] = m
    BY <2>1, <2>2, <1>4, <1>5
  <2> QED BY <2>1, <2>3 DEF HitPlaces
<1>7. /\ m \in DOMAIN Seen(s, kinds).hits <=> Q # {}
      /\ m \in DOMAIN Seen(s, kinds).hits => Seen(s, kinds).hits[m] = Cardinality(Q)
      /\ IsFiniteSet(Q)
  <2> HIDE DEF kinds, m
  <2> QED BY SlotHitsAre
<1>8. /\ m \in DOMAIN Seen(r, kinds).hits <=> P # {}
      /\ m \in DOMAIN Seen(r, kinds).hits => Seen(r, kinds).hits[m] = Cardinality(P)
      /\ IsFiniteSet(P)
  <2> HIDE DEF kinds, m, r
  <2> QED BY <1>3, SlotHitsAre
<1> HIDE DEF r, kinds, m, Seen, N
<1> DEFINE Was(j) == IF j < i THEN j ELSE j + 1
           f == [x \in P |-> <<Was(x[1]), x[2]>>]
           R == Q \ {x0}
<1>9. ASSUME NEW x \in P PROVE x[1] \in 1..(N - 1) /\ x = <<x[1], x[2]>> /\ f[x] \in R
  <2>1. /\ x[1] \in 1..(N - 1) /\ x[2] \in 1..4 /\ x = <<x[1], x[2]>>
        /\ SlotAudit!Kind(r[x[1]]) \in kinds
        /\ x[2] <= Len(r[x[1]].calls) /\ r[x[1]].calls[x[2]] = m
    BY <1>3 DEF HitPlaces
  <2> DEFINE y == <<Was(x[1]), x[2]>>
  <2>2. Was(x[1]) \in 1..N /\ Was(x[1]) # i /\ r[x[1]] = s[Was(x[1])]
    BY <2>1, <1>3 DEF N
  <2> HIDE DEF Was
  <2>3. y[1] = Was(x[1]) /\ y[2] = x[2] /\ y \in (1..N) \X (1..4) /\ y # x0
    BY <2>1, <2>2
  <2> HIDE DEF y
  <2>4. y \in Q
    BY <2>1, <2>2, <2>3 DEF HitPlaces, N
  <2>5. f[x] = y
    BY DEF y
  <2> QED BY <2>1, <2>3, <2>4, <2>5
<1>10. ASSUME NEW x \in P, NEW y \in P, f[x] = f[y] PROVE x = y
  <2>1. Was(x[1]) = Was(y[1]) /\ x[2] = y[2]
    <3>1. f[x] = <<Was(x[1]), x[2]>> /\ f[y] = <<Was(y[1]), y[2]>>
      OBVIOUS
    <3> HIDE DEF f, P, Was
    <3> QED BY <3>1, <1>10
  <2>2. x[1] = y[1]
    <3>1. x[1] \in 1..(N - 1) /\ y[1] \in 1..(N - 1)
      BY <1>9
    <3> HIDE DEF P, f
    <3> QED BY <3>1, <2>1, <1>3 DEF N
  <2>3. x = <<x[1], x[2]>> /\ y = <<y[1], y[2]>>
    BY <1>9
  <2> QED BY <2>1, <2>2, <2>3
<1>11. Cardinality(P) <= Cardinality(Q) - 1
  <2>1. f \in [P -> R]
    BY <1>9
  <2> HIDE DEF P, f, Q, x0
  <2>2. f \in Injection(P, R)
    BY <2>1, <1>10, Fun_IsInj
  <2>3. IsFiniteSet(R) /\ Cardinality(R) = Cardinality(Q) - 1
    BY <1>6, <1>7, FS_RemoveElement
  <2>4. Cardinality(P) <= Cardinality(R)
    BY <2>2, <2>3, FS_Injection
  <2> QED BY <2>3, <2>4
<1>12. Cardinality(P) \in Nat /\ Cardinality(Q) \in Nat
  BY <1>7, <1>8, FS_CardinalityType
<1> HIDE DEF P, Q
<1>13. m \in DOMAIN Seen(s, kinds).hits
  BY <1>6, <1>7
<1>14. Cardinality(P) = Cardinality(Q)
  BY <1>2, <1>7, <1>8, <1>13
<1> QED BY <1>11, <1>12, <1>14

----------------------------------------------------------------------------
(* The audit's reader *)

SlotBody == SlotEvents \union SlotPartials
FirstHit(e) ==
  [index |-> e.index, charged |-> SlotAudit!Charged(e), kind |-> SlotAudit!Kind(e)]
Reaches(e) == \E n \in DOMAIN e.refs : SlotAudit!GoalAt(e.refs[n])
FirstHits == [index : Nat, charged : Int, kind : SlotKinds]

\* What the reader has of a stream that ends with z.
Readings(z) ==
  [ok : BOOLEAN, seen : SUBSET Nat, known : SUBSET Seq(Calls), eof : Seq({z}),
   complete : Seq(SlotEvents), late : Seq(Nat), partials : Nat, first : Seq(FirstHits)]

ReadsOn(a, e) ==
  /\ a.ok /\ e.index \notin a.seen /\ SlotAudit!ReferencesHold(e) /\ SlotAudit!StepsHold(e)
  /\ SlotAudit!LineageHolds(e, a.known)
FirstOf(a, e) ==
  IF /\ SlotAudit!Charged(e) <= Budget /\ Reaches(e)
     /\ a.first = <<>> \/ SlotAudit!Charged(e) < a.first[1].charged
  THEN <<FirstHit(e)>> ELSE a.first

LEMMA ReadingIs ==
  ASSUME NEW z, NEW a \in Readings(z)
  PROVE  a = [ok |-> a.ok, seen |-> a.seen, known |-> a.known, eof |-> a.eof,
              complete |-> a.complete, late |-> a.late, partials |-> a.partials, first |-> a.first]
BY DEF Readings

LEMMA ReadsSequence ==
  ASSUME NEW z, NEW a \in Readings(z), a.eof = <<>>, NEW e \in SlotEvents
  PROVE  SlotAudit!ReadRecord(a, e) =
           [ok |-> ReadsOn(a, e), seen |-> a.seen \union {e.index},
            known |-> a.known \union SlotAudit!ToSet(e.refs), eof |-> a.eof,
            complete |-> IF SlotAudit!Charged(e) > Budget THEN a.complete
                         ELSE Append(a.complete, e),
            late |-> IF SlotAudit!Charged(e) > Budget THEN Append(a.late, e.index) ELSE a.late,
            partials |-> a.partials, first |-> FirstOf(a, e)]
<1> DEFINE fresh == [a EXCEPT !.seen = a.seen \union {e.index}]
           K == a.known \union SlotAudit!ToSet(e.refs)
           L == IF SlotAudit!Charged(e) > Budget THEN Append(a.late, e.index) ELSE a.late
           C == IF SlotAudit!Charged(e) > Budget THEN a.complete ELSE Append(a.complete, e)
           O == ReadsOn(a, e)
           F == FirstOf(a, e)
           S == a.seen \union {e.index}
<1>1. e.type = "sequence"
  BY EventIs
<1>2. fresh = [ok |-> a.ok, seen |-> S, known |-> a.known, eof |-> a.eof,
               complete |-> a.complete, late |-> a.late, partials |-> a.partials, first |-> a.first]
  <2>1. a = [ok |-> a.ok, seen |-> a.seen, known |-> a.known, eof |-> a.eof,
             complete |-> a.complete, late |-> a.late, partials |-> a.partials, first |-> a.first]
    BY ReadingIs
  <2>2. fresh = [a EXCEPT !.seen = S]
    OBVIOUS
  <2> HIDE DEF fresh, S
  <2> QED BY <2>1, <2>2
<1>3. SlotAudit!ReadRecord(a, e) =
        [fresh EXCEPT
           !.ok = fresh.ok /\ e.index \notin a.seen /\ SlotAudit!ReferencesHold(e)
                    /\ SlotAudit!StepsHold(e) /\ SlotAudit!LineageHolds(e, a.known),
           !.known = fresh.known \union SlotAudit!ToSet(e.refs),
           !.late = IF SlotAudit!Charged(e) > Budget THEN Append(fresh.late, e.index) ELSE fresh.late,
           !.complete = IF SlotAudit!Charged(e) > Budget THEN fresh.complete ELSE Append(fresh.complete, e),
           !.first = IF SlotAudit!Charged(e) <= Budget /\ Reaches(e)
                        /\ (a.first = <<>> \/ SlotAudit!Charged(e) < a.first[1].charged)
                     THEN <<FirstHit(e)>> ELSE fresh.first]
  BY <1>1 DEF SlotAudit!ReadRecord, Reaches, FirstHit
<1>4. /\ fresh.ok = a.ok /\ fresh.known = a.known /\ fresh.late = a.late
      /\ fresh.complete = a.complete /\ fresh.first = a.first
  BY <1>2
<1> HIDE DEF fresh
<1>5. SlotAudit!ReadRecord(a, e) =
        [fresh EXCEPT !.ok = O, !.known = K, !.late = L, !.complete = C, !.first = F]
  BY <1>3, <1>4 DEF ReadsOn, FirstOf
<1> HIDE DEF K, L, C, O, F, S
<1>6. SlotAudit!ReadRecord(a, e) =
        [ok |-> O, seen |-> S, known |-> K, eof |-> a.eof, complete |-> C, late |-> L,
         partials |-> a.partials, first |-> F]
  BY <1>2, <1>5
<1> QED BY <1>6 DEF K, L, C, O, F, S

LEMMA ReadsPartial ==
  ASSUME NEW z, NEW a \in Readings(z), a.eof = <<>>, NEW e \in SlotPartials
  PROVE  SlotAudit!ReadRecord(a, e) =
           [ok |-> a.ok /\ e.index \notin a.seen /\ SlotAudit!ReferencesHold(e),
            seen |-> a.seen \union {e.index}, known |-> a.known, eof |-> a.eof,
            complete |-> a.complete, late |-> a.late, partials |-> a.partials + 1,
            first |-> a.first]
<1> DEFINE fresh == [a EXCEPT !.seen = a.seen \union {e.index}]
           O == a.ok /\ e.index \notin a.seen /\ SlotAudit!ReferencesHold(e)
           S == a.seen \union {e.index}
<1>1. e.type = "partial" /\ e.lineage = <<>>
  BY PartialIs
<1>2. fresh = [ok |-> a.ok, seen |-> S, known |-> a.known, eof |-> a.eof,
               complete |-> a.complete, late |-> a.late, partials |-> a.partials, first |-> a.first]
  <2>1. a = [ok |-> a.ok, seen |-> a.seen, known |-> a.known, eof |-> a.eof,
             complete |-> a.complete, late |-> a.late, partials |-> a.partials, first |-> a.first]
    BY ReadingIs
  <2>2. fresh = [a EXCEPT !.seen = S]
    OBVIOUS
  <2> HIDE DEF fresh, S
  <2> QED BY <2>1, <2>2
<1>3. SlotAudit!ReadRecord(a, e) =
        [fresh EXCEPT
           !.ok = fresh.ok /\ e.index \notin a.seen /\ SlotAudit!ReferencesHold(e) /\ e.lineage = <<>>,
           !.partials = fresh.partials + 1]
  BY <1>1 DEF SlotAudit!ReadRecord
<1>4. fresh.ok = a.ok /\ fresh.partials = a.partials
  BY <1>2
<1> HIDE DEF fresh
<1>5. SlotAudit!ReadRecord(a, e) = [fresh EXCEPT !.ok = O, !.partials = a.partials + 1]
  BY <1>1, <1>3, <1>4
<1> HIDE DEF O, S
<1>6. SlotAudit!ReadRecord(a, e) =
        [ok |-> O, seen |-> S, known |-> a.known, eof |-> a.eof, complete |-> a.complete,
         late |-> a.late, partials |-> a.partials + 1, first |-> a.first]
  BY <1>2, <1>5
<1> QED BY <1>6 DEF O, S

LEMMA ReadsEnd ==
  ASSUME NEW z, NEW a \in Readings(z), a.eof = <<>>, z.type = "eof"
  PROVE  SlotAudit!ReadRecord(a, z) =
           [ok |-> a.ok, seen |-> a.seen, known |-> a.known, eof |-> <<z>>,
            complete |-> a.complete, late |-> a.late, partials |-> a.partials, first |-> a.first]
<1>1. SlotAudit!ReadRecord(a, z) = [a EXCEPT !.eof = <<z>>]
  BY DEF SlotAudit!ReadRecord
<1> QED BY <1>1, ReadingIs

LEMMA ChargedInt ==
  ASSUME started \in Int, NEW e \in SlotEvents
  PROVE  SlotAudit!Charged(e) \in Int
<1>1. e.lineage[1] \in SlotLineages
  BY EventIs
<1>2. e.lineage[1].offset \in Int
  BY <1>1 DEF SlotLineages
<1> QED BY <1>2 DEF SlotAudit!Charged

LEMMA RefsTyped ==
  ASSUME NEW calls \in Seq(Calls)
  PROVE  /\ SlotAudit!ToSet(SlotAudit!PrefixReferences(calls)) \subseteq Seq(Calls)
         /\ DOMAIN SlotAudit!PrefixReferences(calls) = 1..Len(calls)
         /\ SlotAudit!PrefixReferences(calls) \in Seq(Seq(Calls))
         /\ Len(SlotAudit!PrefixReferences(calls)) = Len(calls)
         /\ \A n \in 1..Len(calls) : SlotAudit!PrefixReferences(calls)[n] = SubSeq(calls, 1, n)
BY DEF SlotAudit!ToSet, SlotAudit!PrefixReferences

LEMMA ReadingTyped ==
  ASSUME SlotAudit!AuditAssumption, started \in Int, NEW z, z.type = "eof", NEW a \in Readings(z),
         NEW e \in SlotBody \union {z}
  PROVE  SlotAudit!ReadRecord(a, e) \in Readings(z)
<1>0. /\ a.ok \in BOOLEAN /\ a.seen \in SUBSET Nat /\ a.known \in SUBSET Seq(Calls)
      /\ a.eof \in Seq({z}) /\ a.complete \in Seq(SlotEvents) /\ a.late \in Seq(Nat)
      /\ a.partials \in Nat /\ a.first \in Seq(FirstHits)
  BY DEF Readings
<1>1. CASE a.eof # <<>>
  <2>1. SlotAudit!ReadRecord(a, e) = [a EXCEPT !.ok = FALSE]
    BY <1>1 DEF SlotAudit!ReadRecord
  <2> QED BY <2>1 DEF Readings
<1>2. CASE a.eof = <<>> /\ e \in SlotEvents
  <2> DEFINE S == a.seen \union {e.index}
             K == a.known \union SlotAudit!ToSet(e.refs)
             C == IF SlotAudit!Charged(e) > Budget THEN a.complete ELSE Append(a.complete, e)
             L == IF SlotAudit!Charged(e) > Budget THEN Append(a.late, e.index) ELSE a.late
             F == FirstOf(a, e)
             O == ReadsOn(a, e)
  <2>1. /\ e.index \in Nat /\ e.calls \in Seq(Calls) /\ SlotAudit!Kind(e) \in SlotKinds
        /\ e.refs = SlotAudit!PrefixReferences(e.calls)
    BY <1>2, EventIs DEF SlotAudit!AuditAssumption
  <2>2. SlotAudit!Charged(e) \in Int
    BY <1>2, ChargedInt
  <2>3. FirstHit(e) \in FirstHits
    BY <2>1, <2>2 DEF FirstHit, FirstHits
  <2>4. F \in Seq(FirstHits)
    BY <2>3, <1>0 DEF FirstOf
  <2>5. S \in SUBSET Nat /\ K \in SUBSET Seq(Calls) /\ C \in Seq(SlotEvents) /\ L \in Seq(Nat)
    BY <1>0, <1>2, <2>1, RefsTyped
  <2>6. O \in BOOLEAN
    BY DEF ReadsOn
  <2>7. SlotAudit!ReadRecord(a, e) =
          [ok |-> O, seen |-> S, known |-> K, eof |-> a.eof, complete |-> C, late |-> L,
           partials |-> a.partials, first |-> F]
    BY <1>2, ReadsSequence
  <2> HIDE DEF S, K, C, L, F, O
  <2> QED BY <1>0, <2>4, <2>5, <2>6, <2>7 DEF Readings
<1>3. CASE a.eof = <<>> /\ e \in SlotPartials
  <2>1. e.index \in Nat
    BY <1>3, PartialIs
  <2> DEFINE O == a.ok /\ e.index \notin a.seen /\ SlotAudit!ReferencesHold(e)
             S == a.seen \union {e.index}
  <2>2. S \in SUBSET Nat /\ O \in BOOLEAN /\ a.partials + 1 \in Nat
    BY <1>0, <2>1
  <2>3. SlotAudit!ReadRecord(a, e) =
          [ok |-> O, seen |-> S, known |-> a.known, eof |-> a.eof, complete |-> a.complete,
           late |-> a.late, partials |-> a.partials + 1, first |-> a.first]
    BY <1>3, ReadsPartial
  <2> HIDE DEF O, S
  <2> QED BY <1>0, <2>2, <2>3 DEF Readings
<1>4. CASE a.eof = <<>> /\ e = z
  <2>1. SlotAudit!ReadRecord(a, e) =
          [ok |-> a.ok, seen |-> a.seen, known |-> a.known, eof |-> <<z>>,
           complete |-> a.complete, late |-> a.late, partials |-> a.partials, first |-> a.first]
    BY <1>4, ReadsEnd
  <2>2. <<z>> \in Seq({z})
    OBVIOUS
  <2> QED BY <1>0, <2>1, <2>2 DEF Readings
<1> QED BY <1>1, <1>2, <1>3, <1>4 DEF SlotBody

\* The reader's pass over a stream is met, step by step.
LEMMA ReadSteps ==
  ASSUME SlotAudit!AuditAssumption, started \in Int, NEW z, z.type = "eof",
         NEW events \in Seq(SlotBody \union {z}), NEW file, file.events = events
  PROVE  \E f \in [0..Len(events) -> Readings(z)] :
           /\ f[0] = SlotAudit!Fresh
           /\ \A n \in 1..Len(events) : f[n] = SlotAudit!ReadRecord(f[n - 1], events[n])
           /\ SlotAudit!ReadCompact(file) = f[Len(events)]
<1> DEFINE V == Readings(z)
           N == Len(events)
           base == SlotAudit!Fresh
           F == [n \in 1..N |-> [v \in V |-> SlotAudit!ReadRecord(v, events[n])]]
           Meets(f) == f = [n \in 0..N |->
             IF n = 0 THEN base ELSE SlotAudit!ReadRecord(f[n - 1], events[n])]
<1>1. N \in Nat /\ \A n \in 1..N : events[n] \in SlotBody \union {z}
  OBVIOUS
<1>2. base \in V
  BY DEF SlotAudit!Fresh, Readings
<1>3. F \in [1..N -> [V -> V]]
  <2>1. \A n \in 1..N, v \in V : SlotAudit!ReadRecord(v, events[n]) \in V
    BY <1>1, ReadingTyped
  <2> HIDE DEF V, N
  <2> QED BY <2>1
<1>4. PICK f \in [0..N -> V] : f[0] = base /\ \A n \in 1..N : f[n] = F[n][f[n - 1]]
  <2>1. N \in Nat /\ F \in [1..N -> [V -> V]] /\ base \in V
    BY <1>1, <1>2, <1>3
  <2> HIDE DEF V, N, F, base
  <2>2. \E f \in [0..N -> V] : f[0] = base /\ \A n \in 1..N : f[n] = F[n][f[n - 1]]
    BY ONLY <2>1, Recursion
  <2> QED BY <2>2
<1>5. \A n \in 1..N : f[n] = SlotAudit!ReadRecord(f[n - 1], events[n])
  <2>1. \A n \in 1..N : f[n - 1] \in V
    BY <1>1, <1>4
  <2> HIDE DEF V, N
  <2> QED BY <1>4, <2>1
<1> HIDE DEF F, base
<1> DEFINE u == [n \in 0..N |-> IF n = 0 THEN base ELSE SlotAudit!ReadRecord(f[n - 1], events[n])]
<1>6. Meets(f)
  <2>1. \A n \in 0..N : f[n] = u[n]
    <3>1. \A n \in 0..N : n = 0 \/ n \in 1..N
      BY <1>1
    <3> QED BY <3>1, <1>4, <1>5
  <2>2. f = [n \in 0..N |-> f[n]] /\ u = [n \in 0..N |-> u[n]]
    <3> HIDE DEF V
    <3> QED BY <1>4
  <2> HIDE DEF u
  <2>3. f = u
    BY <2>1, <2>2
  <2> QED BY <2>3 DEF u
<1> DEFINE g == CHOOSE h : Meets(h)
<1>7. Meets(g)
  BY <1>6
<1>8. SlotAudit!ReadCompact(file) = g[N]
  BY DEF SlotAudit!ReadCompact, base
<1>9. g[0] = base /\ \A n \in 1..N : g[n] = SlotAudit!ReadRecord(g[n - 1], events[n])
  <2> DEFINE v == [n \in 0..N |-> IF n = 0 THEN base ELSE SlotAudit!ReadRecord(g[n - 1], events[n])]
  <2>1. g = v
    BY <1>7
  <2>2. v[0] = base /\ \A n \in 1..N : v[n] = SlotAudit!ReadRecord(g[n - 1], events[n])
    <3>1. 0 \in 0..N /\ \A n \in 1..N : n \in 0..N /\ n # 0
      BY <1>1
    <3> HIDE DEF g
    <3> QED BY <3>1
  <2> HIDE DEF v, g
  <2> QED BY <2>1, <2>2
<1> HIDE DEF g
<1>10. g[N] = f[N]
  <2>1. \A n \in 1..N : g[n - 1] = f[n - 1] => g[n] = f[n]
    BY <1>5, <1>9
  <2>2. g[0] = f[0]
    BY <1>4, <1>9
  <2>4. N \in Nat
    BY <1>1
  <2> HIDE DEF N
  <2>3. \A n \in 0..N : g[n] = f[n]
    BY ONLY <2>1, <2>2, <2>4, Folded
  <2> QED BY <2>3, <1>1
<1> QED BY <1>4, <1>5, <1>8, <1>10 DEF base

Timely == {e \in SlotEvents : SlotAudit!Charged(e) <= Budget}
Tardy == {e \in SlotEvents : ~(SlotAudit!Charged(e) <= Budget)}

OkAt(b, i) ==
  /\ \A j \in 1..(i - 1) : b[j].index # b[i].index
  /\ b[i].type = "sequence" => SlotAudit!LineageHolds(b[i], SlotAudit!KnownBefore(b, i))

\* The first hit is one of the sequences that reach the goal, if there are any.
FirstFits(s, first) ==
  /\ first # <<>> => \E i \in 1..Len(s) : Reaches(s[i]) /\ first[1] = FirstHit(s[i])
  /\ (\E i \in 1..Len(s) : Reaches(s[i])) => first # <<>>

\* What the reader has after the first n records of b.
ReadSoFar(b, n, a) ==
  /\ a.complete = Among(SubSeq(b, 1, n), Timely)
  /\ a.late = SlotAudit!IndicesOf(Among(SubSeq(b, 1, n), Tardy))
  /\ a.partials = Cardinality({i \in 1..n : b[i].type = "partial"})
  /\ a.seen = {b[i].index : i \in 1..n}
  /\ a.known = SlotAudit!KnownBefore(b, n + 1)
  /\ (\A i \in 1..n : OkAt(b, i)) => a.ok
  /\ FirstFits(a.complete, a.first)

LEMMA ReferencesAreHeld ==
  ASSUME NEW e, e.calls \in Seq(Calls), e.calls # <<>>,
         e.refs = SlotAudit!PrefixReferences(e.calls)
  PROVE  SlotAudit!ReferencesHold(e)
<1> DEFINE refs == e.refs
           L == Len(e.calls)
<1>1. /\ DOMAIN refs = 1..L /\ Len(refs) = L /\ L \in Nat /\ L # 0
      /\ \A n \in 1..L : refs[n] = SubSeq(e.calls, 1, n)
  BY RefsTyped
<1>2. \A n \in 1..L : Len(refs[n]) = n
  BY <1>1
<1>3. refs \in Seq(Seq(Calls))
  BY RefsTyped
<1> HIDE DEF L, refs
<1>4. refs # <<>>
  BY <1>1
<1>5. Cardinality(SlotAudit!ToSet(refs)) = Len(refs)
  <2> DEFINE S == SlotAudit!ToSet(refs)
  <2>1. S = {refs[n] : n \in 1..L}
    BY <1>1 DEF SlotAudit!ToSet
  <2> HIDE DEF S
  <2>2. refs \in [1..L -> S]
    <3>1. refs = [n \in DOMAIN refs |-> refs[n]]
      BY <1>3
    <3> QED BY <1>1, <2>1, <3>1
  <2>3. \A m, n \in 1..L : refs[m] = refs[n] => m = n
    BY <1>2
  <2>4. \A x \in S : \E n \in 1..L : refs[n] = x
    BY <2>1
  <2>5. refs \in Bijection(1..L, S)
    BY <2>2, <2>3, <2>4, Fun_IsBij
  <2>6. ExistsBijection(1..L, S)
    BY <2>5 DEF ExistsBijection
  <2>7. IsFiniteSet(1..L) /\ Cardinality(1..L) = L
    BY <1>1, CountTo
  <2>8. Cardinality(S) = L
    BY <2>6, <2>7, FS_Bijection
  <2> QED BY <1>1, <2>8 DEF S
<1>6. SlotAudit!Cardinality(SlotAudit!ToSet(refs)) = Len(refs)
  BY <1>5, SlotCount
<1> QED BY <1>1, <1>2, <1>4, <1>6 DEF SlotAudit!ReferencesHold, refs

LEMMA ReadNothing ==
  ASSUME NEW b \in Seq(SlotBody)
  PROVE  ReadSoFar(b, 0, SlotAudit!Fresh) /\ SlotAudit!Fresh.eof = <<>>
<1> DEFINE a == SlotAudit!Fresh
<1>1. /\ a.ok = TRUE /\ a.seen = {} /\ a.known = {} /\ a.eof = <<>> /\ a.complete = <<>>
      /\ a.late = <<>> /\ a.partials = 0 /\ a.first = <<>>
  BY DEF SlotAudit!Fresh
<1> HIDE DEF a
<1>2. SubSeq(b, 1, 0) = <<>>
  OBVIOUS
<1>3. Among(SubSeq(b, 1, 0), Timely) = <<>> /\ Among(SubSeq(b, 1, 0), Tardy) = <<>>
  BY <1>2, AmongEmpty
<1>4. SlotAudit!IndicesOf(<<>>) = <<>>
  BY DEF SlotAudit!IndicesOf
<1>5. Cardinality({i \in 1..0 : b[i].type = "partial"}) = 0
  <2>1. {i \in 1..0 : b[i].type = "partial"} = {}
    OBVIOUS
  <2> QED BY <2>1, FS_EmptySet
<1>6. SlotAudit!KnownBefore(b, 0 + 1) = {}
  <2>1. {k \in 1..((0 + 1) - 1) : b[k].type = "sequence"} = {}
    OBVIOUS
  <2> QED BY <2>1 DEF SlotAudit!KnownBefore
<1>7. FirstFits(<<>>, <<>>)
  BY DEF FirstFits
<1>8. {b[i].index : i \in 1..0} = {}
  OBVIOUS
<1>9. ReadSoFar(b, 0, a) /\ a.eof = <<>>
  BY <1>1, <1>3, <1>4, <1>5, <1>6, <1>7, <1>8 DEF ReadSoFar
<1> QED BY <1>9 DEF a

\* The indices of a list with one more event.
LEMMA IndicesAppend ==
  ASSUME NEW T, NEW s \in Seq(T), NEW e
  PROVE  SlotAudit!IndicesOf(Append(s, e)) = Append(SlotAudit!IndicesOf(s), e.index)
BY DEF SlotAudit!IndicesOf

\* One more record that is known to be read.
LEMMA KnownNext ==
  ASSUME NEW b \in Seq(SlotBody), NEW n \in 1..Len(b)
  PROVE  SlotAudit!KnownBefore(b, n + 1)
           = IF b[n].type = "sequence"
             THEN SlotAudit!KnownBefore(b, n) \union SlotAudit!ToSet(b[n].refs)
             ELSE SlotAudit!KnownBefore(b, n)
<1> DEFINE A == {k \in 1..((n + 1) - 1) : b[k].type = "sequence"}
           B == {k \in 1..(n - 1) : b[k].type = "sequence"}
           R(j) == SlotAudit!ToSet(b[j].refs)
<1>1. 1..((n + 1) - 1) = (1..(n - 1)) \union {n}
  OBVIOUS
<1>2. A = IF b[n].type = "sequence" THEN B \union {n} ELSE B
  BY <1>1
<1>3. /\ SlotAudit!KnownBefore(b, n + 1) = UNION {R(j) : j \in A}
      /\ SlotAudit!KnownBefore(b, n) = UNION {R(j) : j \in B}
  BY DEF SlotAudit!KnownBefore
<1> HIDE DEF A, B
<1>4. UNION {R(j) : j \in B \union {n}} = (UNION {R(j) : j \in B}) \union R(n)
  <2> HIDE DEF R
  <2> QED OBVIOUS
<1> QED BY <1>2, <1>3, <1>4

LEMMA FirstKeepsFitting ==
  ASSUME started \in Int, NEW z, NEW a \in Readings(z), FirstFits(a.complete, a.first),
         NEW e \in SlotEvents
  PROVE  FirstFits(IF SlotAudit!Charged(e) > Budget THEN a.complete ELSE Append(a.complete, e),
                   FirstOf(a, e))
<1> DEFINE s == a.complete
           long == Append(s, e)
           L == Len(s)
<1>1. s \in Seq(SlotEvents) /\ L \in Nat
  BY DEF Readings
<1>2. Len(long) = L + 1 /\ long[L + 1] = e /\ \A i \in 1..L : long[i] = s[i]
  BY <1>1
<1> HIDE DEF long, s
<1>3. CASE SlotAudit!Charged(e) > Budget
  <2>1. SlotAudit!Charged(e) \in Int
    BY ChargedInt
  <2>2. ~(SlotAudit!Charged(e) <= Budget)
    BY <1>3, <2>1, JudgementsAssumption DEF SlotAudit!AuditAssumption
  <2> QED BY <1>3, <2>2 DEF FirstOf
<1>4. CASE ~(SlotAudit!Charged(e) > Budget)
  <2>1. SlotAudit!Charged(e) \in Int
    BY ChargedInt
  <2>2. SlotAudit!Charged(e) <= Budget
    BY <1>4, <2>1, JudgementsAssumption DEF SlotAudit!AuditAssumption
  <2>3. SUFFICES FirstFits(long, FirstOf(a, e))
    BY <1>4 DEF long, s
  <2>4. /\ a.first # <<>> => \E i \in 1..L : Reaches(s[i]) /\ a.first[1] = FirstHit(s[i])
        /\ (\E i \in 1..L : Reaches(s[i])) => a.first # <<>>
    BY DEF FirstFits, s
  <2>5. CASE Reaches(e) /\ (a.first = <<>> \/ SlotAudit!Charged(e) < a.first[1].charged)
    <3>1. FirstOf(a, e) = <<FirstHit(e)>>
      BY <2>2, <2>5 DEF FirstOf
    <3>2. L + 1 \in 1..Len(long)
      BY <1>1, <1>2
    <3> QED BY <3>1, <3>2, <1>2, <2>5 DEF FirstFits
  <2>6. CASE ~(Reaches(e) /\ (a.first = <<>> \/ SlotAudit!Charged(e) < a.first[1].charged))
    <3>1. FirstOf(a, e) = a.first
      BY <2>6 DEF FirstOf
    <3>2. \A i \in 1..L : i \in 1..Len(long)
      BY <1>1, <1>2
    <3>3. a.first # <<>> => \E i \in 1..Len(long) : Reaches(long[i]) /\ a.first[1] = FirstHit(long[i])
      BY <3>2, <1>2, <2>4
    <3>4. (\E i \in 1..Len(long) : Reaches(long[i])) => a.first # <<>>
      <4>1. ASSUME NEW i \in 1..Len(long), Reaches(long[i]) PROVE a.first # <<>>
        <5>1. i \in 1..L \/ i = L + 1
          BY <1>1, <1>2
        <5>2. CASE i \in 1..L
          BY <4>1, <5>2, <1>2, <2>4
        <5>3. CASE i = L + 1
          BY <4>1, <5>3, <1>2, <2>6
        <5> QED BY <5>1, <5>2, <5>3
      <4> QED BY <4>1
    <3> QED BY <3>1, <3>3, <3>4 DEF FirstFits
  <2> QED BY <2>5, <2>6
<1> QED BY <1>3, <1>4 DEF s, long

LEMMA ReadNext ==
  ASSUME SlotAudit!AuditAssumption, started \in Int, NEW b \in Seq(SlotBody), NEW n \in 1..Len(b),
         NEW z, NEW a \in Readings(z), a.eof = <<>>, ReadSoFar(b, n - 1, a)
  PROVE  /\ ReadSoFar(b, n, SlotAudit!ReadRecord(a, b[n]))
         /\ SlotAudit!ReadRecord(a, b[n]).eof = <<>>
<1> DEFINE e == b[n]
           r == SlotAudit!ReadRecord(a, e)
           was(S) == Among(SubSeq(b, 1, n - 1), S)
           is(S) == Among(SubSeq(b, 1, n), S)
<1>1. e \in SlotEvents \/ e \in SlotPartials
  BY DEF SlotBody
<1>2. /\ 1..n = (1..(n - 1)) \union {n} /\ n \notin 1..(n - 1) /\ (n - 1) + 1 = n
      /\ n - 1 \in Nat
  OBVIOUS
<1>3. \A S : is(S) = IF e \in S THEN Append(was(S), e) ELSE was(S)
  BY AmongPrefix
<1>4. \A S : was(S) \in Seq(SlotBody)
  <2> DEFINE p == SubSeq(b, 1, n - 1)
  <2>1. p \in Seq(SlotBody)
    OBVIOUS
  <2> HIDE DEF p
  <2>2. \A S : Among(p, S) \in Seq(SlotBody)
    BY <2>1, AmongInside
  <2> QED BY <2>2 DEF p
<1>5. /\ a.complete = was(Timely) /\ a.late = SlotAudit!IndicesOf(was(Tardy))
      /\ a.partials = Cardinality({i \in 1..(n - 1) : b[i].type = "partial"})
      /\ a.seen = {b[i].index : i \in 1..(n - 1)}
      /\ a.known = SlotAudit!KnownBefore(b, n)
      /\ (\A i \in 1..(n - 1) : OkAt(b, i)) => a.ok
      /\ FirstFits(a.complete, a.first)
  BY <1>2 DEF ReadSoFar
<1>6. {b[i].index : i \in 1..n} = a.seen \union {e.index}
  BY <1>2, <1>5
<1>7. \A i \in 1..n : i \in 1..(n - 1) \/ i = n
  BY <1>2
<1>8. OkAt(b, n) => e.index \notin a.seen
  BY <1>5 DEF OkAt
<1>9. SlotAudit!KnownBefore(b, n + 1)
        = IF e.type = "sequence" THEN a.known \union SlotAudit!ToSet(e.refs) ELSE a.known
  BY <1>5, KnownNext
<1> DEFINE P(m) == {i \in 1..m : b[i].type = "partial"}
<1>10. IsFiniteSet(P(n - 1)) /\ Cardinality(P(n - 1)) \in Nat
  <2>1. n - 1 \in Nat /\ IsFiniteSet(1..(n - 1))
    BY <1>2, CountTo
  <2>2. IsFiniteSet(P(n - 1))
    BY <2>1, FS_Subset
  <2> QED BY <2>2, FS_CardinalityType
<1>11. CASE e \in SlotEvents
  <2>1. /\ e.type = "sequence" /\ e.calls \in Plans /\ e.refs = SlotAudit!PrefixReferences(e.calls)
    BY <1>11, EventIs
  <2>2. SlotAudit!ReferencesHold(e) /\ SlotAudit!StepsHold(e)
    <3>1. e.calls \in Seq(Calls) /\ Len(e.calls) \in 1..4
      BY <2>1 DEF SlotAudit!AuditAssumption
    <3> HIDE DEF e
    <3>2. e.calls # <<>>
      <4> DEFINE c == e.calls
      <4>3. Len(c) \in 1..4
        BY <3>1
      <4> HIDE DEF c
      <4>1. Len(c) # 0 /\ Len(<<>>) = 0
        BY ONLY <4>3
      <4>2. c # <<>>
        BY <4>1
      <4> QED BY <4>2 DEF c
    <3> QED BY <2>1, <3>1, <3>2, ReferencesAreHeld DEF SlotAudit!StepsHold
  <2>3. SlotAudit!Charged(e) \in Int
    BY <1>11, ChargedInt
  <2>4. /\ SlotAudit!Charged(e) > Budget => e \notin Timely /\ e \in Tardy
        /\ ~(SlotAudit!Charged(e) > Budget) => e \in Timely /\ e \notin Tardy
    BY <1>11, <2>3 DEF Timely, Tardy, SlotAudit!AuditAssumption
  <2> DEFINE C == IF SlotAudit!Charged(e) > Budget THEN a.complete ELSE Append(a.complete, e)
             L == IF SlotAudit!Charged(e) > Budget THEN Append(a.late, e.index) ELSE a.late
             O == ReadsOn(a, e)
             F == FirstOf(a, e)
             S == a.seen \union {e.index}
             K == a.known \union SlotAudit!ToSet(e.refs)
  <2>5. r = [ok |-> O, seen |-> S, known |-> K, eof |-> a.eof, complete |-> C, late |-> L,
             partials |-> a.partials, first |-> F]
    BY <1>11, ReadsSequence
  <2>6. /\ r.ok = O /\ r.seen = S /\ r.known = K /\ r.eof = <<>> /\ r.complete = C /\ r.late = L
        /\ r.partials = a.partials /\ r.first = F
    <3> HIDE DEF O, S, K, C, L, F, r, e
    <3> QED BY <2>5
  <2>7. FirstFits(C, F)
    BY <1>5, <1>11, FirstKeepsFitting
  <2>8. C = is(Timely)
    <3> HIDE DEF is, was, e
    <3> QED BY <1>3, <1>5, <2>4
  <2>9. L = SlotAudit!IndicesOf(is(Tardy))
    <3>1. SlotAudit!IndicesOf(Append(was(Tardy), e)) = Append(SlotAudit!IndicesOf(was(Tardy)), e.index)
      <4> DEFINE q == was(Tardy)
      <4>1. q \in Seq(SlotBody)
        BY <1>4
      <4> HIDE DEF q, e
      <4>2. SlotAudit!IndicesOf(Append(q, e)) = Append(SlotAudit!IndicesOf(q), e.index)
        BY <4>1, IndicesAppend
      <4> QED BY <4>2 DEF q
    <3> HIDE DEF is, was, e
    <3> QED BY <1>3, <1>5, <2>4, <3>1
  <2>10. a.partials = Cardinality(P(n))
    <3>1. P(n) = P(n - 1)
      BY <1>2, <2>1
    <3> HIDE DEF P
    <3>2. a.partials = Cardinality(P(n - 1))
      BY <1>5 DEF P
    <3> QED BY <3>1, <3>2
  <2>11. (\A i \in 1..n : OkAt(b, i)) => O
    <3>1. OkAt(b, n) => SlotAudit!LineageHolds(e, a.known)
      BY <1>5, <2>1 DEF OkAt
    <3>2. \A i \in 1..(n - 1) : i \in 1..n
      BY <1>2
    <3>3. n \in 1..n
      BY <1>2
    <3> HIDE DEF e
    <3> QED BY <1>5, <1>8, <2>2, <3>1, <3>2, <3>3 DEF ReadsOn
  <2> HIDE DEF C, L, O, F, is, r, e
  <2>12. S = {b[i].index : i \in 1..n} /\ K = SlotAudit!KnownBefore(b, n + 1)
    BY <1>6, <1>9, <2>1
  <2> HIDE DEF S, K
  <2>13. ReadSoFar(b, n, r) /\ r.eof = <<>>
    BY <2>6, <2>7, <2>8, <2>9, <2>10, <2>11, <2>12 DEF ReadSoFar, is, P
  <2> QED BY <2>13 DEF r, e
<1>12. CASE e \in SlotPartials
  <2>1. /\ e.type = "partial" /\ e.calls \in Seq(Calls) /\ e.calls # <<>>
        /\ e.refs = SlotAudit!PrefixReferences(e.calls)
    BY <1>12, PartialIs
  <2>2. SlotAudit!ReferencesHold(e)
    <3> HIDE DEF e
    <3> QED BY <2>1, ReferencesAreHeld
  <2>3. e \notin Timely /\ e \notin Tardy
    <3>1. e \notin SlotEvents
      BY <2>1, EventIs
    <3> QED BY <3>1 DEF Timely, Tardy
  <2> DEFINE O == a.ok /\ e.index \notin a.seen /\ SlotAudit!ReferencesHold(e)
             S == a.seen \union {e.index}
  <2>4. r = [ok |-> O, seen |-> S, known |-> a.known, eof |-> a.eof, complete |-> a.complete,
             late |-> a.late, partials |-> a.partials + 1, first |-> a.first]
    BY <1>12, ReadsPartial
  <2>5. /\ r.ok = O /\ r.seen = S /\ r.known = a.known /\ r.eof = <<>> /\ r.complete = a.complete
        /\ r.late = a.late /\ r.partials = a.partials + 1 /\ r.first = a.first
    <3> HIDE DEF O, S, r, e
    <3> QED BY <2>4
  <2>6. a.complete = is(Timely) /\ a.late = SlotAudit!IndicesOf(is(Tardy))
    <3> HIDE DEF is, was, e
    <3> QED BY <1>3, <1>5, <2>3
  <2>7. a.partials + 1 = Cardinality(P(n))
    <3>1. P(n) = P(n - 1) \union {n} /\ n \notin P(n - 1)
      BY <1>2, <2>1
    <3>2. a.partials = Cardinality(P(n - 1))
      BY <1>5
    <3> HIDE DEF P
    <3>3. Cardinality(P(n)) = Cardinality(P(n - 1)) + 1
      BY <3>1, <1>10, FS_AddElement
    <3> QED BY <3>2, <3>3
  <2>8. (\A i \in 1..n : OkAt(b, i)) => O
    <3>1. \A i \in 1..(n - 1) : i \in 1..n
      BY <1>2
    <3>2. n \in 1..n
      BY <1>2
    <3> HIDE DEF e
    <3> QED BY <1>5, <1>8, <2>2, <3>1, <3>2
  <2> HIDE DEF O, is, r, e
  <2>9. S = {b[i].index : i \in 1..n} /\ a.known = SlotAudit!KnownBefore(b, n + 1)
    BY <1>6, <1>9, <2>1
  <2> HIDE DEF S
  <2>10. ReadSoFar(b, n, r) /\ r.eof = <<>>
    BY <1>5, <2>5, <2>6, <2>7, <2>8, <2>9 DEF ReadSoFar, is, P
  <2> QED BY <2>10 DEF r, e
<1> HIDE DEF e, r
<1> QED BY <1>1, <1>11, <1>12 DEF e, r

\* What the reader makes of a whole stream.
LEMMA ReadAll ==
  ASSUME SlotAudit!AuditAssumption, started \in Int, NEW b \in Seq(SlotBody),
         NEW z, z.type = "eof", NEW file, file.events = Append(b, z)
  PROVE  LET r == SlotAudit!ReadCompact(file)
         IN  ReadSoFar(b, Len(b), r) /\ r.eof = <<z>> /\ r \in Readings(z)
<1> DEFINE events == Append(b, z)
           N == Len(b)
<1>1. /\ events \in Seq(SlotBody \union {z}) /\ Len(events) = N + 1 /\ N \in Nat
      /\ events[N + 1] = z /\ \A n \in 1..N : events[n] = b[n]
  <2>1. b \in Seq(SlotBody \union {z})
    OBVIOUS
  <2>2. events \in Seq(SlotBody \union {z})
    BY <2>1
  <2> QED BY <2>2
<1>2. file.events = events
  OBVIOUS
<1> HIDE DEF events, N
<1>3. PICK f \in [0..(N + 1) -> Readings(z)] :
        /\ f[0] = SlotAudit!Fresh
        /\ \A n \in 1..(N + 1) : f[n] = SlotAudit!ReadRecord(f[n - 1], events[n])
        /\ SlotAudit!ReadCompact(file) = f[N + 1]
  <2>1. \E f \in [0..Len(events) -> Readings(z)] :
           /\ f[0] = SlotAudit!Fresh
           /\ \A n \in 1..Len(events) : f[n] = SlotAudit!ReadRecord(f[n - 1], events[n])
           /\ SlotAudit!ReadCompact(file) = f[Len(events)]
    <3>1. SlotAudit!AuditAssumption /\ started \in Int /\ z.type = "eof" /\ file.events = events
          /\ events \in Seq(SlotBody \union {z})
      BY <1>1, <1>2
    <3> QED BY ONLY <3>1, ReadSteps
  <2> QED BY <2>1, <1>1
<1> DEFINE right == {n \in Nat : n <= N => ReadSoFar(b, n, f[n]) /\ f[n].eof = <<>>}
<1>4. 0 \in right
  BY <1>3, ReadNothing
<1>5. ASSUME NEW n \in Nat, n \in right PROVE n + 1 \in right
  <2>1. SUFFICES ASSUME n + 1 <= N
                 PROVE  ReadSoFar(b, n + 1, f[n + 1]) /\ f[n + 1].eof = <<>>
    OBVIOUS
  <2> DEFINE m == n + 1
  <2>2. /\ m \in 1..N /\ m \in 1..(N + 1) /\ m - 1 = n /\ n \in 0..(N + 1)
        /\ ReadSoFar(b, n, f[n]) /\ f[n].eof = <<>>
    BY <1>1, <1>5, <2>1
  <2>3. f[m] = SlotAudit!ReadRecord(f[n], b[m]) /\ f[n] \in Readings(z) /\ m \in 1..Len(b)
    BY <1>1, <1>3, <2>2 DEF N
  <2> HIDE DEF m
  <2> DEFINE a == f[n]
  <2>4. a \in Readings(z) /\ a.eof = <<>> /\ ReadSoFar(b, m - 1, a)
    BY <2>2, <2>3
  <2> HIDE DEF a
  <2>5. /\ ReadSoFar(b, m, SlotAudit!ReadRecord(a, b[m]))
        /\ SlotAudit!ReadRecord(a, b[m]).eof = <<>>
    BY <2>3, <2>4, ReadNext
  <2>6. ReadSoFar(b, m, f[m]) /\ f[m].eof = <<>>
    BY <2>3, <2>5 DEF a
  <2> QED BY <2>6 DEF m
<1> HIDE DEF right
<1>6. N \in right
  BY <1>1, <1>4, <1>5, Induction
<1> DEFINE a == f[N]
           r == f[N + 1]
<1>7. ReadSoFar(b, N, a) /\ a.eof = <<>> /\ a \in Readings(z) /\ r \in Readings(z)
  BY <1>1, <1>3, <1>6 DEF right
<1>8. r = SlotAudit!ReadRecord(a, z)
  <2>2. N \in Nat
    BY <1>1
  <2>1. N + 1 \in 1..(N + 1) /\ (N + 1) - 1 = N
    BY ONLY <2>2
  <2> QED BY <2>1, <1>1, <1>3
<1> HIDE DEF a, r
<1>9. r = [ok |-> a.ok, seen |-> a.seen, known |-> a.known, eof |-> <<z>>,
           complete |-> a.complete, late |-> a.late, partials |-> a.partials, first |-> a.first]
  BY <1>7, <1>8, ReadsEnd
<1>10. ReadSoFar(b, N, r) /\ r.eof = <<z>>
  BY <1>7, <1>9 DEF ReadSoFar
<1> QED BY <1>3, <1>7, <1>10 DEF N, r

----------------------------------------------------------------------------
(* The archived file: complete sequences, at most one that was cut, and the end *)

Tails == {<<>>} \union {<<p>> : p \in SlotPartials}

LEMMA BodyIs ==
  ASSUME NEW c \in Seq(SlotEvents), NEW t \in Tails
  PROVE  /\ c \o t \in Seq(SlotBody) /\ Len(t) \in 0..1 /\ Len(c \o t) = Len(c) + Len(t)
         /\ \A i \in 1..Len(c) : (c \o t)[i] = c[i] /\ c[i] \in SlotEvents
         /\ \A i \in 1..Len(c \o t) : i \notin 1..Len(c) =>
              i = Len(c) + 1 /\ t = <<(c \o t)[i]>> /\ (c \o t)[i] \in SlotPartials
<1>1. c \in Seq(SlotBody) /\ t \in Seq(SlotBody) /\ Len(c) \in Nat
  <2>1. c \in Seq(SlotBody) /\ Len(c) \in Nat
    BY DEF SlotBody
  <2>2. CASE t = <<>>
    BY <2>1, <2>2
  <2>3. CASE t # <<>>
    <3>1. PICK p \in SlotPartials : t = <<p>>
      BY <2>3 DEF Tails
    <3>2. p \in SlotBody
      BY DEF SlotBody
    <3> QED BY <2>1, <3>1, <3>2
  <2> QED BY <2>1, <2>2, <2>3
<1>2. c \o t \in Seq(SlotBody) /\ Len(c \o t) = Len(c) + Len(t)
  BY <1>1
<1>3. Len(t) \in 0..1
  BY DEF Tails
<1>4. \A i \in 1..Len(c) : (c \o t)[i] = c[i] /\ c[i] \in SlotEvents
  BY <1>1
<1>5. ASSUME NEW i \in 1..Len(c \o t), i \notin 1..Len(c)
      PROVE  i = Len(c) + 1 /\ t = <<(c \o t)[i]>> /\ (c \o t)[i] \in SlotPartials
  <2>1. i = Len(c) + 1 /\ Len(t) = 1
    BY <1>1, <1>2, <1>3, <1>5
  <2>2. PICK p \in SlotPartials : t = <<p>>
    BY <2>1 DEF Tails
  <2>3. c \o t = Append(c, p)
    BY <2>2, <1>1
  <2>4. Append(c, p)[Len(c) + 1] = p
    BY <1>1
  <2> QED BY <2>1, <2>2, <2>3, <2>4
<1> QED BY <1>2, <1>3, <1>4, <1>5

LEMMA NotBoth == SlotEvents \cap SlotPartials = {}
BY EventIs, PartialIs

\* The cut sequence is in no set of complete ones.
LEMMA AmongTail ==
  ASSUME NEW c \in Seq(SlotEvents), NEW t \in Tails, NEW S, S \cap SlotPartials = {}
  PROVE  Among(c \o t, S) = Among(c, S)
<1>1. c \in Seq(SlotBody)
  BY DEF SlotBody
<1>2. CASE t = <<>>
  <2>1. c \o t = c
    BY <1>1, <1>2
  <2> QED BY <2>1
<1>3. CASE t # <<>>
  <2>1. PICK p \in SlotPartials : t = <<p>>
    BY <1>3 DEF Tails
  <2>2. c \o t = Append(c, p)
    BY <2>1, <1>1
  <2>3. p \in SlotBody /\ p \notin S
    BY DEF SlotBody
  <2> QED BY <1>1, <2>2, <2>3, AmongAppend
<1> QED BY <1>2, <1>3

LEMMA LeftIs ==
  ASSUME NEW b
  PROVE  /\ SlotAudit!Left(b).events = Append(b, SlotAudit!EofEvent(b))
         /\ SlotAudit!EofEvent(b).type = "eof"
         /\ SlotAudit!EofEvent(b).sequences = SlotAudit!CountOf("sequence", b)
         /\ SlotAudit!EofEvent(b).partials = SlotAudit!CountOf("partial", b)
BY DEF SlotAudit!Left, SlotAudit!EofEvent

LEMMA CountsAre ==
  ASSUME NEW c \in Seq(SlotEvents), NEW t \in Tails
  PROVE  LET b == c \o t
             file == SlotAudit!Left(b)
         IN  /\ SlotAudit!CountOf("sequence", b) = Len(c)
             /\ SlotAudit!CountOf("partial", b)
                  = Cardinality({i \in 1..Len(b) : b[i].type = "partial"})
             /\ SlotAudit!CountOf("sequence", file.events) = Len(c)
             /\ SlotAudit!CountOf("partial", file.events) = SlotAudit!CountOf("partial", b)
<1> DEFINE b == c \o t
           z == SlotAudit!EofEvent(b)
           events == SlotAudit!Left(b).events
           N == Len(b)
           L == Len(c)
<1>1. /\ b \in Seq(SlotBody) /\ L \in Nat /\ N \in Nat /\ L <= N
      /\ \A i \in 1..L : b[i].type = "sequence"
      /\ \A i \in 1..N : i \notin 1..L => b[i].type = "partial"
  <2>1. /\ b \in Seq(SlotBody) /\ Len(t) \in 0..1 /\ N = L + Len(t) /\ L \in Nat
        /\ \A i \in 1..L : b[i] = c[i] /\ c[i] \in SlotEvents
        /\ \A i \in 1..N : i \notin 1..L => b[i] \in SlotPartials
    BY BodyIs
  <2> HIDE DEF b, L, N
  <2> QED BY <2>1, EventIs, PartialIs
<1>2. events = Append(b, z) /\ z.type = "eof"
  BY LeftIs
<1> HIDE DEF b, z, events, L
<1>3. /\ DOMAIN events = 1..(N + 1) /\ events[N + 1] = z /\ \A i \in 1..N : events[i] = b[i]
      /\ DOMAIN b = 1..N
  BY <1>1, <1>2
<1> HIDE DEF N
<1>4. {i \in DOMAIN b : b[i].type = "sequence"} = 1..L
  BY <1>1, <1>3
<1>5. \A i \in DOMAIN events : i \in 1..N \/ (i = N + 1 /\ events[i].type = "eof")
  BY <1>1, <1>2, <1>3
<1>6. \A i \in 1..N : i \in DOMAIN events
  BY <1>1, <1>3
<1>7. {i \in DOMAIN events : events[i].type = "sequence"} = 1..L
  <2>1. \A i \in DOMAIN events : events[i].type = "sequence" <=> i \in 1..L
    BY <1>1, <1>3, <1>5
  <2>2. \A i \in 1..L : i \in DOMAIN events
    BY <1>1, <1>6
  <2> QED BY <2>1, <2>2
<1>8. {i \in DOMAIN events : events[i].type = "partial"} = {i \in DOMAIN b : b[i].type = "partial"}
  BY <1>1, <1>3, <1>5, <1>6
<1>9. Cardinality(1..L) = L
  <2>1. L \in Nat
    BY <1>1
  <2> QED BY <2>1, CountTo
<1>10. /\ SlotAudit!CountOf("sequence", b) = L
       /\ SlotAudit!CountOf("partial", b) = Cardinality({i \in 1..N : b[i].type = "partial"})
       /\ SlotAudit!CountOf("sequence", events) = L
       /\ SlotAudit!CountOf("partial", events) = SlotAudit!CountOf("partial", b)
  BY <1>3, <1>4, <1>7, <1>8, <1>9, SlotCount DEF SlotAudit!CountOf
<1> QED BY <1>10 DEF b, L, N, events

\* The runner takes out the complete sequences.
LEMMA CompleteIs ==
  ASSUME NEW c \in Seq(SlotEvents), NEW t \in Tails
  PROVE  SlotAudit!CompleteOf(SlotAudit!Left(c \o t)) = c
<1> DEFINE b == c \o t
           z == SlotAudit!EofEvent(b)
           events == SlotAudit!Left(b).events
           S == {e \in SlotAudit!ToSet(events) : e.type = "sequence"}
           T == SlotBody \union {z}
<1>1. b \in Seq(SlotBody) /\ \A i \in 1..Len(c) : b[i] = c[i] /\ c[i] \in SlotEvents
  BY BodyIs
<1>2. events = Append(b, z) /\ z.type = "eof"
  BY LeftIs
<1>3. Len(c) \in Nat /\ Len(c) <= Len(b) /\ Len(b) \in Nat
  BY BodyIs
<1> HIDE DEF z
<1>4. b \in Seq(T) /\ z \in T /\ z \notin S
  <2> HIDE DEF b
  <2> QED BY <1>1, <1>2
<1>5. S \cap SlotPartials = {}
  BY PartialIs
<1>6. \A i \in 1..Len(c) : c[i] \in S
  <2>1. \A i \in 1..Len(b) : b[i] \in SlotAudit!ToSet(events)
    <3> HIDE DEF b
    <3>1. DOMAIN events = 1..(Len(b) + 1) /\ \A i \in 1..Len(b) : events[i] = b[i]
      BY <1>1, <1>2
    <3>2. \A i \in 1..Len(b) : i \in DOMAIN events
      BY <3>1, <1>3
    <3> HIDE DEF events
    <3> QED BY <3>1, <3>2 DEF SlotAudit!ToSet
  <2>2. \A i \in 1..Len(c) : i \in 1..Len(b) /\ c[i].type = "sequence"
    BY <1>1, <1>3, EventIs
  <2> HIDE DEF b, events
  <2> QED BY <1>1, <2>1, <2>2
<1>7. SlotAudit!CompleteOf(SlotAudit!Left(b)) = Among(events, S)
  BY SlotAmong DEF SlotAudit!CompleteOf
<1> HIDE DEF S, events, T
<1>8. Among(Append(b, z), S) = Among(b, S)
  <2> HIDE DEF b
  <2> QED BY <1>4, AmongAppend
<1>9. Among(b, S) = Among(c, S)
  BY <1>5, AmongTail
<1>10. Among(c, S) = c
  BY <1>6, AmongAll
<1> QED BY <1>2, <1>7, <1>8, <1>9, <1>10

\* What the reader makes of such a file.
LEMMA ReadFile ==
  ASSUME SlotAudit!AuditAssumption, started \in Int,
         NEW c \in Seq(SlotEvents), NEW t \in Tails
  PROVE  LET b == c \o t
             r == SlotAudit!ReadCompact(SlotAudit!Left(b))
         IN  /\ r.complete = Among(c, Timely) /\ r.complete \in Seq(SlotEvents)
             /\ r.late = SlotAudit!IndicesOf(Among(c, Tardy))
             /\ r.partials = SlotAudit!CountOf("partial", b)
             /\ r.eof = <<SlotAudit!EofEvent(b)>>
             /\ (\A i \in 1..Len(b) : OkAt(b, i)) => r.ok
             /\ FirstFits(r.complete, r.first)
<1> DEFINE b == c \o t
           z == SlotAudit!EofEvent(b)
           file == SlotAudit!Left(b)
           r == SlotAudit!ReadCompact(file)
<1>1. b \in Seq(SlotBody)
  BY BodyIs
<1>2. file.events = Append(b, z) /\ z.type = "eof"
  BY LeftIs
<1>3. SlotAudit!CountOf("partial", b) = Cardinality({i \in 1..Len(b) : b[i].type = "partial"})
  BY CountsAre
<1> HIDE DEF z, file
<1>4. ReadSoFar(b, Len(b), r) /\ r.eof = <<z>> /\ r \in Readings(z)
  <2> HIDE DEF b
  <2> QED BY <1>1, <1>2, ReadAll
<1>5. Timely \cap SlotPartials = {} /\ Tardy \cap SlotPartials = {}
  BY NotBoth DEF Timely, Tardy
<1>6. Among(b, Timely) = Among(c, Timely) /\ Among(b, Tardy) = Among(c, Tardy)
  BY <1>5, AmongTail
<1> HIDE DEF b, r
<1>7. SubSeq(b, 1, Len(b)) = b
  BY <1>1
<1>8. r.complete \in Seq(SlotEvents)
  BY <1>4 DEF Readings
<1>9. /\ r.complete = Among(c, Timely) /\ r.late = SlotAudit!IndicesOf(Among(c, Tardy))
      /\ r.partials = SlotAudit!CountOf("partial", b)
      /\ (\A i \in 1..Len(b) : OkAt(b, i)) => r.ok
      /\ FirstFits(r.complete, r.first)
  BY <1>3, <1>4, <1>6, <1>7 DEF ReadSoFar
<1> QED BY <1>4, <1>8, <1>9 DEF r, file, z, b

\* The runner keeps what came in time and reports the rest.
LEMMA ProjectedIs ==
  ASSUME NEW c \in Seq(SlotEvents), NEW t \in Tails
  PROVE  LET p == SlotAudit!Projected(SlotAudit!Left(c \o t))
             kept == Among(c, Timely)
         IN  /\ p.sequences = kept
             /\ p.late = SlotAudit!IndicesOf(Among(c, Tardy))
             /\ p.observed
                  = SlotAudit!Greatest({SlotAudit!Charged(kept[i]) : i \in DOMAIN kept}, started)
<1> DEFINE file == SlotAudit!Left(c \o t)
           S == SlotAudit!InTime(c)
           R == SlotAudit!ToSet(c) \ SlotAudit!InTime(c)
           kept == Among(c, Timely)
           p == SlotAudit!Projected(file)
<1>1. SlotAudit!CompleteOf(file) = c
  BY CompleteIs
<1> HIDE DEF file
<1>2. \A n \in 1..Len(c) : /\ c[n] \in SlotEvents /\ c[n] \in SlotAudit!ToSet(c)
  BY DEF SlotAudit!ToSet
<1>3. \A n \in 1..Len(c) : (c[n] \in S <=> c[n] \in Timely) /\ (c[n] \in R <=> c[n] \in Tardy)
  BY <1>2 DEF Timely, Tardy, SlotAudit!InTime
<1> HIDE DEF S, R
<1>4. Among(c, S) = kept /\ Among(c, R) = Among(c, Tardy)
  BY <1>3, AmongAgree
<1>5. SlotAudit!Late(c) = SlotAudit!IndicesOf(Among(c, Tardy))
  BY <1>4, SlotAmong DEF SlotAudit!Late, R
<1>6. SlotAudit!Among(c, SlotAudit!InTime(c)) = kept
  BY <1>4, SlotAmong DEF S
<1>7. p = [sequences |-> kept, late |-> SlotAudit!Late(c),
           observed |-> SlotAudit!Greatest({SlotAudit!Charged(kept[i]) : i \in DOMAIN kept}, started)]
  <2> HIDE DEF kept
  <2> QED BY <1>1, <1>6 DEF SlotAudit!Projected
<1> HIDE DEF kept
<1> QED BY <1>5, <1>7 DEF file, kept

\* The audit's reader comes to what the runner projected.
LEMMA ReaderMatches ==
  ASSUME SlotAudit!AuditAssumption, started \in Int, slotWarmup \in Seq(Plans),
         NEW c \in Seq(SlotEvents), NEW t \in Tails,
         \A i \in 1..Len(c \o t) : OkAt(c \o t, i),
         NEW file, file = SlotAudit!Left(c \o t)
  PROVE  LET r == SlotAudit!ReadCompact(file)
             p == SlotAudit!Projected(file)
         IN  /\ SlotAudit!ReadAccepted(r, file, SlotAudit!Metadata(file))
             /\ r.late = p.late /\ SlotAudit!ObservationEnd(r) = p.observed
             /\ SlotAudit!AuditMetrics(r) = SlotAudit!SegmentedMetrics(slotWarmup, p.sequences)
<1> DEFINE b == c \o t
           r == SlotAudit!ReadCompact(file)
           p == SlotAudit!Projected(file)
           meta == SlotAudit!Metadata(file)
           z == SlotAudit!EofEvent(b)
           L == Len(c)
           kept == Among(c, Timely)
           lost == Among(c, Tardy)
<1>1. /\ r.complete = kept /\ r.complete \in Seq(SlotEvents) /\ r.late = SlotAudit!IndicesOf(lost)
      /\ r.partials = SlotAudit!CountOf("partial", b) /\ r.eof = <<z>> /\ r.ok
  BY ReadFile
<1>2. /\ p.sequences = kept /\ p.late = SlotAudit!IndicesOf(lost)
      /\ p.observed = SlotAudit!Greatest({SlotAudit!Charged(kept[i]) : i \in DOMAIN kept}, started)
  BY ProjectedIs
<1>3. z.sequences = L /\ z.partials = SlotAudit!CountOf("partial", b)
  BY LeftIs, CountsAre
<1>4. meta.file = file /\ meta.sequences = L /\ meta.partials = SlotAudit!CountOf("partial", b)
  <2>1. /\ meta.sequences = SlotAudit!CountOf("sequence", file.events)
        /\ meta.partials = SlotAudit!CountOf("partial", file.events) /\ meta.file = file
    BY DEF SlotAudit!Metadata
  <2> HIDE DEF meta
  <2> QED BY <2>1, CountsAre
<1>5. Len(kept) + Len(lost) = L
  <2>1. \A n \in 1..Len(c) : c[n] \in Timely <=> c[n] \notin Tardy
    BY DEF Timely, Tardy
  <2> QED BY <2>1, AmongSplit
<1>6. Len(SlotAudit!IndicesOf(lost)) = Len(lost)
  <2>1. lost \in Seq(SlotEvents)
    BY AmongInside
  <2> HIDE DEF lost
  <2> QED BY <2>1 DEF SlotAudit!IndicesOf
<1> HIDE DEF r, p, meta, z, kept, lost, b, L
<1>7. SlotAudit!AuditMetrics(r) = SlotAudit!SegmentedMetrics(slotWarmup, p.sequences)
  <2>1. SlotAudit!AuditMetrics(r) = SlotAudit!SegmentedMetrics(slotWarmup, r.complete)
    BY <1>1, MetricsAgree
  <2> QED BY <2>1, <1>1, <1>2
<1>8. SlotAudit!ObservationEnd(r) = p.observed
  BY <1>1, <1>2 DEF SlotAudit!ObservationEnd
<1>9. r.eof # <<>> /\ r.eof[1] = z
  BY <1>1
<1>10. /\ r.eof[1].sequences = Len(r.complete) + Len(r.late) /\ r.eof[1].partials = r.partials
       /\ meta.sequences = Len(r.complete) + Len(r.late) /\ meta.partials = r.partials
  BY <1>1, <1>3, <1>4, <1>5, <1>6, <1>9
<1>11. SlotAudit!ReadAccepted(r, file, meta)
  BY <1>1, <1>4, <1>9, <1>10 DEF SlotAudit!ReadAccepted
<1> QED BY <1>1, <1>2, <1>7, <1>8, <1>11 DEF r, p, meta

\* A file without one of its sequences.
LEMMA RemovedIs ==
  ASSUME NEW c \in Seq(SlotEvents), NEW t \in Tails, NEW i \in 1..Len(c)
  PROVE  SlotAudit!Recounted(SlotAudit!RemoveAt(SlotAudit!Left(c \o t).events, i))
           = SlotAudit!Left(SlotAudit!RemoveAt(c, i) \o t)
<1> DEFINE b == c \o t
           z == SlotAudit!EofEvent(b)
           T == SlotBody \union {z}
           events == Append(b, z)
           less == SlotAudit!RemoveAt(events, i)
           d == SlotAudit!RemoveAt(c, i)
           body == SubSeq(less, 1, Len(less) - 1)
           N == Len(b)
           L == Len(c)
<1>1. /\ b \in Seq(SlotBody) /\ Len(t) \in 0..1 /\ N = L + Len(t) /\ L \in Nat
      /\ \A j \in 1..L : b[j] = c[j]
  BY BodyIs
<1>2. SlotAudit!Left(b).events = events
  BY LeftIs
<1> HIDE DEF z
<1>3. /\ events \in Seq(T) /\ Len(events) = N + 1 /\ \A j \in 1..N : events[j] = b[j]
  <2> HIDE DEF b, N
  <2>1. b \in Seq(T) /\ Len(b) \in Nat
    BY <1>1
  <2> HIDE DEF T
  <2>2. z \in T
    BY DEF T
  <2> QED BY <2>1, <2>2 DEF N
<1>4. i \in 1..Len(events)
  <2> HIDE DEF events, N, L
  <2>1. i \in 1..L
    BY DEF L
  <2> QED BY <2>1, <1>1, <1>3
<1>5. /\ less \in Seq(T) /\ Len(less) = N
      /\ \A j \in 1..N : less[j] = IF j < i THEN events[j] ELSE events[j + 1]
  <2> HIDE DEF events, T, N
  <2>1. /\ less \in Seq(T) /\ Len(less) = Len(events) - 1
        /\ \A j \in 1..(Len(events) - 1) : less[j] = IF j < i THEN events[j] ELSE events[j + 1]
    BY <1>3, <1>4, RemoveAtIs
  <2>2. N \in Nat /\ Len(events) - 1 = N
    BY <1>1, <1>3
  <2> HIDE DEF less
  <2> QED BY <2>1, <2>2
<1>6. /\ d \in Seq(SlotEvents) /\ Len(d) = L - 1
      /\ \A j \in 1..(L - 1) : d[j] = IF j < i THEN c[j] ELSE c[j + 1]
  BY RemoveAtIs
<1> HIDE DEF less, d, events, T
<1>7. N \in Nat /\ N >= 1 /\ i \in 1..L
  <2>1. i \in 1..L
    OBVIOUS
  <2> HIDE DEF N, L
  <2> QED BY <2>1, <1>1
<1>8. /\ body = [j \in 1..(N - 1) |-> IF j < i THEN b[j] ELSE b[j + 1]]
  <2> HIDE DEF N, b, L
  <2>1. body = [j \in 1..(N - 1) |-> less[j]]
    BY <1>5, <1>7
  <2>2. \A j \in 1..(N - 1) : less[j] = IF j < i THEN b[j] ELSE b[j + 1]
    BY <1>3, <1>5, <1>7
  <2> HIDE DEF body
  <2> QED BY <2>1, <2>2
<1>9. d \o t = [j \in 1..(N - 1) |-> IF j < i THEN b[j] ELSE b[j + 1]]
  <2>1. CASE t = <<>>
    <3>1. d \o t = d /\ N = L
      BY <2>1, <1>1, <1>6
    <3>2. d = [j \in 1..(L - 1) |-> IF j < i THEN c[j] ELSE c[j + 1]]
      <4>1. d = [j \in 1..Len(d) |-> d[j]]
        BY <1>6
      <4> HIDE DEF L, b, N
      <4> QED BY <4>1, <1>6
    <3>3. \A j \in 1..(L - 1) : j \in 1..L /\ j + 1 \in 1..L
      BY <1>1
    <3> HIDE DEF N, L, b
    <3>4. \A j \in 1..(L - 1) : (IF j < i THEN c[j] ELSE c[j + 1]) = (IF j < i THEN b[j] ELSE b[j + 1])
      BY <1>1, <3>3
    <3> QED BY <3>1, <3>2, <3>4
  <2>2. CASE t # <<>>
    <3>1. PICK p \in SlotPartials : t = <<p>>
      BY <2>2 DEF Tails
    <3>2. b = Append(c, p) /\ N = L + 1
      BY <3>1, <1>1
    <3>3. b[L + 1] = p
      BY <3>2, <1>1
    <3>4. d \o t = Append(d, p)
      BY <3>1, <1>6
    <3> DEFINE h == [j \in 1..(N - 1) |-> IF j < i THEN b[j] ELSE b[j + 1]]
               g == Append(d, p)
    <3> HIDE DEF N, L, b
    <3>5. g = [j \in 1..(N - 1) |-> g[j]]
      <4>1. g = [j \in 1..Len(g) |-> g[j]] /\ Len(g) = L
        <5>1. d \in Seq(SlotBody) /\ p \in SlotBody
          BY <1>6 DEF SlotBody
        <5>2. g \in Seq(SlotBody) /\ Len(g) = Len(d) + 1
          BY <5>1
        <5>3. Len(g) = L
          BY <5>2, <1>1, <1>6
        <5> HIDE DEF g
        <5> QED BY <5>2, <5>3
      <4>2. N - 1 = L
        BY <3>2, <1>1
      <4> HIDE DEF g
      <4> QED BY <4>1, <4>2
    <3>6. ASSUME NEW j \in 1..(N - 1) PROVE g[j] = h[j]
      <4>1. N - 1 = L /\ j \in 1..L /\ L \in Nat
        BY <3>2, <1>1
      <4>2. CASE j = L
        <5>1. g[j] = p
          BY <4>1, <4>2, <1>6
        <5>2. ~(j < i)
          BY <4>1, <4>2, <1>7
        <5>3. h[j] = b[L + 1]
          BY <4>2, <5>2
        <5> QED BY <5>1, <5>3, <3>3
      <4>3. CASE j # L
        <5>1. j \in 1..(L - 1) /\ j \in 1..L /\ j + 1 \in 1..L
          BY <4>1, <4>3
        <5>2. g[j] = d[j]
          BY <5>1, <1>6
        <5>3. d[j] = IF j < i THEN c[j] ELSE c[j + 1]
          BY <5>1, <1>6
        <5>4. h[j] = IF j < i THEN b[j] ELSE b[j + 1]
          OBVIOUS
        <5>5. b[j] = c[j] /\ b[j + 1] = c[j + 1]
          BY <5>1, <1>1
        <5> HIDE DEF h, g
        <5> QED BY <5>2, <5>3, <5>4, <5>5
      <4> QED BY <4>2, <4>3
    <3>7. h = [j \in 1..(N - 1) |-> h[j]]
      OBVIOUS
    <3> HIDE DEF g, h
    <3>8. g = h
      BY <3>5, <3>6, <3>7
    <3> QED BY <3>4, <3>8 DEF g, h
  <2> QED BY <2>1, <2>2
<1>10. SlotAudit!Recounted(less) = SlotAudit!Left(body)
  BY DEF SlotAudit!Recounted, SlotAudit!Body, SlotAudit!Front
<1>11. SlotAudit!Recounted(less) = SlotAudit!Left(d \o t)
  BY <1>8, <1>9, <1>10
<1> QED BY <1>2, <1>11 DEF less, events, d

----------------------------------------------------------------------------
(* The row *)

\* The end of the observation is the greatest of its times.
LEMMA GreatestIs ==
  ASSUME NEW s \in Seq(Int), NEW default
  PROVE  \A i \in 1..Len(s) :
           s[i] <= SlotAudit!Greatest({s[j] : j \in DOMAIN s}, default)
<1> DEFINE times == {s[j] : j \in DOMAIN s}
<1>1. ASSUME NEW i \in 1..Len(s) PROVE s[i] <= SlotAudit!Greatest(times, default)
  <2>1. PICK j \in 1..Len(s) : \A k \in 1..Len(s) : s[k] <= s[j]
    BY TopIs
  <2>2. times = {s[k] : k \in 1..Len(s)}
    OBVIOUS
  <2> HIDE DEF times
  <2>3. s[j] \in times /\ \A u \in times : u <= s[j]
    BY <2>1, <2>2
  <2>4. times # {}
    BY <2>3
  <2> DEFINE g == CHOOSE t \in times : \A u \in times : u <= t
  <2>5. g \in times /\ \A u \in times : u <= g
    BY <2>3
  <2>6. SlotAudit!Greatest(times, default) = g
    BY <2>4 DEF SlotAudit!Greatest
  <2> HIDE DEF g
  <2> QED BY <2>2, <2>5, <2>6
<1> QED BY <1>1

\* A segment reaches the goal by one of its sequences.
LEMMA GoalSeen ==
  ASSUME SlotAudit!AuditAssumption, NEW s \in Seq(SlotEvents), NEW kinds
  PROVE  LET goal == SlotAudit!Snapshot(SlotAudit!OfKind(kinds, s)).goal
         IN  /\ goal \in BOOLEAN
             /\ goal <=> \E i \in 1..Len(s) : SlotAudit!Kind(s[i]) \in kinds /\ Reaches(s[i])
<1> DEFINE c == SlotAudit!OfKind(kinds, s)
           S == {e \in SlotAudit!ToSet(s) : SlotAudit!Kind(e) \in kinds}
           walks == UNION {SlotAudit!ToSet(SlotAudit!Steps(c[i])) : i \in DOMAIN c}
           goal == SlotAudit!Snapshot(c).goal
<1>1. /\ c \in Seq(SlotEvents) /\ c = Among(s, S)
  BY ChosenAre
<1>2. \A n \in 1..Len(s) : s[n] \in S <=> SlotAudit!Kind(s[n]) \in kinds
  BY DEF SlotAudit!ToSet
<1>3. /\ \A i \in 1..Len(c) : c[i] \in S /\ \E n \in 1..Len(s) : c[i] = s[n]
      /\ \A n \in 1..Len(s) : s[n] \in S => \E i \in 1..Len(c) : c[i] = s[n]
  <2>1. /\ \A i \in 1..Len(Among(s, S)) :
             Among(s, S)[i] \in S /\ \E n \in 1..Len(s) : Among(s, S)[i] = s[n]
        /\ \A n \in 1..Len(s) : s[n] \in S =>
             \E i \in 1..Len(Among(s, S)) : Among(s, S)[i] = s[n]
    <3> HIDE DEF S, c
    <3> QED BY AmongInside
  <2> HIDE DEF S, c
  <2> QED BY <1>1, <2>1
<1> HIDE DEF S, c
<1>4. goal = (\E p \in walks : SlotAudit!GoalAt(p))
  BY DEF SlotAudit!Snapshot
<1>5. ASSUME NEW i \in 1..Len(c)
      PROVE  Reaches(c[i]) <=> \E p \in SlotAudit!ToSet(SlotAudit!Steps(c[i])) : SlotAudit!GoalAt(p)
  <2>1. c[i] \in SlotEvents
    BY <1>1
  <2>2. c[i].refs = SlotAudit!Steps(c[i])
    BY <2>1, EventIs DEF SlotAudit!Steps
  <2> QED BY <2>2 DEF Reaches, SlotAudit!ToSet
<1>6. (\E p \in walks : SlotAudit!GoalAt(p)) <=> \E i \in 1..Len(c) : Reaches(c[i])
  <2>1. DOMAIN c = 1..Len(c)
    BY <1>1
  <2> QED BY <2>1, <1>5
<1>7. (\E i \in 1..Len(c) : Reaches(c[i]))
        <=> \E n \in 1..Len(s) : SlotAudit!Kind(s[n]) \in kinds /\ Reaches(s[n])
  BY <1>2, <1>3
<1> HIDE DEF walks, goal
<1>8. goal \in BOOLEAN /\ (goal <=> \E n \in 1..Len(s) : SlotAudit!Kind(s[n]) \in kinds /\ Reaches(s[n]))
  BY <1>4, <1>6, <1>7
<1> QED BY <1>8 DEF goal, c

\* Why a slot without seeds missed its goal.
Misses == {"no_eligible_prefix", "timeout", "invalid_model", "replay_mismatch", "no_candidate",
           "native_continuation_no_goal"}

\* The goal of a row, its reason and its first hit agree.
LEMMA RowExplains ==
  ASSUME SlotAudit!AuditAssumption, started \in Int, slotWarmup \in Seq(Plans),
         NEW c \in Seq(SlotEvents), NEW first, FirstFits(c, first),
         NEW m, m = SlotAudit!SegmentedMetrics(slotWarmup, c),
         NEW end, end = SlotAudit!Greatest({SlotAudit!Charged(c[i]) : i \in DOMAIN c}, started),
         accepted # {} => augmentation = "completed"
  PROVE  LET goal == SlotAudit!GoalReached(m)
             reason == SlotAudit!MissReason(m)
         IN  /\ goal <=> reason \in {"warmup_goal_reached", "native_import_goal_reached",
                                     "native_continuation_goal_reached"}
             /\ first # <<>> => goal /\ first[1].charged <= end
             /\ reason = "native_import_goal_reached" => first # <<>>
             /\ reason = "native_continuation_goal_reached" =>
                  first # <<>> /\ first[1].kind # "startup_replay"
             /\ reason = "verified_seed_but_native_goal_not_observed" <=> ~goal /\ accepted # {}
<1> DEFINE goal == SlotAudit!GoalReached(m)
           reason == SlotAudit!MissReason(m)
           Startup == {"startup_replay"}
           Rest == {"new_sequence", "mutation"}
           Hit(kinds) == \E i \in 1..Len(c) : SlotAudit!Kind(c[i]) \in kinds /\ Reaches(c[i])
           lifted == [i \in DOMAIN slotWarmup |-> [calls |-> slotWarmup[i]]]
<1>1. /\ m.warmup = SlotAudit!Snapshot(lifted)
      /\ m.import = SlotAudit!Snapshot(SlotAudit!OfKind(Startup, c))
      /\ m.continuation = SlotAudit!Snapshot(SlotAudit!OfKind(Rest, c))
  BY DEF SlotAudit!SegmentedMetrics
<1>2. /\ m.import.goal \in BOOLEAN /\ (m.import.goal <=> Hit(Startup))
      /\ m.continuation.goal \in BOOLEAN /\ (m.continuation.goal <=> Hit(Rest))
  <2>1. \A kinds : /\ SlotAudit!Snapshot(SlotAudit!OfKind(kinds, c)).goal \in BOOLEAN
                   /\ SlotAudit!Snapshot(SlotAudit!OfKind(kinds, c)).goal <=> Hit(kinds)
    BY GoalSeen
  <2> HIDE DEF Hit, Startup, Rest
  <2> QED BY <1>1, <2>1
<1>3. m.warmup.goal \in BOOLEAN
  <2>1. SlotAudit!Snapshot(lifted).goal \in BOOLEAN
    <3> HIDE DEF lifted
    <3> QED BY DEF SlotAudit!Snapshot
  <2> QED BY <1>1, <2>1
<1>4. ASSUME NEW i \in 1..Len(c), Reaches(c[i]) PROVE Hit(Startup) \/ Hit(Rest)
  <2>1. c[i] \in SlotEvents
    OBVIOUS
  <2>2. SlotAudit!Kind(c[i]) \in SlotKinds
    BY <2>1, EventIs
  <2>3. SlotAudit!Kind(c[i]) \in Startup \/ SlotAudit!Kind(c[i]) \in Rest
    BY <2>2 DEF SlotKinds
  <2> QED BY <1>4, <2>3
<1>5. /\ first # <<>> => \E i \in 1..Len(c) : Reaches(c[i]) /\ first[1] = FirstHit(c[i])
      /\ (\E i \in 1..Len(c) : Reaches(c[i])) => first # <<>>
  BY DEF FirstFits
<1>6. goal <=> m.warmup.goal \/ m.import.goal \/ m.continuation.goal
  BY DEF SlotAudit!GoalReached
<1>7. first # <<>> => goal
  <2> HIDE DEF Hit, goal
  <2> QED BY <1>2, <1>4, <1>5, <1>6
<1>8. first # <<>> => first[1].charged <= end
  <2>1. SUFFICES ASSUME first # <<>> PROVE first[1].charged <= end
    OBVIOUS
  <2>2. PICK i \in 1..Len(c) : Reaches(c[i]) /\ first[1] = FirstHit(c[i])
    BY <1>5, <2>1
  <2>3. first[1].charged = SlotAudit!Charged(c[i])
    BY <2>2 DEF FirstHit
  <2> DEFINE s == [j \in 1..Len(c) |-> SlotAudit!Charged(c[j])]
  <2>4. \A j \in 1..Len(c) : SlotAudit!Charged(c[j]) \in Int
    <3>1. \A j \in 1..Len(c) : c[j] \in SlotEvents
      OBVIOUS
    <3> QED BY <3>1, ChargedInt
  <2>5. Len(c) \in Nat /\ DOMAIN c = 1..Len(c)
    OBVIOUS
  <2>6. s \in Seq(Int) /\ Len(s) = Len(c) /\ DOMAIN s = DOMAIN c
        /\ \A j \in 1..Len(c) : s[j] = SlotAudit!Charged(c[j])
    <3> DEFINE n == Len(c)
               C(j) == SlotAudit!Charged(c[j])
    <3>1. n \in Nat /\ (\A j \in 1..n : C(j) \in Int) /\ DOMAIN c = 1..n
      BY <2>4, <2>5
    <3> HIDE DEF n, C
    <3>2. [j \in 1..n |-> C(j)] \in Seq(Int) /\ Len([j \in 1..n |-> C(j)]) = n
          /\ DOMAIN [j \in 1..n |-> C(j)] = DOMAIN c
          /\ \A j \in 1..n : [k \in 1..n |-> C(k)][j] = C(j)
      BY <3>1
    <3> QED BY <3>2 DEF n, C
  <2> HIDE DEF s
  <2>7. {s[j] : j \in DOMAIN s} = {SlotAudit!Charged(c[j]) : j \in DOMAIN c}
    BY <2>5, <2>6
  <2>8. s[i] <= SlotAudit!Greatest({s[j] : j \in DOMAIN s}, started)
    <3>1. i \in 1..Len(s)
      BY <2>6
    <3> QED BY <3>1, <2>6, GreatestIs
  <2> QED BY <2>3, <2>6, <2>7, <2>8
<1>9. \E why \in Misses :
        reason = IF m.warmup.goal THEN "warmup_goal_reached"
                 ELSE IF m.import.goal THEN "native_import_goal_reached"
                 ELSE IF m.continuation.goal THEN "native_continuation_goal_reached"
                 ELSE IF accepted # {} THEN "verified_seed_but_native_goal_not_observed"
                 ELSE why
  <2> DEFINE why == IF augmentation \in SlotAudit!Empty \ {"not_applicable", "no_candidate"}
                    THEN augmentation
                    ELSE IF augmentation = "no_candidate" THEN "no_candidate"
                    ELSE "native_continuation_no_goal"
  <2>1. why \in Misses
    BY DEF SlotAudit!Empty, Misses
  <2>2. accepted # {} => augmentation \notin SlotAudit!Empty
    BY DEF SlotAudit!Empty
  <2> QED BY <2>1, <2>2 DEF SlotAudit!MissReason
<1>10. goal <=> reason \in {"warmup_goal_reached", "native_import_goal_reached",
                            "native_continuation_goal_reached"}
  <2> HIDE DEF goal, reason, Hit
  <2> QED BY <1>2, <1>3, <1>6, <1>9 DEF Misses
<1>11. reason = "native_import_goal_reached" => first # <<>>
  <2>1. reason = "native_import_goal_reached" => m.import.goal
    <3> HIDE DEF reason, Hit
    <3> QED BY <1>2, <1>3, <1>9 DEF Misses
  <2> HIDE DEF reason
  <2> QED BY <2>1, <1>2, <1>5
<1>12. reason = "native_continuation_goal_reached" =>
         first # <<>> /\ first[1].kind # "startup_replay"
  <2>1. SUFFICES ASSUME reason = "native_continuation_goal_reached"
                 PROVE  first # <<>> /\ first[1].kind # "startup_replay"
    OBVIOUS
  <2>2. ~m.import.goal /\ m.continuation.goal
    <3> HIDE DEF reason, Hit
    <3> QED BY <1>2, <1>3, <1>9, <2>1 DEF Misses
  <2>3. first # <<>>
    BY <2>2, <1>2, <1>5
  <2>4. PICK i \in 1..Len(c) : Reaches(c[i]) /\ first[1] = FirstHit(c[i])
    BY <1>5, <2>3
  <2>5. SlotAudit!Kind(c[i]) # "startup_replay"
    BY <2>2, <2>4, <1>2
  <2>6. first[1].kind = SlotAudit!Kind(c[i])
    BY <2>4 DEF FirstHit
  <2> QED BY <2>3, <2>5, <2>6
<1>13. reason = "verified_seed_but_native_goal_not_observed" <=> ~goal /\ accepted # {}
  <2> HIDE DEF goal, reason, Hit
  <2> QED BY <1>2, <1>3, <1>6, <1>9 DEF Misses
<1> HIDE DEF goal, reason
<1> QED BY <1>7, <1>8, <1>10, <1>11, <1>12, <1>13 DEF goal, reason

----------------------------------------------------------------------------
(* The slot *)

\* What the campaign wrote until some time: numbered, with lineages that hold.
WrittenBy(s, time) ==
  \A i \in 1..Len(s) :
    /\ s[i].index = i /\ SlotAudit!LineageHolds(s[i], SlotAudit!KnownBefore(s, i))
    /\ SlotAudit!Charged(s[i]) <= time

SlotReplayed(s) == {s[i].calls : i \in {j \in 1..Len(s) : SlotAudit!Kind(s[j]) = "startup_replay"}}
Continued(s) == \E i \in 1..Len(s) : SlotAudit!Kind(s[i]) # "startup_replay"

\* The file of the campaign, with its cut sequence t.
TailOf(t) == t \in Tails /\ \A i \in 1..Len(t) : t[i].index = Len(slotStream) + 1
Original(t) ==
  /\ TailOf(t) /\ native.file = SlotAudit!Left(slotStream \o t)
  /\ native.meta = SlotAudit!Metadata(native.file)
  /\ native = [stop |-> native.stop, ended |-> native.ended, file |-> native.file,
               meta |-> native.meta]

\* The record the runner stored of it.
Recorded ==
  LET p == SlotAudit!Projected(native.file)
      m == SlotAudit!SegmentedMetrics(slotWarmup, p.sequences)
  IN  /\ slotRecord.valid \in BOOLEAN
      /\ slotRecord.status = "completed" =>
           /\ slotRecord.late = p.late /\ slotRecord.observed = p.observed
           /\ slotRecord.metrics = m /\ slotRecord.goal = SlotAudit!GoalReached(m)
           /\ slotRecord = [status |-> "completed", valid |-> slotRecord.valid,
                            late |-> slotRecord.late, observed |-> slotRecord.observed,
                            charged |-> slotRecord.charged, metrics |-> slotRecord.metrics,
                            goal |-> slotRecord.goal]
      /\ slotRecord.valid => slotRecord.status = "completed"

\* A valid slot ended in its budget, by its time, after it had continued.
Validly ==
  /\ native.ended <= Budget /\ native.stop = "time_limit" /\ Continued(slotStream)
  /\ slotRecord.charged \in Nat /\ native.ended <= slotRecord.charged

\* One of the files is of another attempt.
Forged ==
  LET told == SlotAudit!SegmentedMetrics(slotWarmup, slotStream)
  IN  \E t \in Tails :
        \/ \E i \in 1..Len(slotStream) :
             /\ native.file = SlotAudit!Left(SlotAudit!RemoveAt(slotStream, i) \o t)
             /\ slotRecord.metrics = told
        \/ /\ native.file = SlotAudit!Left(slotStream \o t)
           /\ \/ \E i \in 1..Len(slotStream) :
                   slotRecord.metrics
                     = SlotAudit!SegmentedMetrics(slotWarmup, SlotAudit!RemoveAt(slotStream, i))
              \/ slotRecord.goal # SlotAudit!GoalReached(told)

SlotTypes ==
  /\ slotPhase \in {"setup", "search", "stopped", "ended", "audited"}
  /\ slotNow \in Nat /\ started \in Nat /\ started <= slotNow
  /\ slotWarmup \in Seq(Plans) /\ accepted \subseteq Plans
  /\ augmentation \in SlotAudit!Empty \union {"completed"}
  /\ (accepted # {} <=> augmentation = "completed") /\ slotPending \subseteq Plans
  /\ known \subseteq Seq(Calls) /\ slotStream \in Seq(SlotEvents) /\ slotDamaged \in BOOLEAN

SlotCampaign ==
  /\ slotPhase = "setup" => slotStream = <<>>
  /\ slotPhase \in {"setup", "search"} => WrittenBy(slotStream, slotNow)
  /\ known = SlotAudit!KnownBefore(slotStream, Len(slotStream) + 1)
  /\ accepted \subseteq slotPending \union SlotReplayed(slotStream)
  /\ Continued(slotStream) => slotPending = {}

SlotArchive ==
  /\ slotPhase \in {"stopped", "ended", "audited"} =>
       /\ native.ended \in Nat /\ started <= native.ended /\ native.ended <= slotNow
       /\ WrittenBy(slotStream, native.ended)
       /\ ~slotDamaged => \E t \in Tails : Original(t)
  /\ slotPhase \in {"ended", "audited"} =>
       /\ slotRecord.valid => Validly
       /\ ~slotDamaged => Recorded
       /\ slotDamaged => slotRecord.valid /\ Forged
  /\ slotPhase \in {"setup", "search", "stopped"} => ~slotDamaged

SlotConcluded ==
  slotPhase = "audited" =>
    SlotAudit!ValidPassesAudit /\ SlotAudit!RowIsOriginal /\ SlotAudit!RowExplainsGoal

SlotInv == SlotTypes /\ SlotCampaign /\ SlotArchive /\ SlotConcluded

LEMMA SlotStarts == ASSUME SlotAudit!AuditAssumption, SlotAudit!Init PROVE SlotInv
<1> USE DEF SlotAudit!Init
<1>1. SlotTypes
  <2>1. slotWarmup \in Seq(Plans) /\ accepted \subseteq Plans
    BY DEF SlotAudit!AuditAssumption
  <2>2. SlotAudit!ToSet(slotWarmup) \subseteq Plans
    BY <2>1 DEF SlotAudit!ToSet
  <2>3. slotPending \subseteq Plans /\ known \subseteq Seq(Calls)
    BY <2>1, <2>2
  <2>4. slotStream \in Seq(SlotEvents)
    OBVIOUS
  <2>5. slotNow \in Nat /\ started \in Nat /\ started <= slotNow
    <3>1. slotNow = 0 /\ started = 0
      OBVIOUS
    <3> QED BY ONLY <3>1
  <2>6. slotDamaged \in BOOLEAN /\ slotPhase = "setup"
    OBVIOUS
  <2>7. augmentation \in SlotAudit!Empty \union {"completed"}
        /\ (accepted # {} <=> augmentation = "completed")
    <3>1. Endings \subseteq SlotAudit!Empty /\ "completed" \notin SlotAudit!Empty
      BY DEF SlotAudit!AuditAssumption, SlotAudit!Empty
    <3> QED BY <3>1
  <2> QED BY <2>1, <2>3, <2>4, <2>5, <2>6, <2>7 DEF SlotTypes
<1>2. SlotCampaign
  <2>1. slotStream = <<>> /\ Len(<<>>) = 0
    OBVIOUS
  <2>2. WrittenBy(<<>>, slotNow) /\ ~Continued(<<>>)
    BY <2>1 DEF WrittenBy, Continued
  <2>3. SlotAudit!KnownBefore(<<>>, 0 + 1) = {}
    <3>1. {k \in 1..((0 + 1) - 1) : (<<>>)[k].type = "sequence"} = {}
      OBVIOUS
    <3> QED BY <3>1 DEF SlotAudit!KnownBefore
  <2> QED BY <2>1, <2>2, <2>3 DEF SlotCampaign
<1>3. SlotArchive /\ SlotConcluded
  BY DEF SlotArchive, SlotConcluded
<1> QED BY <1>1, <1>2, <1>3 DEF SlotInv

\* The records of what was written are in order, with a cut sequence or without.
LEMMA WrittenIsOk ==
  ASSUME NEW s \in Seq(SlotEvents), NEW time, WrittenBy(s, time), NEW t \in Tails,
         \A i \in 1..Len(t) : t[i].index = Len(s) + 1
  PROVE  \A i \in 1..Len(s \o t) : OkAt(s \o t, i)
<1> DEFINE b == s \o t
           L == Len(s)
<1>1. /\ b \in Seq(SlotBody) /\ L \in Nat
      /\ \A i \in 1..L : b[i] = s[i] /\ s[i] \in SlotEvents
      /\ \A i \in 1..Len(b) : i \notin 1..L => i = L + 1 /\ t = <<b[i]>> /\ b[i] \in SlotPartials
  BY BodyIs
<1>2. \A i \in 1..L : s[i].index = i /\ SlotAudit!LineageHolds(s[i], SlotAudit!KnownBefore(s, i))
  BY DEF WrittenBy
<1>3. \A i \in 1..Len(b) : b[i].index = i
  <2>1. \A i \in 1..L : b[i].index = i
    BY <1>1, <1>2
  <2>2. ASSUME NEW i \in 1..Len(b), i \notin 1..L PROVE b[i].index = i
    <3>1. i = L + 1 /\ t = <<b[i]>>
      BY <1>1, <2>2
    <3>2. 1 \in 1..Len(t) /\ t[1] = b[i]
      BY <3>1
    <3> QED BY <3>1, <3>2
  <2> QED BY <2>1, <2>2
<1> HIDE DEF b, L
<1>4. ASSUME NEW i \in 1..L PROVE SlotAudit!KnownBefore(b, i) = SlotAudit!KnownBefore(s, i)
  <2>1. \A k \in 1..(i - 1) : b[k] = s[k]
    <3>1. \A k \in 1..(i - 1) : k \in 1..L
      BY <1>1
    <3> QED BY <3>1, <1>1
  <2>2. {k \in 1..(i - 1) : b[k].type = "sequence"} = {k \in 1..(i - 1) : s[k].type = "sequence"}
    BY <2>1
  <2>3. \A k \in {k \in 1..(i - 1) : s[k].type = "sequence"} : b[k].refs = s[k].refs
    BY <2>1
  <2> DEFINE K == {k \in 1..(i - 1) : s[k].type = "sequence"}
  <2>4. {SlotAudit!ToSet(b[j].refs) : j \in K} = {SlotAudit!ToSet(s[j].refs) : j \in K}
    BY <2>3
  <2> QED BY <2>2, <2>4 DEF SlotAudit!KnownBefore
<1>5. ASSUME NEW i \in 1..Len(b) PROVE OkAt(b, i)
  <2>1. \A j \in 1..(i - 1) : b[j].index # b[i].index
    <3>1. Len(b) \in Nat
      BY <1>1
    <3>2. \A j \in 1..(i - 1) : j \in 1..Len(b) /\ j # i
      BY <3>1
    <3> QED BY <3>2, <1>3
  <2>2. b[i].type = "sequence" => SlotAudit!LineageHolds(b[i], SlotAudit!KnownBefore(b, i))
    <3>1. CASE i \in 1..L
      BY <3>1, <1>1, <1>2, <1>4
    <3>2. CASE i \notin 1..L
      BY <3>2, <1>1, PartialIs
    <3> QED BY <3>1, <3>2
  <2> QED BY <2>1, <2>2 DEF OkAt
<1> QED BY <1>5 DEF b

\* What came by a time in the budget came in time.
LEMMA AllInTime ==
  ASSUME NEW c \in Seq(SlotEvents), \A i \in 1..Len(c) : SlotAudit!Charged(c[i]) <= Budget
  PROVE  Among(c, Timely) = c /\ Among(c, Tardy) = <<>>
<1>1. \A i \in 1..Len(c) : c[i] \in Timely /\ c[i] \notin Tardy
  BY DEF Timely, Tardy
<1> QED BY <1>1, AmongAll, AmongNone

\* What was written before is written still.
LEMMA KnownOfLonger ==
  ASSUME NEW s \in Seq(SlotEvents), NEW e, NEW i \in 1..(Len(s) + 1)
  PROVE  SlotAudit!KnownBefore(Append(s, e), i) = SlotAudit!KnownBefore(s, i)
<1> DEFINE b == Append(s, e)
<1>1. Len(s) \in Nat /\ \A k \in 1..Len(s) : b[k] = s[k]
  OBVIOUS
<1> HIDE DEF b
<1>2. \A k \in 1..(i - 1) : b[k] = s[k]
  <2>1. \A k \in 1..(i - 1) : k \in 1..Len(s)
    BY <1>1
  <2> QED BY <2>1, <1>1
<1> DEFINE K == {k \in 1..(i - 1) : s[k].type = "sequence"}
<1>3. {k \in 1..(i - 1) : b[k].type = "sequence"} = K
  BY <1>2
<1>4. {SlotAudit!ToSet(b[j].refs) : j \in K} = {SlotAudit!ToSet(s[j].refs) : j \in K}
  BY <1>2
<1>5. SlotAudit!KnownBefore(b, i) = SlotAudit!KnownBefore(s, i)
  BY <1>3, <1>4 DEF SlotAudit!KnownBefore
<1> QED BY <1>5 DEF b

\* The event of a completed sequence, and that its lineage holds.
NewLineage(n, calls, kind, parents, offset) ==
  [index |-> n, kind |-> kind, parents |-> parents, output |-> calls,
   executed |-> TRUE, resolved |-> kind = "mutation",
   different |-> kind = "mutation" /\ calls \notin parents, offset |-> offset]
IsNewEvent(e, n, calls, kind, offset, reached) ==
  /\ e \in SlotEvents /\ e.index = n /\ e.calls = calls /\ SlotAudit!Kind(e) = kind
  /\ e.type = "sequence" /\ e.refs = SlotAudit!PrefixReferences(calls)
  /\ e.lineage[1].offset = offset /\ SlotAudit!LineageHolds(e, reached)

LEMMA NewEventIs ==
  ASSUME SlotAudit!AuditAssumption, NEW calls \in Plans, NEW kind \in SlotKinds,
         NEW reached, NEW parents \in SUBSET Seq(Calls), NEW n \in Nat, NEW offset \in Int,
         kind = "mutation" => parents # {}, parents \subseteq reached
  PROVE  IsNewEvent(SlotAudit!SequenceEvent(n, calls, NewLineage(n, calls, kind, parents, offset)),
                    n, calls, kind, offset, reached)
<1> DEFINE l == NewLineage(n, calls, kind, parents, offset)
           e == SlotAudit!SequenceEvent(n, calls, l)
<1>l. l = [index |-> n, kind |-> kind, parents |-> parents, output |-> calls,
           executed |-> TRUE, resolved |-> kind = "mutation",
           different |-> kind = "mutation" /\ calls \notin parents, offset |-> offset]
  BY DEF NewLineage
<1>e. e = SlotAudit!SequenceEvent(n, calls, l)
  OBVIOUS
<1> HIDE DEF l, e
<1>1. l \in SlotLineages
  <2>1. (kind = "mutation") \in BOOLEAN /\ (kind = "mutation" /\ calls \notin parents) \in BOOLEAN
    OBVIOUS
  <2> DEFINE r == (kind = "mutation")
             d == (kind = "mutation" /\ calls \notin parents)
  <2>2. l = [index |-> n, kind |-> kind, parents |-> parents, output |-> calls,
             executed |-> TRUE, resolved |-> r, different |-> d, offset |-> offset]
    BY <1>l
  <2>3. r \in BOOLEAN /\ d \in BOOLEAN
    BY <2>1
  <2> HIDE DEF r, d
  <2> QED BY <2>2, <2>3 DEF SlotLineages
<1>2. e = [type |-> "sequence", index |-> n, calls |-> calls, complete |-> TRUE,
           refs |-> SlotAudit!PrefixReferences(calls), lineage |-> <<l>>]
  BY <1>e DEF SlotAudit!SequenceEvent
<1>3. e \in SlotEvents
  BY <1>1, <1>e DEF SlotEvents
<1>4. e.lineage[1] = l
  <2>1. e.lineage = <<l>>
    <3> DEFINE refs == SlotAudit!PrefixReferences(calls)
               ll == <<l>>
    <3>1. e = [type |-> "sequence", index |-> n, calls |-> calls, complete |-> TRUE,
               refs |-> refs, lineage |-> ll]
      BY <1>2
    <3> HIDE DEF refs, ll
    <3>2. e.lineage = ll
      BY ONLY <3>1
    <3> QED BY <3>2 DEF ll
  <2> QED BY ONLY <2>1
<1>5. calls \in Seq(Calls) /\ Len(calls) \in 1..4
  BY DEF SlotAudit!AuditAssumption
<1>6. SlotAudit!Last(SlotAudit!PrefixReferences(calls)) = calls
  <2>1. Len(SlotAudit!PrefixReferences(calls)) = Len(calls)
        /\ SlotAudit!PrefixReferences(calls)[Len(calls)] = SubSeq(calls, 1, Len(calls))
    <3>1. Len(calls) \in 1..Len(calls)
      <4> DEFINE k == Len(calls)
      <4>1. k \in 1..4
        BY <1>5
      <4> HIDE DEF k
      <4>2. k \in 1..k
        BY ONLY <4>1
      <4> QED BY <4>2 DEF k
    <3> QED BY <1>5, <3>1, RefsTyped
  <2>2. SubSeq(calls, 1, Len(calls)) = calls
    BY <1>5
  <2> QED BY <2>1, <2>2 DEF SlotAudit!Last
<1>7. /\ l.index = n /\ l.kind = kind /\ l.parents = parents /\ l.output = calls /\ l.executed
      /\ l.resolved = (kind = "mutation") /\ l.different = (kind = "mutation" /\ calls \notin parents)
      /\ l.offset = offset
  BY <1>l
<1>8. SlotAudit!LineageHolds(e, reached)
  <2>1. /\ e.index = n /\ SlotAudit!Last(e.refs) = calls /\ e.calls = calls
    BY <1>2, <1>6
  <2>2. kind = "mutation" =>
          /\ l.parents # {} /\ l.parents \subseteq reached /\ l.resolved
          /\ l.different = (l.output \notin l.parents)
    BY <1>7
  <2>3. l.kind \in {"startup_replay", "new_sequence", "mutation"}
    BY <1>7 DEF SlotKinds
  <2> QED BY <1>4, <1>7, <2>1, <2>2, <2>3 DEF SlotAudit!LineageHolds
<1>9. SlotAudit!Kind(e) = kind
  BY <1>4, <1>7 DEF SlotAudit!Kind
<1>10. IsNewEvent(e, n, calls, kind, offset, reached)
  BY <1>2, <1>3, <1>4, <1>7, <1>8, <1>9 DEF IsNewEvent
<1> QED BY <1>10 DEF e, l

LEMMA SlotWrites ==
  ASSUME SlotAudit!AuditAssumption, SlotInv, slotPhase = "search",
         NEW calls \in Plans, NEW kind \in SlotKinds, NEW parents, parents \subseteq known,
         kind = "mutation" => parents # {}, SlotAudit!Completed(calls, kind, parents),
         kind = "startup_replay" => slotPending' = slotPending \ {calls},
         kind # "startup_replay" => slotPending = {} /\ slotPending' = slotPending
  PROVE  SlotInv'
<1> DEFINE s == slotStream
           s2 == slotStream'
           n == Len(s) + 1
           l == [index |-> n, kind |-> kind, parents |-> parents, output |-> calls,
                 executed |-> TRUE, resolved |-> kind = "mutation",
                 different |-> kind = "mutation" /\ calls \notin parents,
                 offset |-> slotNow' - started]
           e == SlotAudit!SequenceEvent(n, calls, l)
<1>1. /\ slotNow' \in SlotAudit!Later /\ s2 = Append(s, e)
      /\ known' = known \union SlotAudit!ToSet(SlotAudit!PrefixReferences(calls))
      /\ UNCHANGED <<slotPhase, slotWarmup, accepted, augmentation, started, native, slotRecord, slotDamaged, slotVerdict>>
  BY DEF SlotAudit!Completed
<1>2. /\ slotNow \in Nat /\ started \in Nat /\ started <= slotNow /\ s \in Seq(SlotEvents)
      /\ known \subseteq Seq(Calls) /\ ~slotDamaged /\ WrittenBy(s, slotNow)
      /\ known = SlotAudit!KnownBefore(s, n) /\ accepted \subseteq slotPending \union SlotReplayed(s)
      /\ Continued(s) => slotPending = {}
  BY DEF SlotInv, SlotTypes, SlotCampaign, SlotArchive
<1>3. slotNow' \in Nat /\ slotNow <= slotNow' /\ slotNow' - started \in Int
  BY <1>1, <1>2 DEF SlotAudit!Later
<1> DEFINE offset == slotNow' - started
<1>4. /\ e \in SlotEvents /\ e.index = n /\ e.calls = calls /\ SlotAudit!Kind(e) = kind
      /\ e.type = "sequence" /\ e.refs = SlotAudit!PrefixReferences(calls)
      /\ e.lineage[1].offset = offset /\ SlotAudit!LineageHolds(e, known)
  <2>1. n \in Nat /\ parents \in SUBSET Seq(Calls) /\ offset \in Int
    BY <1>2, <1>3
  <2>2. l = NewLineage(n, calls, kind, parents, offset)
    BY DEF NewLineage
  <2> HIDE DEF n, offset
  <2>3. IsNewEvent(SlotAudit!SequenceEvent(n, calls, NewLineage(n, calls, kind, parents, offset)),
                   n, calls, kind, offset, known)
    BY <2>1, NewEventIs
  <2> QED BY ONLY <2>2, <2>3 DEF IsNewEvent, e
<1> HIDE DEF l
<1>5. SlotAudit!Charged(e) = slotNow'
  <2>1. offset = slotNow' - started
    OBVIOUS
  <2>2. SlotAudit!Charged(e) = started + e.lineage[1].offset
    BY DEF SlotAudit!Charged
  <2> HIDE DEF e, offset
  <2>3. SlotAudit!Charged(e) = started + offset
    BY <2>2, <1>4
  <2>4. started + (slotNow' - started) = slotNow'
    <3> DEFINE a == slotNow'
    <3>1. a \in Nat /\ started \in Nat
      BY <1>2, <1>3
    <3> HIDE DEF a
    <3>2. started + (a - started) = a
      BY ONLY <3>1
    <3> QED BY <3>2 DEF a
  <2> QED BY ONLY <2>1, <2>3, <2>4
<1> HIDE DEF e, offset
<1>6. /\ s2 \in Seq(SlotEvents) /\ Len(s2) = n /\ s2[n] = e /\ n \in Nat
      /\ \A i \in 1..Len(s) : s2[i] = s[i]
      /\ \A i \in 1..n : i \in 1..Len(s) \/ i = n
      /\ \A i \in 1..Len(s) : i \in 1..n
  BY <1>1, <1>2, <1>4
<1>7. \A i \in 1..n : SlotAudit!KnownBefore(s2, i) = SlotAudit!KnownBefore(s, i)
  BY <1>1, <1>2, KnownOfLonger
<1>8. SlotTypes'
  <2>1. slotPending' \subseteq Plans
    BY DEF SlotInv, SlotTypes
  <2>2. known' \subseteq Seq(Calls)
    <3>1. calls \in Seq(Calls)
      BY DEF SlotAudit!AuditAssumption
    <3>2. SlotAudit!ToSet(SlotAudit!PrefixReferences(calls)) \subseteq Seq(Calls)
      BY <3>1, RefsTyped
    <3> QED BY <1>1, <1>2, <3>2
  <2>3. started' <= slotNow'
    BY <1>1, <1>2, <1>3
  <2> HIDE DEF s, s2, n
  <2>4. slotStream' \in Seq(SlotEvents)
    BY <1>6 DEF s2
  <2> QED BY <1>1, <1>3, <2>1, <2>2, <2>3, <2>4 DEF SlotInv, SlotTypes
<1>9. WrittenBy(slotStream, slotNow)'
  <2>1. ASSUME NEW i \in 1..n
        PROVE  /\ s2[i].index = i
               /\ SlotAudit!LineageHolds(s2[i], SlotAudit!KnownBefore(s2, i))
               /\ SlotAudit!Charged(s2[i]) <= slotNow'
    <3>1. CASE i \in 1..Len(s)
      <4>1. /\ s[i].index = i /\ SlotAudit!LineageHolds(s[i], SlotAudit!KnownBefore(s, i))
            /\ SlotAudit!Charged(s[i]) <= slotNow
        BY <1>2, <3>1 DEF WrittenBy
      <4>2. SlotAudit!Charged(s[i]) \in Int
        <5>1. s[i] \in SlotEvents /\ started \in Int
          BY <1>2, <3>1
        <5> QED BY <5>1, ChargedInt
      <4>3. SlotAudit!Charged(s[i]) <= slotNow'
        BY <1>2, <1>3, <4>1, <4>2
      <4> QED BY <1>6, <1>7, <3>1, <4>1, <4>3
    <3>2. CASE i = n
      <4>1. SlotAudit!KnownBefore(s2, i) = known
        BY <1>2, <1>7, <3>2
      <4>2. slotNow' <= slotNow'
        BY <1>3
      <4> HIDE DEF n
      <4> QED BY <1>4, <1>5, <1>6, <3>2, <4>1, <4>2
    <3> QED BY <1>6, <3>1, <3>2
  <2> HIDE DEF n
  <2>2. \A i \in 1..Len(s2) :
          /\ s2[i].index = i /\ SlotAudit!LineageHolds(s2[i], SlotAudit!KnownBefore(s2, i))
          /\ started + s2[i].lineage[1].offset <= slotNow'
    BY <1>6, <2>1 DEF SlotAudit!Charged
  <2> QED BY <1>1, <2>2 DEF WrittenBy, SlotAudit!Charged
<1>10. known' = SlotAudit!KnownBefore(slotStream', Len(slotStream') + 1)
  <2>1. s2 \in Seq(SlotBody) /\ n \in 1..Len(s2)
    BY <1>6 DEF SlotBody
  <2>2. SlotAudit!KnownBefore(s2, n + 1)
          = IF s2[n].type = "sequence"
            THEN SlotAudit!KnownBefore(s2, n) \union SlotAudit!ToSet(s2[n].refs)
            ELSE SlotAudit!KnownBefore(s2, n)
    BY <2>1, KnownNext
  <2>3. n \in 1..n
    BY <1>6
  <2>4. SlotAudit!KnownBefore(s2, n) = known
    BY <1>2, <1>7, <2>3
  <2> HIDE DEF n, s2
  <2>5. known' = SlotAudit!KnownBefore(s2, Len(s2) + 1)
    BY <1>1, <1>4, <1>6, <2>2, <2>4
  <2> QED BY <2>5 DEF s2
<1>11. accepted' \subseteq (slotPending \union SlotReplayed(slotStream))'
  <2>1. SlotReplayed(s) \subseteq SlotReplayed(s2)
    BY <1>6 DEF SlotReplayed
  <2>2. kind = "startup_replay" => calls \in SlotReplayed(s2)
    <3>1. n \in 1..Len(s2)
      BY <1>6
    <3> HIDE DEF n
    <3> QED BY <1>4, <1>6, <3>1 DEF SlotReplayed
  <2>3. slotPending \subseteq slotPending' \union SlotReplayed(s2)
    BY <2>2
  <2>4. accepted \subseteq slotPending' \union SlotReplayed(s2)
    BY <1>2, <2>1, <2>3
  <2> QED BY <1>1, <2>4
<1>12. (Continued(slotStream) => slotPending = {})'
  <2>1. CASE kind = "startup_replay"
    <3>1. ASSUME Continued(s2) PROVE Continued(s)
      <4>1. PICK i \in 1..n : SlotAudit!Kind(s2[i]) # "startup_replay"
        BY <3>1, <1>6 DEF Continued
      <4>2. i # n
        <5> HIDE DEF n
        <5> QED BY <4>1, <1>4, <1>6, <2>1
      <4>3. i \in 1..Len(s) /\ s2[i] = s[i]
        BY <1>6, <4>1, <4>2
      <4> QED BY <4>1, <4>3 DEF Continued
    <3>2. slotPending' \subseteq slotPending
      BY <2>1
    <3>3. Continued(s2) => slotPending' = {}
      BY <1>2, <3>1, <3>2
    <3> QED BY <3>3
  <2>2. CASE kind # "startup_replay"
    BY <2>2
  <2> QED BY <2>1, <2>2
<1> HIDE DEF s, s2, n
<1>13. SlotCampaign'
  BY <1>1, <1>9, <1>10, <1>11, <1>12 DEF SlotCampaign
<1>14. SlotArchive' /\ SlotConcluded'
  BY <1>1, <1>2 DEF SlotArchive, SlotConcluded
<1> QED BY <1>8, <1>13, <1>14 DEF SlotInv

\* What was written by a time was written by every later one.
LEMMA WrittenLater ==
  ASSUME started \in Nat, NEW s \in Seq(SlotEvents), NEW a \in Nat, NEW b \in Nat, a <= b,
         WrittenBy(s, a)
  PROVE  WrittenBy(s, b)
<1>1. ASSUME NEW i \in 1..Len(s) PROVE SlotAudit!Charged(s[i]) <= b
  <2>1. SlotAudit!Charged(s[i]) \in Int
    <3>1. s[i] \in SlotEvents /\ started \in Int
      OBVIOUS
    <3> QED BY <3>1, ChargedInt
  <2>2. SlotAudit!Charged(s[i]) <= a
    BY DEF WrittenBy
  <2> QED BY <2>1, <2>2
<1> QED BY <1>1 DEF WrittenBy

LEMMA SlotSearchStarts ==
  ASSUME SlotAudit!AuditAssumption, SlotInv, SlotAudit!SearchStarts PROVE SlotInv'
<1> USE DEF SlotAudit!SearchStarts
<1>1. /\ slotStream = <<>> /\ slotStream' = <<>> /\ slotNow' \in Nat /\ started' = slotNow'
      /\ slotPhase' = "search" /\ ~slotDamaged /\ slotNow' <= slotNow'
  BY DEF SlotInv, SlotTypes, SlotCampaign, SlotArchive, SlotAudit!Later
<1>2. SlotTypes'
  BY <1>1 DEF SlotInv, SlotTypes
<1>3. Len(slotStream') = 0 /\ 1..0 = {}
  BY <1>1
<1>4. WrittenBy(slotStream, slotNow)'
  BY <1>3 DEF WrittenBy
<1>5. known' = SlotAudit!KnownBefore(slotStream', Len(slotStream') + 1)
  BY <1>1 DEF SlotInv, SlotCampaign
<1>6. SlotReplayed(slotStream') = SlotReplayed(slotStream) /\ Continued(slotStream') = Continued(slotStream)
  BY <1>1
<1>7. SlotCampaign'
  BY <1>1, <1>4, <1>5, <1>6 DEF SlotInv, SlotCampaign
<1>8. SlotArchive' /\ SlotConcluded'
  BY <1>1 DEF SlotArchive, SlotConcluded
<1> QED BY <1>2, <1>7, <1>8 DEF SlotInv

LEMMA SlotReplays ==
  ASSUME SlotAudit!AuditAssumption, SlotInv, SlotAudit!Replay PROVE SlotInv'
<1>1. PICK calls \in slotPending :
        /\ SlotAudit!Completed(calls, "startup_replay", {})
        /\ slotPending' = slotPending \ {calls}
  BY DEF SlotAudit!Replay
<1>2. slotPhase = "search" /\ calls \in Plans
  BY DEF SlotAudit!Replay, SlotInv, SlotTypes
<1> DEFINE kind == "startup_replay"
           parents == {}
<1>3. /\ kind \in SlotKinds /\ parents \subseteq known /\ (kind = "mutation" => parents # {})
      /\ SlotAudit!Completed(calls, kind, parents)
      /\ (kind = "startup_replay" => slotPending' = slotPending \ {calls})
      /\ (kind # "startup_replay" => slotPending = {} /\ slotPending' = slotPending)
  BY <1>1 DEF SlotKinds
<1> HIDE DEF kind, parents
<1> QED BY <1>2, <1>3, SlotWrites

LEMMA SlotSearches ==
  ASSUME SlotAudit!AuditAssumption, SlotInv, SlotAudit!Search PROVE SlotInv'
<1>1. slotPhase = "search" /\ slotPending = {} /\ slotPending' = slotPending
  BY DEF SlotAudit!Search
<1>2. PICK calls \in Plans :
        \/ SlotAudit!Completed(calls, "new_sequence", {})
        \/ \E p, q \in known : SlotAudit!Completed(calls, "mutation", {p, q})
  BY DEF SlotAudit!Search
<1>3. PICK kind \in {"new_sequence", "mutation"}, parents \in SUBSET known :
        /\ kind = "mutation" => parents # {}
        /\ SlotAudit!Completed(calls, kind, parents)
  <2>1. CASE SlotAudit!Completed(calls, "new_sequence", {})
    <3>1. {} \in SUBSET known
      OBVIOUS
    <3> QED BY <2>1, <3>1
  <2>2. CASE \E p, q \in known : SlotAudit!Completed(calls, "mutation", {p, q})
    <3>1. PICK p \in known, q \in known : SlotAudit!Completed(calls, "mutation", {p, q})
      BY <2>2
    <3>2. {p, q} \in SUBSET known /\ {p, q} # {}
      OBVIOUS
    <3> QED BY <3>1, <3>2
  <2> QED BY <1>2, <2>1, <2>2
<1>4. /\ kind \in SlotKinds /\ parents \subseteq known
      /\ (kind = "startup_replay" => slotPending' = slotPending \ {calls})
      /\ (kind # "startup_replay" => slotPending = {} /\ slotPending' = slotPending)
  BY <1>1 DEF SlotKinds
<1> QED BY <1>1, <1>3, <1>4, SlotWrites

LEMMA SlotSearchStops ==
  ASSUME SlotAudit!AuditAssumption, SlotInv, SlotAudit!SearchStops PROVE SlotInv'
<1>1. /\ slotPhase' = "stopped" /\ slotNow' \in SlotAudit!Later /\ slotPhase = "search"
      /\ UNCHANGED <<slotWarmup, accepted, augmentation, slotPending, known, started, slotStream, slotRecord,
                     slotDamaged, slotVerdict>>
  BY DEF SlotAudit!SearchStops
<1>2. PICK cut \in {SlotAudit!Front(p) : p \in Plans}, stop \in {"time_limit", "sequence_limit"} :
        LET events == IF cut = <<>> THEN slotStream
                      ELSE Append(slotStream, SlotAudit!PartialEvent(Len(slotStream) + 1, cut))
        IN  native' = [stop |-> stop, ended |-> slotNow', file |-> SlotAudit!Left(events),
                       meta |-> SlotAudit!Metadata(SlotAudit!Left(events))]
  BY DEF SlotAudit!SearchStops
<1> DEFINE n == Len(slotStream) + 1
           partial == SlotAudit!PartialEvent(n, cut)
           t == IF cut = <<>> THEN <<>> ELSE <<partial>>
           file == SlotAudit!Left(slotStream \o t)
<1>3. /\ slotNow \in Nat /\ started \in Nat /\ started <= slotNow /\ slotStream \in Seq(SlotEvents)
      /\ WrittenBy(slotStream, slotNow) /\ ~slotDamaged
  BY <1>1 DEF SlotInv, SlotTypes, SlotCampaign, SlotArchive
<1>4. slotNow' \in Nat /\ slotNow <= slotNow' /\ started <= slotNow'
  BY <1>1, <1>3 DEF SlotAudit!Later
<1>5. cut \in Seq(Calls)
  <2>1. PICK p \in Plans : cut = SlotAudit!Front(p)
    OBVIOUS
  <2>2. p \in Seq(Calls)
    BY DEF SlotAudit!AuditAssumption
  <2>3. SubSeq(p, 1, Len(p) - 1) \in Seq(Calls)
    BY <2>2
  <2> QED BY <2>1, <2>3 DEF SlotAudit!Front
<1>6. t \in Tails /\ \A i \in 1..Len(t) : t[i].index = n
  <2>1. CASE cut = <<>>
    <3>1. t = <<>> /\ Len(<<>>) = 0 /\ 1..0 = {}
      BY <2>1
    <3> QED BY <3>1 DEF Tails
  <2>2. CASE cut # <<>>
    <3>1. n \in Nat
      BY <1>3
    <3>2. partial \in SlotPartials /\ partial.index = n
      <4> HIDE DEF n
      <4>1. partial \in SlotPartials
        BY <2>2, <1>5, <3>1 DEF SlotPartials
      <4> QED BY <4>1 DEF SlotAudit!PartialEvent
    <3>3. t = <<partial>>
      BY <2>2
    <3> HIDE DEF partial, n, t
    <3>4. Len(t) = 1 /\ t[1] = partial
      BY <3>3
    <3> QED BY <3>2, <3>3, <3>4 DEF Tails
  <2> QED BY <2>1, <2>2
<1>7. native' = [stop |-> stop, ended |-> slotNow', file |-> file, meta |-> SlotAudit!Metadata(file)]
  <2>1. CASE cut = <<>>
    <3>1. slotStream \o t = slotStream
      BY <2>1, <1>3
    <3> QED BY <2>1, <3>1, <1>2
  <2>2. CASE cut # <<>>
    <3>1. slotStream \o t = Append(slotStream, partial)
      <4>1. t = <<partial>>
        BY <2>2
      <4> HIDE DEF t, partial
      <4> QED BY <4>1, <1>3
    <3> QED BY <2>2, <3>1, <1>2
  <2> QED BY <2>1, <2>2
<1> HIDE DEF t
<1>8. /\ native'.ended = slotNow' /\ native'.file = SlotAudit!Left(slotStream \o t)
      /\ native'.meta = SlotAudit!Metadata(native'.file)
      /\ native' = [stop |-> native'.stop, ended |-> native'.ended, file |-> native'.file,
                    meta |-> native'.meta]
  <2> HIDE DEF file
  <2>1. /\ native'.ended = slotNow' /\ native'.file = file /\ native'.meta = SlotAudit!Metadata(file)
        /\ native' = [stop |-> native'.stop, ended |-> native'.ended, file |-> native'.file,
                      meta |-> native'.meta]
    <3> DEFINE meta == SlotAudit!Metadata(file)
    <3>1. native' = [stop |-> stop, ended |-> slotNow', file |-> file, meta |-> meta]
      BY <1>7
    <3> HIDE DEF meta
    <3>2. native'.stop = stop /\ native'.ended = slotNow' /\ native'.file = file /\ native'.meta = meta
      BY ONLY <3>1
    <3> QED BY <3>1, <3>2 DEF meta
  <2> QED BY <2>1 DEF file
<1> HIDE DEF file, n
<1>9. PICK u \in Tails : u = t
  BY <1>6
<1>17. Original(u)'
  <2>1. \A i \in 1..Len(u) : u[i].index = Len(slotStream) + 1
    BY <1>6, <1>9 DEF n
  <2>2. native'.file = SlotAudit!Left(slotStream \o u)
    BY <1>8, <1>9
  <2> HIDE DEF t
  <2> QED BY <1>1, <1>8, <1>9, <2>1, <2>2 DEF Original, TailOf
<1>10. WrittenBy(slotStream, slotNow')
  BY <1>3, <1>4, WrittenLater
<1>11. WrittenBy(slotStream, slotNow)'
  BY <1>1, <1>10 DEF WrittenBy, SlotAudit!Charged
<1>12. WrittenBy(slotStream, native.ended)'
  BY <1>8, <1>11 DEF WrittenBy
<1>13. SlotTypes'
  BY <1>1, <1>4 DEF SlotInv, SlotTypes
<1>14. SlotCampaign'
  <2>1. /\ known' = SlotAudit!KnownBefore(slotStream', Len(slotStream') + 1)
        /\ accepted' \subseteq slotPending' \union SlotReplayed(slotStream')
        /\ Continued(slotStream') => slotPending' = {}
    BY <1>1 DEF SlotInv, SlotCampaign
  <2> QED BY <1>1, <2>1 DEF SlotCampaign
<1>15. SlotArchive'
  <2>1. native'.ended \in Nat /\ started' <= native'.ended /\ native'.ended <= slotNow'
    BY <1>1, <1>4, <1>8
  <2>2. (\E v \in Tails : Original(v))'
    BY <1>9, <1>17
  <2> QED BY <1>1, <1>3, <1>12, <2>1, <2>2 DEF SlotArchive
<1>16. SlotConcluded'
  BY <1>1 DEF SlotConcluded
<1> QED BY <1>13, <1>14, <1>15, <1>16 DEF SlotInv

\* The facts of a slot whose archive is as the run left it.
SlotStays ==
  UNCHANGED <<slotWarmup, accepted, augmentation, slotPending, known, started, slotStream>>

LEMMA ProjectionStays ==
  ASSUME started' = started, NEW file
  PROVE  SlotAudit!Projected(file)' = SlotAudit!Projected(file)
BY DEF SlotAudit!Projected, SlotAudit!Late, SlotAudit!InTime, SlotAudit!Charged

LEMMA CampaignStays ==
  ASSUME SlotInv, SlotStays, slotPhase \notin {"setup", "search"},
         slotPhase' \notin {"setup", "search"}
  PROVE  SlotCampaign'
<1>1. /\ known' = SlotAudit!KnownBefore(slotStream', Len(slotStream') + 1)
      /\ accepted' \subseteq slotPending' \union SlotReplayed(slotStream')
      /\ Continued(slotStream') => slotPending' = {}
  BY DEF SlotInv, SlotCampaign, SlotStays
<1> QED BY <1>1 DEF SlotCampaign

LEMMA WrittenStays ==
  ASSUME SlotStays, native' = native, WrittenBy(slotStream, native.ended)
  PROVE  WrittenBy(slotStream, native.ended)'
BY DEF SlotStays, WrittenBy, SlotAudit!Charged

LEMMA SlotValidates ==
  ASSUME SlotAudit!AuditAssumption, SlotInv, SlotAudit!Validate PROVE SlotInv'
<1>1. /\ slotPhase = "stopped" /\ slotPhase' = "ended" /\ slotNow' \in SlotAudit!Later
      /\ SlotStays /\ UNCHANGED <<native, slotDamaged, slotVerdict>>
  BY DEF SlotAudit!Validate, SlotStays
<1>2. PICK ended \in slotNow..slotNow' :
        slotRecord' =
          IF ~SlotAudit!EvidenceValid THEN [status |-> "evidence_error", valid |-> FALSE]
          ELSE LET p == SlotAudit!Projected(native.file)
                   m == SlotAudit!SegmentedMetrics(slotWarmup, p.sequences)
               IN  [status |-> "completed",
                    valid |-> native.ended <= Budget /\ ended <= Budget,
                    late |-> p.late, observed |-> p.observed, charged |-> slotNow',
                    metrics |-> m, goal |-> SlotAudit!GoalReached(m)]
  BY DEF SlotAudit!Validate
<1>3. /\ slotNow \in Nat /\ started \in Nat /\ started <= slotNow /\ slotStream \in Seq(SlotEvents)
      /\ native.ended \in Nat /\ started <= native.ended /\ native.ended <= slotNow
      /\ WrittenBy(slotStream, native.ended) /\ ~slotDamaged
  BY <1>1 DEF SlotInv, SlotTypes, SlotArchive
<1>4. slotNow' \in Nat /\ slotNow <= slotNow'
  BY <1>1, <1>3 DEF SlotAudit!Later
<1>5. PICK t \in Tails : Original(t)
  BY <1>1, <1>3 DEF SlotInv, SlotArchive
<1>6. SlotAudit!CompleteOf(native.file) = slotStream
  BY <1>3, <1>5, CompleteIs DEF Original
<1>7. SlotAudit!EvidenceValid => native.stop = "time_limit" /\ Continued(slotStream)
  <2>1. DOMAIN slotStream = 1..Len(slotStream)
    BY <1>3
  <2> QED BY <1>6, <2>1 DEF SlotAudit!EvidenceValid, Continued
<1> DEFINE p == SlotAudit!Projected(native.file)
           m == SlotAudit!SegmentedMetrics(slotWarmup, p.sequences)
           valid == (native.ended <= Budget /\ ended <= Budget)
           goal == SlotAudit!GoalReached(m)
           late == p.late
           observed == p.observed
           now2 == slotNow'
<1>8. SlotAudit!EvidenceValid =>
        slotRecord' = [status |-> "completed", valid |-> valid, late |-> late,
                       observed |-> observed, charged |-> now2, metrics |-> m, goal |-> goal]
  BY <1>2
<1>9. ~SlotAudit!EvidenceValid => slotRecord' = [status |-> "evidence_error", valid |-> FALSE]
  BY <1>2
<1>10. valid \in BOOLEAN
  OBVIOUS
<1>11. SlotAudit!EvidenceValid =>
         /\ slotRecord'.valid = valid /\ slotRecord'.status = "completed"
         /\ slotRecord'.late = late /\ slotRecord'.observed = observed
         /\ slotRecord'.metrics = m /\ slotRecord'.goal = goal /\ slotRecord'.charged = now2
         /\ slotRecord' = [status |-> "completed", valid |-> slotRecord'.valid,
                           late |-> slotRecord'.late, observed |-> slotRecord'.observed,
                           charged |-> slotRecord'.charged, metrics |-> slotRecord'.metrics,
                           goal |-> slotRecord'.goal]
  <2>1. SUFFICES ASSUME SlotAudit!EvidenceValid
                 PROVE  /\ slotRecord'.valid = valid /\ slotRecord'.status = "completed"
                        /\ slotRecord'.late = late /\ slotRecord'.observed = observed
                        /\ slotRecord'.metrics = m /\ slotRecord'.goal = goal
                        /\ slotRecord'.charged = now2
                        /\ slotRecord' = [status |-> "completed", valid |-> slotRecord'.valid,
                             late |-> slotRecord'.late, observed |-> slotRecord'.observed,
                             charged |-> slotRecord'.charged, metrics |-> slotRecord'.metrics,
                             goal |-> slotRecord'.goal]
    OBVIOUS
  <2> HIDE DEF p, m, valid, goal, late, observed, now2
  <2>2. slotRecord' = [status |-> "completed", valid |-> valid, late |-> late,
                       observed |-> observed, charged |-> now2, metrics |-> m, goal |-> goal]
    BY <1>8, <2>1
  <2>3. /\ slotRecord'.valid = valid /\ slotRecord'.status = "completed"
        /\ slotRecord'.late = late /\ slotRecord'.observed = observed
        /\ slotRecord'.metrics = m /\ slotRecord'.goal = goal /\ slotRecord'.charged = now2
    BY ONLY <2>2
  <2> QED BY <2>2, <2>3
<1>12. ~SlotAudit!EvidenceValid => slotRecord'.status = "evidence_error" /\ slotRecord'.valid = FALSE
  BY <1>9
<1>13. SlotTypes'
  BY <1>1, <1>3, <1>4 DEF SlotInv, SlotTypes, SlotStays
<1>14. SlotCampaign'
  BY <1>1, CampaignStays
<1>15. Original(t)'
  BY <1>1, <1>5 DEF Original, TailOf, SlotStays
<1>16. Recorded'
  <2>1. SlotAudit!Projected(native.file)' = p
    <3>1. \A file : SlotAudit!Projected(file)' = SlotAudit!Projected(file)
      BY <1>1, ProjectionStays DEF SlotStays
    <3>2. native' = native
      BY <1>1
    <3> QED BY <3>1, <3>2
  <2>2. slotWarmup' = slotWarmup
    BY <1>1 DEF SlotStays
  <2>3. slotRecord'.valid \in BOOLEAN
    <3> HIDE DEF valid
    <3> QED BY <1>10, <1>11, <1>12
  <2>4. slotRecord'.status = "completed" <=> SlotAudit!EvidenceValid
    BY <1>11, <1>12
  <2>5. slotRecord'.valid => SlotAudit!EvidenceValid
    BY <1>12
  <2> HIDE DEF p, late, observed, valid, goal
  <2>6. SlotAudit!EvidenceValid =>
          /\ slotRecord'.late = p.late /\ slotRecord'.observed = p.observed
          /\ slotRecord'.metrics = m /\ slotRecord'.goal = SlotAudit!GoalReached(m)
          /\ slotRecord' = [status |-> "completed", valid |-> slotRecord'.valid,
                            late |-> slotRecord'.late, observed |-> slotRecord'.observed,
                            charged |-> slotRecord'.charged, metrics |-> slotRecord'.metrics,
                            goal |-> slotRecord'.goal]
    BY <1>11 DEF late, observed, goal
  <2> QED BY <2>1, <2>2, <2>3, <2>4, <2>5, <2>6 DEF Recorded
<1>17. slotRecord'.valid => Validly'
  <2>1. SUFFICES ASSUME slotRecord'.valid PROVE Validly'
    OBVIOUS
  <2>2. SlotAudit!EvidenceValid /\ slotRecord'.valid = valid /\ slotRecord'.charged = slotNow'
    BY <1>11, <1>12, <2>1
  <2>3. native.ended <= Budget
    BY <2>1, <2>2
  <2>4. slotNow' \in Nat /\ native.ended <= slotNow'
    BY <1>3, <1>4
  <2> QED BY <1>1, <1>7, <2>2, <2>3, <2>4 DEF Validly, Continued, SlotStays
<1>18. WrittenBy(slotStream, native.ended)'
  BY <1>1, <1>3, WrittenStays
<1>19. SlotArchive'
  <2>1. native'.ended \in Nat /\ started' <= native'.ended /\ native'.ended <= slotNow'
    BY <1>1, <1>3, <1>4 DEF SlotStays
  <2>2. (\E u \in Tails : Original(u))'
    BY <1>15
  <2> QED BY <1>1, <1>3, <1>16, <1>17, <1>18, <2>1, <2>2 DEF SlotArchive
<1>20. SlotConcluded'
  BY <1>1 DEF SlotConcluded
<1> QED BY <1>13, <1>14, <1>19, <1>20 DEF SlotInv

\* What a valid, undamaged slot stored.
LEMMA ValidIs ==
  ASSUME SlotAudit!AuditAssumption, SlotInv, slotPhase \in {"ended", "audited"},
         slotRecord.valid, ~slotDamaged
  PROVE  LET told == SlotAudit!SegmentedMetrics(slotWarmup, slotStream)
         IN  /\ Validly /\ Recorded /\ slotRecord.status = "completed"
             /\ slotRecord.metrics = told /\ slotRecord.goal = SlotAudit!GoalReached(told)
             /\ Among(slotStream, Timely) = slotStream
<1>1. /\ Validly /\ Recorded /\ slotRecord.status = "completed" /\ slotStream \in Seq(SlotEvents)
      /\ WrittenBy(slotStream, native.ended) /\ native.ended \in Nat /\ started \in Nat
  BY DEF SlotInv, SlotTypes, SlotArchive, Recorded
<1>2. PICK t \in Tails : Original(t)
  BY DEF SlotInv, SlotArchive
<1>3. \A i \in 1..Len(slotStream) : SlotAudit!Charged(slotStream[i]) <= Budget
  <2>1. ASSUME NEW i \in 1..Len(slotStream) PROVE SlotAudit!Charged(slotStream[i]) <= Budget
    <3>1. SlotAudit!Charged(slotStream[i]) \in Int
      <4>1. slotStream[i] \in SlotEvents /\ started \in Int
        BY <1>1
      <4> QED BY <4>1, ChargedInt
    <3>2. SlotAudit!Charged(slotStream[i]) <= native.ended
      BY <1>1 DEF WrittenBy
    <3>3. Budget \in Nat /\ native.ended <= Budget
      BY <1>1 DEF Validly, SlotAudit!AuditAssumption
    <3> QED BY <3>1, <3>2, <3>3, <1>1
  <2> QED BY <2>1
<1>4. Among(slotStream, Timely) = slotStream
  BY <1>1, <1>3, AllInTime
<1> DEFINE p == SlotAudit!Projected(native.file)
<1>5. p.sequences = slotStream
  <2>1. native.file = SlotAudit!Left(slotStream \o t)
    BY <1>2 DEF Original
  <2> QED BY <2>1, <1>1, <1>4, ProjectedIs
<1>6. /\ slotRecord.metrics = SlotAudit!SegmentedMetrics(slotWarmup, p.sequences)
      /\ slotRecord.goal
           = SlotAudit!GoalReached(SlotAudit!SegmentedMetrics(slotWarmup, p.sequences))
  BY <1>1 DEF Recorded
<1> HIDE DEF p
<1> QED BY <1>1, <1>4, <1>5, <1>6

LEMMA SlotDamages ==
  ASSUME SlotAudit!AuditAssumption, SlotInv, SlotAudit!Damage PROVE SlotInv'
<1> DEFINE told == SlotAudit!SegmentedMetrics(slotWarmup, slotStream)
<1>1. /\ slotPhase = "ended" /\ slotPhase' = "ended" /\ slotRecord.valid /\ ~slotDamaged
      /\ slotDamaged' = TRUE /\ slotNow' = slotNow /\ SlotStays /\ slotVerdict' = slotVerdict
  BY DEF SlotAudit!Damage, SlotStays
<1>2. /\ slotStream \in Seq(SlotEvents) /\ WrittenBy(slotStream, native.ended)
      /\ native.ended \in Nat /\ started <= native.ended /\ native.ended <= slotNow
  BY <1>1 DEF SlotInv, SlotTypes, SlotArchive
<1>3. PICK t \in Tails : Original(t)
  BY <1>1 DEF SlotInv, SlotArchive
<1>4. /\ Validly /\ Recorded /\ slotRecord.status = "completed" /\ slotRecord.metrics = told
      /\ slotRecord.goal = SlotAudit!GoalReached(told)
  BY <1>1, ValidIs
<1>5. native.file = SlotAudit!Left(slotStream \o t)
  BY <1>3 DEF Original
<1>6. DOMAIN slotStream = 1..Len(slotStream)
  BY <1>2
<1>7. told' = told
  BY <1>1 DEF SlotStays
<1> DEFINE Thinned(i) == SlotAudit!Recounted(SlotAudit!RemoveAt(native.file.events, i))
           Undone(i) == SlotAudit!SegmentedMetrics(slotWarmup, SlotAudit!RemoveAt(slotStream, i))
<1>8. \/ /\ \E i \in 1..Len(slotStream) :
              native' \in {[native EXCEPT !.file = Thinned(i)],
                           [native EXCEPT !.file = Thinned(i), !.meta = SlotAudit!Metadata(Thinned(i))]}
         /\ slotRecord' = slotRecord
      \/ /\ \/ \E i \in 1..Len(slotStream) : slotRecord' = [slotRecord EXCEPT !.metrics = Undone(i)]
            \/ slotRecord' = [slotRecord EXCEPT !.goal = ~@]
         /\ native' = native
  BY <1>6 DEF SlotAudit!Damage
<1> HIDE DEF told
<1>9. /\ native'.ended = native.ended /\ native'.stop = native.stop
      /\ slotRecord'.valid /\ slotRecord'.charged = slotRecord.charged /\ Forged'
  <2>1. CASE /\ slotRecord' = slotRecord
             /\ \E i \in 1..Len(slotStream) :
                  native' \in {[native EXCEPT !.file = Thinned(i)],
                               [native EXCEPT !.file = Thinned(i), !.meta = SlotAudit!Metadata(Thinned(i))]}
    <3>1. PICK i \in 1..Len(slotStream) :
            native' \in {[native EXCEPT !.file = Thinned(i)],
                         [native EXCEPT !.file = Thinned(i), !.meta = SlotAudit!Metadata(Thinned(i))]}
      BY <2>1
    <3>2. native = [stop |-> native.stop, ended |-> native.ended, file |-> native.file,
                    meta |-> native.meta]
      BY <1>3 DEF Original
    <3> DEFINE less == Thinned(i)
               meta == SlotAudit!Metadata(Thinned(i))
    <3>3. native' \in {[native EXCEPT !.file = less], [native EXCEPT !.file = less, !.meta = meta]}
      BY <3>1
    <3>4. less = SlotAudit!Left(SlotAudit!RemoveAt(slotStream, i) \o t)
      BY <1>2, <1>5, RemovedIs
    <3> HIDE DEF less, meta
    <3>5. native'.file = less /\ native'.ended = native.ended /\ native'.stop = native.stop
      BY <3>2, <3>3
    <3>6. slotRecord'.metrics = told'
      BY <1>4, <1>7, <2>1
    <3>7. slotStream' = slotStream /\ slotWarmup' = slotWarmup
      BY <1>1 DEF SlotStays
    <3>8. Forged'
      <4>1. native'.file = SlotAudit!Left(SlotAudit!RemoveAt(slotStream', i) \o t)
        BY <3>4, <3>5, <3>7
      <4>2. i \in 1..Len(slotStream')
        BY <3>7
      <4> QED BY <3>6, <4>1, <4>2 DEF Forged, told
    <3> QED BY <2>1, <1>1, <3>5, <3>8
  <2>2. CASE /\ native' = native
             /\ \E i \in 1..Len(slotStream) : slotRecord' = [slotRecord EXCEPT !.metrics = Undone(i)]
    <3>1. PICK i \in 1..Len(slotStream) : slotRecord' = [slotRecord EXCEPT !.metrics = Undone(i)]
      BY <2>2
    <3>2. slotRecord = [status |-> "completed", valid |-> slotRecord.valid,
                        late |-> slotRecord.late, observed |-> slotRecord.observed,
                        charged |-> slotRecord.charged, metrics |-> slotRecord.metrics,
                        goal |-> slotRecord.goal]
      BY <1>4 DEF Recorded
    <3> DEFINE undone == Undone(i)
    <3>3. slotRecord' = [slotRecord EXCEPT !.metrics = undone]
      BY <3>1
    <3> HIDE DEF undone
    <3>4. /\ slotRecord'.metrics = undone /\ slotRecord'.valid = slotRecord.valid
          /\ slotRecord'.charged = slotRecord.charged
      BY <3>2, <3>3
    <3>5. Forged'
      <4>1. slotStream' = slotStream /\ slotWarmup' = slotWarmup
        BY <1>1 DEF SlotStays
      <4>2. native'.file = SlotAudit!Left(slotStream' \o t)
        BY <1>5, <2>2, <4>1
      <4>3. slotRecord'.metrics
              = SlotAudit!SegmentedMetrics(slotWarmup', SlotAudit!RemoveAt(slotStream', i))
        BY <3>4, <4>1 DEF undone
      <4>4. i \in 1..Len(slotStream')
        BY <4>1
      <4> QED BY <4>2, <4>3, <4>4 DEF Forged
    <3> QED BY <1>1, <2>2, <3>4, <3>5
  <2>3. CASE native' = native /\ slotRecord' = [slotRecord EXCEPT !.goal = ~@]
    <3>1. slotRecord = [status |-> "completed", valid |-> slotRecord.valid,
                        late |-> slotRecord.late, observed |-> slotRecord.observed,
                        charged |-> slotRecord.charged, metrics |-> slotRecord.metrics,
                        goal |-> slotRecord.goal]
      BY <1>4 DEF Recorded
    <3> DEFINE other == ~slotRecord.goal
    <3>2. slotRecord' = [slotRecord EXCEPT !.goal = other]
      BY <2>3
    <3>3. other # SlotAudit!GoalReached(told)
      <4>1. SlotAudit!GoalReached(told) \in BOOLEAN
        BY DEF SlotAudit!GoalReached
      <4> QED BY <4>1, <1>4
    <3> HIDE DEF other
    <3>4. /\ slotRecord'.goal = other /\ slotRecord'.valid = slotRecord.valid
          /\ slotRecord'.charged = slotRecord.charged
      BY <3>1, <3>2
    <3>5. Forged'
      <4>1. slotStream' = slotStream /\ slotWarmup' = slotWarmup
        BY <1>1 DEF SlotStays
      <4>2. native'.file = SlotAudit!Left(slotStream' \o t)
        BY <1>5, <2>3, <4>1
      <4>3. slotRecord'.goal
              # SlotAudit!GoalReached(SlotAudit!SegmentedMetrics(slotWarmup', slotStream'))
        BY <3>3, <3>4, <4>1 DEF told
      <4> QED BY <4>2, <4>3 DEF Forged
    <3> QED BY <1>1, <2>3, <3>4, <3>5
  <2> QED BY <1>8, <2>1, <2>2, <2>3
<1>10. Validly'
  BY <1>1, <1>4, <1>9 DEF Validly, SlotStays
<1>11. SlotTypes'
  BY <1>1 DEF SlotInv, SlotTypes, SlotStays
<1>12. SlotCampaign'
  BY <1>1, CampaignStays
<1>13. SlotArchive'
  <2>1. native'.ended \in Nat /\ started' <= native'.ended /\ native'.ended <= slotNow'
    BY <1>1, <1>2, <1>9 DEF SlotStays
  <2>2. WrittenBy(slotStream, native.ended)'
    BY <1>1, <1>2, <1>9 DEF SlotStays, WrittenBy, SlotAudit!Charged
  <2> QED BY <1>1, <1>9, <1>10, <2>1, <2>2 DEF SlotArchive
<1>14. SlotConcluded'
  BY <1>1 DEF SlotConcluded
<1> QED BY <1>11, <1>12, <1>13, <1>14 DEF SlotInv

\* What the audit reads of a file whose sequences all came in time.
LEMMA TimelyRead ==
  ASSUME SlotAudit!AuditAssumption, started \in Int, slotWarmup \in Seq(Plans),
         NEW c \in Seq(SlotEvents), NEW t \in Tails, native.file = SlotAudit!Left(c \o t),
         \A i \in 1..Len(c) : SlotAudit!Charged(c[i]) <= Budget
  PROVE  LET r == SlotAudit!ReadCompact(native.file)
         IN  /\ r.complete = c /\ FirstFits(c, r.first)
             /\ SlotAudit!AuditMetrics(r) = SlotAudit!SegmentedMetrics(slotWarmup, c)
<1> DEFINE r == SlotAudit!ReadCompact(native.file)
<1>1. Among(c, Timely) = c
  BY AllInTime
<1>2. r.complete = c /\ FirstFits(c, r.first)
  <2>1. LET q == SlotAudit!ReadCompact(SlotAudit!Left(c \o t))
        IN  q.complete = Among(c, Timely) /\ FirstFits(q.complete, q.first)
    BY ReadFile
  <2> QED BY <1>1, <2>1
<1> HIDE DEF r
<1>3. SlotAudit!AuditMetrics(r) = SlotAudit!SegmentedMetrics(slotWarmup, c)
  BY <1>2, MetricsAgree
<1> QED BY <1>2, <1>3 DEF r

\* The times of a slot that counts.
LEMMA ValidTimes ==
  ASSUME SlotAudit!AuditAssumption, SlotInv, slotPhase = "ended", slotRecord.valid
  PROVE  /\ Validly /\ started \in Int /\ slotWarmup \in Seq(Plans)
         /\ slotStream \in Seq(SlotEvents) /\ WrittenBy(slotStream, native.ended)
         /\ \A i \in 1..Len(slotStream) : SlotAudit!Charged(slotStream[i]) <= Budget
<1>1. /\ Validly /\ started \in Nat /\ started \in Int /\ slotWarmup \in Seq(Plans)
      /\ slotStream \in Seq(SlotEvents) /\ WrittenBy(slotStream, native.ended) /\ native.ended \in Nat
  BY DEF SlotInv, SlotTypes, SlotArchive
<1>2. ASSUME NEW i \in 1..Len(slotStream) PROVE SlotAudit!Charged(slotStream[i]) <= Budget
  <2>1. SlotAudit!Charged(slotStream[i]) \in Int
    <3>1. slotStream[i] \in SlotEvents
      BY <1>1
    <3> QED BY <1>1, <3>1, ChargedInt
  <2>2. SlotAudit!Charged(slotStream[i]) <= native.ended
    BY <1>1 DEF WrittenBy
  <2>3. Budget \in Nat /\ native.ended <= Budget
    BY <1>1 DEF Validly, SlotAudit!AuditAssumption
  <2> QED BY <2>1, <2>2, <2>3, <1>1
<1> QED BY <1>1, <1>2

\* A slot one of whose files is another attempt's does not pass.
LEMMA ForgedFails ==
  ASSUME SlotAudit!AuditAssumption, SlotInv, slotPhase = "ended", slotDamaged
  PROVE  ~SlotAudit!SlotPasses
<1> DEFINE r == SlotAudit!ReadCompact(native.file)
           told == SlotAudit!SegmentedMetrics(slotWarmup, slotStream)
           Undone(i) == SlotAudit!RemoveAt(slotStream, i)
<1>1. slotRecord.valid /\ Forged
  BY DEF SlotInv, SlotArchive
<1>2. /\ started \in Int /\ slotWarmup \in Seq(Plans) /\ slotStream \in Seq(SlotEvents)
      /\ \A i \in 1..Len(slotStream) : SlotAudit!Charged(slotStream[i]) <= Budget
  BY <1>1, ValidTimes
<1>3. SUFFICES ASSUME SlotAudit!AuditMetrics(r) = slotRecord.metrics,
                      SlotAudit!GoalReached(SlotAudit!AuditMetrics(r)) = slotRecord.goal
               PROVE  FALSE
  BY DEF SlotAudit!SlotPasses
<1>4. \A i \in 1..Len(slotStream) :
        SlotAudit!SegmentedMetrics(slotWarmup, Undone(i)) # told
  BY <1>2, MetricsTell
<1>5. PICK t \in Tails :
        \/ \E i \in 1..Len(slotStream) :
             native.file = SlotAudit!Left(Undone(i) \o t) /\ slotRecord.metrics = told
        \/ /\ native.file = SlotAudit!Left(slotStream \o t)
           /\ \/ \E i \in 1..Len(slotStream) :
                   slotRecord.metrics = SlotAudit!SegmentedMetrics(slotWarmup, Undone(i))
              \/ slotRecord.goal # SlotAudit!GoalReached(told)
  BY <1>1 DEF Forged
<1> HIDE DEF r, told
<1>6. CASE \E i \in 1..Len(slotStream) :
             native.file = SlotAudit!Left(Undone(i) \o t) /\ slotRecord.metrics = told
  <2>1. PICK i \in 1..Len(slotStream) :
          native.file = SlotAudit!Left(Undone(i) \o t) /\ slotRecord.metrics = told
    BY <1>6
  <2> DEFINE d == Undone(i)
             L == Len(slotStream)
  <2>2. /\ d \in Seq(SlotEvents) /\ Len(d) = L - 1 /\ L \in Nat /\ i \in 1..L
        /\ \A j \in 1..(L - 1) : d[j] = IF j < i THEN slotStream[j] ELSE slotStream[j + 1]
    <3>1. /\ d \in Seq(SlotEvents) /\ Len(d) = L - 1
          /\ \A j \in 1..(L - 1) : d[j] = IF j < i THEN slotStream[j] ELSE slotStream[j + 1]
      BY <1>2, <2>1, RemoveAtIs
    <3>2. L \in Nat /\ i \in 1..L
      BY <1>2
    <3> QED BY ONLY <3>1, <3>2
  <2> HIDE DEF d, L
  <2>3. \A j \in 1..Len(d) : SlotAudit!Charged(d[j]) <= Budget
    <3>1. ASSUME NEW j \in 1..Len(d) PROVE SlotAudit!Charged(d[j]) <= Budget
      <4>1. j \in 1..(L - 1) /\ j \in 1..L /\ j + 1 \in 1..L
        BY <2>2
      <4>2. d[j] = slotStream[j] \/ d[j] = slotStream[j + 1]
        BY <2>2, <4>1
      <4> QED BY <1>2, <4>1, <4>2 DEF L
    <3> QED BY <3>1
  <2>4. SlotAudit!AuditMetrics(r) = SlotAudit!SegmentedMetrics(slotWarmup, d)
    <3>1. native.file = SlotAudit!Left(d \o t)
      BY <2>1 DEF d
    <3> QED BY <1>2, <2>2, <2>3, <3>1, TimelyRead DEF r
  <2> QED BY <1>3, <1>4, <2>1, <2>4 DEF d
<1>7. CASE native.file = SlotAudit!Left(slotStream \o t)
  <2>1. SlotAudit!AuditMetrics(r) = told
    BY <1>2, <1>7, TimelyRead DEF r, told
  <2>2. slotRecord.metrics = told /\ slotRecord.goal = SlotAudit!GoalReached(told)
    BY <1>3, <2>1
  <2> QED BY <1>4, <1>5, <1>6, <2>2
<1> QED BY <1>5, <1>6, <1>7

\* What the audit reads of a slot whose archive is as the run left it.
LEMMA OriginalRead ==
  ASSUME SlotAudit!AuditAssumption, SlotInv, slotPhase = "ended", slotRecord.valid, ~slotDamaged
  PROVE  LET r == SlotAudit!ReadCompact(native.file)
             told == SlotAudit!SegmentedMetrics(slotWarmup, slotStream)
         IN  /\ r.complete = slotStream /\ FirstFits(slotStream, r.first)
             /\ SlotAudit!AuditMetrics(r) = told /\ slotRecord.goal = SlotAudit!GoalReached(told)
             /\ slotRecord.charged <= Budget => SlotAudit!SlotPasses
<1> DEFINE r == SlotAudit!ReadCompact(native.file)
           p == SlotAudit!Projected(native.file)
           told == SlotAudit!SegmentedMetrics(slotWarmup, slotStream)
<1>1. /\ Validly /\ started \in Int /\ slotWarmup \in Seq(Plans)
      /\ slotStream \in Seq(SlotEvents) /\ WrittenBy(slotStream, native.ended)
      /\ \A i \in 1..Len(slotStream) : SlotAudit!Charged(slotStream[i]) <= Budget
  BY ValidTimes
<1>2. /\ Recorded /\ slotRecord.status = "completed" /\ slotRecord.metrics = told
      /\ slotRecord.goal = SlotAudit!GoalReached(told)
  BY ValidIs
<1>3. PICK t \in Tails : Original(t)
  BY DEF SlotInv, SlotArchive
<1>4. native.file = SlotAudit!Left(slotStream \o t)
      /\ native.meta = SlotAudit!Metadata(native.file)
      /\ \A i \in 1..Len(t) : t[i].index = Len(slotStream) + 1
  BY <1>3 DEF Original, TailOf
<1>5. /\ r.complete = slotStream /\ FirstFits(slotStream, r.first)
      /\ SlotAudit!AuditMetrics(r) = told
  BY <1>1, <1>4, TimelyRead
<1>6. \A i \in 1..Len(slotStream \o t) : OkAt(slotStream \o t, i)
  <2>1. /\ slotStream \in Seq(SlotEvents) /\ WrittenBy(slotStream, native.ended) /\ t \in Tails
        /\ \A i \in 1..Len(t) : t[i].index = Len(slotStream) + 1
    BY <1>1, <1>4
  <2> QED BY ONLY <2>1, WrittenIsOk
<1>7. /\ SlotAudit!ReadAccepted(r, native.file, native.meta)
      /\ r.late = p.late /\ SlotAudit!ObservationEnd(r) = p.observed
  BY <1>1, <1>4, <1>6, ReaderMatches
<1>8. slotRecord.late = p.late /\ slotRecord.observed = p.observed
  BY <1>2 DEF Recorded
<1>9. accepted \subseteq {r.complete[i].calls : i \in {j \in DOMAIN r.complete :
                                      SlotAudit!Kind(r.complete[j]) = "startup_replay"}}
  <2>1. accepted \subseteq SlotReplayed(slotStream)
    BY <1>1 DEF SlotInv, SlotCampaign, Validly
  <2>2. DOMAIN slotStream = 1..Len(slotStream)
    BY <1>1
  <2> HIDE DEF r
  <2> QED BY <1>5, <2>1, <2>2 DEF SlotReplayed
<1>10. started <= native.ended /\ native.ended <= slotRecord.charged /\ native.stop = "time_limit"
  BY <1>1 DEF SlotInv, SlotArchive, Validly
<1> HIDE DEF p, told
<1>11. slotRecord.charged <= Budget => SlotAudit!SlotPasses
  <2>1. /\ r.late = slotRecord.late /\ SlotAudit!ObservationEnd(r) = slotRecord.observed
        /\ SlotAudit!AuditMetrics(r) = slotRecord.metrics
        /\ SlotAudit!GoalReached(SlotAudit!AuditMetrics(r)) = slotRecord.goal
    BY <1>2, <1>5, <1>7, <1>8
  <2> QED BY <1>7, <1>9, <1>10, <2>1 DEF SlotAudit!SlotPasses
<1> HIDE DEF r
<1> QED BY <1>2, <1>5, <1>11 DEF r, told

LEMMA SlotIsAudited ==
  ASSUME SlotAudit!AuditAssumption, SlotInv, SlotAudit!Audit PROVE SlotInv'
<1> DEFINE r == SlotAudit!ReadCompact(native.file)
           m == SlotAudit!AuditMetrics(r)
           told == SlotAudit!SegmentedMetrics(slotWarmup, slotStream)
           end == SlotAudit!ObservationEnd(r)
           made == [goal |-> slotRecord.goal, reason |-> SlotAudit!MissReason(m),
                   first |-> r.first, completed |-> Len(r.complete), metrics |-> m, end |-> end]
           reason == SlotAudit!MissReason(m)
<1>1. /\ slotPhase = "ended" /\ slotPhase' = "audited" /\ slotNow' = slotNow /\ SlotStays
      /\ UNCHANGED <<native, slotRecord, slotDamaged>>
  BY DEF SlotAudit!Audit, SlotStays
<1>2. slotVerdict' = IF slotRecord.valid /\ SlotAudit!SlotPasses THEN <<made>> ELSE <<>>
  BY DEF SlotAudit!Audit, SlotAudit!None
<1>3. SlotTypes'
  BY <1>1 DEF SlotInv, SlotTypes, SlotStays
<1>4. SlotCampaign'
  BY <1>1, CampaignStays
<1>5. SlotArchive'
  <2>1. SlotArchive
    BY DEF SlotInv
  <2>2. (\A file : SlotAudit!Projected(file)' = SlotAudit!Projected(file))
    BY <1>1, ProjectionStays DEF SlotStays
  <2>3. Recorded => Recorded'
    <3>1. SlotAudit!Projected(native.file)' = SlotAudit!Projected(native.file)
      BY <2>2, <1>1
    <3> QED BY <3>1, <1>1 DEF Recorded, SlotStays
  <2>4. (\E t \in Tails : Original(t)) => (\E t \in Tails : Original(t))'
    BY <1>1 DEF Original, TailOf, SlotStays
  <2>5. Validly => Validly'
    BY <1>1 DEF Validly, SlotStays
  <2>6. Forged => Forged'
    BY <1>1 DEF Forged, SlotStays
  <2>7. WrittenBy(slotStream, native.ended) => WrittenBy(slotStream, native.ended)'
    BY <1>1, WrittenStays
  <2>8. /\ native.ended \in Nat /\ started <= native.ended /\ native.ended <= slotNow
        /\ WrittenBy(slotStream, native.ended)
        /\ ~slotDamaged => \E t \in Tails : Original(t)
        /\ slotRecord.valid => Validly
        /\ ~slotDamaged => Recorded
        /\ slotDamaged => slotRecord.valid /\ Forged
    BY <1>1, <2>1 DEF SlotArchive
  <2>9. /\ native'.ended \in Nat /\ started' <= native'.ended /\ native'.ended <= slotNow'
        /\ WrittenBy(slotStream, native.ended)'
        /\ ~slotDamaged' => (\E t \in Tails : Original(t))'
        /\ slotRecord'.valid => Validly'
        /\ ~slotDamaged' => Recorded'
        /\ slotDamaged' => slotRecord'.valid /\ Forged'
    BY <1>1, <2>3, <2>4, <2>5, <2>6, <2>7, <2>8 DEF SlotStays
  <2> QED BY <1>1, <2>9 DEF SlotArchive
<1>6. slotVerdict' # <<>> <=> slotRecord.valid /\ SlotAudit!SlotPasses
  <2>1. <<made>> # <<>>
    OBVIOUS
  <2> HIDE DEF made
  <2> QED BY <1>2, <2>1
<1>7. slotVerdict' # <<>> => slotRecord.valid /\ ~slotDamaged
  BY <1>1, <1>6, ForgedFails DEF SlotInv, SlotTypes
<1>8. (SlotAudit!ValidPassesAudit)'
  <2>1. ~slotDamaged /\ slotRecord.valid /\ slotRecord.charged <= Budget => slotVerdict' # <<>>
    BY <1>1, <1>6, OriginalRead
  <2> QED BY <1>1, <2>1 DEF SlotAudit!ValidPassesAudit, SlotAudit!HasRow, SlotAudit!None
<1>9. (SlotAudit!RowIsOriginal)' /\ (SlotAudit!RowExplainsGoal)'
  <2>1. CASE slotVerdict' = <<>>
    BY <2>1 DEF SlotAudit!RowIsOriginal, SlotAudit!RowExplainsGoal, SlotAudit!HasRow, SlotAudit!None
  <2>2. CASE slotVerdict' # <<>>
    <3>1. slotRecord.valid /\ ~slotDamaged
      BY <1>7, <2>2
    <3>2. /\ r.complete = slotStream /\ FirstFits(slotStream, r.first)
          /\ m = told /\ slotRecord.goal = SlotAudit!GoalReached(told)
      BY <1>1, <3>1, OriginalRead
    <3>3. slotVerdict' = <<made>>
      BY <1>2, <1>6, <2>2
    <3>4. end = SlotAudit!Greatest({SlotAudit!Charged(slotStream[i]) : i \in DOMAIN slotStream}, started)
      BY <3>2 DEF SlotAudit!ObservationEnd
    <3>5. /\ started \in Int /\ slotWarmup \in Seq(Plans) /\ slotStream \in Seq(SlotEvents)
      BY <1>1, <3>1, ValidTimes
    <3> DEFINE first == r.first
               n == Len(r.complete)
               found == slotVerdict'[1]
               goal == slotRecord.goal
    <3>6. found = made
      BY <3>3
    <3>7. made = [goal |-> goal, reason |-> reason, first |-> first, completed |-> n,
                 metrics |-> m, end |-> end]
      OBVIOUS
    <3>8. n = Len(slotStream)
      BY <3>2
    <3> HIDE DEF r, m, told, end, made, reason, first, n, found, goal
    <3>9. /\ found.goal = goal /\ found.reason = reason /\ found.first = first /\ found.completed = n
          /\ found.metrics = m /\ found.end = end
      BY ONLY <3>6, <3>7
    <3>10. /\ SlotAudit!GoalReached(m) <=> reason \in {"warmup_goal_reached",
                             "native_import_goal_reached", "native_continuation_goal_reached"}
           /\ first # <<>> => SlotAudit!GoalReached(m) /\ first[1].charged <= end
           /\ reason = "native_import_goal_reached" => first # <<>>
           /\ reason = "native_continuation_goal_reached" =>
                first # <<>> /\ first[1].kind # "startup_replay"
           /\ reason = "verified_seed_but_native_goal_not_observed"
                <=> ~SlotAudit!GoalReached(m) /\ accepted # {}
      <4>1. /\ FirstFits(slotStream, first) /\ m = SlotAudit!SegmentedMetrics(slotWarmup, slotStream)
        BY <3>2 DEF told, first
      <4>2. accepted # {} => augmentation = "completed"
        BY DEF SlotInv, SlotTypes
      <4> QED BY <3>4, <3>5, <4>1, <4>2, RowExplains DEF reason
    <3>11. goal = SlotAudit!GoalReached(m)
      BY <3>2 DEF goal
    <3>12. (SlotAudit!RowIsOriginal)'
      <4>1. /\ found.completed = Len(slotStream')
            /\ found.metrics = SlotAudit!SegmentedMetrics(slotWarmup', slotStream')
            /\ found.goal = SlotAudit!GoalReached(SlotAudit!SegmentedMetrics(slotWarmup', slotStream'))
        BY <1>1, <3>2, <3>8, <3>9, <3>11 DEF SlotStays, told
      <4> QED BY <4>1 DEF SlotAudit!RowIsOriginal, SlotAudit!Row, found
    <3>13. (SlotAudit!RowExplainsGoal)'
      <4>1. /\ found.goal <=> found.reason \in {"warmup_goal_reached",
                             "native_import_goal_reached", "native_continuation_goal_reached"}
            /\ found.first # <<>> => found.goal /\ found.first[1].charged <= found.end
            /\ found.reason = "native_import_goal_reached" => found.first # <<>>
            /\ found.reason = "native_continuation_goal_reached" =>
                 found.first # <<>> /\ found.first[1].kind # "startup_replay"
            /\ found.reason = "verified_seed_but_native_goal_not_observed"
                 <=> ~found.goal /\ accepted # {}
        BY <3>9, <3>10, <3>11
      <4> QED BY <1>1, <4>1 DEF SlotAudit!RowExplainsGoal, SlotAudit!Row, found, SlotStays
    <3> QED BY <3>12, <3>13
  <2> QED BY <2>1, <2>2
<1>10. SlotConcluded'
  BY <1>8, <1>9 DEF SlotConcluded
<1> QED BY <1>3, <1>4, <1>5, <1>10 DEF SlotInv

LEMMA SlotRests ==
  ASSUME SlotInv, UNCHANGED slotVars PROVE SlotInv'
<1>1. /\ SlotStays /\ UNCHANGED <<slotPhase, slotNow, native, slotRecord, slotDamaged, slotVerdict>>
  BY DEF slotVars, SlotStays
<1>2. SlotTypes'
  BY <1>1 DEF SlotInv, SlotTypes, SlotStays
<1>3. SlotCampaign'
  <2>1. /\ known' = SlotAudit!KnownBefore(slotStream', Len(slotStream') + 1)
        /\ accepted' \subseteq slotPending' \union SlotReplayed(slotStream')
        /\ Continued(slotStream') => slotPending' = {}
    BY <1>1 DEF SlotInv, SlotCampaign, SlotStays
  <2>2. WrittenBy(slotStream, slotNow) => WrittenBy(slotStream, slotNow)'
    BY <1>1 DEF SlotStays, WrittenBy, SlotAudit!Charged
  <2>3. slotPhase' \in {"setup", "search"} => WrittenBy(slotStream, slotNow)'
    BY <1>1, <2>2 DEF SlotInv, SlotCampaign
  <2>4. slotPhase' = "setup" => slotStream' = <<>>
    BY <1>1 DEF SlotInv, SlotCampaign, SlotStays
  <2> QED BY <2>1, <2>3, <2>4 DEF SlotCampaign
<1>4. SlotArchive'
  <2>1. SlotArchive
    BY DEF SlotInv
  <2>2. (\A file : SlotAudit!Projected(file)' = SlotAudit!Projected(file))
    BY <1>1, ProjectionStays DEF SlotStays
  <2>3. Recorded => Recorded'
    <3>1. SlotAudit!Projected(native.file)' = SlotAudit!Projected(native.file)
      BY <2>2, <1>1
    <3> QED BY <3>1, <1>1 DEF Recorded, SlotStays
  <2>4. (\E t \in Tails : Original(t)) => (\E t \in Tails : Original(t))'
    BY <1>1 DEF Original, TailOf, SlotStays
  <2>5. Validly => Validly'
    BY <1>1 DEF Validly, SlotStays
  <2>6. Forged => Forged'
    BY <1>1 DEF Forged, SlotStays
  <2>7. WrittenBy(slotStream, native.ended) => WrittenBy(slotStream, native.ended)'
    BY <1>1, WrittenStays
  <2>8. slotPhase' \in {"stopped", "ended", "audited"} =>
          /\ native'.ended \in Nat /\ started' <= native'.ended /\ native'.ended <= slotNow'
          /\ WrittenBy(slotStream, native.ended)'
          /\ ~slotDamaged' => (\E t \in Tails : Original(t))'
    BY <1>1, <2>1, <2>4, <2>7 DEF SlotArchive, SlotStays
  <2>9. /\ slotPhase' \in {"ended", "audited"} =>
             /\ slotRecord'.valid => Validly'
             /\ ~slotDamaged' => Recorded'
             /\ slotDamaged' => slotRecord'.valid /\ Forged'
        /\ slotPhase' \in {"setup", "search", "stopped"} => ~slotDamaged'
    BY <1>1, <2>1, <2>3, <2>5, <2>6 DEF SlotArchive, SlotStays
  <2> QED BY <2>8, <2>9 DEF SlotArchive
<1>5. SlotConcluded'
  <2>1. SlotConcluded
    BY DEF SlotInv
  <2>2. SlotAudit!ValidPassesAudit => SlotAudit!ValidPassesAudit'
    BY <1>1 DEF SlotAudit!ValidPassesAudit, SlotAudit!HasRow
  <2>3. SlotAudit!RowIsOriginal => SlotAudit!RowIsOriginal'
    BY <1>1 DEF SlotAudit!RowIsOriginal, SlotAudit!HasRow, SlotAudit!Row, SlotStays
  <2>4. SlotAudit!RowExplainsGoal => SlotAudit!RowExplainsGoal'
    BY <1>1 DEF SlotAudit!RowExplainsGoal, SlotAudit!HasRow, SlotAudit!Row, SlotStays
  <2> QED BY <1>1, <2>1, <2>2, <2>3, <2>4 DEF SlotConcluded
<1> QED BY <1>2, <1>3, <1>4, <1>5 DEF SlotInv

\* Every step of the slot keeps what it holds.
LEMMA SlotSteps ==
  ASSUME SlotAudit!AuditAssumption, SlotInv, [SlotAudit!Next]_slotVars PROVE SlotInv'
<1>1. ASSUME SlotAudit!Next PROVE SlotInv'
  BY <1>1, SlotSearchStarts, SlotReplays, SlotSearches, SlotSearchStops, SlotValidates,
     SlotDamages, SlotIsAudited DEF SlotAudit!Next
<1> QED BY <1>1, SlotRests

\* And it is what the audit of the slot promises.
LEMMA SlotAnswers ==
  ASSUME SlotAudit!AuditAssumption, SlotInv PROVE SlotAuditIsTrue
<1>1. SlotAudit!ReadersAgree
  <2> DEFINE r == SlotAudit!ReadCompact(native.file)
             p == SlotAudit!Projected(native.file)
  <2>1. SUFFICES ASSUME slotPhase = "ended", ~slotDamaged, slotRecord.status = "completed"
                 PROVE  /\ SlotAudit!ReadAccepted(r, native.file, native.meta)
                        /\ r.late = slotRecord.late /\ SlotAudit!ObservationEnd(r) = slotRecord.observed
                        /\ SlotAudit!AuditMetrics(r) = slotRecord.metrics
    BY DEF SlotAudit!ReadersAgree
  <2>2. /\ Recorded /\ slotStream \in Seq(SlotEvents) /\ WrittenBy(slotStream, native.ended)
        /\ started \in Nat /\ slotWarmup \in Seq(Plans)
    BY <2>1 DEF SlotInv, SlotTypes, SlotArchive
  <2>3. PICK t \in Tails : Original(t)
    BY <2>1 DEF SlotInv, SlotArchive
  <2>4. native.file = SlotAudit!Left(slotStream \o t)
        /\ native.meta = SlotAudit!Metadata(native.file)
        /\ \A i \in 1..Len(t) : t[i].index = Len(slotStream) + 1
    BY <2>3 DEF Original, TailOf
  <2>5. \A i \in 1..Len(slotStream \o t) : OkAt(slotStream \o t, i)
    <3>1. /\ slotStream \in Seq(SlotEvents) /\ WrittenBy(slotStream, native.ended) /\ t \in Tails
          /\ \A i \in 1..Len(t) : t[i].index = Len(slotStream) + 1
      BY <2>2, <2>4
    <3> QED BY ONLY <3>1, WrittenIsOk
  <2>6. started \in Int
    BY <2>2
  <2>7. /\ SlotAudit!ReadAccepted(r, native.file, native.meta)
        /\ r.late = p.late /\ SlotAudit!ObservationEnd(r) = p.observed
        /\ SlotAudit!AuditMetrics(r) = SlotAudit!SegmentedMetrics(slotWarmup, p.sequences)
    BY <2>2, <2>4, <2>5, <2>6, ReaderMatches
  <2>8. /\ slotRecord.late = p.late /\ slotRecord.observed = p.observed
        /\ slotRecord.metrics = SlotAudit!SegmentedMetrics(slotWarmup, p.sequences)
    BY <2>1, <2>2 DEF Recorded
  <2> HIDE DEF r, p
  <2> QED BY <2>7, <2>8
<1>2. SlotAudit!ValidPassesAudit /\ SlotAudit!RowIsOriginal /\ SlotAudit!RowExplainsGoal
  <2>1. CASE slotPhase = "audited"
    BY <2>1 DEF SlotInv, SlotConcluded
  <2>2. CASE slotPhase # "audited"
    BY <2>2 DEF SlotAudit!ValidPassesAudit, SlotAudit!RowIsOriginal, SlotAudit!RowExplainsGoal,
                SlotAudit!HasRow
  <2> QED BY <2>1, <2>2
<1> QED BY <1>1, <1>2 DEF SlotAuditIsTrue

----------------------------------------------------------------------------
(* The theorems *)

\* Every conclusion has its invariant, whichever of them is drawn.
JudgementsInv ==
  ReplayInv /\ BenchInv /\ SearchInv /\ MechInv /\ SlotInv /\ RowInv

LEMMA JudgementsStart == ASSUME JudgementsInit PROVE JudgementsInv
<1>1. /\ Init /\ Stage1!Init /\ Mechanism!Init /\ Bench!Init
      /\ SlotAudit!Init /\ Stage5!Init
  BY DEF JudgementsInit
<1> QED
  BY <1>1, JudgementsAssumption, ReplayStarts, BenchStarts, SearchStarts, MechStarts,
     SlotStarts, RowStarts DEF JudgementsInv

LEMMA JudgementsStep == ASSUME JudgementsInv, [JudgementsNext]_judgementsVars PROVE JudgementsInv'
<1>1. /\ [Next]_vars /\ [Bench!Next]_benchVars 
      /\ [Stage1!Next]_searchVars /\ [Mechanism!Next]_mechanismVars /\ [SlotAudit!Next]_slotVars
      /\ [Stage5!Next]_stage5Vars
  BY DEF JudgementsNext, judgementsVars
<1> QED
  BY <1>1, JudgementsAssumption, ReplaySteps, BenchSteps, SearchSteps, MechSteps,
     SlotSteps, RowSteps DEF JudgementsInv

\* What Stage 5 confirms is so, for suffixes of any length and whichever single
\* tool may report anything.
THEOREM ConfirmationIsSound == JudgementsSpec => []ConfirmedIsReal
<1>1. JudgementsInv => ConfirmedIsReal
  BY DEF JudgementsInv, ReplayInv, ConfirmedIsReal, Breaks, Survives
<1> QED BY <1>1, JudgementsStart, JudgementsStep, PTL DEF JudgementsSpec

\* What Stage 1 confirms reaches the goal, under the same assumption.
THEOREM GoalIsSound == JudgementsSpec => []GoalIsReal
<1>1. JudgementsInv => GoalIsReal
  BY DEF JudgementsInv, ReplayInv, GoalIsReal, Breaks
<1> QED BY <1>1, JudgementsStart, JudgementsStep, PTL DEF JudgementsSpec

\* A valid arm ran the protocol, its row is a hit or censored and its seeds stay
\* in it, for any number of blocks and arms and all durations.
THEOREM BenchmarkAlwaysCompares == JudgementsSpec => []BenchmarkComparesArms
<1>1. JudgementsInv => BenchmarkComparesArms
  BY BenchAnswers DEF JudgementsInv, BenchmarkComparesArms
<1> QED BY <1>1, JudgementsStart, JudgementsStep, PTL DEF JudgementsSpec

\* The reports of Stage 1 and of the Stage 5 mechanism are true, for any number
\* of prefixes, plans and candidates, whatever the tools answer and whenever the
\* deadline passes.
THEOREM SearchesReportTruly == JudgementsSpec => []SearchReportsAreTrue
<1>1. JudgementsInv => SearchReportsAreTrue
  BY SearchAnswers, MechAnswers DEF JudgementsInv, SearchReportsAreTrue
<1> QED BY <1>1, JudgementsStart, JudgementsStep, PTL DEF JudgementsSpec

\* The audit of a Stage 3 or 4 slot reads from the archive what the runner read,
\* passes every valid slot that stayed in its budget, and its row tells what the
\* campaign executed whichever file was replaced, for all plans, warmups, seeds
\* and lengths of the campaign.
THEOREM SlotAuditsAreTrue == JudgementsSpec => []SlotAuditIsTrue
<1>1. JudgementsInv => SlotAuditIsTrue
  BY JudgementsAssumption, SlotAnswers DEF JudgementsInv
<1> QED BY <1>1, JudgementsStart, JudgementsStep, PTL DEF JudgementsSpec

\* The row of a Stage 5 audit is true whichever file was overwritten, for all
\* sequences and whatever the fuzzer executes.
THEOREM Stage5RowsAreTrue == JudgementsSpec => []Stage5RowIsTrue
<1>1. JudgementsInv => Stage5RowIsTrue
  BY RowAnswers DEF JudgementsInv, Stage5RowIsTrue
<1> QED BY <1>1, JudgementsStart, JudgementsStep, PTL DEF JudgementsSpec
=============================================================================
