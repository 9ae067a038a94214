-------------------------------- MODULE Tools --------------------------------
(***************************************************************************)
(* The tools of a slot and the waits for them, one at a time: the process    *)
(* group of any tool, the contract Medusa calls and reads, the tests          *)
(* generated for it, Medusa under its adapter, the augmentation that asks     *)
(* Halmos and Forge, and what is made of the output of Halmos.  `part` is     *)
(* what a behaviour is about; the variables of the others stay as they are.   *)
(***************************************************************************)
EXTENDS NativeCampaign

CONSTANTS
  Launcher, Descendants,                                      \* of the process group
  Capacity, Amounts,                                          \* of the contracts
  MaxPrefix,                                                  \* of the generated tests
  NumPrefixes, MaxCandidates, AttemptLimit, Boundary, Random, \* of the augmentation
  Identities, Warm,
  SolverTests, Worlds, MaxAttempts                            \* of the solver

VARIABLES
  part,
  step, running, unborn, asked, expired, result,
  contract, variant, cp, cq, cr, cstarted, creading,
  scenario, fp, fq, fr, fstarted, freading, rp, rq, rr, rstarted, rreading,
  recorded, setup, length, suffix, search, replay, regression,
  phase, arm, prefix, attempts, negatives, entries, corpus, executed, verdicts, accepted,
  identity, status,
  solverPc, test, attempt, did, files, solverVerdict

groupVars == <<step, running, unborn, asked, expired, result>>

contractVars == <<contract, variant, cp, cq, cr, cstarted, creading>>

testVars == <<scenario, fp, fq, fr, fstarted, freading, rp, rq, rr, rstarted, rreading,
              recorded, setup, length, suffix, search, replay, regression>>

augmentVars ==
  <<phase, arm, prefix, attempts, negatives, entries, corpus, executed, verdicts, accepted,
    identity, status>>

solverVars == <<solverPc, test, attempt, did, files, solverVerdict>>

Processes == INSTANCE ProcessGroup WITH pc <- step, timedOut <- expired

Contract == INSTANCE SafetyFixtures
  WITH kind <- contract, p <- cp, q <- cq, r <- cr, started <- cstarted, reading <- creading

Harness == INSTANCE SafetyHarness WITH kind <- scenario, prefix <- recorded

Augment == INSTANCE SeedAugmentation WITH pc <- phase, outcome <- status

Solver == INSTANCE HalmosRun WITH Tests <- SolverTests, pc <- solverPc, verdict <- solverVerdict

ASSUME ToolsAssumption ==
  /\ CampaignAssumption /\ Processes!GroupAssumption
  /\ Contract!FixtureAssumption /\ Augment!AugmentAssumption
  /\ Solver!SolverAssumption

ToolsInit ==
  /\ part \in {"group", "contract", "tests", "campaign", "augment", "solver"}
  /\ Init /\ Processes!Init /\ Contract!Init /\ Harness!Init /\ Augment!Init /\ Solver!Init
  /\ part # "contract" => contract = "accounting" /\ variant = "flawed"
  /\ part # "tests" => scenario = "accounting" /\ length = 1
  /\ part # "augment" => arm = "concrete"
  /\ part # "solver" => test = CHOOSE t \in SolverTests : TRUE

ToolsNext ==
  \/ /\ part = "group" /\ Processes!Next
     /\ UNCHANGED <<part, vars, contractVars, testVars, augmentVars, solverVars>>
  \/ /\ part = "contract" /\ Contract!Next
     /\ UNCHANGED <<part, vars, groupVars, testVars, augmentVars, solverVars>>
  \/ /\ part = "tests" /\ Harness!Next
     /\ UNCHANGED <<part, vars, groupVars, contractVars, augmentVars, solverVars>>
  \/ /\ part = "campaign" /\ Next
     /\ UNCHANGED <<part, groupVars, contractVars, testVars, augmentVars, solverVars>>
  \/ /\ part = "augment" /\ Augment!Next
     /\ UNCHANGED <<part, vars, groupVars, contractVars, testVars, solverVars>>
  \/ /\ part = "solver" /\ Solver!Next
     /\ UNCHANGED <<part, vars, groupVars, contractVars, testVars, augmentVars>>

toolsVars == <<part, vars, groupVars, contractVars, testVars, augmentVars, solverVars>>

\* The fairness of the three specifications that state one.
ToolsSpec ==
  /\ ToolsInit /\ [][ToolsNext]_toolsVars
  /\ WF_groupVars(part = "group" /\ Processes!RunCommand)
  /\ WF_vars(part = "campaign" /\ Adapter)
  /\ WF_vars(part = "campaign" /\ TimerStops)
  /\ WF_vars(part = "campaign" /\ TimerFires)
  /\ WF_vars(part = "campaign" /\ Judge)
  /\ WF_augmentVars(part = "augment" /\ Augment!Next)

-----------------------------------------------------------------------------
\* run_command (process.py) leaves no process of a tool behind once a timeout
\* expired, whichever of them ended by itself meanwhile.
NothingSurvivesTimeout == Processes!NothingSurvivesTimeout

\* The contracts of a safety scenario (fixtures/): no sequence of calls breaks the
\* property of a repaired one, so a violation replayed on it would be news of the
\* replay; and none undoes a violation, so a sequence cut anywhere after it still
\* ends in one.
RepairedKeepsProperty == Contract!RepairedKeepsProperty
ViolationStays == Contract!ViolationStays

\* Search, replay and regression are three generated tests (multi_harness.py): a
\* model of a plan is replayed exactly when it is real, it never fails on the
\* repaired contract, and no shortest violation lies outside the plans.
TestsAgree ==
  part = "tests" =>
    Harness!ModelIsReplayed /\ Harness!ModelPassesRegression /\ Harness!ShortestIsSearched

\* What the fuzzer reports of its sequences (observed.go): one recorded as
\* admitted was taken in for mutation, and every mutation parent is resolved when
\* its child is reported, although it may be a mere prefix of an earlier sequence
\* that added coverage.
LineageHolds == AdmittedMeansMarked /\ ParentsResolve

\* The augmentation (augmentation.py) executes exactly the candidates it
\* committed, in whatever step it was cut short; the seeds it accepts are new and
\* of different cases; and its status tells why there is none.
AugmentationAnswers ==
  Augment!OnlyCommittedExecuted /\ Augment!AcceptedSeedsDiffer /\ Augment!OutcomeTellsWhy

\* run_halmos (halmos.py): a conclusive status is earned by the solver of this
\* very attempt, candidates are its models, and a caller is given one of the
\* statuses it distinguishes.
SolverIsUnderstood ==
  part = "solver" =>
    Solver!ConclusiveIsEarned /\ Solver!CandidatesAreTheModels /\ Solver!StatusAnticipated

\* Whatever the processes, the fuzzer and the tools do, run_command, campaign()
\* and the augmentation give control back to the slot; a contract and a test wait for
\* calls, and the wait for a solver is that of run_command.
ControlComesBack ==
  part \notin {"contract", "tests", "solver"} =>
    <>(\/ part = "group" /\ step = "done"
       \/ part = "campaign" /\ outcome # "waiting"
       \/ part = "augment" /\ phase = "done")
=============================================================================
