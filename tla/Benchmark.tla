------------------------------- MODULE Benchmark -------------------------------
(***************************************************************************)
(* The Stage 2 benchmark (benchmark.py).  A block is a fixture and a repeat: *)
(* one common warmup, then every arm in turn from a copy of its corpus.      *)
(* run_arm takes a prefix pool, augments the copy or not, lets Medusa        *)
(* continue from it and measures what it did; whatever is raised ends up in  *)
(* the arm's record (campaign.py).  At the end the records are gathered in a *)
(* report, which reads the raw evidence of every arm again.                  *)
(*                                                                         *)
(* Unlike a study a benchmark is never resumed.  What the tools answer is    *)
(* nondeterministic.  Stages take whole units of the budget.                 *)
(***************************************************************************)
EXTENDS Integers, FiniteSets, Sequences

CONSTANTS
  Blocks,      \* fixtures x repeats, in order: a sequence
  Order,       \* arm_orders: the arms of each block, in order
  Total,       \* budget.total_seconds
  CommonLimit, \* budget.common_limit_seconds
  Reserve,     \* startup_reserve_seconds + continuation_reserve_seconds
  Margin       \* setup_margin kept back from the native fuzz time

Arms == {"native_resume", "concrete_augment", "symbolic_augment"}
NegativeResults == {"no_candidate", "timeout", "invalid_model", "replay_mismatch"}

BenchmarkAssumption ==
  /\ Order \in [1..Len(Blocks) -> Seq(Arms)]
  /\ \A b \in DOMAIN Order, i, j \in 1..3 :
       i \in DOMAIN Order[b] /\ j \in DOMAIN Order[b] /\ Order[b][i] = Order[b][j] => i = j
  /\ Total \in Nat \ {0} /\ CommonLimit \in 0..Total /\ Reserve \in 0..(Total - 1) /\ Margin \in Nat

VARIABLES
  phase,   \* "common", "arm", "report", or how it ended
  block,   \* index of the present block
  turn,    \* index of the present arm in its order
  common,  \* what prepare_common returned
  pc,      \* the stage of run_arm
  left,    \* budget left, negative after an overrun
  record,  \* the record of the present arm
  corpora, \* corpus of every arm that was started: imported seeds by arm
  archive, \* records and files by block and arm
  report

vars == <<phase, block, turn, common, pc, left, record, corpora, archive, report>>
here == <<phase, block, turn, common, corpora, archive, report>>

Arm == Order[block][turn]
Key == <<block, Arm>>

Init ==
  /\ phase = "common" /\ block = 1 /\ turn = 1 /\ pc = "none" /\ left = 0
  /\ common = <<>> /\ record = <<>> /\ corpora = <<>> /\ archive = <<>> /\ report = <<>>

----------------------------------------------------------------------------
(* The common work of a block *)

\* A failure here is caught by nobody: it ends the benchmark.
CommonFails ==
  /\ phase = "common" /\ phase' = "aborted"
  /\ UNCHANGED <<block, turn, common, pc, left, record, corpora, archive, report>>

PrepareCommon ==
  /\ phase = "common" /\ phase' = "arm" /\ turn' = 1 /\ pc' = "start"
  /\ \E elapsed \in 0..(Total + 1), prefixes \in BOOLEAN, goal \in BOOLEAN :
       common' = [elapsed |-> elapsed, within |-> elapsed <= CommonLimit,
                  prefixes |-> prefixes, goal |-> goal]
  /\ UNCHANGED <<block, left, record, corpora, archive, report>>

----------------------------------------------------------------------------
(* One arm *)

NewRecord ==
  [execution |-> "pending", lineage |-> "pending", goal |-> FALSE, valid |-> FALSE,
   augmentation |-> IF Arm = "native_resume" THEN "not_applicable" ELSE "pending",
   warm |-> common.goal, accepted |-> FALSE, late |-> FALSE, native |-> <<>>, files |-> {}]

\* Fault: the arms of a block share one corpus directory.
StartInSharedCorpus ==
  /\ phase = "arm" /\ pc = "start" /\ common.elapsed < Total
  /\ pc' = "prefix_pool" /\ left' = Total - common.elapsed /\ record' = NewRecord
  /\ corpora' = [k \in DOMAIN corpora \union {Key} |->
                   UNION {corpora[j] : j \in {i \in DOMAIN corpora : i[1] = block}}]
  /\ UNCHANGED <<phase, block, turn, common, archive, report>>

\* The corpus is copied; the common work is charged to the arm's own ledger.
Start ==
  /\ phase = "arm" /\ pc = "start" /\ common.elapsed < Total
  /\ pc' = "prefix_pool" /\ left' = Total - common.elapsed /\ record' = NewRecord
  /\ corpora' = [k \in DOMAIN corpora \union {Key} |-> IF k = Key THEN {} ELSE corpora[k]]
  /\ UNCHANGED <<phase, block, turn, common, archive, report>>

\* The ledger refuses a charge of the whole budget before anything is caught; so
\* does a copy that fails.
StartFails ==
  /\ phase = "arm" /\ pc = "start" /\ phase' = "aborted"
  /\ UNCHANGED <<block, turn, common, pc, left, record, corpora, archive, report>>

\* What the exception handlers of run_arm make of it.
Raise(status) ==
  /\ record' = [record EXCEPT !.execution = status] /\ pc' = "finally"

Refused(stage) ==
  /\ pc = stage /\ left <= 0 /\ Raise("campaign_deadline")
  /\ UNCHANGED <<here, left>>

\* A stage that takes d units and may end after the deadline.
Spend(d) == left' = left - d
Late(d) == record.late \/ left - d < 0

PrefixPool ==
  /\ pc = "prefix_pool" /\ left > 0
  /\ \E d \in 0..1 : Spend(d) /\ record' = [record EXCEPT !.late = Late(d)]
  /\ pc' = "augmentation"
  /\ UNCHANGED here

SkipAugmentation ==
  /\ pc = "augmentation" /\ (Arm = "native_resume" \/ ~common.prefixes)
  /\ record' = IF Arm = "native_resume" THEN record
               ELSE [record EXCEPT !.augmentation = "no_eligible_prefix"]
  /\ pc' = "native"
  /\ UNCHANGED <<here, left>>

Augments == pc = "augmentation" /\ Arm # "native_resume" /\ common.prefixes

NoTimeToAugment ==
  /\ Augments /\ left <= Reserve /\ Raise("campaign_deadline")
  /\ UNCHANGED <<here, left>>

\* A tool fails, the evidence disagrees, or a tool runs out of time: unlike a
\* study the benchmark makes no result of its own of that.
AugmentationRaises ==
  /\ Augments /\ left > Reserve
  /\ \E status \in {"tool_error", "evidence_error"}, d \in 0..(left + 1) :
       /\ Spend(d)
       /\ record' = [record EXCEPT !.execution = status, !.late = Late(d)]
       /\ pc' = "finally"
  /\ UNCHANGED here

\* The result is saved, accepted seeds are copied into the arm's corpus.
Augment ==
  /\ Augments /\ left > Reserve /\ pc' = "native"
  /\ \E status \in NegativeResults \union {"completed"}, d \in 0..(left + 1) :
       /\ Spend(d)
       /\ record' = [record EXCEPT !.augmentation = status, !.late = Late(d),
                       !.accepted = status = "completed", !.files = @ \union {"augmentation"}]
       /\ corpora' = IF status = "completed"
                     THEN [corpora EXCEPT ![Key] = @ \union {Arm}] ELSE corpora
  /\ UNCHANGED <<phase, block, turn, common, archive, report>>

NoTimeForNative ==
  /\ pc = "native" /\ left > 0 /\ left <= Margin /\ Raise("campaign_deadline")
  /\ UNCHANGED <<here, left>>

\* campaign() raises; the adapter may have left its report or not.
NativeRaises ==
  /\ pc = "native" /\ left > Margin
  /\ \E status \in {"tool_error", "evidence_error"}, left_report \in {{}, {"native"}} :
       record' = [record EXCEPT !.execution = status, !.files = @ \union left_report]
  /\ pc' = "finally"
  /\ UNCHANGED <<here, left>>

\* Imports are replayed first, all of them before anything is generated.  An
\* accepted seed reaches the goal when it is replayed; so does the sequence that
\* reached it in the warmup, if the corpus kept it.
Native ==
  /\ pc = "native" /\ left > Margin /\ pc' = "verify"
  /\ \E d \in 0..(left + 1), replayed \in BOOLEAN, continued \in BOOLEAN,
        resolved \in BOOLEAN, found \in BOOLEAN, again \in {FALSE, common.goal} :
       /\ continued => replayed
       /\ found => continued
       /\ Spend(d)
       /\ record' = [record EXCEPT !.late = Late(d), !.files = @ \union {"native"},
            !.native = <<[continued |-> continued, resolved |-> resolved,
                          import |-> replayed /\ (corpora[Key] # {} \/ again),
                          continuation |-> found]>>]
  /\ UNCHANGED here

LineageOk == record.native[1].continued /\ record.native[1].resolved

\* Fault: an arm whose lineage is not verified is valid.
VerifyWhateverTheLineage ==
  /\ pc = "verify" /\ pc' = "finally"
  /\ record' = [record EXCEPT
       !.lineage = IF LineageOk THEN "verified" ELSE "unverified",
       !.files = @ \union {"metrics"},
       !.goal = common.goal \/ record.native[1].import \/ record.native[1].continuation,
       !.execution = "completed", !.valid = common.within /\ ~record.late]
  /\ UNCHANGED <<here, left>>

\* Lineage, metrics and the validity of the arm.
Verify ==
  /\ pc = "verify" /\ pc' = "finally"
  /\ record' = [record EXCEPT
       !.lineage = IF LineageOk THEN "verified" ELSE "unverified",
       !.files = @ \union {"metrics"},
       !.goal = common.goal \/ record.native[1].import \/ record.native[1].continuation,
       !.execution = "completed", !.valid = common.within /\ LineageOk /\ ~record.late]
  /\ UNCHANGED <<here, left>>

\* A state outside its bounds: the metrics raise, nothing is saved.
MetricsRaise ==
  /\ pc = "verify" /\ pc' = "finally"
  /\ record' = [record EXCEPT !.lineage = IF LineageOk THEN "verified" ELSE "unverified",
                              !.execution = "tool_error"]
  /\ UNCHANGED <<here, left>>

\* The record is finalized and saved, the next arm or block has its turn.
Finally ==
  /\ pc = "finally"
  /\ archive' = [k \in DOMAIN archive \union {Key} |-> IF k = Key THEN record ELSE archive[k]]
  /\ record' = <<>> /\ left' = 0
  /\ IF turn < Len(Order[block])
     THEN phase' = "arm" /\ turn' = turn + 1 /\ pc' = "start" /\ UNCHANGED <<block, common>>
     ELSE /\ turn' = 1 /\ pc' = "none" /\ common' = <<>>
          /\ IF block < Len(Blocks) THEN phase' = "common" /\ block' = block + 1
             ELSE phase' = "report" /\ UNCHANGED block
  /\ UNCHANGED <<corpora, report>>

----------------------------------------------------------------------------
(* The report *)

AllKeys == UNION {{<<b, Order[b][i]>> : i \in DOMAIN Order[b]} : b \in DOMAIN Order}

\* A row reads the native report and the metrics of every record it finds.
Readable(r) == {"native", "metrics"} \subseteq r.files

\* Fault: goals of the continuation are left out.
RowOfImports(r) ==
  [valid |-> r.valid, goal |-> r.goal,
   censored |-> ~(r.warm \/ r.native[1].import)]

\* The goal events of a row: of the warmup, the native campaign and, as an upper
\* bound, the augmentation.  Only a row without any is censored.
Row(r) ==
  [valid |-> r.valid, goal |-> r.goal,
   censored |-> ~(r.warm \/ r.native[1].import \/ r.native[1].continuation \/ r.accepted)]

\* The chart needs a group for every arm; the summary is written before it.
Report ==
  /\ phase \in {"report", "aborted"} /\ phase' = "ended"
  /\ report' =
       IF \E k \in DOMAIN archive : ~Readable(archive[k]) THEN <<[status |-> "missing evidence", rows |-> <<>>]>>
       ELSE <<[status |-> IF DOMAIN archive = AllKeys THEN "written" ELSE "missing groups",
               rows |-> [k \in DOMAIN archive |-> Row(archive[k])]]>>
  /\ UNCHANGED <<block, turn, common, pc, left, record, corpora, archive>>

Running ==
  \/ Start \/ StartFails
  \/ \E stage \in {"prefix_pool", "native"} : Refused(stage)
  \/ PrefixPool \/ SkipAugmentation \/ NoTimeToAugment \/ AugmentationRaises \/ Augment
  \/ NoTimeForNative \/ NativeRaises \/ Native \/ Verify \/ MetricsRaise \/ Finally

Next == CommonFails \/ PrepareCommon \/ (phase = "arm" /\ Running) \/ Report
Spec == Init /\ [][Next]_vars

----------------------------------------------------------------------------
(* Properties *)

Rows == IF report = <<>> THEN <<>> ELSE report[1].rows

\* A valid row was either a hit or is censored, never both and never neither: a
\* goal only the augmentation confirmed is reached natively in a verified arm.
ValidRowsHitOrCensored ==
  \A k \in DOMAIN Rows : Rows[k].valid => (Rows[k].censored <=> ~Rows[k].goal)

\* The seeds one arm accepted never reach the corpus of another.
SeedsStayInTheirArm == \A k \in DOMAIN corpora : corpora[k] \subseteq {k[2]}

\* A valid arm ran its native campaign on all it imported, within the budget, and
\* after common work that kept its limit; what augmentation it did is settled.
ValidRanTheProtocol ==
  \A k \in DOMAIN archive : archive[k].valid =>
    /\ archive[k].execution = "completed" /\ archive[k].lineage = "verified" /\ ~archive[k].late
    /\ archive[k].accepted => archive[k].native[1].import
    /\ archive[k].augmentation # "pending"
    /\ k[2] = "native_resume" <=> archive[k].augmentation = "not_applicable"
=============================================================================
