----------------------------- MODULE Stage5Audit -----------------------------
(***************************************************************************)
(* A slot of Stage 5 and its audit.  A slot asks its queries, imports the    *)
(* one confirmed candidate and continues natively until its time is over     *)
(* (stage5_study.py); the driver calls it valid from its stages alone, and    *)
(* reads what it is charged after the last of them.  The audit                *)
(* (stage5_audit.py) goes back to models, replay logs and native events, and  *)
(* stops at the first of them that does not fit.  In between one record may   *)
(* be overwritten (Damage); the prefix pool and the warmup are not.           *)
(*                                                                         *)
(* What a target shows after each call is reduced to whether the property    *)
(* holds there; a sequence stands for its calls and for its file.  How a slot *)
(* fails otherwise is in Stage5Slot: it is not valid and not audited.         *)
(***************************************************************************)
EXTENDS Integers, Functions, Subsequences

CONSTANTS
  Holds,         \* sequences, and whether the property holds after each call
  RepairedHolds, \* the same calls on the repaired contract
  Proposals,     \* sequences a query may propose; the prefix is their front part
  PrefixLength,
  Warmups,       \* what the warmup may have executed: sequences of sequences
  Generated,     \* what the fuzzer may generate
  Total,         \* total_budget_seconds
  EvidenceReserve, \* what the native stage leaves for the evidence
  CleanupTolerance, \* cleanup_tolerance_seconds
  MaxQueries, MaxRecords  \* bounds: queries asked, sequences continued with

Stage5AuditAssumption ==
  /\ PrefixLength \in Nat \ {0}
  /\ {Total, EvidenceReserve, CleanupTolerance, MaxQueries, MaxRecords} \subseteq Nat
  /\ \A s \in DOMAIN Holds : Holds[s] \in Seq(BOOLEAN)
  /\ Proposals \subseteq DOMAIN Holds /\ Generated \subseteq DOMAIN Holds
  /\ Warmups \subseteq Seq(DOMAIN Holds)
  /\ \A c \in Proposals : \* a prefix that was observed without a violation, one or two calls
       /\ Len(Holds[c]) \in PrefixLength + 1..PrefixLength + 2
       /\ RepairedHolds[c] \in Seq(BOOLEAN) /\ Len(RepairedHolds[c]) = Len(Holds[c])
       /\ \A n \in 1..PrefixLength : Holds[c][n] /\ RepairedHolds[c][n]

VARIABLES
  phase,   \* "symbolic", "native", "stopped", "ended", "audited"
  now,     \* the slot's clock; the common work took the first unit
  warmup,  \* the sequences of the warmup
  queries, \* the query records, with the files of their candidate
  slot,    \* slot.json and the timing of the native report; "launched", when the
           \* native process began, is on no clock of the slot and in no record
  pending, \* sequences of the corpus not replayed yet
  stream,  \* the native events
  damaged, \* a file was overwritten
  verdict  \* the row of the audit, <<>> when it refused

vars == <<phase, now, warmup, queries, slot, pending, stream, damaged, verdict>>

Later == {t \in {now, now + 1} : t <= Total + 1}
\* The first call after which the property does not hold, 0 when it always does.
First(holds) ==
  IF \A n \in DOMAIN holds : holds[n] THEN 0
  ELSE CHOOSE n \in DOMAIN holds : ~holds[n] /\ \A m \in DOMAIN holds : ~holds[m] => n <= m
Suffix(holds) == SubSeq(holds, PrefixLength + 1, Len(holds))
Violating(sequences) == \E i \in DOMAIN sequences : First(Holds[sequences[i]]) # 0

----------------------------------------------------------------------------
(* The slot *)

Init ==
  /\ phase = "symbolic" /\ now = 1 /\ warmup \in Warmups /\ queries = <<>>
  /\ slot = [status |-> "running", valid |-> FALSE, decisions |-> <<>>, refs |-> <<>>,
             confirmations |-> <<>>, augmented |-> 0, native |-> 0, launched |-> 0,
             search |-> 0, stopped |-> 0, charged |-> 0]
  /\ pending = Range(warmup) /\ stream = <<>> /\ damaged = FALSE /\ verdict = <<>>

Result(c) ==
  IF First(Holds[c]) = 0 THEN "candidate_rejected"
  ELSE IF First(RepairedHolds[c]) # 0 THEN "repaired_regression_failure" ELSE "confirmed"

Confirmation(c) ==
  [query |-> c, first |-> First(Holds[c]), two |-> First(Holds[c]) = PrefixLength + 2, imported |-> c]

\* A query with its candidate, everything about it recorded; a confirmed one
\* joins the corpus and ends the queries, a bad one ends the slot.
Query(c) ==
  /\ phase = "symbolic" /\ ~Violating(warmup) /\ Len(queries) < MaxQueries
  /\ slot.confirmations = <<>> /\ c \notin Range(slot.decisions) /\ now' \in Later
  /\ queries' = Append(queries,
       [query |-> c, status |-> Result(c), assigned |-> c, model |-> c,
        foundry |-> Suffix(Holds[c]), native |-> [calls |-> c, holds |-> Holds[c]],
        repaired_foundry |-> Suffix(RepairedHolds[c]),
        repaired_native |-> [calls |-> c, holds |-> RepairedHolds[c]]])
  /\ LET asked == [slot EXCEPT
           !.decisions = Append(@, c),
           !.refs = Append(@, [query |-> c, status |-> Result(c),
                               length |-> Len(Holds[c]) - PrefixLength])]
     IN  CASE Result(c) = "confirmed" ->
                /\ slot' = [asked EXCEPT !.confirmations = <<Confirmation(c)>>]
                /\ pending' = pending \union {c} /\ UNCHANGED phase
           [] Result(c) = "candidate_rejected" -> slot' = asked /\ UNCHANGED <<pending, phase>>
           [] OTHER -> /\ slot' = [asked EXCEPT !.status = Result(c)]
                       /\ phase' = "ended" /\ UNCHANGED pending
  /\ UNCHANGED <<warmup, stream, damaged, verdict>>

\* The native stage opens unless the budget is used up, and starts the process
\* unless nothing remains beside the reserve; the report counts from that start.
NativeStarts ==
  /\ phase = "symbolic" /\ now' \in Later
  /\ \E opened, asked, launched \in now..now' :
       /\ opened <= asked /\ asked <= launched
       /\ IF Total - asked <= EvidenceReserve
          THEN /\ phase' = "ended"
               /\ slot' = [slot EXCEPT !.status = "campaign_deadline", !.augmented = now,
                                       !.charged = now']
          ELSE /\ phase' = "native"
               /\ slot' = [slot EXCEPT !.augmented = now, !.native = opened,
                                       !.launched = launched, !.search = now' - launched]
  /\ UNCHANGED <<warmup, queries, pending, stream, damaged, verdict>>

\* The corpus is replayed first, then sequences are generated.
Execute ==
  /\ phase = "native" /\ now' \in Later
  /\ \E s \in (IF pending # {} THEN pending ELSE Generated) :
       /\ pending # {} \/ Len(stream) < MaxRecords
       /\ stream' = Append(stream, [calls |-> s, holds |-> Holds[s], goal |-> First(Holds[s]) # 0,
                                    kind |-> IF pending # {} THEN "startup_replay" ELSE "mutation",
                                    offset |-> now' - slot.launched - slot.search])
       /\ pending' = pending \ {s}
  /\ UNCHANGED <<phase, warmup, queries, slot, damaged, verdict>>

\* The search ends at any time, by its timer or its finding.
NativeStops ==
  /\ phase = "native" /\ phase' = "stopped" /\ now' \in Later
  /\ slot' = [slot EXCEPT !.stopped = now' - slot.launched]
  /\ UNCHANGED <<warmup, queries, pending, stream, damaged, verdict>>

\* The evidence is gathered in the last stage, refused once the budget is used up.
\* A slot whose last stage ended in time is valid; the charge is read after that.
SlotEnds ==
  /\ phase = "stopped" /\ phase' = "ended" /\ now' \in Later
  /\ \E opened, ended \in now..now' :
       /\ opened <= ended
       /\ slot' = IF opened >= Total
                  THEN [slot EXCEPT !.status = "campaign_deadline", !.charged = now']
                  ELSE [slot EXCEPT !.status = "completed", !.valid = ended <= Total,
                                    !.charged = now']
  /\ UNCHANGED <<warmup, queries, pending, stream, damaged, verdict>>

Results == {"candidate_rejected", "repaired_regression_failure", "confirmed"}

\* What a query has on disk: its record, the model and the four replays of its candidate.
QueryDamage(i, c) ==
  LET length == Len(Suffix(Holds[queries[i].query]))
      logs == [1..length -> BOOLEAN]
      runs == {[calls |-> c, holds |-> [n \in 1..PrefixLength |-> TRUE] \o l] : l \in logs}
  IN  \/ \E s \in Results, d \in Proposals :
           queries' = [queries EXCEPT ![i].query = d, ![i].status = s, ![i].assigned = c]
      \/ queries' = [queries EXCEPT ![i].model = c]
      \/ \E f \in {"foundry", "repaired_foundry"}, l \in logs :
           queries' = [queries EXCEPT ![i][f] = l]
      \/ \E f \in {"native", "repaired_native"}, r \in runs :
           queries' = [queries EXCEPT ![i][f] = r]

\* What slot.json says of a query, of the confirmation and of its times.
SlotDamage ==
  \/ \E i \in DOMAIN slot.refs, c \in Proposals, s \in Results, n \in 1..2 :
       slot' = [slot EXCEPT !.refs[i] = [query |-> c, status |-> s, length |-> n]]
  \/ \E i \in DOMAIN slot.decisions, c \in Proposals : slot' = [slot EXCEPT !.decisions[i] = c]
  \/ \E c, d \in Proposals, n \in 1..PrefixLength + 2 :
       slot' = [slot EXCEPT !.confirmations =
                  <<[query |-> c, first |-> n, two |-> n = PrefixLength + 2, imported |-> d]>>]
  \/ slot' = [slot EXCEPT !.confirmations = <<>>]
  \/ \E f \in {"augmented", "native", "search", "stopped", "charged"}, t \in 0..Total + 1 :
       slot' = [slot EXCEPT ![f] = t]

\* One record of the archive is overwritten.
Damage ==
  /\ phase = "ended" /\ slot.valid /\ ~damaged /\ damaged' = TRUE
  /\ \/ /\ \E i \in DOMAIN queries, c \in Proposals : QueryDamage(i, c)
        /\ UNCHANGED <<slot, stream>>
     \/ SlotDamage /\ UNCHANGED <<queries, stream>>
     \/ /\ \E i \in DOMAIN stream, s \in DOMAIN Holds :
             stream' = [stream EXCEPT ![i].calls = s, ![i].holds = Holds[s]]
        /\ UNCHANGED <<queries, slot>>
  /\ UNCHANGED <<phase, now, warmup, pending, verdict>>

----------------------------------------------------------------------------
(* The audit *)

CandidateHolds(q) ==
  /\ q.native.calls = q.assigned /\ First(q.native.holds) # 0
  /\ q.foundry = Suffix(q.native.holds)
  /\ q.repaired_native.calls = q.assigned /\ First(q.repaired_native.holds) = 0
  /\ q.repaired_foundry = Suffix(q.repaired_native.holds)

QueriesHold ==
  /\ slot.decisions = [i \in DOMAIN slot.refs |-> slot.refs[i].query]
  /\ Len(queries) = Len(slot.refs)
  /\ \A i \in DOMAIN queries :
       /\ queries[i].status = slot.refs[i].status /\ queries[i].query = slot.refs[i].query
       /\ Len(Suffix(Holds[queries[i].query])) = slot.refs[i].length
       /\ queries[i].model = queries[i].assigned
       /\ queries[i].status = "confirmed" => CandidateHolds(queries[i])

\* Fault: what was confirmed is read from the slot.
RebuiltFromSlot ==
  [i \in DOMAIN slot.confirmations |->
     [f \in {"query", "first", "two"} |-> slot.confirmations[i][f]]]

\* What the confirmed queries say by themselves.
Rebuilt ==
  LET chosen == Among(queries, {q \in Range(queries) : q.status = "confirmed"})
  IN  [i \in DOMAIN chosen |->
         LET first == First(chosen[i].native.holds)
         IN  [query |-> chosen[i].query, first |-> first, two |-> first = PrefixLength + 2]]

\* Fault: an import counts as replayed whenever its calls were executed.
ReplaysAtAll(s) == Among(stream, {e \in Range(stream) : e.calls = s})

ReplaysOf(s) == Among(stream, {e \in Range(stream) : e.calls = s /\ e.kind = "startup_replay"})

ConfirmationsHold ==
  /\ Len(Rebuilt) = Len(slot.confirmations)
  /\ \A i \in DOMAIN Rebuilt :
       LET c == slot.confirmations[i]
       IN  /\ [query |-> c.query, first |-> c.first, two |-> c.two] = Rebuilt[i]
           /\ Len(ReplaysOf(c.imported)) = 1
           /\ First(ReplaysOf(c.imported)[1].holds) = c.first

\* Fault: native events are timed from the start of their own process.
NativeTimeUnshifted(e) == e.offset

NativeTime(e) == slot.native + slot.search + e.offset
ObservationEnd == slot.native + slot.stopped

\* All findings, <<time, stage, call>>; the warmup is charged before anything else.
Hits ==
  {<<0, "warmup", First(Holds[warmup[i]])>> : i \in {j \in DOMAIN warmup : First(Holds[warmup[j]]) # 0}}
  \union {<<slot.augmented, "augmentation", Rebuilt[1].first>> : i \in {j \in DOMAIN Rebuilt : j = 1}}
  \union {<<NativeTime(stream[i]),
            IF stream[i].kind = "startup_replay" THEN "native_import" ELSE "native_continuation",
            First(stream[i].holds)>> : i \in {j \in DOMAIN stream : First(stream[j].holds) # 0}}

\* min(hits): by time, then by the name of the stage.
StageRank == [augmentation |-> 1, native_continuation |-> 2, native_import |-> 3, warmup |-> 4]
FirstHit ==
  IF Hits = {} THEN <<>>
  ELSE <<CHOOSE h \in Hits : \A g \in Hits :
           h[1] < g[1] \/ (h[1] = g[1] /\ StageRank[h[2]] <= StageRank[g[2]])>>

SlotPasses ==
  /\ slot.valid /\ slot.status = "completed" /\ slot.charged <= Total
  /\ QueriesHold /\ ConfirmationsHold
  /\ \A i \in DOMAIN stream : stream[i].goal = (First(stream[i].holds) # 0)
  /\ ObservationEnd <= Total + CleanupTolerance
  /\ FirstHit # <<>> => FirstHit[1][1] <= Total

Audit ==
  /\ phase = "ended" /\ slot.valid /\ phase' = "audited"
  /\ verdict' = IF SlotPasses
                THEN <<[first |-> FirstHit, confirmed |-> Rebuilt,
                        end |-> ObservationEnd, censored |-> FirstHit = <<>>]>> ELSE <<>>
  /\ UNCHANGED <<now, warmup, queries, slot, pending, stream, damaged>>

Next ==
  \/ \E c \in Proposals : Query(c)
  \/ NativeStarts \/ Execute \/ NativeStops \/ SlotEnds \/ Damage \/ Audit

Spec == Init /\ [][Next]_vars

----------------------------------------------------------------------------
(* Properties *)

HasRow == phase = "audited" /\ verdict # <<>>
Row == verdict[1]

\* A confirmation in a row is real whichever record was overwritten: the proposed
\* calls violate the property on the flawed contract, at the call the row names,
\* and keep it on the repaired one.
ConfirmedIsReal ==
  HasRow => \A i \in DOMAIN Row.confirmed :
    LET c == Row.confirmed[i]
    IN  /\ c.first = First(Holds[c.query]) /\ First(RepairedHolds[c.query]) = 0
        /\ c.two <=> Suffix(Holds[c.query])[1]

\* A valid slot with its files in order passes, if its import was replayed and its
\* charge, read after the stage whose end made it valid, is still in the budget.
AuditedOnceReplayed ==
  /\ phase = "audited" /\ ~damaged /\ slot.charged <= Total
  /\ {slot.confirmations[i].imported : i \in DOMAIN slot.confirmations} \cap pending = {}
  => HasRow

\* The first finding is attributed to what caused it: a warmup finding comes
\* before everything, the confirmation before its own import, and a finding of
\* the continuation is the first only when there was nothing to import.  It was
\* made before the end of the observation, on the same clock.
FirstHitIsCause ==
  HasRow /\ ~damaged =>
    LET stages == {Row.first[i][2] : i \in DOMAIN Row.first}
    IN  /\ Violating(warmup) => stages = {"warmup"}
        /\ ~Violating(warmup) /\ Row.confirmed # <<>> => stages = {"augmentation"}
        /\ "native_import" \notin stages
        /\ Row.censored => ~Violating(warmup) /\ ~\E i \in DOMAIN stream : stream[i].goal
        /\ \A i \in DOMAIN Row.first : Row.first[i][1] <= Row.end
=============================================================================
