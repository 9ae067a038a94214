------------------------------ MODULE StudyAudit ------------------------------
(***************************************************************************)
(* The evidence of a study slot is read twice.  The runner validates what    *)
(* the native campaign left, takes out what came after the deadline and      *)
(* stores metrics (study_runner.py, metrics.py).  The audit (study_audit.py) *)
(* shares no code with it: it decodes the archived stream in one pass and    *)
(* must come to the same metrics before the slot counts.                     *)
(*                                                                         *)
(* Between the two a file of the archive may be replaced by one of another   *)
(* attempt.  A sequence of calls stands for itself and for its hashes; what  *)
(* the target shows after a call is a function of the calls made so far.     *)
(***************************************************************************)
EXTENDS CompactStream, Integers

CONSTANTS
  Calls,      \* calls of the target
  Plans,      \* sequences the fuzzer may execute
  Warmups,    \* what the common warmup may have executed: sequences of plans
  Seeds,      \* what the augmentation may have accepted: sets of plans
  Endings,    \* how one that accepted nothing may have ended
  Budget,     \* total_budget_seconds
  MaxRecords  \* bound: sequences of the native campaign

\* Statuses of an augmentation without seeds, in a slot that went on.
Empty == {"not_applicable", "no_eligible_prefix", "timeout", "invalid_model", "replay_mismatch",
          "no_candidate"}

AuditAssumption ==
  /\ Plans \subseteq Seq(Calls) /\ \A p \in Plans : Len(p) \in 1..4
  /\ Warmups \subseteq Seq(Plans) /\ \A s \in Seeds : s \subseteq Plans
  /\ Endings \subseteq Empty /\ "not_applicable" \in Endings
  /\ Budget \in Nat /\ MaxRecords \in Nat

VARIABLES
  phase,    \* "setup", "search", "stopped", "ended", "audited"
  now,      \* the slot's clock
  warmup,   \* complete sequences of the common warmup
  accepted, \* seeds the augmentation accepted
  augmentation, \* how it ended
  pending,  \* imports the fuzzer has still to replay
  known,    \* prefixes it executed
  started,  \* search_started
  stream,   \* events written
  native,   \* what campaign() left: stop reason, end of the stage, file, metadata
  record,   \* the record of the slot with its metrics
  damaged,  \* a file of the archive was replaced
  verdict   \* of the audit

vars == <<phase, now, warmup, accepted, augmentation, pending, known, started, stream, native,
          record, damaged, verdict>>
None == <<>>

----------------------------------------------------------------------------
(* The target, as the adapter observes it *)

StateOf(prefix) == ToSet(prefix)
GoalAt(prefix) == ToSet(prefix) = Calls
Marker(prefix) == Last(prefix)
Steps(e) == PrefixReferences(e.calls)

\* An augmentation starts from a warmup sequence that ends without the goal.
Eligible == \E i \in DOMAIN warmup : ~GoalAt(warmup[i])

Init ==
  /\ phase = "setup" /\ now = 0
  /\ warmup \in Warmups
  /\ \/ /\ accepted = {} /\ augmentation \in Endings
        /\ Eligible \/ augmentation \in {"not_applicable", "no_eligible_prefix"}
     \/ Eligible /\ accepted \in Seeds \ {{}} /\ augmentation = "completed"
  /\ pending = ToSet(warmup) \union accepted
  /\ known = {} /\ started = 0 /\ stream = <<>> /\ native = None /\ record = None
  /\ damaged = FALSE /\ verdict = None

----------------------------------------------------------------------------
(* The native campaign *)

Bound == Budget + 1
Later == {t \in {now, now + 1} : t <= Bound}

SearchStarts ==
  /\ phase = "setup" /\ phase' = "search"
  /\ now' \in Later /\ started' = now'
  /\ UNCHANGED
       <<warmup, accepted, augmentation, pending, known, stream, native, record, damaged, verdict>>

\* A completed sequence with its lineage, stamped when its hook runs.
Completed(calls, kind, parents) ==
  /\ now' \in Later
  /\ stream' = Append(stream, SequenceEvent(Len(stream) + 1, calls,
       [index |-> Len(stream) + 1, kind |-> kind, parents |-> parents, output |-> calls,
        executed |-> TRUE, resolved |-> kind = "mutation",
        different |-> kind = "mutation" /\ calls \notin parents, offset |-> now' - started]))
  /\ known' = known \union ToSet(PrefixReferences(calls))
  /\ UNCHANGED
       <<phase, warmup, accepted, augmentation, started, native, record, damaged, verdict>>

Replay ==
  /\ phase = "search" /\ pending # {}
  /\ \E calls \in pending : Completed(calls, "startup_replay", {}) /\ pending' = pending \ {calls}

Search ==
  /\ phase = "search" /\ pending = {} /\ Len(stream) < MaxRecords
  /\ \E calls \in Plans :
       \/ Completed(calls, "new_sequence", {})
       \/ \E p, q \in known : Completed(calls, "mutation", {p, q})
  /\ UNCHANGED pending

Left(events) == [events |-> Append(events, EofEvent(events)), whole |-> TRUE]

\* The search stops, between sequences or within one; the stream is closed.
SearchStops ==
  /\ phase = "search" /\ phase' = "stopped" /\ now' \in Later
  /\ \E cut \in {Front(p) : p \in Plans}, stop \in {"time_limit", "sequence_limit"} :
       LET events == IF cut = <<>> THEN stream
                     ELSE Append(stream, PartialEvent(Len(stream) + 1, cut))
       IN  native' = [stop |-> stop, ended |-> now', file |-> Left(events),
                      meta |-> Metadata(Left(events))]
  /\ UNCHANGED
       <<warmup, accepted, augmentation, pending, known, started, stream, record, damaged, verdict>>

----------------------------------------------------------------------------
(* The runner: projection and metrics *)

\* Complete sequences of a file, with the events they stand for.
CompleteOf(file) == Among(file.events, {e \in ToSet(file.events) : e.type = "sequence"})
Kind(e) == e.lineage[1].kind
Charged(e) == started + e.lineage[1].offset
IndicesOf(events) == [i \in DOMAIN events |-> events[i].index]
InTime(events) == {e \in ToSet(events) : Charged(e) <= Budget}
Late(events) == IndicesOf(Among(events, ToSet(events) \ InTime(events)))
OfKind(kinds, events) == Among(events, {e \in ToSet(events) : Kind(e) \in kinds})
Greatest(times, default) == IF times = {} THEN default ELSE CHOOSE t \in times : \A u \in times : u <= t

\* Fault: sequences completed after the deadline are reported and still counted.
ProjectedWithLate(file) ==
  LET all == CompleteOf(file)
  IN  [sequences |-> all, late |-> Late(all),
       observed |-> Greatest({Charged(all[i]) : i \in DOMAIN all}, started)]

Projected(file) ==
  LET all == CompleteOf(file)
      kept == Among(all, InTime(all))
  IN  [sequences |-> kept, late |-> Late(all),
       observed |-> Greatest({Charged(kept[i]) : i \in DOMAIN kept}, started)]

\* What a list of sequences visited.
Snapshot(sequences) ==
  LET prefixes == UNION {ToSet(Steps(sequences[i])) : i \in DOMAIN sequences}
      at == {x \in (DOMAIN sequences) \X (1..4) : x[2] <= Len(sequences[x[1]].calls)}
  IN  [ids |-> {sequences[i].calls : i \in DOMAIN sequences},
       states |-> {StateOf(p) : p \in prefixes},
       hits |-> [m \in {Marker(p) : p \in prefixes} |->
                  Cardinality({x \in at : sequences[x[1]].calls[x[2]] = m})],
       goal |-> \E p \in prefixes : GoalAt(p)]

SetDelta(base, addition) ==
  [base |-> Cardinality(base), segment |-> Cardinality(addition),
   new |-> addition \ base, union |-> Cardinality(base \union addition)]

SeedUse(events) ==
  LET bred == {i \in DOMAIN events : Kind(events[i]) = "mutation"}
      of(p, those) == Cardinality({i \in those : p \in events[i].lineage[1].parents})
  IN  [p \in UNION {events[i].lineage[1].parents : i \in bred} |->
         [selected |-> of(p, bred),
          different |-> of(p, {i \in bred : events[i].lineage[1].different}),
          executed |-> of(p, {i \in bred : events[i].lineage[1].executed})]]

Dimensions == {"ids", "states", "coverage"}
Items(snap, dimension) == IF dimension = "coverage" THEN DOMAIN snap.hits ELSE snap[dimension]

\* segmented_metrics: imports against the warmup, the continuation against both.
SegmentedMetrics(warm, events) ==
  LET w == Snapshot([i \in DOMAIN warm |-> [calls |-> warm[i]]])
      m == Snapshot(OfKind({"startup_replay"}, events))
      c == Snapshot(OfKind({"new_sequence", "mutation"}, events))
  IN  [warmup |-> w, import |-> m, continuation |-> c, uses |-> SeedUse(events),
       deltas |-> [d \in Dimensions |->
         [import |-> SetDelta(Items(w, d), Items(m, d)),
          continuation |-> SetDelta(Items(w, d) \union Items(m, d), Items(c, d)),
          total |-> SetDelta(Items(w, d), Items(m, d) \union Items(c, d))]]]

GoalReached(metrics) == metrics.warmup.goal \/ metrics.import.goal \/ metrics.continuation.goal

\* Stopped by the time, something was continued, every parent is resolved.
EvidenceValid ==
  LET all == CompleteOf(native.file)
  IN  /\ Accepted(native.file, native.meta) /\ native.stop = "time_limit"
      /\ \E i \in DOMAIN all : Kind(all[i]) # "startup_replay"
      /\ \A i \in DOMAIN all : Kind(all[i]) = "mutation" => all[i].lineage[1].resolved

\* The evidence stage ends at some time; the charged end is read later.
Validate ==
  /\ phase = "stopped" /\ phase' = "ended" /\ now' \in Later
  /\ \E ended \in now..now' :
       record' =
         IF ~EvidenceValid THEN [status |-> "evidence_error", valid |-> FALSE]
         ELSE LET p == Projected(native.file)
                  m == SegmentedMetrics(warmup, p.sequences)
              IN  [status |-> "completed", valid |-> native.ended <= Budget /\ ended <= Budget,
                   late |-> p.late, observed |-> p.observed, charged |-> now',
                   metrics |-> m, goal |-> GoalReached(m)]
  /\ UNCHANGED
       <<warmup, accepted, augmentation, pending, known, started, stream, native, damaged, verdict>>

----------------------------------------------------------------------------
(* The archive *)

Recounted(events) == LET body == Body(events) IN Left(body)

\* The stream and the report of an attempt that had one sequence less, or the
\* metrics of one, or a record with the other result, end up in the archive.
Damage ==
  /\ phase = "ended" /\ record.valid /\ ~damaged /\ damaged' = TRUE
  /\ \/ \E i \in DOMAIN stream :
          LET less == Recounted(RemoveAt(native.file.events, i))
          IN  native' \in {[native EXCEPT !.file = less],
                           [native EXCEPT !.file = less, !.meta = Metadata(less)]}
        /\ UNCHANGED record
     \/ /\ \/ \E i \in DOMAIN stream :
                record' = [record EXCEPT !.metrics = SegmentedMetrics(warmup, RemoveAt(stream, i))]
           \/ record' = [record EXCEPT !.goal = ~@]
        /\ UNCHANGED native
  /\ UNCHANGED
       <<phase, now, warmup, accepted, augmentation, pending, known, started, stream, verdict>>

----------------------------------------------------------------------------
(* The audit *)

Fresh == [ok |-> TRUE, seen |-> {}, known |-> {}, eof |-> <<>>, complete |-> <<>>,
          late |-> <<>>, partials |-> 0, first |-> <<>>]

ReferencesHold(e) ==
  /\ e.refs # <<>> /\ \A n \in DOMAIN e.refs : Len(e.refs[n]) = n
  /\ Cardinality(ToSet(e.refs)) = Len(e.refs)

StepsHold(e) == Len(e.calls) \in 1..4

LineageHolds(e, known_prefixes) ==
  LET l == e.lineage[1]
  IN  /\ l.index = e.index /\ l.executed
      /\ l.kind \in {"startup_replay", "new_sequence", "mutation"}
      /\ Last(e.refs) = l.output /\ Len(Last(e.refs)) = Len(e.calls)
      /\ l.kind = "mutation" =>
           /\ l.parents # {} /\ l.parents \subseteq known_prefixes
           /\ l.resolved /\ l.different = (l.output \notin l.parents)

\* One record of _read_compact.
ReadRecord(acc, e) ==
  LET fresh == [acc EXCEPT !.seen = @ \union {e.index}]
      charged == Charged(e)
      goal == \E n \in DOMAIN e.refs : GoalAt(e.refs[n])
      earlier == acc.first = <<>> \/ charged < acc.first[1].charged
  IN  CASE acc.eof # <<>> -> [acc EXCEPT !.ok = FALSE]
        [] acc.eof = <<>> /\ e.type = "eof" -> [acc EXCEPT !.eof = <<e>>]
        [] acc.eof = <<>> /\ e.type = "partial" ->
             [fresh EXCEPT !.ok = @ /\ e.index \notin acc.seen /\ ReferencesHold(e) /\ e.lineage = <<>>,
                           !.partials = @ + 1]
        [] acc.eof = <<>> /\ e.type = "sequence" ->
             [fresh EXCEPT
                !.ok = @ /\ e.index \notin acc.seen /\ ReferencesHold(e) /\ StepsHold(e)
                         /\ LineageHolds(e, acc.known),
                !.known = @ \union ToSet(e.refs),
                !.late = IF charged > Budget THEN Append(@, e.index) ELSE @,
                !.complete = IF charged > Budget THEN @ ELSE Append(@, e),
                !.first = IF charged <= Budget /\ goal /\ earlier
                          THEN <<[index |-> e.index, charged |-> charged, kind |-> Kind(e)]>> ELSE @]

ReadCompact(file) ==
  LET read[n \in 0..Len(file.events)] ==
        IF n = 0 THEN Fresh ELSE ReadRecord(read[n - 1], file.events[n])
  IN  read[Len(file.events)]

ReadAccepted(r, file, meta) ==
  /\ r.ok /\ meta.file = file /\ r.eof # <<>>
  /\ r.eof[1].sequences = Len(r.complete) + Len(r.late) /\ r.eof[1].partials = r.partials
  /\ meta.sequences = Len(r.complete) + Len(r.late) /\ meta.partials = r.partials

ObservationEnd(r) == Greatest({Charged(r.complete[i]) : i \in DOMAIN r.complete}, started)

Visited == [ids |-> {}, states |-> {}, hits |-> <<>>, goal |-> FALSE]

\* _snapshot visits the steps one by one.
VisitStep(snap, prefix) ==
  LET m == Marker(prefix)
  IN  [snap EXCEPT !.states = @ \union {StateOf(prefix)}, !.goal = @ \/ GoalAt(prefix),
                   !.hits = [x \in DOMAIN @ \union {m} |->
                               (IF x \in DOMAIN @ THEN @[x] ELSE 0) + (IF x = m THEN 1 ELSE 0)]]
VisitSteps(snap, calls) ==
  LET after[k \in 0..Len(calls)] ==
        IF k = 0 THEN [snap EXCEPT !.ids = @ \union {calls}]
        ELSE VisitStep(after[k - 1], PrefixReferences(calls)[k])
  IN  after[Len(calls)]

AuditSnapshot(sequences) ==
  LET visited[n \in 0..Len(sequences)] ==
        IF n = 0 THEN Visited ELSE VisitSteps(visited[n - 1], sequences[n])
  IN  visited[Len(sequences)]

AuditDelta(base, addition) ==
  [base |-> Cardinality(base), segment |-> Cardinality(addition),
   new |-> addition \ base, union |-> Cardinality(base \union addition)]

\* The parents of a mutation are counted one use more.
CountUse(use, l) ==
  [p \in DOMAIN use \union l.parents |->
     LET old == IF p \in DOMAIN use THEN use[p] ELSE [selected |-> 0, different |-> 0, executed |-> 0]
         add(flag) == IF p \in l.parents /\ flag THEN 1 ELSE 0
     IN  [selected |-> old.selected + add(TRUE), different |-> old.different + add(l.different),
          executed |-> old.executed + add(l.executed)]]

AuditUses(events) ==
  LET counted[n \in 0..Len(events)] ==
        IF n = 0 THEN <<>>
        ELSE IF Kind(events[n]) # "mutation" THEN counted[n - 1]
        ELSE CountUse(counted[n - 1], events[n].lineage[1])
  IN  counted[Len(events)]

AuditMetrics(r) ==
  LET of(kinds) == LET chosen == OfKind(kinds, r.complete)
                   IN  AuditSnapshot([i \in DOMAIN chosen |-> chosen[i].calls])
      s == [warmup |-> AuditSnapshot(warmup), import |-> of({"startup_replay"}),
            continuation |-> of({"new_sequence", "mutation"})]
      items(segment, d) == Items(s[segment], d)
  IN  [warmup |-> s.warmup, import |-> s.import, continuation |-> s.continuation,
       uses |-> AuditUses(r.complete),
       deltas |-> [d \in Dimensions |->
         [import |-> AuditDelta(items("warmup", d), items("import", d)),
          continuation |-> AuditDelta(items("warmup", d) \union items("import", d),
                                      items("continuation", d)),
          total |-> AuditDelta(items("warmup", d),
                               items("import", d) \union items("continuation", d))]]]

\* Fault: the stored metrics are taken for what they say.
SlotPassesOnItsMetrics ==
  LET r == ReadCompact(native.file)
  IN  /\ record.valid /\ started <= native.ended /\ native.ended <= record.charged
      /\ record.charged <= Budget /\ native.stop = "time_limit"
      /\ ReadAccepted(r, native.file, native.meta)
      /\ r.late = record.late /\ ObservationEnd(r) = record.observed
      /\ GoalReached(record.metrics) = record.goal

\* Fault: nothing but the accepted seeds may have been replayed at the start.
SlotPassesOnSeedsAlone ==
  LET r == ReadCompact(native.file)
  IN  /\ record.valid /\ started <= native.ended /\ native.ended <= record.charged
      /\ record.charged <= Budget /\ native.stop = "time_limit"
      /\ ReadAccepted(r, native.file, native.meta)
      /\ AuditMetrics(r) = record.metrics
      /\ GoalReached(AuditMetrics(r)) = record.goal
      /\ accepted = {r.complete[i].calls : i \in {j \in DOMAIN r.complete :
                                               Kind(r.complete[j]) = "startup_replay"}}

\* What audit_study demands of a slot.
SlotPasses ==
  LET r == ReadCompact(native.file)
  IN  /\ record.valid /\ started <= native.ended /\ native.ended <= record.charged
      /\ record.charged <= Budget /\ native.stop = "time_limit"
      /\ ReadAccepted(r, native.file, native.meta)
      /\ r.late = record.late /\ ObservationEnd(r) = record.observed
      /\ AuditMetrics(r) = record.metrics
      /\ GoalReached(AuditMetrics(r)) = record.goal
      /\ accepted \subseteq {r.complete[i].calls : i \in {j \in DOMAIN r.complete :
                                                      Kind(r.complete[j]) = "startup_replay"}}

\* Fault: an accepted seed explains the slot before its native evidence does.
MissReasonBySeed(metrics) ==
  CASE metrics.warmup.goal -> "warmup_goal_reached"
    [] ~metrics.warmup.goal /\ accepted # {} -> "verified_seed_but_native_goal_not_observed"
    [] ~metrics.warmup.goal /\ accepted = {} /\ GoalReached(metrics) -> "native_continuation_goal_reached"
    [] OTHER -> "native_continuation_no_goal"

\* Why the slot hit or missed its goal, the native evidence first.
MissReason(metrics) ==
  IF metrics.warmup.goal THEN "warmup_goal_reached"
  ELSE IF metrics.import.goal THEN "native_import_goal_reached"
  ELSE IF metrics.continuation.goal THEN "native_continuation_goal_reached"
  ELSE IF augmentation \in Empty \ {"not_applicable", "no_candidate"} THEN augmentation
  ELSE IF accepted # {} THEN "verified_seed_but_native_goal_not_observed"
  ELSE IF augmentation = "no_candidate" THEN "no_candidate"
  ELSE "native_continuation_no_goal"

Audit ==
  /\ phase = "ended" /\ phase' = "audited"
  /\ verdict' = IF record.valid /\ SlotPasses
                THEN LET r == ReadCompact(native.file)
                         m == AuditMetrics(r)
                     IN  <<[goal |-> record.goal, reason |-> MissReason(m), first |-> r.first,
                            completed |-> Len(r.complete), metrics |-> m, end |-> ObservationEnd(r)]>>
                ELSE None
  /\ UNCHANGED
       <<now, warmup, accepted, augmentation, pending, known, started, stream, native, record, damaged>>

Next == SearchStarts \/ Replay \/ Search \/ SearchStops \/ Validate \/ Damage \/ Audit
Spec == Init /\ [][Next]_vars

----------------------------------------------------------------------------
(* Properties *)

HasRow == phase = "audited" /\ verdict # None
Row == verdict[1]

\* What the runner completed, the audit's own reader decodes to the same late
\* sequences, the same end of the observation and the same metrics, although one
\* projects a decoded report and the other makes a single pass.
ReadersAgree ==
  phase = "ended" /\ ~damaged /\ record.status = "completed" =>
    LET r == ReadCompact(native.file)
    IN  /\ ReadAccepted(r, native.file, native.meta)
        /\ r.late = record.late /\ ObservationEnd(r) = record.observed
        /\ AuditMetrics(r) = record.metrics

\* A valid slot whose charge stayed in the budget passes the audit.
ValidPassesAudit ==
  phase = "audited" /\ ~damaged /\ record.valid /\ record.charged <= Budget => HasRow

\* A row of the audit tells what the campaign executed, whichever file of the
\* archive was replaced since.
RowIsOriginal ==
  HasRow =>
    /\ Row.completed = Len(stream)
    /\ Row.metrics = SegmentedMetrics(warmup, stream)
    /\ Row.goal = GoalReached(SegmentedMetrics(warmup, stream))

\* The row's goal, its reason and its first native goal agree with each other and
\* with the observation they are censored by; a slot with seeds that missed its
\* goal is put down to the fuzzer, one without never is.
RowExplainsGoal ==
  HasRow =>
    /\ Row.goal <=> Row.reason \in {"warmup_goal_reached", "native_import_goal_reached",
                                            "native_continuation_goal_reached"}
    /\ Row.first # <<>> => Row.goal /\ Row.first[1].charged <= Row.end
    /\ Row.reason = "native_import_goal_reached" => Row.first # <<>>
    /\ Row.reason = "native_continuation_goal_reached" =>
         Row.first # <<>> /\ Row.first[1].kind # "startup_replay"
    /\ Row.reason = "verified_seed_but_native_goal_not_observed" <=> ~Row.goal /\ accepted # {}
=============================================================================
