---------------------------- MODULE CompactStream ----------------------------
(***************************************************************************)
(* The event stream of a native campaign: one record for every completed    *)
(* sequence, one for a sequence that was cut short, and a last record with   *)
(* the counts.  compact.go writes it, compact.py reads it and refuses        *)
(* whatever does not add up.  A sequence of calls stands for itself wherever *)
(* the code uses a hash of it.                                              *)
(***************************************************************************)
EXTENDS Naturals, Sequences, FiniteSets, SequencesExt, Subsequences

\* Every non-empty prefix of an executed sequence, shortest first.
PrefixReferences(calls) == [n \in 1..Len(calls) |-> SubSeq(calls, 1, n)]

SequenceEvent(index, calls, lineage) ==
  [type |-> "sequence", index |-> index, calls |-> calls, complete |-> TRUE,
   refs |-> PrefixReferences(calls), lineage |-> <<lineage>>]

PartialEvent(index, calls) ==
  [type |-> "partial", index |-> index, calls |-> calls, complete |-> FALSE,
   refs |-> PrefixReferences(calls), lineage |-> <<>>]

CountOf(type, events) == Cardinality({i \in DOMAIN events : events[i].type = type})

EofEvent(events) ==
  [type |-> "eof", sequences |-> CountOf("sequence", events),
   partials |-> CountOf("partial", events)]

\* What the report says of the stream; the checksum is the content itself.
Metadata(file) ==
  [file |-> file, sequences |-> CountOf("sequence", file.events),
   partials |-> CountOf("partial", file.events)]

----------------------------------------------------------------------------
(* The reader *)

\* What comes before the last record; nothing may follow that one.
Body(events) == Front(events)

\* Prefixes that the complete sequences before position i executed.
KnownBefore(body, i) ==
  UNION {ToSet(body[j].refs) : j \in {k \in 1..(i - 1) : body[k].type = "sequence"}}

WellFormed(e) ==
  /\ e.refs # <<>> /\ IsInjective(e.refs)
  /\ \A n \in DOMAIN e.refs : Len(e.refs[n]) = n

PartialAccepted(e) == ~e.complete /\ e.lineage = <<>>

SequenceAccepted(e, known) ==
  /\ e.complete /\ e.lineage # <<>>
  /\ e.lineage[1].index = e.index
  /\ Last(e.refs) = e.calls /\ Last(e.refs) = e.lineage[1].output
  /\ e.lineage[1].kind = "mutation" =>
       e.lineage[1].parents # {} /\ e.lineage[1].parents \subseteq known

\* read_compact_events returns instead of raising.
Accepted(file, meta) ==
  LET events == file.events
      body == Body(events)
  IN  /\ meta.file = file /\ file.whole
      /\ events # <<>> /\ Last(events).type = "eof" /\ CountOf("eof", events) = 1
      /\ \A i, j \in DOMAIN body : i # j => body[i].index # body[j].index
      /\ \A i \in DOMAIN body :
           /\ WellFormed(body[i])
           /\ CASE body[i].type = "partial" -> PartialAccepted(body[i])
                [] OTHER -> SequenceAccepted(body[i], KnownBefore(body, i))
      /\ Last(events).sequences = CountOf("sequence", body)
      /\ Last(events).partials = CountOf("partial", body)
      /\ meta.sequences = CountOf("sequence", body) /\ meta.partials = CountOf("partial", body)

\* What the reader hands on.
DecodedLineage(file) ==
  LET s == Among(file.events, {e \in ToSet(file.events) : e.type = "sequence"})
  IN  [i \in DOMAIN s |-> s[i].lineage[1]]
=============================================================================
