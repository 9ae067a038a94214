---------------------------- MODULE Tools_proofs ----------------------------
(***************************************************************************)
(* What the tools of a slot leave behind, for any calls, imports, limits and *)
(* processes.  The campaign rests on one invariant that follows a sequence   *)
(* from the fuzzer's choice to its record: where its parents come from, that *)
(* its index is new, and that the count, the stream and the report agree as  *)
(* long as nothing failed.                                                  *)
(***************************************************************************)
EXTENDS Tools, Subsequences_proofs

----------------------------------------------------------------------------
(* The stream and its reader *)

\* The prefixes of a sequence: one of each length, the last one the whole of it.
LEMMA PrefixFacts ==
  ASSUME NEW T, NEW c \in Seq(T)
  PROVE  /\ PrefixReferences(c) \in Seq(Seq(T)) /\ Len(PrefixReferences(c)) = Len(c)
         /\ \A n \in 1..Len(c) : /\ PrefixReferences(c)[n] \in Seq(T)
                                 /\ Len(PrefixReferences(c)[n]) = n
                                 /\ \A i \in 1..n : PrefixReferences(c)[n][i] = c[i]
         /\ c # <<>> => Last(PrefixReferences(c)) = c
<1>1. Len(c) \in Nat /\ \A i \in 1..Len(c) : c[i] \in T
  OBVIOUS
<1>2. ASSUME NEW n \in 1..Len(c)
      PROVE  /\ SubSeq(c, 1, n) \in Seq(T) /\ Len(SubSeq(c, 1, n)) = n
             /\ \A i \in 1..n : SubSeq(c, 1, n)[i] = c[i]
  BY <1>1
<1>3. /\ PrefixReferences(c) \in Seq(Seq(T)) /\ Len(PrefixReferences(c)) = Len(c)
      /\ \A n \in 1..Len(c) : PrefixReferences(c)[n] = SubSeq(c, 1, n)
  BY <1>1, <1>2 DEF PrefixReferences
<1>4. ASSUME c # <<>> PROVE Last(PrefixReferences(c)) = c
  <2>1. Len(c) \in 1..Len(c)
    BY <1>1, <1>4
  <2>2. SubSeq(c, 1, Len(c)) = c
    BY <1>1, <1>2, <2>1
  <2> QED BY <1>3, <2>1, <2>2 DEF Last
<1> QED BY <1>2, <1>3, <1>4

\* One more call adds the longer sequence to the prefixes.
LEMMA PrefixAppend ==
  ASSUME NEW T, NEW c \in Seq(T), NEW x \in T
  PROVE  ToSet(PrefixReferences(Append(c, x))) =
           ToSet(PrefixReferences(c)) \union {Append(c, x)}
<1> DEFINE d == Append(c, x)
<1>1. d \in Seq(T) /\ Len(d) = Len(c) + 1 /\ Len(c) \in Nat /\ d # <<>>
  OBVIOUS
<1>2. \A n \in 1..Len(c) : d[n] = c[n]
  OBVIOUS
<1> HIDE DEF d
<1>3. PrefixReferences(d)[Len(c) + 1] = d
  BY <1>1, PrefixFacts DEF Last
<1>4. ASSUME NEW n \in 1..Len(c) PROVE PrefixReferences(d)[n] = PrefixReferences(c)[n]
  <2>1. n \in 1..Len(d)
    BY <1>1
  <2>2. \A i \in 1..n : i \in 1..Len(c)
    BY <1>1
  <2>3. /\ PrefixReferences(d)[n] \in Seq(T) /\ Len(PrefixReferences(d)[n]) = n
        /\ \A i \in 1..n : PrefixReferences(d)[n][i] = d[i]
    BY <1>1, <2>1, PrefixFacts
  <2>4. /\ PrefixReferences(c)[n] \in Seq(T) /\ Len(PrefixReferences(c)[n]) = n
        /\ \A i \in 1..n : PrefixReferences(c)[n][i] = c[i]
    BY PrefixFacts
  <2> QED BY <1>2, <2>2, <2>3, <2>4
<1>5. DOMAIN PrefixReferences(d) = 1..(Len(c) + 1) /\ DOMAIN PrefixReferences(c) = 1..Len(c)
  BY <1>1 DEF PrefixReferences
<1>6. ToSet(PrefixReferences(d)) = {PrefixReferences(d)[n] : n \in 1..(Len(c) + 1)}
  BY <1>5 DEF ToSet
<1>7. ToSet(PrefixReferences(c)) = {PrefixReferences(c)[n] : n \in 1..Len(c)}
  BY <1>5 DEF ToSet
<1>8. 1..(Len(c) + 1) = 1..Len(c) \union {Len(c) + 1}
  BY <1>1
<1>9. ToSet(PrefixReferences(d)) = ToSet(PrefixReferences(c)) \union {d}
  BY <1>3, <1>4, <1>6, <1>7, <1>8
<1> QED BY <1>9 DEF d

\* The records of a type are counted one by one.
LEMMA CountAppend ==
  ASSUME NEW T, NEW events \in Seq(T), NEW e \in T, NEW type
  PROVE  /\ CountOf(type, events) \in Nat
         /\ CountOf(type, Append(events, e)) =
              CountOf(type, events) + (IF e.type = type THEN 1 ELSE 0)
<1> DEFINE L == Len(events)
           longer == Append(events, e)
           here == {i \in 1..L : events[i].type = type}
           there == {i \in 1..(L + 1) : longer[i].type = type}
<1>1. /\ L \in Nat /\ DOMAIN events = 1..L /\ DOMAIN longer = 1..(L + 1)
      /\ longer[L + 1] = e /\ \A i \in 1..L : longer[i] = events[i]
  OBVIOUS
<1>2. IsFiniteSet(here) /\ Cardinality(here) \in Nat
  <2>1. IsFiniteSet(1..L)
    BY <1>1, CountTo
  <2> QED BY <2>1, FS_Subset, FS_CardinalityType
<1>3. CountOf(type, events) = Cardinality(here) /\ CountOf(type, longer) = Cardinality(there)
  BY <1>1 DEF CountOf
<1>4. there = here \union (IF e.type = type THEN {L + 1} ELSE {})
  <2> HIDE DEF longer
  <2>1. \A i \in 1..(L + 1) : i \in 1..L \/ i = L + 1
    BY <1>1
  <2>2. \A i \in 1..L : i \in 1..(L + 1)
    BY <1>1
  <2>3. L + 1 \in 1..(L + 1)
    BY <1>1
  <2> QED BY <1>1, <2>1, <2>2, <2>3
<1>5. L + 1 \notin here
  BY <1>1
<1> HIDE DEF here, there, longer, L
<1>6. CASE e.type = type
  <2>1. Cardinality(here \union {L + 1}) = Cardinality(here) + 1
    BY <1>2, <1>5, FS_AddElement
  <2> QED BY <1>2, <1>3, <1>4, <1>6, <2>1 DEF longer
<1>7. CASE e.type # type
  BY <1>2, <1>3, <1>4, <1>7 DEF longer
<1> QED BY <1>6, <1>7

\* What is written before a record does not depend on what follows it.
LEMMA KnownAppend ==
  ASSUME NEW T, NEW events \in Seq(T), NEW e \in T
  PROVE  /\ \A i \in 1..(Len(events) + 1) :
              KnownBefore(Append(events, e), i) = KnownBefore(events, i)
         /\ KnownBefore(Append(events, e), Len(events) + 2) =
              KnownBefore(events, Len(events) + 1)
                \union (IF e.type = "sequence" THEN ToSet(e.refs) ELSE {})
<1> DEFINE L == Len(events)
           longer == Append(events, e)
           from(s, i) == {k \in 1..(i - 1) : s[k].type = "sequence"}
<1>1. L \in Nat /\ longer[L + 1] = e /\ \A i \in 1..L : longer[i] = events[i]
  OBVIOUS
<1> HIDE DEF longer
<1>2. ASSUME NEW i \in 1..(L + 1)
      PROVE  from(longer, i) = from(events, i) /\ \A k \in from(events, i) : longer[k] = events[k]
  BY <1>1
<1>3. \A i \in 1..(L + 1) : KnownBefore(longer, i) = KnownBefore(events, i)
  BY <1>2 DEF KnownBefore
<1>4. from(longer, L + 2) = from(events, L + 1) \union (IF e.type = "sequence" THEN {L + 1} ELSE {})
  <2>1. (L + 2) - 1 = L + 1 /\ (L + 1) - 1 = L
    BY <1>1
  <2>2. 1..(L + 1) = 1..L \union {L + 1}
    BY <1>1
  <2> QED BY <1>1, <2>1, <2>2
<1>5. \A k \in from(events, L + 1) : longer[k] = events[k]
  BY <1>1
<1>6. KnownBefore(longer, L + 2) =
        KnownBefore(events, L + 1) \union (IF e.type = "sequence" THEN ToSet(e.refs) ELSE {})
  <2> DEFINE a == from(longer, L + 2)
             b == from(events, L + 1)
  <2>1. /\ KnownBefore(longer, L + 2) = UNION {ToSet(longer[j].refs) : j \in a}
        /\ KnownBefore(events, L + 1) = UNION {ToSet(events[j].refs) : j \in b}
    BY DEF KnownBefore
  <2> HIDE DEF a, b
  <2>2. a = b \union (IF e.type = "sequence" THEN {L + 1} ELSE {})
    BY <1>4 DEF a, b
  <2>3. \A k \in b : longer[k] = events[k]
    BY <1>5 DEF b
  <2> QED BY <1>1, <2>1, <2>2, <2>3
<1> QED BY <1>3, <1>6 DEF longer

----------------------------------------------------------------------------
(* The process group: an empty group stays empty once it was killed *)

Emptied == step = "reap" \/ (step = "done" /\ expired) => running = {}
NotYetExpired == step \in {"start", "waiting"} => ~expired
GroupInv == Processes!TypeOK /\ Emptied /\ NotYetExpired

----------------------------------------------------------------------------
(* The augmentation: a candidate is in the corpus before it is an entry, and  *)
(* every answer that ends an attempt is remembered                            *)

ToolPhases == {"prefix_check", "build", "goal", "replay", "concrete_build", "encode", "decode"}
Answers ==
  {"open", "cut_short", "candidate", "not_attempted_budget_reserve"}
    \union UNION {Augment!Negative[t] : t \in ToolPhases}

\* Whatever may become an entry.
Seeds ==
  Augment!ToSet(Augment!Requests) \union {Augment!Candidate(p, "model") : p \in Nat}

AugmentTypes ==
  /\ phase \in ToolPhases \union {"batch", "loop", "prune", "validate", "done"}
  /\ prefix \in Nat /\ entries \in Seq(Seeds) /\ attempts \in Seq(Answers)

CorpusHasEntries ==
  /\ phase = "batch" => entries = <<>>
  /\ phase \in ToolPhases \union {"loop", "prune"} => ToSet(entries) \subseteq corpus
  /\ phase = "decode" => Augment!Present \in corpus
  /\ phase = "validate" => corpus = ToSet(entries)
  /\ phase # "done" => executed = {} /\ accepted = <<>> /\ status = "pending"

AnswersRemembered ==
  /\ phase \in ToolPhases => attempts # <<>>
  /\ \A i \in 1..Len(attempts) :
       /\ attempts[i] \in {"timeout", "invalid_model", "replay_mismatch"} => attempts[i] \in negatives
       /\ attempts[i] = "cut_short" => "timeout" \in negatives

AugmentInv ==
  /\ AugmentTypes /\ CorpusHasEntries /\ AnswersRemembered
  /\ Augment!OnlyCommittedExecuted /\ Augment!AcceptedSeedsDiffer /\ Augment!OutcomeTellsWhy

----------------------------------------------------------------------------
(* The campaign *)

Histories == Seq(Calls)
Origins == [made : {"startup_replay", "new_sequence", "mutation"}, parents : SUBSET Histories,
            plan : Histories]
Lineages == [index : Nat, kind : {"startup_replay", "new_sequence", "mutation"},
             parents : SUBSET Histories, output : Histories, resolved : BOOLEAN]
Records == [type : {"sequence", "partial"}, index : Nat, calls : Histories,
            complete : BOOLEAN, refs : Seq(Histories), lineage : Seq(Lineages)]
             \union [type : {"eof"}, sequences : Nat, partials : Nat]

\* What the complete sequences of a stream executed, prefixes included.
Written(events) == KnownBefore(events, Len(events) + 1)

InSequence == worker \in {"executing", "tested"}
Between == worker \in {"idle", "limit"}

CampaignTypes ==
  /\ worker \in {"idle", "executing", "tested", "limit", "ended"}
  /\ unexecuted \subseteq Imports /\ pool \subseteq Histories
  /\ stopping \in BOOLEAN /\ index \in Nat /\ current \in Histories /\ complete \in BOOLEAN
  /\ completed \in Nat /\ known \subseteq Histories
  /\ timer \in {"armed", "fired", "done"} /\ timedOut \in BOOLEAN
  /\ limitReached \in BOOLEAN /\ err \in BOOLEAN
  /\ stream \in Seq(Records)
  /\ main \in {"fuzzing", "flushing", "reporting", "completing", "exited", "dead"}
  /\ InSequence => generation \in Origins

\* The imports come first, and the fuzzer is not stopped among them unless the
\* time is up.
StartupComesFirst ==
  /\ Cardinality(unexecuted) =
       IF index <= Cardinality(Imports) THEN Cardinality(Imports) - index ELSE 0
  /\ InSequence /\ IsStartup => generation.made = "startup_replay"
  /\ stopping => timedOut \/ completed >= Tests
  /\ timer # "armed" => timedOut
  /\ InSequence => completed < index
  /\ Between => completed <= index
  /\ worker = "tested" /\ IsStartup /\ ~timedOut => index \in marked

\* What the fuzzer mutates is known to the adapter, and written before it is a
\* parent as long as nothing failed.
ParentsAreKnown ==
  /\ Imports \subseteq known /\ pool \subseteq Remember
  /\ Between => pool \subseteq known
  /\ InSequence => generation.parents \subseteq known
  /\ InSequence /\ generation.made # "new_sequence" => generation.parents # {}
  /\ InSequence /\ generation.made = "startup_replay" => generation.plan \in Imports

PoolIsWritten ==
  ~stopping /\ ~err =>
    /\ Between => pool \subseteq Written(stream) \union unexecuted
    /\ InSequence =>
         pool \subseteq Written(stream) \union unexecuted \union ToSet(PrefixReferences(current))
           \union (IF generation.made = "startup_replay" THEN {generation.plan} ELSE {})
    /\ worker = "tested" /\ generation.made = "startup_replay" => current = generation.plan

MutantsHaveWrittenParents ==
  InSequence /\ generation.made = "mutation" =>
    generation.parents # {} /\ generation.parents \subseteq Written(stream)

\* Until it is closed the stream holds complete sequences only, each with an
\* index of its own and accepted after those before it.
StreamHolds(events) ==
  \A i \in DOMAIN events :
    /\ events[i].type = "sequence" /\ WellFormed(events[i])
    /\ SequenceAccepted(events[i], KnownBefore(events, i))
    /\ \A j \in DOMAIN events : i # j => events[i].index # events[j].index

Open == main \in {"fuzzing", "flushing"}

StreamIsSound ==
  Open =>
    /\ StreamHolds(stream)
    /\ InSequence => ~complete
    /\ \A i \in DOMAIN stream :
         stream[i].index <= index /\ (~complete => stream[i].index < index)
    /\ ~err => completed = Len(stream)

LimitIsSeen == completed >= Tests /\ worker # "limit" /\ ~err => limitReached

\* What the adapter leaves: it is readable unless there was an error, and the
\* report tells how the run ended.
LeftBehind ==
  /\ main \in {"flushing", "reporting", "completing", "exited"} => worker = "ended"
  /\ main \in {"reporting", "completing", "exited"} /\ ~err =>
       /\ Accepted(disk, Metadata(disk)) /\ disk.whole
       /\ Len(DecodedLineage(disk)) = completed /\ CountOf("sequence", stream) = completed
  /\ main \in {"completing", "exited"} =>
       report = [status |-> RunOutcome, stop |-> StopReason, completed |-> completed,
                 meta |-> IF disk.whole THEN <<Metadata(disk)>> ELSE <<>>]
  /\ main = "exited" => code = IF err \/ timedOut \/ completed # Tests THEN 1 ELSE 0
  /\ completion => main = "exited"
  /\ outcome # "waiting" => ~Alive
  /\ outcome = "returned" => Verdict = "returned"

CampaignInv ==
  /\ CampaignTypes /\ StartupComesFirst /\ ParentsAreKnown /\ PoolIsWritten
  /\ MutantsHaveWrittenParents /\ StreamIsSound /\ LimitIsSeen /\ LeftBehind
  /\ AdmittedMeansMarked /\ ParentsResolve

----------------------------------------------------------------------------
(* The records of a stream *)

\* The records the adapter writes are of their kinds.
LEMMA RecordTypes ==
  ASSUME NEW ix \in Nat, NEW c \in Histories, NEW l \in Lineages, NEW events \in Seq(Records)
  PROVE  /\ SequenceEvent(ix, c, l) \in Records /\ PartialEvent(ix, c) \in Records
         /\ EofEvent(events) \in Records
<1>1. PrefixReferences(c) \in Seq(Histories)
  BY PrefixFacts DEF Histories
<1>2. <<l>> \in Seq(Lineages) /\ <<>> \in Seq(Lineages)
  OBVIOUS
<1>3. SequenceEvent(ix, c, l) \in Records /\ PartialEvent(ix, c) \in Records
  BY <1>1, <1>2 DEF SequenceEvent, PartialEvent, Records
<1>4. CountOf("sequence", events) \in Nat /\ CountOf("partial", events) \in Nat
  BY <1>3, CountAppend
<1> QED BY <1>3, <1>4 DEF EofEvent, Records

\* The references of a record to a sequence that is not empty are well formed.
LEMMA ReferencesWellFormed ==
  ASSUME NEW T, NEW c \in Seq(T), c # <<>>, NEW e, e.refs = PrefixReferences(c)
  PROVE  WellFormed(e) /\ Last(e.refs) = c
<1> DEFINE refs == PrefixReferences(c)
<1>1. /\ refs \in Seq(Seq(T)) /\ Len(refs) = Len(c) /\ Last(refs) = c
      /\ \A n \in 1..Len(c) : Len(refs[n]) = n
  BY PrefixFacts
<1>2. Len(c) \in Nat /\ Len(c) # 0
  OBVIOUS
<1> HIDE DEF refs
<1>3. refs # <<>> /\ DOMAIN refs = 1..Len(c)
  BY <1>1, <1>2
<1>4. IsInjective(refs)
  BY <1>1, <1>3 DEF IsInjective
<1> QED BY <1>1, <1>3, <1>4 DEF WellFormed, refs

\* A stream of complete sequences counts as many as it has records.
LEMMA WholeCount ==
  ASSUME NEW T, NEW events \in Seq(T), \A i \in 1..Len(events) : events[i].type = "sequence"
  PROVE  /\ CountOf("sequence", events) = Len(events) /\ CountOf("eof", events) = 0
         /\ CountOf("partial", events) = 0
<1>1. Len(events) \in Nat /\ DOMAIN events = 1..Len(events)
  OBVIOUS
<1> DEFINE n == Len(events)
<1>2. IsFiniteSet(1..n) /\ Cardinality(1..n) = n
  <2> HIDE DEF n
  <2>1. n \in Nat
    BY <1>1 DEF n
  <2> QED BY <2>1, CountTo
<1>3. {i \in DOMAIN events : events[i].type = "sequence"} = 1..n
  BY <1>1
<1>4. /\ {i \in DOMAIN events : events[i].type = "eof"} = {}
      /\ {i \in DOMAIN events : events[i].type = "partial"} = {}
  BY <1>1
<1> QED BY <1>2, <1>3, <1>4, FS_EmptySet DEF CountOf

\* What the reader asks of the records before the last one.
BodyHolds(body) ==
  \A i \in DOMAIN body :
    /\ body[i].type \in {"sequence", "partial"} /\ WellFormed(body[i])
    /\ \A j \in DOMAIN body : i # j => body[i].index # body[j].index
    /\ body[i].type = "partial" => PartialAccepted(body[i])
    /\ body[i].type = "sequence" => SequenceAccepted(body[i], KnownBefore(body, i))

Closing(body) == [events |-> Append(body, EofEvent(body)), whole |-> TRUE]

\* A stream that is closed with its counts is accepted together with what the
\* report says of it, and read as one lineage record for every sequence.
LEMMA ClosedIsAccepted ==
  ASSUME NEW body \in Seq(Records), EofEvent(body) \in Records, BodyHolds(body)
  PROVE  /\ Accepted(Closing(body), Metadata(Closing(body))) /\ Closing(body).whole
         /\ Len(DecodedLineage(Closing(body))) = CountOf("sequence", body)
         /\ CountOf("sequence", Closing(body).events) = CountOf("sequence", body)
<1> DEFINE last == EofEvent(body)
           events == Append(body, last)
           file == Closing(body)
           meta == Metadata(file)
           S == {e \in ToSet(events) : e.type = "sequence"}
<1>1. /\ Len(body) \in Nat /\ events \in Seq(Records) /\ Len(events) = Len(body) + 1
      /\ events # <<>> /\ events[Len(body) + 1] = last
      /\ \A i \in 1..Len(body) : events[i] = body[i]
      /\ DOMAIN body = 1..Len(body) /\ DOMAIN events = 1..(Len(body) + 1)
  OBVIOUS
<1>2. /\ last.type = "eof" /\ last.sequences = CountOf("sequence", body)
      /\ last.partials = CountOf("partial", body)
  BY DEF EofEvent
<1>3. /\ file.events = events /\ file.whole
      /\ meta.file = file /\ meta.sequences = CountOf("sequence", events)
      /\ meta.partials = CountOf("partial", events)
  BY DEF Closing, Metadata
<1> HIDE DEF last, events, file, meta
<1>4. Front(events) = body
  <2>1. Front(events) = SubSeq(events, 1, Len(body))
    BY <1>1 DEF Front
  <2>2. SubSeq(events, 1, Len(body)) = body
    BY <1>1
  <2> QED BY <2>1, <2>2
<1>5. Last(events) = last
  BY <1>1 DEF Last
<1>6. /\ CountOf("sequence", events) = CountOf("sequence", body)
      /\ CountOf("partial", events) = CountOf("partial", body)
      /\ CountOf("sequence", body) \in Nat /\ CountOf("partial", body) \in Nat
  BY <1>2, CountAppend DEF events, last
<1>7. CountOf("eof", events) = 1
  <2>1. {i \in DOMAIN events : events[i].type = "eof"} = {Len(body) + 1}
    BY <1>1, <1>2 DEF BodyHolds
  <2> QED BY <2>1, FS_Singleton DEF CountOf
<1>8. \A i \in DOMAIN body :
        CASE body[i].type = "partial" -> PartialAccepted(body[i])
          [] OTHER -> SequenceAccepted(body[i], KnownBefore(body, i))
  BY DEF BodyHolds
<1>9. Accepted(file, meta)
  <2>1. Body(file.events) = body
    BY <1>3, <1>4 DEF Body
  <2>2. /\ \A i, j \in DOMAIN body : i # j => body[i].index # body[j].index
        /\ \A i \in DOMAIN body : WellFormed(body[i])
    BY DEF BodyHolds
  <2> QED BY <1>1, <1>2, <1>3, <1>5, <1>6, <1>7, <1>8, <2>1, <2>2 DEF Accepted
<1>10. Len(DecodedLineage(file)) = CountOf("sequence", body)
  <2>1. Len(Among(events, S)) = Cardinality({n \in 1..Len(events) : events[n] \in S})
    BY <1>1, AmongCount
  <2>2. Among(events, S) \in Seq(Records)
    BY <1>1, AmongPlaces
  <2> DEFINE t == Among(events, S)
  <2>3. DecodedLineage(file) = [i \in DOMAIN t |-> t[i].lineage[1]]
    BY <1>3 DEF DecodedLineage
  <2> HIDE DEF t
  <2>4. t \in Seq(Records)
    BY <2>2 DEF t
  <2>5. Len(DecodedLineage(file)) = Len(t)
    BY <2>3, <2>4
  <2>6. {n \in 1..Len(events) : events[n] \in S} =
          {n \in DOMAIN events : events[n].type = "sequence"}
    BY <1>1 DEF ToSet
  <2> QED BY <1>6, <2>1, <2>5, <2>6 DEF t, CountOf
<1> QED BY <1>3, <1>6, <1>9, <1>10 DEF file, meta

----------------------------------------------------------------------------
(* Every step keeps the campaign's invariant *)

LEMMA CampaignStarts == ASSUME CampaignAssumption, Init PROVE CampaignInv
<1> USE DEF Init
<1>1. Imports \subseteq Histories
  BY DEF CampaignAssumption, Histories
<1>2. Cardinality(Imports) \in Nat
  BY FS_CardinalityType DEF CampaignAssumption
<1>3. Remember = Imports \union ToSet(PrefixReferences(<<>>))
  BY DEF Remember
<1>4. CampaignTypes
  <2>1. <<>> \in Histories /\ <<>> \in Seq(Records)
    BY DEF Histories
  <2> QED BY <1>1, <1>2, <2>1 DEF CampaignTypes, InSequence
<1>5. StartupComesFirst
  BY <1>2 DEF StartupComesFirst, InSequence, Between, IsStartup, CampaignAssumption
<1>6. ParentsAreKnown
  BY <1>3 DEF ParentsAreKnown, InSequence, Between
<1>7. PoolIsWritten /\ MutantsHaveWrittenParents
  BY DEF PoolIsWritten, MutantsHaveWrittenParents, InSequence, Between
<1>8. StreamIsSound
  BY DEF StreamIsSound, StreamHolds, InSequence
<1>9. LimitIsSeen
  BY <1>2 DEF LimitIsSeen, CampaignAssumption
<1>10. LeftBehind
  BY DEF LeftBehind, Alive
<1>11. AdmittedMeansMarked /\ ParentsResolve
  BY DEF AdmittedMeansMarked, ParentsResolve
<1> QED BY <1>4, <1>5, <1>6, <1>7, <1>8, <1>9, <1>10, <1>11 DEF CampaignInv

\* While the fuzzer runs nothing is left behind yet.
LEMMA NothingLeftYet ==
  ASSUME CampaignInv, Fuzzing, main' = main, outcome' = outcome, completion' = completion
  PROVE  LeftBehind'
BY DEF CampaignInv, LeftBehind, Fuzzing, Alive

\* The records of an open stream have numbers.
LEMMA RecordsAreNumbered ==
  ASSUME CampaignInv, Open
  PROVE  /\ StreamHolds(stream) /\ DOMAIN stream = 1..Len(stream) /\ Len(stream) \in Nat
         /\ \A i \in DOMAIN stream : stream[i] \in Records /\ stream[i].index \in Nat
<1>1. stream \in Seq(Records) /\ StreamHolds(stream)
  BY DEF CampaignInv, CampaignTypes, StreamIsSound
<1>2. /\ DOMAIN stream = 1..Len(stream) /\ Len(stream) \in Nat
      /\ \A i \in DOMAIN stream : stream[i] \in Records
  BY <1>1
<1>3. \A i \in DOMAIN stream : stream[i].type = "sequence"
  BY <1>1 DEF StreamHolds
<1>4. ASSUME NEW e \in Records, e.type = "sequence" PROVE e.index \in Nat
  BY <1>4 DEF Records
<1> QED BY <1>1, <1>2, <1>3, <1>4

LEMMA GenerateKeeps == ASSUME CampaignAssumption, CampaignInv, Generate PROVE CampaignInv'
<1> USE DEF Generate, fuzzerVars, hookVars, timerVars, leftVars
<1>1. CampaignTypes /\ worker = "idle" /\ main = "fuzzing"
  BY DEF CampaignInv, Fuzzing
<1>2. LeftBehind'
  BY NothingLeftYet
<1>3. Imports \subseteq Histories /\ IsFiniteSet(Imports) /\ Cardinality(Imports) \in Nat
  BY FS_CardinalityType DEF CampaignAssumption, Histories
<1>4. IsFiniteSet(unexecuted)
  BY <1>1, <1>3, FS_Subset DEF CampaignTypes
<1>5. PrefixReferences(<<>>) = <<>> /\ ToSet(PrefixReferences(<<>>)) = {}
  BY DEF PrefixReferences, ToSet
<1>6. pool \subseteq known /\ Imports \subseteq known
  BY <1>1 DEF CampaignInv, ParentsAreKnown, Between
<1>7. pool \subseteq Written(stream) \union unexecuted
  BY <1>1 DEF CampaignInv, PoolIsWritten, Between
<1>8. index' \in Nat /\ current' \in Histories /\ unexecuted' \subseteq Imports
  <2>1. index \in Nat /\ index' = index + 1 /\ unexecuted' \subseteq unexecuted
    BY <1>1 DEF CampaignTypes
  <2>2. <<>> \in Histories
    BY DEF Histories
  <2> QED BY <1>1, <2>1, <2>2 DEF CampaignTypes
<1>9. StreamIsSound'
  <2>1. /\ StreamHolds(stream)
        /\ \A i \in DOMAIN stream : stream[i].index \in Nat /\ stream[i].index <= index
        /\ ~err => completed = Len(stream)
    BY <1>1, RecordsAreNumbered DEF CampaignInv, StreamIsSound, Open
  <2>2. index \in Nat /\ index' = index + 1
    BY <1>1 DEF CampaignTypes
  <2>3. \A i \in DOMAIN stream : stream[i].index < index'
    BY <2>1, <2>2
  <2>4. \A i \in DOMAIN stream : stream[i].index <= index'
    BY <2>1, <2>2
  <2> QED BY <2>1, <2>3, <2>4 DEF StreamIsSound, InSequence
<1>10. LimitIsSeen' /\ AdmittedMeansMarked' /\ ParentsResolve'
  BY <1>1 DEF CampaignInv, LimitIsSeen, AdmittedMeansMarked, ParentsResolve
<1>11. CASE unexecuted # {}
  <2>1. PICK c \in unexecuted :
          unexecuted' = unexecuted \ {c} /\ generation' = Made("startup_replay", {c}, c)
    BY <1>11
  <2>2. /\ generation'.made = "startup_replay" /\ generation'.parents = {c}
        /\ generation'.plan = c /\ c \in Imports
    BY <1>1, <2>1 DEF Made, CampaignTypes
  <2>3. generation' \in Origins
    BY <1>3, <2>1, <2>2 DEF Origins, Made
  <2>4. Cardinality(unexecuted') = Cardinality(unexecuted) - 1 /\ Cardinality(unexecuted) \in Nat
    BY <1>4, <2>1, FS_RemoveElement, FS_CardinalityType
  <2>5. Cardinality(unexecuted) # 0
    BY <1>4, <1>11, FS_EmptySet
  <2>6. CampaignTypes'
    BY <1>1, <1>8, <2>3 DEF CampaignTypes
  <2>7. StartupComesFirst'
    BY <1>1, <1>3, <2>2, <2>4, <2>5
       DEF CampaignInv, StartupComesFirst, InSequence, Between, IsStartup, CampaignTypes
  <2>8. ParentsAreKnown'
    BY <1>5, <1>6, <2>2 DEF ParentsAreKnown, InSequence, Between, Remember
  <2>9. PoolIsWritten'
    BY <1>7, <2>1, <2>2 DEF PoolIsWritten, InSequence, Between
  <2>10. MutantsHaveWrittenParents'
    BY <2>2 DEF MutantsHaveWrittenParents
  <2> QED BY <1>2, <1>9, <1>10, <2>6, <2>7, <2>8, <2>9, <2>10 DEF CampaignInv
<1>12. CASE unexecuted = {}
  <2>1. /\ generation'.made \in {"new_sequence", "mutation"} /\ generation' \in Origins
        /\ generation'.parents \subseteq pool
        /\ generation'.made = "mutation" => generation'.parents # {}
    <3>1. CASE generation' = Made("new_sequence", {}, <<>>)
      BY <3>1 DEF Made, Origins, Histories
    <3>2. CASE \E p, q \in pool : generation' = Made("mutation", {p, q}, <<>>)
      <4>1. PICK p \in pool, q \in pool : generation' = Made("mutation", {p, q}, <<>>)
        BY <3>2
      <4>2. {p, q} \subseteq Histories
        BY <1>1 DEF CampaignTypes
      <4> QED BY <4>1, <4>2 DEF Made, Origins, Histories
    <3> QED BY <1>12, <3>1, <3>2
  <2>2. unexecuted' = {} /\ Cardinality(unexecuted) = 0
    BY <1>12, FS_EmptySet
  <2>3. CampaignTypes'
    BY <1>1, <1>8, <2>1 DEF CampaignTypes
  <2>4. StartupComesFirst'
    <3>1. index \in Nat /\ index >= Cardinality(Imports) /\ completed <= index /\ completed \in Nat
      BY <1>1, <1>3, <2>2 DEF CampaignInv, StartupComesFirst, CampaignTypes, Between
    <3>2. index' = index + 1 /\ worker' = "executing" /\ unexecuted' = unexecuted
      BY <1>12
    <3> QED BY <1>1, <1>3, <2>2, <3>1, <3>2
          DEF CampaignInv, StartupComesFirst, InSequence, Between, IsStartup
  <2>5. ParentsAreKnown'
    BY <1>5, <1>6, <2>1 DEF ParentsAreKnown, InSequence, Between, Remember
  <2>6. PoolIsWritten'
    BY <1>7, <1>12, <2>1 DEF PoolIsWritten, InSequence, Between
  <2>7. MutantsHaveWrittenParents'
    BY <1>7, <1>12, <2>1 DEF MutantsHaveWrittenParents
  <2> QED BY <1>2, <1>9, <1>10, <2>3, <2>4, <2>5, <2>6, <2>7 DEF CampaignInv
<1> QED BY <1>11, <1>12

LEMMA ExecuteKeeps ==
  ASSUME CampaignAssumption, CampaignInv, NEW call \in Calls, Execute(call) PROVE CampaignInv'
<1> USE DEF Execute, fuzzerVars, hookVars, timerVars, leftVars
<1>1. CampaignTypes /\ worker = "executing" /\ main = "fuzzing"
  BY DEF CampaignInv, Fuzzing
<1>2. LeftBehind'
  BY NothingLeftYet
<1>3. current \in Seq(Calls) /\ current' = Append(current, call)
  BY <1>1 DEF CampaignTypes, Histories
<1>4. ToSet(PrefixReferences(current')) = ToSet(PrefixReferences(current)) \union {current'}
  BY <1>3, PrefixAppend
<1>5. current' \in Histories
  BY <1>3 DEF Histories
<1>6. CampaignTypes'
  BY <1>1, <1>5 DEF CampaignTypes, InSequence
<1>7. StartupComesFirst'
  BY <1>1 DEF CampaignInv, StartupComesFirst, InSequence, Between, IsStartup
<1>8. ParentsAreKnown'
  BY <1>1, <1>4 DEF CampaignInv, ParentsAreKnown, InSequence, Between, Remember
<1>9. PoolIsWritten'
  BY <1>1, <1>4 DEF CampaignInv, PoolIsWritten, InSequence, Between
<1>10. MutantsHaveWrittenParents'
  BY <1>1 DEF CampaignInv, MutantsHaveWrittenParents, InSequence
<1> QED BY <1>1, <1>2, <1>6, <1>7, <1>8, <1>9, <1>10
      DEF CampaignInv, LimitIsSeen, StreamIsSound, Open, AdmittedMeansMarked, ParentsResolve,
          InSequence

LEMMA StepFailsKeeps == ASSUME CampaignAssumption, CampaignInv, StepFails PROVE CampaignInv'
<1> USE DEF StepFails, fuzzerVars, hookVars, timerVars, leftVars
<1>1. CampaignTypes /\ worker = "executing" /\ main = "fuzzing"
  BY DEF CampaignInv, Fuzzing
<1>2. LeftBehind'
  BY NothingLeftYet
<1>3. CampaignTypes' /\ StartupComesFirst' /\ ParentsAreKnown' /\ PoolIsWritten'
  BY <1>1 DEF CampaignInv, CampaignTypes, StartupComesFirst, ParentsAreKnown, PoolIsWritten,
              InSequence, Between, IsStartup, Remember
<1>4. MutantsHaveWrittenParents' /\ StreamIsSound' /\ LimitIsSeen'
  BY <1>1 DEF CampaignInv, MutantsHaveWrittenParents, StreamIsSound, Open, LimitIsSeen, InSequence
<1> QED BY <1>2, <1>3, <1>4 DEF CampaignInv, AdmittedMeansMarked, ParentsResolve

LEMMA SequenceOverKeeps ==
  ASSUME CampaignAssumption, CampaignInv, SequenceOver PROVE CampaignInv'
<1> USE DEF SequenceOver, fuzzerVars, hookVars, timerVars, leftVars
<1>1. CampaignTypes /\ worker = "executing" /\ main = "fuzzing" /\ StartupComesFirst
  BY DEF CampaignInv, Fuzzing
<1>2. LeftBehind'
  BY NothingLeftYet
<1>3. CampaignTypes'
  BY <1>1 DEF CampaignTypes, InSequence
\* Among the imports only the time stops the fuzzer.
<1>4. IsStartup /\ stopping => timedOut
  <2>1. /\ index \in Nat /\ completed \in Nat /\ Tests \in Nat /\ Cardinality(Imports) \in Nat
        /\ Tests > Cardinality(Imports) /\ completed < index
    BY <1>1, FS_CardinalityType DEF CampaignAssumption, CampaignTypes, StartupComesFirst, InSequence
  <2> QED BY <1>1, <2>1 DEF StartupComesFirst, IsStartup
<1>5. StartupComesFirst'
  BY <1>1, <1>4 DEF StartupComesFirst, InSequence, Between, IsStartup
<1>6. ParentsAreKnown'
  BY <1>1 DEF CampaignInv, ParentsAreKnown, InSequence, Between, Remember
<1>7. PoolIsWritten'
  BY <1>1 DEF CampaignInv, PoolIsWritten, InSequence, Between, Executed
<1>8. MutantsHaveWrittenParents' /\ StreamIsSound' /\ LimitIsSeen'
  BY <1>1 DEF CampaignInv, MutantsHaveWrittenParents, StreamIsSound, Open, LimitIsSeen, InSequence
<1>9. AdmittedMeansMarked' /\ ParentsResolve'
  BY DEF CampaignInv, AdmittedMeansMarked, ParentsResolve
<1> QED BY <1>2, <1>3, <1>5, <1>6, <1>7, <1>8, <1>9 DEF CampaignInv

LEMMA WorkerEndsKeeps == ASSUME CampaignAssumption, CampaignInv, WorkerEnds PROVE CampaignInv'
<1> USE DEF WorkerEnds, fuzzerVars, hookVars, timerVars, leftVars
<1>1. CampaignTypes /\ worker \in {"idle", "executing"} /\ main = "fuzzing"
  BY DEF CampaignInv, Fuzzing
<1>2. LeftBehind'
  BY NothingLeftYet
<1>3. CampaignTypes' /\ StartupComesFirst' /\ ParentsAreKnown' /\ PoolIsWritten'
  BY <1>1 DEF CampaignInv, CampaignTypes, StartupComesFirst, ParentsAreKnown, PoolIsWritten,
              InSequence, Between, IsStartup, Remember
<1>4. MutantsHaveWrittenParents' /\ StreamIsSound' /\ LimitIsSeen'
  BY <1>1 DEF CampaignInv, MutantsHaveWrittenParents, StreamIsSound, Open, LimitIsSeen, InSequence
<1> QED BY <1>2, <1>3, <1>4 DEF CampaignInv, AdmittedMeansMarked, ParentsResolve

\* A sequence that is not written ends the worker with an error.
LEMMA UnwrittenKeeps ==
  ASSUME CampaignAssumption, CampaignInv, TestedFails \/ TestedUnwritten PROVE CampaignInv'
<1>1. /\ CampaignTypes /\ worker = "tested" /\ main = "fuzzing" /\ worker' = "ended" /\ err' = TRUE
      /\ complete' \in BOOLEAN /\ (complete' <=> current # <<>>) /\ completed' = completed + 1
      /\ known' = IF current = <<>> THEN known ELSE Remember
      /\ UNCHANGED <<unexecuted, pool, marked, stopping, index, generation, current, replayed,
                     admitted, timer, timedOut, limitReached, stream, main, outcome, completion>>
  BY DEF CampaignInv, Fuzzing, TestedFails, TestedUnwritten, timerVars, leftVars
<1>2. LeftBehind'
  BY <1>1, NothingLeftYet DEF Fuzzing
<1>3. ToSet(PrefixReferences(<<>>)) = {}
  BY DEF PrefixReferences, ToSet
<1>4. known \subseteq known' /\ Remember' = Remember
  BY <1>1, <1>3 DEF Remember
<1>5. known' \subseteq Histories /\ completed' \in Nat
  <2>1. PrefixReferences(current) \in Seq(Histories)
    BY <1>1, PrefixFacts DEF CampaignTypes, Histories
  <2>2. ToSet(PrefixReferences(current)) \subseteq Histories
    BY <2>1 DEF ToSet
  <2> QED BY <1>1, <2>2 DEF CampaignTypes, Remember
<1>6. CampaignTypes'
  BY <1>1, <1>5 DEF CampaignTypes, InSequence
<1>7. StartupComesFirst'
  <2>1. stopping => timedOut \/ completed' >= Tests
    BY <1>1 DEF CampaignInv, CampaignTypes, CampaignAssumption, StartupComesFirst
  <2> QED BY <1>1, <2>1 DEF CampaignInv, StartupComesFirst, InSequence, Between, IsStartup
<1>8. ParentsAreKnown' /\ PoolIsWritten'
  BY <1>1, <1>4 DEF CampaignInv, ParentsAreKnown, PoolIsWritten, InSequence, Between
<1>9. MutantsHaveWrittenParents' /\ LimitIsSeen'
  BY <1>1 DEF MutantsHaveWrittenParents, LimitIsSeen, InSequence
<1>10. StreamIsSound'
  BY <1>1 DEF CampaignInv, StreamIsSound, Open, InSequence
<1> QED BY <1>1, <1>2, <1>6, <1>7, <1>8, <1>9, <1>10
      DEF CampaignInv, AdmittedMeansMarked, ParentsResolve

LEMMA LimitCheckKeeps == ASSUME CampaignAssumption, CampaignInv, LimitCheck PROVE CampaignInv'
<1> USE DEF LimitCheck, fuzzerVars, hookVars, timerVars, leftVars
<1>1. CampaignTypes /\ worker = "limit" /\ main = "fuzzing"
  BY DEF CampaignInv, Fuzzing
<1>2. LeftBehind'
  BY NothingLeftYet
<1>3. CampaignTypes' /\ StartupComesFirst' /\ ParentsAreKnown' /\ PoolIsWritten'
  BY <1>1 DEF CampaignInv, CampaignTypes, StartupComesFirst, ParentsAreKnown, PoolIsWritten,
              InSequence, Between, IsStartup, Remember
<1>4. MutantsHaveWrittenParents' /\ StreamIsSound' /\ LimitIsSeen'
  BY <1>1 DEF CampaignInv, MutantsHaveWrittenParents, StreamIsSound, Open, LimitIsSeen, InSequence
<1> QED BY <1>2, <1>3, <1>4 DEF CampaignInv, AdmittedMeansMarked, ParentsResolve

LEMMA TimerKeeps ==
  ASSUME CampaignAssumption, CampaignInv, TimerFires \/ TimerStops PROVE CampaignInv'
<1> USE DEF TimerFires, TimerStops, fuzzerVars, hookVars, timerVars, leftVars
<1>1. CampaignTypes /\ main \in {"fuzzing", "flushing", "reporting"} /\ main' = main
  BY DEF CampaignInv, Fuzzing
<1>2. LeftBehind'
  BY <1>1 DEF CampaignInv, LeftBehind, Alive, Fuzzing, Verdict
<1>3. CampaignTypes' /\ StartupComesFirst' /\ ParentsAreKnown' /\ PoolIsWritten'
  <2>1. CampaignTypes' /\ StartupComesFirst'
    BY <1>1 DEF CampaignInv, CampaignTypes, StartupComesFirst, InSequence, Between, IsStartup
  <2>2. ParentsAreKnown'
    BY <1>1 DEF CampaignInv, ParentsAreKnown, InSequence, Between, Remember
  <2>3. ASSUME TimerFires PROVE PoolIsWritten'
    BY <2>3 DEF CampaignInv, PoolIsWritten, InSequence, Between
  <2>4. ASSUME TimerStops PROVE PoolIsWritten'
    BY <2>4 DEF PoolIsWritten
  <2> QED BY <2>1, <2>2, <2>3, <2>4
<1>4. MutantsHaveWrittenParents' /\ StreamIsSound' /\ LimitIsSeen'
  BY <1>1 DEF CampaignInv, MutantsHaveWrittenParents, StreamIsSound, Open, LimitIsSeen, InSequence
<1> QED BY <1>2, <1>3, <1>4 DEF CampaignInv, AdmittedMeansMarked, ParentsResolve

LEMMA StartReturnsKeeps ==
  ASSUME CampaignAssumption, CampaignInv, StartReturns PROVE CampaignInv'
<1> USE DEF StartReturns, fuzzerVars, hookVars, timerVars, leftVars
<1>1. CampaignTypes /\ worker = "ended" /\ main = "fuzzing"
  BY DEF CampaignInv, Fuzzing
<1>2. LeftBehind'
  BY <1>1 DEF CampaignInv, LeftBehind, Alive
<1>3. CampaignTypes' /\ StartupComesFirst' /\ ParentsAreKnown' /\ PoolIsWritten'
  BY <1>1 DEF CampaignInv, CampaignTypes, StartupComesFirst, ParentsAreKnown, PoolIsWritten,
              InSequence, Between, IsStartup, Remember
<1>4. MutantsHaveWrittenParents' /\ StreamIsSound' /\ LimitIsSeen'
  BY <1>1 DEF CampaignInv, MutantsHaveWrittenParents, StreamIsSound, Open, LimitIsSeen, InSequence
<1> QED BY <1>2, <1>3, <1>4 DEF CampaignInv, AdmittedMeansMarked, ParentsResolve

\* A complete sequence is written with an index of its own and parents that were
\* written before; its prefixes are written from now on.
LEMMA TestedKeeps == ASSUME CampaignAssumption, CampaignInv, Tested PROVE CampaignInv'
<1> USE DEF Tested, fuzzerVars, hookVars, timerVars, leftVars
<1> DEFINE e == SequenceEvent(index, current, Lineage)
           L == Len(stream)
<1>1. /\ CampaignTypes /\ worker = "tested" /\ main = "fuzzing" /\ current # <<>>
      /\ generation \in Origins /\ index \in Nat /\ current \in Histories /\ stream \in Seq(Records)
  BY DEF CampaignInv, Fuzzing, CampaignTypes, InSequence
<1>2. LeftBehind'
  BY NothingLeftYet DEF Fuzzing
<1>3. /\ StreamHolds(stream) /\ DOMAIN stream = 1..L /\ L \in Nat
      /\ \A i \in DOMAIN stream : stream[i] \in Records /\ stream[i].index \in Nat
  BY <1>1, RecordsAreNumbered DEF Open
<1>4. /\ Lineage \in Lineages /\ Lineage.index = index /\ Lineage.output = current
      /\ Lineage.kind = generation.made /\ Lineage.parents = generation.parents
      /\ Lineage.resolved = (generation.parents # {} /\ generation.parents \subseteq Remember)
  <2>1. generation.made \in {"startup_replay", "new_sequence", "mutation"}
        /\ generation.parents \subseteq Histories
    BY <1>1 DEF Origins
  <2> QED BY <1>1, <2>1 DEF Lineage, Lineages
<1>5. e \in Records
  BY <1>1, <1>4, RecordTypes
<1>6. /\ e.type = "sequence" /\ e.index = index /\ e.calls = current /\ e.complete = TRUE
      /\ e.refs = PrefixReferences(current) /\ e.lineage # <<>> /\ e.lineage[1] = Lineage
  BY DEF SequenceEvent
<1>7. stream' = Append(stream, e)
  OBVIOUS
<1> HIDE DEF e
<1>8. /\ Len(stream') = L + 1 /\ DOMAIN stream' = 1..(L + 1) /\ stream'[L + 1] = e
      /\ \A i \in 1..L : stream'[i] = stream[i]
      /\ stream' \in Seq(Records)
  BY <1>1, <1>3, <1>5, <1>7
<1>9. /\ \A i \in 1..(L + 1) : KnownBefore(stream', i) = KnownBefore(stream, i)
      /\ Written(stream') = Written(stream) \union ToSet(PrefixReferences(current))
  <2>1. KnownBefore(stream', L + 2) = KnownBefore(stream, L + 1) \union ToSet(e.refs)
    BY <1>1, <1>5, <1>6, <1>7, KnownAppend
  <2>2. Len(stream') + 1 = L + 2
    BY <1>3, <1>8
  <2>3. \A i \in 1..(L + 1) : KnownBefore(stream', i) = KnownBefore(stream, i)
    BY <1>1, <1>5, <1>7, KnownAppend
  <2> QED BY <1>6, <2>1, <2>2, <2>3 DEF Written
<1>10. WellFormed(e) /\ Last(e.refs) = current
  BY <1>1, <1>6, ReferencesWellFormed DEF Histories
<1>11. SequenceAccepted(e, KnownBefore(stream', L + 1))
  <2>1. KnownBefore(stream', L + 1) = Written(stream)
    BY <1>3, <1>9 DEF Written
  <2>2. generation.made = "mutation" =>
          generation.parents # {} /\ generation.parents \subseteq Written(stream)
    BY <1>1 DEF CampaignInv, MutantsHaveWrittenParents, InSequence
  <2> QED BY <1>4, <1>6, <1>10, <2>1, <2>2 DEF SequenceAccepted
<1>12. /\ ~complete /\ \A i \in DOMAIN stream : stream[i].index < index
       /\ ~err => completed = L
  BY <1>1 DEF CampaignInv, StreamIsSound, Open, InSequence
<1>13. StreamHolds(stream')
  <2>1. ASSUME NEW i \in 1..L
        PROVE  /\ stream'[i].type = "sequence" /\ WellFormed(stream'[i])
               /\ SequenceAccepted(stream'[i], KnownBefore(stream', i))
    <3>1. i \in 1..(L + 1)
      BY <1>3
    <3> QED BY <1>3, <1>8, <1>9, <3>1 DEF StreamHolds
  <2>2. ASSUME NEW i \in 1..(L + 1), NEW j \in 1..(L + 1), i # j
        PROVE  stream'[i].index # stream'[j].index
    <3>1. CASE i \in 1..L /\ j \in 1..L
      BY <1>3, <1>8, <2>2, <3>1 DEF StreamHolds
    <3>2. CASE i = L + 1 /\ j \in 1..L
      BY <1>1, <1>3, <1>6, <1>8, <1>12, <3>2
    <3>3. CASE j = L + 1 /\ i \in 1..L
      BY <1>1, <1>3, <1>6, <1>8, <1>12, <3>3
    <3> QED BY <1>3, <2>2, <3>1, <3>2, <3>3
  <2>3. \A i \in 1..(L + 1) : i \in 1..L \/ i = L + 1
    BY <1>3
  <2> QED BY <1>6, <1>8, <1>10, <1>11, <2>1, <2>2, <2>3 DEF StreamHolds
<1>14. StreamIsSound'
  <2>1. \A i \in 1..(L + 1) : stream'[i].index <= index
    <3>1. \A i \in 1..L : stream[i].index \in Nat /\ stream[i].index < index
      BY <1>3, <1>12
    <3>2. \A i \in 1..(L + 1) : i \in 1..L \/ i = L + 1
      BY <1>3
    <3> QED BY <1>1, <1>6, <1>8, <3>1, <3>2
  <2> QED BY <1>3, <1>8, <1>12, <1>13, <2>1 DEF StreamIsSound, InSequence
<1>15. ToSet(PrefixReferences(current)) \subseteq Histories /\ current \in ToSet(PrefixReferences(current))
  <2>1. /\ PrefixReferences(current) \in Seq(Histories) /\ Len(PrefixReferences(current)) = Len(current)
        /\ Last(PrefixReferences(current)) = current
    BY <1>1, PrefixFacts DEF Histories
  <2>2. Len(current) \in 1..Len(current)
    BY <1>1 DEF Histories
  <2> QED BY <2>1, <2>2 DEF ToSet, Last
<1>16. CampaignTypes'
  <2>1. completed' \in Nat /\ known' \subseteq Histories
    BY <1>1, <1>15 DEF CampaignTypes, Remember
  <2> QED BY <1>1, <1>8, <2>1 DEF CampaignTypes, InSequence
<1>17. StartupComesFirst'
  <2>1. stopping => timedOut \/ completed' >= Tests
    BY <1>1 DEF CampaignInv, CampaignTypes, CampaignAssumption, StartupComesFirst
  <2>2. completed' <= index
    BY <1>1 DEF CampaignInv, CampaignTypes, StartupComesFirst, InSequence
  <2> QED BY <1>1, <2>1, <2>2 DEF CampaignInv, StartupComesFirst, InSequence, Between, IsStartup
<1>18. ParentsAreKnown'
  BY <1>1 DEF CampaignInv, ParentsAreKnown, InSequence, Between, Remember
<1>19. PoolIsWritten'
  BY <1>1, <1>9, <1>15 DEF CampaignInv, PoolIsWritten, InSequence, Between
<1>20. MutantsHaveWrittenParents' /\ LimitIsSeen'
  BY DEF MutantsHaveWrittenParents, LimitIsSeen, InSequence
<1>21. AdmittedMeansMarked'
  BY <1>1 DEF CampaignInv, AdmittedMeansMarked, StartupComesFirst, IsStartup
<1>22. ParentsResolve'
  <2>1. Lineage.kind # "new_sequence" => Lineage.resolved
    BY <1>1, <1>4 DEF CampaignInv, ParentsAreKnown, InSequence, Remember
  <2>2. \A i \in 1..(L + 1) : i \in 1..L \/ i = L + 1
    BY <1>3
  <2>3. \A i \in 1..L : Resolves(stream[i])
    BY <1>3 DEF CampaignInv, ParentsResolve
  <2>4. Resolves(e)
    BY <1>6, <2>1 DEF Resolves
  <2> QED BY <1>8, <2>2, <2>3, <2>4 DEF ParentsResolve
<1> QED BY <1>2, <1>14, <1>16, <1>17, <1>18, <1>19, <1>20, <1>21, <1>22 DEF CampaignInv

\* Nothing is owed to a worker that ended.
LEMMA EndedKeeps ==
  ASSUME CampaignInv, worker = "ended", CampaignTypes',
         UNCHANGED <<fuzzerVars, hookVars, timerVars, limitReached>>, err => err'
  PROVE  /\ StartupComesFirst' /\ ParentsAreKnown' /\ PoolIsWritten'
         /\ MutantsHaveWrittenParents' /\ LimitIsSeen' /\ AdmittedMeansMarked'
BY DEF CampaignInv, StartupComesFirst, ParentsAreKnown, PoolIsWritten, MutantsHaveWrittenParents,
       LimitIsSeen, AdmittedMeansMarked, InSequence, Between, IsStartup, Remember, fuzzerVars,
       hookVars, timerVars

\* What the stream holds when it is closed, a sequence that was cut short included.
Cut == IF current # <<>> /\ ~complete THEN Append(stream, PartialEvent(index, current)) ELSE stream

LEMMA CutHolds ==
  ASSUME CampaignInv, Open
  PROVE  /\ Cut \in Seq(Records) /\ BodyHolds(Cut)
         /\ CountOf("sequence", Cut) = Len(stream)
         /\ \A i \in 1..Len(Cut) : Resolves(Cut[i])
<1> DEFINE L == Len(stream)
           e == PartialEvent(index, current)
<1>1. /\ index \in Nat /\ current \in Histories /\ stream \in Seq(Records)
      /\ DOMAIN stream = 1..L /\ L \in Nat /\ StreamHolds(stream)
      /\ \A i \in DOMAIN stream : stream[i] \in Records /\ stream[i].index \in Nat
  BY RecordsAreNumbered DEF CampaignInv, CampaignTypes
<1>2. \A i \in 1..L : stream[i].type = "sequence" /\ Resolves(stream[i])
  BY <1>1 DEF StreamHolds, CampaignInv, ParentsResolve
<1>3. CountOf("sequence", stream) = L
  BY <1>1, <1>2, WholeCount
<1>4. CASE current # <<>> /\ ~complete
  <2>1. Cut = Append(stream, e) /\ e \in Records
    <3>1. PrefixReferences(current) \in Seq(Histories)
      BY <1>1, PrefixFacts DEF Histories
    <3>2. e \in Records
      BY <1>1, <3>1 DEF PartialEvent, Records
    <3> QED BY <1>4, <3>2 DEF Cut
  <2>2. /\ e.type = "partial" /\ e.index = index /\ PartialAccepted(e)
        /\ e.refs = PrefixReferences(current)
    BY DEF PartialEvent, PartialAccepted
  <2>3. WellFormed(e)
    BY <1>1, <1>4, <2>2, ReferencesWellFormed DEF Histories
  <2> HIDE DEF e
  <2>4. /\ Cut \in Seq(Records) /\ Len(Cut) = L + 1 /\ DOMAIN Cut = 1..(L + 1)
        /\ Cut[L + 1] = e /\ \A i \in 1..L : Cut[i] = stream[i]
    BY <1>1, <2>1
  <2>5. \A i \in 1..(L + 1) : i \in 1..L \/ i = L + 1
    BY <1>1
  <2>6. \A i \in 1..L : i \in 1..(L + 1) /\ KnownBefore(Cut, i) = KnownBefore(stream, i)
    BY <1>1, <2>1, KnownAppend
  <2>7. \A i \in 1..L : stream[i].index < index
    BY <1>1, <1>4 DEF CampaignInv, StreamIsSound
  <2>8. ASSUME NEW i \in 1..(L + 1), NEW j \in 1..(L + 1), i # j
        PROVE  Cut[i].index # Cut[j].index
    <3>1. CASE i \in 1..L /\ j \in 1..L
      BY <1>1, <2>4, <2>8, <3>1 DEF StreamHolds
    <3>2. CASE i = L + 1 /\ j \in 1..L
      BY <1>1, <2>2, <2>4, <2>7, <3>2
    <3>3. CASE j = L + 1 /\ i \in 1..L
      BY <1>1, <2>2, <2>4, <2>7, <3>3
    <3> QED BY <2>5, <2>8, <3>1, <3>2, <3>3
  <2>9. \A i \in 1..L : WellFormed(Cut[i]) /\ SequenceAccepted(Cut[i], KnownBefore(Cut, i))
    BY <1>1, <2>4, <2>6 DEF StreamHolds
  <2>10. BodyHolds(Cut)
    BY <1>2, <2>2, <2>3, <2>4, <2>5, <2>8, <2>9 DEF BodyHolds
  <2>11. CountOf("sequence", Cut) = L
    BY <1>1, <1>3, <2>1, <2>2, CountAppend
  <2>12. \A i \in 1..(L + 1) : Resolves(Cut[i])
    <3>1. Resolves(Cut[L + 1])
      BY <2>2, <2>4 DEF Resolves
    <3> QED BY <1>2, <2>4, <2>5, <3>1
  <2> QED BY <2>4, <2>10, <2>11, <2>12
<1>5. CASE ~(current # <<>> /\ ~complete)
  <2>1. Cut = stream
    BY <1>5 DEF Cut
  <2>2. BodyHolds(stream)
    BY <1>1, <1>2 DEF BodyHolds, StreamHolds
  <2> QED BY <1>1, <1>2, <1>3, <2>1, <2>2
<1> QED BY <1>4, <1>5

LEMMA FlushKeeps == ASSUME CampaignAssumption, CampaignInv, Flush PROVE CampaignInv'
<1>1. /\ CampaignTypes /\ main = "flushing" /\ main' = "reporting" /\ worker = "ended" /\ Open
      /\ UNCHANGED <<fuzzerVars, hookVars, timerVars, limitReached, err, report, completion, code,
                     outcome>>
      /\ stream' = Append(Cut, EofEvent(Cut)) /\ disk' = Closing(Cut)
  BY DEF CampaignInv, LeftBehind, Flush, Open, Cut, Closing
<1>2. /\ Cut \in Seq(Records) /\ BodyHolds(Cut) /\ CountOf("sequence", Cut) = Len(stream)
      /\ \A i \in 1..Len(Cut) : Resolves(Cut[i])
  BY <1>1, CutHolds
<1>3. EofEvent(Cut) \in Records /\ EofEvent(Cut).type = "eof"
  <2>1. <<>> \in Seq(Lineages) /\ PrefixReferences(current) \in Seq(Histories)
    BY <1>1, PrefixFacts DEF CampaignTypes, Histories
  <2>2. PartialEvent(index, current) \in Records
    BY <1>1, <2>1 DEF PartialEvent, Records, CampaignTypes
  <2>3. CountOf("sequence", Cut) \in Nat /\ CountOf("partial", Cut) \in Nat
    BY <1>2, <2>2, CountAppend
  <2> QED BY <2>3 DEF EofEvent, Records
<1>4. /\ Accepted(Closing(Cut), Metadata(Closing(Cut))) /\ Closing(Cut).whole
      /\ Len(DecodedLineage(Closing(Cut))) = CountOf("sequence", Cut)
      /\ CountOf("sequence", Closing(Cut).events) = CountOf("sequence", Cut)
  BY <1>2, <1>3, ClosedIsAccepted
<1>5. Closing(Cut).events = stream'
  BY <1>1 DEF Closing
<1>6. ~err => completed = Len(stream)
  BY <1>1 DEF CampaignInv, StreamIsSound
<1>7. LeftBehind'
  BY <1>1, <1>2, <1>4, <1>5, <1>6
     DEF CampaignInv, LeftBehind, Alive, fuzzerVars, hookVars
<1>8. stream' \in Seq(Records)
  BY <1>1, <1>2, <1>3
<1>9. CampaignTypes'
  BY <1>1, <1>8 DEF CampaignTypes, fuzzerVars, hookVars, timerVars, InSequence
<1>10. ParentsResolve'
  <2> DEFINE last == EofEvent(Cut)
             c == Cut
  <2>1. last.type = "eof" /\ last \in Records /\ c \in Seq(Records) /\ stream' = Append(c, last)
    BY <1>1, <1>2, <1>3
  <2>2. \A i \in 1..Len(c) : Resolves(c[i])
    BY <1>2
  <2> HIDE DEF last, c
  <2>3. /\ Len(c) \in Nat /\ DOMAIN stream' = 1..(Len(c) + 1) /\ stream'[Len(c) + 1] = last
        /\ \A i \in 1..Len(c) : stream'[i] = c[i]
    BY <2>1
  <2>4. \A i \in 1..(Len(c) + 1) : i \in 1..Len(c) \/ i = Len(c) + 1
    BY <2>3
  <2>5. Resolves(last)
    BY <2>1 DEF Resolves
  <2> QED BY <2>2, <2>3, <2>4, <2>5 DEF ParentsResolve
<1>11. StreamIsSound'
  BY <1>1 DEF StreamIsSound, Open
<1> QED BY <1>1, <1>7, <1>9, <1>10, <1>11, EndedKeeps DEF CampaignInv

LEMMA FlushFailsKeeps ==
  ASSUME CampaignAssumption, CampaignInv, FlushFails PROVE CampaignInv'
<1> USE DEF FlushFails
<1>1. CampaignTypes /\ worker = "ended"
  BY DEF CampaignInv, LeftBehind
<1>2. CampaignTypes'
  BY <1>1 DEF CampaignTypes, fuzzerVars, hookVars, timerVars, InSequence
<1>3. LeftBehind'
  BY <1>1 DEF CampaignInv, LeftBehind, Alive, fuzzerVars
<1>4. StreamIsSound' /\ ParentsResolve'
  BY DEF CampaignInv, StreamIsSound, Open, ParentsResolve
<1> QED BY <1>1, <1>2, <1>3, <1>4, EndedKeeps DEF CampaignInv

LEMMA WriteReportKeeps ==
  ASSUME CampaignAssumption, CampaignInv, WriteReport PROVE CampaignInv'
<1> USE DEF WriteReport
<1>1. CampaignTypes /\ worker = "ended"
  BY DEF CampaignInv, LeftBehind
<1>2. CampaignTypes'
  BY <1>1 DEF CampaignTypes, fuzzerVars, hookVars, timerVars, InSequence
<1>3. RunOutcome' = RunOutcome /\ StopReason' = StopReason
  BY DEF RunOutcome, StopReason, timerVars
<1>4. LeftBehind'
  BY <1>1, <1>3 DEF CampaignInv, LeftBehind, Alive, fuzzerVars, hookVars
<1>5. StreamIsSound' /\ ParentsResolve'
  BY DEF CampaignInv, StreamIsSound, Open, ParentsResolve
<1> QED BY <1>1, <1>2, <1>4, <1>5, EndedKeeps DEF CampaignInv

LEMMA WriteCompletionKeeps ==
  ASSUME CampaignAssumption, CampaignInv, WriteCompletion PROVE CampaignInv'
<1> USE DEF WriteCompletion
<1>1. CampaignTypes /\ worker = "ended"
  BY DEF CampaignInv, LeftBehind
<1>2. CampaignTypes'
  BY <1>1 DEF CampaignTypes, fuzzerVars, hookVars, timerVars, InSequence
<1>3. RunOutcome' = RunOutcome /\ StopReason' = StopReason
  BY DEF RunOutcome, StopReason, timerVars
<1>4. LeftBehind'
  BY <1>1, <1>3 DEF CampaignInv, LeftBehind, Alive, fuzzerVars, hookVars, timerVars
<1>5. StreamIsSound' /\ ParentsResolve'
  BY DEF CampaignInv, StreamIsSound, Open, ParentsResolve
<1> QED BY <1>1, <1>2, <1>4, <1>5, EndedKeeps DEF CampaignInv

\* A process that is killed leaves what it left, without a completion marker.
LEMMA DeathKeeps ==
  ASSUME CampaignAssumption, CampaignInv, KilledByOthers \/ OuterTimeout PROVE CampaignInv'
<1>1. /\ Alive /\ main' = "dead" /\ outcome = "waiting" /\ outcome' \in {"waiting", "timeout"}
      /\ UNCHANGED <<fuzzerVars, hookVars, timerVars, limitReached, err, stream, completion>>
  BY DEF KilledByOthers, OuterTimeout, Dies
<1>2. CampaignTypes'
  BY <1>1 DEF CampaignInv, CampaignTypes, fuzzerVars, hookVars, timerVars, InSequence
<1>3. StartupComesFirst' /\ ParentsAreKnown' /\ PoolIsWritten'
  BY <1>1 DEF CampaignInv, StartupComesFirst, ParentsAreKnown, PoolIsWritten, InSequence, Between,
              IsStartup, Remember, fuzzerVars, hookVars, timerVars
<1>4. MutantsHaveWrittenParents' /\ LimitIsSeen' /\ AdmittedMeansMarked' /\ ParentsResolve'
  BY <1>1 DEF CampaignInv, MutantsHaveWrittenParents, LimitIsSeen, AdmittedMeansMarked,
              ParentsResolve, InSequence, fuzzerVars, hookVars
<1>5. StreamIsSound'
  BY <1>1 DEF StreamIsSound, Open
<1>6. LeftBehind'
  BY <1>1 DEF CampaignInv, LeftBehind, Alive
<1> QED BY <1>2, <1>3, <1>4, <1>5, <1>6 DEF CampaignInv

LEMMA JudgeKeeps == ASSUME CampaignAssumption, CampaignInv, Judge PROVE CampaignInv'
<1>1. /\ ~Alive /\ outcome = "waiting" /\ outcome' = Verdict
      /\ UNCHANGED <<fuzzerVars, hookVars, timerVars, limitReached, err, stream, main, leftVars>>
  BY DEF Judge
<1>2. CampaignTypes'
  BY <1>1 DEF CampaignInv, CampaignTypes, fuzzerVars, hookVars, timerVars, InSequence
<1>3. StartupComesFirst' /\ ParentsAreKnown' /\ PoolIsWritten'
  BY <1>1 DEF CampaignInv, StartupComesFirst, ParentsAreKnown, PoolIsWritten, InSequence, Between,
              IsStartup, Remember, fuzzerVars, hookVars, timerVars
<1>4. MutantsHaveWrittenParents' /\ LimitIsSeen' /\ AdmittedMeansMarked' /\ ParentsResolve'
  BY <1>1 DEF CampaignInv, MutantsHaveWrittenParents, LimitIsSeen, AdmittedMeansMarked,
              ParentsResolve, InSequence, fuzzerVars, hookVars
<1>5. StreamIsSound'
  BY <1>1 DEF CampaignInv, StreamIsSound, Open, InSequence, fuzzerVars, hookVars
<1>6. Verdict' = Verdict /\ RunOutcome' = RunOutcome /\ StopReason' = StopReason
  BY <1>1 DEF Verdict, RunOutcome, StopReason, leftVars, timerVars
<1>7. LeftBehind'
  BY <1>1, <1>6 DEF CampaignInv, LeftBehind, Alive, fuzzerVars, hookVars, timerVars, leftVars
<1> QED BY <1>2, <1>3, <1>4, <1>5, <1>7 DEF CampaignInv

LEMMA CampaignStutters == ASSUME CampaignInv, UNCHANGED vars PROVE CampaignInv'
<1> USE DEF vars, fuzzerVars, hookVars, timerVars, leftVars
<1>1. CampaignTypes' /\ StartupComesFirst' /\ ParentsAreKnown' /\ PoolIsWritten'
  BY DEF CampaignInv, CampaignTypes, StartupComesFirst, ParentsAreKnown, PoolIsWritten,
         InSequence, Between, IsStartup, Remember
<1>2. MutantsHaveWrittenParents' /\ StreamIsSound' /\ LimitIsSeen' /\ AdmittedMeansMarked'
      /\ ParentsResolve'
  BY DEF CampaignInv, MutantsHaveWrittenParents, StreamIsSound, Open, LimitIsSeen, InSequence,
         AdmittedMeansMarked, ParentsResolve
<1>3. Verdict' = Verdict /\ RunOutcome' = RunOutcome /\ StopReason' = StopReason
  BY DEF Verdict, RunOutcome, StopReason
<1>4. LeftBehind'
  BY <1>3 DEF CampaignInv, LeftBehind, Alive
<1> QED BY <1>1, <1>2, <1>4 DEF CampaignInv

LEMMA CampaignSteps == ASSUME CampaignAssumption, CampaignInv, [Next]_vars PROVE CampaignInv'
<1>1. ASSUME NEW call \in Calls, Execute(call) PROVE CampaignInv'
  BY <1>1, ExecuteKeeps
<1>2. CASE Generate
  BY <1>2, GenerateKeeps
<1>3. CASE StepFails
  BY <1>3, StepFailsKeeps
<1>4. CASE SequenceOver
  BY <1>4, SequenceOverKeeps
<1>5. CASE WorkerEnds
  BY <1>5, WorkerEndsKeeps
<1>6. CASE Tested
  BY <1>6, TestedKeeps
<1>7. CASE TestedFails \/ TestedUnwritten
  BY <1>7, UnwrittenKeeps
<1>8. CASE LimitCheck
  BY <1>8, LimitCheckKeeps
<1>9. CASE TimerFires \/ TimerStops
  BY <1>9, TimerKeeps
<1>10. CASE StartReturns
  BY <1>10, StartReturnsKeeps
<1>11. CASE Flush
  BY <1>11, FlushKeeps
<1>12. CASE FlushFails
  BY <1>12, FlushFailsKeeps
<1>13. CASE WriteReport
  BY <1>13, WriteReportKeeps
<1>14. CASE WriteCompletion
  BY <1>14, WriteCompletionKeeps
<1>15. CASE KilledByOthers \/ OuterTimeout
  BY <1>15, DeathKeeps
<1>16. CASE Judge
  BY <1>16, JudgeKeeps
<1>17. CASE UNCHANGED vars
  BY <1>17, CampaignStutters
<1> QED BY <1>1, <1>2, <1>3, <1>4, <1>5, <1>6, <1>7, <1>8, <1>9, <1>10, <1>11, <1>12, <1>13,
           <1>14, <1>15, <1>16, <1>17 DEF Next, Adapter

\* What the invariant says of a campaign that finished, and of what it returned.
LEMMA CampaignAnswers ==
  ASSUME CampaignInv
  PROVE  FinishedIsReadable /\ ReturnedIsFinished
<1>1. CampaignTypes /\ LeftBehind /\ LimitIsSeen
  BY DEF CampaignInv
<1>2. ASSUME main = "exited", ~err
      PROVE  Accepted(disk, report.meta[1]) /\ Len(DecodedLineage(disk)) = completed
  <2>1. disk.whole /\ report.meta = IF disk.whole THEN <<Metadata(disk)>> ELSE <<>>
    BY <1>1, <1>2 DEF LeftBehind
  <2> QED BY <1>1, <1>2, <2>1 DEF LeftBehind
<1>3. ASSUME outcome = "returned"
      PROVE  /\ main = "exited" /\ ~err /\ report.stop \in {"time_limit", "sequence_limit"}
             /\ report.completed = CountOf("sequence", stream)
  <2>1. /\ report.status # "tool_error" /\ ~(code # 0 /\ report.status # "timeout") /\ completion
    BY <1>1, <1>3 DEF LeftBehind, Verdict
  <2>2. main = "exited" /\ report.status = RunOutcome /\ report.stop = StopReason
        /\ report.completed = completed /\ code = IF err \/ timedOut \/ completed # Tests THEN 1 ELSE 0
    BY <1>1, <2>1 DEF LeftBehind
  <2>3. ~err
    BY <2>1, <2>2 DEF RunOutcome
  <2>4. CASE timedOut
    BY <1>1, <2>2, <2>3, <2>4 DEF LeftBehind, StopReason
  <2>5. CASE ~timedOut
    <3>1. completed = Tests
      BY <2>1, <2>2, <2>3, <2>5 DEF RunOutcome
    <3>2. completed >= Tests /\ worker = "ended"
      BY <1>1, <2>2, <3>1 DEF CampaignTypes, LeftBehind
    <3>3. limitReached
      BY <1>1, <2>3, <3>2 DEF LimitIsSeen
    <3> QED BY <1>1, <2>2, <2>3, <2>5, <3>3 DEF LeftBehind, StopReason
  <2> QED BY <2>4, <2>5
<1> QED BY <1>2, <1>3 DEF FinishedIsReadable, ReturnedIsFinished

----------------------------------------------------------------------------
(* Every step keeps the process group's invariant *)

LEMMA GroupStarts == ASSUME Processes!Init PROVE GroupInv
BY DEF Processes!Init, GroupInv, Processes!TypeOK, Emptied, NotYetExpired

\* Only Kill empties the group, and only the living give birth.
LEMMA GroupSteps ==
  ASSUME GroupInv, [Processes!Next]_groupVars
  PROVE  GroupInv'
<1> USE DEF GroupInv, Processes!TypeOK, Emptied, NotYetExpired, Processes!Group
<1>1. ASSUME NEW d \in Descendants, Processes!Spawn(d) PROVE GroupInv'
  BY <1>1 DEF Processes!Spawn
<1>2. ASSUME NEW p \in Processes!Group, Processes!Ends(p) PROVE GroupInv'
  BY <1>2 DEF Processes!Ends
<1>3. CASE Processes!Start
  BY <1>3 DEF Processes!Start
<1>4. CASE Processes!WaitReturns
  BY <1>4 DEF Processes!WaitReturns
<1>5. CASE Processes!WaitExpires
  BY <1>5 DEF Processes!WaitExpires
<1>6. CASE Processes!Terminate
  BY <1>6 DEF Processes!Terminate
<1>7. CASE Processes!Grace
  BY <1>7 DEF Processes!Grace
<1>8. CASE Processes!Kill
  BY <1>8 DEF Processes!Kill
<1>9. CASE Processes!Reap
  BY <1>9 DEF Processes!Reap, Processes!LauncherEnded
<1>10. CASE UNCHANGED groupVars
  BY <1>10 DEF groupVars
<1>11. QED
  BY <1>1, <1>2, <1>3, <1>4, <1>5, <1>6, <1>7, <1>8, <1>9, <1>10
     DEF Processes!Next, Processes!RunCommand

----------------------------------------------------------------------------
(* The contract: what each kind keeps in its counters beyond its property *)

\* A closed account holds nothing; an open one never more than its allocation,
\* and units get lost only when nothing is left to spend.
AccountKept == contract = "accounting" =>
  \/ cp = 0 /\ cq = 0 /\ cr = 0
  \/ cp = Capacity /\ cq + cr = Capacity
  \/ Contract!Flawed /\ cp = Capacity /\ cq < Capacity /\ cr = 0

\* Units are conserved, or were counted twice: never lost.
ReservationKept == contract = "reservation" =>
  /\ cp <= Capacity /\ cp + cq <= Capacity
  /\ IF Contract!Flawed THEN cp + cq + cr >= Capacity ELSE cp + cq + cr = Capacity

\* An approval is recorded last.
RequestKept == contract = "request" =>
  /\ cp <= 3 /\ cq <= Capacity /\ cr <= Capacity
  /\ cp < 3 => cr = 0
  /\ Contract!Flawed \/ cr <= cq

ContractRead == creading = "refused" => ~Contract!Bounded(cp, cq, cr)

ContractInv == Contract!TypeOK /\ AccountKept /\ ReservationKept /\ RequestKept /\ ContractRead

\* The initial states satisfy the invariant.
LEMMA ContractStarts == ASSUME Contract!FixtureAssumption, Contract!Init PROVE ContractInv
<1>1. Contract!TypeOK
  <2>1. contract \in Contract!Kinds /\ variant \in Contract!Variants /\ cstarted \in BOOLEAN
    BY Zenon DEF Contract!Init
  <2>2. cp \in Nat /\ cq \in Nat /\ cr \in Nat /\ creading = "accepted"
    BY DEF Contract!FixtureAssumption, Contract!Init
  <2> QED BY <2>1, <2>2 DEF Contract!TypeOK
<1>2. AccountKept /\ ReservationKept /\ RequestKept
  BY DEF Contract!FixtureAssumption, Contract!Init, AccountKept, ReservationKept, RequestKept,
     Contract!Flawed
<1>3. ContractRead
  BY DEF Contract!Init, ContractRead
<1> QED BY <1>1, <1>2, <1>3 DEF ContractInv

\* Every call keeps it.
LEMMA ContractSteps ==
  ASSUME Contract!FixtureAssumption, ContractInv, [Contract!Next]_contractVars
  PROVE  ContractInv'
<1> USE DEF Contract!FixtureAssumption, ContractInv, Contract!TypeOK, Contract!Kinds,
            Contract!Variants, Contract!Flawed, Contract!Accepts, AccountKept, ReservationKept,
            RequestKept, ContractRead, Contract!Bounded, Contract!Counters
<1>1. CASE Contract!Open
  BY <1>1 DEF Contract!Open
<1>2. ASSUME NEW amount \in Amounts, Contract!Spend(amount) PROVE ContractInv'
  <2>1. amount \in Nat
    OBVIOUS
  <2>2. CASE Contract!Flawed /\ amount = cr
    BY <1>2, <2>1, <2>2 DEF Contract!Spend
  <2>3. CASE ~(Contract!Flawed /\ amount = cr)
    BY <1>2, <2>1, <2>3 DEF Contract!Spend
  <2> QED BY <2>2, <2>3
<1>3. CASE Contract!StartReservation
  BY <1>3 DEF Contract!StartReservation
<1>4. ASSUME NEW amount \in Amounts, Contract!Reserve(amount) PROVE ContractInv'
  BY <1>4 DEF Contract!Reserve
<1>5. ASSUME NEW amount \in Amounts, Contract!Settle(amount) PROVE ContractInv'
  <2>1. amount \in Nat
    OBVIOUS
  <2>2. CASE Contract!Flawed /\ amount = cq
    BY <1>5, <2>1, <2>2 DEF Contract!Settle
  <2>3. CASE ~(Contract!Flawed /\ amount = cq)
    BY <1>5, <2>1, <2>3 DEF Contract!Settle
  <2> QED BY <2>2, <2>3
<1>6. CASE Contract!StartRequest
  BY <1>6 DEF Contract!StartRequest
<1>7. ASSUME NEW amount \in Amounts, Contract!Request(amount) PROVE ContractInv'
  BY <1>7 DEF Contract!Request
<1>8. ASSUME NEW amount \in Amounts, Contract!Confirm(amount) PROVE ContractInv'
  BY <1>8 DEF Contract!Confirm
<1>9. CASE UNCHANGED contractVars
  BY <1>9 DEF contractVars
<1> QED
  BY <1>1, <1>2, <1>3, <1>4, <1>5, <1>6, <1>7, <1>8, <1>9 DEF Contract!Next, Contract!Call

\* No call undoes a violation.
LEMMA ViolationsStay ==
  ASSUME Contract!FixtureAssumption, ContractInv, [Contract!Next]_contractVars, ~Contract!Holds
  PROVE  ~Contract!Holds'
<1> USE DEF Contract!FixtureAssumption, ContractInv, Contract!TypeOK, Contract!Kinds,
            Contract!Variants, Contract!Flawed, Contract!Accepts, AccountKept, ReservationKept,
            RequestKept, Contract!Counters, Contract!Holds
<1>1. CASE Contract!Open
  BY <1>1 DEF Contract!Open
<1>2. ASSUME NEW amount \in Amounts, Contract!Spend(amount) PROVE ~Contract!Holds'
  BY <1>2, amount \in Nat DEF Contract!Spend
<1>3. CASE Contract!StartReservation
  BY <1>3 DEF Contract!StartReservation
<1>4. ASSUME NEW amount \in Amounts, Contract!Reserve(amount) PROVE ~Contract!Holds'
  BY <1>4, amount \in Nat DEF Contract!Reserve
<1>5. ASSUME NEW amount \in Amounts, Contract!Settle(amount) PROVE ~Contract!Holds'
  BY <1>5, amount \in Nat DEF Contract!Settle
<1>6. CASE Contract!StartRequest
  BY <1>6 DEF Contract!StartRequest
<1>7. ASSUME NEW amount \in Amounts, Contract!Request(amount) PROVE ~Contract!Holds'
  BY <1>7 DEF Contract!Request
<1>8. ASSUME NEW amount \in Amounts, Contract!Confirm(amount) PROVE ~Contract!Holds'
  BY <1>8 DEF Contract!Confirm
<1>9. CASE UNCHANGED contractVars
  BY <1>9 DEF contractVars
<1> QED
  BY <1>1, <1>2, <1>3, <1>4, <1>5, <1>6, <1>7, <1>8, <1>9 DEF Contract!Next, Contract!Call

\* What the invariant says of a repaired contract, and of a reading refused.
LEMMA ContractAnswers ==
  ASSUME Contract!FixtureAssumption, ContractInv
  PROVE  Contract!RepairedKeepsProperty /\ Contract!RefusedOnlyAfterViolation
<1> USE DEF Contract!FixtureAssumption, ContractInv, Contract!TypeOK, Contract!Kinds,
            Contract!Variants, Contract!Flawed, Contract!Accepts, AccountKept, ReservationKept,
            RequestKept, Contract!Holds
<1>1. Contract!RepairedKeepsProperty
  BY DEF Contract!RepairedKeepsProperty
<1>2. Contract!RefusedOnlyAfterViolation
  BY DEF Contract!RefusedOnlyAfterViolation, ContractRead, Contract!Bounded
<1> QED BY <1>1, <1>2

----------------------------------------------------------------------------
(* The generated tests *)

\* What calls leave of the counters of a contract that is repaired, or of a
\* flawed one as long as its property holds.
CountersKept(k, x, y, z, begun) ==
  /\ x \in Nat /\ y \in Nat /\ z \in Nat /\ begun \in BOOLEAN
  /\ k = "accounting" => (x = 0 /\ y = 0 /\ z = 0) \/ (x = Capacity /\ x = y + z)
  /\ k = "reservation" => x + y + z = Capacity
  /\ k = "request" => x <= 3 /\ y <= Capacity /\ z <= y /\ (x < 3 => z = 0)

\* After the declared first call.
SetUp(x, begun) ==
  /\ scenario = "accounting" => x = Capacity
  /\ scenario = "reservation" => begun
  /\ scenario = "request" => x >= 1

\* Nothing has told the two contracts apart yet.
Alike ==
  /\ fp = rp /\ fq = rq /\ fr = rr /\ fstarted = rstarted
  /\ freading = "accepted"
  /\ setup => SetUp(fp, fstarted)

Names == {"open", "spend", "start", "reserve", "settle", "request", "confirm"}

CallsMade == [name : Names, idle : BOOLEAN, holds : BOOLEAN]

LEMMA KeptIsSafe ==
  ASSUME Contract!FixtureAssumption, NEW k \in {"accounting", "reservation", "request"},
         NEW x, NEW y, NEW z, NEW begun, CountersKept(k, x, y, z, begun)
  PROVE  /\ k = "accounting" => x = y + z
         /\ k = "reservation" => x + y + z = Capacity
         /\ k = "request" => z <= y
         /\ x <= (IF k = "request" THEN 3 ELSE Capacity) /\ y <= Capacity /\ z <= Capacity
<1>1. x \in Nat /\ y \in Nat /\ z \in Nat /\ Capacity \in Nat /\ Capacity >= 3
  BY DEF CountersKept, Contract!FixtureAssumption
<1>2. CASE k = "accounting"
  BY <1>1, <1>2 DEF CountersKept
<1>3. CASE k = "reservation"
  BY <1>1, <1>3 DEF CountersKept
<1>4. CASE k = "request"
  BY <1>1, <1>4 DEF CountersKept
<1> QED BY <1>2, <1>3, <1>4

LEMMA CallNames ==
  ASSUME scenario \in {"accounting", "reservation", "request"}, NEW call \in Harness!AllowedCalls,
         Amounts \subseteq Nat
  PROVE  /\ call.amount \in Nat
         /\ scenario = "accounting" => call.name \in {"open", "spend"}
         /\ scenario = "reservation" => call.name \in {"start", "reserve", "settle"}
         /\ scenario = "request" => call.name \in {"start", "request", "confirm"}
BY DEF Harness!AllowedCalls, Harness!FirstCall, Harness!WithAmount

\* What a call does to the repaired contract.
LEMMA RepairedCall ==
  ASSUME Contract!FixtureAssumption, scenario \in {"accounting", "reservation", "request"},
         CountersKept(scenario, rp, rq, rr, rstarted), NEW call \in Harness!AllowedCalls,
         Harness!Execute(call)
  PROVE  /\ CountersKept(scenario, rp, rq, rr, rstarted)'
         /\ Harness!R!Holds' /\ Harness!RepairedSound'
<1> USE DEF CountersKept, Contract!FixtureAssumption
<1>1. /\ call.amount \in Nat
      /\ scenario = "accounting" => call.name \in {"open", "spend"}
      /\ scenario = "reservation" => call.name \in {"start", "reserve", "settle"}
      /\ scenario = "request" => call.name \in {"start", "request", "confirm"}
  BY CallNames
<1>2. scenario' = scenario
  BY DEF Harness!Execute
<1>3. CountersKept(scenario, rp, rq, rr, rstarted)'
  <2>1. CASE ~Harness!R!Accepts(call.name, call.amount)
    BY <1>2, <2>1 DEF Harness!Execute, Harness!Repaired
  <2>2. CASE Harness!R!Accepts(call.name, call.amount)
    <3> USE DEF Harness!R!Accepts, Harness!R!Flawed, Harness!R!Counters
    <3>1. Harness!OnRepaired(call)
      BY <2>2 DEF Harness!Execute
    <3>2. CASE call.name = "open"
      BY <1>1, <1>2, <3>1, <3>2 DEF Harness!OnRepaired, Harness!R!Open
    <3>3. CASE call.name = "spend"
      BY <1>1, <1>2, <3>1, <3>3 DEF Harness!OnRepaired, Harness!R!Spend
    <3>4. CASE call.name = "start"
      <4>1. Harness!R!StartReservation \/ Harness!R!StartRequest
        BY <3>1, <3>4 DEF Harness!OnRepaired
      <4>2. CASE Harness!R!StartReservation
        BY <1>2, <4>2 DEF Harness!R!StartReservation
      <4>3. CASE Harness!R!StartRequest
        BY <1>2, <4>3 DEF Harness!R!StartRequest
      <4> QED BY <4>1, <4>2, <4>3
    <3>5. CASE call.name = "reserve"
      BY <1>1, <1>2, <3>1, <3>5 DEF Harness!OnRepaired, Harness!R!Reserve
    <3>6. CASE call.name = "settle"
      BY <1>1, <1>2, <3>1, <3>6 DEF Harness!OnRepaired, Harness!R!Settle
    <3>7. CASE call.name = "request"
      BY <1>1, <1>2, <3>1, <3>7 DEF Harness!OnRepaired, Harness!R!Request
    <3>8. CASE call.name = "confirm"
      BY <1>1, <1>2, <3>1, <3>8 DEF Harness!OnRepaired, Harness!R!Confirm
    <3> QED BY <1>1, <3>2, <3>3, <3>4, <3>5, <3>6, <3>7, <3>8
  <2> QED BY <2>1, <2>2
<1>4. Harness!R!Holds' /\ Harness!RepairedSound'
  <2>1. /\ scenario = "accounting" => rp' = rq' + rr'
        /\ scenario = "reservation" => rp' + rq' + rr' = Capacity
        /\ scenario = "request" => rr' <= rq'
        /\ rp' <= (IF scenario = "request" THEN 3 ELSE Capacity)
        /\ rq' <= Capacity /\ rr' <= Capacity
    <3>1. CountersKept(scenario, rp', rq', rr', rstarted')
      BY ONLY <1>2, <1>3
    <3> HIDE DEF CountersKept
    <3> QED BY <3>1, KeptIsSafe
  <2> QED BY <1>2, <2>1 DEF Harness!R!Holds, Harness!RepairedSound, Harness!R!Bounded
<1> QED BY <1>3, <1>4

\* Units moved from one counter to another stay inside the capacity.
LEMMA MovesStayInside ==
  ASSUME NEW x \in Nat, NEW y \in Nat, NEW z \in Nat, NEW all \in Nat, x + y + z = all,
         NEW a \in Nat
  PROVE  /\ x <= all /\ y <= all /\ z <= all /\ x - a <= all /\ y - a <= all
         /\ a <= x => y + a <= all
         /\ a <= y => z + a <= all
OBVIOUS

\* What a call does to the flawed contract as long as nothing told the two apart.
LEMMA FlawedCall ==
  ASSUME Contract!FixtureAssumption, scenario \in {"accounting", "reservation", "request"},
         CountersKept(scenario, rp, rq, rr, rstarted), Alike, Harness!F!Holds,
         NEW call \in Harness!AllowedCalls, Harness!Execute(call), setup' \in BOOLEAN
  PROVE  /\ Harness!FlawedSound' /\ freading' = "accepted"
         /\ ~Harness!Succeeds(call) => UNCHANGED Harness!Flawed
         /\ setup /\ call.name \notin Harness!WithAmount => UNCHANGED Harness!Flawed
         /\ (/\ Harness!Succeeds(call) /\ Harness!F!Holds'
             /\ setup' => setup \/ call.name = Harness!FirstCall)
              => Alike' /\ Harness!SucceedsRepaired(call)
<1> USE DEF Contract!FixtureAssumption, Alike
<1>1. /\ call.amount \in Nat
      /\ scenario = "accounting" => call.name \in {"open", "spend"}
      /\ scenario = "reservation" => call.name \in {"start", "reserve", "settle"}
      /\ scenario = "request" => call.name \in {"start", "request", "confirm"}
  BY CallNames
<1>2. scenario' = scenario
  BY DEF Harness!Execute
<1>3. CASE ~Harness!F!Accepts(call.name, call.amount)
  <2>1. UNCHANGED Harness!Flawed
    BY <1>3 DEF Harness!Execute
  <2>2. Harness!FlawedSound' /\ freading' = "accepted"
    <3>1. Harness!FlawedSound
      BY KeptIsSafe DEF Harness!FlawedSound, Harness!F!Bounded
    <3> QED BY <1>2, <2>1, <3>1 DEF Harness!FlawedSound, Harness!F!Bounded, Harness!Flawed
  <2>3. ASSUME Harness!Succeeds(call), setup' => setup \/ call.name = Harness!FirstCall
        PROVE  Alike' /\ Harness!SucceedsRepaired(call)
    <3>1. call.name \notin {"request", "confirm"}
      BY <1>3, <2>3 DEF Harness!Succeeds
    <3>2. UNCHANGED Harness!Repaired
      BY <1>1, <1>3, <3>1 DEF Harness!F!Accepts, Harness!R!Accepts, Harness!Execute
    <3>3. setup' => SetUp(fp, fstarted)
      BY <1>1, <1>3, <2>3, <3>1
         DEF Harness!F!Accepts, SetUp, CountersKept, Harness!FirstCall
    <3> QED
      BY <1>2, <2>1, <2>2, <3>1, <3>2, <3>3
         DEF Harness!Flawed, Harness!Repaired, SetUp, Harness!SucceedsRepaired
  <2> QED BY <2>1, <2>2, <2>3
<1>4. CASE Harness!F!Accepts(call.name, call.amount)
  <2> USE DEF CountersKept, Harness!F!Accepts, Harness!R!Accepts, Harness!F!Counters,
              Harness!R!Counters, Harness!F!Flawed, Harness!R!Flawed, Harness!F!Bounded
  <2> DEFINE Agreed ==
        /\ Harness!F!Bounded(fp, fq, fr)' /\ freading' = "accepted"
        /\ setup /\ call.name \in {"open", "start"} => UNCHANGED Harness!Flawed
        /\ Harness!F!Holds' =>
             /\ fp' = rp' /\ fq' = rq' /\ fr' = rr' /\ fstarted' = rstarted'
             /\ Harness!SucceedsRepaired(call)
             /\ setup \/ call.name = Harness!FirstCall => SetUp(fp', fstarted')
  <2>1. Harness!OnFlawed(call)
    BY <1>4 DEF Harness!Execute
  <2>2. ASSUME call.name = "open" PROVE Agreed
    BY <1>1, <1>2, <1>4, <2>1, <2>2
       DEF Harness!OnFlawed, Harness!F!Open, Harness!Execute, Harness!OnRepaired, Harness!R!Open,
           Harness!F!Holds, Harness!SucceedsRepaired, SetUp, Harness!Flawed
  <2>3. ASSUME call.name = "spend" PROVE Agreed
    BY <1>1, <1>2, <1>4, <2>1, <2>3
       DEF Harness!OnFlawed, Harness!F!Spend, Harness!Execute, Harness!OnRepaired, Harness!R!Spend,
           Harness!F!Holds, Harness!SucceedsRepaired, SetUp, Harness!FirstCall
  <2>4. ASSUME call.name = "start" PROVE Agreed
    <3>1. Harness!F!Bounded(fp, fq, fr)
      BY KeptIsSafe
    <3>2. CASE scenario = "reservation"
      <4>1. /\ fstarted' = TRUE /\ fp' = fp /\ fq' = fq /\ fr' = fr /\ freading' = "accepted"
            /\ rstarted' = TRUE /\ rp' = rp /\ rq' = rq /\ rr' = rr
        BY <1>1, <1>2, <2>1, <2>4, <3>1, <3>2
           DEF Harness!OnFlawed, Harness!F!StartReservation, Harness!F!StartRequest,
               Harness!Execute, Harness!OnRepaired, Harness!R!StartReservation,
               Harness!R!StartRequest
      <4> QED
        BY <1>2, <2>4, <3>1, <3>2, <4>1 DEF Harness!SucceedsRepaired, SetUp, Harness!Flawed
    <3>3. CASE scenario = "request"
      BY <1>1, <1>2, <1>4, <2>1, <2>4, <3>3
         DEF Harness!OnFlawed, Harness!F!StartReservation, Harness!F!StartRequest,
             Harness!Execute, Harness!OnRepaired, Harness!R!StartReservation,
             Harness!R!StartRequest, Harness!F!Holds, Harness!SucceedsRepaired, SetUp,
             Harness!Flawed
    <3> QED BY <1>1, <2>4, <3>2, <3>3
  <2>5. ASSUME call.name = "reserve" PROVE Agreed
    <3>1. /\ scenario = "reservation" /\ fstarted /\ call.amount <= fp
          /\ fp' = fp - call.amount /\ fq' = fq + call.amount /\ fr' = fr
          /\ rp' = fp - call.amount /\ rq' = fq + call.amount /\ rr' = fr
          /\ fstarted' /\ rstarted'
          /\ freading' = IF Harness!F!Bounded(fp - call.amount, fq + call.amount, fr)
                         THEN "accepted" ELSE "refused"
      BY <1>1, <1>4, <2>1, <2>5
         DEF Harness!OnFlawed, Harness!F!Reserve, Harness!Execute, Harness!OnRepaired,
             Harness!R!Reserve
    <3>2. Harness!F!Bounded(fp - call.amount, fq + call.amount, fr)
      BY <1>1, <3>1, MovesStayInside
    <3> QED
      BY <1>2, <2>5, <3>1, <3>2 DEF Harness!SucceedsRepaired, SetUp, Harness!FirstCall
  <2>6. ASSUME call.name = "settle" PROVE Agreed
    <3>1. /\ scenario = "reservation" /\ fstarted /\ call.amount # 0 /\ call.amount <= fq
          /\ fp' = fp /\ fr' = fr + call.amount
          /\ fq' = IF call.amount = fq THEN fq ELSE fq - call.amount
          /\ rp' = fp /\ rq' = fq - call.amount /\ rr' = fr + call.amount
          /\ fstarted' /\ rstarted'
          /\ freading' = IF Harness!F!Bounded(fp', fq', fr') THEN "accepted" ELSE "refused"
      BY <1>1, <1>4, <2>1, <2>6
         DEF Harness!OnFlawed, Harness!F!Settle, Harness!Execute, Harness!OnRepaired,
             Harness!R!Settle
    <3>2. fp <= Capacity /\ fq <= Capacity /\ fq - call.amount <= Capacity
          /\ fr + call.amount <= Capacity
      BY <1>1, <3>1, MovesStayInside
    <3>3. Harness!F!Bounded(fp', fq', fr')
      BY <3>1, <3>2
    <3>4. call.amount = fq => ~Harness!F!Holds'
      <4>1. fp + fq + fr = Capacity
        BY <3>1
      <4>2. ASSUME call.amount = fq PROVE fp + fq + (fr + call.amount) # Capacity
        BY <1>1, <3>1, <4>1, <4>2
      <4> QED BY <1>2, <3>1, <4>2 DEF Harness!F!Holds
    <3> QED
      BY <1>2, <2>6, <3>1, <3>3, <3>4 DEF Harness!SucceedsRepaired, SetUp, Harness!FirstCall
  <2>7. ASSUME call.name = "request" PROVE Agreed
    BY <1>1, <1>2, <1>4, <2>1, <2>7
       DEF Harness!OnFlawed, Harness!F!Request, Harness!Execute, Harness!OnRepaired,
           Harness!R!Request, Harness!F!Holds, Harness!SucceedsRepaired, SetUp, Harness!FirstCall
  <2>8. ASSUME call.name = "confirm" PROVE Agreed
    BY <1>1, <1>2, <1>4, <2>1, <2>8
       DEF Harness!OnFlawed, Harness!F!Confirm, Harness!Execute, Harness!OnRepaired,
           Harness!R!Confirm, Harness!F!Holds, Harness!SucceedsRepaired, SetUp, Harness!FirstCall
  <2>9. Agreed
    BY <1>1, <2>2, <2>3, <2>4, <2>5, <2>6, <2>7, <2>8
  <2>10. call.name \notin Harness!WithAmount => call.name \in {"open", "start"}
    BY <1>1 DEF Harness!WithAmount
  <2> QED
    BY <1>2, <1>4, <2>9, <2>10 DEF Harness!FlawedSound, Harness!Succeeds, SetUp
<1> QED BY <1>3, <1>4

\* A continuation that has violated nothing but, at its end, the property, and no
\* call of which was idle.
Promising == \A i \in DOMAIN suffix : ~suffix[i].idle /\ (suffix[i].holds <=> i < length)

TestTypes ==
  /\ scenario \in {"accounting", "reservation", "request"}
  /\ length \in 1..2 /\ setup \in BOOLEAN
  /\ suffix \in Seq(CallsMade) /\ Len(suffix) <= length
  /\ search \in {"open", "cut", "held", "counterexample"}
  /\ replay \in {"open", "failed", "passed"} /\ regression \in {"open", "failed", "passed"}

\* What each test says of the others.
TestsInv ==
  /\ TestTypes /\ CountersKept(scenario, rp, rq, rr, rstarted)
  /\ (search = "open" <=> replay = "open") /\ (search = "counterexample" <=> replay = "passed")
  /\ suffix = <<>> => search = "open"
  /\ search = "open" =>
       Len(suffix) < length /\ regression = "open" /\ Alike /\ Harness!F!Holds
  /\ search = "counterexample" => Len(suffix) = length /\ regression = "passed"
  /\ setup /\ Promising =>
       /\ \A i \in DOMAIN suffix : suffix[i].name \in Harness!WithAmount
       /\ search = IF Len(suffix) = length THEN "counterexample" ELSE "open"

LEMMA TestsStart == ASSUME Contract!FixtureAssumption, Harness!Init PROVE TestsInv
<1>1. /\ scenario \in {"accounting", "reservation", "request"} /\ suffix = <<>> /\ Len(suffix) = 0
      /\ length \in 1..2 /\ ~setup /\ setup \in BOOLEAN
      /\ search = "open" /\ replay = "open" /\ regression = "open"
  BY DEF Harness!Init, Harness!F!Init, Harness!F!Kinds
<1>2. TestTypes
  <2>1. suffix \in Seq(CallsMade)
    BY <1>1
  <2>2. Len(suffix) <= length
    BY <1>1
  <2> QED BY ONLY <1>1, <2>1, <2>2 DEF TestTypes
<1>3. CountersKept(scenario, rp, rq, rr, rstarted) /\ Alike /\ Harness!F!Holds
  <2>1. /\ fp = (IF scenario = "reservation" THEN Capacity ELSE 0) /\ fq = 0 /\ fr = 0
        /\ rp = fp /\ rq = 0 /\ rr = 0
        /\ fstarted = rstarted /\ rstarted \in BOOLEAN /\ freading = "accepted"
        /\ Capacity \in Nat
    BY DEF Harness!Init, Harness!F!Init, Harness!R!Init, Contract!FixtureAssumption
  <2>2. CountersKept(scenario, rp, rq, rr, rstarted)
    <3>1. rp \in Nat /\ rq \in Nat /\ rr \in Nat /\ rstarted \in BOOLEAN
      BY <2>1
    <3>2. scenario = "reservation" => rp + rq + rr = Capacity
      BY <2>1
    <3>3. scenario # "reservation" => rp = 0 /\ rq = 0 /\ rr = 0
      BY <2>1
    <3> QED BY <2>1, <3>1, <3>2, <3>3 DEF CountersKept
  <2>3. Harness!F!Holds
    BY <1>1, <2>1 DEF Harness!F!Holds
  <2>4. Alike
    <3>1. fp = rp /\ fq = rq /\ fr = rr /\ fstarted = rstarted /\ freading = "accepted"
      BY <2>1
    <3> QED BY <1>1, <3>1 DEF Alike
  <2> QED BY <2>2, <2>3, <2>4
<1> QED BY <1>1, <1>2, <1>3 DEF TestsInv

\* A call of the prefix: the contracts stay alike.
LEMMA PrefixKeepsTests ==
  ASSUME Contract!FixtureAssumption, TestsInv, NEW call \in Harness!AllowedCalls,
         Harness!PrefixCall(call)
  PROVE  TestsInv'
<1>1. /\ suffix = <<>> /\ search = "open" /\ replay = "open" /\ regression = "open"
      /\ Alike /\ Harness!F!Holds /\ setup \in BOOLEAN
      /\ scenario \in {"accounting", "reservation", "request"}
      /\ CountersKept(scenario, rp, rq, rr, rstarted)
  BY DEF TestsInv, TestTypes, Harness!PrefixCall
<1>2. /\ Harness!Execute(call) /\ Harness!Succeeds(call) /\ Harness!F!Holds'
      /\ setup' = (setup \/ call.name = Harness!FirstCall)
      /\ scenario' = scenario /\ UNCHANGED <<length, suffix, search, replay>>
  BY DEF Harness!PrefixCall, Harness!Execute
<1>3. CountersKept(scenario, rp, rq, rr, rstarted)' /\ Harness!RepairedSound'
  BY <1>1, <1>2, RepairedCall
<1>4. Alike' /\ Harness!SucceedsRepaired(call)
  BY <1>1, <1>2, FlawedCall
<1>5. regression' = "open"
  BY <1>1, <1>3, <1>4 DEF Harness!PrefixCall, Alike
<1>6. TestTypes' /\ (\A i \in DOMAIN suffix : suffix[i].name \in Harness!WithAmount)'
  BY <1>1, <1>2, <1>5 DEF TestsInv, TestTypes
<1>7. Len(suffix) = 0 /\ length \in 1..2
  BY <1>1 DEF TestsInv, TestTypes
<1> QED BY <1>1, <1>2, <1>3, <1>4, <1>5, <1>6, <1>7 DEF TestsInv

\* A call of the continuation.
LEMMA SuffixKeepsTests ==
  ASSUME Contract!FixtureAssumption, TestsInv, NEW call \in Harness!AllowedCalls,
         Harness!SuffixCall(call)
  PROVE  TestsInv'
<1> DEFINE made == [name |-> call.name, idle |-> Harness!Flawed' = Harness!Flawed,
                    holds |-> Harness!F!Holds']
<1>1. /\ Harness!Execute(call) /\ suffix' = Append(suffix, made) /\ Len(suffix) < length
      /\ Harness!Search(call) /\ Harness!Replay(call) /\ Harness!Regression(call)
      /\ length' = length /\ setup' = setup /\ scenario' = scenario
  BY DEF Harness!SuffixCall, Harness!Execute
<1>2. CountersKept(scenario, rp, rq, rr, rstarted)' /\ Harness!R!Holds' /\ Harness!RepairedSound'
  BY <1>1, RepairedCall DEF TestsInv, TestTypes
<1>3. made \in CallsMade
  <2>1. call.name \in Names
    BY CallNames DEF TestsInv, TestTypes, Names, Contract!FixtureAssumption
  <2>2. (Harness!Flawed' = Harness!Flawed) \in BOOLEAN /\ Harness!F!Holds' \in BOOLEAN
    BY DEF Harness!F!Holds
  <2> QED BY <2>1, <2>2 DEF CallsMade
<1> HIDE DEF made
<1>4. /\ suffix' \in Seq(CallsMade) /\ Len(suffix') = Len(suffix) + 1 /\ Len(suffix') <= length
      /\ DOMAIN suffix' = DOMAIN suffix \union {Len(suffix')} /\ Len(suffix') \in DOMAIN suffix'
      /\ suffix'[Len(suffix')] = made /\ \A i \in DOMAIN suffix : suffix'[i] = suffix[i]
      /\ Harness!Last <=> Len(suffix') = length
  BY <1>1, <1>3 DEF TestsInv, TestTypes, Harness!Last
<1>5. Promising' => Promising /\ ~made.idle /\ (made.holds <=> ~Harness!Last)
  BY <1>1, <1>4 DEF Promising, TestsInv, TestTypes
<1>6. TestTypes'
  BY <1>1, <1>4 DEF TestsInv, TestTypes, Harness!Search, Harness!Replay, Harness!Regression,
     Harness!Concrete
<1>7. CASE search # "open"
  <2>1. search' = search /\ search \in {"cut", "held"} /\ replay = "failed"
    BY <1>1, <1>7 DEF TestsInv, TestTypes, Harness!Search
  <2>2. replay' = "failed"
    BY <1>1, <2>1 DEF Harness!Replay, Harness!Concrete
  <2>3. ~(setup' /\ Promising')
    BY <1>1, <1>5, <1>7 DEF TestsInv
  <2>4. suffix' # <<>>
    BY <1>4 DEF TestsInv, TestTypes
  <2> QED BY <1>2, <1>6, <2>1, <2>2, <2>3, <2>4 DEF TestsInv
<1>8. CASE search = "open"
  <2>1. /\ replay = "open" /\ regression = "open" /\ Alike /\ Harness!F!Holds
        /\ suffix' # <<>>
    BY <1>4, <1>8 DEF TestsInv, TestTypes
  <2>2. /\ Harness!FlawedSound'
        /\ ~Harness!Succeeds(call) => made.idle
        /\ setup /\ ~made.idle => made.name \in Harness!WithAmount
        /\ Harness!Succeeds(call) /\ Harness!F!Holds' => Alike'
    <3>1. setup' \in BOOLEAN /\ (setup' => setup \/ call.name = Harness!FirstCall)
      BY <1>1 DEF TestsInv, TestTypes
    <3> QED BY <1>1, <2>1, <3>1, FlawedCall DEF TestsInv, TestTypes, made, Harness!Flawed
  <2>3. CASE ~Harness!Succeeds(call)
    <3>1. search' = "cut" /\ replay' = "failed"
      BY <1>1, <1>8, <2>1, <2>3 DEF Harness!Search, Harness!Replay, Harness!Concrete
    <3>2. ~Promising'
      BY <1>5, <2>2, <2>3
    <3> QED BY <1>2, <1>6, <2>1, <3>1, <3>2 DEF TestsInv
  <2>4. CASE Harness!Succeeds(call) /\ Harness!Last /\ Harness!F!Holds'
    <3>1. search' = "held" /\ replay' = "failed"
      BY <1>1, <1>8, <2>1, <2>2, <2>4 DEF Harness!Search, Harness!Replay, Harness!Concrete
    <3>2. ~Promising'
      BY <1>5, <2>4 DEF made
    <3> QED BY <1>2, <1>6, <2>1, <3>1, <3>2 DEF TestsInv
  <2>5. CASE Harness!Succeeds(call) /\ Harness!Last /\ ~Harness!F!Holds'
    <3>1. search' = "counterexample"
      BY <1>1, <1>8, <2>2, <2>5 DEF Harness!Search
    <3>2. replay' = "passed"
      <4>1. Harness!F!Holds' = ~Harness!Last
        BY <2>5 DEF Harness!F!Holds, Harness!Last
      <4> QED BY <1>1, <2>1, <2>2, <2>5, <4>1 DEF Harness!Replay, Harness!Concrete
    <3>3. regression' = "passed"
      BY <1>1, <1>2, <2>1, <2>5 DEF Harness!Regression, Harness!Concrete
    <3>4. Len(suffix') = length'
      BY <1>1, <1>4, <2>5
    <3>5. ASSUME setup', Promising'
               PROVE  \A i \in DOMAIN suffix' : suffix'[i].name \in Harness!WithAmount'
      <4>1. \A i \in DOMAIN suffix : suffix[i].name \in Harness!WithAmount
        BY <1>1, <1>5, <3>5 DEF TestsInv
      <4>2. made.name \in Harness!WithAmount /\ Harness!WithAmount' = Harness!WithAmount
        BY <1>1, <1>5, <2>2, <3>5 DEF Harness!WithAmount
      <4> QED BY <1>4, <4>1, <4>2
    <3> QED BY <1>2, <1>6, <2>1, <3>1, <3>2, <3>3, <3>4, <3>5 DEF TestsInv
  <2>6. CASE Harness!Succeeds(call) /\ ~Harness!Last /\ Harness!F!Holds'
    <3>1. search' = "open" /\ replay' = "open" /\ regression' = "open"
      BY <1>1, <1>2, <1>8, <2>1, <2>2, <2>6
         DEF Harness!Search, Harness!Replay, Harness!Regression, Harness!Concrete
    <3>2. Len(suffix') < length' /\ Alike'
      BY <1>1, <1>4, <2>2, <2>6 DEF TestsInv, TestTypes
    <3>3. ASSUME setup', Promising'
               PROVE  \A i \in DOMAIN suffix' : suffix'[i].name \in Harness!WithAmount'
      <4>1. \A i \in DOMAIN suffix : suffix[i].name \in Harness!WithAmount
        BY <1>1, <1>5, <3>3 DEF TestsInv
      <4>2. made.name \in Harness!WithAmount /\ Harness!WithAmount' = Harness!WithAmount
        BY <1>1, <1>5, <2>2, <3>3 DEF Harness!WithAmount
      <4> QED BY <1>4, <4>1, <4>2
    <3> QED BY <1>2, <1>6, <2>1, <2>6, <3>1, <3>2, <3>3 DEF TestsInv
  <2>7. CASE Harness!Succeeds(call) /\ ~Harness!Last /\ ~Harness!F!Holds'
    <3>1. search' = "cut" /\ replay' = "failed"
      BY <1>1, <1>8, <2>1, <2>2, <2>7 DEF Harness!Search, Harness!Replay, Harness!Concrete
    <3>2. ~Promising'
      BY <1>5, <2>7 DEF made
    <3> QED BY <1>2, <1>6, <2>1, <3>1, <3>2 DEF TestsInv
  <2> QED BY <2>3, <2>4, <2>5, <2>6, <2>7
<1> QED BY <1>7, <1>8

LEMMA TestsSteps ==
  ASSUME Contract!FixtureAssumption, TestsInv, [Harness!Next]_testVars
  PROVE  TestsInv'
<1>1. CASE Harness!Next
  BY <1>1, PrefixKeepsTests, SuffixKeepsTests DEF Harness!Next
<1>2. CASE UNCHANGED testVars
  BY <1>2 DEF testVars, TestsInv, TestTypes, CountersKept, Promising, Alike, SetUp,
     Harness!F!Holds, Harness!WithAmount
<1> QED BY <1>1, <1>2

LEMMA TestsAnswer ==
  ASSUME TestsInv
  PROVE  Harness!ModelIsReplayed /\ Harness!ModelPassesRegression /\ Harness!ShortestIsSearched
<1>1. Harness!ModelIsReplayed /\ Harness!ModelPassesRegression
  BY DEF TestsInv, Harness!ModelIsReplayed, Harness!ModelPassesRegression
<1>2. Harness!ShortestIsSearched
  <2>1. SUFFICES ASSUME setup, Harness!FirstViolation, \A i \in DOMAIN suffix : ~suffix[i].idle
                 PROVE  Harness!Planned /\ search = "counterexample"
    BY DEF Harness!ShortestIsSearched
  <2>2. Promising /\ Len(suffix) = length
    BY <2>1 DEF Promising, Harness!FirstViolation
  <2>3. search = "counterexample" /\ \A i \in DOMAIN suffix : suffix[i].name \in Harness!WithAmount
    BY <2>1, <2>2 DEF TestsInv
  <2>4. 1 \in DOMAIN suffix
    BY <2>2 DEF TestsInv, TestTypes
  <2> QED BY <2>1, <2>2, <2>3, <2>4 DEF Harness!Planned, Harness!SuffixCalls
<1> QED BY <1>1, <1>2

----------------------------------------------------------------------------
(* The augmentation *)

\* Values a case is tried with are a list.
LEMMA ValuesAreListed ==
  ASSUME Augment!AugmentAssumption
  PROVE  Len(Augment!ConcreteValues) \in Nat
<1> DEFINE all == Boundary \o Random
           N == Len(all)
           V == Seq(Nat)
           Step(n, v) == IF all[n] \in Augment!ToSet(v) \/ Len(v) = AttemptLimit THEN v ELSE Append(v, all[n])
           F == [n \in 1..N |-> [v \in V |-> Step(n, v)]]
           Meets(f) == f = [n \in 0..N |->
             IF n = 0 THEN <<>>
             ELSE IF all[n] \in Augment!ToSet(f[n - 1]) \/ Len(f[n - 1]) = AttemptLimit
             THEN f[n - 1] ELSE Append(f[n - 1], all[n])]
           empty == <<>>
<1>1. all \in Seq(Nat) /\ N \in Nat /\ \A n \in 1..N : all[n] \in Nat
  BY DEF Augment!AugmentAssumption
<1> DEFINE g == CHOOSE g : Meets(g)
<1>2. Augment!ConcreteValues = g[N]
  BY DEF Augment!ConcreteValues
<1> HIDE DEF all, N, g
<1>3. F \in [1..N -> [V -> V]] /\ empty \in V
  <2>1. ASSUME NEW n \in 1..N, NEW v \in V PROVE Step(n, v) \in V
    BY <1>1
  <2> HIDE DEF Step, V
  <2>2. F \in [1..N -> [V -> V]]
    BY <2>1
  <2> QED BY <2>2 DEF V
<1> HIDE DEF F, V, empty
<1>4. PICK f \in [0..N -> V] : f[0] = empty /\ \A n \in 1..N : f[n] = F[n][f[n - 1]]
  <2>1. N \in Nat /\ F \in [1..N -> [V -> V]] /\ empty \in V
    BY <1>1, <1>3
  <2> HIDE DEF Step
  <2>2. \E f \in [0..N -> V] : f[0] = empty /\ \A n \in 1..N : f[n] = F[n][f[n - 1]]
    BY <2>1, Recursion
  <2> QED BY <2>2
<1>5. \A n \in 1..N : f[n] = Step(n, f[n - 1])
  <2>1. \A n \in 1..N : f[n - 1] \in V
    BY <1>1, <1>4
  <2> HIDE DEF Step
  <2> QED BY <1>4, <2>1 DEF F
<1>6. Meets(f)
  <2> DEFINE h == [n \in 0..N |-> IF n = 0 THEN <<>> ELSE Step(n, f[n - 1])]
  <2>1. \A n \in 0..N : n = 0 \/ n \in 1..N
    BY <1>1
  <2>2. \A n \in 0..N : f[n] = h[n]
    <3> HIDE DEF Step
    <3> QED BY <1>4, <1>5, <2>1 DEF empty
  <2>3. f = [n \in 0..N |-> f[n]] /\ h = [n \in 0..N |-> h[n]]
    BY <1>4
  <2> HIDE DEF h
  <2>4. f = h
    BY <2>2, <2>3
  <2> QED BY <2>4 DEF h
<1>7. Meets(g)
  BY <1>6 DEF g
<1>8. \A n \in 0..N : g[n] = IF n = 0 THEN empty ELSE Step(n, g[n - 1])
  <2> DEFINE h == [n \in 0..N |-> IF n = 0 THEN empty ELSE Step(n, g[n - 1])]
  <2>1. g = h
    BY <1>7 DEF empty
  <2>2. \A n \in 0..N : h[n] = IF n = 0 THEN empty ELSE Step(n, g[n - 1])
    OBVIOUS
  <2> HIDE DEF h
  <2> QED BY <2>1, <2>2
<1>9. g[0] = empty /\ \A n \in 1..N : g[n - 1] \in V => g[n] = F[n][g[n - 1]]
  <2>1. 0 \in 0..N /\ \A n \in 1..N : n \in 0..N /\ n # 0
    BY <1>1
  <2> HIDE DEF Step
  <2> QED BY <1>8, <2>1 DEF F
<1> HIDE DEF Step
<1>10. \A n \in 0..N : g[n] \in V
  <2>1. N \in Nat /\ F \in [1..N -> [V -> V]] /\ empty \in V
    BY <1>1, <1>3
  <2>2. g[0] = empty /\ \A n \in 1..N : g[n - 1] \in V => g[n] = F[n][g[n - 1]]
    BY <1>9
  <2> QED BY <2>1, <2>2, RecursionMet
<1>11. g[N] \in Seq(Nat)
  BY <1>1, <1>10 DEF V
<1> QED BY <1>2, <1>11

\* What holds of the seeds accepted so far: they reached the goal, are new, and
\* differ in case and identity.
Distinct(state, goal, id) ==
  /\ Len(state.accepted) <= MaxCandidates /\ Warm \subseteq state.ids
  /\ \A i \in 1..Len(state.accepted) :
       /\ state.accepted[i] \in goal
       /\ id[state.accepted[i]] \in state.ids /\ id[state.accepted[i]] \notin Warm
       /\ \A j \in 1..Len(state.accepted) : i # j =>
            /\ state.accepted[i].prefix # state.accepted[j].prefix
            /\ id[state.accepted[i]] # id[state.accepted[j]]

EntryVerdicts ==
  {"replay_mismatch", "goal_false", "duplicate", "prefix_candidate_limit",
   "batch_candidate_limit", "accepted"}
Judgements == [verdicts : Seq(EntryVerdicts), accepted : Seq(Seeds), ids : SUBSET Identities]
Sound(goal, id) == {s \in Judgements : Distinct(s, goal, id)}

LEMMA SoundMeans ==
  ASSUME NEW goal, NEW id, NEW s
  PROVE  s \in Sound(goal, id) <=> s \in Judgements /\ Distinct(s, goal, id)
BY DEF Sound

\* The verdict on one more entry keeps that.
LEMMA OneVerdict ==
  ASSUME Augment!AugmentAssumption, NEW seen, NEW goal, NEW id \in [goal -> Identities],
         NEW state \in Sound(goal, id), NEW entry \in Seeds
  PROVE  Augment!Judge(state, entry, seen, goal, id) \in Sound(goal, id)
<1> DEFINE next == Augment!Judge(state, entry, seen, goal, id)
<1>1. /\ state.verdicts \in Seq(EntryVerdicts) /\ state.accepted \in Seq(Seeds)
      /\ state.ids \subseteq Identities /\ Distinct(state, goal, id)
  BY SoundMeans DEF Judgements
<1> DEFINE v == CASE entry \notin seen -> "replay_mismatch"
                  [] entry \notin goal -> "goal_false"
                  [] id[entry] \in state.ids -> "duplicate"
                  [] \E e \in Augment!ToSet(state.accepted) : e.prefix = entry.prefix
                       -> "prefix_candidate_limit"
                  [] Len(state.accepted) >= MaxCandidates -> "batch_candidate_limit"
                  [] OTHER -> "accepted"
<1>2. /\ v \in EntryVerdicts
      /\ next = [verdicts |-> Append(state.verdicts, v),
                 accepted |-> IF v = "accepted" THEN Append(state.accepted, entry)
                              ELSE state.accepted,
                 ids |-> IF v = "accepted" THEN state.ids \union {id[entry]} ELSE state.ids]
      /\ v = "accepted" =>
           /\ entry \in goal /\ id[entry] \notin state.ids
           /\ ~\E e \in Augment!ToSet(state.accepted) : e.prefix = entry.prefix
           /\ ~(Len(state.accepted) >= MaxCandidates)
  <2>1. v \in EntryVerdicts
    BY DEF EntryVerdicts
  <2>2. v = "accepted" =>
           /\ entry \in goal /\ id[entry] \notin state.ids
           /\ ~\E e \in Augment!ToSet(state.accepted) : e.prefix = entry.prefix
           /\ ~(Len(state.accepted) >= MaxCandidates)
    OBVIOUS
  <2>3. next = [verdicts |-> Append(state.verdicts, v),
                accepted |-> IF v = "accepted" THEN Append(state.accepted, entry)
                             ELSE state.accepted,
                ids |-> IF v = "accepted" THEN state.ids \union {id[entry]} ELSE state.ids]
    BY DEF Augment!Judge
  <2> HIDE DEF v, next
  <2> QED BY <2>1, <2>2, <2>3
<1> HIDE DEF next, v
<1>3. /\ Len(state.accepted) \in Nat /\ MaxCandidates \in Nat
      /\ Append(state.verdicts, v) \in Seq(EntryVerdicts)
  BY <1>1, <1>2 DEF Augment!AugmentAssumption
<1>4. CASE v # "accepted"
  <2>1. next.accepted = state.accepted /\ next.ids = state.ids /\ next \in Judgements
    BY <1>1, <1>2, <1>3, <1>4 DEF Judgements
  <2>2. Distinct(next, goal, id)
    BY <1>1, <2>1 DEF Distinct
  <2>3. next \in Sound(goal, id)
    BY <2>1, <2>2, SoundMeans
  <2> QED BY <2>3 DEF next
<1>5. CASE v = "accepted"
  <2> DEFINE L == Len(state.accepted)
             longer == Append(state.accepted, entry)
  <2>1. /\ longer \in Seq(Seeds) /\ Len(longer) = L + 1 /\ longer[L + 1] = entry
        /\ \A i \in 1..L : longer[i] = state.accepted[i]
    BY <1>1, <1>3
  <2>2. L \in Nat /\ L + 1 <= MaxCandidates
    BY <1>2, <1>3, <1>5
  <2>3. entry \in goal /\ id[entry] \notin state.ids /\ id[entry] \in Identities
    BY <1>2, <1>5
  <2>4. \A i \in 1..L : state.accepted[i].prefix # entry.prefix
    <3>1. DOMAIN state.accepted = 1..L
      BY <1>1
    <3> QED BY <1>2, <1>5, <3>1 DEF Augment!ToSet
  <2>5. next.accepted = longer /\ next.ids = state.ids \union {id[entry]}
    BY <1>2, <1>5
  <2>6. next \in Judgements
    <3>1. state.ids \union {id[entry]} \subseteq Identities
      BY <1>1, <2>3
    <3> HIDE DEF longer
    <3> QED BY <1>2, <1>3, <1>5, <2>1, <3>1 DEF Judgements, longer
  <2> HIDE DEF L, longer
  <2>7. \A i \in 1..(L + 1) : i \in 1..L \/ i = L + 1
    BY <2>2
  <2>8. ASSUME NEW i \in 1..(L + 1)
        PROVE  /\ longer[i] \in goal /\ id[longer[i]] \in next.ids /\ id[longer[i]] \notin Warm
               /\ \A j \in 1..(L + 1) : i # j =>
                    longer[i].prefix # longer[j].prefix /\ id[longer[i]] # id[longer[j]]
    <3>1. \A k \in 1..L :
            /\ state.accepted[k] \in goal
            /\ id[state.accepted[k]] \in state.ids /\ id[state.accepted[k]] \notin Warm
            /\ \A j \in 1..L : k # j =>
                 /\ state.accepted[k].prefix # state.accepted[j].prefix
                 /\ id[state.accepted[k]] # id[state.accepted[j]]
      BY <1>1 DEF Distinct, L
    <3>2. Warm \subseteq state.ids
      BY <1>1 DEF Distinct
    <3>3. CASE i = L + 1
      BY <2>1, <2>3, <2>4, <2>5, <2>7, <3>1, <3>2, <3>3
    <3>4. CASE i \in 1..L
      BY <2>1, <2>3, <2>4, <2>5, <2>7, <3>1, <3>2, <3>4
    <3> QED BY <2>7, <3>3, <3>4
  <2>9. Warm \subseteq next.ids
    BY <1>1, <2>5 DEF Distinct
  <2>10. Distinct(next, goal, id)
    BY <2>1, <2>2, <2>5, <2>8, <2>9 DEF Distinct
  <2>11. next \in Sound(goal, id)
    BY <2>6, <2>10, SoundMeans
  <2> QED BY <2>11 DEF next
<1> QED BY <1>4, <1>5

\* So do the verdicts on all entries, in their order.
LEMMA AllVerdicts ==
  ASSUME Augment!AugmentAssumption, NEW list \in Seq(Seeds), NEW seen, NEW goal,
         NEW id, id \in [goal -> Identities]
  PROVE  Augment!Judged(list, seen, goal, id) \in Sound(goal, id)
<1> DEFINE N == Len(list)
           V == Sound(goal, id)
           start == [verdicts |-> <<>>, accepted |-> <<>>, ids |-> Warm]
           Step(n, v) == Augment!Judge(v, list[n], seen, goal, id)
           F == [n \in 1..N |-> [v \in V |-> Step(n, v)]]
           Meets(f) == f = [n \in 0..N |->
             IF n = 0 THEN [verdicts |-> <<>>, accepted |-> <<>>, ids |-> Warm]
             ELSE Augment!Judge(f[n - 1], list[n], seen, goal, id)]
           g == CHOOSE g : Meets(g)
<1>1. N \in Nat /\ \A n \in 1..N : list[n] \in Seeds
  OBVIOUS
<1>2. Augment!Judged(list, seen, goal, id) = g[N]
  BY DEF Augment!Judged
<1>3. start \in V
  <2>1. start \in Judgements /\ Len(<<>>) = 0
    BY DEF Augment!AugmentAssumption, Judgements
  <2>2. Distinct(start, goal, id)
    BY <2>1 DEF Distinct, Augment!AugmentAssumption
  <2> QED BY <2>1, <2>2, SoundMeans
<1> HIDE DEF N, g
<1>4. F \in [1..N -> [V -> V]]
  <2>1. ASSUME NEW n \in 1..N, NEW v \in V PROVE Step(n, v) \in V
    BY <1>1, OneVerdict
  <2> HIDE DEF Step, V
  <2> QED BY <2>1
<1> HIDE DEF F, V, start, Step
<1>5. PICK f \in [0..N -> V] : f[0] = start /\ \A n \in 1..N : f[n] = F[n][f[n - 1]]
  <2>1. N \in Nat /\ F \in [1..N -> [V -> V]] /\ start \in V
    BY <1>1, <1>3, <1>4
  <2>2. \E f \in [0..N -> V] : f[0] = start /\ \A n \in 1..N : f[n] = F[n][f[n - 1]]
    BY ONLY <2>1, Recursion
  <2> QED BY <2>2
<1>6. \A n \in 1..N : f[n] = Step(n, f[n - 1])
  <2>1. \A n \in 1..N : f[n - 1] \in V
    BY <1>1, <1>5
  <2> QED BY <1>5, <2>1 DEF F
<1>7. Meets(f)
  <2> DEFINE h == [n \in 0..N |-> IF n = 0 THEN start ELSE Step(n, f[n - 1])]
  <2>1. \A n \in 0..N : n = 0 \/ n \in 1..N
    BY <1>1
  <2>2. \A n \in 0..N : f[n] = h[n]
    BY <1>5, <1>6, <2>1
  <2>3. f = [n \in 0..N |-> f[n]] /\ h = [n \in 0..N |-> h[n]]
    BY <1>5
  <2> HIDE DEF h
  <2>4. f = h
    BY <2>2, <2>3
  <2> QED BY <2>4 DEF h, start, Step
<1>8. Meets(g)
  BY <1>7 DEF g
<1>9. \A n \in 0..N : g[n] = IF n = 0 THEN start ELSE Step(n, g[n - 1])
  <2> DEFINE h == [n \in 0..N |-> IF n = 0 THEN start ELSE Step(n, g[n - 1])]
  <2>1. g = h
    BY <1>8 DEF start, Step
  <2>2. \A n \in 0..N : h[n] = IF n = 0 THEN start ELSE Step(n, g[n - 1])
    OBVIOUS
  <2> HIDE DEF h
  <2> QED BY <2>1, <2>2
<1>10. g[0] = start /\ \A n \in 1..N : g[n - 1] \in V => g[n] = F[n][g[n - 1]]
  <2>1. 0 \in 0..N /\ \A n \in 1..N : n \in 0..N /\ n # 0
    BY <1>1
  <2> QED BY <1>9, <2>1 DEF F
<1>11. \A n \in 0..N : g[n] \in V
  <2>1. N \in Nat /\ F \in [1..N -> [V -> V]] /\ start \in V
    BY <1>1, <1>3, <1>4
  <2> QED BY <1>10, <2>1, RecursionMet
<1> QED BY <1>1, <1>2, <1>11 DEF V

LEMMA ToolList ==
  /\ Augment!ToSet(Augment!Tools) = ToolPhases
  /\ DOMAIN Augment!Tools = 1..7
<1>1. DOMAIN Augment!Tools = 1..7
  BY DEF Augment!Tools
<1>2. Augment!ToSet(Augment!Tools) = {Augment!Tools[i] : i \in 1..7}
  BY <1>1 DEF Augment!ToSet
<1>3. 1..7 = {1, 2, 3, 4, 5, 6, 7}
  OBVIOUS
<1>4. /\ Augment!Tools[1] = "prefix_check" /\ Augment!Tools[2] = "build"
      /\ Augment!Tools[3] = "goal" /\ Augment!Tools[4] = "replay"
      /\ Augment!Tools[5] = "concrete_build" /\ Augment!Tools[6] = "encode"
      /\ Augment!Tools[7] = "decode"
  BY DEF Augment!Tools
<1> QED BY <1>1, <1>2, <1>3, <1>4 DEF ToolPhases

\* One tool follows another; the reading of the file comes after the writing.
LEMMA ToolFollows ==
  ASSUME NEW t \in ToolPhases
  PROVE  /\ t = "decode" => Augment!Follows(t) = "loop"
         /\ t # "decode" => Augment!Follows(t) \in ToolPhases
         /\ Augment!Follows(t) = "decode" <=> t = "encode"
<1> DEFINE T == Augment!Tools
           at(tool) == CHOOSE i \in DOMAIN T : T[i] = tool
<1>1. /\ T[1] = "prefix_check" /\ T[2] = "build" /\ T[3] = "goal" /\ T[4] = "replay"
      /\ T[5] = "concrete_build" /\ T[6] = "encode" /\ T[7] = "decode"
  BY DEF Augment!Tools
<1>2. DOMAIN T = {1, 2, 3, 4, 5, 6, 7}
  BY ToolList
<1>3. CASE t = "decode"
  BY <1>3 DEF Augment!Follows
<1>4. CASE t # "decode"
  <2>1. Augment!Follows(t) = T[at(t) + 1]
    BY <1>4 DEF Augment!Follows
  <2> HIDE DEF T
  <2>2. \E i \in DOMAIN T : T[i] = t
    BY <1>1, <1>2 DEF ToolPhases
  <2>3. at(t) \in DOMAIN T /\ T[at(t)] = t
    BY <2>2
  <2> HIDE DEF at
  <2>4. at(t) \in {1, 2, 3, 4, 5, 6}
    BY <1>1, <1>2, <1>4, <2>3
  <2>5. T[at(t) + 1] \in ToolPhases
    BY <1>1, <2>4 DEF ToolPhases
  <2>6. T[at(t) + 1] = "decode" <=> t = "encode"
    BY <1>1, <2>3, <2>4
  <2> QED BY <1>4, <2>1, <2>5, <2>6
<1> QED BY <1>3, <1>4

\* The requests are a list, in which nothing but requests is.
LEMMA RequestsAreListed ==
  ASSUME Augment!AugmentAssumption
  PROVE  Augment!Requests \in Seq(Seeds)
<1> DEFINE L == Len(Augment!ConcreteValues)
           n == NumPrefixes * L
<1>1. n \in Nat
  <2>1. L \in Nat /\ NumPrefixes \in Nat
    BY ValuesAreListed DEF Augment!AugmentAssumption
  <2> HIDE DEF L
  <2> QED BY <2>1
<1>2. DOMAIN Augment!Requests = 1..n /\ Augment!Requests = [k \in 1..n |-> Augment!Requests[k]]
  BY DEF Augment!Requests
<1> HIDE DEF n
<1>3. \A k \in 1..n : Augment!Requests[k] \in Seeds
  BY <1>2 DEF Seeds, Augment!ToSet
<1> QED BY <1>1, <1>2, <1>3

\* What can be answered is not what is noted of an attempt that was cut short.
LEMMA AnswersAre ==
  ASSUME NEW t \in ToolPhases, NEW s \in Augment!Negative[t]
  PROVE  s \in Answers /\ s # "cut_short"
<1>1. s \in Answers
  BY DEF Answers
<1>2. Augment!Negative[t] =
        CASE t = "prefix_check" -> {"prefix_incomplete", "timeout", "stuck", "all_paths_reverted"}
          [] t = "goal" -> {"no_witness_within_bounds", "timeout", "stuck",
                            "all_paths_reverted", "invalid_model"}
          [] t = "replay" -> {"replay_mismatch", "timeout", "wrong_confirmation"}
          [] OTHER -> {}
  BY ToolList DEF Augment!Negative
<1> QED BY <1>1, <1>2

LEMMA SeedsAdded ==
  ASSUME prefix \in Nat
  PROVE  Augment!Present \in Seeds
BY DEF Augment!Present, Seeds

LEMMA AugmentStarts ==
  ASSUME Augment!AugmentAssumption, Augment!Init PROVE AugmentInv
<1>1. <<>> \in Seq(Seeds) /\ <<>> \in Seq(Answers) /\ Len(<<>>) = 0 /\ DOMAIN <<>> = {}
  OBVIOUS
<1>2. 0 <= MaxCandidates
  BY DEF Augment!AugmentAssumption
<1>3. AugmentTypes
  BY <1>1 DEF Augment!Init, AugmentTypes
<1>4. CorpusHasEntries
  BY DEF Augment!Init, CorpusHasEntries, ToolPhases, ToSet
<1>5. AnswersRemembered
  BY <1>1 DEF Augment!Init, AnswersRemembered, ToolPhases
<1>6. Augment!OnlyCommittedExecuted /\ Augment!AcceptedSeedsDiffer /\ Augment!OutcomeTellsWhy
  BY <1>1, <1>2 DEF Augment!Init, Augment!OnlyCommittedExecuted, Augment!AcceptedSeedsDiffer,
     Augment!OutcomeTellsWhy
<1> QED BY <1>3, <1>4, <1>5, <1>6 DEF AugmentInv

\* What the status says when nothing was accepted.
LEMMA NothingFound ==
  ASSUME AnswersRemembered, AugmentTypes, accepted' = <<>>, attempts' = attempts,
         status' = Augment!Summary("no_candidate")
  PROVE  Augment!OutcomeTellsWhy'
<1>1. DOMAIN attempts = 1..Len(attempts)
  BY DEF AugmentTypes
<1>2. status' = Augment!Unsuccessful(negatives)
  BY DEF Augment!Summary
<1>3. /\ status' \in {"timeout", "invalid_model", "replay_mismatch", "no_candidate"}
      /\ "timeout" \in negatives => status' = "timeout"
      /\ status' = "no_candidate" =>
           \A s \in {"timeout", "invalid_model", "replay_mismatch"} : s \notin negatives
  BY <1>2 DEF Augment!Unsuccessful
<1> QED BY <1>1, <1>3 DEF Augment!OutcomeTellsWhy, AnswersRemembered

\* The answer of the batch keeps what holds of the search and its seeds.
LEMMA BatchAnswers ==
  ASSUME Augment!AugmentAssumption, AugmentTypes, CorpusHasEntries, AnswersRemembered,
         Augment!ValidateBatch
  PROVE  AugmentInv'
<1>1. /\ phase = "validate" /\ entries # <<>> /\ phase' = "done" /\ executed' = corpus
      /\ UNCHANGED <<prefix, attempts, negatives, entries, corpus>>
  BY DEF Augment!ValidateBatch, Augment!Return
<1>2. PICK seen, goal, id :
        /\ seen \subseteq corpus /\ goal \subseteq seen /\ id \in [goal -> Identities]
        /\ verdicts' = Augment!Judged(entries, seen, goal, id).verdicts
        /\ accepted' = Augment!Judged(entries, seen, goal, id).accepted
        /\ identity' = id
        /\ status' = Augment!Summary(
             IF Augment!Judged(entries, seen, goal, id).accepted # <<>>
             THEN "completed" ELSE "no_candidate")
  BY DEF Augment!ValidateBatch, Augment!Return
<1> DEFINE judged == Augment!Judged(entries, seen, goal, id)
<1>3. judged \in Judgements /\ Distinct(judged, goal, id)
  <2>1. judged \in Sound(goal, id)
    BY <1>2, AllVerdicts DEF AugmentTypes
  <2> QED BY <2>1, SoundMeans
<1> HIDE DEF judged
<1>4. accepted' = judged.accepted /\ judged.accepted \in Seq(Seeds)
  BY <1>2, <1>3 DEF Judgements, judged
<1>5. AugmentTypes' /\ CorpusHasEntries' /\ AnswersRemembered'
  BY <1>1 DEF AugmentTypes, CorpusHasEntries, AnswersRemembered, ToolPhases
<1>6. Augment!OnlyCommittedExecuted'
  BY <1>1 DEF Augment!OnlyCommittedExecuted, CorpusHasEntries, ToSet, Augment!ToSet
<1>7. Augment!AcceptedSeedsDiffer'
  <2>1. DOMAIN accepted' = 1..Len(accepted')
    BY <1>4
  <2>2. goal \subseteq executed'
    BY <1>1, <1>2
  <2> QED BY <1>2, <1>3, <1>4, <2>1, <2>2 DEF Augment!AcceptedSeedsDiffer, Distinct
<1>8. Augment!OutcomeTellsWhy'
  <2>1. CASE accepted' = <<>>
    <3>1. status' = Augment!Summary("no_candidate")
      BY <1>2, <1>4, <2>1 DEF judged
    <3> QED BY <1>1, <2>1, <3>1, NothingFound
  <2>2. CASE accepted' # <<>>
    <3>1. status' = "completed"
      BY <1>2, <1>4, <2>2 DEF judged, Augment!Summary
    <3> QED BY <2>2, <3>1 DEF Augment!OutcomeTellsWhy
  <2> QED BY <2>1, <2>2
<1> QED BY <1>5, <1>6, <1>7, <1>8 DEF AugmentInv

\* Nothing was run and nothing accepted: there is nothing to answer for yet.
LEMMA NothingAccepted ==
  ASSUME Augment!AugmentAssumption, executed' = {}, accepted' = <<>>,
         status' \in {"pending", "raised", "timeout"}
  PROVE  /\ Augment!OnlyCommittedExecuted' /\ Augment!AcceptedSeedsDiffer'
         /\ Augment!OutcomeTellsWhy'
<1>1. Len(<<>>) = 0 /\ DOMAIN <<>> = {} /\ 0 <= MaxCandidates
  BY DEF Augment!AugmentAssumption
<1> QED
  BY <1>1 DEF Augment!OnlyCommittedExecuted, Augment!AcceptedSeedsDiffer, Augment!OutcomeTellsWhy

\* An attempt that ends has one answer.
LEMMA AttemptCloses ==
  ASSUME attempts \in Seq(Answers), attempts # <<>>, NEW s \in Answers
  PROVE  /\ Augment!Closed(s) \in Seq(Answers) /\ Augment!Closed(s) # <<>>
         /\ Len(Augment!Closed(s)) = Len(attempts)
         /\ \A i \in 1..Len(attempts) :
              Augment!Closed(s)[i] = s \/ Augment!Closed(s)[i] = attempts[i]
<1>1. Len(attempts) \in Nat /\ Len(attempts) \in 1..Len(attempts)
  OBVIOUS
<1> QED BY <1>1 DEF Augment!Closed

\* What is remembered stays so when one answer is noted and remembered.
LEMMA ClosingIsRemembered ==
  ASSUME AugmentTypes, AnswersRemembered, attempts # <<>>, NEW s \in Answers,
         attempts' = Augment!Closed(s), negatives \subseteq negatives',
         s \in {"timeout", "invalid_model", "replay_mismatch"} => s \in negatives',
         s = "cut_short" => "timeout" \in negatives'
  PROVE  attempts' \in Seq(Answers) /\ AnswersRemembered'
<1>1. attempts \in Seq(Answers)
  BY DEF AugmentTypes
<1>2. /\ attempts' \in Seq(Answers) /\ attempts' # <<>> /\ Len(attempts') = Len(attempts)
      /\ \A i \in 1..Len(attempts) : attempts'[i] = s \/ attempts'[i] = attempts[i]
  BY <1>1, AttemptCloses
<1> QED BY <1>2 DEF AnswersRemembered

\* Nor does a further attempt that is still open forget anything.
LEMMA AttemptOpens ==
  ASSUME AugmentTypes, AnswersRemembered,
         NEW s \in {"open", "not_attempted_budget_reserve"},
         attempts' = Append(attempts, s), negatives' = negatives
  PROVE  attempts' \in Seq(Answers) /\ AnswersRemembered'
<1> DEFINE L == Len(attempts)
<1>1. attempts \in Seq(Answers) /\ s \in Answers
  BY DEF AugmentTypes, Answers
<1>2. /\ attempts' \in Seq(Answers) /\ attempts' # <<>> /\ Len(attempts') = L + 1 /\ L \in Nat
      /\ attempts'[L + 1] = s /\ \A i \in 1..L : attempts'[i] = attempts[i]
  BY <1>1
<1> HIDE DEF L
<1>3. \A i \in 1..(L + 1) : i \in 1..L \/ i = L + 1
  BY <1>2
<1> QED BY <1>2, <1>3 DEF AnswersRemembered, L

\* One more entry, whose file the corpus has.
LEMMA EntryJoins ==
  ASSUME entries \in Seq(Seeds), NEW e \in Seeds
  PROVE  Append(entries, e) \in Seq(Seeds) /\ ToSet(Append(entries, e)) = ToSet(entries) \union {e}
<1> DEFINE L == Len(entries)
           longer == Append(entries, e)
<1>1. /\ longer \in Seq(Seeds) /\ DOMAIN longer = 1..(L + 1) /\ DOMAIN entries = 1..L /\ L \in Nat
      /\ longer[L + 1] = e /\ \A i \in 1..L : longer[i] = entries[i]
  OBVIOUS
<1> HIDE DEF L, longer
<1>2. 1..(L + 1) = 1..L \union {L + 1}
  BY <1>1
<1>3. ToSet(longer) = {longer[i] : i \in 1..(L + 1)} /\ ToSet(entries) = {entries[i] : i \in 1..L}
  BY <1>1 DEF ToSet
<1>4. ToSet(longer) = ToSet(entries) \union {e}
  BY <1>1, <1>2, <1>3
<1> QED BY <1>1, <1>4 DEF longer

LEMMA AugmentSteps ==
  ASSUME Augment!AugmentAssumption, AugmentInv, [Augment!Next]_augmentVars
  PROVE  AugmentInv'
<1> USE DEF AugmentInv
<1>1. /\ AugmentTypes /\ CorpusHasEntries /\ AnswersRemembered
      /\ phase # "done" => executed = {} /\ accepted = <<>> /\ status = "pending"
      /\ \A t \in ToolPhases : t \notin {"batch", "loop", "prune", "validate", "done"}
  BY DEF CorpusHasEntries, ToolPhases
<1>2. Augment!ToSet(Augment!Tools) = ToolPhases
  BY ToolList
<1>3. ASSUME executed' = executed, accepted' = accepted, phase # "done",
             status' \in {"pending", "raised", "timeout"}
      PROVE  /\ Augment!OnlyCommittedExecuted' /\ Augment!AcceptedSeedsDiffer'
             /\ Augment!OutcomeTellsWhy'
  BY <1>1, <1>3, NothingAccepted
<1>4. ASSUME Augment!Return("raised"), phase # "done", UNCHANGED <<executed, accepted>>,
             UNCHANGED <<prefix, attempts, negatives, entries>>
      PROVE  AugmentInv'
  <2>1. phase' = "done" /\ status' = "raised"
    BY <1>4 DEF Augment!Return
  <2>2. AugmentTypes' /\ CorpusHasEntries' /\ AnswersRemembered'
    BY <1>1, <1>4, <2>1 DEF AugmentTypes, CorpusHasEntries, AnswersRemembered
  <2> QED BY <1>3, <1>4, <2>1, <2>2
<1>5. CASE Augment!EncodeBatch
  <2>1. /\ phase = "batch" /\ phase' = "validate" /\ corpus' = Augment!ToSet(Augment!Requests)
        /\ entries' = Augment!Requests
        /\ UNCHANGED <<prefix, attempts, negatives, executed, accepted, status>>
    BY <1>5 DEF Augment!EncodeBatch, Augment!batchVars
  <2>2. AugmentTypes'
    BY <1>1, <2>1, RequestsAreListed DEF AugmentTypes
  <2>3. CorpusHasEntries'
    BY <1>1, <2>1 DEF CorpusHasEntries, ToSet, Augment!ToSet
  <2>4. AnswersRemembered'
    BY <1>1, <2>1 DEF AnswersRemembered
  <2> QED BY <1>1, <1>3, <2>1, <2>2, <2>3, <2>4
<1>6. CASE Augment!EncodeBatchFails
  BY <1>4, <1>6 DEF Augment!EncodeBatchFails, Augment!Raise, Augment!batchVars
<1>7. CASE Augment!NextPrefix
  <2>1. /\ phase = "loop" /\ phase' = "prefix_check" /\ prefix' = prefix + 1
        /\ attempts' = Append(attempts, "open")
        /\ UNCHANGED <<negatives, entries, corpus, executed, accepted, status>>
    BY <1>7 DEF Augment!NextPrefix, Augment!batchVars
  <2>2. attempts' \in Seq(Answers) /\ AnswersRemembered'
    BY <1>1, <2>1, AttemptOpens
  <2>3. AugmentTypes'
    BY <1>1, <2>1, <2>2 DEF AugmentTypes, ToolPhases
  <2>4. CorpusHasEntries'
    BY <1>1, <2>1 DEF CorpusHasEntries, ToolPhases
  <2> QED BY <1>1, <1>3, <2>1, <2>2, <2>3, <2>4
<1>8. CASE Augment!BudgetReserve
  <2>1. /\ phase = "loop" /\ phase' = "prune"
        /\ attempts' = Append(attempts, "not_attempted_budget_reserve")
        /\ UNCHANGED <<prefix, negatives, entries, corpus, executed, accepted, status>>
    BY <1>8 DEF Augment!BudgetReserve, Augment!batchVars
  <2>2. attempts' \in Seq(Answers) /\ AnswersRemembered'
    BY <1>1, <2>1, AttemptOpens
  <2>3. AugmentTypes'
    BY <1>1, <2>1, <2>2 DEF AugmentTypes
  <2>4. CorpusHasEntries'
    BY <1>1, <2>1 DEF CorpusHasEntries, ToolPhases
  <2> QED BY <1>1, <1>3, <2>1, <2>2, <2>3, <2>4
<1>9. CASE Augment!LoopOver
  <2>1. /\ phase = "loop" /\ phase' = "prune"
        /\ UNCHANGED <<prefix, attempts, negatives, entries, corpus, executed, accepted, status>>
    BY <1>9 DEF Augment!LoopOver, Augment!batchVars
  <2>2. AugmentTypes' /\ CorpusHasEntries' /\ AnswersRemembered'
    BY <1>1, <2>1 DEF AugmentTypes, CorpusHasEntries, AnswersRemembered, ToolPhases
  <2> QED BY <1>1, <1>3, <2>1, <2>2
<1>10. CASE Augment!ToolSucceeds
  <2>1. /\ phase \in ToolPhases /\ phase' = Augment!Follows(phase)
        /\ corpus' = IF phase = "encode" THEN corpus \union {Augment!Present} ELSE corpus
        /\ IF phase = "decode"
           THEN entries' = Append(entries, Augment!Present) /\ attempts' = Augment!Closed("candidate")
           ELSE UNCHANGED <<entries, attempts>>
        /\ UNCHANGED <<prefix, negatives, executed, accepted, status>>
    BY <1>2, <1>10 DEF Augment!ToolSucceeds, Augment!batchVars
  <2>2. phase # "done" /\ Augment!Present' = Augment!Present
    BY <1>1, <2>1 DEF Augment!Present
  <2>3. CASE phase = "decode"
    <3>1. phase' = "loop" /\ corpus' = corpus /\ Augment!Present \in corpus /\ Augment!Present \in Seeds
      BY <1>1, <2>1, <2>3, ToolFollows, SeedsAdded DEF CorpusHasEntries, AugmentTypes
    <3>2. entries' \in Seq(Seeds) /\ ToSet(entries') = ToSet(entries) \union {Augment!Present}
      BY <1>1, <2>1, <2>3, <3>1, EntryJoins DEF AugmentTypes
    <3>3. attempts' \in Seq(Answers) /\ AnswersRemembered'
      <4>1. attempts # <<>> /\ "candidate" \in Answers
        BY <1>1, <2>1 DEF AnswersRemembered, Answers
      <4> QED BY <1>1, <2>1, <2>3, <4>1, ClosingIsRemembered
    <3>4. AugmentTypes'
      BY <1>1, <2>1, <3>1, <3>2, <3>3 DEF AugmentTypes
    <3>5. CorpusHasEntries'
      BY <1>1, <2>1, <2>2, <3>1, <3>2 DEF CorpusHasEntries, ToolPhases
    <3> QED BY <1>1, <1>3, <2>1, <2>2, <3>3, <3>4, <3>5
  <2>4. CASE phase # "decode"
    <3>1. phase' \in ToolPhases /\ (phase' = "decode" => phase = "encode")
      BY <2>1, <2>4, ToolFollows
    <3>2. AugmentTypes'
      BY <1>1, <2>1, <2>4, <3>1 DEF AugmentTypes
    <3>3. CorpusHasEntries'
      BY <1>1, <2>1, <2>2, <2>4, <3>1 DEF CorpusHasEntries
    <3>4. AnswersRemembered'
      BY <1>1, <2>1, <2>4 DEF AnswersRemembered
    <3> QED BY <1>1, <1>3, <2>1, <2>2, <3>2, <3>3, <3>4
  <2> QED BY <2>3, <2>4
<1>11. ASSUME NEW s, Augment!ToolAnswers(s) PROVE AugmentInv'
  <2>1. /\ phase \in ToolPhases /\ s \in Augment!Negative[phase]
        /\ phase' = "loop" /\ negatives' = negatives \union {s} /\ attempts' = Augment!Closed(s)
        /\ UNCHANGED <<prefix, entries, corpus, executed, accepted, status>>
    BY <1>2, <1>11 DEF Augment!ToolAnswers, Augment!batchVars
  <2>2. s \in Answers /\ s # "cut_short"
    BY <2>1, AnswersAre
  <2>3. attempts' \in Seq(Answers) /\ AnswersRemembered'
    <3>1. attempts # <<>>
      BY <1>1, <2>1 DEF AnswersRemembered
    <3> QED BY <1>1, <2>1, <2>2, <3>1, ClosingIsRemembered
  <2>4. AugmentTypes'
    BY <1>1, <2>1, <2>3 DEF AugmentTypes
  <2>5. CorpusHasEntries'
    BY <1>1, <2>1 DEF CorpusHasEntries, ToolPhases
  <2> QED BY <1>1, <1>3, <2>1, <2>3, <2>4, <2>5
<1>12. CASE Augment!OutOfTime
  <2>1. /\ phase \in ToolPhases /\ phase' = "prune" /\ negatives' = negatives \union {"timeout"}
        /\ attempts' = Augment!Closed("cut_short") /\ corpus \subseteq corpus'
        /\ UNCHANGED <<prefix, entries, executed, accepted, status>>
    BY <1>2, <1>12 DEF Augment!OutOfTime, Augment!batchVars
  <2>2. attempts' \in Seq(Answers) /\ AnswersRemembered'
    <3>1. attempts # <<>> /\ "cut_short" \in Answers
      BY <1>1, <2>1 DEF AnswersRemembered, Answers
    <3> QED BY <1>1, <2>1, <3>1, ClosingIsRemembered
  <2>3. AugmentTypes'
    BY <1>1, <2>1, <2>2 DEF AugmentTypes
  <2>4. CorpusHasEntries'
    BY <1>1, <2>1 DEF CorpusHasEntries, ToolPhases
  <2> QED BY <1>1, <1>3, <2>1, <2>2, <2>3, <2>4
<1>13. CASE Augment!ToolRaises
  <2>1. phase # "done"
    BY <1>1, <1>2, <1>13 DEF Augment!ToolRaises
  <2> QED BY <1>4, <1>13, <2>1 DEF Augment!ToolRaises, Augment!Raise, Augment!batchVars
<1>14. CASE Augment!Prune
  <2>1. /\ phase = "prune" /\ phase' = "validate" /\ corpus' = corpus \intersect Augment!ToSet(entries)
        /\ UNCHANGED <<prefix, attempts, negatives, entries, executed, accepted, status>>
    BY <1>14 DEF Augment!Prune, Augment!batchVars
  <2>2. AugmentTypes' /\ AnswersRemembered'
    BY <1>1, <2>1 DEF AugmentTypes, AnswersRemembered
  <2>3. CorpusHasEntries'
    BY <1>1, <2>1 DEF CorpusHasEntries, ToSet, Augment!ToSet
  <2> QED BY <1>1, <1>3, <2>1, <2>2, <2>3
<1>15. CASE Augment!ValidateBatch
  BY <1>1, <1>15, BatchAnswers
<1>16. CASE Augment!NothingToValidate
  <2>1. /\ phase = "validate" /\ phase' = "done" /\ status' = Augment!Summary("no_candidate")
        /\ UNCHANGED <<prefix, attempts, negatives, entries, corpus, executed, accepted>>
    BY <1>16 DEF Augment!NothingToValidate, Augment!Return, Augment!batchVars
  <2>2. AugmentTypes' /\ CorpusHasEntries' /\ AnswersRemembered'
    BY <1>1, <2>1 DEF AugmentTypes, CorpusHasEntries, AnswersRemembered
  <2>3. Augment!OutcomeTellsWhy'
    BY <1>1, <2>1, NothingFound
  <2>4. Augment!OnlyCommittedExecuted' /\ Augment!AcceptedSeedsDiffer'
    <3>1. Len(<<>>) = 0 /\ DOMAIN <<>> = {} /\ 0 <= MaxCandidates
      BY DEF Augment!AugmentAssumption
    <3> QED BY <1>1, <2>1, <3>1 DEF Augment!OnlyCommittedExecuted, Augment!AcceptedSeedsDiffer
  <2> QED BY <2>2, <2>3, <2>4
<1>17. CASE Augment!ValidationTimesOut
  <2>1. /\ phase = "validate" /\ phase' = "done" /\ status' = "timeout"
        /\ negatives' = negatives \union {"timeout"} /\ executed' \in {{}, corpus}
        /\ UNCHANGED <<prefix, attempts, entries, corpus, accepted>>
    BY <1>17 DEF Augment!ValidationTimesOut, Augment!Return
  <2>2. AugmentTypes' /\ CorpusHasEntries' /\ AnswersRemembered'
    BY <1>1, <2>1 DEF AugmentTypes, CorpusHasEntries, AnswersRemembered
  <2>3. Augment!OnlyCommittedExecuted'
    BY <1>1, <2>1 DEF Augment!OnlyCommittedExecuted, CorpusHasEntries, ToSet, Augment!ToSet
  <2>4. Augment!AcceptedSeedsDiffer' /\ Augment!OutcomeTellsWhy'
    <3>1. Len(<<>>) = 0 /\ DOMAIN <<>> = {} /\ 0 <= MaxCandidates
      BY DEF Augment!AugmentAssumption
    <3> QED BY <1>1, <2>1, <3>1 DEF Augment!AcceptedSeedsDiffer, Augment!OutcomeTellsWhy
  <2> QED BY <2>2, <2>3, <2>4
<1>18. CASE Augment!ValidationRaises
  <2>1. phase # "done"
    BY <1>18 DEF Augment!ValidationRaises
  <2> QED BY <1>4, <1>18, <2>1 DEF Augment!ValidationRaises, Augment!Raise, Augment!batchVars
<1>19. CASE UNCHANGED augmentVars
  BY <1>19 DEF augmentVars, AugmentTypes, CorpusHasEntries, AnswersRemembered, Augment!Present,
     Augment!OnlyCommittedExecuted, Augment!AcceptedSeedsDiffer, Augment!OutcomeTellsWhy
<1>20. QED
  BY <1>5, <1>6, <1>7, <1>8, <1>9, <1>10, <1>11, <1>12, <1>13, <1>14, <1>15, <1>16, <1>17, <1>18,
     <1>19 DEF Augment!Next

----------------------------------------------------------------------------
(* The assignments taken from the models of a document *)

Assigned(models) == {Solver!Assignment(models[i]) : i \in DOMAIN models}

\* The assignments of the valid ones.
Valued(models) ==
  {Solver!Assignment(models[i]) : i \in {i \in DOMAIN models : models[i].flag = "valid"}}

LEMMA ValuedMeans ==
  ASSUME NEW models, NEW a
  PROVE  a \in Valued(models) <=>
           \E i \in DOMAIN models : models[i].flag = "valid" /\ a = Solver!Assignment(models[i])
BY Zenon DEF Valued

\* One model: taken if it is valid and not there yet.
Taking(models, n, v) ==
  IF models[n].flag # "valid" \/ Solver!Assignment(models[n]) \in Solver!Range(v)
  THEN v ELSE Append(v, Solver!Assignment(models[n]))

\* The steps that lead to the candidates.
Takes(models, f) ==
  /\ f \in [0..Len(models) -> Seq(Assigned(models))] /\ f[0] = <<>>
  /\ \A n \in 1..Len(models) : f[n] = Taking(models, n, f[n - 1])

\* The definition of Candidates is met: they are the last of such steps.
LEMMA CandidateSteps ==
  ASSUME NEW T, NEW models \in Seq(T)
  PROVE  \E f : Takes(models, f) /\ Solver!Candidates(models) = f[Len(models)]
<1> DEFINE N == Len(models)
           V == Seq(Assigned(models))
           start == <<>>
           Step(n, v) == Taking(models, n, v)
           F == [n \in 1..N |-> [v \in V |-> Step(n, v)]]
           Meets(f) == f = [n \in 0..N |->
             IF n = 0 THEN <<>>
             ELSE IF models[n].flag # "valid"
                     \/ Solver!Assignment(models[n]) \in Solver!Range(f[n - 1])
                  THEN f[n - 1] ELSE Append(f[n - 1], Solver!Assignment(models[n]))]
           g == CHOOSE g : Meets(g)
<1>1. N \in Nat /\ \A n \in 1..N : Solver!Assignment(models[n]) \in Assigned(models)
  BY DEF Assigned
<1>2. Solver!Candidates(models) = g[N]
  BY DEF Solver!Candidates
<1>3. start \in V
  OBVIOUS
<1> HIDE DEF g
<1>4. F \in [1..N -> [V -> V]]
  <2>1. ASSUME NEW n \in 1..N, NEW v \in V PROVE Step(n, v) \in V
    BY <1>1 DEF Taking
  <2> HIDE DEF Step, V, N
  <2> QED BY <2>1
<1> HIDE DEF F, V, start, Step, N
<1>5. PICK f \in [0..N -> V] : f[0] = start /\ \A n \in 1..N : f[n] = F[n][f[n - 1]]
  <2>1. N \in Nat /\ F \in [1..N -> [V -> V]] /\ start \in V
    BY <1>1, <1>3, <1>4
  <2>2. \E f \in [0..N -> V] : f[0] = start /\ \A n \in 1..N : f[n] = F[n][f[n - 1]]
    BY ONLY <2>1, Recursion
  <2> QED BY <2>2
<1>6. \A n \in 1..N : f[n] = Step(n, f[n - 1])
  <2>1. \A n \in 1..N : f[n - 1] \in V
    BY <1>1, <1>5
  <2> QED BY <1>5, <2>1 DEF F
<1>7. Meets(f)
  <2> DEFINE h == [n \in 0..N |-> IF n = 0 THEN start ELSE Step(n, f[n - 1])]
  <2>1. \A n \in 0..N : n = 0 \/ n \in 1..N
    BY <1>1
  <2>2. \A n \in 0..N : f[n] = h[n]
    BY <1>5, <1>6, <2>1
  <2>3. f = [n \in 0..N |-> f[n]] /\ h = [n \in 0..N |-> h[n]]
    BY <1>5
  <2> HIDE DEF h
  <2>4. f = h
    BY <2>2, <2>3
  <2> QED BY <2>4 DEF h, start, Step, Taking
<1>8. Meets(g)
  BY <1>7 DEF g
<1>9. \A n \in 0..N : g[n] = IF n = 0 THEN start ELSE Step(n, g[n - 1])
  <2> DEFINE h == [n \in 0..N |-> IF n = 0 THEN start ELSE Step(n, g[n - 1])]
  <2>1. g = h
    BY <1>8 DEF start, Step, Taking
  <2>2. \A n \in 0..N : h[n] = IF n = 0 THEN start ELSE Step(n, g[n - 1])
    OBVIOUS
  <2> HIDE DEF h
  <2> QED BY <2>1, <2>2
<1>10. g = [n \in 0..N |-> g[n]]
  <2> DEFINE h == [n \in 0..N |-> IF n = 0 THEN start ELSE Step(n, g[n - 1])]
  <2>1. g = h
    BY <1>8 DEF start, Step, Taking
  <2>2. h = [n \in 0..N |-> h[n]]
    OBVIOUS
  <2> HIDE DEF h
  <2> QED BY <2>1, <2>2
<1>11. g[0] = start /\ \A n \in 1..N : g[n] = Step(n, g[n - 1])
  <2>1. 0 \in 0..N /\ \A n \in 1..N : n \in 0..N /\ n # 0
    BY <1>1
  <2> QED BY <1>9, <2>1
<1>12. \A n \in 0..N : g[n] \in V
  <2>1. N \in Nat /\ F \in [1..N -> [V -> V]] /\ start \in V
    BY <1>1, <1>3, <1>4
  <2>2. \A n \in 1..N : g[n - 1] \in V => g[n] = F[n][g[n - 1]]
    BY <1>11 DEF F
  <2> QED BY <1>11, <2>1, <2>2, RecursionMet
<1>13. g \in [0..N -> V]
  BY <1>10, <1>12
<1>14. Takes(models, g)
  BY <1>11, <1>13 DEF Takes, start, V, N, Step
<1> QED BY <1>2, <1>14 DEF N

\* A list whose entries differ has as many entries as values.
LEMMA SameCardinality == ASSUME NEW S PROVE Solver!Cardinality(S) = Cardinality(S)
BY DEF Solver!Cardinality, Cardinality

LEMMA AsManyAsEntries ==
  ASSUME NEW T, NEW c \in Seq(T), \A i, j \in 1..Len(c) : c[i] = c[j] => i = j
  PROVE  Cardinality(Solver!Range(c)) = Len(c)
<1> DEFINE n == Len(c)
           S == Solver!Range(c)
<1>1. n \in Nat /\ c \in [1..n -> S] /\ S = {c[i] : i \in 1..n}
  BY DEF Solver!Range
<1>2. \A x \in S : \E i \in 1..n : c[i] = x
  BY <1>1
<1>3. \A i, j \in 1..n : c[i] = c[j] => i = j
  OBVIOUS
<1> HIDE DEF n, S
<1>4. IsFiniteSet(1..n) /\ Cardinality(1..n) = n
  BY <1>1, CountTo
<1>5. ExistsBijection(1..n, S)
  <2>1. c \in Bijection(1..n, S)
    BY <1>1, <1>2, <1>3, Fun_IsBij
  <2> QED BY <2>1 DEF ExistsBijection
<1>6. Cardinality(S) = n
  BY <1>4, <1>5, FS_Bijection
<1> QED BY <1>6 DEF n, S

\* The candidates are the assignments of the valid models, each once.
LEMMA CandidatesAre ==
  ASSUME NEW T, NEW models \in Seq(T)
  PROVE  /\ Solver!Candidates(models) \in Seq(Assigned(models))
         /\ Solver!Range(Solver!Candidates(models)) = Valued(models)
         /\ Cardinality(Solver!Range(Solver!Candidates(models))) = Len(Solver!Candidates(models))
<1> DEFINE N == Len(models)
           A(i) == Solver!Assignment(models[i])
           Valid(i) == models[i].flag = "valid"
           Upto(n) == {A(i) : i \in {i \in 1..n : Valid(i)}}
           c == Solver!Candidates(models)
           V == Seq(Assigned(models))
<1>1. PICK f : Takes(models, f) /\ c = f[N]
  BY CandidateSteps
<1>2. N \in Nat /\ f \in [0..N -> V] /\ f[0] = <<>> /\ DOMAIN models = 1..N
  BY <1>1 DEF Takes
<1>3. \A n \in 1..N : f[n] = IF ~Valid(n) \/ A(n) \in Solver!Range(f[n - 1])
                             THEN f[n - 1] ELSE Append(f[n - 1], A(n))
  BY <1>1 DEF Takes, Taking
<1> DEFINE Right(v, n) == /\ Solver!Range(v) = Upto(n)
                          /\ \A i, j \in 1..Len(v) : v[i] = v[j] => i = j
           right == {n \in Nat : n <= N => Right(f[n], n)}
<1> HIDE DEF A, Valid, c, V, N
<1>4. 0 \in right
  <2>1. Solver!Range(<<>>) = {} /\ Len(<<>>) = 0 /\ Upto(0) = {}
    BY DEF Solver!Range
  <2>2. Right(<<>>, 0)
    BY <2>1
  <2> QED BY <1>2, <2>2
<1>5. ASSUME NEW n \in Nat, n \in right PROVE n + 1 \in right
  <2>1. SUFFICES ASSUME n + 1 <= N PROVE Right(f[n + 1], n + 1)
    OBVIOUS
  <2>2. /\ n + 1 \in 1..N /\ n \in 0..N /\ (n + 1) - 1 = n /\ f[n] \in V
        /\ Right(f[n], n)
    BY <1>2, <1>5, <2>1
  <2>3. Upto(n + 1) = IF Valid(n + 1) THEN Upto(n) \union {A(n + 1)} ELSE Upto(n)
    <3>1. 1..(n + 1) = 1..n \union {n + 1}
      BY <1>5
    <3> QED BY <3>1
  <2>4. CASE ~Valid(n + 1) \/ A(n + 1) \in Solver!Range(f[n])
    <3>1. f[n + 1] = f[n]
      BY <1>3, <2>2, <2>4
    <3>2. Upto(n + 1) = Upto(n)
      BY <2>2, <2>3, <2>4
    <3> QED BY <2>2, <3>1, <3>2
  <2>5. CASE Valid(n + 1) /\ A(n + 1) \notin Solver!Range(f[n])
    <3> DEFINE v == f[n]
               a == A(n + 1)
               w == Append(v, a)
    <3>1. f[n + 1] = w
      BY <1>3, <2>2, <2>5
    <3>2. v \in V /\ Right(v, n)
      BY <2>2
    <3>3. a \notin Solver!Range(v) /\ Upto(n + 1) = Solver!Range(v) \union {a}
      BY <2>3, <2>5, <3>2
    <3> HIDE DEF v, a
    <3>4. /\ Len(v) \in Nat /\ DOMAIN v = 1..Len(v) /\ Len(w) = Len(v) + 1
          /\ DOMAIN w = 1..(Len(v) + 1)
          /\ w[Len(v) + 1] = a /\ \A i \in 1..Len(v) : w[i] = v[i]
      BY <3>2 DEF V
    <3> HIDE DEF w
    <3>5. Solver!Range(w) = Solver!Range(v) \union {a}
      <4>1. 1..(Len(v) + 1) = 1..Len(v) \union {Len(v) + 1}
        BY <3>4
      <4> QED BY <3>4, <4>1 DEF Solver!Range
    <3>6. ASSUME NEW i \in 1..Len(w), NEW j \in 1..Len(w), w[i] = w[j] PROVE i = j
      <4>1. \A k \in 1..Len(v) : v[k] # a
        BY <3>3, <3>4 DEF Solver!Range
      <4>2. /\ i \in 1..Len(v) \/ i = Len(v) + 1
            /\ j \in 1..Len(v) \/ j = Len(v) + 1
        BY <3>4
      <4> QED BY <3>2, <3>4, <3>6, <4>1, <4>2
    <3>7. Right(w, n + 1)
      BY <3>3, <3>5, <3>6
    <3> QED BY <3>1, <3>7
  <2> QED BY <2>4, <2>5
<1>6. Right(f[N], N)
  <2> HIDE DEF right
  <2>1. Nat \subseteq right
    BY <1>4, <1>5, Induction
  <2> QED BY <1>2, <2>1 DEF right
<1>7. c = f[N] /\ c \in V
  BY <1>1, <1>2
<1>8. Cardinality(Solver!Range(c)) = Len(c)
  BY <1>6, <1>7, AsManyAsEntries DEF V
<1>9. Solver!Range(c) = Valued(models)
  BY <1>2, <1>6, <1>7 DEF A, Valid, Valued
<1> QED BY <1>7, <1>8, <1>9 DEF V, c

\* The order of the variables of a model does not matter.
LEMMA OrderIsNothing ==
  ASSUME NEW m \in Solver!Model, NEW turned \in BOOLEAN, NEW other,
         other = [m EXCEPT !.variables = IF turned THEN Solver!Turned(@) ELSE @]
  PROVE  /\ Solver!Assignment(other) = Solver!Assignment(m)
         /\ other.flag = m.flag
<1> DEFINE v == m.variables
           w == other.variables
<1>1. other.flag = m.flag /\ w = IF turned THEN Solver!Turned(v) ELSE v
  BY DEF Solver!Model
<1>2. v \in Seq(Solver!Variable)
  BY DEF Solver!Model
<1> DEFINE assigned(x) == [n \in {y.name : y \in x} |-> (CHOOSE y \in x : y.name = n).value]
<1>3. Solver!Assignment(m) = assigned(Solver!Range(v))
  <2>1. {v[i].name : i \in DOMAIN v} = {y.name : y \in Solver!Range(v)}
    BY DEF Solver!Range
  <2> QED BY <2>1 DEF Solver!Assignment
<1>4. Solver!Assignment(other) = assigned(Solver!Range(w))
  <2>1. {w[i].name : i \in DOMAIN w} = {y.name : y \in Solver!Range(w)}
    BY DEF Solver!Range
  <2> QED BY <2>1 DEF Solver!Assignment
<1>5. Solver!Range(Solver!Turned(v)) = Solver!Range(v)
  <2> HIDE DEF v
  <2>1. /\ Len(v) \in Nat /\ DOMAIN v = 1..Len(v)
        /\ DOMAIN Solver!Turned(v) = 1..Len(v)
        /\ \A i \in 1..Len(v) : Solver!Turned(v)[i] = v[(Len(v) - i) + 1]
    BY <1>2 DEF Solver!Turned
  <2>2. \A i \in 1..Len(v) : /\ (Len(v) - i) + 1 \in 1..Len(v)
                             /\ (Len(v) - ((Len(v) - i) + 1)) + 1 = i
    BY <2>1
  <2> QED BY <2>1, <2>2 DEF Solver!Range
<1>6. Solver!Range(w) = Solver!Range(v)
  BY <1>1, <1>5
<1> HIDE DEF v, w, assigned
<1> QED BY <1>1, <1>3, <1>4, <1>6

\* A model that has the declared arguments assigns exactly them.
LEMMA AssignsItsNames ==
  ASSUME NEW m, NEW t, Solver!Typed(m, t)
  PROVE  DOMAIN Solver!Assignment(m) = Solver!Names(t)
BY DEF Solver!Typed, Solver!Assignment

----------------------------------------------------------------------------
(* The verdict on one run *)

\* What is said of a verdict, by the name of the property that says it.
Understood(judged) ==
  /\ judged.status \in {"prefix_confirmed", "no_model_complete"} =>
       did.finished /\ did.found = <<>> /\ did.cut = 0 /\ did.loops = 0 /\ ~did.warned
  /\ judged.status = "candidate" =>
       /\ Solver!Range(judged.candidates) = Valued(did.found)
       /\ Cardinality(Solver!Range(judged.candidates)) = Len(judged.candidates)
       /\ \A i \in DOMAIN judged.candidates : DOMAIN judged.candidates[i] = Solver!Names(test)
  /\ judged.status \in Solver!StatusesOf(test)

\* What the solver did, once it has finished.
Explored ==
  /\ did.finished /\ did.found \in Worlds[test]
  /\ did.cut \in 0..1 /\ did.loops \in 0..1 /\ did.warned \in BOOLEAN

\* What Write may leave of a document.
Dumped(doc) ==
  {[json |-> TRUE, doc |-> doc], [json |-> FALSE, doc |-> doc],
   [json |-> TRUE, doc |-> [doc EXCEPT !.formed = FALSE]],
   [json |-> TRUE, doc |-> [doc EXCEPT !.test = "other"]],
   [json |-> TRUE, doc |-> [doc EXCEPT !.count = @ + 1]]}

Kinds == {"prefix", "goal", "suffix1", "suffix2"}

LEMMA Asked ==
  ASSUME test \in SolverTests
  PROVE  test \in Kinds /\ (test \in Solver!SuffixTests <=> test \in {"suffix1", "suffix2"})
BY ToolsAssumption DEF Solver!SolverAssumption, Solver!SuffixTests, Kinds

\* Troubles are known to every caller.
LEMMA TroubleIsUnderstood ==
  ASSUME test \in SolverTests, NEW judged, judged.status \in Solver!Troubles
  PROVE  Understood(judged)
<1>1. test \in Kinds
  BY Asked
<1>2. judged.status \in Solver!StatusesOf(test)
  BY <1>1, Asked DEF Solver!StatusesOf, Solver!PrefixStatuses, Solver!GoalStatuses, Solver!SuffixStatuses,
     Solver!SuffixTests, Kinds
<1> QED BY <1>2 DEF Understood, Solver!Troubles

\* An honest document: its own test, its models and a code that agrees with them.
LEMMA HonestShape ==
  ASSUME Explored, test \in SolverTests, NEW doc \in Solver!Honest
  PROVE  \/ /\ did.found = <<>>
            /\ \E e \in {0, 2, 3, 4, 5} : doc = Solver!Document(e, <<>>)
         \/ /\ did.found # <<>>
            /\ \E turned \in BOOLEAN : doc = Solver!Document(1, [i \in DOMAIN did.found |->
                 [did.found[i] EXCEPT !.variables = IF turned THEN Solver!Turned(@) ELSE @]])
BY DEF Solver!Honest

\* The models of an honest document are those found, but for the order of their
\* variables.
LEMMA ModelsOf ==
  ASSUME Explored, test \in SolverTests, NEW turned \in BOOLEAN, NEW models,
         models = [i \in DOMAIN did.found |->
           [did.found[i] EXCEPT !.variables = IF turned THEN Solver!Turned(@) ELSE @]]
  PROVE  /\ DOMAIN models = DOMAIN did.found /\ Len(models) \in Nat
         /\ \E T : models \in Seq(T)
         /\ \A i \in DOMAIN models : /\ Solver!Assignment(models[i]) = Solver!Assignment(did.found[i])
                                    /\ models[i].flag = did.found[i].flag
<1>1. did.found \in Seq(Solver!Model)
  BY ToolsAssumption DEF Explored, Solver!SolverAssumption
<1> DEFINE found == did.found
           T == {models[i] : i \in DOMAIN models}
<1>2. /\ found \in Seq(Solver!Model) /\ models = [i \in DOMAIN found |->
           [found[i] EXCEPT !.variables = IF turned THEN Solver!Turned(@) ELSE @]]
  BY <1>1
<1> HIDE DEF found
<1>3. DOMAIN found = 1..Len(found) /\ Len(found) \in Nat /\ DOMAIN models = 1..Len(found)
  BY <1>2
<1>4. models \in [1..Len(found) -> T]
  BY <1>2, <1>3
<1>5. models \in Seq(T) /\ Len(models) = Len(found)
  <2> DEFINE n == Len(found)
  <2>1. n \in Nat /\ models \in [1..n -> T]
    BY <1>3, <1>4
  <2> HIDE DEF n, T
  <2>2. models \in Seq(T) /\ Len(models) = n
    BY ONLY <2>1
  <2> QED BY <2>2 DEF n
<1>6. ASSUME NEW i \in DOMAIN models
      PROVE  /\ Solver!Assignment(models[i]) = Solver!Assignment(found[i])
             /\ models[i].flag = found[i].flag
  <2>1. /\ found[i] \in Solver!Model
        /\ models[i] = [found[i] EXCEPT !.variables = IF turned THEN Solver!Turned(@) ELSE @]
    BY <1>2, <1>3, <1>6
  <2> QED BY <2>1, OrderIsNothing
<1> QED BY <1>3, <1>5, <1>6 DEF found

\* What is made of readable models.
LEMMA FoundIsUnderstood ==
  ASSUME Explored, test \in SolverTests, test # "prefix", NEW turned \in BOOLEAN, NEW models,
         models = [i \in DOMAIN did.found |->
           [did.found[i] EXCEPT !.variables = IF turned THEN Solver!Turned(@) ELSE @]]
  PROVE  /\ Understood(Solver!Found(models, test))
         /\ Solver!Found(models, test).status \in {"decode_error", "invalid_model", "candidate"}
<1>1. /\ DOMAIN models = DOMAIN did.found
      /\ \E T : models \in Seq(T)
      /\ \A i \in DOMAIN models : /\ Solver!Assignment(models[i]) = Solver!Assignment(did.found[i])
                                 /\ models[i].flag = did.found[i].flag
  BY ModelsOf
<1> DEFINE c == Solver!Candidates(models)
           judged == Solver!Found(models, test)
<1>2. {"decode_error", "invalid_model", "candidate"} \subseteq Solver!StatusesOf(test)
  BY Asked DEF Solver!StatusesOf, Solver!GoalStatuses, Solver!SuffixStatuses, Kinds, Solver!SuffixTests
<1>3. \/ judged \in {[status |-> "decode_error", candidates |-> <<>>],
                    [status |-> "invalid_model", candidates |-> <<>>]}
      \/ /\ judged = [status |-> "candidate", candidates |-> c]
         /\ \A i \in DOMAIN models :
              models[i].flag = "invalid" \/ (models[i].flag = "valid" /\ Solver!Typed(models[i], test))
  BY DEF Solver!Found, Solver!Result
<1> HIDE DEF judged
<1>4. CASE judged \in {[status |-> "decode_error", candidates |-> <<>>],
                      [status |-> "invalid_model", candidates |-> <<>>]}
  BY <1>2, <1>4 DEF Understood, judged
<1>5. CASE /\ judged = [status |-> "candidate", candidates |-> c]
           /\ \A i \in DOMAIN models :
                models[i].flag = "invalid" \/ (models[i].flag = "valid" /\ Solver!Typed(models[i], test))
  <2>1. PICK T : models \in Seq(T)
    BY <1>1
  <2>2. /\ c \in Seq(Assigned(models))
        /\ Solver!Range(c) = Valued(models)
        /\ Cardinality(Solver!Range(c)) = Len(c)
    BY <2>1, CandidatesAre
  <2> HIDE DEF c
  <2>3. Solver!Range(c) = Valued(did.found)
    <3>1. ASSUME NEW a PROVE a \in Valued(models) <=> a \in Valued(did.found)
      <4>1. a \in Valued(models) <=>
              \E i \in DOMAIN models : models[i].flag = "valid" /\ a = Solver!Assignment(models[i])
        BY ONLY ValuedMeans
      <4>2. a \in Valued(did.found) <=>
              \E i \in DOMAIN did.found :
                did.found[i].flag = "valid" /\ a = Solver!Assignment(did.found[i])
        BY ValuedMeans
      <4> QED BY <1>1, <4>1, <4>2
    <3> QED BY <2>2, <3>1
  <2>4. ASSUME NEW i \in DOMAIN c PROVE DOMAIN c[i] = Solver!Names(test)
    <3>1. c[i] \in Solver!Range(c)
      BY <2>4 DEF Solver!Range
    <3>2. PICK k \in DOMAIN models : models[k].flag = "valid" /\ c[i] = Solver!Assignment(models[k])
      <4>1. c[i] \in Valued(models)
        BY <2>2, <3>1
      <4> QED BY ONLY <4>1, ValuedMeans
    <3>3. Solver!Typed(models[k], test)
      BY <1>5, <3>2
    <3> QED BY <3>2, <3>3, AssignsItsNames
  <2>5. judged.status = "candidate" /\ judged.candidates = c
    BY <1>5
  <2> QED BY <1>2, <2>2, <2>3, <2>4, <2>5 DEF Understood, judged
<1> QED BY <1>3, <1>4, <1>5

\* What is made of an honest document.
LEMMA ParseIsUnderstood ==
  ASSUME Explored, test \in SolverTests, NEW doc \in Solver!Honest
  PROVE  LET parsed == Solver!Parse(doc, test)
         IN  /\ parsed.status \in Solver!StatusesOf(test)
             /\ parsed.status = "candidate" => Understood(parsed)
             /\ parsed.status \in {"prefix_confirmed", "no_model_complete"} =>
                  did.found = <<>> /\ did.cut = 0 /\ did.loops = 0
<1> DEFINE parsed == Solver!Parse(doc, test)
<1> SUFFICES /\ parsed.status \in Solver!StatusesOf(test)
             /\ parsed.status = "candidate" => Understood(parsed)
             /\ parsed.status \in {"prefix_confirmed", "no_model_complete"} =>
                  did.found = <<>> /\ did.cut = 0 /\ did.loops = 0
  OBVIOUS
<1>1. test \in Kinds /\ (test \in Solver!SuffixTests <=> test \in {"suffix1", "suffix2"})
  BY Asked
<1>2. CASE ~Solver!Consistent(doc, test)
  <2>1. parsed.status = "result_mismatch"
    BY <1>2 DEF Solver!Parse, Solver!Result
  <2> QED BY <2>1, TroubleIsUnderstood DEF Understood, Solver!Troubles
<1>3. CASE Solver!Consistent(doc, test) /\ did.found = <<>>
  <2>1. PICK e \in {0, 2, 3, 4, 5} : doc = Solver!Document(e, <<>>)
    BY <1>3, HonestShape
  <2>2. doc.exit = e /\ doc.loops = did.loops /\ doc.paths.cut = did.cut
    BY <2>1 DEF Solver!Document
  <2>3. CASE e = 0
    <3>1. parsed = [status |-> Solver!NothingFound(doc, test), candidates |-> <<>>]
      BY <1>3, <2>2, <2>3 DEF Solver!Parse, Solver!Result
    <3>2. parsed.status = Solver!NothingFound(doc, test)
      BY <3>1
    <3>3. CASE test = "prefix"
      BY <1>3, <2>2, <3>2, <3>3
         DEF Solver!NothingFound, Solver!StatusesOf, Solver!PrefixStatuses, Solver!SuffixTests
    <3>4. CASE test = "goal"
      BY <3>2, <3>4 DEF Solver!NothingFound, Solver!StatusesOf, Solver!GoalStatuses, Solver!SuffixTests
    <3>5. CASE test \in {"suffix1", "suffix2"}
      BY <1>1, <1>3, <2>2, <3>2, <3>5
         DEF Solver!NothingFound, Solver!StatusesOf, Solver!SuffixStatuses, Solver!SuffixTests
    <3> QED BY <1>1, <3>3, <3>4, <3>5 DEF Kinds
  <2>4. CASE e \in {2, 3, 4, 5}
    <3>1. parsed = [status |-> Solver!Undecided(test, e), candidates |-> <<>>]
      BY <1>3, <2>2, <2>4 DEF Solver!Parse, Solver!Result
    <3>2. parsed.status = Solver!Undecided(test, e)
      BY <3>1
    <3>3. CASE e = 3
      BY <1>1, <3>2, <3>3 DEF Solver!Undecided, Solver!StatusesOf, Solver!PrefixStatuses,
         Solver!GoalStatuses, Solver!SuffixStatuses, Kinds
    <3>4. CASE e \in {2, 4, 5}
      <4>1. parsed.status \in Solver!Troubles
        BY <3>2, <3>4 DEF Solver!Undecided, Solver!Troubles
      <4> QED BY <4>1, TroubleIsUnderstood DEF Understood, Solver!Troubles
    <3> QED BY <2>4, <3>3, <3>4
  <2> QED BY <2>1, <2>3, <2>4
<1>4. CASE Solver!Consistent(doc, test) /\ did.found # <<>>
  <2>1. PICK turned \in BOOLEAN : doc = Solver!Document(1, [i \in DOMAIN did.found |->
                 [did.found[i] EXCEPT !.variables = IF turned THEN Solver!Turned(@) ELSE @]])
    BY <1>4, HonestShape
  <2> DEFINE models == [i \in DOMAIN did.found |->
                 [did.found[i] EXCEPT !.variables = IF turned THEN Solver!Turned(@) ELSE @]]
  <2>2. doc.exit = 1 /\ doc.models = models
    BY <2>1 DEF Solver!Document
  <2>3. CASE test = "prefix"
    <3>1. parsed.status = "prefix_mismatch"
      BY <1>4, <2>2, <2>3 DEF Solver!Parse, Solver!Result
    <3> QED BY <2>3, <3>1 DEF Solver!StatusesOf, Solver!PrefixStatuses, Solver!SuffixTests
  <2>4. CASE test # "prefix"
    <3>1. parsed = Solver!Found(models, test)
      BY <1>4, <2>2, <2>4 DEF Solver!Parse
    <3>2. /\ Understood(Solver!Found(models, test))
          /\ Solver!Found(models, test).status \in {"decode_error", "invalid_model", "candidate"}
      BY <2>4, FoundIsUnderstood
    <3> HIDE DEF models, parsed
    <3> QED BY <3>1, <3>2 DEF Understood
  <2> QED BY <2>3, <2>4
<1> QED BY <1>2, <1>3, <1>4

\* A document that Write spoilt is not consistent.
LEMMA SpoiltIsRefused ==
  ASSUME Explored, test \in SolverTests, NEW doc \in Solver!Honest, NEW out \in Dumped(doc),
         out.json, out.doc # doc
  PROVE  ~Solver!Consistent(out.doc, test)
<1>1. test \in Kinds
  BY Asked
<1>2. PICK e, models : doc = Solver!Document(e, models) /\ Len(models) \in Nat
  <2>1. CASE did.found = <<>>
    <3>1. Len(<<>>) \in Nat
      OBVIOUS
    <3> QED BY <2>1, <3>1, HonestShape
  <2>2. CASE did.found # <<>>
    <3>1. PICK turned \in BOOLEAN : doc = Solver!Document(1, [i \in DOMAIN did.found |->
                 [did.found[i] EXCEPT !.variables = IF turned THEN Solver!Turned(@) ELSE @]])
      BY <2>2, HonestShape
    <3> DEFINE models == [i \in DOMAIN did.found |->
                 [did.found[i] EXCEPT !.variables = IF turned THEN Solver!Turned(@) ELSE @]]
    <3>2. Len(models) \in Nat
      BY ModelsOf
    <3> HIDE DEF models
    <3>3. doc = Solver!Document(1, models)
      BY <3>1 DEF models
    <3> QED BY <3>2, <3>3
  <2> QED BY <2>1, <2>2
<1>3. /\ doc = [formed |-> TRUE, test |-> test, exit |-> e, top |-> IF e = 0 THEN 0 ELSE 1,
                models |-> models, count |-> Len(models),
                paths |-> [all |-> 2, ok |-> 1, cut |-> did.cut], loops |-> did.loops]
  BY <1>2 DEF Solver!Document
<1>4. \/ out.doc = [doc EXCEPT !.formed = FALSE]
      \/ out.doc = [doc EXCEPT !.test = "other"]
      \/ out.doc = [doc EXCEPT !.count = @ + 1]
  <2> DEFINE unformed == [doc EXCEPT !.formed = FALSE]
             foreign == [doc EXCEPT !.test = "other"]
             miscounted == [doc EXCEPT !.count = @ + 1]
  <2>1. out \in {[json |-> TRUE, doc |-> doc], [json |-> FALSE, doc |-> doc],
                [json |-> TRUE, doc |-> unformed], [json |-> TRUE, doc |-> foreign],
                [json |-> TRUE, doc |-> miscounted]}
    BY DEF Dumped
  <2> HIDE DEF unformed, foreign, miscounted
  <2>2. out.doc \in {unformed, foreign, miscounted}
    BY <2>1
  <2> QED BY <2>2 DEF unformed, foreign, miscounted
<1>5. out.doc.formed = FALSE \/ out.doc.test = "other"
      \/ (out.doc.count = Len(models) + 1 /\ out.doc.models = models)
  BY <1>3, <1>4
<1>6. test # "other"
  BY <1>1 DEF Kinds
<1>7. Len(models) + 1 # Len(models)
  BY <1>2
<1> QED BY <1>5, <1>6, <1>7 DEF Solver!Consistent

LEMMA VerdictIsUnderstood ==
  ASSUME Explored, test \in SolverTests, NEW doc \in Solver!Honest, NEW out \in Dumped(doc),
         NEW run, run.warned = did.warned
  PROVE  Understood(Solver!Verdict(run, <<out>>, test))
<1> DEFINE file == <<out>>
           judged == Solver!Verdict(run, file, test)
<1>1. file # <<>> /\ file[1] = out
  OBVIOUS
<1> HIDE DEF file
<1> SUFFICES Understood(judged)
  BY DEF file
<1>2. CASE run.timedOut \/ ~out.json \/ out.doc.top # run.code
  <2>1. judged.status \in Solver!Troubles
    BY <1>1, <1>2 DEF Solver!Verdict, Solver!Result, Solver!Troubles
  <2> QED BY <2>1, TroubleIsUnderstood
<1>3. CASE ~run.timedOut /\ out.json /\ out.doc.top = run.code
  <2> DEFINE parsed == Solver!Parse(out.doc, test)
  <2>1. \/ run.warned /\ parsed.status = "prefix_confirmed" /\ judged.status = "prefix_incomplete"
        \/ run.warned /\ parsed.status = "no_model_complete" /\ judged.status = "incomplete"
        \/ judged = parsed /\ (run.warned => parsed.status \notin {"prefix_confirmed", "no_model_complete"})
    BY <1>1, <1>3 DEF Solver!Verdict, Solver!Result
  <2>2. CASE out.doc # doc
    <3>1. parsed.status = "result_mismatch"
      BY <1>3, <2>2, SpoiltIsRefused DEF Solver!Parse, Solver!Result
    <3>2. judged.status \in Solver!Troubles
      BY <2>1, <3>1 DEF Solver!Troubles
    <3> QED BY <3>2, TroubleIsUnderstood
  <2>3. CASE out.doc = doc
    <3>1. /\ parsed.status \in Solver!StatusesOf(test)
          /\ parsed.status = "candidate" => Understood(parsed)
          /\ parsed.status \in {"prefix_confirmed", "no_model_complete"} =>
                  did.found = <<>> /\ did.cut = 0 /\ did.loops = 0
      BY <2>3, ParseIsUnderstood
    <3> HIDE DEF parsed, judged
    <3>2. CASE judged = parsed /\ (run.warned => parsed.status \notin {"prefix_confirmed", "no_model_complete"})
      BY <3>1, <3>2 DEF Understood, Explored
    <3>3. "prefix_confirmed" \in Solver!StatusesOf(test) => "prefix_incomplete" \in Solver!StatusesOf(test)
      BY Asked DEF Solver!StatusesOf, Solver!PrefixStatuses, Solver!GoalStatuses,
         Solver!SuffixStatuses, Solver!Troubles, Kinds
    <3>4. "no_model_complete" \in Solver!StatusesOf(test) => "incomplete" \in Solver!StatusesOf(test)
      BY Asked DEF Solver!StatusesOf, Solver!PrefixStatuses, Solver!GoalStatuses,
         Solver!SuffixStatuses, Solver!Troubles, Kinds
    <3> QED BY <2>1, <3>1, <3>2, <3>3, <3>4 DEF Understood
  <2> QED BY <2>2, <2>3
<1> QED BY <1>2, <1>3

----------------------------------------------------------------------------
(* The attempts *)

SolverInv ==
  /\ test \in SolverTests /\ attempt \in 0..MaxAttempts
  /\ DOMAIN files = 1..MaxAttempts
  /\ \A n \in 1..MaxAttempts : n > attempt => files[n] = <<>>
  /\ solverPc \in {"idle", "searching", "searched", "written"}
  /\ solverPc # "idle" => attempt \in 1..MaxAttempts
  /\ solverPc \in {"searching", "searched"} => files[attempt] = <<>>
  /\ solverPc \in {"searched", "written"} => Explored
  /\ solverPc = "written" => \E doc \in Solver!Honest : \E out \in Dumped(doc) : files[attempt] = <<out>>
  /\ solverPc = "idle" /\ solverVerdict # <<>> => Understood(solverVerdict[1])

LEMMA SolverStarts == ASSUME Solver!Init PROVE SolverInv
BY ToolsAssumption DEF Solver!Init, SolverInv, Solver!SolverAssumption

\* A judgement of what this attempt left is understood.
LEMMA SolverJudged ==
  ASSUME SolverInv, solverPc # "idle", NEW run, run.warned = did.warned,
         Solver!Judge(run)
  PROVE  SolverInv'
<1>1. /\ solverPc' = "idle" /\ UNCHANGED <<test, attempt, did, files>>
      /\ solverVerdict' = <<Solver!Verdict(run, files[attempt], test)>>
  BY DEF Solver!Judge, Solver!Directory
<1>2. Understood(Solver!Verdict(run, files[attempt], test))
  <2>1. CASE solverPc = "written"
    BY <2>1, VerdictIsUnderstood DEF SolverInv
  <2>2. CASE solverPc # "written"
    <3>1. files[attempt] = <<>>
      BY <2>2 DEF SolverInv
    <3>2. Solver!Verdict(run, files[attempt], test).status \in Solver!Troubles
      BY <3>1 DEF Solver!Verdict, Solver!Result, Solver!Troubles
    <3> QED BY <3>2, TroubleIsUnderstood DEF SolverInv
  <2> QED BY <2>1, <2>2
<1>3. solverVerdict'[1] = Solver!Verdict(run, files[attempt], test)
  BY <1>1
<1>4. Understood(solverVerdict[1])'
  BY <1>1, <1>2, <1>3 DEF Understood
<1> QED BY <1>1, <1>4 DEF SolverInv, Explored

LEMMA SolverSteps ==
  ASSUME SolverInv, [Solver!Next]_solverVars
  PROVE  SolverInv'
<1>1. ASSUME NEW t \in SolverTests, Solver!Begin(t) PROVE SolverInv'
  <2>1. attempt' = attempt + 1 /\ attempt < MaxAttempts /\ MaxAttempts \in Nat
    BY <1>1, ToolsAssumption DEF Solver!Begin, Solver!SolverAssumption
  <2> QED BY <1>1, <2>1 DEF Solver!Begin, SolverInv
<1>2. CASE Solver!Search
  <2>1. Explored'
    BY <1>2 DEF Solver!Search, Explored
  <2> QED BY <1>2, <2>1 DEF Solver!Search, SolverInv
<1>3. CASE Solver!Write
  <2>1. PICK doc \in Solver!Honest : \E out \in Dumped(doc) :
          files' = [files EXCEPT ![attempt] = <<out>>]
    BY <1>3 DEF Solver!Write, Solver!Directory, Dumped
  <2>2. PICK out \in Dumped(doc) : files' = [files EXCEPT ![attempt] = <<out>>]
    BY <2>1
  <2>3. /\ solverPc = "searched" /\ solverPc' = "written"
        /\ UNCHANGED <<test, attempt, did, solverVerdict>>
    BY <1>3 DEF Solver!Write
  <2>4. doc \in Solver!Honest'
    BY <2>3 DEF Solver!Honest, Solver!Document
  <2>5. files'[attempt'] = <<out>> /\ \A n \in 1..MaxAttempts : n # attempt => files'[n] = files[n]
    BY <2>2, <2>3 DEF SolverInv
  <2>6. \E d \in Solver!Honest' : \E o \in Dumped(d) : files'[attempt'] = <<o>>
    BY <2>4, <2>5
  <2> QED BY <2>2, <2>3, <2>5, <2>6 DEF SolverInv, Explored
<1>4. CASE Solver!Exit
  <2>1. PICK exit \in {0, 1, 137} :
          Solver!Judge([timedOut |-> FALSE, code |-> exit, warned |-> did.warned])
    BY <1>4 DEF Solver!Exit
  <2> QED BY <1>4, <2>1, SolverJudged DEF Solver!Exit
<1>5. CASE Solver!Dies
  BY <1>5, SolverJudged DEF Solver!Dies
<1>6. CASE Solver!Deadline
  BY <1>6, SolverJudged DEF Solver!Deadline
<1>7. CASE UNCHANGED solverVars
  <2>1. Solver!Honest' = Solver!Honest
    BY <1>7 DEF solverVars, Solver!Honest, Solver!Document
  <2> QED BY <1>7, <2>1 DEF solverVars, SolverInv, Explored, Understood
<1> QED BY <1>1, <1>2, <1>3, <1>4, <1>5, <1>6, <1>7 DEF Solver!Next

LEMMA SolverAnswers ==
  ASSUME SolverInv
  PROVE  Solver!ConclusiveIsEarned /\ Solver!CandidatesAreTheModels /\ Solver!StatusAnticipated
<1>1. Valued(did.found) =
        {Solver!Assignment(did.found[i]) : i \in {i \in DOMAIN did.found : did.found[i].flag = "valid"}}
  BY DEF Valued
<1>2. \A S : Solver!Cardinality(S) = Cardinality(S)
  BY SameCardinality
<1> QED BY <1>1, <1>2 DEF SolverInv, Understood, Solver!Judged, Solver!ConclusiveIsEarned,
     Solver!CandidatesAreTheModels, Solver!StatusAnticipated

----------------------------------------------------------------------------
(* Theorems *)

ToolsInv == GroupInv /\ ContractInv /\ TestsInv /\ CampaignInv /\ AugmentInv /\ SolverInv

LEMMA ToolsStart == ASSUME ToolsInit PROVE ToolsInv
BY ToolsAssumption, GroupStarts, ContractStarts, TestsStart, CampaignStarts, AugmentStarts, SolverStarts
   DEF ToolsInit, ToolsInv

LEMMA ToolsStep == ASSUME ToolsInv, [ToolsNext]_toolsVars PROVE ToolsInv'
<1>1. /\ [Processes!Next]_groupVars /\ [Contract!Next]_contractVars /\ [Harness!Next]_testVars
      /\ [Next]_vars /\ [Augment!Next]_augmentVars /\ [Solver!Next]_solverVars
  BY DEF ToolsNext, toolsVars
<1> QED
  BY <1>1, ToolsAssumption, GroupSteps, ContractSteps, TestsSteps, CampaignSteps, AugmentSteps,
     SolverSteps
     DEF ToolsInv

\* The tools keep the types of their state, for every instance.
THEOREM ToolsTypeCorrect ==
  ToolsSpec => [](Processes!TypeOK /\ Contract!TypeOK /\ CampaignTypes /\ AugmentTypes)
<1>1. ToolsInv => Processes!TypeOK /\ Contract!TypeOK /\ CampaignTypes /\ AugmentTypes
  BY DEF ToolsInv, GroupInv, ContractInv, CampaignInv, AugmentInv
<1>2. QED
  BY ToolsStart, ToolsStep, <1>1, PTL DEF ToolsSpec

\* After a timeout no process of the group is left, for every set of descendants.
THEOREM NothingSurvives == ToolsSpec => []NothingSurvivesTimeout
<1>1. ToolsInv => NothingSurvivesTimeout
  BY DEF ToolsInv, GroupInv, Emptied, NothingSurvivesTimeout, Processes!NothingSurvivesTimeout
<1>2. QED
  BY ToolsStart, ToolsStep, <1>1, PTL DEF ToolsSpec

\* No sequence of calls breaks the property of a repaired contract, for every
\* capacity and all arguments.
THEOREM RepairedKeeps == ToolsSpec => []RepairedKeepsProperty
<1>1. ToolsInv => RepairedKeepsProperty
  BY ToolsAssumption, ContractAnswers DEF ToolsInv, RepairedKeepsProperty
<1>2. QED
  BY ToolsStart, ToolsStep, <1>1, PTL DEF ToolsSpec

\* A model of a plan is replayed exactly when it is real and never fails on the
\* repaired contract, and no shortest violation lies outside the plans, for every
\* capacity, all arguments and prefixes of any length.
THEOREM TestsAlwaysAgree == ToolsSpec => []TestsAgree
<1>1. ToolsInv => TestsAgree
  BY TestsAnswer DEF ToolsInv, TestsAgree
<1>2. QED
  BY ToolsStart, ToolsStep, <1>1, PTL DEF ToolsSpec

\* A campaign ends for a reading out of bounds only on the flawed reservation
\* contract, and only after a violation.
THEOREM RefusedAfterViolation == ToolsSpec => []Contract!RefusedOnlyAfterViolation
<1>1. ToolsInv => Contract!RefusedOnlyAfterViolation
  BY ToolsAssumption, ContractAnswers DEF ToolsInv
<1>2. QED
  BY ToolsStart, ToolsStep, <1>1, PTL DEF ToolsSpec

\* No call undoes a violation.
THEOREM ViolationIsPermanent == ToolsSpec => ViolationStays
<1>1. ToolsInv /\ [ToolsNext]_toolsVars => [~Contract!Holds => ~Contract!Holds']_contractVars
  <2> SUFFICES ASSUME ToolsInv, [ToolsNext]_toolsVars, ~Contract!Holds
               PROVE  ~Contract!Holds'
    OBVIOUS
  <2>1. [Contract!Next]_contractVars
    BY DEF ToolsNext, toolsVars
  <2> QED BY <2>1, ToolsAssumption, ViolationsStay DEF ToolsInv
<1>2. QED
  BY ToolsStart, ToolsStep, <1>1, PTL
     DEF ToolsSpec, ViolationStays, Contract!ViolationStays, contractVars, Contract!vars

\* What is recorded as admitted was taken in, and no reported parent is unknown,
\* for every corpus and whatever the fuzzer generates.
THEOREM LineageAlwaysHolds == ToolsSpec => []LineageHolds
<1>1. ToolsInv => LineageHolds
  BY DEF ToolsInv, CampaignInv, LineageHolds
<1>2. QED
  BY ToolsStart, ToolsStep, <1>1, PTL DEF ToolsSpec

\* A campaign without an error leaves a stream its reader accepts, with as many
\* lineage records as sequences were counted, wherever it was stopped.
THEOREM FinishedIsAlwaysReadable == ToolsSpec => []FinishedIsReadable
<1>1. ToolsInv => FinishedIsReadable
  BY CampaignAnswers DEF ToolsInv
<1>2. QED
  BY ToolsStart, ToolsStep, <1>1, PTL DEF ToolsSpec

\* What campaign() returns was left by an adapter that finished without an error
\* and for a known reason, whenever a kill or the outer timeout struck.
THEOREM ReturnedIsAlwaysFinished == ToolsSpec => []ReturnedIsFinished
<1>1. ToolsInv => ReturnedIsFinished
  BY CampaignAnswers DEF ToolsInv
<1>2. QED
  BY ToolsStart, ToolsStep, <1>1, PTL DEF ToolsSpec

\* The augmentation runs what it committed, accepts new seeds of different cases,
\* and says why there is none, whatever the tools answer and wherever its time
\* runs out.
THEOREM AugmentationAlwaysAnswers == ToolsSpec => []AugmentationAnswers
<1>1. ToolsInv => AugmentationAnswers
  BY DEF ToolsInv, AugmentInv, AugmentationAnswers
<1>2. QED
  BY ToolsStart, ToolsStep, <1>1, PTL DEF ToolsSpec

\* A conclusive status comes from the solver of that attempt, the candidates are
\* its valid models, each once, and the caller knows the status, for all tests,
\* variables and values and whatever the solver writes.
THEOREM SolverIsAlwaysUnderstood == ToolsSpec => []SolverIsUnderstood
<1>1. ToolsInv => SolverIsUnderstood
  BY SolverAnswers DEF ToolsInv, SolverIsUnderstood
<1> QED BY <1>1, ToolsStart, ToolsStep, PTL DEF ToolsSpec
=============================================================================
