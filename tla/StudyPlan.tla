------------------------------ MODULE StudyPlan ------------------------------
(***************************************************************************)
(* The configuration of a Stage 3 or 4 study and the matrix it expands to    *)
(* (study.py).  A configuration is written by hand: the state is the text as *)
(* it stands after some edits, each of which changes one thing.  Whatever is *)
(* accepted is run.  Times are in quarters of a second.                      *)
(***************************************************************************)
EXTENDS Integers, SequencesExt, Subsequences

CONSTANTS
  Drafts,          \* the configurations edits start from
  Changes,         \* for a field of the study, what an edit may put there
  ProfileChanges,  \* for a field of a profile, what an edit may put there
  Identifiers,     \* names that match PROFILE_ID
  SeedBound,       \* 1 << 63, above every seed that is accepted
  MaxEdits         \* bound: edits of one configuration

VARIABLES study, edits

vars == <<study, edits>>

Reachability == {"phase_counter", "bounded_ledger", "range_gate", "workflow_gate"}
Safety == <<"accounting_flawed", "accounting_repaired">>
Arms == {"native_resume", "concrete_augment", "symbolic_augment"}
Families == {"total_budget", "goal_invocation_limit"}
NoLimit == -1  \* None
OneToTen == [i \in 1..10 |-> i]

Distinct(s) == Cardinality(ToSet(s)) = Len(s)
In(p, family) == family \in ToSet(p.families)
ProfileIds(s) == [i \in DOMAIN s.profiles |-> s.profiles[i].id]

Fields == {"id", "mode", "version", "fixtures", "repeats", "profiles", "orders", "seeds", "warmup",
           "continuation", "prefixes", "candidates", "attempts", "common", "storage", "reserve",
           "boundary"}
ProfileFields == {"id", "arm", "total", "prefix", "goal", "augmentation", "startup", "rest",
                  "cleanup", "families"}

\* from_dict: what is a list stays one whoever edits it.
IsList(list) == list \in Seq(ToSet(list))
ProfileField(field, value) == field = "families" => IsList(value)
IsProfile(p) ==
  DOMAIN p = ProfileFields /\ \A field \in ProfileFields : ProfileField(field, p[field])
Field(field, value) ==
  /\ field \in {"fixtures", "repeats", "profiles", "boundary"} => IsList(value)
  /\ field = "profiles" => \A p \in ToSet(value) : IsProfile(p)
  /\ field = "orders" => \A r \in DOMAIN value : IsList(value[r])
IsStudy(s) == DOMAIN s = Fields /\ \A field \in Fields : Field(field, s[field])

StudyAssumption ==
  /\ \A draft \in Drafts : IsStudy(draft)
  /\ DOMAIN Changes \subseteq Fields
  /\ \A field \in DOMAIN Changes : \A value \in Changes[field] : Field(field, value)
  /\ DOMAIN ProfileChanges \subseteq ProfileFields
  /\ \A field \in DOMAIN ProfileChanges : \A value \in ProfileChanges[field] :
       ProfileField(field, value)

----------------------------------------------------------------------------
(* What is refused *)

LimitsValid(s) ==
  /\ s.warmup \in 2..10000 /\ s.continuation >= 10000
  /\ s.prefixes \in 1..4 /\ s.candidates \in 1..4 /\ s.attempts \in 1..64
  /\ s.common > 0 /\ s.storage > 0 /\ (s.reserve > 0 \/ s.reserve = NoLimit)
  /\ s.boundary # <<>> /\ Distinct(s.boundary)

ProfileValid(p, common) ==
  /\ p.id \in Identifiers
  /\ p.arm \in Arms
  /\ \A limit \in {p.total, p.prefix, p.augmentation, p.startup, p.rest, p.cleanup} : limit > 0
  /\ IF p.arm = "symbolic_augment" THEN p.goal > 0 ELSE p.goal = NoLimit
  /\ ToSet(p.families) \subseteq Families /\ Distinct(p.families) /\ p.families # <<>>
  /\ p.total > common
  /\ p.augmentation + p.startup + p.rest < p.total

ExecutionIdentity(p) == <<p.arm, p.total, p.prefix, p.goal, p.augmentation>>

\* Fault: an order may leave out a profile.
OrderNamesProfiles(s, r) ==
  r \in DOMAIN s.orders /\ ToSet(s.orders[r]) \subseteq ToSet(ProfileIds(s))

OrderValid(s, r) ==
  /\ r \in DOMAIN s.orders
  /\ Len(s.orders[r]) = Len(s.profiles)
  /\ ToSet(s.orders[r]) = ToSet(ProfileIds(s))

Slot(s, f, r, id) ==
  [fixture |-> f, repeat |-> r, seed |-> s.seeds[<<f, r>>],
   profile |-> CHOOSE p \in ToSet(s.profiles) : p.id = id]

\* StudySpec.slots: by fixture, then by repeat, in the order of the repeat.
Slots(s) ==
  LET OfRepeat(f, r) == [i \in DOMAIN s.orders[r] |-> Slot(s, f, r, s.orders[r][i])]
      OfFixture(f) == Joined([j \in DOMAIN s.repeats |-> OfRepeat(f, s.repeats[j])])
  IN  Joined([k \in DOMAIN s.fixtures |-> OfFixture(s.fixtures[k])])

SlotIds(slots) == {<<t.fixture, t.repeat, t.profile.id>> : t \in ToSet(slots)}

SlotIdsDiffer(s) ==
  LET slots == Slots(s) IN Cardinality(SlotIds(slots)) = Len(slots)

OfFamily(s, family) == Among(s.profiles, {p \in ToSet(s.profiles) : In(p, family)})
MainFamily(s) == OfFamily(s, "total_budget")
GoalFamily(s) == OfFamily(s, "goal_invocation_limit")

\* Fault: what the profiles have in common is taken on trust.
FormalFamilies(s) ==
  /\ ToSet(s.fixtures) = Reachability /\ Len(s.fixtures) = 4
  /\ s.repeats = OneToTen
  /\ Len(s.profiles) = 8
  /\ LET main == MainFamily(s) IN
       /\ Len(main) = 6
       /\ {<<p.arm, p.total, p.goal>> : p \in ToSet(main)} =
            {<<arm, total, IF arm = "symbolic_augment" THEN 3 ELSE NoLimit>> :
               arm \in Arms, total \in {32, 128}}
  /\ LET goal == GoalFamily(s) IN
       /\ Len(goal) = 3 /\ {p.goal : p \in ToSet(goal)} = {2, 3, 6}
       /\ \A p \in ToSet(goal) : p.arm = "symbolic_augment" /\ p.total = 128

FormalProtocol(s) ==
  /\ FormalFamilies(s)
  /\ \A p \in ToSet(s.profiles) : p.augmentation = 10 /\ p.prefix = 3

\* The numbers of StudySpec.plan.
Plan(s) ==
  LET slots == Slots(s)
      Of(profiles) == Cardinality({n \in DOMAIN slots : slots[n].profile \in profiles})
      Family(family) == {p \in ToSet(s.profiles) : In(p, family)}
  IN  [slots |-> Len(slots), blocks |-> Len(s.fixtures) * Len(s.repeats),
       main |-> Of(Family("total_budget")),
       compared |-> Of(Family("goal_invocation_limit")),
       new |-> Of({p \in ToSet(s.profiles) : p.families = <<"goal_invocation_limit">>})]

FormalCounts(s) ==
  Plan(s) = [slots |-> 320, blocks |-> 40, main |-> 240, compared |-> 120, new |-> 80]

\* Fault: the profiles are counted, their arms are not.
SafetyLimits(s) ==
  /\ s.version \in {"v1", "v2"} /\ s.reserve = (IF s.version = "v2" THEN 36 ELSE NoLimit)
  /\ s.fixtures = Safety /\ s.repeats = OneToTen
  /\ s.warmup = 100 /\ s.common = 16 /\ s.prefixes = 4 /\ s.candidates = 4
  /\ s.attempts = 64 /\ s.continuation = 1000000
  /\ 100 \notin ToSet(s.boundary)
  /\ Len(s.profiles) = 3
  /\ \A p \in ToSet(s.profiles) :
       /\ p.total = 128 /\ p.augmentation = 10 /\ p.prefix = 3
       /\ p.startup = 5 /\ p.rest = 4 /\ p.cleanup = 3
       /\ p.families = <<"total_budget">>

SafetyProtocol(s) ==
  /\ SafetyLimits(s)
  /\ {p.arm : p \in ToSet(s.profiles)} = Arms
  /\ \A p \in ToSet(s.profiles) : p.goal = (IF p.arm = "symbolic_augment" THEN 3 ELSE NoLimit)
  /\ Plan(s).slots = 60

\* StudySpec.validate, first what any study is held to.
ConfigurationValid(s) ==
  /\ s.id \in Identifiers
  /\ s.mode \in {"formal", "smoke", "safety_formal"}
  /\ s.fixtures # <<>> /\ Distinct(s.fixtures)
  /\ ToSet(s.fixtures) \subseteq (IF s.mode = "safety_formal" THEN ToSet(Safety) ELSE Reachability)
  /\ s.repeats # <<>> /\ Distinct(s.repeats) /\ ToSet(s.repeats) \subseteq 1..10
  /\ LimitsValid(s)
  /\ s.profiles # <<>> /\ Distinct(ProfileIds(s))
  /\ \A p \in ToSet(s.profiles) : ProfileValid(p, s.common)
  /\ Distinct([i \in DOMAIN s.profiles |-> ExecutionIdentity(s.profiles[i])])
  /\ \A r \in ToSet(s.repeats) : OrderValid(s, r)
  /\ \A f \in ToSet(s.fixtures), r \in ToSet(s.repeats) :
       <<f, r>> \in DOMAIN s.seeds /\ 0 <= s.seeds[<<f, r>>] /\ s.seeds[<<f, r>>] < SeedBound

Accepted(s) ==
  /\ ConfigurationValid(s)
  /\ s.mode = "formal" => FormalProtocol(s) /\ FormalCounts(s)
  /\ s.mode = "safety_formal" => SafetyProtocol(s)
  /\ SlotIdsDiffer(s)

----------------------------------------------------------------------------
(* Edits *)

Init == study \in Drafts /\ edits = 0

Edit == \E field \in DOMAIN Changes : \E value \in Changes[field] :
  study' = [study EXCEPT ![field] = value]

EditProfile == \E i \in DOMAIN study.profiles, field \in DOMAIN ProfileChanges :
  \E value \in ProfileChanges[field] :
    study' = [study EXCEPT !.profiles[i][field] = value]

\* A profile is taken out of the list and of every order.
RemoveProfile == \E i \in DOMAIN study.profiles :
  study' = [study EXCEPT !.profiles = RemoveAt(@, i),
                         !.orders = [r \in DOMAIN @ |->
                                     Among(@[r], ToSet(@[r]) \ {study.profiles[i].id})]]

\* One entry of one order is left out, or overwritten by a neighbour.
EditOrder == \E r \in DOMAIN study.orders : \E i \in DOMAIN study.orders[r] :
  \/ study' = [study EXCEPT !.orders[r] = RemoveAt(@, i)]
  \/ study' = [study EXCEPT !.orders[r][i] = study.orders[r][1]]

Next ==
  /\ edits < MaxEdits /\ edits' = edits + 1
  /\ Edit \/ EditProfile \/ RemoveProfile \/ EditOrder

Spec == Init /\ [][Next]_vars

----------------------------------------------------------------------------
(* Properties *)

\* Every block of an accepted study runs each of its profiles, each once.
BlocksAreComplete ==
  Accepted(study) =>
    LET slots == Slots(study)
        matrix == ToSet(study.fixtures) \X ToSet(study.repeats)
                    \X {p.id : p \in ToSet(study.profiles)}
    IN  SlotIds(slots) = matrix /\ Len(slots) = Cardinality(matrix)

\* In a study that follows a frozen protocol every comparison varies one thing:
\* profiles of the main family with the same budget differ in the arm (and in
\* the goal limit only the symbolic arm has), those of one arm in the budget,
\* and those of the goal family in the goal limit.
OneThingVaries ==
  (Accepted(study) /\ study.mode # "smoke") =>
    \A p, q \in ToSet(study.profiles) :
      LET same == {i \in 1..5 : ExecutionIdentity(p)[i] = ExecutionIdentity(q)[i]} IN
      /\ In(p, "total_budget") /\ In(q, "total_budget") =>
           /\ p.total = q.total => {3, 5} \subseteq same
           /\ p.arm = q.arm => {3, 4, 5} \subseteq same
      /\ In(p, "goal_invocation_limit") /\ In(q, "goal_invocation_limit") =>
           {1, 2, 3, 5} \subseteq same

\* Both frozen protocols run every arm at every budget of theirs, in every block.
EveryArmCompared ==
  (Accepted(study) /\ study.mode # "smoke") =>
    \A p \in ToSet(MainFamily(study)), arm \in Arms :
      Cardinality({q \in ToSet(MainFamily(study)) : q.arm = arm /\ q.total = p.total}) = 1

\* The comparison of goal limits reuses the one slot of a block that the main
\* comparison has anyway; the counts a formal plan is held to follow from the
\* protocol and can refuse nothing by themselves.
OneSlotIsShared ==
  study.mode = "formal" /\ ConfigurationValid(study) /\ FormalProtocol(study) =>
     /\ FormalCounts(study)
     /\ \E p \in ToSet(study.profiles) :
          \A q \in ToSet(study.profiles) : Len(q.families) = 2 <=> q = p
=============================================================================
