----------------------------- MODULE MCSubjects ------------------------------
(* Sequences of one to four calls, some executed twice from two files; two calls  *)
(* that take an argument and one that takes none; and the configurations of       *)
(* Stages 3 and 4 (configs/stage3-study.json and stage4-safety-v2.json) and a      *)
(* small smoke study, each edited twice.                                          *)
EXTENDS Subjects, SequencesExt

----------------------------------------------------------------------------
(* Plans *)

Executable(calls, size, digest, sound, made) ==
  [calls |-> calls, size |-> size, digest |-> digest, sound |-> sound, goal |-> FALSE,
   ready |-> made, setup |-> made]

MCObservable ==
  {Executable("a", 1, "f1", TRUE, TRUE), Executable("a", 1, "f2", TRUE, TRUE),
   Executable("b", 1, "f3", TRUE, TRUE), Executable("c", 2, "f4", TRUE, TRUE),
   Executable("d", 3, "f5", TRUE, FALSE), Executable("e", 4, "f6", TRUE, TRUE),
   Executable("g", 1, "f7", FALSE, TRUE),
   [Executable("h", 1, "f8", TRUE, TRUE) EXCEPT !.goal = TRUE]}

\* Sequences of the same length are not in the order of their names.
Rank == [a |-> 1, b |-> 2, c |-> 3, d |-> 4, e |-> 5, g |-> 6, h |-> 7]
MCHash ==
  [id \in UNION {{<<s.calls, "">>, <<s.calls, s.digest>>} : s \in MCObservable} |->
     20 - 2 * Rank[id[1]] + (IF id[2] = "f2" THEN 1 ELSE 0)]

MCSuffixCalls == <<[name |-> "open", symbolic |-> FALSE], [name |-> "spend", symbolic |-> TRUE],
                   [name |-> "move", symbolic |-> TRUE]>>

----------------------------------------------------------------------------
(* Studies *)

Main == <<"total_budget">>
Goal == <<"goal_invocation_limit">>
NoLimit == -1  \* None
OneToTen == [i \in 1..10 |-> i]
Pair == <<"accounting_flawed", "accounting_repaired">>
Four == <<"phase_counter", "bounded_ledger", "range_gate", "workflow_gate">>

Profile(id, arm, total, goal, families) ==
  [id |-> id, arm |-> arm, total |-> total, prefix |-> 3, goal |-> goal, augmentation |-> 10,
   startup |-> 5, rest |-> 4, cleanup |-> 3, families |-> families]

FormalProfiles ==
  <<Profile("a", "native_resume", 32, NoLimit, Main),
    Profile("b", "concrete_augment", 32, NoLimit, Main),
    Profile("c", "symbolic_augment", 32, 3, Main),
    Profile("d", "native_resume", 128, NoLimit, Main),
    Profile("e", "concrete_augment", 128, NoLimit, Main),
    Profile("f", "symbolic_augment", 128, 3, Main \o Goal),
    Profile("g", "symbolic_augment", 128, 2, Goal),
    Profile("h", "symbolic_augment", 128, 6, Goal)>>

SafetyProfiles ==
  Append(SubSeq(FormalProfiles, 4, 5), [FormalProfiles[6] EXCEPT !.families = Main])

Draft(mode, fixtures, repeats, profiles) ==
  [id |-> "study", mode |-> mode, version |-> "v2", fixtures |-> fixtures, repeats |-> repeats,
   profiles |-> profiles,
   orders |-> [n \in ToSet(repeats) |-> [i \in DOMAIN profiles |-> profiles[i].id]],
   seeds |-> [b \in ToSet(fixtures) \X ToSet(repeats) |-> b[2]],
   warmup |-> 100, continuation |-> 1000000, prefixes |-> 4, candidates |-> 4, attempts |-> 64,
   common |-> 16, storage |-> 1, reserve |-> 36, boundary |-> <<0, 1>>]

Formal == Draft("formal", Four, OneToTen, FormalProfiles)
Smoke == Draft("smoke", <<"range_gate">>, <<1, 2>>, SubSeq(FormalProfiles, 1, 3))
SafetyFormal == Draft("safety_formal", Pair, OneToTen, SafetyProfiles)

MCChanges ==
  [id |-> {"Study"}, mode |-> {"formal", "smoke"}, version |-> {"v1"}, warmup |-> {1, 40}, common |-> {0, 40},
   fixtures |-> {<<"range_gate", "range_gate">>, SubSeq(Four, 1, 3), <<Pair[1]>>, Reverse(Four)},
   repeats |-> {<<1, 1>>, <<2>>, Reverse(OneToTen)}, boundary |-> {<<1, 1>>, <<100>>},
   seeds |-> {[b \in {<<"range_gate", 1>>} |-> -1], [b \in {<<"range_gate", 2>>} |-> 7],
            [b \in {"range_gate"} \X {1, 2} |-> 99 * b[2]]}]

MCProfileChanges ==
  [id |-> {"a", "x", "X"}, arm |-> {"native_resume", "concrete_augment", "symbolic_augment"},
   total |-> {16, 32, 128}, goal |-> {NoLimit, 0, 2, 3},
   prefix |-> {0, 4}, augmentation |-> {11, 120}, startup |-> {6},
   families |-> {Main, Goal, Main \o Main, Goal \o Main, <<>>}]

\* Each stands for a name; those in capitals for one that does not match.
MCIdentifiers == {"a", "b", "c", "d", "e", "f", "g", "h", "x", "study"}

MCDrafts == {Formal, Smoke, SafetyFormal}
=============================================================================
