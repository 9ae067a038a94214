---------------------------- MODULE MCJudgements -----------------------------
(* Suffixes of up to two calls; two prefixes, with one plan and two candidates;  *)
(* one block of two arms; a slot with two calls whose goal is to have made both; *)
(* and a Stage 5 slot with candidates that violate at their first, their second  *)
(* or no suffix call, and one that violates the repaired contract as well, where *)
(* the fuzzer may find the violation by itself.                                  *)
EXTENDS Judgements

MCBlocks == <<"phase_counter:1">>
MCOrder == <<<<"symbolic_augment", "native_resume">>>>

MCPlans == {<<"a">>, <<"a", "b">>, <<"b", "b">>}
MCWarmups == {<<<<"a">>>>, <<<<"a", "b">>>>}
MCSeeds == {{<<"a", "b">>}}

T == TRUE
F == FALSE
MCHolds == [p |-> <<T>>, w |-> <<T, F>>, one |-> <<T, F, F>>, two |-> <<T, T, F>>,
            none |-> <<T, T>>, both |-> <<T, F>>]
MCRepairedHolds ==
  [MCHolds EXCEPT !["w"] = <<T, T>>, !["one"] = <<T, T, T>>, !["two"] = <<T, T, T>>]

MCWarmups5 == {<<"p">>, <<"p", "w">>}
=============================================================================
