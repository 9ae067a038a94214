---------------------------- MODULE Subsequences ----------------------------
(***************************************************************************)
(* The part of a list that lies in a set, in its order: the comprehension   *)
(* [x for x in seq if x in S].  It is SelectSeq with membership as its test, *)
(* written out because the provers have no definition of SelectSeq.         *)
(***************************************************************************)
EXTENDS Naturals, Sequences

Among(seq, S) ==
  LET kept[n \in 0..Len(seq)] ==
        IF n = 0 THEN <<>>
        ELSE IF seq[n] \in S THEN Append(kept[n - 1], seq[n]) ELSE kept[n - 1]
  IN  kept[Len(seq)]

\* Lists one after the other, as list.extend leaves them.
Joined(lists) ==
  LET joined[n \in 0..Len(lists)] ==
        IF n = 0 THEN <<>> ELSE joined[n - 1] \o lists[n]
  IN  joined[Len(lists)]
=============================================================================
