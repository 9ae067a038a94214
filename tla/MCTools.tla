------------------------------- MODULE MCTools -------------------------------
(* A launcher with three descendants; contracts of six units of capacity and    *)
(* arguments up to one more; sequences of two calls and one import; two prefixes, *)
(* where the concrete arm repeats one boundary value and one of three           *)
(* identities is the warmup's; a solver with up to two models (two values, one  *)
(* marked invalid, one without an argument) and two attempts.                   *)
EXTENDS Tools

MCAmounts == 0..Capacity + 1
MCCalls == {"a", "b"}
MCImports == {<<"a", "b">>}
MCBoundary == <<1, 1>>
MCRandom == <<1, 2>>

Var(name, value) == [symbol |-> name, name |-> name, exact |-> TRUE, value |-> value]
Two(flag, x, y) == [flag |-> flag, variables |-> <<Var("arg0", x), Var("arg1", y)>>]
One(flag, x) == [flag |-> flag, variables |-> <<Var("arg0", x)>>]
AloneOr(S, pairs) == {<<>>} \union {<<m>> : m \in S} \union pairs

MCSolverTests == {"prefix", "goal", "suffix2"}
MCWorlds ==
  [t \in MCSolverTests |->
     CASE t = "suffix2" ->
            AloneOr({Two("valid", 1, 2), Two("invalid", 1, 1), One("valid", 1)},
                    {<<Two("valid", 1, 2), second>> :
                       second \in {Two("valid", 1, 2), Two("valid", 2, 1), Two("invalid", 1, 1)}})
       [] t = "goal" ->
            AloneOr({One("valid", 1), One("invalid", 2)}, {<<One("invalid", 2), One("valid", 1)>>})
       [] t = "prefix" -> AloneOr({One("valid", 1)}, {})]
=============================================================================
