---------------------------- MODULE MCParPMinimal ----------------------------
(***************************************************************************)
(* Model checking of ParPMinimal with two objectives of three values: no   *)
(* point, one point, optimal points that beat others, and two descents to  *)
(* the same point with a diagonal beside it.                               *)
(***************************************************************************)
EXTENDS ParPMinimal

SomeProblems ==
    {{}, {<<1, 1>>}, {<<0, 1>>, <<1, 0>>, <<1, 1>>}, {<<0, 1>>, <<1, 1>>, <<1, 2>>, <<2, 0>>}}

\* Clauses are shared; or they are not, but the budget may run out.
SomeModes == {[clauses |-> TRUE, budget |-> FALSE], [clauses |-> FALSE, budget |-> TRUE]}
=============================================================================
