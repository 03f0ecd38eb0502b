----------------------------- MODULE MCHittingSets -----------------------------
(***************************************************************************)
(* Model checking of HittingSets with two objectives over three variables. *)
(***************************************************************************)
EXTENDS HittingSets

Pos(v) == [var |-> v, sign |-> TRUE]
Neg(v) == [var |-> v, sign |-> FALSE]

\* Coefficients of the objectives, as sets of pairs of a literal and its weight.
Coefficients(terms) ==
    [l \in Literal |-> IF \E t \in terms : t[1] = l
                       THEN (CHOOSE t \in terms : t[1] = l)[2] ELSE 0]

\* The first objective counts a and b, the second one counts b and c.
UnitWeights == <<Coefficients({<<Pos("a"), 1>>, <<Pos("b"), 1>>}),
                 Coefficients({<<Pos("b"), 1>>, <<Pos("c"), 1>>})>>

Clause(S) == {x \in Assignment : \E l \in S : Holds(l, x)}

Only(S) == [v \in Var |-> v \in S]

\* No solution; two optimal ones; one that dominates another, which dominates a third.
SomeFormulas ==
    {{}, {Only({"a"}), Only({"c"})}, {Only({"a"}), Only({"a", "c"}), Only({"a", "b", "c"})}}

AllModes == {<<FALSE, FALSE>>, <<TRUE, TRUE>>}

\* a in both polarities: counted by one objective when true, by the other when false.
BothPolarities == <<Coefficients({<<Pos("a"), 1>>, <<Pos("b"), 1>>}),
                    Coefficients({<<Neg("a"), 1>>, <<Pos("c"), 1>>})>>

\* The second objective has a value, 2, between those that p alone gives it.
MixedWeights == <<Coefficients({<<Pos("e"), 1>>}),
                  Coefficients({<<Pos("p"), 3>>, <<Pos("q"), 2>>})>>

\* Two optimal points, (0, 3) with p and r, and (1, 2) with e and q.
TwoWays == {Clause({Pos("e"), Pos("p")}) \cap Clause({Neg("e"), Pos("q")})
              \cap Clause({Neg("p"), Pos("r")})}

EveryAssignment == {Assignment}

Parallel == {<<FALSE, FALSE>>}
=============================================================================
