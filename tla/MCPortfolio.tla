------------------------------ MODULE MCPortfolio ------------------------------
(***************************************************************************)
(* Model checking of Portfolio with two members and two objectives.        *)
(***************************************************************************)
EXTENDS Portfolio, TLC

Point(a, b) == (1 :> a) @@ (2 :> b)

\* No solution; two optimal points; a third one that both of them dominate.
SomeProblems ==
    {{}, {Point(0, 1), Point(1, 0)}, {Point(0, 1), Point(1, 0), Point(1, 1)}}

Mode(one, other, clauses, sols, stop) ==
    [kind |-> <<one, other>>, clauses |-> clauses, solutions |-> sols, stop |-> stop]

\* Without PMinimalMO, or without clauses.
SafeModes ==
    {Mode("us", "sd", TRUE, TRUE, TRUE), Mode("hs", "us", TRUE, TRUE, TRUE),
     Mode("hs", "sd", TRUE, FALSE, TRUE), Mode("sd", "sd", TRUE, FALSE, TRUE),
     Mode("us", "pmin", FALSE, TRUE, TRUE), Mode("pmin", "sd", FALSE, TRUE, TRUE),
     Mode("pmin", "sd", FALSE, FALSE, TRUE), Mode("us", "pmin", FALSE, FALSE, FALSE)}

ClausesWithPMinimal == {Mode("us", "pmin", TRUE, FALSE, FALSE)}
=============================================================================
