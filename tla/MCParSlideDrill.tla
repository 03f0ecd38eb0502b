---------------------------- MODULE MCParSlideDrill ----------------------------
(***************************************************************************)
(* Model checking of ParSlideDrill: two workers, and sets of points chosen *)
(* for slides with several points, drills from them and rediscoveries.     *)
(***************************************************************************)
EXTENDS ParSlideDrill

\* No point; a diagonal; one with a point that another one dominates; drills from two
\* points that both find the same one, without and with a further point, which may be
\* the first solution, so that two slides find it at the same time.
SomeProblems ==
    {{}, {<<0, 2>>, <<1, 1>>, <<2, 0>>},
     {<<0, 1>>, <<1, 0>>, <<1, 2>>}, {<<0, 0>>, <<0, 1>>, <<1, 0>>},
     {<<0, 0>>, <<0, 1>>, <<1, 0>>, <<1, 1>>}}

\* Clauses are shared; or they are not, but the budget may run out, and slides are
\* given up and resumed; or neither.
SomeModes ==
    [clauses : BOOLEAN, budget : BOOLEAN] \ {[clauses |-> TRUE, budget |-> TRUE]}

\* Clauses or a budget with at most three points; a budget without dominated drills.
MCInit ==
    /\ Init
    /\ mode.clauses \/ mode.budget => Cardinality(feasible) <= 3
    /\ mode.budget => <<1, 2>> \notin feasible

MCSpec == MCInit /\ [][Next]_vars /\ Fairness
=============================================================================
