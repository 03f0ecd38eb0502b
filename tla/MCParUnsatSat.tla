----------------------------- MODULE MCParUnsatSat -----------------------------
(***************************************************************************)
(* Model checking of ParUnsatSat.  With values 0 and 1 every set of points *)
(* is tried; with larger values, sets chosen for what they exercise.       *)
(***************************************************************************)
EXTENDS ParUnsatSat, TLC

\* Every objective takes all the values; or the first one skips one, and the
\* second one has a single literal.
AllValues == [o \in Obj |-> 0 .. MaxValue]
SparseValues == [o \in Obj |-> IF o = 1 THEN {0, 1, 2, 4} ELSE {0, 4}]

EveryProblem == SUBSET YPoint

\* A fence moved with stride 3 goes from 1 to 3, past 2 and to no value at all.
SparseProblems == {{<<0, 4>>, <<2, 0>>}, {<<4, 0>>, <<4, 4>>}}

\* Clauses are shared; or they are not, but the budget may run out.
SharedClauses == {[clauses |-> TRUE, budget |-> FALSE]}
SmallBudget == {[clauses |-> FALSE, budget |-> TRUE]}

\* The workers are interchangeable.
WorkerSymmetry == Permutations(Worker)
=============================================================================
