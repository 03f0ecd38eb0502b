--------------------------- MODULE MCSolutionsArchive ---------------------------
(***************************************************************************)
(* Model checking of SolutionsArchive: two objectives, two solvers and one *)
(* unlocked reader.  With MAX_SOLUTIONS below MaxArchive the archive       *)
(* overflows its published prefix.                                         *)
(***************************************************************************)
EXTENDS SolutionsArchive, TLC

\* A worst point, a better one, and two incomparable ones that beat both.
MCFeasible == {<<2, 2>>, <<1, 1>>, <<0, 1>>, <<1, 0>>}

\* The solvers are interchangeable.
WorkerSymmetry == Permutations(Worker)
=============================================================================
