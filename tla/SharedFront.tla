----------------------------- MODULE SharedFront -----------------------------
(***************************************************************************)
(* What the set of solutions shared by the solvers promises                *)
(* (solutionsharing/ISharedSolutionsSet.h): it is the set of best points   *)
(* of everything that was handed to it, and a solver that synchronises is  *)
(* given the members it has not been given a chance to see yet.            *)
(***************************************************************************)
EXTENDS Pareto

CONSTANT Worker     \* the solvers (thread ids)

VARIABLES
    front,          \* the points of the solutions that are not dominated
    unread          \* [Worker -> the part of front the worker's next pull returns]

Init ==
    /\ front = {}
    /\ unread = [w \in Worker |-> {}]

\* The candidates that no member is as good as: these join.
New(points) == {p \in points : ~ Covers(front, p)}

\* The members that one of the joining points beats: these are dropped.
Beaten(points) == {q \in front : Covers(New(points), q)}

\* w synchronises: afterwards it has nothing left to read, pulled or not.
Sync(w, points) ==
    /\ front' = (front \ Beaten(points)) \cup New(points)
    /\ unread' = [v \in Worker |->
                    IF v = w THEN {} ELSE (unread[v] \ Beaten(points)) \cup New(points)]

Next == \E w \in Worker, points \in SUBSET YPoint :
            IsAntichain(points) /\ Sync(w, points)

Spec == Init /\ [][Next]_<<front, unread>>
=============================================================================
