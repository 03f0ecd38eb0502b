-------------------------------- MODULE Pareto --------------------------------
(***************************************************************************)
(* Points of the objective space and the dominance order on them           *)
(* (Pareto.cc).  All objectives are minimised and all values are bounded   *)
(* by MaxValue, the difference of the objectives' bounds.                  *)
(***************************************************************************)
EXTENDS Integers

CONSTANTS
    Obj,         \* the objectives, 1 .. number of objectives in the runs
    MaxValue     \* the largest value an objective can take

ASSUME ObjectiveAssumption ==
    /\ Obj # {}
    /\ MaxValue \in Nat

YPoint == [Obj -> 0 .. MaxValue]

\* pareto::dominates: no worse in any objective; every point dominates itself.
dominates(a, b) == \A o \in Obj : a[o] <= b[o]

\* Some point of S is at least as good as p.
Covers(S, p) == \E q \in S : dominates(q, p)

\* No point of S is at least as good as another one.
IsAntichain(S) == \A p, q \in S : dominates(p, q) => p = q

\* The points of S that no other point of S beats.
NonDominated(S) == {p \in S : \A q \in S : dominates(q, p) => q = p}
=============================================================================
