--------------------------- MODULE ClauseBroadcast ---------------------------
(***************************************************************************)
(* What a shared bag of learnt clauses promises to the solvers that use it *)
(* (clausesharing/ISharedClausesBag.h): one ordered log of clauses, and    *)
(* every synchronisation hands the caller each clause of the log that      *)
(* somebody else pushed and that it does not have yet.  A clause is named  *)
(* by its position in the log; what it says does not matter here.          *)
(***************************************************************************)
EXTENDS Naturals, Sequences

CONSTANTS
    Worker,       \* the solvers that share clauses (thread ids)
    MaxBatch,     \* bound: clauses pushed by one synchronisation
    MaxClauses    \* bound: clauses pushed in all

VARIABLES
    log,          \* log[i]: the worker that pushed the i-th clause
    inbox         \* inbox[w]: the clauses handed to w so far

vars == <<log, inbox>>

Init ==
    /\ log = <<>>
    /\ inbox = [w \in Worker |-> {}]

\* The clauses that are not w's own.
Foreign(w) == {i \in 1 .. Len(log) : log[i] # w}

\* w receives everything it lacks, then adds k clauses of its own.
Sync(w, k) ==
    /\ Len(log) + k <= MaxClauses
    /\ inbox' = [inbox EXCEPT ![w] = Foreign(w)]
    /\ log' = log \o [i \in 1 .. k |-> w]

Next == \E w \in Worker, k \in 0 .. MaxBatch : Sync(w, k)

Spec == Init /\ [][Next]_vars
=============================================================================
