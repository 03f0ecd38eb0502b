------------------------------ MODULE ClauseBag ------------------------------
(***************************************************************************)
(* DequeSharedClausesBag: the bag through which the parallel solvers       *)
(* exchange learnt clauses.  The bag is a deque shared by all of them;     *)
(* last_seen_by_solver holds, for every worker, how much of the deque's    *)
(* front it has read, and clean() drops the part everybody has read.       *)
(*                                                                         *)
(* A clause is named by its serial number in the order of the pushes.  log *)
(* and received are history: who pushed each clause, and what every worker *)
(* got back from its calls.                                                *)
(***************************************************************************)
EXTENDS Integers, Sequences

CONSTANTS
    Worker,       \* the solvers that share clauses (thread ids)
    MaxBatch,     \* bound: clauses that pass one call's heuristic filter
    MaxClauses    \* bound: clauses pushed in all

ASSUME ConstantsAssumption ==
    /\ Worker # {}
    /\ MaxBatch \in Nat
    /\ MaxClauses \in Nat

VARIABLES
    deque,                  \* the clauses in the bag, oldest first
    last_seen_by_solver,    \* [Worker -> length of the deque prefix it has read]
    log,                    \* history: log[i] pushed the clause with serial i
    received                \* history: the clauses each worker was given, in order

vars == <<deque, last_seen_by_solver, log, received>>

TypeOK ==
    /\ deque \in Seq(Nat)
    /\ last_seen_by_solver \in [Worker -> Nat]
    /\ log \in Seq(Worker)
    /\ received \in [Worker -> Seq(Nat)]

Init ==
    /\ deque = <<>>
    /\ last_seen_by_solver = [w \in Worker |-> 0]
    /\ log = <<>>
    /\ received = [w \in Worker |-> <<>>]

-----------------------------------------------------------------------------
\* Mutant: grab stops short of the newest clause.
GrabMissesLast(w) ==
    SubSeq(deque, last_seen_by_solver[w] + 1, Len(deque) - 1)

\* grab: what lies behind the caller's read position.
Grab(w) == SubSeq(deque, last_seen_by_solver[w] + 1, Len(deque))

\* Mutant: push_front, as if the deque were a stack.
PushedAtFront(k) == [i \in 1 .. k |-> Len(log) + i] \o deque

\* push: k new clauses at the back.
Pushed(k) == deque \o [i \in 1 .. k |-> Len(log) + i]

\* Mutant: push does not move the caller behind its own clauses.
SeenWithoutOwn(w, k) ==
    [last_seen_by_solver EXCEPT ![w] = @ + Len(Grab(w))]

\* grab moves the caller behind what it was given, push behind its own clauses.
SeenAfter(w, k) ==
    [last_seen_by_solver EXCEPT ![w] = @ + Len(Grab(w)) + k]

\* Mutant: the erase is forgotten, the bag only grows.
CleanNothing(bag, seen, m) ==
    /\ deque' = bag
    /\ last_seen_by_solver' = seen

\* clean: m is the least read position; the first m clauses go.
Clean(bag, seen, m) ==
    /\ deque' = SubSeq(bag, m + 1, Len(bag))
    /\ last_seen_by_solver' = [w \in Worker |-> seen[w] - m]

\* syncSharedClauses holds the bag's mutex from the grab to the end of clean.
SyncSharedClauses(w, k) ==
    LET seen == SeenAfter(w, k)
    IN  /\ Len(log) + k <= MaxClauses
        /\ received' = [received EXCEPT ![w] = @ \o Grab(w)]
        /\ log' = log \o [i \in 1 .. k |-> w]
        /\ \E slowest \in Worker :
              /\ \A v \in Worker : seen[slowest] <= seen[v]
              /\ Clean(Pushed(k), seen, seen[slowest])

Next == \E w \in Worker, k \in 0 .. MaxBatch : SyncSharedClauses(w, k)

Spec == Init /\ [][Next]_vars

-----------------------------------------------------------------------------
\* Clauses that clean() has dropped.
Base == Len(log) - Len(deque)

\* The prefix of the log that w has read or written.
ReadUpTo(w) == Base + last_seen_by_solver[w]

Elements(s) == {s[i] : i \in 1 .. Len(s)}

Increasing(s) == \A i, j \in 1 .. Len(s) : i < j => s[i] < s[j]

(***************************************************************************)
(* The bag holds exactly the youngest clauses of the log, in push order:   *)
(* clean() never drops a clause out of the middle and push never reorders. *)
(***************************************************************************)
DequeIsLogSuffix ==
    /\ Len(deque) <= Len(log)
    /\ \A i \in 1 .. Len(deque) : deque[i] = Base + i

\* No read position is behind the deque's end: grab computes
\* deque.size() - last_seen_by_solver[w] in unsigned arithmetic.
SeenWithinDeque == \A w \in Worker : last_seen_by_solver[w] <= Len(deque)

(***************************************************************************)
(* Every worker has been given each clause of the others that lies before  *)
(* its read position exactly once, in the order they were pushed, and none *)
(* of its own (syncSharedClauses grabs before it pushes).                  *)
(***************************************************************************)
ExactlyOnceInOrder ==
    \A w \in Worker :
        /\ Increasing(received[w])
        /\ Elements(received[w]) = {i \in 1 .. ReadUpTo(w) : log[i] # w}

\* A clause that a worker has still to read was pushed by another worker.
UnreadIsForeign ==
    \A w \in Worker : \A i \in ReadUpTo(w) + 1 .. Len(log) : log[i] # w

(***************************************************************************)
(* The bag keeps a clause only while some worker has still to read it: the *)
(* slowest reader is at the front of the deque whenever the mutex is free. *)
(***************************************************************************)
NothingReadByAllIsKept == \E w \in Worker : last_seen_by_solver[w] = 0

\* The inductive invariant: how deque and read positions represent the log.
IInv ==
    /\ TypeOK
    /\ DequeIsLogSuffix
    /\ SeenWithinDeque
    /\ ExactlyOnceInOrder
    /\ UnreadIsForeign
    /\ NothingReadByAllIsKept

-----------------------------------------------------------------------------
\* The bag implements the broadcast log.
Broadcast == INSTANCE ClauseBroadcast
                WITH inbox <- [w \in Worker |-> Elements(received[w])]

BroadcastSpec == Broadcast!Spec
=============================================================================
