------------------------------ MODULE ParUnsatSat ------------------------------
(***************************************************************************)
(* ParUnsatSatMO: the core-guided search of all Pareto optimal points by   *)
(* parallel solvers.  A fence bounds a box of the objective space.  A      *)
(* solver takes a fence from the shared waiting list, enumerates and       *)
(* blocks the solutions in its box, and, once the box is exhausted, moves  *)
(* the fence outwards along the objectives of the unsatisfiable core.      *)
(*                                                                         *)
(* What the solvers exclude and share with each other is in ParallelMO.    *)
(***************************************************************************)
EXTENDS ParallelMO

CONSTANTS
    NoWorker,        \* nobody is in the critical section
    Value,           \* [Obj -> the values an objective can take: the encoding's
                     \*  keys, one less]
    Stride           \* option stride

\* The values of the subset sums: none and all of an objective's literals.
ASSUME SearchAssumption ==
    /\ NoWorker \notin Worker
    /\ Value \in [Obj -> SUBSET (0 .. MaxValue)]
    /\ \A o \in Obj : {0, MaxValue} \subseteq Value[o]
    /\ \A P \in Problem : \A p \in P : \A o \in Obj : p[o] \in Value[o]
    /\ Stride \in Nat \ {0}

VARIABLES
    pc,            \* [Worker -> what the thread does next]
    fence,         \* [Worker -> the fence it explores]
    core,          \* [Worker -> the objectives in the core of its last UNSAT]
    children,      \* [Worker -> new fences it has still to insert]
    pending,       \* the waiting list
    seen,          \* the fences that were ever inserted
    active,        \* atomic: workers that explore a fence
    section        \* who is in the critical section work_state

vars == <<mode, feasible, pc, fence, core, children, excluded, solutions, pending, seen,
          active, section, exported, front, unread, answerType>>

Zero == [o \in Obj |-> 0]

\* Where a worker explores its fence, and where it still owes its children.
Exploring == {"solve", "clauses", "solutions", "clausesUnsat", "solutionsUnsat", "insert"}
Busy == Exploring \cup {"leave"}

Phase == {"first", "ready", "joinClauses", "joinSolutions", "joined", "pop", "done"} \cup Busy

TypeOK ==
    /\ SharedTypeOK
    /\ pc \in [Worker -> Phase]
    /\ fence \in [Worker -> YPoint]
    /\ core \in [Worker -> SUBSET Obj]
    /\ children \in [Worker -> SUBSET YPoint]
    /\ pending \in SUBSET YPoint
    /\ seen \in SUBSET YPoint
    /\ active \in Nat
    /\ section \in Worker \cup {NoWorker}

Init ==
    /\ mode \in Modes
    /\ feasible \in Problem
    /\ pc = [w \in Worker |-> "first"]
    /\ fence = [w \in Worker |-> Zero]
    /\ core = [w \in Worker |-> {}]
    /\ children = [w \in Worker |-> {}]
    /\ excluded = [w \in Worker |-> {}]
    /\ solutions = [w \in Worker |-> {}]
    /\ pending = {}
    /\ seen = {}
    /\ active = 0
    /\ section = NoWorker
    /\ exported = {}
    /\ Archive!Init
    /\ answerType = "unknown"

-----------------------------------------------------------------------------
Goto(w, label) == pc' = [pc EXCEPT ![w] = label]

-----------------------------------------------------------------------------
(***************************************************************************)
(* search_MO: every worker finds a first solution, consolidates it (a push *)
(* without a pull) and blocks it; after the barrier they share.            *)
(***************************************************************************)
FirstSolution(w) ==
    /\ pc[w] = "first"
    /\ \E p \in feasible :
          /\ Archive!Sync(w, {p})
          /\ excluded' = [excluded EXCEPT ![w] = @ \cup DominatedRegion(p)]
    /\ Goto(w, "ready")
    /\ UNCHANGED <<mode, feasible, fence, core, children, solutions, pending, seen, active,
                   section, exported, answerType>>

NoFirstSolution(w) ==
    /\ pc[w] = "first"
    /\ feasible = {}
    /\ Goto(w, "ready")
    /\ UNCHANGED <<mode, feasible, fence, core, children, excluded, solutions, pending, seen,
                   active, section, exported, front, unread, answerType>>

Barrier(w) ==
    /\ pc[w] = "ready"
    /\ \A v \in Worker : pc[v] # "first"
    /\ Goto(w, IF feasible = {} THEN "joined" ELSE "joinClauses")
    /\ UNCHANGED <<mode, feasible, fence, core, children, excluded, solutions, pending, seen,
                   active, section, exported, front, unread, answerType>>

\* The main thread, between the two parallel regions: rootedSearch, if feasible.
Root ==
    /\ \A w \in Worker : pc[w] = "joined"
    /\ IF feasible = {}
       THEN /\ pc' = [w \in Worker |-> "done"]
            /\ UNCHANGED <<pending, seen>>
       ELSE /\ pc' = [w \in Worker |-> "pop"]
            /\ pending' = pending \cup {Zero}
            /\ seen' = seen \cup {Zero}
    /\ UNCHANGED <<mode, feasible, fence, core, children, excluded, solutions, active,
                   section, exported, front, unread, answerType>>

-----------------------------------------------------------------------------
\* try_pop succeeds.  Which pending fence is on top depends on the order of
\* the insertions (expansion_order) and matters to no property.
Pop(w) ==
    /\ pc[w] = "pop"
    /\ section = NoWorker
    /\ \E q \in pending :
          /\ pending' = pending \ {q}
          /\ fence' = [fence EXCEPT ![w] = q]
    /\ active' = active + 1
    /\ Goto(w, "solve")
    /\ UNCHANGED <<mode, feasible, core, children, excluded, solutions, seen, section,
                   exported, front, unread, answerType>>

\* Nothing to pop and nobody who could add anything: w leaves the loop.
Finish(w) ==
    /\ pc[w] = "pop"
    /\ section = NoWorker
    /\ pending = {}
    /\ active = 0
    /\ Goto(w, "done")
    /\ UNCHANGED <<mode, feasible, fence, core, children, excluded, solutions, pending, seen,
                   active, section, exported, front, unread, answerType>>

-----------------------------------------------------------------------------
\* solve is SAT in the box of the fence; pushSafe and blockStep.
SolveSat(w) ==
    /\ pc[w] = "solve"
    /\ \E p \in Open(w) :
          /\ dominates(p, fence[w])
          /\ IF Covers(solutions[w], p)
             THEN UNCHANGED <<pc, excluded, solutions>>
             ELSE /\ solutions' = [solutions EXCEPT ![w] =
                                     {q \in @ : ~ dominates(p, q)} \cup {p}]
                  /\ excluded' = [excluded EXCEPT ![w] = @ \cup DominatedRegion(p)]
                  /\ Goto(w, "clauses")
    /\ UNCHANGED <<mode, feasible, fence, core, children, pending, seen, active, section,
                   exported, front, unread, answerType>>

\* The bounds of the objectives in C alone leave the solver nothing.
IsCore(w, C) == \A p \in Open(w) : \E o \in C : p[o] > fence[w][o]

\* Mutant: the core of an earlier UNSAT is kept.
StaleCore(w) ==
    /\ pc[w] = "solve"
    /\ \E C \in SUBSET Obj : IsCore(w, C)
    /\ Goto(w, "clausesUnsat")
    /\ UNCHANGED <<mode, feasible, fence, core, children, excluded, solutions, pending, seen,
                   active, section, exported, front, unread, answerType>>

\* solve is UNSAT, for some core.
SolveUnsat(w) ==
    /\ pc[w] = "solve"
    /\ \E C \in SUBSET Obj :
          /\ IsCore(w, C)
          /\ core' = [core EXCEPT ![w] = C]
    /\ Goto(w, "clausesUnsat")
    /\ UNCHANGED <<mode, feasible, fence, children, excluded, solutions, pending, seen,
                   active, section, exported, front, unread, answerType>>

\* solve runs out of conflicts: share, then retry.
SolveUndef(w) ==
    /\ pc[w] = "solve"
    /\ mode.budget
    /\ Goto(w, "clauses")
    /\ UNCHANGED <<mode, feasible, fence, core, children, excluded, solutions, pending, seen,
                   active, section, exported, front, unread, answerType>>

-----------------------------------------------------------------------------
\* After shareClauses comes shareSolutions, and what follows the two.
AfterClauses(label) == CASE label = "joinClauses"  -> "joinSolutions"
                         [] label = "clauses"      -> "solutions"
                         [] label = "clausesUnsat" -> "solutionsUnsat"

Clauses(w) ==
    /\ pc[w] \in {"joinClauses", "clauses", "clausesUnsat"}
    /\ ShareClauses(w)
    /\ Goto(w, AfterClauses(pc[w]))
    /\ UNCHANGED <<mode, feasible, fence, core, children, solutions, pending, seen, active,
                   section, front, unread, answerType>>

Solutions(w) ==
    /\ pc[w] \in {"joinSolutions", "solutions"}
    /\ ShareSolutions(w)
    /\ Goto(w, IF pc[w] = "solutions" THEN "solve" ELSE "joined")
    /\ UNCHANGED <<mode, feasible, fence, core, children, pending, seen, active, section,
                   exported, answerType>>

-----------------------------------------------------------------------------
Larger(a, b) == IF a > b THEN a ELSE b
Smaller(a, b) == IF a < b THEN a ELSE b

\* extendUL: the encoding has a key above x, and v is the value below the next one.
IsNext(o, x, v) == v \in Value[o] /\ v > x /\ \A u \in Value[o] : u > x => v <= u

\* Mutant: the stride alone moves the fence, not at least to the next value.
StrideOnly(q, C) ==
    {c \in YPoint :
        \E o \in C, v \in 0 .. MaxValue :
            /\ IsNext(o, q[o], v)
            /\ c = [q EXCEPT ![o] = Smaller(MaxValue, q[o] * Stride)]}

\* generateExpansionPoints: one fence for every objective of the core that can
\* be extended, to the next value or, with a stride, further.
ExpansionPoints(q, C) ==
    {c \in YPoint :
        \E o \in C, v \in 0 .. MaxValue :
            /\ IsNext(o, q[o], v)
            /\ c = [q EXCEPT ![o] = Smaller(MaxValue, Larger(v, q[o] * Stride))]}

\* shareSolutions after the UNSAT; the children come from the core kept since.
Expand(w) ==
    /\ pc[w] = "solutionsUnsat"
    /\ ShareSolutions(w)
    /\ children' = [children EXCEPT ![w] = ExpansionPoints(fence[w], core[w])]
    /\ Goto(w, "insert")
    /\ UNCHANGED <<mode, feasible, fence, core, pending, seen, active, section, exported,
                   answerType>>

\* Mutants: the smaller of two comparable fences is kept; a fence that was taken from
\* the list already is inserted again.
KeepSmaller(q) ==
    /\ seen' = seen \cup {q}
    /\ pending' = IF q \in seen \/ \E r \in pending : dominates(r, q)
                  THEN pending
                  ELSE {r \in pending : ~ dominates(q, r)} \cup {q}

InsertAgain(q) ==
    /\ seen' = seen \cup {q}
    /\ pending' = IF \E r \in pending : dominates(q, r)
                  THEN pending
                  ELSE {r \in pending : ~ dominates(r, q)} \cup {q}

\* One insertAndPrune in the critical section: the list ignores a fence it has
\* seen, and one inside a pending fence, and drops the fences inside the new one.
InsertAndPrune(q) ==
    /\ seen' = seen \cup {q}
    /\ pending' = IF q \in seen \/ \E r \in pending : dominates(q, r)
                  THEN pending
                  ELSE {r \in pending : ~ dominates(r, q)} \cup {q}

Insert(w) ==
    /\ pc[w] = "insert"
    /\ section \in {NoWorker, w}
    /\ section' = w
    /\ \E q \in children[w] :
          /\ InsertAndPrune(q)
          /\ children' = [children EXCEPT ![w] = @ \ {q}]
    /\ UNCHANGED <<mode, feasible, pc, fence, core, excluded, solutions, active, exported,
                   front, unread, answerType>>

EndInsert(w) ==
    /\ pc[w] = "insert"
    /\ children[w] = {}
    /\ section \in {NoWorker, w}
    /\ section' = NoWorker
    /\ Goto(w, "leave")
    /\ UNCHANGED <<mode, feasible, fence, core, children, excluded, solutions, pending, seen,
                   active, exported, front, unread, answerType>>

\* Mutant: the counter is not decremented.
LeaveBusy(w) ==
    /\ pc[w] = "leave"
    /\ Goto(w, "pop")
    /\ UNCHANGED <<mode, feasible, fence, core, children, excluded, solutions, pending, seen,
                   active, section, exported, front, unread, answerType>>

\* active.fetch_sub(1), outside of the critical section.
Leave(w) ==
    /\ pc[w] = "leave"
    /\ active' = active - 1
    /\ Goto(w, "pop")
    /\ UNCHANGED <<mode, feasible, fence, core, children, excluded, solutions, pending, seen,
                   section, exported, front, unread, answerType>>

-----------------------------------------------------------------------------
\* The main thread, when the parallel region is over.
Answer ==
    /\ \A w \in Worker : pc[w] = "done"
    /\ answerType = "unknown"
    /\ answerType' = IF front = {} THEN "unsatisfiable" ELSE "optimum"
    /\ UNCHANGED <<mode, feasible, pc, fence, core, children, excluded, solutions, pending,
                   seen, active, section, exported, front, unread>>

Step(w) ==
    \/ FirstSolution(w) \/ NoFirstSolution(w) \/ Barrier(w)
    \/ Pop(w) \/ Finish(w)
    \/ SolveSat(w) \/ SolveUnsat(w) \/ SolveUndef(w)
    \/ Clauses(w) \/ Solutions(w)
    \/ Expand(w) \/ Insert(w) \/ EndInsert(w) \/ Leave(w)

Next == Root \/ Answer \/ \E w \in Worker : Step(w)

Spec == Init /\ [][Next]_vars

\* Every thread is scheduled, and every call of a SAT solver returns.
Fairness == WF_vars(Root) /\ WF_vars(Answer) /\ \A w \in Worker : WF_vars(Step(w))

FairSpec == Spec /\ Fairness

-----------------------------------------------------------------------------
\* The fences that somebody has still to explore, or to expand.
Alive == pending \cup {fence[w] : w \in {v \in Worker : pc[v] \in Exploring}}

(***************************************************************************)
(* As long as a feasible point is not covered by a stored solution, no     *)
(* fence is lost: each one that was ever inserted lies inside a fence that *)
(* is pending or being explored, however the pruning, the imported clauses *)
(* and the cores of the solvers interleave.                                *)
(***************************************************************************)
NoFenceIsLost ==
    (\E p \in feasible : ~ Covers(Stored, p)) =>
        \A q \in seen : \E r \in Alive : dominates(q, r)

(***************************************************************************)
(* A worker leaves the search only when there is nothing left to do: no    *)
(* fence is pending, and nobody will insert another one.                   *)
(***************************************************************************)
NoEarlyFinish ==
    (\E w \in Worker : pc[w] = "done") =>
        /\ pending = {}
        /\ \A w \in Worker : pc[w] \in {"pop", "done"}

(***************************************************************************)
(* The fences that are pending or being explored are all different: no box *)
(* is searched by two solvers, and none is searched twice.                 *)
(***************************************************************************)
FencesAreDistinct ==
    \A w, v \in Worker :
        pc[w] \in Exploring =>
            /\ fence[w] \notin pending
            /\ pc[v] \in Exploring /\ fence[v] = fence[w] => v = w

\* The pending fences are pairwise incomparable (insertAndPrune).
PendingIsAntichain == IsAntichain(pending)

-----------------------------------------------------------------------------
\* The phases before and after rootedSearch starts its parallel region.
Early == {"first", "ready", "joinClauses", "joinSolutions", "joined"}
Late == {"pop", "done"} \cup Busy

PhaseInv ==
    \/ /\ \A w \in Worker : pc[w] \in Early
       /\ pending = {} /\ seen = {}
    \/ /\ \A w \in Worker : pc[w] \in Late
       /\ feasible # {} => seen # {}

ActiveInv == active = Cardinality({w \in Worker : pc[w] \in Busy})

SectionInv == section # NoWorker => pc[section] = "insert"

\* A worker has something to share only between a model and shareSolutions.
LocalInv ==
    \A w \in Worker :
        /\ IsAntichain(solutions[w])
        /\ pc[w] \notin {"clauses", "solutions"} => solutions[w] = {}

FenceInv ==
    /\ pending \subseteq seen
    /\ \A w \in Worker : pc[w] \in Exploring => fence[w] \in seen

(***************************************************************************)
(* What is left to find lies outside the fence of a worker that has its    *)
(* core, along an objective of the core; later, some fence beyond the      *)
(* worker's own is one of its children or has been inserted.               *)
(***************************************************************************)
ExpansionInv ==
    \A w \in Worker : \A p \in Uncovered :
        /\ pc[w] \in {"clausesUnsat", "solutionsUnsat"} =>
              \E o \in core[w] : p[o] > fence[w][o]
        /\ pc[w] = "insert" =>
              \E c \in children[w] \cup seen : dominates(fence[w], c) /\ c # fence[w]

AnsweredInv == answerType # "unknown" => \A w \in Worker : pc[w] = "done"

\* The inductive invariant: where the threads are and whose the fences are,
\* and what the stored solutions and the fences cover.
ControlInv ==
    /\ TypeOK
    /\ PhaseInv
    /\ ActiveInv
    /\ SectionInv
    /\ FenceInv
    /\ FencesAreDistinct
    /\ PendingIsAntichain
    /\ NoEarlyFinish
    /\ AnsweredInv

CoverageInv ==
    /\ LocalInv
    /\ StoredInv
    /\ ExclusionIsJustified
    /\ NoFenceIsLost
    /\ ExpansionInv
    /\ AnswerIsCorrect

IInv == ControlInv /\ CoverageInv

\* The search ends (without a conflict budget).
Terminates == ~ mode.budget => <>(answerType # "unknown")
=============================================================================
