------------------------------ MODULE HittingSets ------------------------------
(***************************************************************************)
(* ParHittingSetsMO: Pareto optimisation by hitting sets.  An optimizer    *)
(* (ParUnsatSatIncHSMO, or UnsatSatIncHSMO with one thread) knows only the *)
(* objectives and some clauses, the diagnoses.  It enumerates the optimal  *)
(* candidates of that relaxation; workers with the complete formula test   *)
(* them.  A candidate that fails yields a diagnosis, which the optimizer   *)
(* gets for the next round, together with the literals to count.           *)
(*                                                                         *)
(* Literals that no diagnosis mentions are frozen: the optimizer assumes   *)
(* them false and does not count them.  What is counted is the slice; the  *)
(* values an objective takes on it are the keys of the sliced encoding,    *)
(* while the variables behind the keys compare the complete objective.     *)
(***************************************************************************)
EXTENDS Pareto, FiniteSets, FiniteSetsExt

CONSTANTS
    Var,          \* the variables of the formula
    Weight,       \* [Obj -> [Literal -> coefficient, 0 if it does not occur]]
    Formulas,     \* the sets of solutions that the formula can have
    Worker,       \* the solvers that test candidates
    Optimizer,    \* the solvers of the optimizer
    Stride,       \* option optimizer_stride
    Modes         \* pairs: is the optimizer sequential, is a conflict budget set

Assignment == [Var -> BOOLEAN]

Literal == [var : Var, sign : BOOLEAN]

Not(l) == [l EXCEPT !.sign = ~ @]

Holds(l, x) == x[l.var] = l.sign

ASSUME HittingSetsAssumption ==
    /\ IsFiniteSet(Obj) /\ IsFiniteSet(Var)
    /\ Weight \in [Obj -> [Literal -> Nat]]
    /\ \A F \in Formulas : F \subseteq Assignment
    /\ IsFiniteSet(Worker) /\ Worker # {}
    /\ IsFiniteSet(Optimizer) /\ Optimizer # {}
    /\ Stride \in Nat \ {0}
    /\ Modes \subseteq BOOLEAN \X BOOLEAN

VARIABLES
    formula,       \* the solutions of the formula
    sequential,    \* whether the optimizer is UnsatSatIncHSMO
    budget,        \* whether its solvers have a conflict budget
    phase,         \* what the main thread does
    front,         \* the archive of solutions
    answerType,
    \* the optimizer
    frozen,        \* blockedVars
    slice,         \* the literals that objRootLits and the objectives count
    slicedRoots,   \* [Obj -> the keys of the slice, one less]
    clauses,       \* the diagnoses it knows
    permanent,     \* the blocking clauses whose guards are unit clauses
    soft_blocks,   \* the blocking clauses it remembers, by their points
    solution,      \* the candidates of this round
    lowerBound,    \* the points of the candidates that failed in the last round
    activeBlocks,  \* the blocking clauses of this round
    pending,       \* the waiting list of fences
    seen,          \* the fences inserted in this round
    active,        \* threads that explore a fence
    pc,            \* [Optimizer -> what the thread does next]
    fence,         \* [Optimizer -> the fence it explores]
    guards,        \* [Optimizer -> the blocking clauses it assumes]
    \* the workers
    untested,      \* candidates that nobody has taken
    rejected,      \* [Worker -> the candidates it found unsatisfiable, with a core]
    tested,        \* the workers that are through with their candidates
    marked_sols,   \* the candidates that failed
    diagnoses      \* the cores of the candidates that failed

relaxation == <<frozen, slice, slicedRoots, clauses, permanent, lowerBound>>
search == <<soft_blocks, solution, activeBlocks, pending, seen, active, pc, fence, guards>>
testing == <<untested, rejected, tested, marked_sols, diagnoses>>
problem == <<formula, sequential, budget>>
vars == <<problem, phase, front, answerType, relaxation, search, testing>>

-----------------------------------------------------------------------------
Counted(o) == {l \in Literal : Weight[o][l] > 0}

AllCounted == UNION {Counted(o) : o \in Obj}

\* The sum of the coefficients, counted unit by unit.
Total(o, S) == Cardinality(UNION {{l} \X (1 .. Weight[o][l]) : l \in S \cap Counted(o)})

\* yPoint: the values of the objectives that count the literals in S.
Eval(S, x) == [o \in Obj |-> Total(o, {l \in S : Holds(l, x)})]

\* What the variables of the complete encoding see.
Full == [x \in Assignment |-> Eval(Literal, x)]

ASSUME ValuesAreBounded == Full \in [Assignment -> YPoint]

\* The largest key that is at most v, -1 if there is none.
AtMost(o, v) == LET below == {s \in slicedRoots[o] : s <= v} IN Max(below \cup {-1})

\* Mutant: off by one.
BoundBelow(p) == [o \in Obj |-> AtMost(o, p[o] - 2)]

\* blockingClause: the values that some objective must not exceed.
Bound(p) == [o \in Obj |-> AtMost(o, p[o] - 1)]

Blocks(b, x) == \A o \in Obj : Full[x][o] > b[o]

\* assumeDominatingRegion: an objective without a key is not bounded.
Beyond(o, q, x) == AtMost(o, q[o]) # -1 /\ Full[x][o] > AtMost(o, q[o])

\* What an optimizing thread can find, its fence apart.
Open(w) ==
    {x \in Assignment :
        /\ \A c \in clauses : \E l \in c : Holds(l, x)
        /\ \A l \in frozen : ~ Holds(l, x)
        /\ \A b \in permanent \cup guards[w] : ~ Blocks(b, x)}

Point(x) == Eval(slice, x)

-----------------------------------------------------------------------------
Zero == [o \in Obj |-> 0]

\* UnsatSatIncHSMO::build: every literal that is counted, unless its negation is, too.
Init ==
    /\ formula \in Formulas
    /\ \E mode \in Modes : sequential = mode[1] /\ budget = mode[2]
    /\ phase = "first"
    /\ front = {}
    /\ answerType = "unknown"
    /\ frozen = {l \in AllCounted : Not(l) \notin AllCounted}
    /\ slice = {} /\ slicedRoots = [o \in Obj |-> {}]
    /\ clauses = {} /\ permanent = {} /\ lowerBound = {}
    /\ soft_blocks = {} /\ solution = {} /\ activeBlocks = {}
    /\ pending = {} /\ seen = {} /\ active = 0
    /\ pc = [w \in Optimizer |-> "idle"]
    /\ fence = [w \in Optimizer |-> Zero]
    /\ guards = [w \in Optimizer |-> {}]
    /\ untested = {} /\ tested = {} /\ marked_sols = {} /\ diagnoses = {}
    /\ rejected = [w \in Worker |-> {}]

Goto(w, label) == pc' = [pc EXCEPT ![w] = label]

\* syncSolutions without a pull.
Archive(p) ==
    front' = IF Covers(front, p) THEN front ELSE {q \in front : ~ dominates(p, q)} \cup {p}

\* The threads of the optimizer.
Crew == IF sequential THEN {CHOOSE w \in Optimizer : TRUE} ELSE Optimizer

\* pareto::dominator.
Dominator(S) == [o \in Obj |-> Min({p[o] : p \in S})]

\* searchAgain: the search starts below all the candidates that have failed.
SearchAgain(failed) ==
    /\ phase' = "search"
    /\ LET ul == IF failed = {} THEN Zero ELSE Dominator(failed)
       IN pending' = {ul} /\ seen' = {ul}
    /\ activeBlocks' = {}
    /\ pc' = [w \in Optimizer |-> IF w \in Crew THEN "pop" ELSE "idle"]

\* search_MO: the first solution, then the first round; or none.
FirstSolution ==
    /\ phase = "first"
    /\ \E x \in formula : Archive(Full[x])
    /\ SearchAgain({})
    /\ UNCHANGED <<problem, answerType, relaxation, soft_blocks, solution, active,
                   fence, guards, testing>>

Unsatisfiable ==
    /\ phase = "first"
    /\ formula = {}
    /\ phase' = "done"
    /\ answerType' = "unsatisfiable"
    /\ UNCHANGED <<problem, front, relaxation, search, testing>>

-----------------------------------------------------------------------------
Pop(w) ==
    /\ pc[w] = "pop"
    /\ \E q \in pending :
          /\ pending' = pending \ {q}
          /\ fence' = [fence EXCEPT ![w] = q]
    /\ active' = active + 1
    /\ Goto(w, "sync")
    /\ UNCHANGED <<problem, phase, front, answerType, relaxation, soft_blocks,
                   solution, activeBlocks, seen, guards, testing>>

Finish(w) ==
    /\ pc[w] = "pop"
    /\ pending = {}
    /\ active = 0
    /\ Goto(w, "idle")
    /\ UNCHANGED <<problem, phase, front, answerType, relaxation, soft_blocks,
                   solution, activeBlocks, pending, seen, active, fence, guards, testing>>

\* synchronize: a snapshot of the blocking clauses, taken under stateMutex.
Synchronize(w) ==
    /\ pc[w] = "sync"
    /\ guards' = [guards EXCEPT ![w] = activeBlocks]
    /\ Goto(w, "solve")
    /\ UNCHANGED <<problem, phase, front, answerType, relaxation, soft_blocks,
                   solution, activeBlocks, pending, seen, active, fence, testing>>

\* blockStep: the clause that is remembered for the point, or a new one.
BlockOf(p) ==
    IF \E s \in soft_blocks : s.point = p
    THEN CHOOSE s \in soft_blocks : s.point = p
    ELSE [point |-> p, bound |-> Bound(p)]

\* Mutant: candidates that the new one beats are kept.
SolveSatKeepsBeaten(w) ==
    /\ pc[w] = "solve"
    /\ \E x \in Open(w) :
          /\ \A o \in Obj : ~ Beyond(o, fence[w], x)
          /\ LET p == Point(x)
                 kept == solution
             IN IF \E c \in solution : dominates(c.point, p)
                THEN solution' = kept /\ UNCHANGED <<soft_blocks, activeBlocks>>
                ELSE /\ solution' = kept \cup {[model |-> x, point |-> p,
                                                bound |-> BlockOf(p).bound]}
                     /\ soft_blocks' = soft_blocks \cup {BlockOf(p)}
                     /\ activeBlocks' = activeBlocks \cup {BlockOf(p).bound}
    /\ Goto(w, "sync")
    /\ UNCHANGED <<problem, phase, front, answerType, relaxation, pending, seen,
                   active, fence, guards, testing>>

\* solve is SAT in the box of the fence: publishModel, under stateMutex.
SolveSat(w) ==
    /\ pc[w] = "solve"
    /\ \E x \in Open(w) :
          /\ \A o \in Obj : ~ Beyond(o, fence[w], x)
          /\ LET p == Point(x)
                 kept == {c \in solution : c.point = p \/ ~ dominates(p, c.point)}
             IN IF \E c \in solution : dominates(c.point, p)
                THEN solution' = kept /\ UNCHANGED <<soft_blocks, activeBlocks>>
                ELSE /\ solution' = kept \cup {[model |-> x, point |-> p,
                                                bound |-> BlockOf(p).bound]}
                     /\ soft_blocks' = soft_blocks \cup {BlockOf(p)}
                     /\ activeBlocks' = activeBlocks \cup {BlockOf(p).bound}
    /\ Goto(w, "sync")
    /\ UNCHANGED <<problem, phase, front, answerType, relaxation, pending, seen,
                   active, fence, guards, testing>>

\* The objectives of a core: their bounds alone leave the solver nothing.
IsCore(w, C) == \A x \in Open(w) : \E o \in C : Beyond(o, fence[w], x)

\* The next key above q[o], and the last one.
Larger(o, q) == {s \in slicedRoots[o] : s > q[o]}

\* expansionPoints: along an objective, to the next key or, with a stride, further.
Expanded(q, o) ==
    [q EXCEPT ![o] = Min({Max({Min(Larger(o, q)), @ * Stride}), Max(slicedRoots[o])})]

\* insertAndPrune, for each of the expansions in some order: the largest fences stay.
Insert(points) ==
    LET new == points \ seen
        all == pending \cup new
    IN /\ seen' = seen \cup points
       /\ pending' = {q \in all : \A r \in all : dominates(q, r) => r = q}

\* solve is UNSAT; all the expansions enter the list in one critical section.
SolveUnsat(w) ==
    /\ pc[w] = "solve"
    /\ ~ sequential
    /\ \E C \in SUBSET Obj :
          /\ IsCore(w, C)
          /\ Insert({Expanded(fence[w], o) : o \in {c \in C : Larger(c, fence[w]) # {}}})
    /\ Goto(w, "leave")
    /\ UNCHANGED <<problem, phase, front, answerType, relaxation, soft_blocks,
                   solution, activeBlocks, active, fence, guards, testing>>

\* extendUL: one fence, moved to the next keys of all the objectives of the core;
\* the new harvest assumes the guards of the candidates that are left.
ExtendUL(w) ==
    /\ pc[w] = "solve"
    /\ sequential
    /\ \E C \in SUBSET Obj :
          /\ IsCore(w, C)
          /\ LET extended == {o \in C : Larger(o, fence[w]) # {}}
             IN IF extended = {}
                THEN Goto(w, "leave") /\ UNCHANGED <<fence, activeBlocks>>
                ELSE /\ fence' = [fence EXCEPT ![w] =
                           [o \in Obj |-> IF o \in extended THEN Min(Larger(o, fence[w]))
                                                            ELSE fence[w][o]]]
                     /\ activeBlocks' = {c.bound : c \in solution}
                     /\ Goto(w, "sync")
    /\ UNCHANGED <<problem, phase, front, answerType, relaxation, soft_blocks,
                   solution, pending, seen, active, guards, testing>>

\* The conflict budget runs out: synchronize and try again.
SolveUndef(w) ==
    /\ pc[w] = "solve"
    /\ budget
    /\ Goto(w, "sync")
    /\ UNCHANGED <<problem, phase, front, answerType, relaxation, soft_blocks,
                   solution, activeBlocks, pending, seen, active, fence, guards, testing>>

\* Mutant: the counter is not decremented.
LeaveBusy(w) ==
    /\ pc[w] = "leave"
    /\ fence' = [fence EXCEPT ![w] = Zero]
    /\ Goto(w, "pop")
    /\ UNCHANGED <<problem, phase, front, answerType, relaxation, soft_blocks,
                   solution, activeBlocks, pending, seen, active, guards, testing>>

Leave(w) ==
    /\ pc[w] = "leave"
    /\ active' = active - 1
    /\ fence' = [fence EXCEPT ![w] = Zero]
    /\ Goto(w, "pop")
    /\ UNCHANGED <<problem, phase, front, answerType, relaxation, soft_blocks,
                   solution, activeBlocks, pending, seen, guards, testing>>

-----------------------------------------------------------------------------
\* recycleLowerBoundSet, once the optimizer has joined its threads and their locals are gone.
StartTesting ==
    /\ phase = "search"
    /\ \A w \in Optimizer : pc[w] = "idle"
    /\ phase' = "test"
    /\ untested' = solution
    /\ tested' = {}
    /\ seen' = {}
    /\ fence' = [w \in Optimizer |-> Zero]
    /\ guards' = [w \in Optimizer |-> {}]
    /\ UNCHANGED <<problem, front, answerType, relaxation, soft_blocks, solution,
                   activeBlocks, pending, active, pc, rejected, marked_sols, diagnoses>>

\* The complete formula has a solution that agrees with the candidate: absorb.
TestSat(w) ==
    /\ phase = "test"
    /\ w \notin tested
    /\ \E c \in untested :
          /\ c.model \in formula
          /\ Archive(Full[c.model])
          /\ untested' = untested \ {c}
    /\ UNCHANGED <<problem, phase, answerType, relaxation, search, rejected, tested,
                   marked_sols, diagnoses>>

\* Clauses of negated assumptions: what a solver can return as its conflict.
Conflicts(x) ==
    {c \in SUBSET {[var |-> v, sign |-> ~ x[v]] : v \in Var} :
        \A y \in formula : \E l \in c : Holds(l, y)}

TestUnsat(w) ==
    /\ phase = "test"
    /\ w \notin tested
    /\ \E c \in untested : \E conflict \in Conflicts(c.model) :
          /\ rejected' = [rejected EXCEPT ![w] = @ \cup {[of |-> c, core |-> conflict]}]
          /\ untested' = untested \ {c}
    /\ UNCHANGED <<problem, phase, front, answerType, relaxation, search, tested,
                   marked_sols, diagnoses>>

\* The worker's share of the candidates is done (omp for nowait); the others' may not be.
Report(w) ==
    /\ phase = "test"
    /\ w \notin tested
    /\ untested = {} \/ Worker \ tested # {w}
    /\ tested' = tested \cup {w}
    /\ marked_sols' = marked_sols \cup {r.of : r \in rejected[w]}
    /\ diagnoses' = diagnoses \cup {r.core : r \in rejected[w]}
    /\ rejected' = [rejected EXCEPT ![w] = {}]
    /\ UNCHANGED <<problem, phase, front, answerType, relaxation, search, untested>>

-----------------------------------------------------------------------------
\* allSums: a key for every combination of the literals of an objective in the slice.
AllSums(S) == [o \in Obj |-> {Total(o, T) : T \in SUBSET (S \cap Counted(o))}]

\* Mutant: a literal that was frozen is not counted.
ThawUncounted(S) ==
    /\ frozen' = frozen \ S
    /\ slice' = slice \cup UNION {{l, Not(l)} : l \in S \ frozen}
    /\ slicedRoots' = AllSums(slice')

\* thaw: a literal that is not frozen may be counted with the other sign.
Thaw(S) ==
    /\ frozen' = frozen \ S
    /\ slice' = slice \cup S \cup {Not(l) : l \in S \ frozen}
    /\ slicedRoots' = AllSums(slice')

\* Mutant: the marks are ignored.
CheckNothing ==
    /\ lowerBound' = {}
    /\ permanent' = permanent \cup {c.bound : c \in solution}
    /\ soft_blocks' = {s \in soft_blocks : s.point \notin {c.point : c \in solution}}
    /\ solution' = {}

\* checkSols: what failed bounds the next search, the rest is blocked for good.
CheckSols ==
    LET optimal == solution \ marked_sols
    IN /\ lowerBound' = {c.point : c \in solution \cap marked_sols}
       /\ permanent' = permanent \cup {c.bound : c \in optimal}
       /\ soft_blocks' = {s \in soft_blocks : s.point \notin {c.point : c \in optimal}}
       /\ solution' = {}

\* setup_approx: the next round, if a candidate has failed.
SetupApprox ==
    /\ phase = "test"
    /\ tested = Worker
    /\ diagnoses # {}
    /\ clauses' = clauses \cup diagnoses
    /\ Thaw(UNION diagnoses)
    /\ CheckSols
    /\ SearchAgain(lowerBound')
    /\ marked_sols' = {}
    /\ diagnoses' = {}
    /\ UNCHANGED <<problem, front, answerType, active, fence, guards, untested,
                   rejected, tested>>

Answer ==
    /\ phase = "test"
    /\ tested = Worker
    /\ diagnoses = {}
    /\ phase' = "done"
    /\ answerType' = IF front = {} THEN "unsatisfiable" ELSE "optimum"
    /\ UNCHANGED <<problem, front, relaxation, search, testing>>

Optimize(w) ==
    \/ Pop(w) \/ Finish(w) \/ Synchronize(w) \/ Leave(w)
    \/ SolveSat(w) \/ SolveUnsat(w) \/ ExtendUL(w) \/ SolveUndef(w)

Test(w) == TestSat(w) \/ TestUnsat(w) \/ Report(w)

Main ==
    FirstSolution \/ Unsatisfiable \/ StartTesting \/ SetupApprox \/ Answer

Next == Main \/ (\E w \in Optimizer : Optimize(w)) \/ (\E w \in Worker : Test(w))

Spec == Init /\ [][Next]_vars

\* Some thread runs: without a budget nothing is retried, and no step can be undone.
FairSpec == Spec /\ WF_vars(Next)

-----------------------------------------------------------------------------
Guard == [Obj -> -1 .. MaxValue]

Fence == [Obj -> Nat]

Candidate == [model : Assignment, point : YPoint, bound : Guard]

TypeOK ==
    /\ formula \in Formulas /\ sequential \in BOOLEAN /\ budget \in BOOLEAN
    /\ phase \in {"first", "search", "test", "done"}
    /\ answerType \in {"unknown", "unsatisfiable", "optimum"}
    /\ front \subseteq YPoint /\ lowerBound \subseteq YPoint
    /\ frozen \subseteq Literal /\ slice \subseteq Literal
    /\ slicedRoots \in [Obj -> SUBSET Nat]
    /\ clauses \cup diagnoses \subseteq SUBSET Literal
    /\ permanent \cup activeBlocks \subseteq Guard
    /\ soft_blocks \subseteq [point : YPoint, bound : Guard]
    /\ solution \cup untested \cup marked_sols \subseteq Candidate
    /\ pending \cup seen \subseteq Fence
    /\ pc \in [Optimizer -> {"idle", "pop", "sync", "solve", "leave"}]
    /\ fence \in [Optimizer -> Fence]
    /\ guards \in [Optimizer -> SUBSET Guard]
    /\ rejected \in [Worker -> SUBSET [of : Candidate, core : SUBSET Literal]]
    /\ tested \subseteq Worker

Feasible == {Full[x] : x \in formula}

(***************************************************************************)
(* OPTIMUM is answered only with the whole Pareto front in the archive,    *)
(* UNSATISFIABLE only if there is no solution (README.md, Output format).  *)
(***************************************************************************)
AnswerIsCorrect ==
    /\ answerType = "optimum" => formula # {} /\ front = NonDominated(Feasible)
    /\ answerType = "unsatisfiable" => formula = {}

(***************************************************************************)
(* When the optimizer returns, its candidates and the archive are a lower  *)
(* bound set: no solution of the complete formula is below all of them,    *)
(* whatever the optimizer knows of the formula and of the objectives.      *)
(***************************************************************************)
LowerBoundSet ==
    phase = "test" =>
        \A p \in Feasible : Covers(front \cup {c.point : c \in solution}, p)

(***************************************************************************)
(* The optimizer counts in full what it can find: a literal that it does   *)
(* not count is false in every model of the relaxation, although literals  *)
(* are thawed one diagnosis at a time (UnsatSatIncHSMO::thaw).             *)
(***************************************************************************)
CountsAreExact ==
    \A w \in Optimizer : \A x \in Open(w) : \A l \in AllCounted : Holds(l, x) => l \in slice

(***************************************************************************)
(* What is blocked for good needs no further search, in the larger         *)
(* relaxations to come and in the complete formula: it is dominated by an  *)
(* archived solution (checkSols: "solution is sat in larger formula, and   *)
(* therefore it is optimal").                                              *)
(***************************************************************************)
PermanentIsJustified ==
    \A b \in permanent : \A x \in formula : Blocks(b, x) => Covers(front, Full[x])

(***************************************************************************)
(* A candidate that passes its test is Pareto optimal, although only some  *)
(* diagnoses are known: absorb prints it as a new optimal solution, and    *)
(* what a worker archives is never taken out again.                        *)
(***************************************************************************)
AbsorbedIsOptimal ==
    [][phase = "test" => front' \ front \subseteq NonDominated(Feasible)]_vars

\* The assignments that the optimizer's diagnoses allow.
Relaxed == {x \in Assignment : \A c \in clauses : \E l \in c : Holds(l, x)}

(***************************************************************************)
(* Every round but the last one takes an assignment from the relaxation    *)
(* and none that is a solution, so that the rounds are fewer than the      *)
(* assignments: incrementFormula adds at least one clause that a candidate *)
(* violates.                                                               *)
(***************************************************************************)
RoundsShrinkRelaxation ==
    [][phase = "test" /\ phase' = "search" =>
          /\ formula \subseteq Relaxed' /\ Relaxed' \subseteq Relaxed
          /\ Relaxed' # Relaxed]_vars

(***************************************************************************)
(* A thread that has synchronised finds only what no candidate dominates,  *)
(* and what the candidates of a round dominate only grows, also when a     *)
(* better one replaces some: no thread finds a model twice in a round.     *)
(***************************************************************************)
FindsAreNew ==
    [][/\ \A w \in Optimizer : pc[w] = "sync" /\ pc'[w] = "solve" =>
             \A x \in Open(w)' : ~ Covers({c.point : c \in solution'}, Full[x])
       /\ phase = "search" /\ phase' = "search" =>
             \A x \in Assignment : Covers({c.point : c \in solution}, Full[x])
                                => Covers({c.point : c \in solution'}, Full[x])]_vars

(***************************************************************************)
(* Candidates that fail are never found again: every round adds a          *)
(* diagnosis, and the rounds end (without a conflict budget).              *)
(***************************************************************************)
Terminates == ~ budget => <>(answerType # "unknown")

-----------------------------------------------------------------------------
(***************************************************************************)
(* The parts of the inductive invariant.  What it says of counts and       *)
(* bounds is true only of objectives that are simple: no literal is        *)
(* counted in both polarities, and the literals of an objective have the   *)
(* same weight.                                                            *)
(***************************************************************************)
OneSign == \A l \in AllCounted : Not(l) \notin AllCounted

EqualWeights == \A o \in Obj : \A l, m \in Counted(o) : Weight[o][l] = Weight[o][m]

Simple == OneSign /\ EqualWeights

Exploring == {w \in Optimizer : pc[w] \in {"sync", "solve"}}

Busy == {w \in Optimizer : pc[w] \in {"sync", "solve", "leave"}}

\* A thread leaves the search for good only when there is nothing left to pop.
ThreadsInv ==
    /\ active = Cardinality(Busy)
    /\ IsFiniteSet(pending)
    /\ \A w \in Optimizer \ Crew : pc[w] = "idle"
    /\ phase # "search" => \A w \in Optimizer : pc[w] = "idle" /\ guards[w] = {}
    /\ phase = "search" =>
          /\ seen # {} /\ pending \subseteq seen
          /\ (\E w \in Crew : pc[w] = "idle") => pending = {} /\ Busy = {}

\* No candidate of the round is lost between the workers.
TestsInv ==
    /\ untested \cup marked_sols \subseteq solution
    /\ \A w \in Worker : {r.of : r \in rejected[w]} \subseteq solution
    /\ phase # "test" => untested \cup marked_sols \cup diagnoses = {}
    /\ \A w \in Worker : phase # "test" \/ w \in tested => rejected[w] = {}
    /\ phase = "test" =>
          /\ tested = Worker => untested = {}
          /\ diagnoses = {} => marked_sols = {}
          /\ \A c \in solution :
                \/ c \in untested \cup marked_sols
                \/ \E w \in Worker : \E r \in rejected[w] : r.of = c
                \/ Covers(front, Full[c.model])

\* The keys: none at first, then the values that the counts can have.
KeysInv ==
    /\ slice \subseteq Literal
    /\ \/ slicedRoots = AllSums(slice)
       \/ slice = {} /\ slicedRoots = [o \in Obj |-> {}]

\* The archive holds solutions, and what the optimizer knows follows from the formula.
KnownInv ==
    /\ front \subseteq Feasible /\ IsAntichain(front)
    /\ phase \in {"search", "test"} => formula # {}
    /\ phase # "done" => answerType = "unknown"
    /\ \A c \in clauses \cup diagnoses : \A y \in formula : \E l \in c : Holds(l, y)
    /\ \A w \in Worker : \A r \in rejected[w] : \A y \in formula : \E l \in r.core : Holds(l, y)

\* Candidates are models of the relaxation, each is blocked with all that it dominates
\* until the round ends, and the core of one that fails excludes it.
CandidatesInv ==
    /\ phase = "first" => solution = {}
    /\ \A c \in solution : \A d \in clauses : \E l \in d : Holds(l, c.model)
    /\ \A s \in soft_blocks \cup solution : \A o \in Obj : s.bound[o] < s.point[o]
    /\ phase = "search" => {c.bound : c \in solution} \subseteq activeBlocks
    /\ \A w \in Worker : \A r \in rejected[w] : \A l \in r.core : ~ Holds(l, r.of.model)
    /\ \A d \in diagnoses : \E c \in solution : \A l \in d : ~ Holds(l, c.model)

\* What is not frozen is counted, and the candidates have the values that they seem to have.
SliceInv ==
    /\ frozen \subseteq AllCounted
    /\ AllCounted \subseteq frozen \cup slice
    /\ \A c \in clauses : c \cap frozen = {}
    /\ \A c \in solution : c.point = Full[c.model]

\* A blocking clause excludes nothing but what its point, or a better one, dominates.
BlocksInv ==
    /\ \A s \in soft_blocks \cup solution : \A y \in Assignment :
          Blocks(s.bound, y) => dominates(s.point, Full[y])
    /\ \A b \in activeBlocks \cup UNION {guards[w] : w \in Optimizer} : \A y \in Assignment :
          Blocks(b, y) => Covers({c.point : c \in solution}, Full[y])
    /\ \A b \in permanent : \A y \in Assignment : Blocks(b, y) => Covers(front, Full[y])
    /\ \A c, d \in solution : dominates(c.point, d.point) => c.point = d.point

\* The models of the relaxation that no candidate dominates.
Missing ==
    {y \in Assignment :
        /\ \A c \in clauses : \E l \in c : Holds(l, y)
        /\ \A l \in frozen : ~ Holds(l, y)
        /\ \A b \in permanent : ~ Blocks(b, y)
        /\ ~ Covers({c.point : c \in solution}, Full[y])}

\* As long as something is missing, no fence of the round is lost.
FencesInv ==
    /\ phase = "search" /\ Missing # {} =>
          \A q \in seen : \E r \in pending \cup {fence[w] : w \in Exploring} : dominates(q, r)
    /\ phase = "test" => Missing = {}

(***************************************************************************)
(* The inductive invariant of the rounds of the hitting sets.              *)
(***************************************************************************)
IInv ==
    /\ TypeOK /\ KeysInv /\ ThreadsInv /\ TestsInv /\ KnownInv /\ CandidatesInv
    /\ OneSign => SliceInv
    /\ Simple => BlocksInv /\ FencesInv
=============================================================================
