------------------------------ MODULE ParPMinimal ------------------------------
(***************************************************************************)
(* ParPMinimalMO: model-improving search by parallel solvers.  Every       *)
(* worker but the main one looks for a first solution at random: it asks   *)
(* for one without the objective literals of a sample from a shared pool,  *)
(* and takes the literals of a failed sample's core out of the pool.  From *)
(* a solution on, a worker descends to solutions that dominate its best    *)
(* one; when there are none, it starts again from anywhere.                *)
(*                                                                         *)
(* What the solvers exclude and share with each other is in ParallelMO.    *)
(***************************************************************************)
EXTENDS ParallelMO

CONSTANTS
    Main,            \* thread 0, which does not sample
    ObjectiveLit     \* the literals of the objective functions

ASSUME PMinimalAssumption == Main \in Worker

VARIABLES
    pc,              \* [Worker -> what the thread does next]
    best,            \* [Worker -> the set with its last solution's point (ul)]
    sample,          \* [Worker -> the literals that its assumptions negate]
    core,            \* [Worker -> the core of its last sample, to take out]
    pool             \* the literals that can be sampled

vars == <<mode, feasible, excluded, exported, solutions, front, unread, pc, best, sample,
          core, pool, answerType>>

start == <<sample, core, pool>>

\* The first solution, the descent from a solution, and the search outside of
\* all that is blocked.
Starting == {"clausesStart", "shrink", "sample", "solveStart"}
Found == {"clausesModel", "solutionsModel"}
Descending == {"clausesRegion", "solutionsRegion", "solveRegion"}
Leaving == {"clausesOutside", "solutionsOutside", "solveOutside"}

TypeOK ==
    /\ SharedTypeOK
    /\ pc \in [Worker -> {"encode", "done"} \cup Starting \cup Found \cup Descending \cup Leaving]
    /\ best \in [Worker -> SUBSET YPoint]
    /\ sample \in [Worker -> SUBSET ObjectiveLit]
    /\ core \in [Worker -> SUBSET ObjectiveLit]
    /\ pool \in SUBSET ObjectiveLit

Init ==
    /\ mode \in Modes
    /\ feasible \in Problem
    /\ excluded = [w \in Worker |-> {}]
    /\ exported = {}
    /\ solutions = [w \in Worker |-> {}]
    /\ Archive!Init
    /\ pc = [w \in Worker |-> "encode"]
    /\ best = [w \in Worker |-> {}]
    /\ sample = [w \in Worker |-> {}]
    /\ core = [w \in Worker |-> {}]
    /\ pool = ObjectiveLit
    /\ answerType = "unknown"

-----------------------------------------------------------------------------
Goto(w, label) == pc' = [pc EXCEPT ![w] = label]

\* updateMOFormulationIfSAT in a parallel region of its own: the solution that
\* it finds is neither shared nor blocked.
Encode ==
    /\ \A w \in Worker : pc[w] = "encode"
    /\ pc' = [w \in Worker |-> IF feasible = {} THEN "done" ELSE "clausesStart"]
    /\ UNCHANGED <<mode, feasible, excluded, exported, solutions, front, unread, best, start,
                   answerType>>

\* shareClauses and shareSolutions are called one after the other.
AfterClauses(w) == CASE pc[w] = "clausesStart"   -> IF w = Main THEN "solveStart" ELSE "shrink"
                     [] pc[w] = "clausesModel"   -> "solutionsModel"
                     [] pc[w] = "clausesRegion"  -> "solutionsRegion"
                     [] pc[w] = "clausesOutside" -> "solutionsOutside"

Clauses(w) ==
    /\ pc[w] \in {"clausesStart", "clausesModel", "clausesRegion", "clausesOutside"}
    /\ ShareClauses(w)
    /\ Goto(w, AfterClauses(w))
    /\ UNCHANGED <<mode, feasible, solutions, front, unread, best, start, answerType>>

-----------------------------------------------------------------------------
\* Mutant: the core stays in the pool.
ShrinkNothing(w) ==
    /\ pc[w] = "shrink"
    /\ Goto(w, "sample")
    /\ UNCHANGED <<mode, feasible, excluded, exported, solutions, front, unread, best, start,
                   answerType>>

\* The critical section that takes the last core's literals out of the pool; that
\* the core is added to the solver's clauses excludes nothing new.
Shrink(w) ==
    /\ pc[w] = "shrink"
    /\ pool' = pool \ core[w]
    /\ core' = [core EXCEPT ![w] = {}]
    /\ Goto(w, "sample")
    /\ UNCHANGED <<mode, feasible, excluded, exported, solutions, front, unread, best, sample,
                   answerType>>

\* sampleObjectiveLits: ceil of a fraction, so some literal as long as there is one.
Sample(w) ==
    /\ pc[w] = "sample"
    /\ \E S \in SUBSET pool :
          /\ pool # {} => S # {}
          /\ sample' = [sample EXCEPT ![w] = S]
    /\ Goto(w, "solveStart")
    /\ UNCHANGED <<mode, feasible, excluded, exported, solutions, front, unread, best, core,
                   pool, answerType>>

\* Mutant: a failed sample is the end of the search.
StartUnsatIsFinal(w) ==
    /\ pc[w] = "solveStart"
    /\ sample[w] # {}
    /\ Goto(w, "done")
    /\ UNCHANGED <<mode, feasible, excluded, exported, solutions, front, unread, best, start,
                   answerType>>

\* solve is UNSAT because of the sample.  Which solutions avoid a literal is not
\* modelled: this may happen whatever is left to find.
StartUnsat(w) ==
    /\ pc[w] = "solveStart"
    /\ \E C \in SUBSET sample[w] \ {{}} : core' = [core EXCEPT ![w] = C]
    /\ Goto(w, "clausesStart")
    /\ UNCHANGED <<mode, feasible, excluded, exported, solutions, front, unread, best, sample,
                   pool, answerType>>

-----------------------------------------------------------------------------
\* Where solve looks for a solution: in the descent, in the region that dominates
\* the best one.
InRegion(w, p) == pc[w] = "solveRegion" => \A q \in best[w] : dominates(p, q)

\* solve is SAT: the model is the worker's only solution to share.
SolveSat(w) ==
    /\ pc[w] \in {"solveStart", "solveRegion", "solveOutside"}
    /\ \E p \in Open(w) :
          /\ InRegion(w, p)
          /\ best' = [best EXCEPT ![w] = {p}]
          /\ solutions' = [solutions EXCEPT ![w] = {p}]
    /\ Goto(w, "clausesModel")
    /\ UNCHANGED <<mode, feasible, excluded, exported, front, unread, start, answerType>>

\* Mutant: the end of a descent is the end of the search.
DescentEndsSearch(w) ==
    /\ pc[w] \in {"solveRegion", "solveOutside"}
    /\ \A p \in Open(w) : ~ InRegion(w, p)
    /\ Goto(w, "done")
    /\ UNCHANGED <<mode, feasible, excluded, exported, solutions, front, unread, best, start,
                   answerType>>

\* solve is UNSAT in the region: blockDominatedRegion once more, and outside.
RegionUnsat(w) ==
    /\ pc[w] = "solveRegion"
    /\ \A p \in Open(w) : ~ InRegion(w, p)
    /\ excluded' = [excluded EXCEPT ![w] = @ \cup DominatedBy(best[w])]
    /\ Goto(w, "clausesOutside")
    /\ UNCHANGED <<mode, feasible, exported, solutions, front, unread, best, start,
                   answerType>>

\* solve is UNSAT for no other reason than the clauses: the worker is done.
SolveUnsat(w) ==
    /\ pc[w] \in {"solveStart", "solveOutside"}
    /\ Open(w) = {}
    /\ Goto(w, "done")
    /\ UNCHANGED <<mode, feasible, excluded, exported, solutions, front, unread, best, start,
                   answerType>>

\* solve runs out of conflicts, which the first solution's calls never do.
SolveUndef(w) ==
    /\ pc[w] \in {"solveRegion", "solveOutside"}
    /\ mode.budget
    /\ Goto(w, IF pc[w] = "solveRegion" THEN "clausesRegion" ELSE "clausesOutside")
    /\ UNCHANGED <<mode, feasible, excluded, exported, solutions, front, unread, best, start,
                   answerType>>

-----------------------------------------------------------------------------
\* Mutants: the model is not blocked; what is pulled is not blocked.
SolutionsModelUnblocked(w) ==
    /\ pc[w] = "solutionsModel"
    /\ ShareSolutions(w)
    /\ Goto(w, "clausesRegion")
    /\ UNCHANGED <<mode, feasible, exported, best, start, answerType>>

PullUnblocked(w) ==
    /\ pc[w] \in {"solutionsRegion", "solutionsOutside"}
    /\ Archive!Sync(w, {})
    /\ Goto(w, IF pc[w] = "solutionsRegion" THEN "solveRegion" ELSE "solveOutside")
    /\ UNCHANGED <<mode, feasible, excluded, exported, solutions, best, start, answerType>>

\* shareSolutions with a model to push, then blockDominatedRegion.
SolutionsModel(w) ==
    /\ pc[w] = "solutionsModel"
    /\ Archive!Sync(w, solutions[w])
    /\ solutions' = [solutions EXCEPT ![w] = {}]
    /\ excluded' = [excluded EXCEPT ![w] = @ \cup DominatedBy(unread[w] \cup best[w])]
    /\ Goto(w, "clausesRegion")
    /\ UNCHANGED <<mode, feasible, exported, best, start, answerType>>

\* shareSolutions before a call of the solver.
Solutions(w) ==
    /\ pc[w] \in {"solutionsRegion", "solutionsOutside"}
    /\ ShareSolutions(w)
    /\ Goto(w, IF pc[w] = "solutionsRegion" THEN "solveRegion" ELSE "solveOutside")
    /\ UNCHANGED <<mode, feasible, exported, best, start, answerType>>

-----------------------------------------------------------------------------
\* The main thread, when the parallel region is over.
Answer ==
    /\ \A w \in Worker : pc[w] = "done"
    /\ answerType = "unknown"
    /\ answerType' = IF front = {} THEN "unsatisfiable" ELSE "optimum"
    /\ UNCHANGED <<mode, feasible, excluded, exported, solutions, front, unread, pc, best,
                   start>>

Step(w) ==
    \/ Clauses(w) \/ Shrink(w) \/ Sample(w) \/ StartUnsat(w)
    \/ SolveSat(w) \/ RegionUnsat(w) \/ SolveUnsat(w) \/ SolveUndef(w)
    \/ SolutionsModel(w) \/ Solutions(w)

Next == Encode \/ Answer \/ \E w \in Worker : Step(w)

Spec == Init /\ [][Next]_vars

\* Every thread is scheduled, and every call of a SAT solver returns.
Fairness == WF_vars(Encode) /\ WF_vars(Answer) /\ \A w \in Worker : WF_vars(Step(w))

FairSpec == Spec /\ Fairness

-----------------------------------------------------------------------------
(***************************************************************************)
(* A worker that finds nothing more has shown that nothing is left: what   *)
(* is archived or about to be covers every solution, also if the clauses   *)
(* that left it nothing were learnt by others from solutions that it has   *)
(* not pulled (shareClauses in searchFromRandomizedInitialSolutions).      *)
(***************************************************************************)
DoneIsComplete ==
    (\E w \in Worker : pc[w] = "done") => \A p \in feasible : Covers(Stored, p)

(***************************************************************************)
(* What an archived solution dominates is blocked in every solver that has *)
(* pushed or pulled it, whoever replaced what in the archive meanwhile:    *)
(* no worker finds again what it has been given (shareSolutions).          *)
(***************************************************************************)
SeenIsBlocked == \A w \in Worker : DominatedBy(front \ unread[w]) \subseteq excluded[w]

(***************************************************************************)
(* Every model of a descent is strictly better than the one before it, and *)
(* no model is one that the archive, as the worker last saw it, covers.    *)
(***************************************************************************)
ModelsImprove ==
    [][\A w \in Worker : \A p \in best'[w] :
          SolveSat(w) => /\ pc[w] = "solveRegion" => p \notin best[w]
                         /\ ~ Covers(front \ unread[w], p)]_vars

-----------------------------------------------------------------------------
\* Only between a model and shareSolutions a worker has something to share: its
\* best solution, which is blocked from then on.
LocalInv ==
    \A w \in Worker :
        /\ solutions[w] = IF pc[w] \in Found THEN best[w] ELSE {}
        /\ pc[w] \in Found \cup Descending \cup Leaving =>
              \E p \in feasible : best[w] = {p}
        /\ pc[w] \in Descending \cup Leaving => DominatedBy(best[w]) \subseteq excluded[w]

\* A worker stops when its solver excludes everything.
DoneInv == \A w \in Worker : pc[w] = "done" => Open(w) = {}

AnsweredInv == answerType # "unknown" => \A w \in Worker : pc[w] = "done"

\* The inductive invariant.
IInv ==
    /\ TypeOK
    /\ StoredInv
    /\ ExclusionIsJustified
    /\ LocalInv
    /\ DoneInv
    /\ SeenIsBlocked
    /\ AnsweredInv
    /\ AnswerIsCorrect

\* The search ends (without a conflict budget).
Terminates == ~ mode.budget => <>(answerType # "unknown")
=============================================================================
