------------------------------ MODULE ParallelMO ------------------------------
(***************************************************************************)
(* ParallelMO: what the parallel searches have in common.  Every worker    *)
(* has a SAT solver of its own, shares what it learns and what it finds    *)
(* with the others, and keeps a local front in between.                    *)
(*                                                                         *)
(* A solver is what it can answer: the points its clauses exclude.  The    *)
(* archive of solutions is SharedFront, which SolutionsArchive implements. *)
(***************************************************************************)
EXTENDS Pareto, FiniteSets

CONSTANTS
    Worker,          \* the solvers (thread ids)
    Problem,         \* the sets of points a formula's solutions can have
    Modes            \* whether clauses are shared (share_clauses), and a conflict budget set

ASSUME ParallelAssumption ==
    /\ Worker # {} /\ IsFiniteSet(Worker)
    /\ \A P \in Problem : P \subseteq YPoint
    /\ Modes \subseteq [clauses : BOOLEAN, budget : BOOLEAN]

VARIABLES
    mode,          \* the options of this run of the program
    feasible,      \* the points of the formula's solutions
    excluded,      \* [Worker -> the points that its solver's clauses exclude]
    exported,      \* the points that the shared learnt clauses exclude
    solutions,     \* [Worker -> its local front, not shared yet]
    front,         \* the archive of solutions
    unread,
    answerType     \* what the program has answered

SharedTypeOK ==
    /\ mode \in Modes
    /\ feasible \in Problem
    /\ excluded \in [Worker -> SUBSET YPoint]
    /\ exported \in SUBSET YPoint
    /\ solutions \in [Worker -> SUBSET YPoint]
    /\ front \in SUBSET YPoint
    /\ unread \in [Worker -> SUBSET YPoint]
    /\ answerType \in {"unknown", "optimum", "unsatisfiable"}

Archive == INSTANCE SharedFront

\* What w's solver can still find.
Open(w) == feasible \ excluded[w]

\* blockDominatedRegion: the points a blocking clause for p excludes.
DominatedRegion(p) == {q \in feasible : dominates(p, q)}

DominatedBy(S) == {q \in feasible : Covers(S, q)}

\* shareClauses: w's learnt clauses may follow from everything that its solver
\* excludes, and it takes over all that the others have put in the bag.
ShareClauses(w) ==
    IF mode.clauses
    THEN /\ \E learnt \in {{}, excluded[w]} : exported' = exported \cup learnt
         /\ excluded' = [excluded EXCEPT ![w] = @ \cup exported]
    ELSE UNCHANGED <<excluded, exported>>

\* Mutant: the local front is cleared without having been pushed.
ShareClearsOnly(w) ==
    /\ Archive!Sync(w, {})
    /\ excluded' = [excluded EXCEPT ![w] = @ \cup DominatedBy(unread[w])]
    /\ solutions' = [solutions EXCEPT ![w] = {}]

\* shareSolutions: push the local front, pull and block what is new, clear.
ShareSolutions(w) ==
    /\ Archive!Sync(w, solutions[w])
    /\ excluded' = [excluded EXCEPT ![w] = @ \cup DominatedBy(unread[w])]
    /\ solutions' = [solutions EXCEPT ![w] = {}]

-----------------------------------------------------------------------------
\* What has been found, in the archive or in the local fronts.
Stored == front \cup UNION {solutions[w] : w \in Worker}

(***************************************************************************)
(* A solver never excludes a point that is not beaten by a solution which  *)
(* is archived or about to be: learnt clauses travel ahead of the          *)
(* solutions they rely on (shareClauses comes before shareSolutions).      *)
(***************************************************************************)
ExclusionIsJustified ==
    \A w \in Worker : \A p \in excluded[w] \cup exported : Covers(Stored, p)

\* The points that no stored solution is as good as: what is left to find.
Uncovered == {p \in feasible : ~ Covers(Stored, p)}

\* The archive holds an antichain of points of solutions.
StoredInv ==
    /\ Stored \subseteq feasible
    /\ IsAntichain(front)
    /\ \A w \in Worker : unread[w] \subseteq front

(***************************************************************************)
(* The workers of a search use the archive as it promises to work: a call  *)
(* pushes an antichain (Solution::pushSafe keeps local fronts free of      *)
(* dominance), and nothing else changes the archive.                       *)
(***************************************************************************)
ArchiveSpec == Archive!Spec

(***************************************************************************)
(* The program answers OPTIMUM only with the whole Pareto front in the     *)
(* archive, and UNSATISFIABLE only if there is no solution (README.md,     *)
(* Output format).                                                         *)
(***************************************************************************)
AnswerIsCorrect ==
    /\ answerType = "optimum" => feasible # {} /\ front = NonDominated(feasible)
    /\ answerType = "unsatisfiable" => feasible = {}
=============================================================================
