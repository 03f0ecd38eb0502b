# Verification of the Open-WBO MOCO solver

This directory holds TLA+ specifications of the parallel part of the solver in
`src/`: a program that finds the Pareto front of a pseudo-Boolean
multi-objective problem with one SAT solver per OpenMP thread, by a parallel
algorithm or by a portfolio of sequential ones. The models are
checked with TLC on small instances, and the main results are proved with TLAPS
for every number of threads, objectives and values.

What is in here, in the order in which it is best read:

| module | what it is | lines of code it models |
|---|---|---|
| `Pareto` | points and dominance | `Pareto.cc` 30-53 |
| `SharedFront` | what the shared set of solutions promises (abstract) | `SharedSolutionsArchive.h` 53-161 |
| `SolutionsArchive` | the set of solutions, step by step, with unlocked readers | `SharedSolutionsArchive.h` |
| `ClauseBroadcast` | what the exchange of learnt clauses promises (abstract) | `ISharedClausesBag.h` |
| `ClauseBag` | the deque behind it | `DequeSharedClausesBag.h` |
| `ParallelMO` | what the parallel searches have in common | `Alg_ParallelMO.cc` |
| `ParUnsatSat` | the core-guided search | `Alg_ParUnsatSatMO.cc`, `waiting_list.h` |
| `ParPMinimal` | the P-minimal search | `Alg_ParPMinimalMO.cc` |
| `ParSlideDrill` | slide and drill | `Alg_ParSlideDrillMO.cc` |
| `HittingSets` | hitting sets: the optimizer's rounds and the tests | `Alg_ParHittingSetsMO.cc`, `Alg_ParUnsatSatIncHSMO.cc`, `Alg_UnsatSatIncHSMO.cc` |
| `Portfolio` | sequential members, stop flag, answers | `Alg_PortfolioMO.cc`, `Alg_PBtoCNF.cc` 1625-1776, the ends of the members' searches |
| `*_proofs` | theorems about the module of that name | |
| `MC*` | instances for TLC, one `.cfg` per run | |

Contents: 1 Inventory, 2 Plan, 3 The models, 4 What the runs show, 5 Fairness,
6 What is proved, 7 Disagreements with the documentation, 8 Observations,
9 What is not modelled.

## 1. Inventory

The program reads a formula with several objectives (`ParserPB.cc`), chooses an
algorithm (`Main.cc`) and prints an answer: `OPTIMUM` with the Pareto front,
`UNSATISFIABLE`, or, when it is interrupted, what has been found so far
(`src/README.md` 66-83). The components and what they keep:

**Clause exchange** (`clausesharing/`). State: a deque of learnt clauses and, for
every worker, how much of its front the worker has read. One operation,
`syncSharedClauses`: grab what is new, push one's own clauses that pass a
heuristic filter, drop what everybody has read; all under one mutex. Called by
every worker between calls of its SAT solver. Hard: unsigned read positions that
are moved by the caller (twice) and by `clean` (for everybody). Correct when a
worker is given each clause of the others once, in order, and none of its own.

**Solutions archive** (`solutionsharing/`). State: a deque of tagged solutions,
which are marked when they are dominated and never removed; a published prefix of
bounded length; an atomic counter of live entries; time stamps per batch and per
worker. `syncSolutions` (pull, then push) runs under a mutex; `getSolutions`,
`getSolutionPoints` and `empty` run without it, also in the handler of SIGINT.
Hard: readers that see the middle of a push, batches in which several candidates
beat the same entry, an archive larger than the published prefix. Correct when
it behaves as a set of best points from which everyone is told what is new.

**Parallel base** (`Alg_ParallelMO`). State: for every worker a solver, its
assumptions, a local front and a conflict budget. Operations: `solve`,
`blockDominatedRegion`, `assumeDominatingRegion`, `shareClauses`,
`shareSolutions`, `consolidateSolution`. Hard: clauses travel ahead of the
solutions they were learnt from, so that a solver may be left with nothing to
find while the solution that explains this is still in another worker's local
front.

**Core-guided search** (`Alg_ParUnsatSatMO`). State: a waiting list of fences
with the set of all fences it has seen, and an atomic counter of busy workers.
Workers pop a fence, enumerate the box that it bounds, and, when the box is
exhausted, insert new fences along the objectives of the unsatisfiable core.
Hard: termination (an empty list is not the end), pruning of the list, cores that
are used after the solver has taken over clauses from others. Correct when no
fence is lost, none is searched twice, and the answer is the Pareto front.

**P-minimal search** (`Alg_ParPMinimalMO`). State: shared pools of objective
literals. Workers find a first solution with random literals assumed false, then
descend to solutions that dominate their best one, and start again when there is
none. No waiting list: every worker goes on until its own solver is
unsatisfiable. Hard: UNSAT has three meanings (the sample failed, the descent is
over, the search is over), and solutions are pulled in the middle of a descent.

**Slide and drill** (`Alg_ParSlideDrillMO`). State: a waiting list of points, a
map of unfinished slides, a log of definitions and finalisations of slide
variables, how much of it each solver has installed. Hard: slides that are given
up when the budget is used up and resumed by another worker, whose solver may not
know the slide's variables yet; a variable that is switched off must not be
assumed by anyone.

**Hitting sets** (`Alg_ParHittingSetsMO`, `Alg_ParUnsatSatIncHSMO`,
`Alg_UnsatSatIncHSMO`). State: an optimizer that knows the objectives and a
growing set of diagnoses, but not the formula; its candidates, the blocking
clauses of the round (guarded by literals that its threads assume) and those that
are permanent; the literals it does not count yet (`blockedVars`). Rounds: the
optimizer enumerates optimal candidates, workers with the complete formula test
them, cores of the failed ones become diagnoses and thaw literals. Hard: what is
blocked for good in one round has to be right in all later relaxations; clauses
and keys are built for a slice of the objectives that grows; a thread assumes a
snapshot of the guards. Correct when the optimizer's candidates bound the front
from below in every round, what passes is optimal, and the rounds end.

**Portfolio and conflict shunts** (`Alg_PortfolioMO`, `Alg_ConflictShuntMO`,
`Alg_ServerMO.h`, `Alg_MasterMO.h`, `Main.cc`). Several sequential searches, one
per thread (`UnsatSatMO`, `PMinimalMO`, `HittingSetsMO`, slide and drill behind a
conflict shunt). State: the stop flag, one answer per member, the shared clauses
and solutions; each member has its own `solution()` and `first`, and a conflict
shunt has a server whose solutions it takes over between two approximations. Hard:
the stop flag races with members that finish; each kind of member looks at it,
shares and answers in an order of its own; a stopped member returns with
solutions it has not shared, a stopped shunt also with those of its server; the
server does not share as its shunt does; members are emptied by clauses of others.
Correct when the members that finish agree, and what is printed is the front.

**Waiting lists** (`waiting_list/`): stack, queue and priority queue with a set
of seen elements. **Encodings** (`encodings/`, `Encoder.cc`): clauses for the
objectives and the map from values to literals. **Solutions and models**
(`MaxSAT.cc`): points of models, local fronts free of dominance. **Sequential
searches** (some twenty `Alg_*MO.cc`): the ancestors of the parallel ones.
**MaxSAT algorithms, local search, parsers, partitioning, SAT solvers, the sat4j
port, tools**: inherited, vendored or separate; see section 9.

How they interact: the workers of a search share no SAT solver. They meet in the
clause bag, in the archive, in the waiting list and its counter (an OpenMP
critical section named `work_state`), in the log of slide variables (a mutex) and
in the pools of literals (a critical section). The main thread reads the archive
when the parallel region is over; the handler of signals reads it at any time.

## 2. Plan

Order of work, most important first; a star marks what exists.

1. \* `Pareto`, `SharedFront`, `SolutionsArchive`; \* `ClauseBroadcast`,
   `ClauseBag`: what all searches rest on, each with an abstract specification
   that it implements.
2. \* `ParallelMO` and the three searches on top of it: \* `ParUnsatSat`,
   \* `ParPMinimal`, \* `ParSlideDrill`. The searches use the abstract
   `SharedFront`, not the steps of `SolutionsArchive`, so that their state spaces
   stay small; the run `solutions_archive` shows that this is allowed.
3. \* `HittingSets`: the rounds with the parallel and the sequential optimizer.
4. \* `Portfolio`: members of four kinds over one archive. Left: the handler of
   signals and the parallel server of slide and drill.
5. Waiting lists as pure algorithms (stack, queue, priority queue with retry
   counts) against a reference definition; the index functions of the encodings
   (`evalToIndex`, `blockDominatedRegion`, `extendUL`) on key sequences, against
   the values that the searches use; with them the common factor of section 8.
6. The budget of `ParallelMO::solve` (conflicts counted) and termination with it.

Composition: `ParallelMO` EXTENDS `Pareto` and instantiates `SharedFront`;
the searches EXTEND `ParallelMO`; `SolutionsArchive` refines `SharedFront`;
`ClauseBag` refines `ClauseBroadcast`; `Portfolio` composes several sequential
searches over one `SharedFront`. `HittingSets` has an archive of its own, which
nobody pulls from. `X_proofs` EXTENDS `X` and TLAPS; the proof modules of the
searches and of the portfolio also EXTEND `Pareto_proofs`, which has no variables
and holds what they have in common.

Theorems: \* the clause bag (invariant, delivery, refinement); \* the core-guided
search; \* the P-minimal search; \* the archive of solutions (invariant, what
readers and solvers get, refinement); \* slide and drill (invariant, no loss, one
slide per point, the answer); \* `Portfolio` (invariant, exports and flag,
agreement, the answer); \* `HittingSets` (invariant, lower bounds, exact counts,
what is blocked or archived for good, the answer).

## 3. The models

### Conventions

An action is a piece of code between two points at which another thread can
observe it: a critical section, a call of the archive or of the bag, an atomic
operation, or a stretch of thread-local code. `pc[w]` names the point that thread
`w` has reached. Names of variables and operators are those of the source where
it has any. A definition under the comment "Mutant" is a plausible mistake; it
is used by no specification and documents what a property guards against.

A solution is its point in the objective space: `feasible` is the set of points
of the formula's solutions, any member of `Problem`. All objectives are
minimised; their values are `0 .. MaxValue`.

Options are variables that never change, with any initial value of a constant
set: `mode` in the searches (`clauses`: is `share-clauses` set; `budget`: is there
a conflict budget) and in `Portfolio`, `sequential` and `budget` in `HittingSets`.
One run thus covers several settings.

### Clause bag

`ClauseBag` names a clause by its serial number in the order of the pushes.
`SyncSharedClauses(w, k)` is one call by `w` with `k` clauses that pass the
filter; it is one step because the mutex is held from `grab` to the end of
`clean`, and nobody reads the bag without it. `log` and `received` are history.
The number of clauses is bounded by `MaxClauses` and `MaxBatch`; the theorems hold
for every value of the bounds.

### Solutions archive

`BeginSync`, then `Pass`, `Skip`, `Flag` or `Accept` for every entry and
candidate, then `Count`, `Publish` and `EndSync` are the steps of one call of
`syncSolutions`; the mutex is held throughout. The reader runs without it:
`ReadPublished`, `ReadOverflow` (which tries the mutex), `Scan`, `EndScan`. Two
atomics that no reader looks at together change in one step (`Flag`). History:
`received`, `skipped`, `reader.quiet`.

The refinement mapping to `SharedFront`: until a call returns, the abstract front
is the one it started from, that is, the old entries that are live or that the
call itself has marked; `unread[v]` is the part of it that is younger than `v`'s
time stamp and not by `v`. A call is thus one abstract `Sync`, at `EndSync`.

### What the searches share (`ParallelMO`)

* `excluded[w]`: the points that the clauses of `w`'s solver exclude. The answer
  of `solve` is any open point that satisfies the assumptions, or UNSAT if there
  is none, or, with a budget, Undef at any time.
* `DominatedRegion(p)`: what the blocking clause for `p` excludes, which is
  exactly what `p` dominates, `p` included.
* `ShareClauses(w)`: `w`'s learnt clauses may follow from all that its solver
  excludes, so they exclude anything between nothing and that; `w` takes over all
  that the others have put in the bag. That a learnt clause takes effect at the
  receiver at once, or never, are the two extremes, and both occur.
* `ShareSolutions(w)`: `shareSolutions`: push, pull, block what is new, clear.
* `Stored`: what is in the archive or in some local front. Everything that is
  said about completeness is said about `Stored`, since a solution that only its
  finder knows may already be the reason for a clause in other solvers.

### Core-guided search (`ParUnsatSat`)

`fence[w]` is the upper bound (`ul`) of the box that `w` explores: the points that
dominate it. `Value[o]` are the values that objective `o` can take, the keys of
its encoding less one; `IsNext` is `extendUL`, `ExpansionPoints` is
`generateExpansionPoints`. The phases of a thread: a first solution, a push
without a pull, the barrier, a first exchange (`FirstSolution` .. `Solutions`);
the main thread inserts the root fence (`Root`); then the loop `Pop`, `SolveSat` |
`SolveUnsat` | `SolveUndef`, `Clauses`, `Solutions`, `Expand`, `Insert`,
`EndInsert`, `Leave`; `Finish` ends it.

The waiting list is the set `pending`: which fence is popped first
(`expansion_order`, the stack's order) is left open, so every order is checked.
Children are inserted one by one, in any order, inside of one critical section
(`section`). Reading the list and reading the counter are one step in `Finish`
because both, and every insertion, are inside `work_state`; the decrement in
`Leave` is outside, as in the code. The branch of `SolveSat` in which `pushSafe`
rejects the model is kept although it never happens: the local front is blocked.

### P-minimal search (`ParPMinimal`)

`Encode` is the first parallel region of `search_MO`, whose solution is neither
shared nor blocked. `Shrink`, `Sample` and `StartUnsat` are the loop that looks
for a first solution; which solutions avoid a literal is not modelled, so a
sample may fail whatever is left to find, for any part of it as the core. The
main thread assumes nothing. `best[w]` is `ul`. A model leads to
`Clauses`, `SolutionsModel` (push, pull, block the model), `Clauses`, `Solutions`
and a call in the region that dominates it; UNSAT there leads outside
(`RegionUnsat`), UNSAT outside ends the worker (`SolveUnsat`). The outermost loop
over `epsilon` runs once, as it does for the default values of the options, the
only ones for which the answer is exact.

### Slide and drill (`ParSlideDrill`)

`marker[w]` is the point that `w` drills from, `mem[p]` the variables of the
unfinished slide from `p` (`{}` stands for no node). Slide variables are numbered
in the order of their definitions; `sharedUpdates` is the log of definitions and
finalisations, `nextUpdate[w]` how much of it `w` has installed. `Candidates(w)`
is what `w`'s solver can find: a variable that it assumes false and has installed
keeps the points away that its definition dominates; one that is switched off
leaves nothing at all. `requeue[w]` tells a slide that was given up
(`OutOfBudget`) from one that is complete (`Finalize` .. `Erase`).

Only the main worker has the first solution, and it is archived by `Answer`; see
section 7. Deps of a node are written outside of the critical section that finds
the node: that this is no race is the property `OneSlidePerPoint`, which is also
proved.

### Hitting sets (`HittingSets`)

Here a solution is an assignment, since the optimizer and the tests differ in
what they know of the formula, and literals of both polarities matter. `formula`
is the set of solutions; the optimizer finds the assignments that satisfy the
diagnoses (`clauses`), leave the frozen literals false and are not blocked
(`Open`). It sees a point with the literals of its `slice` only (`Point`), while
the variables of the encoding compare the complete objective (`Full`): the keys
are `slicedRoots`, the values that the slice can take (`AllSums`), and a bound is
the largest key below a value (`Bound`, `Beyond`). A sum of coefficients is the
number of their units (`Total`): the optimizer adds up machine integers in no
order that matters, and a set of units can be reasoned about without recursion.

`phase` is what the main thread does. In a round (`SearchAgain`), the threads of
the optimizer `Pop` a fence, `Synchronize` (take the guards that are active),
`SolveSat` (`publishModel`), `SolveUnsat` or `SolveUndef`, `Leave`, `Finish`; the
sequential optimizer extends its one fence (`ExtendUL`). `StartTesting` follows
the barrier; the workers take candidates (`TestSat`, `TestUnsat` with any valid
core), and `Report` theirs. `SetupApprox` is `incrementFormula` with `thaw` and
`checkSols`; `Answer` ends the search when there is no diagnosis.

### Portfolio (`Portfolio`)

A member's search is a list of things to do, `todo[w]`: shared calls
(`"clauses"`, `"solutions"`, `"serverSolutions"`), looks at the flag (`"check"`),
`"incorporate"`, `"return"` to `search_MO`, and the calls of the solver, after
which the action of the member's kind puts the rest of its loop in front:
`HarvestSat`, `HarvestUndef`, `HarvestUnsat` for `UnsatSatMO`; `DescendSat`,
`DescendUnsat`, `DescendUndef`, `SolveUnsat` for `PMinimalMO`; `Round`, `RoundStopped` for `HittingSetsMO`;
`SlideSat`, `SlideUnsat`, `SlideUndef` for slide and drill. What a member finds
and when a fence or a slide is over is left open; that it returns with an answer
only when its solver has nothing left is kept.

Slide and drill are run by a server of the conflict shunt. What `SlideSat` finds is
in the server's `solution()`, the variable `server`, until the shunt takes it
(`Incorporate`, for `incorporate_approx`), blocks nothing new and shares
(`Alg_ConflictShuntMO.cc:105-107`). The server's own calls of `shareSolutions`
(`Alg_SlideDrillMO.cc:110`, `:303`) are another action, `ShareServerSolutions`:
`PBtoCNFMasterMO` passes it the stop flag, the bag, the archive, `share-clauses` and
the heuristic, but not `share-solutions` (`Alg_MasterMO.h:84-116`). If clauses are
shared, it pushes and never pulls; if only solutions are, it does nothing. Its calls
of `shareClauses` are the shunt's: one thread, one solver's clauses.

The order of the calls is that of
the code and differs between the kinds, as do `FinalSolutions` (who adds the first
solution), `AnswerOf` and `Leave` (a conflict shunt shares before it asks the
others to stop, the others after it).

## 4. What the runs show

| run | instance | states | properties |
|---|---|---|---|
| `clause_bag` | 3 workers, 4 clauses, batches of 2 | 1 219 | `IInv`, `ExactlyOnceInOrder`, `NothingReadByAllIsKept`, `BroadcastSpec` |
| `solutions_archive` | 2 solvers, 1 reader, 3 entries, prefix of 2 | 623 824 | `IInv`, `EmptyIsTruthful`, `PullsAreExact`, `SnapshotIsAntichain`, `QuietSnapshotIsExact`, `FrontSpec` |
| `par_unsat_sat` | 2 workers, all 16 problems on 2 x 2, clause sharing | 624 644 | `IInv`, `ExclusionIsJustified`, `Terminates` |
| `par_unsat_sat_stride` | 2 workers, values {0,1,2,4} and {0,4}, stride 3, budget | 458 463 | `AnswerIsCorrect`, `NoFenceIsLost`, `FencesAreDistinct` |
| `par_p_minimal` | 2 workers, 4 problems on 3 x 3, clause sharing or a budget | 251 625 | `IInv`, `DoneIsComplete`, `AnswerIsCorrect`, `ModelsImprove`, `Terminates` |
| `slide_drill` | 2 workers, 3 x 3, clause sharing, a budget, or neither | 456 410 | `IInv`, `AssumedVariablesAreOpen`, `NoRegionIsLost`, `OneSlidePerPoint`, `DrillsAreStrict`, `AnswerIsCorrect`, `Terminates` |
| `hitting_sets` | 2 testers, 2 optimizing threads or 1 with a budget, 3 formulas over 3 variables | 129 920 | `IInv`, `AnswerIsCorrect`, `LowerBoundSet`, `CountsAreExact`, `PermanentIsJustified`, `AbsorbedIsOptimal`, `Terminates` |
| `portfolio` | 2 members, 8 settings, 3 problems on 2 x 2 | 457 351 | `IInv`, `AnswerIsCorrect`, `AnswersAgree`, `ExportsAreArchived`, `StopIsObeyed` |
| `interrupt` | as `solutions_archive` | violation | `InterruptReportsSolution` |
| `hitting_sets_doubles` | one variable with a cost in both polarities | violation | `AnswerIsCorrect` |
| `hitting_sets_stale` | weights 1, 3 and 2 over 4 variables | violation | `AnswerIsCorrect` |
| `portfolio_unsat` | `us` and `pmin` with clauses, without solutions | violation | `AnswerIsCorrect` |

Each property of a passing run fails when one definition of the code is replaced
by a mistaken one ("Mutant" in the modules, `mutants` in `PROJECT.json`): for
instance, treating a failed sample as the end of the search breaks
`DoneIsComplete`, switching off the variables of a slide that was given up breaks
`AssumedVariablesAreOpen`, blocking candidates for good whether they passed their
tests or not breaks `PermanentIsJustified`, a member that looks at the stop
flag between its clauses and the solutions they rest on breaks
`ExportsAreArchived`, and a shunt that shares only clauses after it has taken over
its server's solutions breaks `IInv` of the portfolio.

### The bounds and why they are enough

* **Two workers.** The hazards listed in `PROJECT.json` are between one worker and
  another one (or the reader), with one exception: in `par_p_minimal` only one of
  the two samples, since `Main` starts without assumptions, so that two workers
  never take the same literal out of the pool. With three workers, two solutions
  and clause sharing, the run no longer ends in a few minutes. The model's pool is
  a set, and a literal that is gone is taken out once more without effect, as in
  the code, where `objectivesOfLit` has no entry for it any more; the invariants
  are proved for any number of workers, but `Terminates` is not checked for two
  that sample. The theorems of section 6 hold for any number of workers;
  `clause_bag` has three.
* **Two objectives.** Cores and fences need at least two; with two, dominance is
  already a partial order with incomparable points.
* **Two or three values.** `par_unsat_sat` tries every set of solutions on 2 x 2.
  `par_p_minimal` has four problems on 3 x 3: no solution, one, optimal points that
  beat another one, and two descents to the same point with a diagonal beside it.
  Slides with
  several points, drills from them and points found by two slides need 3 x 3. The
  stride matters from 4 on and with gaps between the values
  (`par_unsat_sat_stride`): a fence jumps over a value in one objective and
  straight to the bound in the other, fences prune each other, and some are
  reached along two paths.
* **Slide and drill**: with clauses or with a budget, problems with at most three
  points (`MCInit`): a slide of two points that is given up and resumed has three,
  since the first solution is not found again. Without either, one with four, so
  that two slides find the same point at the same time.
* **Formulas** in `hitting_sets`: none; two optimal solutions, neither of which
  the first relaxation finds; a chain of three, so that candidates are beaten.
  Three variables, one of them counted by both objectives; several rounds are
  needed, with diagnoses that the two workers find at different times.
* **Portfolio**: eight settings, in which each kind meets others with and without
  clauses, solutions and the stop flag; a shunt's server pushes in three of them
  (with clauses) and does nothing in two. `PMinimalMO` together with clauses is in
  `portfolio_unsat`, which fails.
* **Archive**: three entries with a published prefix of two, so that the archive
  overflows; batches of two, so that two candidates of a batch beat one entry. Of
  the nine points, four are used: a worst one, a better one, and two incomparable
  ones that beat both.
* **Clauses**: `MaxClauses = 4`, `MaxBatch = 2`: with three workers, clauses are
  read by one, two and all others, and `clean` drops none, some or all.
* **Literals**: two, so that a pool shrinks in two steps and samples differ.

`CHECK_DEADLOCK FALSE` is set for the searches, which stop when they have
answered, but not for the bag and the archive, which can always be called.
In `clause_bag` a call with no clauses is always possible, in `solutions_archive`
a call with an empty batch.

Symmetry in the workers is used where a run checks safety only and no worker is
distinguished.

## 5. Fairness

The searches assume weak fairness for the steps of each worker and for the steps
of the main thread, nothing else: every OpenMP thread is scheduled, and every
call of a SAT solver returns (there are finitely many assignments, and without a
budget `solveLimited` runs to the end). The critical sections need no assumption
of their own: `Step(w)` stays enabled for the thread that holds `section`, and a
thread that polls the waiting list is disabled while it has neither something to
pop nor a reason to leave, since polling changes nothing.

`Portfolio` assumes the same of its members: weak fairness for each thread. Its
one liveness property, `StopIsObeyed`, holds with budgets, too, whatever the
solver answers. `HittingSets` assumes less: `WF_vars(Next)`, some thread runs.

Termination is checked without a conflict budget (`~ mode.budget`, `~ budget`). With one, a call may return
Undef; that this cannot go on for ever depends on conflicts that add up, which the
models do not count. Every run for safety that has a budget lets Undef happen at
any time.

## 6. What is proved

All proofs are checked by TLAPS for arbitrary constants that satisfy the named
assumptions: `ObjectiveAssumption` (there is an objective; values are bounded),
`ParallelAssumption` (finitely many workers, at least one), `SearchAssumption`
(the encoding has the values of all solutions, zero and the bound; the stride is
positive), `PMinimalAssumption` and `MainAssumption` (the main thread is a worker),
`HittingSetsAssumption` (finitely many objectives, variables and threads; the
coefficients are numbers) and `ValuesAreBounded` (`MaxValue` bounds their sums),
`ConstantsAssumption` (clause bag), `ArchiveAssumption` (the archive's points are
points, its bounds numbers), `PortfolioAssumption` (at least one member; a formula
has finitely many points).

**`ClauseBag_proofs`.** `BagInvariant`: the deque is a suffix of the log of
pushes, no read position is behind its end, and what a worker has still to read
is by others. `Delivery`: each clause exactly once and in order. `BagIsMinimal`.
`ImplementsBroadcast`: the deque implements the broadcast log; a call maps to one
abstract step.

**`SolutionsArchive_proofs`.** The parts of the invariant `IInv`:

* `CounterInv` and `TimeInv`: the atomics account for the entries up to the limit
  of the push in progress, then for all; its entries are younger than everyone's
  last call.
* `DominanceInv`: no entry covers a later one, what a later one covers is marked,
  and what is marked is covered by a live entry or by the candidate in hand. It is
  inductive only with `CandidateInv` (nothing live that has been inspected is
  comparable with the candidate, nothing that has joined with the rest of the
  batch).
* `BatchInv`: every candidate is still to come, is covered by the front that the
  call started from (`Standing`), or has joined; what was marked is beaten by what
  joined. `PullInv`: what a worker was handed, and what it stepped over.
* `ReaderInv`, `QuietInv`: nothing ahead of a scan beats what it has seen.

`EmptyTruthful` needs `DominanceInv` besides the counter: as what is marked is
covered by something live, a live entry is left whenever there is an entry at
all. `SnapshotAntichain` and `QuietExact` are about readers that run between
any two steps of a push. `ImplementsFront`: `BeginSync` maps to a `Sync` with no
points, which hands over what is unread; the return of the call to a `Sync` with
the batch; every other step, the marks and the unpublished entries included, to
a stutter. `ReturnFacts` computes what the batch adds and drops: exactly what
joined, and exactly what it marked.

**`ParUnsatSat_proofs`.** The result is `AnswerCorrect`: the search answers
`OPTIMUM` only with the whole Pareto front, `UNSATISFIABLE` only if there is no
solution. It is not inductive, and the invariant behind it, `IInv`, has two parts:

* `ControlInv`: which threads are where. `active` is the number of threads
  between `try_pop` and `fetch_sub` (`ActiveInv`), so that it is zero exactly when
  no fence is being explored and no child is still to be inserted; this gives
  `NoEarlyFinish` (a thread does not leave while a fence is left). The set `seen` gives `FencesAreDistinct`.
* `CoverageInv`: what is stored and what is left. `ExclusionIsJustified`: no
  solver and no shared clause excludes a point that no stored solution is as good
  as. `ExpansionInv`: what is left to find lies beyond the fence along an
  objective of the core, from the UNSAT answer to the insertion of the children,
  although clauses and solutions of others are taken over in between; this is why
  a core that was computed before an exchange may be used after it. Hence, while
  something is left, a fence that is given up has a child that contains it, and
  `NoFenceIsLost`: each fence ever seen is inside one that is pending or explored.

When the last thread leaves, nothing is pending and nobody explores, so by
`NoFenceIsLost` nothing is left to find; the local fronts are empty; the archive
is an antichain of points of solutions that covers all of them, which is the
Pareto front (`CompleteFront`). The proof needs no well-foundedness argument over
the fences: safety is enough, and termination is left to TLC.

**`ParPMinimal_proofs`.** `DoneComplete`: when a worker stops, what is stored
covers every solution, also when the clauses that left it nothing are another
worker's; `AnswerCorrect` follows. `SeenBlocked`: what an archived solution
dominates is blocked in every solver that pushed or pulled it. From this,
`Improvement`: every model is new to its worker's view of the archive, and every
model of a descent is strictly better. The invariant `IInv` adds where a worker's
model is: in its local front until it is pushed, blocked from then on
(`LocalInv`); and that a worker that has stopped excludes everything (`DoneInv`).

**`ParSlideDrill_proofs`.** The search keeps no fences; what is left to find has to
be in the region of some point that will be drilled from. The parts of `IInv`:

* `RegionInv` strengthens `NoRegionIsLost`: a point that is to be inserted counts
  only while it is not in the list's `seen`, since `Insert` skips it afterwards.
  That a complete slide may drop its point is the lemma `Exhausted`: a point `p`
  that is not covered, but that the solver cannot find, is kept away by a variable
  the worker assumes; that variable is defined by a better point, which is in the
  list or about to be (`MemInv`), and `RegionInv` for this point gives the place
  where `p` will be found. One step is enough; no induction over chains of slides.
* `MemInv`, `LogInv`: each variable belongs to one node, defined by a point that is
  strictly better than the node's; it is switched off only while the worker that
  completed the slide has not yet erased the node (`Completing`). As no two workers
  process a point (`ListInv`), no variable is off while it is assumed
  (`NoneIsSwitchedOff`): the theorem `VariablesOpen`.
* `BlockedInv`, `ListInv`, `DrillsAreStrict`: a point of the list is excluded by
  every solver or covered by the archive, so that whoever pops it and pulls has it
  blocked; `FoundInv`: hence a model is new and strictly better.
* `PhaseInv`, `LocalInv`: `active` counts the threads that process a point, and what
  is in a local front or in a batch to insert is there only between certain steps.

`AnswerCorrect`: when all have left, nothing is pending, so by `RegionInv` for the
top, whose region holds every solution, everything is covered; the
first solution joins the archive with the answer.

**`Portfolio_proofs`.** Any number of members of the four kinds, in any mix and
with any options; what a member finds is left open, as in the model. The proof
first shows that the 22 actions have twelve forms (`Actions`): a member moves
on, finds points, lets its server find one, shares clauses, its solutions or its
server's, takes these over, asks the others to stop, starts, or ends in one of
three ways. The parts of `IInv`:

* `PlanInv`: a member either leads to a call of its own kind, with only shared
  calls and looks at the flag before it, or has its answer and only shares
  and asks the others to stop.
* `EndInv`: whoever returns with the flag unset excludes every solution, and has
  taken over its server's or is going to.
  `AnswerInv`: if the flag is set, somebody has finished, so that the portfolio
  always has an answer to take.
* `SharedInv`: a member that is not about to share before its next look at the flag
  has everything in its own `solution()` in the archive. This does not hold of the
  solutions of its server: with `share-solutions` alone, those that a stopped shunt
  has not taken over are lost (section 8).
* `ServerInv`: if clauses are shared, the server's solutions are in the archive
  except right before the push that follows each of them. Together, being told to
  stop loses nothing that others count on (`ArchivedStep`, `ServerStep`), and the
  theorem `Exports` holds for all options: an exported clause is backed by the
  archive, the first solution, or a call of `shareSolutions` that will be made.
* `ExcludedInv`: what a member excludes rests on its own solutions and its
  server's, on the first solution (only in a conflict shunt, unless clauses are
  shared) and on what is archived or about to be.
* `CompleteInv`: once a member has the answer `OPTIMUM`, its solutions, or the
  archive with what will still be pushed, cover every solution.

`Agreement` and `Correctness` need `Sound`: clauses are not shared with
`PMinimalMO`, which neither adds the first solution nor counts the archive's when
only clauses are shared. The run `portfolio_unsat` shows that they are false
without it.

**`HittingSets_proofs`.** Rounds of candidates, tests and diagnoses, for any
formula, any number of testers and optimizing threads, the parallel and the
sequential optimizer, with and without a budget. `IInv` has three layers, and the
weights of the objectives decide which of them hold:

* Always (`RoundsAreOrdered`): `ThreadsInv`, the counter `active` and who may have
  left; `TestsInv`, every candidate of a round is still to be tested, has failed,
  is with a worker that has a core for it, or is dominated by the archive, so that
  no diagnosis means that all have passed; `KnownInv`, diagnoses follow from the
  formula; `KeysInv`, the keys are the sums that the slice can have;
  `CandidatesInv`, a candidate is a model of the relaxation, its blocking clause
  excludes all that it dominates, and the core of one that fails excludes it.
* If no literal is counted in both polarities (`OneSign`): `SliceInv`, what is not
  frozen is in the slice. Hence what the optimizer finds has the values that it
  believes (`CountsStayExact`, and the candidates' points), however the literals
  are thawed.
* If, moreover, the weights of an objective are equal (`EqualWeights`):
  `BlocksInv` and `FencesInv`. The keys of a slice are then all the sums of the
  complete objective up to the largest one (`SmallerSums`), so that the bound of a
  blocking clause is the greatest value below its point's (`BoundIsTight`) and
  stays so when the slice grows. A clause, whether new, remembered, guarded or
  permanent, therefore excludes only what its point dominates.

`Missing` is the set of models of the relaxation that no candidate dominates, and
`FencesInv` says of it what `NoFenceIsLost` says of the core-guided search: every
fence of the round lies inside one that is pending or explored. It rests on
`CoreExpands` (as long as something is missing, the core of an exhausted fence has
an objective with a larger key, so that the fence has a child, which contains it)
and on `PruningKeeps` (what is pruned lies inside something that is kept). When a round ends, nothing is
missing. `RoundsGiveLowerBounds` carries this from the relaxation to the formula:
a solution with its frozen literals set to false is a model of the relaxation,
since no diagnosis has a frozen literal, and is at least as good
(`WithoutFrozen`). What passes its test is then optimal (`AbsorbedStaysOptimal`), what was
blocked for good is dominated by the archive (`PermanentStaysJustified`), and when
there is no diagnosis the archive is the front (`HittingSetsCorrect`).

These four theorems have the hypothesis `Simple`, that is, both conditions on
the weights. Neither can be dropped: `hitting_sets_doubles` has equal weights and a
literal with a cost in both polarities, `hitting_sets_stale` has unequal weights,
and both end with a wrong answer (section 7).

Of termination, which TLC checks, the part that is a safety property follows from
`CandidatesInv`, for all weights: every round but the last one takes an
assignment from the relaxation (`RoundsShrink`), and within a round no thread
finds a model that a candidate dominated when it synchronised (`FindsStayNew`).

**`Pareto_proofs`.** Lemmas for all of these: dominance is a partial order, what
joining points does to a front (`JoinFacts`), an antichain that covers all
solutions is the front (`FrontOf`), dropping what is beaten uncovers nothing
(`NonDominatedCovers`, by the least number of points below), what an exchange
leaves to read (`Synchronised`), moving a local front into the archive uncovers
nothing (`Moved`). Each search states them for its own variables (`SyncFacts`,
`PushKeeps` or `ShareKeeps`, `CompleteFront`).

**Composition.** The searches and the portfolio do not contain the steps of
`SolutionsArchive`, only calls of `SharedFront`. `ImplementsFront` shows that the
archive is one, if its callers push antichains (the batches of `BeginSync`).
`UsesArchive`, in each of the four modules, is the other half: every call pushes an
antichain, a shunt's server included, by the invariant's part about local fronts
(`LocalInv`, `FrontInv`),
and no other step changes the archive, so that the search satisfies
`ArchiveSpec`, the specification of `SharedFront`.

**Only model-checked**: termination (`Terminates` of the four searches that have
it) and `StopIsObeyed`. Liveness under fairness is out of the prover's reach. Every
safety invariant and every action property of the passing runs is the subject of a
theorem, those of `HittingSets` with the hypotheses named above.

## 7. Disagreements with the documentation

Four runs are expected to violate a property. Each was also reproduced, or its
steps were followed, in the program itself.

* `interrupt`. `src/README.md` 68-69: "In any case, the solver will report back a
  partial solution if interrupted by SIGINT." `pushSolutions` marks the entries
  that a new solution beats (`SharedSolutionsArchive.h:125`) and publishes the new
  one later (line 159). A reader without the mutex that runs in between finds
  neither: with a single solution published before, it reports none. As long as
  the archive is an antichain (`SnapshotIsAntichain`, which holds because of this
  very order), some such window is unavoidable without a lock or a second copy.
* `hitting_sets_doubles`. `src/README.md` 76: `s OPTIMUM`: "the full Pareto-front
  was found". `UnsatSatIncHSMO::build` leaves a literal out of `blockedVars` when
  its negation has a cost, too (`Alg_UnsatSatIncHSMO.h:24`), and nothing counts it
  until a diagnosis mentions it. The optimizer sets it at will, believes a
  candidate to be better than it is, and blocks the region above it.
* `hitting_sets_stale`. The same line of the README. `blockStep` reuses the clause
  that `soft_blocks` has for a point (`Alg_UnsatSatIncHSMO.cc:144`), and
  `checkSols` forgets the clauses of candidates that passed only. A clause asks
  some objective to be at most the largest key below the point's value; when the
  slice gets a key in between, the old clause asks too much. In a random sample
  of small formulas with mixed weights, a quarter of the answers of `parhs` lack
  an optimal point.
* `portfolio_unsat`. `src/README.md` 77: `s UNSATISFIABLE`: "the hard clauses are
  unsatisfiable". With `share-clauses` alone, `PMinimalMO` may be left with
  nothing by another member's clauses before it has found a solution; it answers
  from its own solutions (`Alg_PMinimalMO.cc:81-82`; `hasSharedSolutions` looks at
  the archive only when solutions are shared), and the portfolio takes the answer
  of the last member that was not interrupted. With `share-solutions` the same can
  happen in the window between the other member's `shareClauses` and its
  `shareSolutions`, when it archives its first solution: the settings of
  `portfolio` do not include `PMinimalMO` with clauses.

## 8. Observations

Noted while modelling; no run is about them.

* `ParSlideDrillMO` blocks its first solution in every solver (lines 14-16) and
  hands it to the archive only after the search (lines 22-23). If nothing beats
  it, an interruption reports no solution, although one has been known from the
  start. `ParPMinimalMO` does not archive the solution of its first region either;
  but it finds and archives one again.
* The server of a conflict shunt never gets `setShareSolutions`: `PBtoCNFMasterMO`
  forwards the other settings of sharing (`Alg_MasterMO.h:84-116`). With
  `share-solutions` alone its pushes return at once (`Alg_PBtoCNF.cc:1761`): the
  others hear of its points only after an approximation, and those found since the
  last one are lost to the archive if the shunt is stopped
  (`Alg_ConflictShuntMO.cc:97-105`). The answer does not suffer, since whoever
  stopped the shunt has found everything; a SIGINT before that reports less. With
  `share-clauses` as well, the server pushes without pulling, which moves the
  thread's time stamp past what others have pushed
  (`SharedSolutionsArchive.h:161`): the shunt's own pull never gets these points,
  which costs work and nothing else, as `ExcludedInv` is about what is excluded and
  not about what is pulled.
* In a portfolio without shared clauses or solutions, the handler of SIGINT prints
  nothing (`Alg_PortfolioMO.cc:39`).
* A conflict shunt that is interrupted returns before `consolidateSolution`, so
  that its first solution, which its solver blocks, is in no archive
  (`Alg_ConflictShuntMO.cc:58-67`). What it exports rests on that solution: in
  `ExportsAreArchived` the first solution counts as known. The members of a
  portfolio start from the same solver and formula and thus have the same first
  model; `UnsatSatMO`, `HittingSetsMO` and conflict shunts add it in the end,
  `PMinimalMO` does not (`FinalSolutions`).
* `generateExpansionPoints` mixes values of the encoding's keys, whose common
  factor has been divided out, with bounds of the objective
  (`Alg_ParUnsatSatMO.cc:219-226`). The models take objectives whose coefficients
  have no common factor; `min: +3 x3 +3 x2` as second objective is enough for
  `parus` to miss a point.
* `recycleLowerBoundSet` of the sequential `HittingSetsMO` returns at the first
  Undef and leaves the other candidates untested; it sets no budget, so that the
  solver never answers Undef there.
* `ParPMinimalMO` prints "new optimal solution" (line 235) when a descent ends.
  The point is optimal with respect to what the worker's solver can still find: if
  a better solution was pulled during the descent, it is that one which made the
  region unsatisfiable, and the point is not optimal. The answer is not affected
  (`AnswerIsCorrect`).
* A solution that is pushed without a pull (`consolidateSolution`) moves the
  caller's time stamp past what others have pushed before. In the core-guided
  search a worker therefore never blocks some of the first solutions of others;
  it may find points again that they dominate, which the archive rejects.
* A worker that has left a search no longer reads the clause bag, so nothing that
  is pushed later is dropped (`clean` goes by the slowest reader).
* With the encoding `GTE` the map from literals to objectives is not filled
  (`Alg_ParallelMO.cc:613` is for `KPA` only), so `extendUL` sees no objective in a
  core; `ParUnsatSat` models the encoding `KPA`.
* `evalToIndex(size_t, uint64_t *, uint64_t *)` (`Alg_ParallelMO.cc:819-820`) looks
  at one key past the end when the value is at least the last one.
* `insertAndPrune` is implemented by the stack only; the other waiting lists throw
  (`waiting_list.h:50-53`).
* A learnt clause over variables above the receiver's cutoff is dropped for good:
  the bag counts it as read.
* A resumed drill that is UNSAT at once leaves its node in `mem`, and nobody
  switches the variables of that slide off.
* The handler of SIGINT tries to lock the archive's mutex; on the thread that
  holds it this is undefined for `std::mutex`.

## 9. What is not modelled, and why

* **Conflicts.** A budget is whether Undef may happen, not how often.
* **Encodings.** The searches use values instead of literals and indexes; that the
  encoding of a bound excludes exactly the points above it is assumed (external to
  these models until part 5 of the plan). Approximate modes (`epsilon` above 1)
  are left out: the answer is then no longer the Pareto front.
* **Orders of the waiting lists** and the retries that the priority queue counts:
  every order is allowed.
* **Cutoffs of shared clauses**: a clause that is dropped is one the receiver does
  not gain, which is among the choices of `ShareClauses`.
* **The parallel server of slide and drill** and how conflict shunts divide the
  budget between `upper` and `lower`: `Portfolio` has shunts with one
  approximation, of which it leaves the budgets open.
* **How a sequential member searches**: `Portfolio` keeps what others can see of
  it. Of the some twenty sequential algorithms, those that a portfolio can have
  are modelled that far; the others are variants for one thread (stratified, MSU3,
  epsilon), in which nothing is concurrent.
* **Signals** on a thread's own stack: the reader of the archive is a thread.
* **Local search** (`Alg_BLS`, `Alg_Naive`): randomised, with a time limit, no
  claim of completeness. **MaxSAT algorithms** (`Alg_WBO`, `Alg_OLL`, ...): no
  multi-objective search uses them. **Parsers, partitioning, output, statistics**:
  sequential data processing. **SAT solvers** (glucose, minisat): vendored.
  **sat4j**: a separate Java program. `SharedSolutionsVector`: created nowhere.
