----------------------------- MODULE ParSlideDrill -----------------------------
(***************************************************************************)
(* ParSlideDrillMO: a worker takes a point from the waiting list, drills   *)
(* (looks for a solution in the region that dominates the point) and, if   *)
(* it finds one, slides: it enumerates solutions there that are            *)
(* incomparable to those of the slide, each of which becomes a point to    *)
(* drill from.  The solutions of an unfinished slide are avoided by means  *)
(* of slide variables, which a log of updates carries to all the solvers:  *)
(* a definition holds as long as its variable is assumed false, and is     *)
(* switched off when the slide is finished.                                *)
(*                                                                         *)
(* What the solvers exclude and share with each other is in ParallelMO.    *)
(***************************************************************************)
EXTENDS ParallelMO, Sequences

CONSTANT Main     \* the worker that finds the first solution

ASSUME MainAssumption == Main \in Worker

VARIABLES
    pc,            \* [Worker -> what the thread does next]
    marker,        \* [Worker -> the point it drills and slides from]
    found,         \* [Worker -> the point of its last model]
    assumed,       \* [Worker -> the slide variables its assumptions negate]
    batch,         \* [Worker -> the points of its slide, not inserted yet]
    requeue,       \* [Worker -> the budget ran out: its marker goes back]
    mem,           \* [YPoint -> the variables of the unfinished slide from a point]
    definition,    \* the points of the slide variables, numbered from 1
    sharedUpdates, \* the log of updates
    nextUpdate,    \* [Worker -> how many of them its solver has installed]
    pending,       \* the waiting list
    seen,          \* the points that were ever inserted
    active,        \* atomic: workers that process a point
    first          \* the first solution, once there is one

vars == <<mode, feasible, excluded, exported, solutions, front, unread, pc, marker, found,
          assumed, batch, requeue, mem, definition, sharedUpdates, nextUpdate, pending,
          seen, active, first, answerType>>

sharing == <<excluded, exported, solutions, front, unread>>
slides == <<mem, definition, sharedUpdates, nextUpdate>>
list == <<pending, seen, active>>
locals == <<marker, found, assumed, batch, requeue>>

Top == [o \in Obj |-> MaxValue]

Drilling == {"apply", "share", "drill", "applyDrill", "clausesDrill", "solveDrill"}
Sliding == {"publish", "applySlide", "clausesSlide", "solveSlide"}
Closing == {"finalize", "applyDone", "shareDone", "insert", "erase", "leave"}
Busy == Drilling \cup Sliding \cup Closing

Variable == DOMAIN definition

Update == [final : BOOLEAN, var : Nat]

TypeOK ==
    /\ SharedTypeOK
    /\ pc \in [Worker -> {"start", "pop", "done"} \cup Busy]
    /\ marker \in [Worker -> YPoint]
    /\ found \in [Worker -> YPoint]
    /\ assumed \in [Worker -> SUBSET Variable]
    /\ batch \in [Worker -> SUBSET YPoint]
    /\ requeue \in [Worker -> BOOLEAN]
    /\ mem \in [YPoint -> SUBSET Variable]
    /\ definition \in Seq(YPoint)
    /\ sharedUpdates \in Seq(Update)
    /\ nextUpdate \in [Worker -> Nat]
    /\ pending \in SUBSET YPoint
    /\ seen \in SUBSET YPoint
    /\ active \in Nat
    /\ first \in SUBSET YPoint

Init ==
    /\ mode \in Modes
    /\ feasible \in Problem
    /\ excluded = [w \in Worker |-> {}]
    /\ exported = {}
    /\ solutions = [w \in Worker |-> {}]
    /\ Archive!Init
    /\ pc = [w \in Worker |-> "start"]
    /\ marker = [w \in Worker |-> Top]
    /\ found = [w \in Worker |-> Top]
    /\ assumed = [w \in Worker |-> {}]
    /\ batch = [w \in Worker |-> {}]
    /\ requeue = [w \in Worker |-> FALSE]
    /\ mem = [p \in YPoint |-> {}]
    /\ definition = <<>>
    /\ sharedUpdates = <<>>
    /\ nextUpdate = [w \in Worker |-> 0]
    /\ pending = {}
    /\ seen = {}
    /\ active = 0
    /\ first = {}
    /\ answerType = "unknown"

-----------------------------------------------------------------------------
Goto(w, label) == pc' = [pc EXCEPT ![w] = label]

\* search_MO: the main worker's first solution is blocked in every solver, and
\* the point that everything dominates is inserted.
Start ==
    /\ \A w \in Worker : pc[w] = "start"
    /\ \E p \in feasible :
          /\ first' = {p}
          /\ excluded' = [w \in Worker |-> excluded[w] \cup DominatedRegion(p)]
    /\ pending' = {Top}
    /\ seen' = {Top}
    /\ pc' = [w \in Worker |-> "pop"]
    /\ UNCHANGED <<mode, feasible, exported, solutions, front, unread, locals, slides, active,
                   answerType>>

NoFirstSolution ==
    /\ \A w \in Worker : pc[w] = "start"
    /\ feasible = {}
    /\ pc' = [w \in Worker |-> "done"]
    /\ answerType' = "unsatisfiable"
    /\ UNCHANGED <<mode, feasible, sharing, locals, slides, list, first>>

-----------------------------------------------------------------------------
\* Mutant: the counter is not incremented.
PopQuietly(w) ==
    /\ pc[w] = "pop"
    /\ \E q \in pending :
          /\ pending' = pending \ {q}
          /\ marker' = [marker EXCEPT ![w] = q]
    /\ requeue' = [requeue EXCEPT ![w] = FALSE]
    /\ Goto(w, "apply")
    /\ UNCHANGED <<mode, feasible, sharing, found, assumed, batch, slides, seen, active,
                   first, answerType>>

\* try_pop: which point comes first depends on the kind of waiting list.
Pop(w) ==
    /\ pc[w] = "pop"
    /\ \E q \in pending :
          /\ pending' = pending \ {q}
          /\ marker' = [marker EXCEPT ![w] = q]
    /\ active' = active + 1
    /\ requeue' = [requeue EXCEPT ![w] = FALSE]
    /\ Goto(w, "apply")
    /\ UNCHANGED <<mode, feasible, sharing, found, assumed, batch, slides, seen, first,
                   answerType>>

Finish(w) ==
    /\ pc[w] = "pop"
    /\ pending = {}
    /\ active = 0
    /\ Goto(w, "done")
    /\ UNCHANGED <<mode, feasible, sharing, locals, slides, list, first, answerType>>

\* Mutant: the solutions that others found are not pulled before a drill.
AfterWithoutPull(label) == CASE label = "apply"        -> "drill"
                             [] label = "applyDrill"   -> "clausesDrill"
                             [] label = "clausesDrill" -> "solveDrill"
                             [] label = "applySlide"   -> "clausesSlide"
                             [] label = "clausesSlide" -> "solveSlide"
                             [] label = "applyDone"    -> "shareDone"
                             [] label = "shareDone"    -> "insert"

\* One step of a worker after another: applyUpdates, shareClauses and
\* shareSolutions are called on the way to a drill, in a slide and after it.
After(label) == CASE label = "apply"        -> "share"
                  [] label = "share"        -> "drill"
                  [] label = "applyDrill"   -> "clausesDrill"
                  [] label = "clausesDrill" -> "solveDrill"
                  [] label = "applySlide"   -> "clausesSlide"
                  [] label = "clausesSlide" -> "solveSlide"
                  [] label = "applyDone"    -> "shareDone"
                  [] label = "shareDone"    -> "insert"

\* applyUpdates: what the log has got since, definitions and finalizations.
ApplyUpdates(w) ==
    /\ pc[w] \in {"apply", "applyDrill", "applySlide", "applyDone"}
    /\ nextUpdate' = [nextUpdate EXCEPT ![w] = Len(sharedUpdates)]
    /\ Goto(w, After(pc[w]))
    /\ UNCHANGED <<mode, feasible, sharing, locals, mem, definition, sharedUpdates, list,
                   first, answerType>>

Clauses(w) ==
    /\ pc[w] \in {"clausesDrill", "clausesSlide"}
    /\ ShareClauses(w)
    /\ Goto(w, After(pc[w]))
    /\ UNCHANGED <<mode, feasible, solutions, front, unread, locals, slides, list, first,
                   answerType>>

Solutions(w) ==
    /\ pc[w] \in {"share", "shareDone"}
    /\ ShareSolutions(w)
    /\ Goto(w, After(pc[w]))
    /\ UNCHANGED <<mode, feasible, exported, locals, slides, list, first, answerType>>

-----------------------------------------------------------------------------
Installed(w) == {sharedUpdates[i].var : i \in 1 .. nextUpdate[w]}

Finalized(w) ==
    {sharedUpdates[i].var : i \in {j \in 1 .. nextUpdate[w] : sharedUpdates[j].final}}

\* asssumeIncomparableRegion: the points that a slide variable's clause, and a
\* unit clause for the variable, leave to a solver that assumes it false.
Incomparable(w, v) ==
    {p \in YPoint : /\ v \notin Finalized(w)
                    /\ v \in Installed(w) => ~ dominates(p, definition[v])}

\* What w's solver can find under its assumptions.
Candidates(w) ==
    {p \in Open(w) : /\ dominates(p, marker[w])
                     /\ \A v \in assumed[w] : p \in Incomparable(w, v)}

\* Mutant: the assumptions are not cleared.
DrillWithOldAssumptions(w) ==
    /\ pc[w] = "drill"
    /\ assumed' = [assumed EXCEPT ![w] = @ \cup mem[marker[w]]]
    /\ Goto(w, "applyDrill")
    /\ UNCHANGED <<mode, feasible, sharing, marker, found, batch, requeue, slides, list,
                   first, answerType>>

\* drillFromPoint takes up the unfinished slide from the point, if there is one.
Drill(w) ==
    /\ pc[w] = "drill"
    /\ assumed' = [assumed EXCEPT ![w] = mem[marker[w]]]
    /\ Goto(w, "applyDrill")
    /\ UNCHANGED <<mode, feasible, sharing, marker, found, batch, requeue, slides, list,
                   first, answerType>>

\* solve is SAT: the point of the model is the slide's next.
Solve(w) ==
    /\ pc[w] \in {"solveDrill", "solveSlide"}
    /\ \E p \in Candidates(w) : found' = [found EXCEPT ![w] = p]
    /\ Goto(w, "publish")
    /\ UNCHANGED <<mode, feasible, sharing, marker, assumed, batch, requeue, slides, list,
                   first, answerType>>

\* solve is UNSAT: nothing to drill for, or the slide is complete.
Exhausted(w) ==
    /\ pc[w] \in {"solveDrill", "solveSlide"}
    /\ Candidates(w) = {}
    /\ Goto(w, IF pc[w] = "solveDrill" THEN "leave" ELSE "finalize")
    /\ UNCHANGED <<mode, feasible, sharing, locals, slides, list, first, answerType>>

\* Mutant: a slide that ran out of conflicts is finalized.
OutOfBudgetFinalizes(w) ==
    /\ pc[w] \in {"solveDrill", "solveSlide"}
    /\ mode.budget
    /\ requeue' = [requeue EXCEPT ![w] = TRUE]
    /\ Goto(w, IF pc[w] = "solveDrill" THEN "leave" ELSE "finalize")
    /\ UNCHANGED <<mode, feasible, sharing, marker, found, assumed, batch, slides, list,
                   first, answerType>>

\* solve runs out of conflicts: the point goes back; a slide is shared first.
OutOfBudget(w) ==
    /\ pc[w] \in {"solveDrill", "solveSlide"}
    /\ mode.budget
    /\ requeue' = [requeue EXCEPT ![w] = TRUE]
    /\ Goto(w, IF pc[w] = "solveDrill" THEN "leave" ELSE "shareDone")
    /\ UNCHANGED <<mode, feasible, sharing, marker, found, assumed, batch, slides, list,
                   first, answerType>>

-----------------------------------------------------------------------------
\* The body of the slide's loop: publishDefinition, the node's deps, the batch,
\* blockStep and the new assumption, if the model gets into the local front.
Publish(w) ==
    LET p == found[w]
        v == Len(definition) + 1
    IN  /\ pc[w] = "publish"
        /\ IF Covers(solutions[w], p)
           THEN UNCHANGED <<solutions, excluded, definition, sharedUpdates, mem, assumed, batch>>
           ELSE /\ solutions' = [solutions EXCEPT ![w] =
                                   {q \in @ : ~ dominates(p, q)} \cup {p}]
                /\ excluded' = [excluded EXCEPT ![w] = @ \cup DominatedRegion(p)]
                /\ definition' = Append(definition, p)
                /\ sharedUpdates' = Append(sharedUpdates, [final |-> FALSE, var |-> v])
                /\ mem' = [mem EXCEPT ![marker[w]] = @ \cup {v}]
                /\ assumed' = [assumed EXCEPT ![w] = @ \cup {v}]
                /\ batch' = [batch EXCEPT ![w] = @ \cup {p}]
        /\ Goto(w, "applySlide")
        /\ UNCHANGED <<mode, feasible, exported, front, unread, marker, found, requeue,
                       nextUpdate, list, first, answerType>>

\* The deps of w's slide that publishFinalization has still to switch off.
ToFinalize(w) ==
    {v \in mem[marker[w]] :
        \A i \in DOMAIN sharedUpdates : sharedUpdates[i] # [final |-> TRUE, var |-> v]}

\* A finished slide: its variables are switched off one after another.
Finalize(w) ==
    /\ pc[w] = "finalize"
    /\ \E v \in ToFinalize(w) :
          sharedUpdates' = Append(sharedUpdates, [final |-> TRUE, var |-> v])
    /\ UNCHANGED <<mode, feasible, sharing, pc, locals, mem, definition, nextUpdate, list,
                   first, answerType>>

EndFinalize(w) ==
    /\ pc[w] = "finalize"
    /\ ToFinalize(w) = {}
    /\ Goto(w, "applyDone")
    /\ UNCHANGED <<mode, feasible, sharing, locals, slides, list, first, answerType>>

\* Mutant: a point that was seen before is inserted again.
InsertAgain(w) ==
    /\ pc[w] = "insert"
    /\ pending' = pending \cup batch[w]
    /\ seen' = seen \cup batch[w]
    /\ batch' = [batch EXCEPT ![w] = {}]
    /\ Goto(w, IF requeue[w] THEN "leave" ELSE "erase")
    /\ UNCHANGED <<mode, feasible, sharing, marker, found, assumed, requeue, slides, active,
                   first, answerType>>

\* insert: the list ignores a point that it has seen.
Insert(w) ==
    /\ pc[w] = "insert"
    /\ pending' = pending \cup (batch[w] \ seen)
    /\ seen' = seen \cup batch[w]
    /\ batch' = [batch EXCEPT ![w] = {}]
    /\ Goto(w, IF requeue[w] THEN "leave" ELSE "erase")
    /\ UNCHANGED <<mode, feasible, sharing, marker, found, assumed, requeue, slides, active,
                   first, answerType>>

Erase(w) ==
    /\ pc[w] = "erase"
    /\ mem' = [mem EXCEPT ![marker[w]] = {}]
    /\ Goto(w, "leave")
    /\ UNCHANGED <<mode, feasible, sharing, locals, definition, sharedUpdates, nextUpdate,
                   list, first, answerType>>

\* Mutant: the counter is not decremented.
LeaveBusy(w) ==
    /\ pc[w] = "leave"
    /\ pending' = IF requeue[w] THEN pending \cup {marker[w]} ELSE pending
    /\ Goto(w, "pop")
    /\ UNCHANGED <<mode, feasible, sharing, locals, slides, seen, active, first, answerType>>

\* requeue, whether seen or not, and active.fetch_sub in one critical section.
Leave(w) ==
    /\ pc[w] = "leave"
    /\ pending' = IF requeue[w] THEN pending \cup {marker[w]} ELSE pending
    /\ active' = active - 1
    /\ Goto(w, "pop")
    /\ UNCHANGED <<mode, feasible, sharing, locals, slides, seen, first, answerType>>

-----------------------------------------------------------------------------
\* Mutant: the first solution is forgotten.
AnswerWithoutFirst ==
    /\ \A w \in Worker : pc[w] = "done"
    /\ answerType = "unknown"
    /\ Archive!Sync(Main, {})
    /\ answerType' = "optimum"
    /\ UNCHANGED <<mode, feasible, excluded, exported, solutions, pc, locals, slides, list,
                   first>>

\* The main thread, when all have left: consolidateSolution archives the first
\* solution, which only the main worker has.
Answer ==
    /\ \A w \in Worker : pc[w] = "done"
    /\ answerType = "unknown"
    /\ Archive!Sync(Main, first)
    /\ answerType' = "optimum"
    /\ UNCHANGED <<mode, feasible, excluded, exported, solutions, pc, locals, slides, list,
                   first>>

Step(w) ==
    \/ Pop(w) \/ Finish(w)
    \/ ApplyUpdates(w) \/ Clauses(w) \/ Solutions(w)
    \/ Drill(w) \/ Solve(w) \/ Exhausted(w) \/ OutOfBudget(w)
    \/ Publish(w) \/ Finalize(w) \/ EndFinalize(w) \/ Insert(w) \/ Erase(w) \/ Leave(w)

Next == Start \/ NoFirstSolution \/ Answer \/ \E w \in Worker : Step(w)

Spec == Init /\ [][Next]_vars

\* Every thread is scheduled, and every call of a SAT solver returns.
Fairness ==
    /\ WF_vars(Start) /\ WF_vars(NoFirstSolution) /\ WF_vars(Answer)
    /\ \A w \in Worker : WF_vars(Step(w))

FairSpec == Spec /\ Fairness

-----------------------------------------------------------------------------
\* A worker whose marker's region is still to be searched.
Exploring(w) ==
    \/ pc[w] \in Drilling \cup Sliding
    \/ requeue[w] /\ pc[w] \in Closing

\* What is found but neither archived nor local: the first solution.
Known == Stored \cup first

(***************************************************************************)
(* No region is lost: a solution that nothing known is as good as, in the  *)
(* region of a point that was ever found, is in the region of a point at   *)
(* most as large that somebody has still to drill from, whichever worker   *)
(* found, shared or finished what (searchBoundHonerMO and slide).          *)
(***************************************************************************)
NoRegionIsLost ==
    LET alive == pending \cup {marker[w] : w \in {v \in Worker : Exploring(v)}}
                         \cup UNION {batch[w] : w \in Worker}
    IN  \A p \in {x \in feasible : ~ Covers(Known, x)} :
            \A q \in seen \cup UNION {batch[w] : w \in Worker} :
                dominates(p, q) => \E r \in alive : dominates(p, r) /\ dominates(r, q)

(***************************************************************************)
(* "A point is published only after its solution is shared": whoever       *)
(* drills from a point has the point itself blocked, so that a drill only  *)
(* finds strictly better solutions.                                        *)
(***************************************************************************)
DrillsAreStrict ==
    \A w \in Worker :
        /\ pc[w] \in {"drill", "applyDrill", "clausesDrill", "solveDrill"} \cup Sliding
        /\ marker[w] \in feasible
        => marker[w] \in excluded[w]

(***************************************************************************)
(* A slide variable that a solver is about to be called with is installed  *)
(* in it, and nobody has switched it off: a solver under a negated         *)
(* variable that is switched off is UNSAT whatever is left to find.        *)
(***************************************************************************)
AssumedVariablesAreOpen ==
    \A w \in Worker :
        pc[w] \in {"clausesDrill", "solveDrill", "clausesSlide", "solveSlide"} =>
            /\ assumed[w] \subseteq Installed(w)
            /\ \A i \in DOMAIN sharedUpdates :
                  sharedUpdates[i].final => sharedUpdates[i].var \notin assumed[w]

(***************************************************************************)
(* No two workers process the same point, and none that is pending: the    *)
(* node of a slide is read and written outside of the critical section.    *)
(***************************************************************************)
OneSlidePerPoint ==
    \A w, v \in Worker :
        pc[w] \in Busy =>
            /\ marker[w] \notin pending
            /\ pc[v] \in Busy /\ marker[v] = marker[w] => v = w

-----------------------------------------------------------------------------
\* The points of slides that are not inserted yet.
Batched == UNION {batch[w] : w \in Worker}

\* When what is found but neither shared nor inserted is there at all.
Unshared == Sliding \cup {"finalize", "applyDone", "shareDone"}

\* The rounds: nobody works before the first solution or after the last region.
PhaseInv ==
    /\ \A w \in Worker : pc[w] = "start" =>
          /\ \A v \in Worker : pc[v] = "start"
          /\ pending = {} /\ seen = {} /\ first = {}
    /\ \A w \in Worker : pc[w] = "done" => pending = {} /\ \A v \in Worker : pc[v] \notin Busy
    /\ active = Cardinality({w \in Worker : pc[w] \in Busy})
    /\ \A w \in Worker : pc[w] # "start" /\ answerType # "unsatisfiable" => Top \in seen /\ first # {}
    /\ answerType # "unknown" => \A w \in Worker : pc[w] = "done"
    /\ first = {} \/ \E p \in feasible : first = {p}

\* What a worker has found: a local front, and points to insert that it covers.
LocalInv ==
    \A w \in Worker :
        /\ solutions[w] # {} => pc[w] \in Unshared
        /\ batch[w] # {} => pc[w] \in Unshared \cup {"insert"}
        /\ requeue[w] => pc[w] \in {"shareDone", "insert", "leave", "pop", "done"}
        /\ IsAntichain(solutions[w])
        /\ \A p \in batch[w] : p \in feasible /\ Covers(front \cup solutions[w], p)

\* What the solvers exclude, and whose regions they certainly do.
BlockedInv ==
    \A w \in Worker :
        /\ \A p \in excluded[w] \cup exported : Covers(Known, p)
        /\ answerType = "unknown" =>
              DominatedBy((front \ unread[w]) \cup solutions[w] \cup first) \subseteq excluded[w]

\* The points of the list: known to all who look for better ones, and distinct.
ListInv ==
    /\ pending \subseteq seen
    /\ \A q \in seen \cap feasible : (\A w \in Worker : q \in excluded[w]) \/ Covers(front, q)
    /\ \A w \in Worker : pc[w] \in Busy => marker[w] \in seen
    /\ OneSlidePerPoint

\* A model is new, and better than the point that the worker drilled from.
FoundInv ==
    \A w \in Worker : pc[w] = "publish" =>
        /\ found[w] \in Open(w)
        /\ dominates(found[w], marker[w]) /\ found[w] # marker[w]

\* The variables of a slide: defined by better points that are to be inserted, and
\* assumed by whoever resumes it.
MemInv ==
    /\ \A m \in YPoint : \A v \in mem[m] :
          /\ dominates(definition[v], m) /\ definition[v] # m
          /\ definition[v] \in seen \cup Batched
    /\ LET unfinished == {m \in YPoint : mem[m] # {}}
       IN  \A m, n \in unfinished : m # n => mem[m] \cap mem[n] = {}
    /\ \A w \in Worker :
          pc[w] \in {"applyDrill", "clausesDrill", "solveDrill"} \cup Sliding =>
              assumed[w] = mem[marker[w]]

\* Whose slide may be half switched off: a worker that has completed it.
Completing(w) == pc[w] \in {"finalize", "applyDone", "shareDone", "insert", "erase"} /\ ~ requeue[w]

\* The log: every variable is defined in it, and only those of complete slides
\* are switched off.
LogInv ==
    /\ \A i \in DOMAIN sharedUpdates : sharedUpdates[i].var \in Variable
    /\ \A v \in Variable : \E i \in DOMAIN sharedUpdates : sharedUpdates[i].var = v
    /\ \A w \in Worker : nextUpdate[w] <= Len(sharedUpdates)
    /\ \A m \in YPoint : \A i \in DOMAIN sharedUpdates :
          sharedUpdates[i].final /\ sharedUpdates[i].var \in mem[m] =>
              \E w \in Worker : Completing(w) /\ marker[w] = m

\* NoRegionIsLost without the points that are to be inserted a second time.
RegionInv ==
    LET alive == pending \cup {marker[w] : w \in {v \in Worker : Exploring(v)}}
                         \cup (Batched \ seen)
    IN  \A p \in {x \in feasible : ~ Covers(Known, x)} : \A q \in seen \cup Batched :
            dominates(p, q) => \E r \in alive : dominates(p, r) /\ dominates(r, q)

\* The inductive invariant.
IInv ==
    /\ TypeOK
    /\ StoredInv
    /\ PhaseInv
    /\ LocalInv
    /\ BlockedInv
    /\ ListInv
    /\ FoundInv
    /\ DrillsAreStrict
    /\ MemInv
    /\ LogInv
    /\ AssumedVariablesAreOpen
    /\ RegionInv
    /\ AnswerIsCorrect

\* The search ends (without a conflict budget).
Terminates == ~ mode.budget => <>(answerType # "unknown")
=============================================================================
