-------------------------- MODULE ParPMinimal_proofs --------------------------
(***************************************************************************)
(* Proofs about ParPMinimal, for every number of workers, every set of     *)
(* solutions and every set of literals: no worker stops before everything  *)
(* is found, and the search answers with the Pareto front.                 *)
(***************************************************************************)
EXTENDS ParPMinimal, Pareto_proofs

(***************************************************************************)
(* What an exchange of w with the shared archive does to the archive and   *)
(* to what the workers have still to read (see Synchronised).              *)
(***************************************************************************)
LEMMA SyncFacts ==
    ASSUME SharedTypeOK, NEW w \in Worker, NEW S \in SUBSET YPoint, Archive!Sync(w, S)
    PROVE  /\ front' \in SUBSET YPoint
           /\ unread' \in [Worker -> SUBSET YPoint]
           /\ front' \subseteq front \cup S
           /\ \A p \in YPoint : Covers(front \cup S, p) => Covers(front', p)
           /\ IsAntichain(front) /\ IsAntichain(S) => IsAntichain(front')
           /\ (\A v \in Worker : unread[v] \subseteq front)
                 => \A v \in Worker : unread'[v] \subseteq front'
           /\ \A v \in Worker \ {w} : front' \ unread'[v] \subseteq front \ unread[v]
           /\ front' \ unread'[w] \subseteq (front \ unread[w]) \cup unread[w] \cup S
<1>1. /\ Archive!New(S) = Joining(front, S)
      /\ Archive!Beaten(S) = Dropped(front, S)
  BY DEF Joining, Dropped, Archive!New, Archive!Beaten, Archive!Covers, Archive!dominates,
         Covers, dominates
<1>2. /\ front' = Joined(front, S)
      /\ unread' = StillUnread(Worker, unread, w, front, S)
  BY <1>1 DEF Archive!Sync, Joined, StillUnread
<1>3. front \in SUBSET YPoint /\ unread \in [Worker -> SUBSET YPoint]
  BY DEF SharedTypeOK
<1> QED
  BY <1>2, <1>3, JoinFacts, Synchronised

(***************************************************************************)
(* Pushing moves the local front of a worker into the archive: nothing     *)
(* that was covered by a stored solution is uncovered by it.               *)
(***************************************************************************)
LEMMA PushKeeps ==
    ASSUME SharedTypeOK, StoredInv, NEW w \in Worker, IsAntichain(solutions[w]),
           Archive!Sync(w, solutions[w]), solutions' = [solutions EXCEPT ![w] = {}]
    PROVE  /\ \A p \in YPoint : Covers(Stored, p) => Covers(Stored', p)
           /\ Stored' \subseteq Stored
           /\ IsAntichain(front')
           /\ \A v \in Worker : unread'[v] \subseteq front'
<1>1. /\ Archive!Sync(w, solutions[w])
      /\ solutions' = [solutions EXCEPT ![w] = {}]
      /\ solutions \in [Worker -> SUBSET YPoint] /\ front \in SUBSET YPoint
  BY DEF SharedTypeOK
<1>2. /\ front' \in SUBSET (front \cup solutions[w])
      /\ \A p \in YPoint : Covers(front \cup solutions[w], p) => Covers(front', p)
      /\ IsAntichain(front')
      /\ \A v \in Worker : unread'[v] \subseteq front'
  BY <1>1, SyncFacts DEF StoredInv
<1>3. /\ Stored = Together(Worker, front, solutions)
      /\ Stored' = Together(Worker, front', [solutions EXCEPT ![w] = {}])
  BY <1>1 DEF Stored, Together
<1> QED
  BY <1>1, <1>2, <1>3, Moved

(***************************************************************************)
(* An archive of points of solutions that covers all of them, and in which *)
(* no point beats another, is the Pareto front.                            *)
(***************************************************************************)
LEMMA CompleteFront ==
    ASSUME SharedTypeOK, StoredInv, \A p \in feasible : Covers(front, p)
    PROVE  front = NonDominated(feasible)
<1>1. front \in SUBSET feasible /\ IsAntichain(front) /\ feasible \in SUBSET YPoint
  BY ParallelAssumption DEF SharedTypeOK, StoredInv, Stored
<1> QED
  BY <1>1, FrontOf

\* The labels of a worker's steps, which the proofs tell apart.
Label == {"encode", "done"} \cup Starting \cup Found \cup Descending \cup Leaving

(***************************************************************************)
(* What is blocked for points or pulled from others is made of points.     *)
(***************************************************************************)
LEMMA Points ==
    ASSUME TypeOK
    PROVE  /\ feasible \subseteq YPoint
           /\ \A S : DominatedBy(S) \subseteq feasible
BY ParallelAssumption DEF TypeOK, SharedTypeOK, DominatedBy

(***************************************************************************)
(* Every step keeps the types.                                             *)
(***************************************************************************)
LEMMA TypeNext ==
    ASSUME TypeOK, Next
    PROVE  TypeOK'
<1> USE DEF TypeOK, SharedTypeOK, Starting, Found, Descending, Leaving
<1>1. CASE Encode
  BY <1>1 DEF Encode, start
<1>2. CASE Answer
  BY <1>2 DEF Answer, start
<1>3. ASSUME NEW w \in Worker, Step(w)
      PROVE  TypeOK'
  <2>1. CASE Clauses(w)
    <3>1. exported' \in SUBSET YPoint /\ excluded' \in [Worker -> SUBSET YPoint]
      BY <2>1 DEF Clauses, ShareClauses
    <3>2. AfterClauses(w) \in Label
      BY <2>1 DEF Clauses, AfterClauses, Label
    <3> QED
      BY <2>1, <3>1, <3>2 DEF Clauses, Goto, Label, start
  <2>2. CASE Shrink(w) \/ Sample(w) \/ StartUnsat(w)
    BY <2>2 DEF Shrink, Sample, StartUnsat, Goto, start
  <2>3. CASE SolveSat(w)
    <3>1. PICK p \in Open(w) : /\ best' = [best EXCEPT ![w] = {p}]
                               /\ solutions' = [solutions EXCEPT ![w] = {p}]
      BY <2>3 DEF SolveSat
    <3>2. p \in YPoint
      BY Points DEF Open
    <3> QED
      BY <2>3, <3>1, <3>2 DEF SolveSat, Goto, start
  <2>4. CASE RegionUnsat(w)
    <3>1. DominatedBy(best[w]) \subseteq YPoint
      BY Points
    <3> QED
      BY <2>4, <3>1 DEF RegionUnsat, Goto, start
  <2>5. CASE SolveUnsat(w) \/ SolveUndef(w)
    BY <2>5 DEF SolveUnsat, SolveUndef, Goto, start
  <2>6. ASSUME NEW S, DominatedBy(S) \subseteq YPoint, Archive!Sync(w, solutions[w])
        PROVE  /\ front' \in SUBSET YPoint
               /\ unread' \in [Worker -> SUBSET YPoint]
               /\ [excluded EXCEPT ![w] = @ \cup DominatedBy(S)] \in [Worker -> SUBSET YPoint]
    BY <2>6, SyncFacts
  <2>7. CASE SolutionsModel(w)
    <3>1. DominatedBy(unread[w] \cup best[w]) \subseteq YPoint
      BY Points
    <3> QED
      BY <2>6, <2>7, <3>1 DEF SolutionsModel, Goto, start
  <2>8. CASE Solutions(w)
    <3>1. DominatedBy(unread[w]) \subseteq YPoint
      BY Points
    <3> QED
      BY <2>6, <2>8, <3>1 DEF Solutions, ShareSolutions, Goto, start
  <2> QED
    BY <1>3, <2>1, <2>2, <2>3, <2>4, <2>5, <2>7, <2>8 DEF Step
<1> QED
  BY <1>1, <1>2, <1>3 DEF Next

-----------------------------------------------------------------------------
(***************************************************************************)
(* Where something is in the local front, it is the worker's best solution *)
(* alone, so that the front is an antichain.                               *)
(***************************************************************************)
LEMMA LocalFronts ==
    ASSUME TypeOK, LocalInv
    PROVE  \A w \in Worker : IsAntichain(solutions[w])
<1>1. \A w \in Worker : solutions[w] = {} \/ \E p \in feasible : solutions[w] = {p}
  BY DEF LocalInv
<1> QED
  BY <1>1 DEF IsAntichain

(***************************************************************************)
(* The two kinds of shareSolutions push the local front, pull what is new, *)
(* and exclude what it and the worker's own model dominate.                *)
(***************************************************************************)
LEMMA Shares ==
    ASSUME TypeOK, LocalInv, StoredInv, NEW w \in Worker, SolutionsModel(w) \/ Solutions(w)
    PROVE  /\ Archive!Sync(w, solutions[w])
           /\ solutions' = [solutions EXCEPT ![w] = {}]
           /\ excluded' = [excluded EXCEPT ![w] = @ \cup DominatedBy(unread[w] \cup solutions[w])]
           /\ feasible' = feasible /\ exported' = exported
           /\ \A p \in YPoint : Covers(Stored, p) => Covers(Stored', p)
           /\ StoredInv'
<1>1. CASE SolutionsModel(w)
  <2>1. solutions[w] = best[w]
    BY <1>1 DEF SolutionsModel, LocalInv, Found
  <2> QED
    BY <1>1, <2>1, PushKeeps, LocalFronts DEF SolutionsModel, StoredInv, TypeOK
<1>2. CASE Solutions(w)
  <2>1. solutions[w] = {}
    BY <1>2 DEF Solutions, LocalInv, Found
  <2> QED
    BY <1>2, <2>1, PushKeeps, LocalFronts DEF Solutions, ShareSolutions, StoredInv, TypeOK
<1> QED
  BY <1>1, <1>2

(***************************************************************************)
(* Every step keeps the archive's shape, and covers what was covered.      *)
(***************************************************************************)
LEMMA StoredNext ==
    ASSUME TypeOK, LocalInv, StoredInv, Next
    PROVE  /\ StoredInv'
           /\ \A p \in YPoint : Covers(Stored, p) => Covers(Stored', p)
           /\ feasible' = feasible
<1>1. ASSUME UNCHANGED <<feasible, solutions, front, unread>>
      PROVE  /\ StoredInv'
             /\ \A p \in YPoint : Covers(Stored, p) => Covers(Stored', p)
  <2>1. Stored' = Stored
    BY <1>1 DEF Stored
  <2> QED
    BY <1>1, <2>1 DEF StoredInv
<1>2. CASE Encode \/ Answer
  BY <1>1, <1>2 DEF Encode, Answer
<1>3. ASSUME NEW w \in Worker, Step(w)
      PROVE  /\ StoredInv'
             /\ \A p \in YPoint : Covers(Stored, p) => Covers(Stored', p)
             /\ feasible' = feasible
  <2>1. CASE SolveSat(w)
    <3>1. PICK p \in Open(w) : solutions' = [solutions EXCEPT ![w] = {p}]
      BY <2>1 DEF SolveSat
    <3>2. solutions[w] = {}
      BY <2>1 DEF SolveSat, LocalInv, Found
    <3>3. Stored' = Stored \cup {p}
      BY <2>1, <3>1, <3>2 DEF SolveSat, Stored, TypeOK, SharedTypeOK
    <3>4. p \in feasible /\ UNCHANGED <<feasible, front, unread>>
      BY <2>1 DEF SolveSat, Open
    <3> QED
      BY <3>3, <3>4 DEF StoredInv, Covers
  <2>2. CASE SolutionsModel(w) \/ Solutions(w)
    BY <2>2, Shares
  <2>3. CASE ~ SolveSat(w) /\ ~ SolutionsModel(w) /\ ~ Solutions(w)
    <3>1. UNCHANGED <<feasible, solutions, front, unread>>
      BY <1>3, <2>3 DEF Step, Clauses, Shrink, Sample, StartUnsat, RegionUnsat, SolveUnsat,
                        SolveUndef
    <3> QED
      BY <1>1, <3>1
  <2> QED
    BY <2>1, <2>2, <2>3
<1> QED
  BY <1>2, <1>3 DEF Next, Encode, Answer

(***************************************************************************)
(* What a worker takes to be excluded never becomes possible again; only   *)
(* what the shared clauses, the pulled solutions or its best one justify   *)
(* is added.                                                               *)
(***************************************************************************)
LEMMA ExcludedNext ==
    ASSUME TypeOK, LocalInv, StoredInv, Next, NEW v \in Worker
    PROVE  /\ excluded[v] \subseteq excluded'[v]
           /\ excluded'[v] \subseteq excluded[v] \cup exported \cup DominatedBy(Stored)
<1> USE DEF TypeOK, SharedTypeOK
<1>1. CASE Encode \/ Answer
  BY <1>1 DEF Encode, Answer
<1>2. ASSUME NEW w \in Worker, Step(w)
      PROVE  /\ excluded[v] \subseteq excluded'[v]
             /\ excluded'[v] \subseteq excluded[v] \cup exported \cup DominatedBy(Stored)
  <2>1. CASE Clauses(w)
    BY <2>1 DEF Clauses, ShareClauses
  <2>2. CASE RegionUnsat(w)
    <3>1. DominatedBy(best[w]) \subseteq excluded[w]
      BY <2>2 DEF RegionUnsat, LocalInv, Descending
    <3> QED
      BY <2>2, <3>1 DEF RegionUnsat
  <2>3. CASE SolutionsModel(w) \/ Solutions(w)
    <3>1. unread[w] \cup solutions[w] \subseteq Stored
      BY DEF StoredInv, Stored
    <3>2. DominatedBy(unread[w] \cup solutions[w]) \subseteq DominatedBy(Stored)
      BY <3>1 DEF DominatedBy, Covers
    <3>3. excluded' = [excluded EXCEPT ![w] = @ \cup DominatedBy(unread[w] \cup solutions[w])]
      BY <2>3, Shares
    <3> QED
      BY <3>2, <3>3
  <2>4. CASE ~ Clauses(w) /\ ~ RegionUnsat(w) /\ ~ SolutionsModel(w) /\ ~ Solutions(w)
    BY <1>2, <2>4 DEF Step, Shrink, Sample, StartUnsat, SolveSat, SolveUnsat, SolveUndef
  <2> QED
    BY <2>1, <2>2, <2>3, <2>4
<1> QED
  BY <1>1, <1>2 DEF Next

(***************************************************************************)
(* Learnt clauses and blocked regions only ever exclude what a stored      *)
(* solution is as good as.                                                 *)
(***************************************************************************)
LEMMA JustifiedNext ==
    ASSUME TypeOK, LocalInv, StoredInv, ExclusionIsJustified, Next
    PROVE  ExclusionIsJustified'
<1>1. ASSUME NEW w \in Worker, NEW p \in excluded[w] \cup exported \cup DominatedBy(Stored)
      PROVE  p \in YPoint /\ Covers(Stored, p)
  BY Points DEF ExclusionIsJustified, DominatedBy, TypeOK, SharedTypeOK
<1>2. exported' \subseteq exported \cup UNION {excluded[w] : w \in Worker}
  <2>1. ASSUME NEW w \in Worker, Step(w)
        PROVE  exported' = exported \/ exported' = exported \cup excluded[w]
    <3>1. CASE Clauses(w)
      BY <3>1 DEF Clauses, ShareClauses
    <3>2. CASE ~ Clauses(w)
      BY <2>1, <3>2 DEF Step, Shrink, Sample, StartUnsat, SolveSat, RegionUnsat, SolveUnsat,
                        SolveUndef, SolutionsModel, Solutions
    <3> QED
      BY <3>1, <3>2
  <2> QED
    BY <2>1 DEF Next, Encode, Answer
<1>3. ASSUME NEW w \in Worker, NEW p \in excluded'[w] \cup exported'
      PROVE  Covers(Stored', p)
  <2>1. p \in YPoint /\ Covers(Stored, p)
    <3>1. CASE p \in excluded'[w]
      <4>1. p \in excluded[w] \cup exported \cup DominatedBy(Stored)
        BY <3>1, ExcludedNext
      <4> QED
        BY <1>1, <4>1
    <3>2. CASE p \in exported'
      BY <1>1, <1>2, <3>2
    <3> QED
      BY <1>3, <3>1, <3>2
  <2> QED
    BY <2>1, StoredNext
<1> QED
  BY <1>3 DEF ExclusionIsJustified

(***************************************************************************)
(* Every step of a worker keeps the others' places, and takes its own to   *)
(* the next label.                                                         *)
(***************************************************************************)
LEMMA StepMoves ==
    ASSUME TypeOK, NEW w \in Worker, Step(w)
    PROVE  /\ \A v \in Worker \ {w} : pc'[v] = pc[v]
           /\ pc[w] # "done"
           /\ pc'[w] \in Found <=> SolveSat(w) \/ (Clauses(w) /\ pc[w] = "clausesModel")
           /\ pc'[w] = "done" <=> SolveUnsat(w)
           /\ pc'[w] \in Descending \cup Leaving =>
                 pc[w] \in Descending \cup Leaving \/ SolutionsModel(w)
           /\ answerType' = answerType
<1> USE DEF TypeOK, Found, Descending, Leaving
<1>1. CASE Clauses(w)
  <2>1. /\ pc' = [pc EXCEPT ![w] = AfterClauses(w)]
        /\ answerType' = answerType
    BY <1>1 DEF Clauses, Goto
  <2>2. \/ pc[w] = "clausesStart" /\ AfterClauses(w) \in {"solveStart", "shrink"}
        \/ pc[w] = "clausesModel" /\ AfterClauses(w) = "solutionsModel"
        \/ pc[w] = "clausesRegion" /\ AfterClauses(w) = "solutionsRegion"
        \/ pc[w] = "clausesOutside" /\ AfterClauses(w) = "solutionsOutside"
    BY <1>1 DEF Clauses, AfterClauses
  <2> QED
    BY <1>1, <2>1, <2>2 DEF SolveSat, SolveUnsat, SolutionsModel
<1>2. CASE Shrink(w) \/ Sample(w) \/ StartUnsat(w)
  BY <1>2 DEF Shrink, Sample, StartUnsat, Goto, Clauses, SolveSat, SolveUnsat, SolutionsModel
<1>3. CASE SolveSat(w)
  BY <1>3 DEF Goto, Clauses, SolveSat, SolveUnsat, SolutionsModel
<1>4. CASE RegionUnsat(w)
  BY <1>4 DEF RegionUnsat, Goto, Clauses, SolveSat, SolveUnsat, SolutionsModel
<1>5. CASE SolveUnsat(w)
  BY <1>5 DEF Goto, Clauses, SolveSat, SolveUnsat, SolutionsModel
<1>6. CASE SolveUndef(w)
  BY <1>6 DEF SolveUndef, Goto, Clauses, SolveSat, SolveUnsat, SolutionsModel
<1>7. CASE SolutionsModel(w) \/ Solutions(w)
  BY <1>7 DEF Solutions, Goto, Clauses, SolveSat, SolveUnsat, SolutionsModel
<1> QED
  BY <1>1, <1>2, <1>3, <1>4, <1>5, <1>6, <1>7 DEF Step

(***************************************************************************)
(* A worker's solution is in its local front until it is pushed, and its   *)
(* region is blocked from then on.                                         *)
(***************************************************************************)
LEMMA LocalNext ==
    ASSUME TypeOK, LocalInv, StoredInv, Next
    PROVE  LocalInv'
<1> USE DEF TypeOK, SharedTypeOK
<1>1. CASE Encode
  BY <1>1 DEF Encode, LocalInv, Found, Descending, Leaving
<1>2. CASE Answer
  BY <1>2 DEF Answer, LocalInv, DominatedBy
<1>3. ASSUME NEW w \in Worker, Step(w)
      PROVE  LocalInv'
  <2>1. feasible' = feasible
    BY StoredNext
  <2>2. ASSUME NEW v \in Worker \ {w}
        PROVE  /\ pc'[v] = pc[v] /\ best'[v] = best[v] /\ solutions'[v] = solutions[v]
               /\ excluded'[v] = excluded[v]
    <3>1. pc'[v] = pc[v]
      BY <1>3, StepMoves
    <3>2. best'[v] = best[v]
      BY <1>3 DEF Step, Clauses, Shrink, Sample, StartUnsat, SolveSat, RegionUnsat, SolveUnsat,
                  SolveUndef, SolutionsModel, Solutions
    <3>3. solutions'[v] = solutions[v] /\ excluded'[v] = excluded[v]
      BY <1>3 DEF Step, Clauses, ShareClauses, Shrink, Sample, StartUnsat, SolveSat,
                  RegionUnsat, SolveUnsat, SolveUndef, SolutionsModel, Solutions, ShareSolutions
    <3> QED
      BY <3>1, <3>2, <3>3
  <2>3. solutions'[w] = IF pc'[w] \in Found THEN best'[w] ELSE {}
    <3>1. CASE SolveSat(w)
      <4>1. pc'[w] \in Found
        BY <1>3, <3>1, StepMoves
      <4> QED
        BY <3>1, <4>1 DEF SolveSat
    <3>2. CASE SolutionsModel(w) \/ Solutions(w)
      <4>1. pc'[w] \notin Found
        BY <1>3, <3>2, StepMoves DEF SolveSat, Clauses, SolutionsModel, Solutions
      <4>2. solutions'[w] = {}
        BY <3>2, Shares
      <4> QED
        BY <4>1, <4>2
    <3>3. CASE Clauses(w) /\ pc[w] = "clausesModel"
      <4>1. pc[w] \in Found /\ pc'[w] \in Found
        BY <1>3, <3>3, StepMoves DEF Found
      <4> QED
        BY <3>3, <4>1 DEF Clauses, LocalInv
    <3>4. CASE ~ SolveSat(w) /\ ~ SolutionsModel(w) /\ ~ Solutions(w)
               /\ ~ (Clauses(w) /\ pc[w] = "clausesModel")
      <4>1. pc'[w] \notin Found
        BY <1>3, <3>4, StepMoves
      <4>2. pc[w] \notin Found /\ solutions' = solutions
        BY <1>3, <3>4 DEF Step, Clauses, Shrink, Sample, StartUnsat, RegionUnsat, SolveUnsat,
                          SolveUndef, Found
      <4> QED
        BY <4>1, <4>2 DEF LocalInv
    <3> QED
      BY <3>1, <3>2, <3>3, <3>4
  <2>4. ASSUME pc'[w] \in Found \cup Descending \cup Leaving
        PROVE  \E p \in feasible : best'[w] = {p}
    <3>1. CASE SolveSat(w)
      BY <3>1 DEF SolveSat, Open
    <3>2. CASE ~ SolveSat(w)
      <4>1. best' = best
        BY <1>3, <3>2 DEF Step, Clauses, Shrink, Sample, StartUnsat, RegionUnsat, SolveUnsat,
                          SolveUndef, SolutionsModel, Solutions
      <4>2. pc[w] \in Found \cup Descending \cup Leaving
        BY <1>3, <2>4, <3>2, StepMoves DEF Found, SolutionsModel
      <4> QED
        BY <4>1, <4>2 DEF LocalInv
    <3> QED
      BY <3>1, <3>2
  <2>5. ASSUME pc'[w] \in Descending \cup Leaving
        PROVE  DominatedBy(best'[w]) \subseteq excluded'[w]
    <3>1. ~ SolveSat(w)
      BY <1>3, <2>5, StepMoves DEF Found, Descending, Leaving
    <3>2. best' = best
      BY <1>3, <3>1 DEF Step, Clauses, Shrink, Sample, StartUnsat, RegionUnsat, SolveUnsat,
                        SolveUndef, SolutionsModel, Solutions
    <3>3. CASE SolutionsModel(w)
      <4>1. excluded'[w] = excluded[w] \cup DominatedBy(unread[w] \cup best[w])
        BY <3>3 DEF SolutionsModel
      <4> QED
        BY <3>2, <4>1 DEF DominatedBy, Covers
    <3>4. CASE ~ SolutionsModel(w)
      <4>1. pc[w] \in Descending \cup Leaving
        BY <1>3, <2>5, <3>4, StepMoves
      <4>2. DominatedBy(best[w]) \subseteq excluded[w]
        BY <4>1 DEF LocalInv
      <4> QED
        BY <3>2, <4>2, ExcludedNext
    <3> QED
      BY <3>3, <3>4
  <2>6. ASSUME NEW v \in Worker
        PROVE  /\ solutions'[v] = IF pc'[v] \in Found THEN best'[v] ELSE {}
               /\ pc'[v] \in Found \cup Descending \cup Leaving =>
                     \E p \in feasible : best'[v] = {p}
               /\ pc'[v] \in Descending \cup Leaving => DominatedBy(best'[v]) \subseteq excluded'[v]
    <3>1. CASE v = w
      BY <2>3, <2>4, <2>5, <3>1
    <3>2. CASE v # w
      BY <2>2, <3>2 DEF LocalInv
    <3> QED
      BY <3>1, <3>2
  <2> QED
    BY <2>1, <2>6 DEF LocalInv, DominatedBy
<1> QED
  BY <1>1, <1>2, <1>3 DEF Next

(***************************************************************************)
(* A worker stops when its solver excludes every solution, and does not    *)
(* start again.                                                            *)
(***************************************************************************)
LEMMA DoneNext ==
    ASSUME TypeOK, LocalInv, StoredInv, DoneInv, Next
    PROVE  DoneInv'
<1>1. ASSUME NEW v \in Worker, Open(v) = {}
      PROVE  Open(v)' = {}
  BY <1>1, StoredNext, ExcludedNext DEF Open
<1>2. ASSUME NEW v \in Worker, pc'[v] = "done"
      PROVE  Open(v)' = {}
  <2>1. CASE Encode
    BY <1>2, <2>1 DEF Encode, Open
  <2>2. CASE Answer
    BY <1>1, <1>2, <2>2 DEF Answer, DoneInv
  <2>3. ASSUME NEW w \in Worker, Step(w)
        PROVE  Open(v)' = {}
    <3>1. CASE v = w
      <4>1. SolveUnsat(v)
        BY <1>2, <2>3, <3>1, StepMoves
      <4> QED
        BY <1>1, <4>1 DEF SolveUnsat
    <3>2. CASE v # w
      <4>1. pc[v] = "done"
        BY <1>2, <2>3, <3>2, StepMoves
      <4> QED
        BY <1>1, <4>1 DEF DoneInv
    <3> QED
      BY <3>1, <3>2
  <2> QED
    BY <2>1, <2>2, <2>3 DEF Next
<1> QED
  BY <1>2 DEF DoneInv

(***************************************************************************)
(* What a worker has pushed or pulled stays blocked in its solver.         *)
(***************************************************************************)
LEMMA SeenNext ==
    ASSUME TypeOK, LocalInv, StoredInv, SeenIsBlocked, Next
    PROVE  SeenIsBlocked'
<1> USE DEF TypeOK, SharedTypeOK
<1>1. feasible' = feasible
  BY StoredNext
<1>2. ASSUME NEW v \in Worker, front' \ unread'[v] \subseteq front \ unread[v]
      PROVE  DominatedBy(front \ unread[v])' \subseteq excluded'[v]
  <2>1. DominatedBy(front \ unread[v])' \subseteq DominatedBy(front \ unread[v])
    BY <1>1, <1>2 DEF DominatedBy, Covers
  <2>2. DominatedBy(front \ unread[v]) \subseteq excluded[v]
    BY DEF SeenIsBlocked
  <2> QED
    BY <2>1, <2>2, ExcludedNext
<1>3. ASSUME NEW w \in Worker, SolutionsModel(w) \/ Solutions(w)
      PROVE  SeenIsBlocked'
  <2>1. /\ Archive!Sync(w, solutions[w])
        /\ excluded' = [excluded EXCEPT ![w] = @ \cup DominatedBy(unread[w] \cup solutions[w])]
    BY <1>3, Shares
  <2>2. \A v \in Worker \ {w} : front' \ unread'[v] \subseteq front \ unread[v]
    BY <2>1, SyncFacts
  <2>3. DominatedBy(front \ unread[w])' \subseteq excluded'[w]
    <3>1. front' \ unread'[w] \subseteq (front \ unread[w]) \cup unread[w] \cup solutions[w]
      BY <2>1, SyncFacts
    <3>2. DominatedBy(front \ unread[w])'
            \subseteq DominatedBy(front \ unread[w]) \cup DominatedBy(unread[w] \cup solutions[w])
      BY <1>1, <3>1 DEF DominatedBy, Covers
    <3>3. DominatedBy(front \ unread[w]) \subseteq excluded[w]
      BY DEF SeenIsBlocked
    <3>4. excluded'[w] = excluded[w] \cup DominatedBy(unread[w] \cup solutions[w])
      BY <2>1
    <3> QED
      BY <3>2, <3>3, <3>4
  <2> QED
    BY <1>2, <2>2, <2>3 DEF SeenIsBlocked
<1>4. ASSUME UNCHANGED <<front, unread>>
      PROVE  SeenIsBlocked'
  BY <1>2, <1>4 DEF SeenIsBlocked
<1>5. (\A w \in Worker : ~ SolutionsModel(w) /\ ~ Solutions(w)) => UNCHANGED <<front, unread>>
  BY DEF Next, Encode, Answer, Step, Clauses, Shrink, Sample, StartUnsat, SolveSat, RegionUnsat,
         SolveUnsat, SolveUndef
<1> QED
  BY <1>3, <1>4, <1>5

(***************************************************************************)
(* When everybody has stopped, the archive covers every solution, and the  *)
(* answer is the one that it justifies.                                    *)
(***************************************************************************)
LEMMA AnswerNext ==
    ASSUME IInv, Next
    PROVE  AnsweredInv' /\ AnswerIsCorrect'
<1> USE DEF IInv, TypeOK, SharedTypeOK
<1>1. CASE Answer
  <2>1. /\ \A w \in Worker : pc[w] = "done"
        /\ answerType' = IF front = {} THEN "unsatisfiable" ELSE "optimum"
        /\ pc' = pc /\ feasible' = feasible /\ front' = front
    BY <1>1 DEF Answer
  <2>2. Stored = front
    BY <2>1 DEF LocalInv, Stored, Found
  <2>3. ASSUME NEW p \in feasible
        PROVE  Covers(front, p)
    <3>1. p \in excluded[Main]
      BY <2>1, PMinimalAssumption DEF DoneInv, Open
    <3> QED
      BY <2>2, <3>1, PMinimalAssumption DEF ExclusionIsJustified
  <2>4. front = NonDominated(feasible)
    BY <2>3, CompleteFront
  <2>5. feasible # {} <=> front # {}
    BY <2>3, <2>4 DEF NonDominated, Covers
  <2> QED
    BY <2>1, <2>4, <2>5 DEF AnsweredInv, AnswerIsCorrect
<1>2. CASE ~ Answer
  <2>1. \/ answerType' = answerType /\ \E w \in Worker : pc[w] # "done"
    <3>1. CASE Encode
      BY <3>1, PMinimalAssumption DEF Encode
    <3>2. ASSUME NEW w \in Worker, Step(w)
          PROVE  answerType' = answerType /\ pc[w] # "done"
      BY <3>2, StepMoves
    <3> QED
      BY <1>2, <3>1, <3>2 DEF Next
  <2>2. answerType' = "unknown"
    BY <2>1 DEF AnsweredInv
  <2> QED
    BY <2>2 DEF AnsweredInv, AnswerIsCorrect
<1> QED
  BY <1>1, <1>2

-----------------------------------------------------------------------------
(***************************************************************************)
(* In every state what the solvers exclude is justified by what is stored, *)
(* and what they have been given is blocked (searchParPMinimalMO).         *)
(***************************************************************************)
THEOREM SearchInvariant == Spec => []IInv
<1>1. ASSUME Init
      PROVE  IInv
  <2> USE <1>1 DEF Init, Archive!Init
  <2>1. TypeOK
    BY DEF TypeOK, SharedTypeOK
  <2>2. StoredInv /\ ExclusionIsJustified
    BY DEF StoredInv, Stored, IsAntichain, ExclusionIsJustified
  <2>3. LocalInv /\ DoneInv /\ AnsweredInv /\ AnswerIsCorrect
    BY DEF LocalInv, Found, Descending, Leaving, DoneInv, AnsweredInv, AnswerIsCorrect
  <2>4. SeenIsBlocked
    BY DEF SeenIsBlocked, DominatedBy, Covers
  <2> QED
    BY <2>1, <2>2, <2>3, <2>4 DEF IInv
<1>2. ASSUME IInv, Next
      PROVE  IInv'
  <2>1. TypeOK' /\ StoredInv' /\ ExclusionIsJustified'
    BY <1>2, TypeNext, StoredNext, JustifiedNext DEF IInv
  <2>2. LocalInv' /\ DoneInv' /\ SeenIsBlocked'
    BY <1>2, LocalNext, DoneNext, SeenNext DEF IInv
  <2>3. AnsweredInv' /\ AnswerIsCorrect'
    BY <1>2, AnswerNext
  <2> QED
    BY <2>1, <2>2, <2>3 DEF IInv
<1>3. ASSUME IInv, UNCHANGED vars
      PROVE  IInv'
  <2>1. Stored' = Stored
    BY <1>3 DEF vars, Stored
  <2> QED
    BY <1>3, <2>1 DEF vars, start, IInv, TypeOK, SharedTypeOK, StoredInv, ExclusionIsJustified,
       LocalInv, DoneInv, Open, SeenIsBlocked, DominatedBy, AnsweredInv, AnswerIsCorrect
<1> QED
  BY <1>1, <1>2, <1>3, PTL DEF Spec

(***************************************************************************)
(* No worker stops before everything is found: when one does, what is      *)
(* archived or about to be covers every solution.                          *)
(***************************************************************************)
THEOREM DoneComplete == Spec => []DoneIsComplete
<1>1. ASSUME IInv
      PROVE  DoneIsComplete
  BY <1>1 DEF IInv, DoneInv, Open, ExclusionIsJustified, DoneIsComplete
<1> QED
  BY <1>1, SearchInvariant, PTL

(***************************************************************************)
(* OPTIMUM is answered only with the whole Pareto front, UNSATISFIABLE     *)
(* only without a solution.                                                *)
(***************************************************************************)
THEOREM AnswerCorrect == Spec => []AnswerIsCorrect
<1>1. IInv => AnswerIsCorrect
  BY DEF IInv
<1> QED
  BY <1>1, SearchInvariant, PTL

(***************************************************************************)
(* Whatever an archived solution dominates is blocked in every solver that *)
(* pushed or pulled it.                                                    *)
(***************************************************************************)
THEOREM SeenBlocked == Spec => []SeenIsBlocked
<1>1. IInv => SeenIsBlocked
  BY DEF IInv
<1> QED
  BY <1>1, SearchInvariant, PTL

(***************************************************************************)
(* A model of a descent differs from the worker's best solution, and no    *)
(* model is covered by what the worker has seen of the archive.            *)
(***************************************************************************)
THEOREM Improvement == Spec => ModelsImprove
<1>1. ASSUME IInv, [Next]_vars
      PROVE  [\A w \in Worker : \A p \in best'[w] :
                SolveSat(w) => /\ pc[w] = "solveRegion" => p \notin best[w]
                               /\ ~ Covers(front \ unread[w], p)]_vars
  <2>1. ASSUME NEW w \in Worker, NEW p \in best'[w], SolveSat(w)
        PROVE  /\ pc[w] = "solveRegion" => p \notin best[w]
               /\ ~ Covers(front \ unread[w], p)
    <3>1. p \in Open(w)
      BY <1>1, <2>1 DEF SolveSat, IInv, TypeOK
    <3>2. p \in feasible /\ p \notin excluded[w] /\ p \in YPoint
      BY <1>1, <3>1, Points DEF Open, IInv
    <3>3. ~ Covers(front \ unread[w], p)
      BY <1>1, <3>2 DEF IInv, SeenIsBlocked, DominatedBy
    <3>4. pc[w] = "solveRegion" => DominatedBy(best[w]) \subseteq excluded[w]
      BY <1>1 DEF IInv, LocalInv, Descending
    <3>5. p \in best[w] => p \in DominatedBy(best[w])
      BY <3>2, DominanceOrder DEF DominatedBy, Covers
    <3> QED
      BY <3>2, <3>3, <3>4, <3>5
  <2> QED
    BY <2>1
<1> QED
  BY <1>1, SearchInvariant, PTL DEF Spec, ModelsImprove

(***************************************************************************)
(* A call of the archive with points that do not beat each other is one    *)
(* that it makes a promise about.                                          *)
(***************************************************************************)
LEMMA Promised ==
    ASSUME NEW w \in Worker, NEW S \in SUBSET YPoint, IsAntichain(S), Archive!Sync(w, S)
    PROVE  Archive!Next
<1>1. S \in SUBSET Archive!YPoint /\ Archive!IsAntichain(S)
  BY DEF IsAntichain, dominates, YPoint, Archive!IsAntichain, Archive!dominates,
         Archive!YPoint
<1> QED
  BY <1>1 DEF Archive!Next

(***************************************************************************)
(* The search uses the archive as it promises to work: what happens to the *)
(* archive is a behaviour of SharedFront (shareSolutions).                 *)
(***************************************************************************)
THEOREM UsesArchive == Spec => ArchiveSpec
<1>1. Init => Archive!Init
  BY DEF Init
<1>2. ASSUME IInv, Next
      PROVE  Archive!Next \/ UNCHANGED <<front, unread>>
  <2>1. ASSUME NEW w \in Worker, SolutionsModel(w) \/ Solutions(w)
        PROVE  Archive!Next
    <3>1. Archive!Sync(w, solutions[w])
      BY <2>1 DEF SolutionsModel, Solutions, ShareSolutions
    <3>2. solutions[w] \in SUBSET YPoint
      BY <1>2 DEF IInv, TypeOK, SharedTypeOK
    <3>3. IsAntichain(solutions[w])
      BY <1>2, LocalFronts DEF IInv
    <3> QED
      BY <3>1, <3>2, <3>3, Promised
  <2>2. CASE Encode \/ Answer
    BY <2>2 DEF Encode, Answer
  <2>3. ASSUME NEW w \in Worker, Step(w), ~ SolutionsModel(w), ~ Solutions(w)
        PROVE  UNCHANGED <<front, unread>>
    BY <2>3 DEF Step, Clauses, Shrink, Sample, StartUnsat, SolveSat, RegionUnsat, SolveUnsat,
                SolveUndef
  <2> QED
    BY <1>2, <2>1, <2>2, <2>3 DEF Next
<1>3. ASSUME IInv, [Next]_vars
      PROVE  [Archive!Next]_<<front, unread>>
  BY <1>2, <1>3 DEF vars
<1> QED
  BY <1>1, <1>3, SearchInvariant, PTL DEF Spec, ArchiveSpec, Archive!Spec
=============================================================================
