-------------------------- MODULE ParUnsatSat_proofs --------------------------
(***************************************************************************)
(* Proofs about ParUnsatSat, for every number of workers, every set of     *)
(* solutions and every encoding: the search answers with the Pareto front. *)
(***************************************************************************)
EXTENDS ParUnsatSat, Pareto_proofs

(***************************************************************************)
(* What an exchange of w with the shared archive does to the archive and   *)
(* to what the workers have still to read (see Synchronised).              *)
(***************************************************************************)
LEMMA SyncFacts ==
    ASSUME SharedTypeOK, NEW w \in Worker, NEW S \in SUBSET YPoint, Archive!Sync(w, S)
    PROVE  /\ front' \in SUBSET YPoint
           /\ unread' \in [Worker -> SUBSET YPoint]
           /\ front' \subseteq front \cup S
           /\ \A p \in YPoint : Covers(front \cup S, p) => Covers(front', p)
           /\ IsAntichain(front) /\ IsAntichain(S) => IsAntichain(front')
           /\ (\A v \in Worker : unread[v] \subseteq front)
                 => \A v \in Worker : unread'[v] \subseteq front'
<1>1. /\ Archive!New(S) = Joining(front, S)
      /\ Archive!Beaten(S) = Dropped(front, S)
  BY DEF Joining, Dropped, Archive!New, Archive!Beaten, Archive!Covers, Archive!dominates,
         Covers, dominates
<1>2. /\ front' = Joined(front, S)
      /\ unread' = StillUnread(Worker, unread, w, front, S)
  BY <1>1 DEF Archive!Sync, Joined, StillUnread
<1>3. front \in SUBSET YPoint /\ unread \in [Worker -> SUBSET YPoint]
  BY DEF SharedTypeOK
<1> QED
  BY <1>2, <1>3, JoinFacts, Synchronised

(***************************************************************************)
(* Sharing moves the local front of a worker into the archive: nothing     *)
(* that was covered by a stored solution is uncovered by it.               *)
(***************************************************************************)
LEMMA ShareKeeps ==
    ASSUME SharedTypeOK, StoredInv, NEW w \in Worker, IsAntichain(solutions[w]),
           ShareSolutions(w)
    PROVE  /\ \A p \in YPoint : Covers(Stored, p) => Covers(Stored', p)
           /\ Stored' \subseteq Stored
           /\ IsAntichain(front')
           /\ \A v \in Worker : unread'[v] \subseteq front'
           /\ solutions' = [solutions EXCEPT ![w] = {}]
<1>1. /\ Archive!Sync(w, solutions[w])
      /\ solutions' = [solutions EXCEPT ![w] = {}]
      /\ solutions \in [Worker -> SUBSET YPoint] /\ front \in SUBSET YPoint
  BY DEF SharedTypeOK, ShareSolutions
<1>2. /\ front' \in SUBSET (front \cup solutions[w])
      /\ \A p \in YPoint : Covers(front \cup solutions[w], p) => Covers(front', p)
      /\ IsAntichain(front')
      /\ \A v \in Worker : unread'[v] \subseteq front'
  BY <1>1, SyncFacts DEF StoredInv
<1>3. /\ Stored = Together(Worker, front, solutions)
      /\ Stored' = Together(Worker, front', [solutions EXCEPT ![w] = {}])
  BY <1>1 DEF Stored, Together
<1> QED
  BY <1>1, <1>2, <1>3, Moved

(***************************************************************************)
(* An archive of points of solutions that covers all of them, and in which *)
(* no point beats another, is the Pareto front.                            *)
(***************************************************************************)
LEMMA CompleteFront ==
    ASSUME SharedTypeOK, StoredInv, \A p \in feasible : Covers(front, p)
    PROVE  front = NonDominated(feasible)
<1>1. front \in SUBSET feasible /\ IsAntichain(front) /\ feasible \in SUBSET YPoint
  BY ParallelAssumption DEF SharedTypeOK, StoredInv, Stored
<1> QED
  BY <1>1, FrontOf

-----------------------------------------------------------------------------
\* Points of solutions are points, and so are the fences.
LEMMA Points ==
    /\ \A P \in Problem : P \subseteq YPoint
    /\ Zero \in YPoint
    /\ \A q, C : ExpansionPoints(q, C) \subseteq YPoint
<1>1. \A P \in Problem : P \subseteq YPoint
  BY ParallelAssumption, SearchAssumption
<1>2. Zero \in YPoint
  BY ObjectiveAssumption DEF Zero, YPoint
<1>3. \A q, C : ExpansionPoints(q, C) \subseteq YPoint
  BY DEF ExpansionPoints
<1> QED
  BY <1>1, <1>2, <1>3

\* The workers between try_pop and active.fetch_sub.
BusyWorkers == {w \in Worker : pc[w] \in Busy}

(***************************************************************************)
(* The counter is zero exactly when nobody explores a fence.               *)
(***************************************************************************)
LEMMA ActiveIsZero ==
    ASSUME TypeOK, ActiveInv
    PROVE  active = 0 <=> \A w \in Worker : pc[w] \notin Busy
<1>1. IsFiniteSet(BusyWorkers)
  <2>1. BusyWorkers \in SUBSET Worker
    BY DEF BusyWorkers
  <2> QED
    BY <2>1, ParallelAssumption, SearchAssumption, FS_Subset
<1>2. active = Cardinality(BusyWorkers)
  BY DEF ActiveInv, BusyWorkers
<1>3. active = 0 <=> BusyWorkers = {}
  BY <1>1, <1>2, FS_EmptySet
<1> QED
  BY <1>3 DEF BusyWorkers

(***************************************************************************)
(* Every step keeps the types.                                             *)
(***************************************************************************)
LEMMA TypeNext ==
    ASSUME TypeOK, ActiveInv, Next
    PROVE  TypeOK'
<1> USE DEF TypeOK, SharedTypeOK
<1>0. feasible \subseteq YPoint
  BY Points
<1>1. CASE Root
  BY <1>1, Points DEF Root, Phase, Busy, Exploring
<1>2. CASE Answer
  BY <1>2 DEF Answer
<1>3. ASSUME NEW w \in Worker, Step(w)
      PROVE  TypeOK'
  <2>1. CASE FirstSolution(w)
    <3>1. PICK p \in feasible : /\ Archive!Sync(w, {p})
                                /\ excluded' = [excluded EXCEPT ![w] = @ \cup DominatedRegion(p)]
      BY <2>1 DEF FirstSolution
    <3>2. DominatedRegion(p) \subseteq YPoint /\ {p} \in SUBSET YPoint
      BY <1>0 DEF DominatedRegion
    <3>3. front' \in SUBSET YPoint /\ unread' \in [Worker -> SUBSET YPoint]
      BY <3>1, <3>2, SyncFacts
    <3> QED
      BY <2>1, <3>1, <3>2, <3>3 DEF FirstSolution, Goto, Phase
  <2>2. CASE NoFirstSolution(w)
    BY <2>2 DEF NoFirstSolution, Goto, Phase
  <2>3. CASE Barrier(w)
    BY <2>3 DEF Barrier, Goto, Phase
  <2>4. CASE Pop(w)
    BY <2>4 DEF Pop, Goto, Phase, Busy, Exploring
  <2>5. CASE Finish(w)
    BY <2>5 DEF Finish, Goto, Phase
  <2>6. CASE SolveSat(w)
    <3>1. \A p \in feasible : DominatedRegion(p) \subseteq YPoint
      BY <1>0 DEF DominatedRegion
    <3> QED
      BY <2>6, <3>1, <1>0 DEF SolveSat, Goto, Phase, Busy, Exploring, Open
  <2>7. CASE SolveUnsat(w)
    BY <2>7 DEF SolveUnsat, Goto, Phase, Busy, Exploring
  <2>8. CASE SolveUndef(w)
    BY <2>8 DEF SolveUndef, Goto, Phase, Busy, Exploring
  <2>9. CASE Clauses(w)
    <3>1. exported' \in SUBSET YPoint /\ excluded' \in [Worker -> SUBSET YPoint]
      BY <2>9 DEF Clauses, ShareClauses
    <3>2. AfterClauses(pc[w]) \in Phase
      BY <2>9 DEF Clauses, AfterClauses, Phase, Busy, Exploring
    <3> QED
      BY <2>9, <3>1, <3>2 DEF Clauses, Goto
  <2>10. ASSUME ShareSolutions(w)
         PROVE  /\ front' \in SUBSET YPoint
                /\ unread' \in [Worker -> SUBSET YPoint]
                /\ excluded' \in [Worker -> SUBSET YPoint]
                /\ solutions' \in [Worker -> SUBSET YPoint]
    <3>1. DominatedBy(unread[w]) \subseteq YPoint
      BY <1>0 DEF DominatedBy
    <3>2. front' \in SUBSET YPoint /\ unread' \in [Worker -> SUBSET YPoint]
      BY <2>10, SyncFacts DEF ShareSolutions
    <3> QED
      BY <2>10, <3>1, <3>2 DEF ShareSolutions
  <2>11. CASE Solutions(w)
    BY <2>11, <2>10 DEF Solutions, Goto, Phase, Busy, Exploring
  <2>12. CASE Expand(w)
    BY <2>12, <2>10, Points DEF Expand, Goto, Phase, Busy, Exploring
  <2>13. CASE Insert(w)
    BY <2>13 DEF Insert, InsertAndPrune
  <2>14. CASE EndInsert(w)
    BY <2>14 DEF EndInsert, Goto, Phase, Busy
  <2>15. CASE Leave(w)
    <3>1. active # 0
      BY <2>15, ActiveIsZero DEF Leave, Busy
    <3> QED
      BY <2>15, <3>1 DEF Leave, Goto, Phase
  <2> QED
    BY <1>3, <2>1, <2>2, <2>3, <2>4, <2>5, <2>6, <2>7, <2>8, <2>9, <2>11, <2>12, <2>13,
       <2>14, <2>15 DEF Step
<1> QED
  BY <1>1, <1>2, <1>3 DEF Next

(***************************************************************************)
(* Every step keeps the counter of busy workers.                           *)
(***************************************************************************)
LEMMA ActiveNext ==
    ASSUME TypeOK, ActiveInv, Next
    PROVE  ActiveInv'
<1> USE DEF TypeOK, SharedTypeOK
<1>1. IsFiniteSet(BusyWorkers)
  <2>1. BusyWorkers \in SUBSET Worker
    BY DEF BusyWorkers
  <2> QED
    BY <2>1, ParallelAssumption, SearchAssumption, FS_Subset
<1>2. active = Cardinality(BusyWorkers)
  BY DEF ActiveInv, BusyWorkers
<1>3. SUFFICES active' = Cardinality(BusyWorkers')
  BY DEF ActiveInv, BusyWorkers
<1>4. ASSUME active' = active, BusyWorkers' = BusyWorkers
      PROVE  active' = Cardinality(BusyWorkers')
  BY <1>2, <1>4
<1>5. CASE Root
  <2>1. BusyWorkers = {} /\ BusyWorkers' = {}
    BY <1>5 DEF Root, BusyWorkers, Busy, Exploring
  <2> QED
    BY <1>4, <1>5, <2>1 DEF Root
<1>6. CASE Answer
  BY <1>4, <1>6 DEF Answer, BusyWorkers
<1>7. ASSUME NEW w \in Worker, Pop(w)
      PROVE  active' = Cardinality(BusyWorkers')
  <2>1. w \notin BusyWorkers /\ BusyWorkers' = BusyWorkers \cup {w}
    BY <1>7 DEF Pop, Goto, BusyWorkers, Busy, Exploring
  <2> QED
    BY <1>1, <1>2, <1>7, <2>1, FS_AddElement DEF Pop
<1>8. ASSUME NEW w \in Worker, Leave(w)
      PROVE  active' = Cardinality(BusyWorkers')
  <2>1. w \in BusyWorkers /\ BusyWorkers' = BusyWorkers \ {w}
    BY <1>8 DEF Leave, Goto, BusyWorkers, Busy, Exploring
  <2> QED
    BY <1>1, <1>2, <1>8, <2>1, FS_RemoveElement DEF Leave
<1>9. ASSUME NEW w \in Worker, Step(w), ~ Pop(w), ~ Leave(w)
      PROVE  active' = Cardinality(BusyWorkers')
  <2>1. active' = active
    BY <1>9 DEF Step, FirstSolution, NoFirstSolution, Barrier, Finish, SolveSat, SolveUnsat,
                SolveUndef, Clauses, Solutions, Expand, Insert, EndInsert
  <2>2. \E l \in Phase : /\ pc' = [pc EXCEPT ![w] = l]
                         /\ pc[w] \in Busy <=> l \in Busy
    <3>1. CASE FirstSolution(w) \/ NoFirstSolution(w) \/ Barrier(w) \/ Finish(w)
      BY <3>1 DEF FirstSolution, NoFirstSolution, Barrier, Finish, Goto, Phase, Busy, Exploring
    <3>2. CASE SolveSat(w) \/ SolveUnsat(w) \/ SolveUndef(w)
      <4>1. pc[w] = "solve" /\ pc[w] \in Busy
        BY <3>2 DEF SolveSat, SolveUnsat, SolveUndef, Busy, Exploring
      <4>2. pc = [pc EXCEPT ![w] = "solve"]
        BY <4>1
      <4>3. \/ pc' = pc
            \/ pc' = [pc EXCEPT ![w] = "clauses"]
            \/ pc' = [pc EXCEPT ![w] = "clausesUnsat"]
        <5>1. CASE SolveSat(w)
          BY <5>1 DEF SolveSat, Goto
        <5>2. CASE SolveUnsat(w) \/ SolveUndef(w)
          BY <5>2 DEF SolveUnsat, SolveUndef, Goto
        <5> QED
          BY <3>2, <5>1, <5>2
      <4>4. {"solve", "clauses", "clausesUnsat"} \subseteq Busy /\ Busy \subseteq Phase
        BY DEF Phase, Busy, Exploring
      <4> QED
        BY <4>1, <4>2, <4>3, <4>4
    <3>3. CASE Clauses(w)
      <4>1. pc' = [pc EXCEPT ![w] = AfterClauses(pc[w])]
        BY <3>3 DEF Clauses, Goto
      <4>2. /\ AfterClauses(pc[w]) \in Phase
            /\ pc[w] \in Busy <=> AfterClauses(pc[w]) \in Busy
        BY <3>3 DEF Clauses, AfterClauses, Phase, Busy, Exploring
      <4> QED
        BY <4>1, <4>2
    <3>4. CASE Solutions(w)
      <4>1. CASE pc[w] = "solutions"
        BY <3>4, <4>1 DEF Solutions, Goto, Phase, Busy, Exploring
      <4>2. CASE pc[w] = "joinSolutions"
        BY <3>4, <4>2 DEF Solutions, Goto, Phase, Busy, Exploring
      <4> QED
        BY <3>4, <4>1, <4>2 DEF Solutions
    <3>5. CASE Expand(w) \/ Insert(w) \/ EndInsert(w)
      BY <3>5 DEF Expand, Insert, EndInsert, Goto, Phase, Busy, Exploring
    <3> QED
      BY <1>9, <3>1, <3>2, <3>3, <3>4, <3>5 DEF Step
  <2>3. BusyWorkers' = BusyWorkers
    BY <2>2 DEF BusyWorkers
  <2> QED
    BY <1>4, <2>1, <2>3
<1> QED
  BY <1>5, <1>6, <1>7, <1>8, <1>9 DEF Next

-----------------------------------------------------------------------------
(***************************************************************************)
(* A step of a worker moves that worker only, and never between the two    *)
(* parallel regions; only Pop and EndInsert change who owns a fence.       *)
(***************************************************************************)
LEMMA StepMoves ==
    ASSUME TypeOK, NEW w \in Worker, Step(w)
    PROVE  /\ \A v \in Worker \ {w} : pc'[v] = pc[v]
           /\ pc'[w] \in Phase
           /\ pc[w] \in Early <=> pc'[w] \in Early
           /\ pc[w] \in Late <=> pc'[w] \in Late
           /\ pc[w] # "done"
           /\ feasible' = feasible
           /\ answerType' = answerType
           /\ pc[w] # "pop" \/ Finish(w) => (pc'[w] \in Exploring => pc[w] \in Exploring)
           /\ ~ EndInsert(w) => (pc[w] \in Exploring => pc'[w] \in Exploring)
<1> USE DEF TypeOK, SharedTypeOK, Early, Late, Busy, Exploring, Phase
<1>1. CASE FirstSolution(w) \/ NoFirstSolution(w)
  BY <1>1 DEF FirstSolution, NoFirstSolution, EndInsert, Finish, Goto
<1>2. CASE Barrier(w)
  <2>1. CASE feasible = {}
    BY <1>2, <2>1 DEF Barrier, EndInsert, Finish, Goto
  <2>2. CASE feasible # {}
    BY <1>2, <2>2 DEF Barrier, EndInsert, Finish, Goto
  <2> QED
    BY <2>1, <2>2
<1>3. CASE Pop(w) \/ Finish(w)
  BY <1>3 DEF Pop, Finish, EndInsert, Goto
<1>4. CASE SolveSat(w)
  <2>1. pc' = pc \/ pc' = [pc EXCEPT ![w] = "clauses"]
    BY <1>4 DEF SolveSat, Goto
  <2>2. feasible' = feasible /\ answerType' = answerType /\ pc[w] = "solve"
    BY <1>4 DEF SolveSat
  <2> QED
    BY <2>1, <2>2 DEF EndInsert, Finish
<1>5. CASE SolveUnsat(w) \/ SolveUndef(w)
  BY <1>5 DEF SolveUnsat, SolveUndef, EndInsert, Finish, Goto
<1>6. CASE Clauses(w)
  <2>1. pc' = [pc EXCEPT ![w] = AfterClauses(pc[w])]
    BY <1>6 DEF Clauses, Goto
  <2>2. feasible' = feasible /\ answerType' = answerType
    BY <1>6 DEF Clauses
  <2>3. \/ pc[w] = "joinClauses" /\ AfterClauses(pc[w]) = "joinSolutions"
        \/ pc[w] = "clauses" /\ AfterClauses(pc[w]) = "solutions"
        \/ pc[w] = "clausesUnsat" /\ AfterClauses(pc[w]) = "solutionsUnsat"
    BY <1>6 DEF Clauses, AfterClauses
  <2> QED
    BY <2>1, <2>2, <2>3 DEF EndInsert, Finish
<1>7. CASE Solutions(w)
  <2>1. CASE pc[w] = "solutions"
    BY <1>7, <2>1 DEF Solutions, EndInsert, Finish, Goto
  <2>2. CASE pc[w] = "joinSolutions"
    BY <1>7, <2>2 DEF Solutions, EndInsert, Finish, Goto
  <2> QED
    BY <1>7, <2>1, <2>2 DEF Solutions
<1>8. CASE Expand(w)
  BY <1>8 DEF Expand, EndInsert, Finish, Goto
<1>9. CASE Insert(w) \/ EndInsert(w) \/ Leave(w)
  BY <1>9 DEF Insert, EndInsert, Leave, Finish, Goto
<1> QED
  BY <1>1, <1>2, <1>3, <1>4, <1>5, <1>6, <1>7, <1>8, <1>9 DEF Step

\* What the steps other than Pop and Insert leave alone.
LEMMA FencesKept ==
    ASSUME NEW w \in Worker, Step(w), ~ Pop(w), ~ Insert(w)
    PROVE  UNCHANGED <<fence, pending, seen>>
BY DEF Step, FirstSolution, NoFirstSolution, Barrier, Finish, SolveSat, SolveUnsat, SolveUndef,
       Clauses, Solutions, Expand, EndInsert, Leave

-----------------------------------------------------------------------------
(***************************************************************************)
(* Every step keeps the two parallel regions apart.                        *)
(***************************************************************************)
LEMMA PhaseNext ==
    ASSUME TypeOK, PhaseInv, Next
    PROVE  PhaseInv'
<1> USE DEF TypeOK, SharedTypeOK, PhaseInv
<1>1. CASE Root
  <2>1. \A w \in Worker : pc'[w] \in Late
    BY <1>1 DEF Root, Late, Busy, Exploring
  <2>2. feasible' # {} => seen' # {}
    BY <1>1 DEF Root
  <2> QED
    BY <2>1, <2>2
<1>2. CASE Answer
  BY <1>2 DEF Answer
<1>3. ASSUME NEW w \in Worker, Step(w)
      PROVE  PhaseInv'
  <2>1. CASE Pop(w)
    <3>1. pc[w] = "pop" /\ feasible' = feasible /\ seen' = seen
      BY <2>1 DEF Pop
    <3>2. \A v \in Worker : pc[v] \in Late
      BY <3>1 DEF Early
    <3>3. \A v \in Worker : pc'[v] \in Late
      BY <1>3, <3>2, StepMoves
    <3> QED
      BY <3>1, <3>2, <3>3 DEF Early, Late, Busy, Exploring
  <2>2. CASE Insert(w)
    <3>1. pc[w] = "insert" /\ feasible' = feasible /\ seen' # {}
      BY <2>2 DEF Insert, InsertAndPrune
    <3>2. \A v \in Worker : pc[v] \in Late
      BY <3>1 DEF Early
    <3>3. \A v \in Worker : pc'[v] \in Late
      BY <1>3, <3>2, StepMoves
    <3> QED
      BY <3>1, <3>3
  <2>3. CASE ~ Pop(w) /\ ~ Insert(w)
    <3>1. UNCHANGED <<fence, pending, seen>>
      BY <1>3, <2>3, FencesKept
    <3>2. feasible' = feasible
      BY <1>3, StepMoves
    <3>3. CASE \A v \in Worker : pc[v] \in Early
      <4>1. \A v \in Worker : pc'[v] \in Early
        BY <1>3, <3>3, StepMoves
      <4>2. pending = {} /\ seen = {}
        BY <3>3, ParallelAssumption, SearchAssumption DEF Early, Late, Busy, Exploring
      <4> QED
        BY <3>1, <4>1, <4>2
    <3>4. CASE \A v \in Worker : pc[v] \in Late
      <4>1. \A v \in Worker : pc'[v] \in Late
        BY <1>3, <3>4, StepMoves
      <4>2. feasible # {} => seen # {}
        BY <3>4, ParallelAssumption, SearchAssumption DEF Early, Late, Busy, Exploring
      <4> QED
        BY <3>1, <3>2, <4>1, <4>2
    <3> QED
      BY <3>3, <3>4
  <2> QED
    BY <2>1, <2>2, <2>3
<1> QED
  BY <1>1, <1>2, <1>3 DEF Next

(***************************************************************************)
(* The critical section is held by a worker that inserts.                  *)
(***************************************************************************)
LEMMA SectionNext ==
    ASSUME TypeOK, SectionInv, Next
    PROVE  SectionInv'
<1> USE DEF TypeOK, SharedTypeOK, SectionInv
<1>1. CASE Root
  BY <1>1 DEF Root
<1>2. CASE Answer
  BY <1>2 DEF Answer
<1>3. ASSUME NEW w \in Worker, Step(w)
      PROVE  SectionInv'
  <2>1. CASE Insert(w)
    BY <2>1 DEF Insert
  <2>2. CASE EndInsert(w)
    BY <2>2 DEF EndInsert
  <2>3. CASE ~ Insert(w) /\ ~ EndInsert(w)
    <3>1. section' = section /\ pc[w] # "insert"
      BY <1>3, <2>3 DEF Step, FirstSolution, NoFirstSolution, Barrier, Pop, Finish, SolveSat,
                        SolveUnsat, SolveUndef, Clauses, Solutions, Expand, Leave
    <3>2. \A v \in Worker \ {w} : pc'[v] = pc[v]
      BY <1>3, StepMoves
    <3> QED
      BY <3>1, <3>2, ParallelAssumption, SearchAssumption
  <2> QED
    BY <2>1, <2>2, <2>3
<1> QED
  BY <1>1, <1>2, <1>3 DEF Next

(***************************************************************************)
(* Every step keeps the bookkeeping of the fences: what is pending or      *)
(* explored was inserted, is pairwise different, and the pending ones are  *)
(* an antichain.                                                           *)
(***************************************************************************)
LEMMA FenceNext ==
    ASSUME TypeOK, PhaseInv, FenceInv, FencesAreDistinct, PendingIsAntichain, Next
    PROVE  FenceInv' /\ FencesAreDistinct' /\ PendingIsAntichain'
<1> USE DEF TypeOK, SharedTypeOK, FenceInv, FencesAreDistinct, PendingIsAntichain
<1>1. CASE Root
  <2>1. pending = {} /\ seen = {}
    BY <1>1, ParallelAssumption, SearchAssumption DEF Root, PhaseInv, Early, Late, Busy, Exploring
  <2>2. (pending' = {} /\ seen' = {}) \/ (pending' = {Zero} /\ seen' = {Zero})
    BY <1>1, <2>1 DEF Root
  <2>3. \A w \in Worker : pc'[w] \notin Exploring
    BY <1>1 DEF Root, Exploring
  <2>4. FenceInv' /\ FencesAreDistinct'
    BY <2>2, <2>3
  <2>5. PendingIsAntichain'
    BY <2>2 DEF IsAntichain
  <2> QED
    BY <2>4, <2>5
<1>2. CASE Answer
  BY <1>2 DEF Answer
<1>3. ASSUME NEW w \in Worker, Pop(w)
      PROVE  FenceInv' /\ FencesAreDistinct' /\ PendingIsAntichain'
  <2>1. PICK q \in pending : /\ pending' = pending \ {q}
                             /\ fence' = [fence EXCEPT ![w] = q]
    BY <1>3 DEF Pop
  <2>2. seen' = seen /\ pc' = [pc EXCEPT ![w] = "solve"] /\ pc[w] = "pop"
    BY <1>3 DEF Pop, Goto
  <2>3. FenceInv' /\ FencesAreDistinct'
    BY <2>1, <2>2 DEF Exploring
  <2>4. PendingIsAntichain'
    BY <2>1 DEF IsAntichain
  <2> QED
    BY <2>3, <2>4
<1>4. ASSUME NEW w \in Worker, Insert(w)
      PROVE  FenceInv' /\ FencesAreDistinct' /\ PendingIsAntichain'
  <2>1. PICK q \in children[w] : InsertAndPrune(q)
    BY <1>4 DEF Insert
  <2>2. pc' = pc /\ fence' = fence
    BY <1>4 DEF Insert
  <2>3. CASE pending' = pending
    BY <2>1, <2>2, <2>3 DEF InsertAndPrune
  <2>4. CASE pending' # pending
    <3>1. /\ q \notin seen
          /\ ~ \E r \in pending : dominates(q, r)
          /\ pending' = {r \in pending : ~ dominates(r, q)} \cup {q}
          /\ seen' = seen \cup {q}
      BY <2>1, <2>4 DEF InsertAndPrune
    <3>2. FenceInv' /\ FencesAreDistinct'
      BY <2>2, <3>1
    <3>3. PendingIsAntichain'
      BY <3>1 DEF IsAntichain
    <3> QED
      BY <3>2, <3>3
  <2> QED
    BY <2>3, <2>4
<1>5. ASSUME NEW w \in Worker, Step(w), ~ Pop(w), ~ Insert(w)
      PROVE  FenceInv' /\ FencesAreDistinct' /\ PendingIsAntichain'
  <2>1. UNCHANGED <<fence, pending, seen>>
    BY <1>5, FencesKept
  <2>2. \A v \in Worker : pc'[v] \in Exploring => pc[v] \in Exploring
    <3>1. pc[w] # "pop" \/ Finish(w)
      BY <1>5 DEF Step, FirstSolution, NoFirstSolution, Barrier, SolveSat, SolveUnsat,
                  SolveUndef, Clauses, Solutions, Expand, EndInsert, Leave
    <3> QED
      BY <1>5, <3>1, StepMoves
  <2> QED
    BY <2>1, <2>2
<1> QED
  BY <1>1, <1>2, <1>3, <1>4, <1>5 DEF Next

(***************************************************************************)
(* Every step keeps it so that the first worker to leave the search leaves *)
(* nothing behind, and that nothing moves after the answer.                *)
(***************************************************************************)
LEMMA FinishNext ==
    ASSUME TypeOK, PhaseInv, ActiveInv, NoEarlyFinish, AnsweredInv, Next
    PROVE  NoEarlyFinish' /\ AnsweredInv'
<1> USE DEF TypeOK, SharedTypeOK, NoEarlyFinish, AnsweredInv
<1>1. CASE Root
  <2>1. PICK w \in Worker : pc[w] = "joined"
    BY <1>1, ParallelAssumption, SearchAssumption DEF Root
  <2>2. pending = {}
    BY <2>1 DEF PhaseInv, Late, Busy, Exploring
  <2>3. answerType' = "unknown"
    BY <1>1, <2>1 DEF Root
  <2> QED
    BY <1>1, <2>2, <2>3 DEF Root
<1>2. CASE Answer
  BY <1>2 DEF Answer
<1>3. ASSUME NEW w \in Worker, Step(w)
      PROVE  NoEarlyFinish' /\ AnsweredInv'
  <2>1. pc[w] # "done" /\ answerType' = answerType
    BY <1>3, StepMoves
  <2>2. AnsweredInv'
    BY <2>1
  <2>3. CASE Finish(w)
    <3>1. /\ pending' = {}
          /\ pc' = [pc EXCEPT ![w] = "done"]
          /\ active = 0
          /\ pc[w] = "pop"
      BY <2>3 DEF Finish, Goto
    <3>2. \A v \in Worker : pc[v] \notin Busy
      BY <3>1, ActiveIsZero
    <3>3. \A v \in Worker : pc[v] \in Late
      BY <3>1 DEF PhaseInv, Early
    <3>4. \A v \in Worker : pc[v] \in {"pop", "done"}
      BY <3>2, <3>3 DEF Late
    <3> QED
      BY <2>2, <3>1, <3>4
  <2>4. CASE ~ Finish(w)
    <3>1. pc'[w] # "done" /\ \A v \in Worker \ {w} : pc'[v] = pc[v]
      <4>1. pc'[w] = "done" => Finish(w)
        <5>1. CASE Clauses(w)
          BY <5>1 DEF Clauses, AfterClauses, Goto
        <5>2. CASE SolveSat(w)
          BY <5>2 DEF SolveSat, Goto
        <5>3. CASE Barrier(w) \/ Solutions(w)
          BY <5>3 DEF Barrier, Solutions, Goto
        <5>4. CASE ~ Clauses(w) /\ ~ SolveSat(w) /\ ~ Barrier(w) /\ ~ Solutions(w)
          BY <1>3, <5>4 DEF Step, FirstSolution, NoFirstSolution, Pop, SolveUnsat, SolveUndef,
                            Expand, Insert, EndInsert, Leave, Goto
        <5> QED
          BY <5>1, <5>2, <5>3, <5>4
      <4> QED
        BY <1>3, <2>4, <4>1, StepMoves
    <3>2. CASE \E v \in Worker : pc'[v] = "done"
      <4>1. \E v \in Worker : pc[v] = "done"
        BY <3>1, <3>2
      <4>2. pending = {} /\ pc[w] = "pop"
        BY <2>1, <4>1
      <4>3. ~ Step(w)
        BY <2>4, <4>2 DEF Step, FirstSolution, NoFirstSolution, Barrier, Pop, SolveSat, SolveUnsat,
                          SolveUndef, Clauses, Solutions, Expand, Insert, EndInsert, Leave
      <4> QED
        BY <1>3, <4>3
    <3> QED
      BY <2>2, <3>2
  <2> QED
    BY <2>3, <2>4
<1> QED
  BY <1>1, <1>2, <1>3 DEF Next

(***************************************************************************)
(* The control part of the invariant holds initially and is inductive.     *)
(***************************************************************************)
LEMMA ControlInit ==
    ASSUME Init
    PROVE  ControlInv
<1> USE DEF Init
<1>1. TypeOK
  <2>1. Zero \in YPoint
    BY Points
  <2> QED
    BY <2>1 DEF TypeOK, SharedTypeOK, Archive!Init, Phase
<1>2. PhaseInv /\ SectionInv /\ FenceInv /\ AnsweredInv
  BY DEF PhaseInv, SectionInv, FenceInv, AnsweredInv, Early, Exploring
<1>3. ActiveInv
  <2>1. {w \in Worker : pc[w] \in Busy} = {}
    BY DEF Busy, Exploring
  <2> QED
    BY <2>1, FS_EmptySet DEF ActiveInv
<1>4. FencesAreDistinct /\ PendingIsAntichain /\ NoEarlyFinish
  BY DEF FencesAreDistinct, PendingIsAntichain, NoEarlyFinish, IsAntichain, Exploring
<1> QED
  BY <1>1, <1>2, <1>3, <1>4 DEF ControlInv

LEMMA ControlNext ==
    ASSUME ControlInv, Next
    PROVE  ControlInv'
BY TypeNext, ActiveNext, PhaseNext, SectionNext, FenceNext, FinishNext DEF ControlInv

-----------------------------------------------------------------------------
(***************************************************************************)
(* No step uncovers a point, and the archive stays an antichain of points  *)
(* of solutions.                                                           *)
(***************************************************************************)
LEMMA StoredNext ==
    ASSUME TypeOK, LocalInv, StoredInv, Next
    PROVE  /\ LocalInv'
           /\ StoredInv'
           /\ feasible' = feasible
           /\ \A p \in YPoint : Covers(Stored, p) => Covers(Stored', p)
<1> USE DEF TypeOK, SharedTypeOK
<1>0. feasible \subseteq YPoint
  BY Points
<1>1. CASE Root
  BY <1>1 DEF Root, LocalInv, StoredInv, Stored
<1>2. CASE Answer
  BY <1>2 DEF Answer, LocalInv, StoredInv, Stored
<1>3. ASSUME NEW w \in Worker, FirstSolution(w)
      PROVE  /\ LocalInv'
             /\ StoredInv'
             /\ feasible' = feasible
             /\ \A p \in YPoint : Covers(Stored, p) => Covers(Stored', p)
  <2>1. PICK q \in feasible : Archive!Sync(w, {q})
    BY <1>3 DEF FirstSolution
  <2>2. {q} \in SUBSET YPoint /\ IsAntichain({q})
    BY <1>0 DEF IsAntichain
  <2>3. /\ front' \in SUBSET YPoint
        /\ front' \subseteq front \cup {q}
        /\ \A p \in YPoint : Covers(front \cup {q}, p) => Covers(front', p)
        /\ IsAntichain(front')
        /\ \A v \in Worker : unread'[v] \subseteq front'
    BY <2>1, <2>2, SyncFacts DEF StoredInv
  <2>4. feasible' = feasible /\ solutions' = solutions
    BY <1>3 DEF FirstSolution
  <2>5. LocalInv'
    BY <1>3 DEF LocalInv, FirstSolution, Goto
  <2>6. StoredInv'
    BY <2>3, <2>4 DEF StoredInv, Stored
  <2>7. ASSUME NEW p \in YPoint, Covers(Stored, p)
        PROVE  Covers(Stored', p)
    <3>1. PICK r \in Stored : dominates(r, p)
      BY <2>7 DEF Covers
    <3>2. CASE r \in front
      <4>1. Covers(front', p)
        BY <2>3, <3>1, <3>2 DEF Covers
      <4> QED
        BY <4>1 DEF Covers, Stored
    <3>3. CASE r \notin front
      BY <2>4, <3>1, <3>3 DEF Covers, Stored
    <3> QED
      BY <3>2, <3>3
  <2> QED
    BY <2>4, <2>5, <2>6, <2>7
<1>4. ASSUME NEW w \in Worker, SolveSat(w)
      PROVE  /\ LocalInv'
             /\ StoredInv'
             /\ feasible' = feasible
             /\ \A p \in YPoint : Covers(Stored, p) => Covers(Stored', p)
  <2>1. PICK p \in Open(w) :
           IF Covers(solutions[w], p)
           THEN UNCHANGED <<pc, excluded, solutions>>
           ELSE /\ solutions' = [solutions EXCEPT ![w] = {q \in @ : ~ dominates(p, q)} \cup {p}]
                /\ Goto(w, "clauses")
    BY <1>4 DEF SolveSat
  <2>2. p \in feasible
    BY DEF Open
  <2>3. feasible' = feasible /\ front' = front /\ unread' = unread /\ pc[w] = "solve"
    BY <1>4 DEF SolveSat
  <2>4. CASE Covers(solutions[w], p)
    <3>1. UNCHANGED <<pc, solutions>>
      BY <2>1, <2>4
    <3> QED
      BY <2>3, <3>1 DEF LocalInv, StoredInv, Stored
  <2>5. CASE ~ Covers(solutions[w], p)
    <3>1. solutions[w] = {}
      BY <2>3 DEF LocalInv
    <3>2. solutions' = [solutions EXCEPT ![w] = {p}] /\ pc' = [pc EXCEPT ![w] = "clauses"]
      BY <2>1, <2>5, <3>1 DEF Goto
    <3>3. LocalInv'
      BY <3>2 DEF LocalInv, IsAntichain
    <3>4. Stored' = Stored \cup {p}
      BY <2>3, <3>1, <3>2 DEF Stored
    <3>5. StoredInv'
      BY <2>2, <2>3, <3>4 DEF StoredInv
    <3> QED
      BY <2>3, <3>3, <3>4, <3>5 DEF Covers
  <2> QED
    BY <2>4, <2>5
<1>5. ASSUME NEW w \in Worker, Solutions(w) \/ Expand(w)
      PROVE  /\ LocalInv'
             /\ StoredInv'
             /\ feasible' = feasible
             /\ \A p \in YPoint : Covers(Stored, p) => Covers(Stored', p)
  <2>1. ShareSolutions(w) /\ feasible' = feasible
    BY <1>5 DEF Solutions, Expand
  <2>2. \A v \in Worker \ {w} : pc'[v] = pc[v]
    BY <1>5 DEF Solutions, Expand, Goto
  <2>5. IsAntichain(solutions[w])
    BY DEF LocalInv
  <2>3. LocalInv'
    BY <2>1, <2>2, <2>5, ShareKeeps DEF LocalInv, IsAntichain
  <2>4. StoredInv'
    BY <2>1, <2>5, ShareKeeps DEF StoredInv
  <2> QED
    BY <2>1, <2>3, <2>4, <2>5, ShareKeeps
<1>6. ASSUME NEW w \in Worker, Step(w),
             ~ FirstSolution(w), ~ SolveSat(w), ~ Solutions(w), ~ Expand(w)
      PROVE  /\ LocalInv'
             /\ StoredInv'
             /\ feasible' = feasible
             /\ \A p \in YPoint : Covers(Stored, p) => Covers(Stored', p)
  <2>1. UNCHANGED <<feasible, front, unread, solutions>>
    BY <1>6 DEF Step, NoFirstSolution, Barrier, Pop, Finish, SolveUnsat, SolveUndef, Clauses,
                Insert, EndInsert, Leave
  <2>2. \A v \in Worker : pc[v] \in {"clauses", "solutions"} => pc'[v] \in {"clauses", "solutions"}
    <3>1. \A v \in Worker \ {w} : pc'[v] = pc[v]
      BY <1>6, StepMoves
    <3>2. CASE Clauses(w)
      BY <3>1, <3>2 DEF Clauses, AfterClauses, Goto
    <3>3. CASE ~ Clauses(w)
      <4>1. pc[w] \notin {"clauses", "solutions"}
        BY <1>6, <3>3 DEF Step, NoFirstSolution, Barrier, Pop, Finish, SolveUnsat, SolveUndef,
                          Insert, EndInsert, Leave
      <4> QED
        BY <3>1, <4>1
    <3> QED
      BY <3>2, <3>3
  <2>3. Stored' = Stored
    BY <2>1 DEF Stored
  <2> QED
    BY <2>1, <2>2, <2>3 DEF LocalInv, StoredInv
<1> QED
  BY <1>1, <1>2, <1>3, <1>4, <1>5, <1>6 DEF Next, Step

(***************************************************************************)
(* No step makes a solver exclude a point without a stored solution that   *)
(* is as good.                                                             *)
(***************************************************************************)
LEMMA ExclusionNext ==
    ASSUME TypeOK, LocalInv, StoredInv, ExclusionIsJustified, Next
    PROVE  ExclusionIsJustified'
<1> USE DEF TypeOK, SharedTypeOK
<1>0. feasible \subseteq YPoint
  BY Points
<1>1. \A p \in YPoint : Covers(Stored, p) => Covers(Stored', p)
  BY StoredNext
<1>2. \A v \in Worker : \A p \in excluded[v] \cup exported : Covers(Stored', p)
  BY <1>1 DEF ExclusionIsJustified
<1>3. ASSUME NEW w \in Worker, NEW D \in SUBSET YPoint, \A p \in D : Covers(Stored', p),
             excluded' = [excluded EXCEPT ![w] = @ \cup D], exported' = exported
      PROVE  ExclusionIsJustified'
  BY <1>2, <1>3 DEF ExclusionIsJustified
<1>4. ASSUME UNCHANGED <<excluded, exported>>
      PROVE  ExclusionIsJustified'
  BY <1>2, <1>4 DEF ExclusionIsJustified
<1>5. CASE Root \/ Answer
  BY <1>4, <1>5 DEF Root, Answer
<1>6. ASSUME NEW w \in Worker, FirstSolution(w)
      PROVE  ExclusionIsJustified'
  <2>1. PICK q \in feasible :
           /\ Archive!Sync(w, {q})
           /\ excluded' = [excluded EXCEPT ![w] = @ \cup DominatedRegion(q)]
    BY <1>6 DEF FirstSolution
  <2>2. Covers(front', q)
    <3>1. q \in YPoint /\ {q} \in SUBSET YPoint
      BY <1>0
    <3>2. Covers(front \cup {q}, q)
      BY <3>1, DominanceOrder DEF Covers
    <3> QED
      BY <2>1, <3>1, <3>2, SyncFacts
  <2>3. PICK r \in front' : dominates(r, q)
    BY <2>2 DEF Covers
  <2>4. front' \in SUBSET YPoint
    BY <2>1, <1>0, SyncFacts
  <2>5. \A p \in DominatedRegion(q) : p \in YPoint /\ dominates(q, p)
    BY <1>0 DEF DominatedRegion
  <2>6. \A p \in DominatedRegion(q) : dominates(r, p)
    BY <2>3, <2>4, <2>5, <1>0, DominanceOrder
  <2>7. \A p \in DominatedRegion(q) : Covers(Stored', p)
    BY <2>6 DEF Covers, Stored
  <2> QED
    BY <1>3, <1>6, <2>1, <2>5, <2>7 DEF FirstSolution
<1>7. ASSUME NEW w \in Worker, SolveSat(w)
      PROVE  ExclusionIsJustified'
  <2>1. PICK q \in Open(w) :
           IF Covers(solutions[w], q)
           THEN UNCHANGED <<pc, excluded, solutions>>
           ELSE /\ solutions' = [solutions EXCEPT ![w] = {r \in @ : ~ dominates(q, r)} \cup {q}]
                /\ excluded' = [excluded EXCEPT ![w] = @ \cup DominatedRegion(q)]
    BY <1>7 DEF SolveSat
  <2>2. exported' = exported
    BY <1>7 DEF SolveSat
  <2>3. CASE Covers(solutions[w], q)
    BY <1>4, <2>1, <2>2, <2>3
  <2>4. CASE ~ Covers(solutions[w], q)
    <3>1. q \in Stored'
      BY <2>1, <2>4 DEF Stored
    <3>2. \A p \in DominatedRegion(q) : p \in YPoint /\ Covers(Stored', p)
      BY <3>1, <1>0 DEF Covers, DominatedRegion
    <3> QED
      BY <1>3, <2>1, <2>2, <2>4, <3>2
  <2> QED
    BY <2>3, <2>4
<1>8. ASSUME NEW w \in Worker, Solutions(w) \/ Expand(w)
      PROVE  ExclusionIsJustified'
  <2>1. /\ excluded' = [excluded EXCEPT ![w] = @ \cup DominatedBy(unread[w])]
        /\ exported' = exported
    BY <1>8 DEF Solutions, Expand, ShareSolutions
  <2>2. unread[w] \subseteq Stored
    BY DEF StoredInv, Stored
  <2>3. \A p \in DominatedBy(unread[w]) : p \in YPoint /\ Covers(Stored, p)
    BY <2>2, <1>0 DEF DominatedBy, Covers
  <2> QED
    BY <1>1, <1>3, <2>1, <2>3
<1>9. ASSUME NEW w \in Worker, Clauses(w)
      PROVE  ExclusionIsJustified'
  <2>1. /\ \A p \in exported' : p \in exported \cup excluded[w]
        /\ \A v \in Worker : \A p \in excluded'[v] : p \in exported \cup excluded[v]
    BY <1>9 DEF Clauses, ShareClauses
  <2> QED
    BY <1>2, <2>1 DEF ExclusionIsJustified
<1>10. ASSUME NEW w \in Worker, Step(w), ~ FirstSolution(w), ~ SolveSat(w), ~ Solutions(w),
              ~ Expand(w), ~ Clauses(w)
       PROVE  ExclusionIsJustified'
  BY <1>4, <1>10 DEF Step, NoFirstSolution, Barrier, Pop, Finish, SolveUnsat, SolveUndef,
                     Insert, EndInsert, Leave
<1> QED
  BY <1>5, <1>6, <1>7, <1>8, <1>9, <1>10 DEF Next

-----------------------------------------------------------------------------
\* A fence can be moved beyond q along an objective of the core whenever some
\* point of a solution lies there, and the child lies strictly outside q.
LEMMA ChildExists ==
    ASSUME NEW q \in YPoint, NEW C \in SUBSET Obj, NEW o \in C, NEW P \in Problem,
           NEW p \in P, p[o] > q[o]
    PROVE  \E c \in ExpansionPoints(q, C) : dominates(q, c) /\ c # q
<1> DEFINE V == {v \in Value[o] : v > q[o]}
<1>1. /\ o \in Obj /\ q[o] \in Nat /\ q[o] <= MaxValue
      /\ p[o] \in Value[o]
      /\ Value[o] \in SUBSET (0 .. MaxValue)
      /\ MaxValue \in Nat
      /\ Stride \in Nat \ {0}
  <2>1. q[o] \in 0 .. MaxValue
    BY DEF YPoint
  <2>2. p[o] \in Value[o]
    BY ParallelAssumption, SearchAssumption
  <2> QED
    BY <2>1, <2>2, ParallelAssumption, SearchAssumption, ObjectiveAssumption
<1>2. V \in SUBSET Nat /\ V # {}
  BY <1>1
<1>3. PICK v \in V : \A u \in V : v <= u
  BY <1>2, LeastNumber
<1>4. IsNext(o, q[o], v) /\ v \in 0 .. MaxValue /\ v > q[o]
  BY <1>1, <1>3 DEF IsNext
<1> DEFINE x == Smaller(MaxValue, Larger(v, q[o] * Stride))
<1> DEFINE c == [q EXCEPT ![o] = x]
<1>5. x \in 0 .. MaxValue /\ x > q[o]
  <2>1. q[o] * Stride \in Nat
    BY <1>1
  <2> QED
    BY <1>1, <1>4, <2>1 DEF Smaller, Larger
<1>6. c \in YPoint
  BY <1>5 DEF YPoint
<1>7. c \in ExpansionPoints(q, C)
  BY <1>4, <1>6 DEF ExpansionPoints
<1>8. dominates(q, c)
  <2>1. ASSUME NEW i \in Obj PROVE q[i] <= c[i]
    <3>1. q[i] \in Nat
      BY ObjectiveAssumption DEF YPoint
    <3>2. c[i] = IF i = o THEN x ELSE q[i]
      BY DEF YPoint
    <3> QED
      BY <1>1, <1>5, <3>1, <3>2
  <2> QED
    BY <2>1 DEF dominates
<1>9. c # q
  <2>1. c[o] = x
    BY <1>1 DEF YPoint
  <2> QED
    BY <2>1, <1>1, <1>5
<1> QED
  BY <1>7, <1>8, <1>9
-----------------------------------------------------------------------------
(***************************************************************************)
(* What no stored solution covers is only ever found, never lost again.    *)
(***************************************************************************)
LEMMA UncoveredNext ==
    ASSUME TypeOK, LocalInv, StoredInv, Next
    PROVE  feasible' = feasible /\ Uncovered' \subseteq Uncovered
<1>1. feasible \subseteq YPoint
  BY Points DEF TypeOK, SharedTypeOK
<1> QED
  BY <1>1, StoredNext DEF Uncovered

(***************************************************************************)
(* No step loses a fence.  The fence of a worker that has inserted its     *)
(* children leaves; one of the children has taken its place.               *)
(***************************************************************************)
LEMMA NoFenceIsLostNext ==
    ASSUME ControlInv, CoverageInv, Next
    PROVE  NoFenceIsLost'
<1> USE DEF ControlInv, CoverageInv, TypeOK, SharedTypeOK
<1>1. SUFFICES ASSUME Uncovered' # {}
               PROVE  \A q \in seen' : \E r \in Alive' : dominates(q, r)
  BY DEF NoFenceIsLost, Uncovered
<1>2. PICK lost \in Uncovered : TRUE
  BY <1>1, UncoveredNext
<1>3. \A q \in seen : \E r \in Alive : dominates(q, r)
  BY <1>2 DEF NoFenceIsLost, Uncovered
<1>4. Alive \subseteq YPoint
  BY DEF Alive
<1>5. ASSUME Alive \subseteq Alive', seen' = seen
      PROVE  \A q \in seen' : \E r \in Alive' : dominates(q, r)
  BY <1>3, <1>5
<1>6. CASE Root
  <2>1. pending = {} /\ seen = {}
    BY <1>6, ParallelAssumption, SearchAssumption DEF Root, PhaseInv, Early, Late, Busy, Exploring
  <2>2. (pending' = {} /\ seen' = {}) \/ (pending' = {Zero} /\ seen' = {Zero})
    BY <1>6, <2>1 DEF Root
  <2> QED
    BY <2>2, Points, DominanceOrder DEF Alive
<1>7. CASE Answer
  BY <1>5, <1>7 DEF Answer, Alive
<1>8. ASSUME NEW w \in Worker, Pop(w)
      PROVE  \A q \in seen' : \E r \in Alive' : dominates(q, r)
  <2>1. PICK q \in pending : /\ pending' = pending \ {q}
                             /\ fence' = [fence EXCEPT ![w] = q]
    BY <1>8 DEF Pop
  <2>2. seen' = seen /\ pc' = [pc EXCEPT ![w] = "solve"] /\ pc[w] = "pop"
    BY <1>8 DEF Pop, Goto
  <2>3. ASSUME NEW v \in Worker, pc[v] \in Exploring
        PROVE  pc'[v] \in Exploring /\ fence'[v] = fence[v]
    BY <2>1, <2>2, <2>3 DEF Exploring
  <2>4. pc'[w] \in Exploring /\ fence'[w] = q
    BY <2>1, <2>2 DEF Exploring
  <2>5. Alive \subseteq Alive'
    BY <2>1, <2>3, <2>4 DEF Alive
  <2> QED
    BY <1>5, <2>2, <2>5
<1>9. ASSUME NEW w \in Worker, Insert(w)
      PROVE  \A q \in seen' : \E r \in Alive' : dominates(q, r)
  <2>1. PICK q \in children[w] : InsertAndPrune(q)
    BY <1>9 DEF Insert
  <2>2. pc' = pc /\ fence' = fence /\ q \in YPoint /\ seen' = seen \cup {q}
    BY <1>9, <2>1 DEF Insert, InsertAndPrune
  <2>3. CASE q \in seen \/ \E r \in pending : dominates(q, r)
    <3>1. Alive' = Alive
      BY <2>1, <2>2, <2>3 DEF InsertAndPrune, Alive
    <3>2. \E r \in Alive : dominates(q, r)
      BY <1>3, <2>3 DEF Alive
    <3> QED
      BY <1>3, <2>2, <3>1, <3>2
  <2>4. CASE ~ (q \in seen \/ \E r \in pending : dominates(q, r))
    <3>1. pending' = {r \in pending : ~ dominates(r, q)} \cup {q}
      BY <2>1, <2>4 DEF InsertAndPrune
    <3>2. q \in Alive' /\ dominates(q, q)
      BY <2>2, <3>1, DominanceOrder DEF Alive
    <3>3. \A r \in Alive : r \in Alive' \/ dominates(r, q)
      BY <2>2, <3>1 DEF Alive
    <3>4. ASSUME NEW s \in seen
          PROVE  \E r \in Alive' : dominates(s, r)
      <4>1. PICK r \in Alive : dominates(s, r)
        BY <1>3
      <4>2. CASE dominates(r, q)
        BY <1>4, <2>2, <3>2, <4>1, <4>2, DominanceOrder
      <4> QED
        BY <3>3, <4>1, <4>2
    <3> QED
      BY <2>2, <3>2, <3>4
  <2> QED
    BY <2>3, <2>4
<1>10. ASSUME NEW w \in Worker, EndInsert(w)
       PROVE  \A q \in seen' : \E r \in Alive' : dominates(q, r)
  <2>1. /\ pc[w] = "insert" /\ children[w] = {}
        /\ pc' = [pc EXCEPT ![w] = "leave"]
        /\ UNCHANGED <<fence, pending, seen>>
    BY <1>10 DEF EndInsert, Goto
  <2>2. PICK c \in seen : dominates(fence[w], c) /\ c # fence[w]
    BY <1>2, <2>1 DEF ExpansionInv
  <2>3. PICK heir \in Alive : dominates(c, heir)
    BY <1>3
  <2>4. dominates(fence[w], heir) /\ heir # fence[w]
    BY <1>4, <2>2, <2>3, DominanceOrder
  <2>5. ASSUME NEW r \in Alive, r # fence[w]
        PROVE  r \in Alive'
    <3>1. CASE r \in pending
      BY <2>1, <3>1 DEF Alive
    <3>2. CASE r \notin pending
      <4>1. PICK v \in Worker : pc[v] \in Exploring /\ r = fence[v]
        BY <3>2 DEF Alive
      <4>2. v # w /\ pc'[v] = pc[v] /\ fence'[v] = r
        BY <2>1, <2>5, <4>1
      <4> QED
        BY <4>1, <4>2 DEF Alive
    <3> QED
      BY <3>1, <3>2
  <2>6. ASSUME NEW s \in seen
        PROVE  \E r \in Alive' : dominates(s, r)
    <3>1. PICK r \in Alive : dominates(s, r)
      BY <1>3
    <3>2. CASE r = fence[w]
      <4>1. dominates(s, heir)
        BY <1>4, <2>4, <3>1, <3>2, DominanceOrder
      <4> QED
        BY <2>4, <2>5, <4>1
    <3> QED
      BY <2>5, <3>1, <3>2
  <2> QED
    BY <2>1, <2>6
<1>11. ASSUME NEW w \in Worker, Step(w), ~ Pop(w), ~ Insert(w), ~ EndInsert(w)
       PROVE  \A q \in seen' : \E r \in Alive' : dominates(q, r)
  <2>1. UNCHANGED <<fence, pending, seen>>
    BY <1>11, FencesKept
  <2>2. \A v \in Worker : pc[v] \in Exploring => pc'[v] \in Exploring
    BY <1>11, StepMoves
  <2>3. Alive \subseteq Alive'
    BY <2>1, <2>2 DEF Alive
  <2> QED
    BY <1>5, <2>1, <2>3
<1> QED
  BY <1>6, <1>7, <1>8, <1>9, <1>10, <1>11 DEF Next
(***************************************************************************)
(* The core of an exhausted box points at everything that is left to find, *)
(* so that the children of its fence lie strictly outside it.              *)
(***************************************************************************)
LEMMA ExpansionNext ==
    ASSUME ControlInv, CoverageInv, Next
    PROVE  ExpansionInv'
<1> USE DEF ControlInv, CoverageInv, TypeOK, SharedTypeOK
<1>1. SUFFICES ASSUME NEW w \in Worker, NEW p \in Uncovered'
               PROVE  /\ pc'[w] \in {"clausesUnsat", "solutionsUnsat"} =>
                            \E o \in core'[w] : p[o] > fence'[w][o]
                      /\ pc'[w] = "insert" =>
                            \E c \in children'[w] \cup seen' :
                               dominates(fence'[w], c) /\ c # fence'[w]
  BY DEF ExpansionInv
<1>2. p \in Uncovered /\ p \in feasible /\ ~ Covers(Stored, p)
  <2>1. p \in Uncovered
    BY UncoveredNext
  <2> QED
    BY <2>1 DEF Uncovered
<1>3. /\ pc[w] \in {"clausesUnsat", "solutionsUnsat"} => \E o \in core[w] : p[o] > fence[w][o]
      /\ pc[w] = "insert" =>
            \E c \in children[w] \cup seen : dominates(fence[w], c) /\ c # fence[w]
  BY <1>2 DEF ExpansionInv
<1>4. CASE Root
  BY <1>4 DEF Root
<1>5. CASE Answer
  BY <1>3, <1>5 DEF Answer
<1>6. ASSUME NEW v \in Worker, Step(v), v # w
      PROVE  /\ pc'[w] = pc[w] /\ fence'[w] = fence[w] /\ core'[w] = core[w]
             /\ children'[w] = children[w] /\ seen \subseteq seen'
  <2>1. pc'[w] = pc[w]
    BY <1>6, StepMoves
  <2>2. CASE Pop(v) \/ SolveUnsat(v) \/ Expand(v) \/ Insert(v)
    BY <1>6, <2>1, <2>2 DEF Pop, SolveUnsat, Expand, Insert, InsertAndPrune
  <2>3. CASE ~ Pop(v) /\ ~ SolveUnsat(v) /\ ~ Expand(v) /\ ~ Insert(v)
    BY <1>6, <2>1, <2>3 DEF Step, FirstSolution, NoFirstSolution, Barrier, Finish, SolveSat,
                            SolveUndef, Clauses, Solutions, EndInsert, Leave
  <2> QED
    BY <2>2, <2>3
<1>7. CASE SolveUnsat(w)
  <2>1. PICK C \in SUBSET Obj : IsCore(w, C) /\ core' = [core EXCEPT ![w] = C]
    BY <1>7 DEF SolveUnsat
  <2>2. p \in Open(w)
    BY <1>2 DEF ExclusionIsJustified, Open
  <2>3. \E o \in C : p[o] > fence[w][o]
    BY <2>1, <2>2 DEF IsCore
  <2>4. pc'[w] = "clausesUnsat" /\ fence' = fence
    BY <1>7 DEF SolveUnsat, Goto
  <2> QED
    BY <2>1, <2>3, <2>4
<1>8. CASE Clauses(w)
  <2>1. /\ core' = core /\ fence' = fence
        /\ pc'[w] = AfterClauses(pc[w])
        /\ pc[w] \in {"joinClauses", "clauses", "clausesUnsat"}
    BY <1>8 DEF Clauses, Goto
  <2>2. CASE pc[w] = "clausesUnsat"
    BY <1>3, <2>1, <2>2 DEF AfterClauses
  <2>3. CASE pc[w] # "clausesUnsat"
    BY <2>1, <2>3 DEF AfterClauses
  <2> QED
    BY <2>2, <2>3
<1>9. CASE Expand(w)
  <2>1. PICK o \in core[w] : p[o] > fence[w][o]
    BY <1>3, <1>9 DEF Expand
  <2>2. \E c \in ExpansionPoints(fence[w], core[w]) : dominates(fence[w], c) /\ c # fence[w]
    BY <1>2, <2>1, ChildExists
  <2>3. /\ pc'[w] = "insert" /\ fence' = fence
        /\ children'[w] = ExpansionPoints(fence[w], core[w])
    BY <1>9 DEF Expand, Goto
  <2> QED
    BY <2>2, <2>3
<1>10. CASE Insert(w)
  <2>1. PICK q \in children[w] : InsertAndPrune(q) /\ children' = [children EXCEPT ![w] = @ \ {q}]
    BY <1>10 DEF Insert
  <2>2. children'[w] \cup seen' = children[w] \cup seen
    BY <2>1 DEF InsertAndPrune
  <2>3. pc'[w] = "insert" /\ fence' = fence /\ pc[w] = "insert"
    BY <1>10 DEF Insert
  <2> QED
    BY <1>3, <2>2, <2>3
<1>11. ASSUME Step(w), ~ SolveUnsat(w), ~ Clauses(w), ~ Expand(w), ~ Insert(w)
       PROVE  pc'[w] \notin {"clausesUnsat", "solutionsUnsat", "insert"}
  <2>1. CASE SolveSat(w)
    BY <2>1 DEF SolveSat, Goto
  <2>2. CASE Barrier(w)
    BY <2>2 DEF Barrier, Goto
  <2>3. CASE Solutions(w)
    BY <2>3 DEF Solutions, Goto
  <2>4. CASE ~ SolveSat(w) /\ ~ Barrier(w) /\ ~ Solutions(w)
    BY <1>11, <2>4 DEF Step, FirstSolution, NoFirstSolution, Pop, Finish, SolveUndef, EndInsert,
                       Leave, Goto
  <2> QED
    BY <2>1, <2>2, <2>3, <2>4
<1>12. ASSUME NEW v \in Worker, Step(v), v # w
       PROVE  /\ pc'[w] \in {"clausesUnsat", "solutionsUnsat"} =>
                    \E o \in core'[w] : p[o] > fence'[w][o]
              /\ pc'[w] = "insert" =>
                    \E c \in children'[w] \cup seen' :
                       dominates(fence'[w], c) /\ c # fence'[w]
  BY <1>3, <1>6, <1>12
<1> QED
  BY <1>4, <1>5, <1>7, <1>8, <1>9, <1>10, <1>11, <1>12 DEF Next
(***************************************************************************)
(* When the last worker is done no fence is left, so that nothing is left  *)
(* to find, and the answer is the one the archive justifies.               *)
(***************************************************************************)
LEMMA AnswerNext ==
    ASSUME ControlInv, CoverageInv, Next
    PROVE  AnswerIsCorrect'
<1> USE DEF ControlInv, CoverageInv, TypeOK, SharedTypeOK
<1>1. CASE Answer
  <2>1. /\ \A w \in Worker : pc[w] = "done"
        /\ answerType' = IF front = {} THEN "unsatisfiable" ELSE "optimum"
        /\ feasible' = feasible /\ front' = front
    BY <1>1 DEF Answer
  <2>2. Alive = {}
    BY <2>1, ParallelAssumption, SearchAssumption DEF NoEarlyFinish, Alive, Exploring
  <2>3. feasible # {} => seen # {}
    BY <2>1, ParallelAssumption, SearchAssumption DEF PhaseInv, Early
  <2>4. Stored = front
    BY <2>1 DEF LocalInv, Stored
  <2>5. \A p \in feasible : Covers(front, p)
    BY <2>2, <2>3, <2>4 DEF NoFenceIsLost
  <2>6. front \subseteq feasible /\ IsAntichain(front) /\ feasible \subseteq YPoint
    BY <2>4, Points DEF StoredInv
  <2>7. feasible # {} <=> front # {}
    BY <2>5, <2>6 DEF Covers
  <2>8. front = NonDominated(feasible)
    BY <2>5, CompleteFront
  <2> QED
    BY <2>1, <2>7, <2>8 DEF AnswerIsCorrect
<1>2. CASE ~ Answer
  <2>1. answerType' = answerType /\ feasible' = feasible
    BY <1>2, StepMoves DEF Next, Root
  <2>2. answerType = "unknown"
    <3>1. \E w \in Worker : pc[w] # "done"
      BY <1>2, StepMoves, ParallelAssumption, SearchAssumption DEF Next, Root
    <3> QED
      BY <3>1 DEF AnsweredInv
  <2> QED
    BY <2>1, <2>2 DEF AnswerIsCorrect
<1> QED
  BY <1>1, <1>2

-----------------------------------------------------------------------------
(***************************************************************************)
(* The coverage part of the invariant holds initially and is inductive,    *)
(* given the control part.                                                 *)
(***************************************************************************)
LEMMA CoverageInit ==
    ASSUME Init
    PROVE  CoverageInv
<1> USE DEF Init, Archive!Init
<1>1. LocalInv /\ StoredInv
  BY DEF LocalInv, StoredInv, Stored, IsAntichain
<1>2. ExclusionIsJustified /\ NoFenceIsLost
  BY DEF ExclusionIsJustified, NoFenceIsLost
<1>3. ExpansionInv /\ AnswerIsCorrect
  BY DEF ExpansionInv, AnswerIsCorrect
<1> QED
  BY <1>1, <1>2, <1>3 DEF CoverageInv

LEMMA CoverageNext ==
    ASSUME ControlInv, CoverageInv, Next
    PROVE  CoverageInv'
BY StoredNext, ExclusionNext, NoFenceIsLostNext, ExpansionNext, AnswerNext
   DEF ControlInv, CoverageInv

(***************************************************************************)
(* A step that changes nothing changes no part of the invariant.           *)
(***************************************************************************)
LEMMA Stutter ==
    ASSUME IInv, UNCHANGED vars
    PROVE  IInv'
<1>1. ControlInv'
  BY DEF vars, IInv, ControlInv, TypeOK, SharedTypeOK, PhaseInv, ActiveInv, SectionInv, FenceInv,
         FencesAreDistinct, PendingIsAntichain, NoEarlyFinish, AnsweredInv
<1>2. Stored' = Stored /\ Alive' = Alive
  BY DEF vars, Stored, Alive
<1>3. Uncovered' = Uncovered
  BY <1>2 DEF vars, Uncovered
<1>4. CoverageInv'
  BY <1>2, <1>3 DEF vars, IInv, CoverageInv, LocalInv, StoredInv, ExclusionIsJustified,
                    NoFenceIsLost, ExpansionInv, AnswerIsCorrect
<1> QED
  BY <1>1, <1>4 DEF IInv

(***************************************************************************)
(* In every state of the search the fences cover what is left to find, and *)
(* the counter, the critical section and the phases of the threads agree   *)
(* with them (Alg_ParUnsatSatMO.cc, rootedSearch and exploreFencedRegion). *)
(***************************************************************************)
THEOREM SearchInvariant == Spec => []IInv
<1>1. Init => IInv
  BY ControlInit, CoverageInit DEF IInv
<1>2. IInv /\ [Next]_vars => IInv'
  BY ControlNext, CoverageNext, Stutter DEF IInv
<1> QED
  BY <1>1, <1>2, PTL DEF Spec

(***************************************************************************)
(* Every variable keeps its type; in particular active never underflows.   *)
(***************************************************************************)
THEOREM TypeCorrect == Spec => []TypeOK
<1>1. IInv => TypeOK
  BY DEF IInv, ControlInv
<1> QED
  BY <1>1, SearchInvariant, PTL

(***************************************************************************)
(* The search answers OPTIMUM only with the whole Pareto front archived,   *)
(* and UNSATISFIABLE only without a solution, for every number of solvers, *)
(* formula, encoding and stride.                                           *)
(***************************************************************************)
THEOREM AnswerCorrect == Spec => []AnswerIsCorrect
<1>1. IInv => AnswerIsCorrect
  BY DEF IInv, CoverageInv
<1> QED
  BY <1>1, SearchInvariant, PTL

(***************************************************************************)
(* As long as something is left to find, every fence that was inserted     *)
(* lies inside one that is pending or being explored.                      *)
(***************************************************************************)
THEOREM FencesCover == Spec => []NoFenceIsLost
<1>1. IInv => NoFenceIsLost
  BY DEF IInv, CoverageInv
<1> QED
  BY <1>1, SearchInvariant, PTL

(***************************************************************************)
(* No solver, and no clause in the shared bag, excludes a point that no    *)
(* stored solution is as good as.                                          *)
(***************************************************************************)
THEOREM ExclusionsJustified == Spec => []ExclusionIsJustified
<1>1. IInv => ExclusionIsJustified
  BY DEF IInv, CoverageInv
<1> QED
  BY <1>1, SearchInvariant, PTL

(***************************************************************************)
(* A worker that leaves the search leaves nothing behind: no fence is      *)
(* pending and nobody explores one.                                        *)
(***************************************************************************)
THEOREM FinishIsFinal == Spec => []NoEarlyFinish
<1>1. IInv => NoEarlyFinish
  BY DEF IInv, ControlInv
<1> QED
  BY <1>1, SearchInvariant, PTL

(***************************************************************************)
(* No fence is explored by two workers, nor explored while it is pending,  *)
(* and no pending fence lies inside another.                               *)
(***************************************************************************)
THEOREM FencesDistinct == Spec => [](FencesAreDistinct /\ PendingIsAntichain)
<1>1. IInv => FencesAreDistinct /\ PendingIsAntichain
  BY DEF IInv, ControlInv
<1> QED
  BY <1>1, SearchInvariant, PTL

(***************************************************************************)
(* A call of the archive with points that do not beat each other is one    *)
(* that it makes a promise about.                                          *)
(***************************************************************************)
LEMMA Promised ==
    ASSUME NEW w \in Worker, NEW S \in SUBSET YPoint, IsAntichain(S), Archive!Sync(w, S)
    PROVE  Archive!Next
<1>1. S \in SUBSET Archive!YPoint /\ Archive!IsAntichain(S)
  BY DEF IsAntichain, dominates, YPoint, Archive!IsAntichain, Archive!dominates,
         Archive!YPoint
<1> QED
  BY <1>1 DEF Archive!Next

(***************************************************************************)
(* The search uses the archive as it promises to work: what happens to the *)
(* archive is a behaviour of SharedFront (shareSolutions and               *)
(* consolidateSolution).                                                   *)
(***************************************************************************)
THEOREM UsesArchive == Spec => ArchiveSpec
<1>1. Init => Archive!Init
  BY DEF Init
<1>2. ASSUME IInv, Next
      PROVE  Archive!Next \/ UNCHANGED <<front, unread>>
  <2>1. SharedTypeOK /\ LocalInv
    BY <1>2 DEF IInv, ControlInv, CoverageInv, TypeOK
  <2>2. ASSUME NEW w \in Worker, Solutions(w) \/ Expand(w)
        PROVE  Archive!Next
    <3>1. Archive!Sync(w, solutions[w])
      BY <2>2 DEF Solutions, Expand, ShareSolutions
    <3>2. solutions[w] \in SUBSET YPoint /\ IsAntichain(solutions[w])
      BY <2>1 DEF SharedTypeOK, LocalInv
    <3> QED
      BY <3>1, <3>2, Promised
  <2>3. ASSUME NEW w \in Worker, FirstSolution(w)
        PROVE  Archive!Next
    <3>1. PICK p \in feasible : Archive!Sync(w, {p})
      BY <2>3 DEF FirstSolution
    <3>2. {p} \in SUBSET YPoint /\ IsAntichain({p})
      BY <2>1, Points DEF SharedTypeOK, IsAntichain
    <3> QED
      BY <3>1, <3>2, Promised
  <2>4. CASE Root \/ Answer
    BY <2>4 DEF Root, Answer
  <2>5. ASSUME NEW w \in Worker, Step(w), ~ Solutions(w), ~ Expand(w), ~ FirstSolution(w)
        PROVE  UNCHANGED <<front, unread>>
    BY <2>5 DEF Step, NoFirstSolution, Barrier, Pop, Finish, SolveSat, SolveUnsat, SolveUndef,
                Clauses, Insert, EndInsert, Leave
  <2> QED
    BY <1>2, <2>2, <2>3, <2>4, <2>5 DEF Next
<1>3. ASSUME IInv, [Next]_vars
      PROVE  [Archive!Next]_<<front, unread>>
  BY <1>2, <1>3 DEF vars
<1> QED
  BY <1>1, <1>3, SearchInvariant, PTL DEF Spec, ArchiveSpec, Archive!Spec
=============================================================================
