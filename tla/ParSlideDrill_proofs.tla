-------------------------- MODULE ParSlideDrill_proofs --------------------------
(***************************************************************************)
(* Proofs about ParSlideDrill, for every number of workers and every set   *)
(* of solutions: no region is lost, no slide is processed twice or called  *)
(* with a variable that is switched off, and the search answers with the   *)
(* Pareto front.                                                           *)
(***************************************************************************)
EXTENDS ParSlideDrill, Pareto_proofs, SequenceTheorems

(***************************************************************************)
(* What an exchange of w with the shared archive does to the archive and   *)
(* to what the workers have still to read (see Synchronised).              *)
(***************************************************************************)
LEMMA SyncFacts ==
    ASSUME SharedTypeOK, NEW w \in Worker, NEW S \in SUBSET YPoint, Archive!Sync(w, S)
    PROVE  /\ front' \in SUBSET YPoint
           /\ unread' \in [Worker -> SUBSET YPoint]
           /\ front' \subseteq front \cup S
           /\ \A p \in YPoint : Covers(front \cup S, p) => Covers(front', p)
           /\ IsAntichain(front) /\ IsAntichain(S) => IsAntichain(front')
           /\ (\A v \in Worker : unread[v] \subseteq front)
                 => \A v \in Worker : unread'[v] \subseteq front'
           /\ \A v \in Worker \ {w} : front' \ unread'[v] \subseteq front \ unread[v]
           /\ front' \ unread'[w] \subseteq (front \ unread[w]) \cup unread[w] \cup S
<1>1. /\ Archive!New(S) = Joining(front, S)
      /\ Archive!Beaten(S) = Dropped(front, S)
  BY DEF Joining, Dropped, Archive!New, Archive!Beaten, Archive!Covers, Archive!dominates,
         Covers, dominates
<1>2. /\ front' = Joined(front, S)
      /\ unread' = StillUnread(Worker, unread, w, front, S)
  BY <1>1 DEF Archive!Sync, Joined, StillUnread
<1>3. front \in SUBSET YPoint /\ unread \in [Worker -> SUBSET YPoint]
  BY DEF SharedTypeOK
<1> QED
  BY <1>2, <1>3, JoinFacts, Synchronised

(***************************************************************************)
(* Pushing moves the local front of a worker into the archive: nothing     *)
(* that was covered by a stored solution is uncovered by it.               *)
(***************************************************************************)
LEMMA PushKeeps ==
    ASSUME SharedTypeOK, StoredInv, NEW w \in Worker, IsAntichain(solutions[w]),
           Archive!Sync(w, solutions[w]), solutions' = [solutions EXCEPT ![w] = {}]
    PROVE  /\ \A p \in YPoint : Covers(Stored, p) => Covers(Stored', p)
           /\ Stored' \subseteq Stored
           /\ IsAntichain(front')
           /\ \A v \in Worker : unread'[v] \subseteq front'
<1>1. /\ Archive!Sync(w, solutions[w])
      /\ solutions' = [solutions EXCEPT ![w] = {}]
      /\ solutions \in [Worker -> SUBSET YPoint] /\ front \in SUBSET YPoint
  BY DEF SharedTypeOK
<1>2. /\ front' \in SUBSET (front \cup solutions[w])
      /\ \A p \in YPoint : Covers(front \cup solutions[w], p) => Covers(front', p)
      /\ IsAntichain(front')
      /\ \A v \in Worker : unread'[v] \subseteq front'
  BY <1>1, SyncFacts DEF StoredInv
<1>3. /\ Stored = Together(Worker, front, solutions)
      /\ Stored' = Together(Worker, front', [solutions EXCEPT ![w] = {}])
  BY <1>1 DEF Stored, Together
<1> QED
  BY <1>1, <1>2, <1>3, Moved

\* The labels of a worker's steps, which the proofs tell apart.
Label == {"start", "pop", "done"} \cup Busy

(***************************************************************************)
(* What is blocked for points or pulled from others is made of points, and *)
(* every point is in the region of the top.                                *)
(***************************************************************************)
LEMMA Points ==
    ASSUME TypeOK
    PROVE  /\ feasible \subseteq YPoint
           /\ \A S : DominatedBy(S) \subseteq feasible
           /\ \A p : DominatedRegion(p) \subseteq feasible
           /\ Top \in YPoint
           /\ \A p \in YPoint : dominates(p, Top)
<1>1. feasible \subseteq YPoint
  BY ParallelAssumption DEF TypeOK, SharedTypeOK
<1>2. MaxValue \in Nat
  BY ObjectiveAssumption
<1>3. Top \in YPoint
  BY <1>2 DEF Top, YPoint
<1>4. \A p \in YPoint : \A o \in Obj : p[o] <= MaxValue /\ Top[o] = MaxValue
  BY <1>2 DEF Top, YPoint
<1> QED
  BY <1>1, <1>3, <1>4 DEF DominatedBy, DominatedRegion, dominates

(***************************************************************************)
(* A sequence that is appended to.                                         *)
(***************************************************************************)
LEMMA Appended ==
    ASSUME NEW S, NEW s \in Seq(S), NEW e \in S
    PROVE  /\ Append(s, e) \in Seq(S)
           /\ Len(s) \in Nat /\ Len(Append(s, e)) = Len(s) + 1
           /\ DOMAIN s = 1 .. Len(s) /\ DOMAIN Append(s, e) = 1 .. Len(s) + 1
           /\ DOMAIN Append(s, e) = DOMAIN s \cup {Len(s) + 1}
           /\ Len(s) + 1 \notin DOMAIN s
           /\ \A i \in DOMAIN s : Append(s, e)[i] = s[i] /\ s[i] \in S
           /\ Append(s, e)[Len(s) + 1] = e
<1>1. /\ Append(s, e) \in Seq(S)
      /\ Len(Append(s, e)) = Len(s) + 1
      /\ \A i \in 1 .. Len(s) : Append(s, e)[i] = s[i]
      /\ Append(s, e)[Len(s) + 1] = e
  BY AppendProperties
<1>2. Len(s) \in Nat /\ DOMAIN s = 1 .. Len(s) /\ \A i \in 1 .. Len(s) : s[i] \in S
  BY LenProperties, ElementOfSeq
<1>3. DOMAIN Append(s, e) = 1 .. Len(s) + 1
  BY <1>1, LenProperties
<1> QED
  BY <1>1, <1>2, <1>3

(***************************************************************************)
(* The numbers of the variables, and what the log says of them.            *)
(***************************************************************************)
LEMMA Sequences ==
    ASSUME TypeOK
    PROVE  /\ Len(definition) \in Nat /\ Variable = 1 .. Len(definition)
           /\ Len(definition) + 1 \notin Variable
           /\ \A v \in Variable : definition[v] \in YPoint
           /\ Len(sharedUpdates) \in Nat
           /\ DOMAIN sharedUpdates = 1 .. Len(sharedUpdates)
           /\ \A i \in DOMAIN sharedUpdates :
                 sharedUpdates[i].final \in BOOLEAN /\ sharedUpdates[i].var \in Nat
<1>1. definition \in Seq(YPoint) /\ sharedUpdates \in Seq(Update)
  BY DEF TypeOK
<1>2. /\ Len(definition) \in Nat /\ Variable = 1 .. Len(definition)
      /\ Len(sharedUpdates) \in Nat /\ DOMAIN sharedUpdates = 1 .. Len(sharedUpdates)
  BY <1>1, LenProperties DEF Variable
<1>3. \A v \in Variable : definition[v] \in YPoint
  BY <1>1, <1>2, ElementOfSeq
<1>4. \A i \in DOMAIN sharedUpdates : sharedUpdates[i] \in Update
  BY <1>1, <1>2, ElementOfSeq
<1> QED
  BY <1>2, <1>3, <1>4 DEF Update

-----------------------------------------------------------------------------
(***************************************************************************)
(* A worker moves from label to label; only Pop takes it to work, only     *)
(* Leave back, and only Finish to the end.                                 *)
(***************************************************************************)
LEMMA StepMoves ==
    ASSUME TypeOK, NEW w \in Worker, Step(w)
    PROVE  /\ pc' \in [Worker -> Label]
           /\ \A v \in Worker \ {w} : pc'[v] = pc[v]
           /\ pc[w] # "start" /\ pc[w] # "done" /\ pc'[w] # "start"
           /\ pc'[w] = "done" => Finish(w)
           /\ pc[w] \in Busy <=> ~ Pop(w) /\ ~ Finish(w)
           /\ pc'[w] \in Busy <=> ~ Leave(w) /\ ~ Finish(w)
           /\ answerType' = answerType /\ first' = first /\ feasible' = feasible /\ mode' = mode
<1> USE DEF Label, Busy, Drilling, Sliding, Closing
<1>1. pc \in [Worker -> Label]
  BY DEF TypeOK
<1>2. CASE Pop(w) \/ Finish(w)
  BY <1>1, <1>2 DEF Pop, Finish, Leave, Goto
<1>3. CASE ApplyUpdates(w) \/ Clauses(w) \/ Solutions(w)
  <2>1. /\ pc[w] \in {"apply", "applyDrill", "applySlide", "applyDone", "clausesDrill",
                      "clausesSlide", "share", "shareDone"}
        /\ pc' = [pc EXCEPT ![w] = After(pc[w])]
        /\ answerType' = answerType /\ first' = first /\ feasible' = feasible /\ mode' = mode
    BY <1>3 DEF ApplyUpdates, Clauses, Solutions, Goto
  <2>2. /\ After(pc[w]) \in {"share", "drill", "clausesDrill", "solveDrill", "clausesSlide",
                             "solveSlide", "shareDone", "insert"}
    BY <2>1 DEF After
  <2> QED
    BY <1>1, <1>3, <2>1, <2>2 DEF Pop, Finish, Leave
<1>4. CASE Drill(w) \/ Solve(w) \/ Exhausted(w) \/ OutOfBudget(w)
  BY <1>1, <1>4 DEF Drill, Solve, Exhausted, OutOfBudget, Pop, Finish, Leave, Goto
<1>5. CASE Publish(w)
  BY <1>1, <1>5 DEF Publish, Pop, Finish, Leave, Goto
<1>6. CASE Finalize(w) \/ EndFinalize(w)
  BY <1>1, <1>6 DEF Finalize, EndFinalize, Pop, Finish, Leave, Goto
<1>7. CASE Insert(w) \/ Erase(w) \/ Leave(w)
  BY <1>1, <1>7 DEF Insert, Erase, Pop, Finish, Leave, Goto
<1> QED
  BY <1>2, <1>3, <1>4, <1>5, <1>6, <1>7 DEF Step

(***************************************************************************)
(* A step of a worker leaves the other workers' state alone.               *)
(***************************************************************************)
LEMMA Others ==
    ASSUME TypeOK, NEW w \in Worker, Step(w), NEW v \in Worker, v # w
    PROVE  /\ pc'[v] = pc[v] /\ marker'[v] = marker[v] /\ found'[v] = found[v]
           /\ assumed'[v] = assumed[v] /\ batch'[v] = batch[v] /\ requeue'[v] = requeue[v]
           /\ nextUpdate'[v] = nextUpdate[v]
           /\ excluded'[v] = excluded[v] /\ solutions'[v] = solutions[v]
<1> USE DEF TypeOK, SharedTypeOK, locals, slides, sharing
<1>1. pc'[v] = pc[v]
  BY StepMoves
<1>2. CASE Pop(w) \/ Finish(w) \/ ApplyUpdates(w) \/ Drill(w)
  BY <1>1, <1>2 DEF Pop, Finish, ApplyUpdates, Drill
<1>3. CASE Clauses(w) \/ Solutions(w)
  BY <1>1, <1>3 DEF Clauses, Solutions, ShareClauses, ShareSolutions
<1>4. CASE Solve(w) \/ Exhausted(w) \/ OutOfBudget(w)
  BY <1>1, <1>4 DEF Solve, Exhausted, OutOfBudget
<1>5. CASE Publish(w)
  BY <1>1, <1>5 DEF Publish
<1>6. CASE Finalize(w) \/ EndFinalize(w) \/ Insert(w) \/ Erase(w) \/ Leave(w)
  BY <1>1, <1>6 DEF Finalize, EndFinalize, Insert, Erase, Leave
<1> QED
  BY <1>2, <1>3, <1>4, <1>5, <1>6 DEF Step

(***************************************************************************)
(* active counts the workers that process a point.                         *)
(***************************************************************************)
LEMMA Counted ==
    ASSUME TypeOK, PhaseInv, Next
    PROVE  /\ active' \in Nat
           /\ active' = Cardinality({v \in Worker : pc'[v] \in Busy})
<1> DEFINE B == {v \in Worker : pc[v] \in Busy}
<1> DEFINE C == {v \in Worker : pc'[v] \in Busy}
<1>1. IsFiniteSet(B) /\ active = Cardinality(B) /\ Cardinality(B) \in Nat
  <2>1. IsFiniteSet(B)
    BY FS_Subset, ParallelAssumption
  <2> QED
    BY <2>1, FS_CardinalityType DEF PhaseInv
<1>2. CASE Start \/ NoFirstSolution \/ Answer
  <2>1. C = B /\ active' = active
    BY <1>2 DEF Start, NoFirstSolution, Answer, list, Busy, Drilling, Sliding, Closing
  <2> QED
    BY <1>1, <2>1
<1>3. ASSUME NEW w \in Worker, Step(w)
      PROVE  active' \in Nat /\ active' = Cardinality(C)
  <2>1. CASE Pop(w)
    <3>1. C = B \cup {w} /\ w \notin B
      BY <1>3, <2>1, StepMoves DEF Pop, Finish, Leave
    <3>2. active' = active + 1
      BY <2>1 DEF Pop
    <3>3. Cardinality(C) = Cardinality(B) + 1
      BY <1>1, <3>1, FS_AddElement
    <3> QED
      BY <1>1, <3>2, <3>3
  <2>2. CASE Leave(w)
    <3>1. C = B \ {w} /\ w \in B
      BY <1>3, <2>2, StepMoves DEF Pop, Finish, Leave
    <3>2. active' = active - 1
      BY <2>2 DEF Leave
    <3>3. IsFiniteSet(C) /\ Cardinality(C) = Cardinality(B) - 1
      BY <1>1, <3>1, FS_RemoveElement
    <3> QED
      BY <1>1, <3>2, <3>3, FS_CardinalityType
  <2>3. CASE ~ Pop(w) /\ ~ Leave(w)
    <3>1. C = B
      BY <1>3, <2>3, StepMoves DEF Finish
    <3>2. active' = active
      BY <1>3, <2>3 DEF Step, list, Finish, ApplyUpdates, Clauses, Solutions, Drill, Solve,
           Exhausted, OutOfBudget, Publish, Finalize, EndFinalize, Insert, Erase
    <3> QED
      BY <1>1, <3>1, <3>2
  <2> QED
    BY <2>1, <2>2, <2>3
<1> QED
  BY <1>2, <1>3 DEF Next

(***************************************************************************)
(* A model that is published is new to the worker's local front, so that   *)
(* it is always added, with a variable of its own.                         *)
(***************************************************************************)
LEMMA Publishes ==
    ASSUME TypeOK, PhaseInv, BlockedInv, FoundInv, NEW w \in Worker, Publish(w)
    PROVE  LET p == found[w]
               v == Len(definition) + 1
           IN  /\ p \in feasible /\ p \in YPoint /\ p \notin excluded[w]
               /\ dominates(p, marker[w]) /\ p # marker[w]
               /\ ~ Covers(solutions[w], p)
               /\ solutions' = [solutions EXCEPT ![w] = {q \in @ : ~ dominates(p, q)} \cup {p}]
               /\ excluded' = [excluded EXCEPT ![w] = @ \cup DominatedRegion(p)]
               /\ definition' = Append(definition, p)
               /\ sharedUpdates' = Append(sharedUpdates, [final |-> FALSE, var |-> v])
               /\ mem' = [mem EXCEPT ![marker[w]] = @ \cup {v}]
               /\ assumed' = [assumed EXCEPT ![w] = @ \cup {v}]
               /\ batch' = [batch EXCEPT ![w] = @ \cup {p}]
<1> DEFINE p == found[w]
<1>1. pc[w] = "publish"
  BY DEF Publish
<1>2. p \in feasible /\ p \notin excluded[w] /\ dominates(p, marker[w]) /\ p # marker[w]
  BY <1>1 DEF FoundInv, Open
<1>3. answerType = "unknown"
  BY <1>1 DEF PhaseInv
<1>4. ~ Covers(solutions[w], p)
  <2>1. DominatedBy((front \ unread[w]) \cup solutions[w] \cup first) \subseteq excluded[w]
    BY <1>3 DEF BlockedInv
  <2> QED
    BY <1>2, <2>1 DEF DominatedBy, Covers
<1>5. p \in YPoint
  BY <1>2, Points
<1> QED
  BY <1>2, <1>4, <1>5 DEF Publish

(***************************************************************************)
(* Every step keeps the types.                                             *)
(***************************************************************************)
LEMMA TypeNext ==
    ASSUME TypeOK, PhaseInv, BlockedInv, FoundInv, Next
    PROVE  TypeOK'
<1>1. active' \in Nat
  BY Counted
<1>2. CASE Start \/ NoFirstSolution
  <2>1. CASE Start
    <3>1. PICK p \in feasible : /\ first' = {p}
                                /\ excluded' = [w \in Worker |-> excluded[w] \cup DominatedRegion(p)]
      BY <2>1 DEF Start
    <3>2. p \in YPoint /\ DominatedRegion(p) \subseteq YPoint /\ Top \in YPoint
      BY Points
    <3> QED
      BY <1>1, <2>1, <3>1, <3>2 DEF Start, TypeOK, SharedTypeOK, locals, slides, Variable
  <2>2. CASE NoFirstSolution
    BY <1>1, <2>2 DEF NoFirstSolution, TypeOK, SharedTypeOK, locals, slides, sharing, list,
                      Variable
  <2> QED
    BY <1>2, <2>1, <2>2
<1>3. CASE Answer
  <2>1. front' \in SUBSET YPoint /\ unread' \in [Worker -> SUBSET YPoint]
    BY <1>3, MainAssumption, SyncFacts DEF Answer, TypeOK
  <2> QED
    BY <1>1, <1>3, <2>1 DEF Answer, TypeOK, SharedTypeOK, locals, slides, list, Variable
<1>4. ASSUME NEW w \in Worker, Step(w)
      PROVE  TypeOK'
  <2>1. pc' \in [Worker -> Label]
    BY <1>4, StepMoves
  <2> USE DEF TypeOK, SharedTypeOK, locals, slides, sharing, Label, Variable
  <2>2. CASE Pop(w) \/ Finish(w)
    BY <1>1, <2>1, <2>2 DEF Pop, Finish, list
  <2>3. CASE ApplyUpdates(w)
    <3>1. Len(sharedUpdates) \in Nat
      BY Sequences
    <3> QED
      BY <1>1, <2>1, <2>3, <3>1 DEF ApplyUpdates, list
  <2>4. CASE Clauses(w)
    BY <1>1, <2>1, <2>4 DEF Clauses, ShareClauses, list
  <2>5. CASE Solutions(w)
    <3>1. /\ front' \in SUBSET YPoint /\ unread' \in [Worker -> SUBSET YPoint]
          /\ DominatedBy(unread[w]) \subseteq YPoint
      BY <2>5, Points, SyncFacts DEF Solutions, ShareSolutions
    <3> QED
      BY <1>1, <2>1, <2>5, <3>1 DEF Solutions, ShareSolutions, list
  <2>6. CASE Drill(w) \/ Exhausted(w) \/ OutOfBudget(w)
    BY <1>1, <2>1, <2>6 DEF Drill, Exhausted, OutOfBudget, list
  <2>7. CASE Solve(w)
    <3>1. \A p \in Candidates(w) : p \in YPoint
      BY Points DEF Candidates, Open
    <3> QED
      BY <1>1, <2>1, <2>7, <3>1 DEF Solve, list
  <2>8. CASE Publish(w)
    <3> DEFINE p == found[w]
    <3> DEFINE v == Len(definition) + 1
    <3>1. /\ p \in YPoint /\ DominatedRegion(p) \subseteq YPoint
          /\ solutions' = [solutions EXCEPT ![w] = {q \in @ : ~ dominates(p, q)} \cup {p}]
          /\ excluded' = [excluded EXCEPT ![w] = @ \cup DominatedRegion(p)]
          /\ definition' = Append(definition, p)
          /\ sharedUpdates' = Append(sharedUpdates, [final |-> FALSE, var |-> v])
          /\ mem' = [mem EXCEPT ![marker[w]] = @ \cup {v}]
          /\ assumed' = [assumed EXCEPT ![w] = @ \cup {v}]
          /\ batch' = [batch EXCEPT ![w] = @ \cup {p}]
      BY <2>8, Points, Publishes
    <3>2. /\ definition' \in Seq(YPoint) /\ v \in Nat
          /\ Variable' = Variable \cup {v}
      BY <3>1, Appended
    <3>3. sharedUpdates' \in Seq(Update)
      <4>1. [final |-> FALSE, var |-> v] \in Update
        BY <3>2 DEF Update
      <4> QED
        BY <3>1, <4>1, Appended
    <3>4. assumed' \in [Worker -> SUBSET Variable'] /\ mem' \in [YPoint -> SUBSET Variable']
      BY <3>1, <3>2
    <3>5. /\ solutions' \in [Worker -> SUBSET YPoint] /\ excluded' \in [Worker -> SUBSET YPoint]
          /\ batch' \in [Worker -> SUBSET YPoint]
      BY <3>1
    <3> HIDE DEF p, v
    <3> QED
      BY <1>1, <2>1, <2>8, <3>2, <3>3, <3>4, <3>5 DEF Publish, list
  <2>9. CASE Finalize(w)
    <3>1. PICK v \in ToFinalize(w) :
             sharedUpdates' = Append(sharedUpdates, [final |-> TRUE, var |-> v])
      BY <2>9 DEF Finalize
    <3>2. v \in Nat
      BY <3>1, Sequences DEF ToFinalize
    <3>3. sharedUpdates' \in Seq(Update)
      <4>1. [final |-> TRUE, var |-> v] \in Update
        BY <3>2 DEF Update
      <4> QED
        BY <3>1, <4>1, Appended
    <3> QED
      BY <1>1, <2>1, <2>9, <3>3 DEF Finalize, list
  <2>10. CASE EndFinalize(w) \/ Insert(w) \/ Erase(w) \/ Leave(w)
    BY <1>1, <2>1, <2>10 DEF EndFinalize, Insert, Erase, Leave, list
  <2> QED
    BY <1>4, <2>2, <2>3, <2>4, <2>5, <2>6, <2>7, <2>8, <2>9, <2>10 DEF Step
<1> QED
  BY <1>2, <1>3, <1>4 DEF Next

-----------------------------------------------------------------------------
(***************************************************************************)
(* Nothing that is covered is uncovered by a step: not by the archive, not *)
(* by it and a local front, and not by everything that is known.           *)
(***************************************************************************)
LEMMA StoredNext ==
    ASSUME TypeOK, StoredInv, PhaseInv, LocalInv, BlockedInv, FoundInv, Next
    PROVE  /\ StoredInv'
           /\ feasible' = feasible
           /\ \A p \in YPoint :
                 /\ Covers(front, p) => Covers(front', p)
                 /\ \A v \in Worker : Covers(front \cup solutions[v], p)
                                         => Covers(front' \cup solutions'[v], p)
                 /\ Covers(Known, p) => Covers(Known', p)
<1> USE DEF TypeOK, SharedTypeOK
<1>1. first \subseteq feasible /\ IsAntichain(first)
  BY DEF PhaseInv, IsAntichain
<1>2. ASSUME UNCHANGED <<feasible, solutions, front, unread>>, first \subseteq first'
      PROVE  /\ StoredInv'
             /\ feasible' = feasible
             /\ \A p \in YPoint :
                   /\ Covers(front, p) => Covers(front', p)
                   /\ \A v \in Worker : Covers(front \cup solutions[v], p)
                                           => Covers(front' \cup solutions'[v], p)
                   /\ Covers(Known, p) => Covers(Known', p)
  <2>1. Stored' = Stored /\ Known \subseteq Known'
    BY <1>2 DEF Stored, Known
  <2> QED
    BY <1>2, <2>1 DEF StoredInv, Covers
<1>3. CASE Start \/ NoFirstSolution
  <2>1. first \subseteq first'
    BY <1>3, MainAssumption DEF Start, NoFirstSolution, PhaseInv
  <2> QED
    BY <1>2, <1>3, <2>1 DEF Start, NoFirstSolution, sharing
<1>4. CASE Answer
  <2>1. /\ Archive!Sync(Main, first) /\ first \in SUBSET YPoint
        /\ UNCHANGED <<feasible, solutions, first>>
    BY <1>1, <1>4, Points DEF Answer
  <2>2. /\ front' \in SUBSET YPoint
        /\ front' \subseteq front \cup first
        /\ \A p \in YPoint : Covers(front \cup first, p) => Covers(front', p)
        /\ IsAntichain(front')
        /\ \A v \in Worker : unread'[v] \subseteq front'
    BY <1>1, <2>1, MainAssumption, SyncFacts DEF StoredInv
  <2>3. Stored' \subseteq feasible
    BY <1>1, <2>1, <2>2 DEF Stored, StoredInv
  <2>4. ASSUME NEW p \in YPoint
        PROVE  /\ Covers(front, p) => Covers(front', p)
               /\ \A v \in Worker : Covers(front \cup solutions[v], p)
                                       => Covers(front' \cup solutions'[v], p)
               /\ Covers(Known, p) => Covers(Known', p)
    <3>1. Covers(front, p) => Covers(front', p)
      BY <2>2 DEF Covers
    <3> QED
      BY <2>1, <3>1 DEF Covers, Known, Stored
  <2> QED
    BY <2>1, <2>2, <2>3, <2>4 DEF StoredInv
<1>5. ASSUME NEW w \in Worker, Step(w)
      PROVE  /\ StoredInv'
             /\ feasible' = feasible
             /\ \A p \in YPoint :
                   /\ Covers(front, p) => Covers(front', p)
                   /\ \A v \in Worker : Covers(front \cup solutions[v], p)
                                           => Covers(front' \cup solutions'[v], p)
                   /\ Covers(Known, p) => Covers(Known', p)
  <2>1. feasible' = feasible /\ first' = first
    BY <1>5, StepMoves
  <2>2. CASE Publish(w)
    <3> DEFINE q == found[w]
    <3>1. /\ q \in feasible /\ q \in YPoint
          /\ solutions' = [solutions EXCEPT ![w] = {x \in @ : ~ dominates(q, x)} \cup {q}]
      BY <2>2, Publishes
    <3>2. UNCHANGED <<front, unread>>
      BY <2>2 DEF Publish
    <3> HIDE DEF q
    <3>3. Stored' \subseteq Stored \cup {q}
      BY <3>1, <3>2 DEF Stored
    <3>4. ASSUME NEW v \in Worker, NEW x \in solutions[v]
          PROVE  \E y \in solutions'[v] : dominates(y, x)
      BY <3>1, DominanceOrder
    <3>5. ASSUME NEW p \in YPoint, NEW v \in Worker, NEW x \in solutions[v], dominates(x, p)
          PROVE  Covers(solutions'[v], p)
      <4>1. PICK y \in solutions'[v] : dominates(y, x)
        BY <3>4
      <4>2. y \in YPoint /\ x \in YPoint
        BY <3>1
      <4> QED
        BY <3>5, <4>1, <4>2, DominanceOrder DEF Covers
    <3>6. ASSUME NEW p \in YPoint
          PROVE  /\ Covers(front, p) => Covers(front', p)
                 /\ \A v \in Worker : Covers(front \cup solutions[v], p)
                                         => Covers(front' \cup solutions'[v], p)
                 /\ Covers(Known, p) => Covers(Known', p)
      BY <2>1, <3>2, <3>5 DEF Covers, Known, Stored
    <3> QED
      BY <2>1, <3>1, <3>2, <3>3, <3>6 DEF StoredInv
  <2>3. CASE Solutions(w)
    <3>1. /\ Archive!Sync(w, solutions[w]) /\ solutions[w] \in SUBSET YPoint
          /\ solutions' = [solutions EXCEPT ![w] = {}]
          /\ IsAntichain(solutions[w])
      BY <2>3 DEF Solutions, ShareSolutions, LocalInv
    <3>2. /\ \A p \in YPoint : Covers(Stored, p) => Covers(Stored', p)
          /\ Stored' \subseteq Stored
          /\ IsAntichain(front')
          /\ \A v \in Worker : unread'[v] \subseteq front'
      BY <3>1, PushKeeps
    <3>3. \A p \in YPoint : Covers(front \cup solutions[w], p) => Covers(front', p)
      BY <3>1, SyncFacts
    <3>4. ASSUME NEW p \in YPoint
          PROVE  /\ Covers(front, p) => Covers(front', p)
                 /\ \A v \in Worker : Covers(front \cup solutions[v], p)
                                         => Covers(front' \cup solutions'[v], p)
                 /\ Covers(Known, p) => Covers(Known', p)
      <4>1. Covers(front, p) => Covers(front', p)
        BY <3>3 DEF Covers
      <4>2. Covers(Known, p) => Covers(Known', p)
        BY <2>1, <3>2 DEF Covers, Known
      <4>3. ASSUME NEW v \in Worker, Covers(front \cup solutions[v], p)
            PROVE  Covers(front' \cup solutions'[v], p)
        <5>1. CASE v = w
          BY <3>3, <4>3, <5>1 DEF Covers
        <5>2. CASE v # w
          <6>1. solutions'[v] = solutions[v]
            BY <3>1, <5>2
          <6> QED
            BY <4>1, <4>3, <6>1 DEF Covers
        <5> QED
          BY <5>1, <5>2
      <4> QED
        BY <4>1, <4>2, <4>3
    <3> QED
      BY <2>1, <3>2, <3>4 DEF StoredInv
  <2>4. CASE ~ Publish(w) /\ ~ Solutions(w)
    <3>1. UNCHANGED <<solutions, front, unread>>
      BY <1>5, <2>4 DEF Step, sharing, Pop, Finish, ApplyUpdates, Clauses, Drill, Solve,
         Exhausted, OutOfBudget, Finalize, EndFinalize, Insert, Erase, Leave
    <3> QED
      BY <1>2, <2>1, <3>1
  <2> QED
    BY <2>2, <2>3, <2>4
<1> QED
  BY <1>3, <1>4, <1>5 DEF Next

(***************************************************************************)
(* A solver never forgets, and what it or the shared clauses exclude from  *)
(* a step on is covered by what is known after the step.                   *)
(***************************************************************************)
LEMMA ExcludedNext ==
    ASSUME TypeOK, StoredInv, PhaseInv, LocalInv, BlockedInv, FoundInv, Next, NEW v \in Worker
    PROVE  /\ excluded[v] \subseteq excluded'[v]
           /\ \A p \in excluded'[v] \cup exported' : Covers(Known', p)
<1> USE DEF TypeOK, SharedTypeOK
<1> DEFINE Justified == {p \in YPoint : Covers(Known, p)}
<1>0. exported \subseteq Justified /\ \A w \in Worker : excluded[w] \subseteq Justified
  BY MainAssumption DEF BlockedInv
<1>1. \A p \in Justified : Covers(Known', p)
  BY StoredNext
<1> HIDE DEF Justified
<1>2. ASSUME excluded[v] \subseteq excluded'[v],
             \A p \in excluded'[v] \cup exported' : p \in Justified \/ Covers(Known', p)
      PROVE  /\ excluded[v] \subseteq excluded'[v]
             /\ \A p \in excluded'[v] \cup exported' : Covers(Known', p)
  BY <1>1, <1>2
<1>3. CASE UNCHANGED <<excluded, exported>>
  BY <1>0, <1>2, <1>3
<1>4. CASE Start
  <2>1. PICK p \in feasible : /\ first' = {p}
                              /\ excluded' = [w \in Worker |-> excluded[w] \cup DominatedRegion(p)]
    BY <1>4 DEF Start
  <2>2. \A q \in DominatedRegion(p) : Covers(Known', q)
    BY <2>1 DEF DominatedRegion, Known, Covers
  <2> QED
    BY <1>0, <1>2, <1>4, <2>1, <2>2 DEF Start
<1>5. ASSUME NEW w \in Worker, Clauses(w)
      PROVE  /\ excluded[v] \subseteq excluded'[v]
             /\ \A p \in excluded'[v] \cup exported' : p \in Justified
  <2>1. \/ UNCHANGED <<excluded, exported>>
        \/ /\ exported' = exported \/ exported' = exported \cup excluded[w]
           /\ excluded' = [excluded EXCEPT ![w] = @ \cup exported]
    BY <1>5 DEF Clauses, ShareClauses
  <2>2. exported' \subseteq Justified
    BY <1>0, <2>1
  <2>3. excluded'[v] = excluded[v] \/ excluded'[v] = excluded[v] \cup exported
    BY <2>1
  <2> QED
    BY <1>0, <2>2, <2>3
<1>6. ASSUME NEW w \in Worker, Solutions(w)
      PROVE  /\ excluded[v] \subseteq excluded'[v]
             /\ \A p \in excluded'[v] \cup exported' : p \in Justified \/ Covers(Known', p)
  <2>1. /\ excluded' = [excluded EXCEPT ![w] = @ \cup DominatedBy(unread[w])]
        /\ exported' = exported
    BY <1>6 DEF Solutions, ShareSolutions
  <2>2. ASSUME NEW p \in DominatedBy(unread[w])
        PROVE  Covers(Known', p)
    <3>1. p \in YPoint /\ Covers(Known, p)
      BY Points DEF DominatedBy, Covers, Known, Stored, StoredInv
    <3> QED
      BY <3>1, StoredNext
  <2> QED
    BY <1>0, <2>1, <2>2
<1>7. ASSUME NEW w \in Worker, Publish(w)
      PROVE  /\ excluded[v] \subseteq excluded'[v]
             /\ \A p \in excluded'[v] \cup exported' : p \in Justified \/ Covers(Known', p)
  <2>1. /\ excluded' = [excluded EXCEPT ![w] = @ \cup DominatedRegion(found[w])]
        /\ exported' = exported
        /\ found[w] \in solutions'[w]
    BY <1>7, Publishes DEF Publish
  <2>2. ASSUME NEW p \in DominatedRegion(found[w])
        PROVE  Covers(Known', p)
    BY <2>1 DEF DominatedRegion, Known, Stored, Covers
  <2> QED
    BY <1>0, <2>1, <2>2
<1>8. ASSUME NEW w \in Worker, Step(w), ~ Clauses(w), ~ Solutions(w), ~ Publish(w)
      PROVE  UNCHANGED <<excluded, exported>>
  BY <1>8 DEF Step, sharing, Pop, Finish, ApplyUpdates, Drill, Solve, Exhausted, OutOfBudget,
              Finalize, EndFinalize, Insert, Erase, Leave
<1>9. CASE NoFirstSolution \/ Answer
  BY <1>3, <1>9 DEF NoFirstSolution, Answer, sharing
<1> QED
  BY <1>2, <1>3, <1>4, <1>5, <1>6, <1>7, <1>8, <1>9 DEF Next

(***************************************************************************)
(* As long as there is no answer, what a worker has pushed, pulled or      *)
(* found, and the first solution, are blocked in its solver.               *)
(***************************************************************************)
LEMMA BlockedNext ==
    ASSUME TypeOK, StoredInv, PhaseInv, LocalInv, BlockedInv, FoundInv, Next
    PROVE  BlockedInv'
<1> USE DEF TypeOK, SharedTypeOK
<1>1. feasible' = feasible
  BY StoredNext
<1>2. ASSUME NEW S, NEW T, NEW U, S \subseteq T \cup U, NEW v \in Worker,
             DominatedBy(T) \subseteq excluded[v], DominatedBy(U) \subseteq excluded'[v]
      PROVE  DominatedBy(S)' \subseteq excluded'[v]
  <2>1. DominatedBy(S)' \subseteq DominatedBy(T) \cup DominatedBy(U)
    BY <1>1, <1>2 DEF DominatedBy, Covers
  <2> QED
    BY <1>2, <2>1, ExcludedNext
<1>3. DominatedBy({}) = {}
  BY DEF DominatedBy, Covers
<1> DEFINE Given(v) == (front \ unread[v]) \cup solutions[v] \cup first
<1>4. ASSUME answerType' = "unknown", NEW v \in Worker
      PROVE  DominatedBy(Given(v))' \subseteq excluded'[v]
  <2>1. CASE Start
    <3>1. PICK p \in feasible : /\ first' = {p}
                                /\ excluded' = [w \in Worker |-> excluded[w] \cup DominatedRegion(p)]
      BY <2>1 DEF Start
    <3>2. answerType = "unknown" /\ UNCHANGED <<front, unread, solutions>>
      BY <1>4, <2>1 DEF Start
    <3>3. DominatedBy({p}) \subseteq excluded'[v]
      BY <3>1 DEF DominatedBy, DominatedRegion, Covers
    <3>4. Given(v)' \subseteq Given(v) \cup {p}
      BY <3>1, <3>2
    <3>5. DominatedBy(Given(v)) \subseteq excluded[v]
      BY <3>2 DEF BlockedInv
    <3>6. DominatedBy(Given(v))' = {q \in feasible' : Covers(Given(v)', q)}
      BY DEF DominatedBy, Covers
    <3> HIDE DEF Given
    <3> QED
      BY <1>1, <3>3, <3>4, <3>5, <3>6, ExcludedNext DEF DominatedBy, Covers
  <2>2. ASSUME NEW w \in Worker, Step(w)
        PROVE  DominatedBy(Given(v))' \subseteq excluded'[v]
    <3>1. answerType = "unknown" /\ first' = first
      BY <1>4, <2>2, StepMoves
    <3>2. DominatedBy(Given(v)) \subseteq excluded[v]
      BY <3>1 DEF BlockedInv
    <3>3. DominatedBy(Given(v))' = {q \in feasible' : Covers(Given(v)', q)}
      BY DEF DominatedBy, Covers
    <3>4. ASSUME NEW U, DominatedBy(U) \subseteq excluded'[v], Given(v)' \subseteq Given(v) \cup U
          PROVE  DominatedBy(Given(v))' \subseteq excluded'[v]
      <4> HIDE DEF Given
      <4> QED
        BY <1>1, <3>2, <3>3, <3>4, ExcludedNext DEF DominatedBy, Covers
    <3>5. CASE Publish(w) /\ v = w
      <4>1. /\ solutions'[v] \subseteq solutions[v] \cup {found[v]}
            /\ excluded'[v] = excluded[v] \cup DominatedRegion(found[v])
        BY <3>5, Publishes
      <4>2. DominatedBy({found[v]}) \subseteq excluded'[v]
        BY <4>1 DEF DominatedBy, DominatedRegion, Covers
      <4>3. UNCHANGED <<front, unread>>
        BY <3>5 DEF Publish
      <4> QED
        BY <3>1, <3>4, <4>1, <4>2, <4>3
    <3>6. CASE Solutions(w)
      <4>1. /\ Archive!Sync(w, solutions[w]) /\ solutions[w] \in SUBSET YPoint
            /\ solutions' = [solutions EXCEPT ![w] = {}]
            /\ excluded' = [excluded EXCEPT ![w] = @ \cup DominatedBy(unread[w])]
        BY <3>6 DEF Solutions, ShareSolutions
      <4>2. CASE v = w
        <5>1. front' \ unread'[v] \subseteq (front \ unread[v]) \cup unread[v] \cup solutions[v]
          BY <4>1, <4>2, SyncFacts
        <5>2. DominatedBy(unread[v]) \subseteq excluded'[v]
          BY <4>1, <4>2
        <5> QED
          BY <3>1, <3>4, <4>1, <4>2, <5>1, <5>2
      <4>3. CASE v # w
        <5>1. front' \ unread'[v] \subseteq front \ unread[v]
          BY <4>1, <4>3, SyncFacts
        <5> QED
          BY <1>3, <3>1, <3>4, <4>1, <4>3, <5>1
      <4> QED
        BY <4>2, <4>3
    <3>7. CASE ~ Solutions(w) /\ (Publish(w) => v # w)
      <4>1. solutions'[v] = solutions[v] /\ UNCHANGED <<front, unread>>
        <5>1. CASE Publish(w)
          BY <2>2, <3>7, <5>1, Others DEF Publish
        <5>2. CASE ~ Publish(w)
          BY <2>2, <3>7, <5>2 DEF Step, sharing, Pop, Finish, ApplyUpdates, Clauses, Drill, Solve,
             Exhausted, OutOfBudget, Finalize, EndFinalize, Insert, Erase, Leave
        <5> QED
          BY <5>1, <5>2
      <4> QED
        BY <1>3, <3>1, <3>4, <4>1
    <3> QED
      BY <3>5, <3>6, <3>7
  <2>3. ~ NoFirstSolution /\ ~ Answer
    BY <1>4 DEF NoFirstSolution, Answer
  <2> QED
    BY <2>1, <2>2, <2>3 DEF Next
<1>5. \A v \in Worker : \A p \in excluded'[v] \cup exported' : Covers(Known', p)
  BY ExcludedNext
<1> QED
  BY <1>4, <1>5 DEF BlockedInv

-----------------------------------------------------------------------------
(***************************************************************************)
(* What follows the calls of applyUpdates, shareClauses, shareSolutions.   *)
(***************************************************************************)
LEMMA Calls ==
    ASSUME TypeOK, NEW w \in Worker
    PROVE  /\ ApplyUpdates(w) => \/ pc[w] = "apply" /\ pc'[w] = "share"
                                 \/ pc[w] = "applyDrill" /\ pc'[w] = "clausesDrill"
                                 \/ pc[w] = "applySlide" /\ pc'[w] = "clausesSlide"
                                 \/ pc[w] = "applyDone" /\ pc'[w] = "shareDone"
           /\ Clauses(w) => \/ pc[w] = "clausesDrill" /\ pc'[w] = "solveDrill"
                            \/ pc[w] = "clausesSlide" /\ pc'[w] = "solveSlide"
           /\ Solutions(w) => \/ pc[w] = "share" /\ pc'[w] = "drill"
                              \/ pc[w] = "shareDone" /\ pc'[w] = "insert"
<1>1. pc \in [Worker -> Label]
  BY DEF TypeOK, Label
<1>2. CASE ApplyUpdates(w)
  <2>1. pc[w] \in {"apply", "applyDrill", "applySlide", "applyDone"} /\ pc'[w] = After(pc[w])
    BY <1>1, <1>2 DEF ApplyUpdates, Goto
  <2> QED
    BY <2>1 DEF After, Clauses, Solutions
<1>3. CASE Clauses(w)
  <2>1. pc[w] \in {"clausesDrill", "clausesSlide"} /\ pc'[w] = After(pc[w])
    BY <1>1, <1>3 DEF Clauses, Goto
  <2> QED
    BY <2>1 DEF After, ApplyUpdates, Solutions
<1>4. CASE Solutions(w)
  <2>1. pc[w] \in {"share", "shareDone"} /\ pc'[w] = After(pc[w])
    BY <1>1, <1>4 DEF Solutions, Goto
  <2> QED
    BY <2>1 DEF After, ApplyUpdates, Clauses
<1> QED
  BY <1>2, <1>3, <1>4

(***************************************************************************)
(* Local fronts and points to insert belong to a slide that is not over.   *)
(***************************************************************************)
LEMMA LocalNext ==
    ASSUME TypeOK, StoredInv, PhaseInv, LocalInv, BlockedInv, FoundInv, Next
    PROVE  LocalInv'
<1> USE DEF TypeOK, SharedTypeOK
<1> DEFINE Fine(v) ==
      /\ solutions[v] # {} => pc[v] \in Unshared
      /\ batch[v] # {} => pc[v] \in Unshared \cup {"insert"}
      /\ requeue[v] => pc[v] \in {"shareDone", "insert", "leave", "pop", "done"}
      /\ IsAntichain(solutions[v])
      /\ \A p \in batch[v] : p \in feasible /\ Covers(front \cup solutions[v], p)
<1>1. \A v \in Worker : Fine(v)
  BY DEF LocalInv
<1>2. feasible' = feasible
  BY StoredNext
<1>3. ASSUME NEW v \in Worker, solutions'[v] = solutions[v] \/ solutions'[v] = {},
             batch'[v] = batch[v] \/ batch'[v] = {}
      PROVE  /\ IsAntichain(solutions'[v])
             /\ \A p \in batch'[v] : p \in feasible' /\ Covers(front' \cup solutions'[v], p)
  <2>1. IsAntichain(solutions'[v])
    BY <1>1, <1>3 DEF IsAntichain
  <2>2. ASSUME NEW p \in batch'[v]
        PROVE  p \in feasible' /\ Covers(front' \cup solutions'[v], p)
    <3>1. p \in batch[v] /\ p \in feasible /\ p \in YPoint
      BY <1>3, <2>2, <1>1, Points
    <3>2. Covers(front \cup solutions[v], p)
      BY <1>1, <3>1
    <3> QED
      BY <1>2, <3>1, <3>2, StoredNext
  <2> QED
    BY <2>1, <2>2
<1>4. ASSUME NEW v \in Worker, solutions'[v] = solutions[v], batch'[v] = batch[v],
             requeue'[v] = requeue[v], pc'[v] = pc[v]
      PROVE  Fine(v)'
  BY <1>1, <1>3, <1>4
<1>5. CASE Start \/ NoFirstSolution \/ Answer
  <2>1. ASSUME NEW v \in Worker
        PROVE  Fine(v)'
    <3>1. CASE Answer
      BY <1>4, <3>1 DEF Answer, locals
    <3>2. CASE Start \/ NoFirstSolution
      <4>1. /\ solutions' = solutions /\ batch' = batch /\ requeue' = requeue
            /\ pc[v] = "start" /\ pc'[v] \in {"pop", "done"}
        BY <3>2 DEF Start, NoFirstSolution, locals, sharing
      <4>2. solutions[v] = {} /\ batch[v] = {} /\ ~ requeue[v]
        BY <1>1, <4>1 DEF Unshared, Sliding
      <4> QED
        BY <1>3, <4>1, <4>2
    <3> QED
      BY <1>5, <3>1, <3>2
  <2> QED
    BY <2>1 DEF LocalInv
<1>6. ASSUME NEW w \in Worker, Step(w)
      PROVE  LocalInv'
  <2>1. ASSUME NEW v \in Worker, v # w
        PROVE  Fine(v)'
    BY <1>4, <1>6, <2>1, Others
  <2> USE DEF Unshared, Sliding
  <2>2. ASSUME Publish(w) PROVE Fine(w)'
    <3> DEFINE q == found[w]
    <3>1. /\ q \in feasible /\ q \in YPoint /\ ~ Covers(solutions[w], q)
          /\ solutions'[w] = {x \in solutions[w] : ~ dominates(q, x)} \cup {q}
          /\ batch'[w] = batch[w] \cup {q}
      BY <2>2, Publishes
    <3>2. pc'[w] = "applySlide" /\ pc[w] = "publish" /\ requeue'[w] = requeue[w]
      BY <2>2 DEF Publish, Goto
    <3>3. ~ requeue[w]
      BY <1>1, <3>2
    <3> HIDE DEF q
    <3>4. IsAntichain(solutions'[w])
      BY <1>1, <3>1 DEF IsAntichain, Covers
    <3>5. ASSUME NEW p \in batch'[w]
          PROVE  p \in feasible' /\ Covers(front' \cup solutions'[w], p)
      <4>1. CASE p = q
        BY <1>2, <3>1, <4>1, DominanceOrder DEF Covers
      <4>2. CASE p # q
        <5>1. p \in batch[w]
          BY <3>1, <4>2
        <5>2. p \in feasible /\ p \in YPoint /\ Covers(front \cup solutions[w], p)
          BY <1>1, <5>1, Points
        <5> QED
          BY <1>2, <5>2, StoredNext
      <4> QED
        BY <4>1, <4>2
    <3> QED
      BY <3>2, <3>3, <3>4, <3>5
  <2>3. ASSUME ~ Publish(w) PROVE Fine(w)'
    <3>1. /\ solutions'[w] = solutions[w] \/ solutions'[w] = {}
          /\ batch'[w] = batch[w] \/ batch'[w] = {}
      BY <1>6, <2>3 DEF Step, sharing, locals, Pop, Finish, ApplyUpdates, Clauses, Drill, Solve,
         Exhausted, OutOfBudget, Finalize, EndFinalize, Insert, Erase, Leave, Solutions,
         ShareSolutions
    <3>2. /\ solutions'[w] # {} => pc'[w] \in Unshared
          /\ batch'[w] # {} => pc'[w] \in Unshared \cup {"insert"}
          /\ requeue'[w] => pc'[w] \in {"shareDone", "insert", "leave", "pop", "done"}
      <4>1. CASE ApplyUpdates(w)
        <5>1. solutions'[w] = solutions[w] /\ batch'[w] = batch[w] /\ requeue'[w] = requeue[w]
          BY <4>1 DEF ApplyUpdates, sharing, locals
        <5> QED
          BY <1>1, <4>1, <5>1, Calls
      <4>2. CASE Clauses(w)
        <5>1. solutions'[w] = solutions[w] /\ batch'[w] = batch[w] /\ requeue'[w] = requeue[w]
          BY <4>2 DEF Clauses, locals
        <5> QED
          BY <1>1, <4>2, <5>1, Calls
      <4>3. CASE Solutions(w)
        <5>1. solutions'[w] = {} /\ batch'[w] = batch[w] /\ requeue'[w] = requeue[w]
          BY <4>3 DEF Solutions, ShareSolutions, locals
        <5> QED
          BY <1>1, <4>3, <5>1, Calls
      <4>4. CASE Pop(w) \/ Finish(w)
        BY <1>1, <4>4 DEF Pop, Finish, sharing, locals, Goto
      <4>5. CASE Drill(w) \/ Solve(w) \/ Exhausted(w)
        BY <1>1, <4>5 DEF Drill, Solve, Exhausted, sharing, locals, Goto
      <4>6. CASE OutOfBudget(w)
        BY <1>1, <4>6 DEF OutOfBudget, sharing, Goto
      <4>7. CASE Finalize(w) \/ EndFinalize(w)
        BY <1>1, <4>7 DEF Finalize, EndFinalize, sharing, locals, Goto
      <4>8. CASE Insert(w) \/ Erase(w) \/ Leave(w)
        BY <1>1, <4>8 DEF Insert, Erase, Leave, sharing, locals, Goto
      <4> QED
        BY <1>6, <2>3, <4>1, <4>2, <4>3, <4>4, <4>5, <4>6, <4>7, <4>8 DEF Step
    <3> QED
      BY <1>3, <3>1, <3>2
  <2>4. Fine(w)'
    BY <2>2, <2>3
  <2> HIDE DEF Fine
  <2>5. \A v \in Worker : Fine(v)'
    BY <2>1, <2>4
  <2> QED
    BY <2>5 DEF LocalInv, Fine
<1> QED
  BY <1>5, <1>6 DEF Next

(***************************************************************************)
(* A point that is in the list or about to be inserted stays one of them,  *)
(* and what a step adds is the point that it publishes.                    *)
(***************************************************************************)
LEMMA SeenNext ==
    ASSUME TypeOK, PhaseInv, LocalInv, BlockedInv, FoundInv, Next
    PROVE  /\ seen \subseteq seen'
           /\ seen \cup Batched \subseteq seen' \cup Batched'
           /\ seen' \subseteq seen \cup Batched \cup {Top}
<1> USE DEF TypeOK
<1>1. CASE Start
  <2>1. seen = {} /\ seen' = {Top} /\ batch' = batch
    BY <1>1, MainAssumption DEF Start, PhaseInv, locals
  <2> QED
    BY <1>1, <2>1 DEF Batched
<1>2. CASE NoFirstSolution \/ Answer
  BY <1>2 DEF NoFirstSolution, Answer, list, locals, Batched
<1>3. ASSUME NEW w \in Worker, Step(w), batch[w] \subseteq batch'[w]
      PROVE  Batched \subseteq Batched'
  <2>1. \A v \in Worker : batch[v] \subseteq batch'[v]
    <3>1. ASSUME NEW v \in Worker, v # w
          PROVE  batch'[v] = batch[v]
      BY <1>3, <3>1, Others
    <3> QED
      BY <1>3, <3>1
  <2> QED
    BY <2>1 DEF Batched
<1>4. ASSUME NEW w \in Worker, Insert(w)
      PROVE  /\ seen \subseteq seen'
             /\ seen \cup Batched \subseteq seen' \cup Batched'
             /\ seen' \subseteq seen \cup Batched
  <2>1. seen' = seen \cup batch[w] /\ batch' = [batch EXCEPT ![w] = {}]
    BY <1>4 DEF Insert
  <2> QED
    BY <2>1 DEF Batched
<1>5. ASSUME NEW w \in Worker, Step(w), ~ Insert(w)
      PROVE  seen' = seen /\ batch[w] \subseteq batch'[w]
  <2>1. CASE Publish(w)
    BY <2>1, Publishes DEF Publish, list
  <2>2. CASE ~ Publish(w)
    BY <1>5, <2>2 DEF Step, list, locals, Pop, Finish, ApplyUpdates, Clauses, Solutions, Drill,
       Solve, Exhausted, OutOfBudget, Finalize, EndFinalize, Erase, Leave
  <2> QED
    BY <2>1, <2>2
<1> QED
  BY <1>1, <1>2, <1>3, <1>4, <1>5 DEF Next

(***************************************************************************)
(* Nobody works before the first solution or after the last region.        *)
(***************************************************************************)
LEMMA PhaseNext ==
    ASSUME TypeOK, StoredInv, PhaseInv, LocalInv, BlockedInv, FoundInv, Next
    PROVE  PhaseInv'
<1>1. active' = Cardinality({v \in Worker : pc'[v] \in Busy})
  BY Counted
<1>2. seen \subseteq seen'
  BY SeenNext
<1>3. "start" \notin Busy /\ "pop" \notin Busy /\ "done" \notin Busy
  BY DEF Busy, Drilling, Sliding, Closing
<1>4. CASE Start
  <2>1. PICK p \in feasible : first' = {p}
    BY <1>4 DEF Start
  <2>2. /\ \A w \in Worker : pc'[w] = "pop" /\ pc[w] = "start"
        /\ seen' = {Top} /\ feasible' = feasible /\ answerType' = answerType
    BY <1>4 DEF Start
  <2>3. answerType = "unknown"
    BY <2>2, MainAssumption DEF PhaseInv
  <2> QED
    BY <1>1, <2>1, <2>2, <2>3 DEF PhaseInv
<1>5. CASE NoFirstSolution
  <2>1. /\ \A w \in Worker : pc'[w] = "done" /\ pc[w] = "start"
        /\ answerType' = "unsatisfiable"
        /\ UNCHANGED <<pending, seen, first, feasible>>
    BY <1>5 DEF NoFirstSolution, list
  <2>2. pending = {}
    BY <2>1, MainAssumption DEF PhaseInv
  <2> QED
    BY <1>1, <1>3, <2>1, <2>2 DEF PhaseInv
<1>6. CASE Answer
  <2>1. /\ \A w \in Worker : pc[w] = "done"
        /\ answerType = "unknown" /\ answerType' = "optimum"
        /\ UNCHANGED <<pc, pending, seen, first, feasible>>
    BY <1>6 DEF Answer, list
  <2> QED
    BY <1>1, <1>3, <2>1 DEF PhaseInv
<1>7. ASSUME NEW w \in Worker, Step(w)
      PROVE  PhaseInv'
  <2>1. /\ \A v \in Worker \ {w} : pc'[v] = pc[v]
        /\ pc[w] # "start" /\ pc[w] # "done" /\ pc'[w] # "start"
        /\ pc'[w] = "done" => Finish(w)
        /\ pc[w] \in Busy <=> ~ Pop(w) /\ ~ Finish(w)
        /\ answerType' = answerType /\ first' = first /\ feasible' = feasible
    BY <1>7, StepMoves
  <2>2. \A v \in Worker : pc[v] # "start" /\ pc'[v] # "start"
    BY <2>1 DEF PhaseInv
  <2>3. answerType = "unknown"
    BY <2>1 DEF PhaseInv
  <2>4. ASSUME NEW v \in Worker, pc'[v] = "done"
        PROVE  pending' = {} /\ \A u \in Worker : pc'[u] \notin Busy
    <3>1. CASE Finish(w)
      <4>1. pending' = pending /\ pending = {} /\ active = 0 /\ pc'[w] = "done"
        BY <3>1, <1>7 DEF Finish, list, Goto, TypeOK
      <4>2. {u \in Worker : pc[u] \in Busy} = {}
        <5>1. IsFiniteSet({u \in Worker : pc[u] \in Busy})
          BY FS_Subset, ParallelAssumption
        <5>2. Cardinality({u \in Worker : pc[u] \in Busy}) = 0
          BY <4>1 DEF PhaseInv
        <5> QED
          BY <5>1, <5>2, FS_EmptySet
      <4> QED
        BY <1>3, <2>1, <4>1, <4>2
    <3>2. CASE ~ Finish(w)
      <4>1. v # w /\ pc[v] = "done"
        BY <2>1, <2>4, <3>2
      <4>2. pending = {} /\ pc[w] \notin Busy
        BY <4>1 DEF PhaseInv
      <4>3. Pop(w)
        BY <2>1, <3>2, <4>2
      <4> QED
        BY <4>2, <4>3 DEF Pop
    <3> QED
      BY <3>1, <3>2
  <2> QED
    BY <1>1, <1>2, <2>1, <2>2, <2>3, <2>4 DEF PhaseInv
<1> QED
  BY <1>4, <1>5, <1>6, <1>7 DEF Next

-----------------------------------------------------------------------------
(***************************************************************************)
(* A model is only taken over from the solver, which has excluded the      *)
(* point that the worker drills from.                                      *)
(***************************************************************************)
LEMMA FoundNext ==
    ASSUME TypeOK, StoredInv, PhaseInv, LocalInv, BlockedInv, FoundInv, DrillsAreStrict, Next
    PROVE  FoundInv'
<1> USE DEF TypeOK, SharedTypeOK
<1>1. CASE Start \/ NoFirstSolution \/ Answer
  <2>1. \A w \in Worker : pc'[w] # "publish"
    BY <1>1 DEF Start, NoFirstSolution, Answer
  <2> QED
    BY <2>1 DEF FoundInv
<1>2. ASSUME NEW w \in Worker, Step(w)
      PROVE  FoundInv'
  <2>1. feasible' = feasible
    BY <1>2, StepMoves
  <2>2. ASSUME NEW v \in Worker, v # w, pc'[v] = "publish"
        PROVE  /\ found'[v] \in Open(v)'
               /\ dominates(found'[v], marker'[v]) /\ found'[v] # marker'[v]
    <3>1. /\ pc[v] = "publish" /\ found'[v] = found[v] /\ marker'[v] = marker[v]
          /\ excluded'[v] = excluded[v]
      BY <1>2, <2>2, Others
    <3> QED
      BY <2>1, <3>1 DEF FoundInv, Open
  <2>3. ASSUME pc'[w] = "publish"
        PROVE  /\ found'[w] \in Open(w)'
               /\ dominates(found'[w], marker'[w]) /\ found'[w] # marker'[w]
    <3>1. Solve(w)
      <4>1. ~ ApplyUpdates(w) /\ ~ Clauses(w) /\ ~ Solutions(w)
        BY <2>3, Calls
      <4>2. ~ Pop(w) /\ ~ Finish(w) /\ ~ Drill(w) /\ ~ Exhausted(w) /\ ~ OutOfBudget(w)
        BY <2>3 DEF Pop, Finish, Drill, Exhausted, OutOfBudget, Goto
      <4>3. ~ Publish(w) /\ ~ Finalize(w) /\ ~ EndFinalize(w) /\ ~ Insert(w) /\ ~ Erase(w)
               /\ ~ Leave(w)
        BY <2>3 DEF Publish, Finalize, EndFinalize, Insert, Erase, Leave, Goto
      <4> QED
        BY <1>2, <4>1, <4>2, <4>3 DEF Step
    <3>2. PICK p \in Candidates(w) : found' = [found EXCEPT ![w] = p]
      BY <3>1 DEF Solve
    <3>3. p \in feasible /\ p \notin excluded[w] /\ dominates(p, marker[w])
      BY <3>2 DEF Candidates, Open
    <3>4. marker[w] \in feasible => marker[w] \in excluded[w]
      BY <3>1 DEF Solve, DrillsAreStrict, Sliding
    <3>5. UNCHANGED <<excluded, marker>> /\ found'[w] = p
      BY <3>1, <3>2 DEF Solve, sharing
    <3> QED
      BY <2>1, <3>3, <3>4, <3>5 DEF Open
  <2> QED
    BY <2>2, <2>3 DEF FoundInv
<1> QED
  BY <1>1, <1>2 DEF Next

(***************************************************************************)
(* Whoever drills has pulled what covers its point, or had it blocked.     *)
(***************************************************************************)
LEMMA StrictNext ==
    ASSUME TypeOK, StoredInv, PhaseInv, LocalInv, BlockedInv, FoundInv, ListInv,
           DrillsAreStrict, Next
    PROVE  DrillsAreStrict'
<1> USE DEF TypeOK, SharedTypeOK
<1> DEFINE D == {"drill", "applyDrill", "clausesDrill", "solveDrill"} \cup Sliding
<1>1. CASE Start \/ NoFirstSolution \/ Answer
  <2>1. \A w \in Worker : pc'[w] \notin D
    BY <1>1 DEF Start, NoFirstSolution, Answer, Sliding
  <2> QED
    BY <2>1 DEF DrillsAreStrict
<1>2. ASSUME NEW w \in Worker, Step(w)
      PROVE  DrillsAreStrict'
  <2>1. feasible' = feasible
    BY <1>2, StepMoves
  <2>2. ASSUME NEW v \in Worker, v # w, pc'[v] \in D, marker'[v] \in feasible'
        PROVE  marker'[v] \in excluded'[v]
    <3>1. pc[v] \in D /\ marker'[v] = marker[v] /\ excluded'[v] = excluded[v]
      BY <1>2, <2>2, Others
    <3> QED
      BY <2>1, <2>2, <3>1 DEF DrillsAreStrict
  <2>3. ASSUME pc'[w] \in D, marker'[w] \in feasible'
        PROVE  marker'[w] \in excluded'[w]
    <3>1. CASE Solutions(w)
      <4>1. /\ pc[w] = "share" /\ marker' = marker
            /\ excluded'[w] = excluded[w] \cup DominatedBy(unread[w])
        BY <2>3, <3>1, Calls DEF Solutions, ShareSolutions, locals, Sliding
      <4>2. marker[w] \in seen \cap feasible
        BY <2>1, <2>3, <4>1 DEF ListInv, Busy, Drilling
      <4>3. answerType = "unknown"
        BY <4>1 DEF PhaseInv
      <4>4. CASE marker[w] \in excluded[w]
        BY <4>1, <4>4
      <4>5. CASE Covers(front, marker[w])
        <5>1. PICK f \in front : dominates(f, marker[w])
          BY <4>5 DEF Covers
        <5>2. CASE f \in unread[w]
          BY <4>1, <4>2, <5>1, <5>2 DEF DominatedBy, Covers
        <5>3. CASE f \notin unread[w]
          <6>1. marker[w] \in DominatedBy((front \ unread[w]) \cup solutions[w] \cup first)
            BY <4>2, <5>1, <5>3 DEF DominatedBy, Covers
          <6> QED
            BY <4>1, <4>3, <6>1 DEF BlockedInv
        <5> QED
          BY <5>2, <5>3
      <4> QED
        BY <4>2, <4>4, <4>5 DEF ListInv
    <3>2. CASE ~ Solutions(w)
      <4>1. pc[w] \in D /\ marker'[w] = marker[w]
        <5>1. CASE ApplyUpdates(w) \/ Clauses(w)
          BY <2>3, <5>1, Calls DEF ApplyUpdates, Clauses, locals, Sliding
        <5>2. ~ Pop(w) /\ ~ Finish(w)
          BY <2>3 DEF Pop, Finish, Goto, Sliding
        <5>3. CASE Drill(w) \/ Solve(w) \/ Exhausted(w) \/ OutOfBudget(w)
          BY <2>3, <5>3 DEF Drill, Solve, Exhausted, OutOfBudget, Goto, locals, Sliding
        <5>4. CASE Publish(w)
          BY <2>3, <5>4 DEF Publish, Sliding
        <5>5. ~ Finalize(w) /\ ~ EndFinalize(w) /\ ~ Insert(w) /\ ~ Erase(w) /\ ~ Leave(w)
          BY <2>3 DEF Finalize, EndFinalize, Insert, Erase, Leave, Goto, Sliding
        <5> QED
          BY <1>2, <3>2, <5>1, <5>2, <5>3, <5>4, <5>5 DEF Step
      <4>2. marker[w] \in excluded[w]
        BY <2>1, <2>3, <4>1 DEF DrillsAreStrict
      <4> QED
        BY <4>1, <4>2, ExcludedNext
    <3> QED
      BY <3>1, <3>2
  <2> QED
    BY <2>2, <2>3 DEF DrillsAreStrict
<1> QED
  BY <1>1, <1>2 DEF Next

(***************************************************************************)
(* The list holds what was inserted and is not processed: a point goes     *)
(* from the list to one worker, and back only from there.                  *)
(***************************************************************************)
LEMMA ListNext ==
    ASSUME TypeOK, StoredInv, PhaseInv, LocalInv, BlockedInv, FoundInv, ListInv, Next
    PROVE  ListInv'
<1> USE DEF TypeOK, SharedTypeOK
<1>1. ASSUME NEW q \in seen' \cap feasible'
      PROVE  (\A w \in Worker : q \in excluded'[w]) \/ Covers(front', q)
  <2>1. feasible' = feasible /\ q \in YPoint
    BY <1>1, StoredNext, Points
  <2>2. CASE q \in seen
    <3>1. (\A w \in Worker : q \in excluded[w]) \/ Covers(front, q)
      BY <1>1, <2>1, <2>2 DEF ListInv
    <3> QED
      BY <2>1, <3>1, ExcludedNext, StoredNext
  <2>3. CASE q \notin seen
    <3>1. CASE Start
      <4>1. PICK p \in feasible : excluded' = [w \in Worker |-> excluded[w] \cup DominatedRegion(p)]
        BY <3>1 DEF Start
      <4>2. q = Top
        BY <1>1, <3>1 DEF Start
      <4>3. q \in DominatedRegion(p)
        BY <1>1, <2>1, <4>2, Points DEF DominatedRegion
      <4> QED
        BY <4>1, <4>3
    <3>2. ASSUME NEW w \in Worker, Insert(w)
          PROVE  Covers(front', q)
      <4>1. q \in batch[w] /\ pc[w] = "insert"
        BY <1>1, <2>3, <3>2 DEF Insert
      <4>2. solutions[w] = {} /\ Covers(front \cup solutions[w], q)
        BY <4>1 DEF LocalInv, Unshared, Sliding
      <4>3. Covers(front, q)
        BY <4>2 DEF Covers
      <4> QED
        BY <2>1, <4>3, StoredNext
    <3>3. ASSUME NEW w \in Worker, Step(w), ~ Insert(w)
          PROVE  seen' = seen
      BY <3>3 DEF Step, list, Pop, Finish, ApplyUpdates, Clauses, Solutions, Drill, Solve,
         Exhausted, OutOfBudget, Publish, Finalize, EndFinalize, Erase, Leave
    <3>4. CASE NoFirstSolution \/ Answer
      BY <1>1, <2>3, <3>4 DEF NoFirstSolution, Answer, list
    <3> QED
      BY <1>1, <2>3, <3>1, <3>2, <3>3, <3>4 DEF Next
  <2> QED
    BY <2>2, <2>3
<1> DEFINE Alone(v) ==
      pc[v] \in Busy => /\ marker[v] \in seen /\ marker[v] \notin pending
                        /\ \A u \in Worker : pc[u] \in Busy /\ marker[u] = marker[v] => u = v
<1>2. ASSUME pending' \subseteq seen', \A v \in Worker : Alone(v)'
      PROVE  ListInv'
  BY <1>1, <1>2 DEF ListInv, OneSlidePerPoint
<1>3. pending \subseteq seen /\ \A v \in Worker : Alone(v)
  BY DEF ListInv, OneSlidePerPoint
<1>4. "start" \notin Busy /\ "pop" \notin Busy /\ "done" \notin Busy
  BY DEF Busy, Drilling, Sliding, Closing
<1>5. CASE Start
  BY <1>2, <1>4, <1>5 DEF Start
<1>6. CASE NoFirstSolution \/ Answer
  <2>1. pending' = pending /\ seen' = seen /\ \A v \in Worker : pc'[v] \notin Busy
    BY <1>4, <1>6 DEF NoFirstSolution, Answer, list
  <2> QED
    BY <1>2, <1>3, <2>1
<1>7. ASSUME NEW w \in Worker, Step(w)
      PROVE  ListInv'
  <2>1. /\ \A v \in Worker \ {w} : pc'[v] = pc[v] /\ marker'[v] = marker[v]
        /\ pc[w] \in Busy <=> ~ Pop(w) /\ ~ Finish(w)
        /\ pc'[w] \in Busy <=> ~ Leave(w) /\ ~ Finish(w)
    BY <1>7, StepMoves, Others
  <2>2. seen \subseteq seen'
    BY SeenNext
  <2>3. CASE Pop(w)
    <3>1. PICK q \in pending : pending' = pending \ {q} /\ marker' = [marker EXCEPT ![w] = q]
      BY <2>3 DEF Pop
    <3> QED
      BY <1>2, <1>3, <2>1, <2>2, <3>1
  <2>4. CASE Insert(w)
    <3>1. /\ pending' = pending \cup (batch[w] \ seen) /\ seen' = seen \cup batch[w]
          /\ marker' = marker /\ pc[w] \in Busy
      BY <2>4 DEF Insert, Busy, Closing
    <3> QED
      BY <1>2, <1>3, <2>1, <3>1
  <2>5. CASE Leave(w)
    <3>1. /\ pending' \subseteq pending \cup {marker[w]} /\ seen' = seen /\ marker' = marker
          /\ pc[w] \in Busy /\ pc'[w] \notin Busy
      BY <1>4, <2>5 DEF Leave, locals, Goto, Busy, Closing
    <3> QED
      BY <1>2, <1>3, <2>1, <3>1
  <2>6. CASE ~ Pop(w) /\ ~ Insert(w) /\ ~ Leave(w)
    <3>1. pending' = pending /\ seen' = seen /\ marker' = marker
      BY <1>7, <2>6 DEF Step, list, locals, Finish, ApplyUpdates, Clauses, Solutions, Drill, Solve,
         Exhausted, OutOfBudget, Publish, Finalize, EndFinalize, Erase
    <3>2. \A v \in Worker : pc'[v] \in Busy => pc[v] \in Busy
      BY <2>1, <2>6
    <3> QED
      BY <1>2, <1>3, <3>1, <3>2
  <2> QED
    BY <2>3, <2>4, <2>5, <2>6
<1> QED
  BY <1>5, <1>6, <1>7 DEF Next

-----------------------------------------------------------------------------
(***************************************************************************)
(* Only Publish adds a variable, and only it and Finalize add to the log;  *)
(* nothing that is there changes.                                          *)
(***************************************************************************)
LEMMA LogGrows ==
    ASSUME TypeOK, PhaseInv, BlockedInv, FoundInv, Next
    PROVE  /\ Variable \subseteq Variable'
           /\ \A v \in Variable : definition'[v] = definition[v]
           /\ DOMAIN sharedUpdates \subseteq DOMAIN sharedUpdates'
           /\ \A i \in DOMAIN sharedUpdates : sharedUpdates'[i] = sharedUpdates[i]
           /\ Len(sharedUpdates) <= Len(sharedUpdates')
<1> USE DEF TypeOK, Variable
<1>1. CASE UNCHANGED <<definition, sharedUpdates>>
  BY <1>1, Sequences
<1>2. ASSUME NEW w \in Worker, Publish(w)
      PROVE  /\ Variable \subseteq Variable'
             /\ \A v \in Variable : definition'[v] = definition[v]
             /\ DOMAIN sharedUpdates \subseteq DOMAIN sharedUpdates'
             /\ \A i \in DOMAIN sharedUpdates : sharedUpdates'[i] = sharedUpdates[i]
             /\ Len(sharedUpdates) <= Len(sharedUpdates')
  <2>1. /\ found[w] \in YPoint /\ definition' = Append(definition, found[w])
        /\ sharedUpdates' = Append(sharedUpdates, [final |-> FALSE, var |-> Len(definition) + 1])
    BY <1>2, Publishes
  <2>2. [final |-> FALSE, var |-> Len(definition) + 1] \in Update
    BY Sequences DEF Update
  <2>3. /\ DOMAIN definition \subseteq DOMAIN definition'
        /\ \A v \in DOMAIN definition : definition'[v] = definition[v]
    BY <2>1, Appended
  <2>4. /\ DOMAIN sharedUpdates \subseteq DOMAIN sharedUpdates'
        /\ \A i \in DOMAIN sharedUpdates : sharedUpdates'[i] = sharedUpdates[i]
        /\ Len(sharedUpdates) <= Len(sharedUpdates')
    BY <2>1, <2>2, Appended
  <2> QED
    BY <2>3, <2>4
<1>3. ASSUME NEW w \in Worker, Finalize(w)
      PROVE  /\ Variable \subseteq Variable'
             /\ \A v \in Variable : definition'[v] = definition[v]
             /\ DOMAIN sharedUpdates \subseteq DOMAIN sharedUpdates'
             /\ \A i \in DOMAIN sharedUpdates : sharedUpdates'[i] = sharedUpdates[i]
             /\ Len(sharedUpdates) <= Len(sharedUpdates')
  <2>1. definition' = definition
    BY <1>3 DEF Finalize
  <2>2. PICK v \in ToFinalize(w) : sharedUpdates' = Append(sharedUpdates, [final |-> TRUE, var |-> v])
    BY <1>3 DEF Finalize
  <2>3. [final |-> TRUE, var |-> v] \in Update
    BY <2>2, Sequences DEF Update, ToFinalize
  <2>4. /\ DOMAIN sharedUpdates \subseteq DOMAIN sharedUpdates'
        /\ \A i \in DOMAIN sharedUpdates : sharedUpdates'[i] = sharedUpdates[i]
        /\ Len(sharedUpdates) <= Len(sharedUpdates')
    BY <2>2, <2>3, Appended
  <2> QED
    BY <2>1, <2>4
<1>4. ASSUME NEW w \in Worker, Step(w), ~ Publish(w), ~ Finalize(w)
      PROVE  UNCHANGED <<definition, sharedUpdates>>
  BY <1>4 DEF Step, slides, Pop, Finish, ApplyUpdates, Clauses, Solutions, Drill, Solve,
     Exhausted, OutOfBudget, EndFinalize, Insert, Erase, Leave
<1>5. CASE Start \/ NoFirstSolution \/ Answer
  BY <1>1, <1>5 DEF Start, NoFirstSolution, Answer, slides
<1> QED
  BY <1>1, <1>2, <1>3, <1>4, <1>5 DEF Next

(***************************************************************************)
(* The node of a slide is only written by the worker that processes its    *)
(* point: it adds the variables that it publishes, and clears the node.    *)
(***************************************************************************)
LEMMA MemWrites ==
    ASSUME TypeOK, PhaseInv, BlockedInv, FoundInv, Next
    PROVE  \/ mem' = mem
           \/ \E w \in Worker : Publish(w) /\ pc[w] \in Busy
                 /\ mem' = [mem EXCEPT ![marker[w]] = @ \cup {Len(definition) + 1}]
           \/ \E w \in Worker : Erase(w) /\ pc[w] \in Busy
                 /\ mem' = [mem EXCEPT ![marker[w]] = {}]
<1>1. ASSUME NEW w \in Worker, Publish(w)
      PROVE  pc[w] \in Busy /\ mem' = [mem EXCEPT ![marker[w]] = @ \cup {Len(definition) + 1}]
  BY <1>1, Publishes DEF Publish, Busy, Sliding
<1>2. ASSUME NEW w \in Worker, Erase(w)
      PROVE  pc[w] \in Busy /\ mem' = [mem EXCEPT ![marker[w]] = {}]
  BY <1>2 DEF Erase, Busy, Closing
<1>3. ASSUME NEW w \in Worker, Step(w), ~ Publish(w), ~ Erase(w)
      PROVE  mem' = mem
  BY <1>3 DEF Step, slides, Pop, Finish, ApplyUpdates, Clauses, Solutions, Drill, Solve,
     Exhausted, OutOfBudget, Finalize, EndFinalize, Insert, Leave
<1>4. CASE Start \/ NoFirstSolution \/ Answer
  BY <1>4 DEF Start, NoFirstSolution, Answer, slides
<1> QED
  BY <1>1, <1>2, <1>3, <1>4 DEF Next

(***************************************************************************)
(* The variables of a node are defined by better points of the list, no    *)
(* node shares one, and the worker that resumes a slide assumes its own.   *)
(***************************************************************************)
LEMMA MemNext ==
    ASSUME TypeOK, StoredInv, PhaseInv, LocalInv, BlockedInv, FoundInv, ListInv, MemInv, Next
    PROVE  MemInv'
<1> USE DEF TypeOK
<1> DEFINE new == Len(definition) + 1
<1> DEFINE Resuming == {"applyDrill", "clausesDrill", "solveDrill"} \cup Sliding
<1>1. ASSUME NEW m \in YPoint, NEW v \in mem[m]
      PROVE  /\ dominates(definition'[v], m) /\ definition'[v] # m
             /\ definition'[v] \in seen' \cup Batched'
  <2>1. v \in Variable /\ definition'[v] = definition[v]
    BY LogGrows
  <2>2. definition[v] \in seen \cup Batched
    BY DEF MemInv
  <2>3. dominates(definition[v], m) /\ definition[v] # m
    BY DEF MemInv
  <2> QED
    BY <2>1, <2>2, <2>3, SeenNext
<1>2. ASSUME NEW w \in Worker, Publish(w)
      PROVE  /\ dominates(definition'[new], marker[w]) /\ definition'[new] # marker[w]
             /\ definition'[new] \in seen' \cup Batched'
             /\ new \notin Variable
  <2>1. /\ found[w] \in YPoint /\ definition' = Append(definition, found[w])
        /\ dominates(found[w], marker[w]) /\ found[w] # marker[w]
        /\ batch'[w] = batch[w] \cup {found[w]}
    BY <1>2, Publishes
  <2>2. definition'[new] = found[w]
    BY <2>1, Appended
  <2>3. found[w] \in Batched'
    BY <2>1 DEF Batched
  <2> QED
    BY <2>1, <2>2, <2>3, Sequences
<1> HIDE DEF new
<1>3. ASSUME NEW m \in YPoint, NEW v \in mem'[m]
      PROVE  /\ dominates(definition'[v], m) /\ definition'[v] # m
             /\ definition'[v] \in seen' \cup Batched'
  <2>1. CASE v \in mem[m]
    BY <1>1, <2>1
  <2>2. CASE v \notin mem[m]
    <3>1. PICK w \in Worker : Publish(w) /\ mem' = [mem EXCEPT ![marker[w]] = @ \cup {new}]
      BY <1>3, <2>2, MemWrites DEF new
    <3>2. m = marker[w] /\ v = new
      BY <1>3, <2>2, <3>1
    <3> QED
      BY <1>2, <3>1, <3>2
  <2> QED
    BY <2>1, <2>2
<1>4. ASSUME NEW m \in YPoint, NEW n \in YPoint, m # n
      PROVE  mem'[m] \cap mem'[n] = {}
  <2>1. mem[m] \cap mem[n] = {} /\ mem[m] \subseteq Variable /\ mem[n] \subseteq Variable
    BY <1>4 DEF MemInv
  <2>2. CASE mem' = mem
    BY <2>1, <2>2
  <2>3. ASSUME NEW w \in Worker, Publish(w), mem' = [mem EXCEPT ![marker[w]] = @ \cup {new}]
        PROVE  mem'[m] \cap mem'[n] = {}
    BY <1>2, <1>4, <2>1, <2>3
  <2>4. ASSUME NEW w \in Worker, mem' = [mem EXCEPT ![marker[w]] = {}]
        PROVE  mem'[m] \cap mem'[n] = {}
    BY <2>1, <2>4
  <2> QED
    BY <2>2, <2>3, <2>4, MemWrites DEF new
<1>5. ASSUME NEW v \in Worker, pc'[v] \in Resuming
      PROVE  assumed'[v] = mem'[marker'[v]]
  <2>1. CASE Start \/ NoFirstSolution \/ Answer
    BY <1>5, <2>1 DEF Start, NoFirstSolution, Answer, Sliding
  <2>2. ASSUME NEW w \in Worker, Step(w), v # w
        PROVE  assumed'[v] = mem'[marker'[v]]
    <3>1. pc'[v] = pc[v] /\ assumed'[v] = assumed[v] /\ marker'[v] = marker[v]
      BY <2>2, Others
    <3>2. assumed[v] = mem[marker[v]] /\ pc[v] \in Busy
      BY <1>5, <3>1 DEF MemInv, Busy, Drilling
    <3>3. mem'[marker[v]] = mem[marker[v]]
      <4>1. ASSUME NEW u \in Worker, pc[u] \in Busy, u # v
            PROVE  marker[u] # marker[v]
        BY <3>2, <4>1 DEF ListInv, OneSlidePerPoint
      <4>2. ~ Publish(v) /\ ~ Erase(v)
        <5>1. Publish(v) => pc'[v] = "applySlide" /\ pc[v] = "publish"
          BY DEF Publish, Goto
        <5>2. Erase(v) => pc'[v] = "leave"
          BY DEF Erase, Goto
        <5> QED
          BY <1>5, <3>1, <5>1, <5>2 DEF Sliding
      <4> QED
        BY <4>1, <4>2, MemWrites
    <3> QED
      BY <3>1, <3>2, <3>3
  <2>3. CASE Step(v)
    <3>1. CASE Publish(v)
      <4>1. /\ assumed' = [assumed EXCEPT ![v] = @ \cup {new}]
            /\ mem' = [mem EXCEPT ![marker[v]] = @ \cup {new}]
            /\ marker' = marker /\ pc[v] = "publish"
        BY <3>1, Publishes DEF Publish, new
      <4>2. assumed[v] = mem[marker[v]]
        BY <4>1 DEF MemInv, Sliding
      <4> QED
        BY <4>1, <4>2
    <3>2. CASE Drill(v)
      BY <3>2 DEF Drill, slides
    <3>3. CASE ~ Publish(v) /\ ~ Drill(v)
      <4>1. pc[v] \in Resuming /\ assumed' = assumed /\ marker' = marker /\ mem' = mem
        <5>1. CASE ApplyUpdates(v) \/ Clauses(v)
          BY <1>5, <5>1, Calls DEF ApplyUpdates, Clauses, locals, slides, Sliding
        <5>2. ~ Solutions(v)
          BY <1>5, Calls DEF Sliding
        <5>3. ~ Pop(v) /\ ~ Finish(v)
          BY <1>5 DEF Pop, Finish, Goto, Sliding
        <5>4. CASE Solve(v) \/ Exhausted(v) \/ OutOfBudget(v)
          BY <1>5, <5>4 DEF Solve, Exhausted, OutOfBudget, Goto, locals, slides, Sliding
        <5>5. ~ Finalize(v) /\ ~ EndFinalize(v) /\ ~ Insert(v) /\ ~ Erase(v) /\ ~ Leave(v)
          BY <1>5 DEF Finalize, EndFinalize, Insert, Erase, Leave, Goto, Sliding
        <5> QED
          BY <2>3, <3>3, <5>1, <5>2, <5>3, <5>4, <5>5 DEF Step
      <4> QED
        BY <4>1 DEF MemInv
    <3> QED
      BY <3>1, <3>2, <3>3
  <2> QED
    BY <2>1, <2>2, <2>3 DEF Next
<1> QED
  BY <1>3, <1>4, <1>5 DEF MemInv

(***************************************************************************)
(* A worker that has completed its slide goes on, with the same marker,    *)
(* until it erases the node.                                               *)
(***************************************************************************)
LEMMA CompletingNext ==
    ASSUME TypeOK, LocalInv, Next, NEW v \in Worker, Completing(v), ~ Erase(v)
    PROVE  Completing(v)' /\ marker'[v] = marker[v]
<1> USE DEF TypeOK, Completing
<1>1. /\ pc[v] \in {"finalize", "applyDone", "shareDone", "insert", "erase"} /\ ~ requeue[v]
  OBVIOUS
<1>2. CASE Start \/ NoFirstSolution \/ Answer
  BY <1>1, <1>2 DEF Start, NoFirstSolution, Answer, locals
<1>3. ASSUME NEW w \in Worker, Step(w), v # w
      PROVE  Completing(v)' /\ marker'[v] = marker[v]
  BY <1>1, <1>3, Others
<1>4. CASE Step(v)
  <2>1. CASE ApplyUpdates(v) \/ Solutions(v)
    BY <1>1, <2>1, Calls DEF ApplyUpdates, Solutions, locals
  <2>2. ~ Clauses(v)
    BY <1>1, Calls
  <2>3. ~ Pop(v) /\ ~ Finish(v) /\ ~ Drill(v) /\ ~ Solve(v) /\ ~ Exhausted(v) /\ ~ OutOfBudget(v)
    BY <1>1 DEF Pop, Finish, Drill, Solve, Exhausted, OutOfBudget
  <2>4. ~ Publish(v) /\ ~ Leave(v)
    BY <1>1 DEF Publish, Leave
  <2>5. CASE Finalize(v) \/ EndFinalize(v) \/ Insert(v)
    BY <1>1, <2>5 DEF Finalize, EndFinalize, Insert, Goto, locals
  <2> QED
    BY <1>4, <2>1, <2>2, <2>3, <2>4, <2>5 DEF Step
<1> QED
  BY <1>2, <1>3, <1>4 DEF Next

(***************************************************************************)
(* What a step adds to the log: the definition of a new variable, or that  *)
(* a variable of a complete slide is switched off.                         *)
(***************************************************************************)
LEMMA LogEntries ==
    ASSUME TypeOK, PhaseInv, BlockedInv, FoundInv, Next, NEW i \in DOMAIN sharedUpdates'
    PROVE  \/ i \in DOMAIN sharedUpdates /\ sharedUpdates'[i] = sharedUpdates[i]
           \/ \E w \in Worker : Publish(w) /\ ~ sharedUpdates'[i].final
                                /\ sharedUpdates'[i].var = Len(definition) + 1
                                /\ Len(definition) + 1 \in Variable'
           \/ \E w \in Worker : Finalize(w) /\ sharedUpdates'[i].var \in mem[marker[w]]
<1> USE DEF TypeOK
<1>1. CASE i \in DOMAIN sharedUpdates
  BY <1>1, LogGrows
<1>2. CASE i \notin DOMAIN sharedUpdates
  <2>1. ASSUME NEW w \in Worker, Publish(w)
        PROVE  /\ ~ sharedUpdates'[i].final /\ sharedUpdates'[i].var = Len(definition) + 1
               /\ Len(definition) + 1 \in Variable'
    <3> DEFINE e == [final |-> FALSE, var |-> Len(definition) + 1]
    <3>1. /\ found[w] \in YPoint /\ definition' = Append(definition, found[w])
          /\ sharedUpdates' = Append(sharedUpdates, e)
      BY <2>1, Publishes
    <3>2. e \in Update /\ ~ e.final /\ e.var = Len(definition) + 1
      BY Sequences DEF Update
    <3> HIDE DEF e
    <3>3. sharedUpdates'[i] = e
      BY <1>2, <3>1, <3>2, Appended
    <3>4. Len(definition) + 1 \in Variable'
      BY <3>1, Appended DEF Variable
    <3> QED
      BY <3>2, <3>3, <3>4
  <2>2. ASSUME NEW w \in Worker, Finalize(w)
        PROVE  sharedUpdates'[i].var \in mem[marker[w]]
    <3>1. PICK v \in ToFinalize(w) : sharedUpdates' = Append(sharedUpdates, [final |-> TRUE, var |-> v])
      BY <2>2 DEF Finalize
    <3>2. v \in mem[marker[w]] /\ [final |-> TRUE, var |-> v] \in Update
      BY <3>1, Sequences DEF Update, ToFinalize
    <3>3. sharedUpdates'[i] = [final |-> TRUE, var |-> v]
      BY <1>2, <3>1, <3>2, Appended
    <3> QED
      BY <3>2, <3>3
  <2>3. ASSUME NEW w \in Worker, Step(w), ~ Publish(w), ~ Finalize(w)
        PROVE  sharedUpdates' = sharedUpdates
    BY <2>3 DEF Step, slides, Pop, Finish, ApplyUpdates, Clauses, Solutions, Drill, Solve,
       Exhausted, OutOfBudget, EndFinalize, Insert, Erase, Leave
  <2>4. Start \/ NoFirstSolution \/ Answer => sharedUpdates' = sharedUpdates
    BY DEF Start, NoFirstSolution, Answer, slides
  <2> QED
    BY <1>2, <2>1, <2>2, <2>3, <2>4 DEF Next
<1> QED
  BY <1>1, <1>2

(***************************************************************************)
(* Every variable is in the log, and it is only switched off by the worker *)
(* that has completed its slide, whose node is erased after that.          *)
(***************************************************************************)
LEMMA LogNext ==
    ASSUME TypeOK, StoredInv, PhaseInv, LocalInv, BlockedInv, FoundInv, ListInv, MemInv,
           LogInv, Next
    PROVE  LogInv'
<1> USE DEF TypeOK
<1>1. ASSUME NEW i \in DOMAIN sharedUpdates'
      PROVE  sharedUpdates'[i].var \in Variable'
  <2>1. \A j \in DOMAIN sharedUpdates : sharedUpdates[j].var \in Variable
    BY DEF LogInv
  <2>2. Variable \subseteq Variable' /\ \A w \in Worker : mem[marker[w]] \subseteq Variable
    BY LogGrows
  <2> QED
    BY <2>1, <2>2, LogEntries
<1>2. ASSUME NEW v \in Variable'
      PROVE  \E i \in DOMAIN sharedUpdates' : sharedUpdates'[i].var = v
  <2>1. CASE v \in Variable
    <3>1. PICK i \in DOMAIN sharedUpdates : sharedUpdates[i].var = v
      BY <2>1 DEF LogInv
    <3> QED
      BY <3>1, LogGrows
  <2>2. CASE v \notin Variable
    <3>1. ASSUME NEW w \in Worker, Publish(w)
          PROVE  \E i \in DOMAIN sharedUpdates' : sharedUpdates'[i].var = v
      <4> DEFINE e == [final |-> FALSE, var |-> Len(definition) + 1]
      <4>1. /\ found[w] \in YPoint /\ definition' = Append(definition, found[w])
            /\ sharedUpdates' = Append(sharedUpdates, e)
        BY <3>1, Publishes
      <4>2. e \in Update /\ e.var = Len(definition) + 1
        BY Sequences DEF Update
      <4> HIDE DEF e
      <4>3. /\ Len(sharedUpdates) + 1 \in DOMAIN sharedUpdates'
            /\ sharedUpdates'[Len(sharedUpdates) + 1] = e
        BY <4>1, <4>2, Appended
      <4>4. v = Len(definition) + 1
        BY <2>2, <4>1, Appended DEF Variable
      <4> QED
        BY <4>2, <4>3, <4>4
    <3>2. ASSUME NEW w \in Worker, Step(w), ~ Publish(w)
          PROVE  definition' = definition
      BY <3>2 DEF Step, slides, Pop, Finish, ApplyUpdates, Clauses, Solutions, Drill, Solve,
         Exhausted, OutOfBudget, Finalize, EndFinalize, Insert, Erase, Leave
    <3>3. Start \/ NoFirstSolution \/ Answer => definition' = definition
      BY DEF Start, NoFirstSolution, Answer, slides
    <3> QED
      BY <2>2, <3>1, <3>2, <3>3 DEF Next, Variable
  <2> QED
    BY <2>1, <2>2
<1>3. ASSUME NEW v \in Worker
      PROVE  nextUpdate'[v] <= Len(sharedUpdates')
  <2>1. nextUpdate[v] <= Len(sharedUpdates) /\ Len(sharedUpdates) <= Len(sharedUpdates')
    BY LogGrows DEF LogInv
  <2>2. nextUpdate[v] \in Nat /\ Len(sharedUpdates) \in Nat /\ Len(sharedUpdates') \in Nat
    <3>1. Len(sharedUpdates') \in Nat
      <4>1. TypeOK'
        BY TypeNext
      <4>2. sharedUpdates' \in Seq(Update')
        BY <4>1
      <4> QED
        BY <4>2, LenProperties
    <3> QED
      BY <3>1, Sequences
  <2>3. nextUpdate'[v] = nextUpdate[v] \/ nextUpdate'[v] = Len(sharedUpdates)
    <3>1. CASE Start \/ NoFirstSolution \/ Answer
      BY <3>1 DEF Start, NoFirstSolution, Answer, slides
    <3>2. ASSUME NEW w \in Worker, ApplyUpdates(w)
          PROVE  nextUpdate'[v] = nextUpdate[v] \/ nextUpdate'[v] = Len(sharedUpdates)
      BY <3>2 DEF ApplyUpdates
    <3>3. ASSUME NEW w \in Worker, Step(w), ~ ApplyUpdates(w)
          PROVE  nextUpdate' = nextUpdate
      BY <3>3 DEF Step, slides, Pop, Finish, Clauses, Solutions, Drill, Solve, Exhausted,
         OutOfBudget, Publish, Finalize, EndFinalize, Insert, Erase, Leave
    <3> QED
      BY <3>1, <3>2, <3>3 DEF Next
  <2> QED
    BY <2>1, <2>2, <2>3
<1>4. ASSUME NEW m \in YPoint, NEW i \in DOMAIN sharedUpdates',
             sharedUpdates'[i].final, sharedUpdates'[i].var \in mem'[m]
      PROVE  \E w \in Worker : Completing(w)' /\ marker'[w] = m
  <2> DEFINE x == sharedUpdates'[i].var
  <2>1. CASE i \in DOMAIN sharedUpdates /\ sharedUpdates'[i] = sharedUpdates[i]
    <3>1. x \in Variable
      BY <2>1 DEF LogInv
    <3>2. x \in mem[m]
      <4>1. x # Len(definition) + 1
        BY <3>1, Sequences
      <4>2. x \in mem'[m]
        BY <1>4
      <4> HIDE DEF x
      <4>3. ASSUME NEW w \in Worker, mem' = [mem EXCEPT ![marker[w]] = @ \cup {Len(definition) + 1}]
            PROVE  x \in mem[m]
        <5>1. mem'[m] \subseteq mem[m] \cup {Len(definition) + 1}
          BY <4>3
        <5> QED
          BY <4>1, <4>2, <5>1
      <4>4. ASSUME NEW w \in Worker, mem' = [mem EXCEPT ![marker[w]] = {}]
            PROVE  x \in mem[m]
        BY <4>2, <4>4
      <4> QED
        BY <4>2, <4>3, <4>4, MemWrites
    <3>3. PICK w \in Worker : Completing(w) /\ marker[w] = m
      BY <1>4, <2>1, <3>2 DEF LogInv
    <3>4. ~ Erase(w)
      <4>1. Erase(w) => mem'[m] = {}
        BY <3>3 DEF Erase
      <4> QED
        BY <1>4, <4>1
    <3> QED
      BY <3>3, <3>4, CompletingNext
  <2>2. ASSUME NEW w \in Worker, Finalize(w), x \in mem[marker[w]]
        PROVE  \E u \in Worker : Completing(u)' /\ marker'[u] = m
    <3>1. mem' = mem /\ pc[w] = "finalize"
      BY <2>2 DEF Finalize
    <3>2. m = marker[w]
      BY <1>4, <2>2, <3>1 DEF MemInv
    <3>3. Completing(w)
      BY <3>1 DEF Completing, LocalInv
    <3>4. ~ Erase(w)
      BY <3>1 DEF Erase
    <3> QED
      BY <3>2, <3>3, <3>4, CompletingNext
  <2>3. \A w \in Worker : ~ (Publish(w) /\ ~ sharedUpdates'[i].final)
    BY <1>4
  <2> QED
    BY <2>1, <2>2, <2>3, LogEntries
<1> QED
  BY <1>1, <1>2, <1>3, <1>4 DEF LogInv

\* No variable that a worker assumes has been switched off.
AssumedAreNotFinal ==
    \A w \in Worker :
        pc[w] \in {"clausesDrill", "solveDrill", "clausesSlide", "solveSlide"} =>
            \A i \in DOMAIN sharedUpdates :
                sharedUpdates[i].final => sharedUpdates[i].var \notin assumed[w]

(***************************************************************************)
(* Nobody has switched off a variable that a slide is resumed with, since  *)
(* only the worker that processes the slide's point does.                  *)
(***************************************************************************)
LEMMA NoneIsSwitchedOff ==
    TypeOK /\ ListInv /\ MemInv /\ LogInv => AssumedAreNotFinal
<1> SUFFICES ASSUME TypeOK, ListInv, MemInv, LogInv, NEW w \in Worker,
                    pc[w] \in {"clausesDrill", "solveDrill", "clausesSlide", "solveSlide"},
                    NEW i \in DOMAIN sharedUpdates, sharedUpdates[i].final,
                    sharedUpdates[i].var \in assumed[w]
             PROVE  FALSE
  BY DEF AssumedAreNotFinal
<1>1. assumed[w] = mem[marker[w]] /\ marker[w] \in YPoint
  BY DEF MemInv, Sliding, TypeOK
<1>2. PICK u \in Worker : Completing(u) /\ marker[u] = marker[w]
  BY <1>1 DEF LogInv
<1>3. pc[u] \in Busy /\ pc[w] \in Busy
  BY <1>2 DEF Completing, Busy, Drilling, Sliding, Closing
<1>4. u = w
  BY <1>2, <1>3 DEF ListInv, OneSlidePerPoint
<1> QED
  BY <1>2, <1>4 DEF Completing

(***************************************************************************)
(* A solver that is called has the variables installed that it assumes.    *)
(***************************************************************************)
LEMMA OpenNext ==
    ASSUME TypeOK, StoredInv, PhaseInv, LocalInv, BlockedInv, FoundInv, ListInv, MemInv,
           LogInv, AssumedVariablesAreOpen, Next
    PROVE  AssumedVariablesAreOpen'
<1> USE DEF TypeOK
<1> DEFINE Calling == {"clausesDrill", "solveDrill", "clausesSlide", "solveSlide"}
<1>1. ASSUME NEW v \in Worker, pc[v] \in Calling, assumed'[v] = assumed[v],
             nextUpdate'[v] = nextUpdate[v]
      PROVE  assumed'[v] \subseteq Installed(v)'
  <2>1. assumed[v] \subseteq Installed(v)
    BY <1>1 DEF AssumedVariablesAreOpen
  <2>2. 1 .. nextUpdate[v] \subseteq DOMAIN sharedUpdates
    BY Sequences DEF LogInv
  <2>3. Installed(v) \subseteq Installed(v)'
    BY <1>1, <2>2, LogGrows DEF Installed
  <2> QED
    BY <1>1, <2>1, <2>3
<1>2. ASSUME NEW v \in Worker, pc'[v] \in Calling
      PROVE  assumed'[v] \subseteq Installed(v)'
  <2>1. CASE Start \/ NoFirstSolution \/ Answer
    BY <1>1, <1>2, <2>1 DEF Start, NoFirstSolution, Answer, locals, slides
  <2>2. ASSUME NEW w \in Worker, Step(w), v # w
        PROVE  assumed'[v] \subseteq Installed(v)'
    BY <1>1, <1>2, <2>2, Others
  <2>3. CASE Step(v)
    <3>1. CASE ApplyUpdates(v)
      <4>1. /\ assumed' = assumed /\ sharedUpdates' = sharedUpdates
            /\ nextUpdate'[v] = Len(sharedUpdates)
        BY <3>1 DEF ApplyUpdates, locals
      <4>2. DOMAIN sharedUpdates = 1 .. Len(sharedUpdates)
        BY Sequences
      <4>3. assumed[v] \subseteq Variable
        OBVIOUS
      <4>4. ASSUME NEW x \in Variable
            PROVE  x \in Installed(v)'
        <5>1. PICK i \in DOMAIN sharedUpdates : sharedUpdates[i].var = x
          BY DEF LogInv
        <5> QED
          BY <4>1, <4>2, <5>1 DEF Installed
      <4> QED
        BY <4>1, <4>3, <4>4
    <3>2. CASE Clauses(v)
      <4>1. pc[v] \in Calling /\ assumed' = assumed /\ nextUpdate' = nextUpdate
        BY <3>2, Calls DEF Clauses, locals, slides
      <4> QED
        BY <1>1, <4>1
    <3>3. ~ Solutions(v)
      BY <1>2, Calls
    <3>4. ~ Pop(v) /\ ~ Finish(v) /\ ~ Drill(v) /\ ~ Solve(v) /\ ~ Exhausted(v) /\ ~ OutOfBudget(v)
      BY <1>2 DEF Pop, Finish, Drill, Solve, Exhausted, OutOfBudget, Goto
    <3>5. ~ Publish(v) /\ ~ Finalize(v) /\ ~ EndFinalize(v) /\ ~ Insert(v) /\ ~ Erase(v) /\ ~ Leave(v)
      BY <1>2 DEF Publish, Finalize, EndFinalize, Insert, Erase, Leave, Goto
    <3> QED
      BY <2>3, <3>1, <3>2, <3>3, <3>4, <3>5 DEF Step
  <2> QED
    BY <2>1, <2>2, <2>3 DEF Next
<1> HIDE DEF TypeOK
<1>3. TypeOK' /\ ListInv' /\ MemInv' /\ LogInv'
  BY TypeNext, ListNext, MemNext, LogNext
<1>4. AssumedAreNotFinal'
  BY <1>3, NoneIsSwitchedOff, PTL
<1> QED
  BY <1>2, <1>4 DEF AssumedVariablesAreOpen, AssumedAreNotFinal

-----------------------------------------------------------------------------
\* Who has still to drill from where.
Alive == pending \cup {marker[w] : w \in {v \in Worker : Exploring(v)}} \cup (Batched \ seen)

(***************************************************************************)
(* Unless its solver is exhausted or it puts its point back, a worker that *)
(* explores a region goes on.                                              *)
(***************************************************************************)
LEMMA ExploringNext ==
    ASSUME TypeOK, PhaseInv, LocalInv, Next, NEW v \in Worker, Exploring(v),
           ~ Exhausted(v), ~ Leave(v)
    PROVE  Exploring(v)' /\ marker'[v] = marker[v]
<1> USE DEF TypeOK, Exploring, Drilling, Sliding, Closing
<1>1. \/ pc[v] \in Drilling \cup Sliding
      \/ requeue[v] /\ pc[v] \in {"shareDone", "insert", "leave"}
  BY DEF LocalInv
<1>2. ~ Start /\ ~ NoFirstSolution /\ ~ Answer
  BY <1>1 DEF Start, NoFirstSolution, Answer
<1>3. ASSUME NEW w \in Worker, Step(w), v # w
      PROVE  Exploring(v)' /\ marker'[v] = marker[v]
  BY <1>3, Others
<1>4. CASE Step(v)
  <2>1. CASE ApplyUpdates(v) \/ Clauses(v) \/ Solutions(v)
    <3>1. marker' = marker /\ requeue' = requeue
      BY <2>1 DEF ApplyUpdates, Clauses, Solutions, locals
    <3> QED
      BY <1>1, <2>1, <3>1, Calls
  <2>2. ~ Pop(v) /\ ~ Finish(v)
    BY <1>1 DEF Pop, Finish
  <2>3. CASE Drill(v) \/ Solve(v)
    BY <2>3 DEF Drill, Solve, Goto
  <2>4. CASE OutOfBudget(v)
    BY <2>4 DEF OutOfBudget, Goto
  <2>5. CASE Publish(v)
    BY <2>5 DEF Publish, Goto
  <2>6. ~ Finalize(v) /\ ~ EndFinalize(v) /\ ~ Erase(v)
    BY <1>1 DEF Finalize, EndFinalize, Erase
  <2>7. CASE Insert(v)
    BY <1>1, <2>7 DEF Insert, Goto
  <2> QED
    BY <1>4, <2>1, <2>2, <2>3, <2>4, <2>5, <2>6, <2>7 DEF Step
<1> QED
  BY <1>2, <1>3, <1>4 DEF Next

(***************************************************************************)
(* A solver that finds nothing leaves nothing in its region but what is in *)
(* the region of a better point: one that defines a variable it assumes.   *)
(***************************************************************************)
LEMMA ExhaustedRegion ==
    ASSUME TypeOK, BlockedInv, MemInv, LogInv, AssumedVariablesAreOpen,
           NEW w \in Worker, Exhausted(w),
           NEW p \in feasible, ~ Covers(Known, p), dominates(p, marker[w])
    PROVE  \E x \in seen \cup Batched :
              dominates(p, x) /\ dominates(x, marker[w]) /\ x # marker[w]
<1>1. pc[w] \in {"solveDrill", "solveSlide"} /\ Candidates(w) = {}
  BY DEF Exhausted
<1>2. p \in Open(w) /\ p \in YPoint
  BY Points DEF BlockedInv, Open
<1>3. PICK v \in assumed[w] : p \notin Incomparable(w, v)
  BY <1>1, <1>2 DEF Candidates
<1>4. v \notin Finalized(w)
  <2>1. nextUpdate[w] \in Nat /\ nextUpdate[w] <= Len(sharedUpdates)
    BY DEF LogInv, TypeOK
  <2>2. \A i \in 1 .. nextUpdate[w] : i \in DOMAIN sharedUpdates
    BY <2>1, Sequences
  <2>3. \A i \in DOMAIN sharedUpdates : sharedUpdates[i].final => sharedUpdates[i].var # v
    BY <1>1, <1>3 DEF AssumedVariablesAreOpen
  <2> QED
    BY <2>2, <2>3 DEF Finalized
<1>5. dominates(p, definition[v])
  BY <1>2, <1>3, <1>4 DEF Incomparable
<1>6. v \in mem[marker[w]] /\ marker[w] \in YPoint
  BY <1>1, <1>3 DEF MemInv, Sliding, TypeOK
<1>7. /\ dominates(definition[v], marker[w]) /\ definition[v] # marker[w]
      /\ definition[v] \in seen \cup Batched
  BY <1>6 DEF MemInv
<1> QED
  BY <1>5, <1>7

(***************************************************************************)
(* A region that a step takes from somebody is handed to somebody else,    *)
(* or it is searched but for the regions of better points.                 *)
(***************************************************************************)
LEMMA RegionNext ==
    ASSUME TypeOK, StoredInv, PhaseInv, LocalInv, BlockedInv, FoundInv, ListInv, MemInv,
           LogInv, AssumedVariablesAreOpen, RegionInv, Next
    PROVE  RegionInv'
<1> USE DEF TypeOK
<1>1. SUFFICES ASSUME NEW p \in feasible', ~ Covers(Known', p),
                      NEW q \in seen' \cup Batched', dominates(p, q)
               PROVE  \E r \in Alive' : dominates(p, r) /\ dominates(r, q)
  BY DEF RegionInv, Alive
<1>2. p \in feasible /\ p \in YPoint /\ ~ Covers(Known, p)
  BY <1>1, StoredNext, Points
<1>3. seen \cup Batched \subseteq YPoint /\ Alive \subseteq YPoint
  <2>1. seen \cup Batched \subseteq YPoint
    BY DEF Batched
  <2> QED
    BY <2>1 DEF Alive
<1>4. ASSUME NEW x \in seen \cup Batched, dominates(p, x)
      PROVE  \E r \in Alive : dominates(p, r) /\ dominates(r, x)
  BY <1>2, <1>4 DEF RegionInv, Alive
<1>5. ASSUME NEW v \in Worker, Exploring(v), ~ Exhausted(v), ~ Leave(v)
      PROVE  marker[v] \in Alive'
  BY <1>5, ExploringNext DEF Alive
<1>6. ASSUME NEW w \in Worker, Step(w),
             pending \subseteq Alive', Batched \ seen \subseteq Alive',
             Exploring(w) => marker[w] \in Alive'
      PROVE  Alive \subseteq Alive'
  <2>1. ASSUME NEW v \in Worker, Exploring(v)
        PROVE  marker[v] \in Alive'
    <3>1. CASE v = w
      BY <1>6, <2>1, <3>1
    <3>2. CASE v # w
      <4>1. pc'[v] = pc[v] /\ requeue'[v] = requeue[v] /\ marker'[v] = marker[v]
        BY <1>6, <3>2, Others
      <4> QED
        BY <2>1, <4>1 DEF Exploring, Alive
    <3> QED
      BY <3>1, <3>2
  <2> QED
    BY <1>6, <2>1 DEF Alive
<1>7. CASE Start
  <2>1. /\ seen' = {Top} /\ pending' = {Top} /\ batch' = batch
    BY <1>7 DEF Start, locals
  <2>2. \A w \in Worker : batch[w] = {}
    BY <1>7 DEF Start, LocalInv, Unshared, Sliding
  <2>3. q = Top /\ Top \in Alive'
    BY <1>1, <2>1, <2>2 DEF Batched, Alive
  <2> QED
    BY <1>1, <1>2, <2>3, Points, DominanceOrder
<1>8. CASE NoFirstSolution
  BY <1>2, <1>8 DEF NoFirstSolution
<1>9. CASE Answer
  <2>1. q \in seen \cup Batched /\ Alive' = Alive
    BY <1>1, <1>9 DEF Answer, locals, list, Batched, Alive, Exploring
  <2> QED
    BY <1>1, <1>4, <2>1
<1>10. ASSUME NEW w \in Worker, Step(w)
       PROVE  \E r \in Alive' : dominates(p, r) /\ dominates(r, q)
  <2>1. CASE Publish(w)
    <3>1. batch' = [batch EXCEPT ![w] = @ \cup {found[w]}] /\ pending' = pending /\ seen' = seen
      BY <2>1, Publishes DEF Publish, list
    <3>2. Batched' = Batched \cup {found[w]}
      <4>1. \A v \in Worker : batch'[v] = IF v = w THEN batch[v] \cup {found[w]} ELSE batch[v]
        BY <3>1
      <4>2. found[w] \in batch'[w]
        BY <4>1
      <4>3. \A v \in Worker : batch[v] \subseteq batch'[v] /\ batch'[v] \subseteq batch[v] \cup {found[w]}
        BY <4>1
      <4> QED
        BY <4>2, <4>3 DEF Batched
    <3>3. Alive \subseteq Alive'
      <4>1. pending \subseteq Alive' /\ Batched \ seen \subseteq Alive'
        BY <3>1, <3>2 DEF Alive
      <4>2. ~ Exhausted(w) /\ ~ Leave(w)
        BY <2>1 DEF Publish, Exhausted, Leave
      <4> QED
        BY <1>5, <1>6, <1>10, <4>1, <4>2
    <3>4. CASE q \in seen \cup Batched
      BY <1>1, <1>4, <3>3, <3>4
    <3>5. CASE q \notin seen \cup Batched
      <4>1. q \in Alive' /\ q \in YPoint
        BY <1>1, <3>1, <3>2, <3>5, Publishes, <2>1 DEF Alive
      <4> QED
        BY <1>1, <4>1, DominanceOrder
    <3> QED
      BY <3>4, <3>5
  <2>2. CASE ~ Publish(w)
    <3>1. /\ \A v \in Worker \ {w} : batch'[v] = batch[v]
          /\ batch'[w] = batch[w] \/ (Insert(w) /\ batch'[w] = {})
      <4>1. batch'[w] = batch[w] \/ (Insert(w) /\ batch'[w] = {})
        BY <1>10, <2>2 DEF Step, locals, Pop, Finish, ApplyUpdates, Clauses, Solutions, Drill,
           Solve, Exhausted, OutOfBudget, Finalize, EndFinalize, Insert, Erase, Leave
      <4> QED
        BY <1>10, <4>1, Others
    <3>2. ~ Insert(w) => seen' = seen /\ Batched' = Batched
      <4>1. ~ Insert(w) => seen' = seen
        BY <1>10, <2>2 DEF Step, list, Pop, Finish, ApplyUpdates, Clauses, Solutions, Drill,
           Solve, Exhausted, OutOfBudget, Finalize, EndFinalize, Erase, Leave
      <4>2. ~ Insert(w) => \A v \in Worker : batch'[v] = batch[v]
        BY <3>1
      <4> QED
        BY <4>1, <4>2 DEF Batched
    <3>3. q \in seen \cup Batched
      <4>1. CASE Insert(w)
        <5>1. seen' = seen \cup batch[w]
          BY <4>1 DEF Insert
        <5>2. \A v \in Worker : batch'[v] \subseteq batch[v]
          BY <3>1
        <5>3. Batched' \subseteq Batched /\ batch[w] \subseteq Batched
          BY <5>2 DEF Batched
        <5> QED
          BY <1>1, <5>1, <5>3
      <4>2. CASE ~ Insert(w)
        BY <1>1, <3>2, <4>2
      <4> QED
        BY <4>1, <4>2
    <3>4. CASE Exhausted(w)
      <4>1. pending' = pending /\ marker' = marker
        BY <3>4 DEF Exhausted, list, locals
      <4>2. ASSUME NEW r \in Alive, r # marker[w]
            PROVE  r \in Alive'
        <5>1. CASE r \in pending \cup (Batched \ seen)
          <6>1. ~ Insert(w)
            BY <3>4 DEF Exhausted, Insert
          <6> QED
            BY <3>2, <4>1, <5>1, <6>1 DEF Alive
        <5>2. CASE r \notin pending \cup (Batched \ seen)
          <6>1. PICK v \in Worker : Exploring(v) /\ r = marker[v]
            BY <4>2, <5>2 DEF Alive
          <6>2. v # w
            BY <4>2, <6>1
          <6>3. pc'[v] = pc[v] /\ requeue'[v] = requeue[v] /\ marker'[v] = marker[v]
            BY <1>10, <6>2, Others
          <6> QED
            BY <6>1, <6>3 DEF Exploring, Alive
        <5> QED
          BY <5>1, <5>2
      <4>3. PICK r \in Alive : dominates(p, r) /\ dominates(r, q)
        BY <1>1, <1>4, <3>3
      <4>4. CASE r # marker[w]
        BY <4>2, <4>3, <4>4
      <4>5. CASE r = marker[w]
        <5>1. PICK x \in seen \cup Batched :
                 dominates(p, x) /\ dominates(x, marker[w]) /\ x # marker[w]
          BY <1>2, <3>4, <4>3, <4>5, ExhaustedRegion
        <5>2. PICK s \in Alive : dominates(p, s) /\ dominates(s, x)
          BY <1>4, <5>1
        <5>3. s \in YPoint /\ x \in YPoint /\ r \in YPoint /\ q \in YPoint
          BY <1>3, <3>3
        <5>4. s # marker[w]
          BY <4>5, <5>1, <5>2, <5>3, DominanceOrder
        <5>5. dominates(s, q)
          BY <4>3, <4>5, <5>1, <5>2, <5>3, DominanceOrder
        <5> QED
          BY <4>2, <5>2, <5>4, <5>5
      <4> QED
        BY <4>4, <4>5
    <3>5. CASE ~ Exhausted(w)
      <4>1. Alive \subseteq Alive'
        <5>1. CASE Insert(w)
          <6>1. pending' = pending \cup (batch[w] \ seen) /\ seen' = seen \cup batch[w]
            BY <5>1 DEF Insert
          <6>2. Batched \ seen \subseteq Alive'
            <7>1. ASSUME NEW v \in Worker, NEW x \in batch[v], x \notin seen
                  PROVE  x \in Alive'
              BY <3>1, <6>1, <7>1 DEF Alive, Batched
            <7> QED
              BY <7>1 DEF Batched
          <6>3. ~ Leave(w) /\ pending \subseteq Alive'
            BY <5>1, <6>1 DEF Insert, Leave, Alive
          <6> QED
            BY <1>5, <1>6, <1>10, <3>5, <6>2, <6>3
        <5>2. CASE Leave(w)
          <6>1. /\ pending' = IF requeue[w] THEN pending \cup {marker[w]} ELSE pending
                /\ pc[w] = "leave"
            BY <5>2 DEF Leave
          <6>2. Exploring(w) => requeue[w]
            BY <6>1 DEF Exploring, Drilling, Sliding
          <6>3. /\ pending \subseteq Alive' /\ Batched \ seen \subseteq Alive'
                /\ Exploring(w) => marker[w] \in Alive'
            <7>1. ~ Insert(w)
              BY <6>1 DEF Insert
            <7> QED
              BY <3>2, <6>1, <6>2, <7>1 DEF Alive
          <6> QED
            BY <1>6, <1>10, <6>3
        <5>3. CASE Pop(w)
          <6>1. PICK y \in pending : pending' = pending \ {y} /\ marker' = [marker EXCEPT ![w] = y]
            BY <5>3 DEF Pop
          <6>2. marker'[w] = y /\ pc'[w] = "apply" /\ pc[w] = "pop"
            BY <5>3, <6>1 DEF Pop, Goto
          <6>3. y \in Alive'
            BY <6>2 DEF Alive, Exploring, Drilling
          <6>4. pending \subseteq Alive'
            BY <6>1, <6>3 DEF Alive
          <6>5. ~ Exploring(w) /\ ~ Insert(w)
            BY <6>2 DEF Exploring, Drilling, Sliding, Closing, Insert
          <6>6. Batched \ seen \subseteq Alive'
            BY <3>2, <6>5 DEF Alive
          <6> QED
            BY <1>6, <1>10, <6>4, <6>5, <6>6
        <5>4. CASE ~ Insert(w) /\ ~ Leave(w) /\ ~ Pop(w)
          <6>1. pending' = pending
            BY <1>10, <2>2, <5>4 DEF Step, list, Finish, ApplyUpdates, Clauses, Solutions, Drill,
               Solve, Exhausted, OutOfBudget, Finalize, EndFinalize, Erase
          <6>2. pending \subseteq Alive' /\ Batched \ seen \subseteq Alive'
            BY <3>2, <5>4, <6>1 DEF Alive
          <6> QED
            BY <1>5, <1>6, <1>10, <3>5, <5>4, <6>2
        <5> QED
          BY <5>1, <5>2, <5>3, <5>4
      <4> QED
        BY <1>1, <1>4, <3>3, <4>1
    <3> QED
      BY <3>4, <3>5
  <2> QED
    BY <2>1, <2>2
<1> QED
  BY <1>7, <1>8, <1>9, <1>10 DEF Next

-----------------------------------------------------------------------------
(***************************************************************************)
(* When all have left the search, nobody explores a region, so that all    *)
(* that there is to find is archived with the first solution.              *)
(***************************************************************************)
LEMMA AnswerNext ==
    ASSUME IInv, Next
    PROVE  AnswerIsCorrect'
<1> USE DEF IInv
<1>1. CASE Answer
  <2>1. /\ \A w \in Worker : pc[w] = "done"
        /\ Archive!Sync(Main, first) /\ answerType = "unknown" /\ answerType' = "optimum"
        /\ feasible' = feasible
    BY <1>1 DEF Answer
  <2>2. Top \in seen /\ first # {} /\ first \subseteq feasible /\ IsAntichain(first)
    BY <2>1, MainAssumption DEF PhaseInv, IsAntichain
  <2>3. pending = {} /\ \A w \in Worker : batch[w] = {} /\ solutions[w] = {} /\ ~ Exploring(w)
    BY <2>1, MainAssumption DEF PhaseInv, LocalInv, Unshared, Exploring, Drilling, Sliding, Closing
  <2>4. Alive = {} /\ Stored = front
    BY <2>3 DEF Alive, Batched, Stored
  <2>5. ASSUME NEW p \in feasible
        PROVE  Covers(front \cup first, p)
    <3>1. dominates(p, Top)
      BY Points
    <3>2. ~ Covers(Known, p) => \E r \in Alive : dominates(p, r) /\ dominates(r, Top)
      BY <2>2, <3>1 DEF RegionInv, Alive
    <3> QED
      BY <2>4, <3>2 DEF Known
  <2>6. feasible \in SUBSET YPoint /\ first \in SUBSET YPoint
    BY <2>2, Points
  <2>7. /\ front' \subseteq front \cup first
        /\ \A p \in YPoint : Covers(front \cup first, p) => Covers(front', p)
        /\ IsAntichain(front')
    BY <2>1, <2>2, <2>6, MainAssumption, SyncFacts DEF TypeOK, StoredInv
  <2>8. front' \subseteq feasible
    BY <2>2, <2>7 DEF StoredInv, Stored
  <2>9. front' = NonDominated(feasible)
    BY <2>5, <2>6, <2>7, <2>8, FrontOf
  <2> QED
    BY <2>1, <2>2, <2>9 DEF AnswerIsCorrect
<1>2. CASE NoFirstSolution
  BY <1>2 DEF NoFirstSolution, AnswerIsCorrect
<1>3. CASE Start
  <2>1. answerType' = "unknown"
    BY <1>3, MainAssumption DEF Start, PhaseInv
  <2> QED
    BY <2>1 DEF AnswerIsCorrect
<1>4. ASSUME NEW w \in Worker, Step(w)
      PROVE  AnswerIsCorrect'
  <2>1. answerType' = answerType /\ pc[w] # "done"
    BY <1>4, StepMoves
  <2>2. answerType' = "unknown"
    BY <2>1 DEF PhaseInv
  <2> QED
    BY <2>2 DEF AnswerIsCorrect
<1> QED
  BY <1>1, <1>2, <1>3, <1>4 DEF Next

(***************************************************************************)
(* In every state the regions still to be searched are in somebody's hands *)
(* (searchBoundHonerMO, drillFromPoint and slide).                         *)
(***************************************************************************)
THEOREM SearchInvariant == Spec => []IInv
<1>1. ASSUME Init
      PROVE  IInv
  <2> USE <1>1 DEF Init, Archive!Init
  <2>1. TypeOK
    <3>1. Top \in YPoint /\ Variable = {} /\ <<>> \in Seq(YPoint) /\ <<>> \in Seq(Update)
      BY ObjectiveAssumption DEF Top, YPoint, Variable
    <3> QED
      BY <3>1 DEF TypeOK, SharedTypeOK
  <2>2. "start" \notin Busy /\ DOMAIN sharedUpdates = {} /\ Len(sharedUpdates) = 0 /\ Variable = {}
    BY DEF Busy, Drilling, Sliding, Closing, Variable
  <2>3. StoredInv /\ BlockedInv
    BY DEF StoredInv, Stored, IsAntichain, BlockedInv, DominatedBy, Covers
  <2>4. PhaseInv
    <3>1. {w \in Worker : pc[w] \in Busy} = {}
      BY <2>2
    <3> QED
      BY <3>1, FS_EmptySet DEF PhaseInv
  <2>5. LocalInv /\ FoundInv
    BY DEF LocalInv, IsAntichain, FoundInv
  <2>6. ListInv /\ DrillsAreStrict /\ AssumedVariablesAreOpen
    BY <2>2 DEF ListInv, OneSlidePerPoint, DrillsAreStrict, AssumedVariablesAreOpen, Sliding
  <2>7. MemInv /\ LogInv
    BY <2>2 DEF MemInv, LogInv, Sliding
  <2>8. RegionInv /\ AnswerIsCorrect
    BY DEF RegionInv, Batched, AnswerIsCorrect
  <2> QED
    BY <2>1, <2>3, <2>4, <2>5, <2>6, <2>7, <2>8 DEF IInv
<1>2. ASSUME IInv, Next
      PROVE  IInv'
  <2>1. TypeOK' /\ StoredInv' /\ PhaseInv'
    BY <1>2, TypeNext, StoredNext, PhaseNext DEF IInv
  <2>2. LocalInv' /\ BlockedInv' /\ ListInv'
    BY <1>2, LocalNext, BlockedNext, ListNext DEF IInv
  <2>3. FoundInv' /\ DrillsAreStrict'
    BY <1>2, FoundNext, StrictNext DEF IInv
  <2>4. MemInv' /\ LogInv' /\ AssumedVariablesAreOpen'
    BY <1>2, MemNext, LogNext, OpenNext DEF IInv
  <2>5. RegionInv' /\ AnswerIsCorrect'
    BY <1>2, RegionNext, AnswerNext DEF IInv
  <2> QED
    BY <2>1, <2>2, <2>3, <2>4, <2>5 DEF IInv
<1>3. ASSUME IInv, UNCHANGED vars
      PROVE  IInv'
  <2> USE <1>3 DEF vars
  <2>1. /\ UNCHANGED <<mode, feasible, excluded, exported, solutions, front, unread, pc, marker>>
        /\ UNCHANGED <<found, assumed, batch, requeue, mem, definition, sharedUpdates>>
        /\ UNCHANGED <<nextUpdate, pending, seen, active, first, answerType>>
    OBVIOUS
  <2>2. Stored' = Stored /\ Known' = Known /\ Batched' = Batched /\ Variable' = Variable
    BY <2>1 DEF Stored, Known, Batched, Variable
  <2>3. TypeOK' /\ StoredInv' /\ PhaseInv'
    BY <2>1, <2>2 DEF IInv, TypeOK, SharedTypeOK, StoredInv, PhaseInv
  <2>4. LocalInv' /\ BlockedInv' /\ ListInv'
    BY <2>1, <2>2 DEF IInv, LocalInv, BlockedInv, DominatedBy, ListInv, OneSlidePerPoint
  <2>5. FoundInv' /\ DrillsAreStrict' /\ AnswerIsCorrect'
    BY <2>1 DEF IInv, FoundInv, Open, DrillsAreStrict, AnswerIsCorrect
  <2>6. MemInv' /\ LogInv' /\ AssumedVariablesAreOpen'
    BY <2>1, <2>2 DEF IInv, MemInv, LogInv, Completing, AssumedVariablesAreOpen, Installed
  <2>7. RegionInv'
    BY <2>1, <2>2 DEF IInv, RegionInv, Exploring
  <2> QED
    BY <2>3, <2>4, <2>5, <2>6, <2>7 DEF IInv
<1> QED
  BY <1>1, <1>2, <1>3, PTL DEF Spec

(***************************************************************************)
(* No region is lost: whatever nothing known covers is in the region of a  *)
(* point that somebody has still to drill from, and of every point that it *)
(* ever was in the region of (searchBoundHonerMO and slide).               *)
(***************************************************************************)
THEOREM NoLoss == Spec => []NoRegionIsLost
<1>1. ASSUME IInv
      PROVE  NoRegionIsLost
  <2>1. Batched = UNION {batch[w] : w \in Worker}
    BY DEF Batched
  <2> QED
    BY <1>1, <2>1 DEF IInv, RegionInv, NoRegionIsLost
<1> QED
  BY <1>1, SearchInvariant, PTL

(***************************************************************************)
(* No two workers process a point, and none that is pending.               *)
(***************************************************************************)
THEOREM OneSlide == Spec => []OneSlidePerPoint
<1>1. IInv => OneSlidePerPoint
  BY DEF IInv, ListInv
<1> QED
  BY <1>1, SearchInvariant, PTL

(***************************************************************************)
(* Whoever drills from the point of a solution has it blocked.             *)
(***************************************************************************)
THEOREM StrictDrills == Spec => []DrillsAreStrict
<1>1. IInv => DrillsAreStrict
  BY DEF IInv
<1> QED
  BY <1>1, SearchInvariant, PTL

(***************************************************************************)
(* A solver is only called with slide variables that are installed in it   *)
(* and that nobody has switched off.                                       *)
(***************************************************************************)
THEOREM VariablesOpen == Spec => []AssumedVariablesAreOpen
<1>1. IInv => AssumedVariablesAreOpen
  BY DEF IInv
<1> QED
  BY <1>1, SearchInvariant, PTL

(***************************************************************************)
(* OPTIMUM is answered only with the whole Pareto front, UNSATISFIABLE     *)
(* only without a solution.                                                *)
(***************************************************************************)
THEOREM AnswerCorrect == Spec => []AnswerIsCorrect
<1>1. IInv => AnswerIsCorrect
  BY DEF IInv
<1> QED
  BY <1>1, SearchInvariant, PTL

(***************************************************************************)
(* A call of the archive with points that do not beat each other is one    *)
(* that it makes a promise about.                                          *)
(***************************************************************************)
LEMMA Promised ==
    ASSUME NEW w \in Worker, NEW S \in SUBSET YPoint, IsAntichain(S), Archive!Sync(w, S)
    PROVE  Archive!Next
<1>1. S \in SUBSET Archive!YPoint /\ Archive!IsAntichain(S)
  BY DEF IsAntichain, dominates, YPoint, Archive!IsAntichain, Archive!dominates,
         Archive!YPoint
<1> QED
  BY <1>1 DEF Archive!Next

(***************************************************************************)
(* The search uses the archive as it promises to work: what happens to the *)
(* archive is a behaviour of SharedFront (shareSolutions and               *)
(* consolidateSolution).                                                   *)
(***************************************************************************)
THEOREM UsesArchive == Spec => ArchiveSpec
<1>1. Init => Archive!Init
  BY DEF Init
<1>2. ASSUME IInv, Next
      PROVE  Archive!Next \/ UNCHANGED <<front, unread>>
  <2>1. SharedTypeOK /\ LocalInv /\ PhaseInv
    BY <1>2 DEF IInv, TypeOK
  <2>2. ASSUME NEW w \in Worker, Solutions(w)
        PROVE  Archive!Next
    <3>1. Archive!Sync(w, solutions[w])
      BY <2>2 DEF Solutions, ShareSolutions
    <3>2. solutions[w] \in SUBSET YPoint /\ IsAntichain(solutions[w])
      BY <2>1 DEF SharedTypeOK, LocalInv
    <3> QED
      BY <3>1, <3>2, Promised
  <2>3. CASE Answer
    <3>1. Archive!Sync(Main, first)
      BY <2>3 DEF Answer
    <3>2. first \in SUBSET YPoint /\ IsAntichain(first)
      BY <1>2, <2>1 DEF IInv, TypeOK, PhaseInv, IsAntichain
    <3> QED
      BY <3>1, <3>2, MainAssumption, Promised
  <2>4. CASE Start \/ NoFirstSolution
    BY <2>4 DEF Start, NoFirstSolution, sharing
  <2>5. ASSUME NEW w \in Worker, Step(w), ~ Solutions(w)
        PROVE  UNCHANGED <<front, unread>>
    BY <2>5 DEF Step, Pop, Finish, ApplyUpdates, Clauses, Drill, Solve, Exhausted, OutOfBudget,
                Publish, Finalize, EndFinalize, Insert, Erase, Leave, sharing
  <2> QED
    BY <1>2, <2>2, <2>3, <2>4, <2>5 DEF Next
<1>3. ASSUME IInv, [Next]_vars
      PROVE  [Archive!Next]_<<front, unread>>
  BY <1>2, <1>3 DEF vars
<1> QED
  BY <1>1, <1>3, SearchInvariant, PTL DEF Spec, ArchiveSpec, Archive!Spec
=============================================================================
