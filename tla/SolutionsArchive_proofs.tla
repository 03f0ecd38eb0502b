------------------------ MODULE SolutionsArchive_proofs ------------------------
(***************************************************************************)
(* Theorems about the archive of solutions: its inductive invariant, what  *)
(* solvers and unlocked readers get from it, and that it implements the    *)
(* shared front that the models of the searches use.                       *)
(***************************************************************************)
EXTENDS SolutionsArchive, FiniteSetTheorems, SequenceTheorems, TLAPS

(***************************************************************************)
(* Dominance (pareto::dominates) is a partial order on points.             *)
(***************************************************************************)
LEMMA DominanceIsOrder ==
    /\ \A p \in YPoint : dominates(p, p)
    /\ \A p, q, r \in YPoint : dominates(p, q) /\ dominates(q, r) => dominates(p, r)
    /\ \A p, q \in YPoint : dominates(p, q) /\ dominates(q, p) => p = q
<1>1. \A p \in YPoint, o \in Obj : p[o] \in Nat
  BY ObjectiveAssumption DEF YPoint
<1>2. ASSUME NEW p \in YPoint, NEW q \in YPoint, dominates(p, q), dominates(q, p)
      PROVE  p = q
  <2>1. ASSUME NEW o \in Obj PROVE p[o] = q[o]
    <3>1. p[o] \in Nat /\ q[o] \in Nat
      BY <1>1
    <3>2. p[o] <= q[o] /\ q[o] <= p[o]
      BY <1>2 DEF dominates
    <3> QED
      BY <3>1, <3>2
  <2> QED
    BY <2>1 DEF YPoint
<1>3. ASSUME NEW p \in YPoint, NEW q \in YPoint, NEW r \in YPoint,
             dominates(p, q), dominates(q, r)
      PROVE  dominates(p, r)
  <2> SUFFICES ASSUME NEW o \in Obj PROVE p[o] <= r[o]
    BY DEF dominates
  <2>1. p[o] \in Nat /\ q[o] \in Nat /\ r[o] \in Nat
    BY <1>1
  <2>2. p[o] <= q[o] /\ q[o] <= r[o]
    BY <1>3 DEF dominates
  <2> QED
    BY <2>1, <2>2
<1> QED
  BY <1>1, <1>2, <1>3 DEF dominates

(***************************************************************************)
(* A batch is a sequence of incomparable points, and so is its rest.       *)
(***************************************************************************)
LEMMA BatchFacts ==
    /\ <<>> \in Batches
    /\ \A b \in Batches :
          /\ b \in Seq(Feasible)
          /\ \A i, j \in DOMAIN b : dominates(b[i], b[j]) => i = j
          /\ b # <<>> =>
                /\ Tail(b) \in Batches
                /\ Head(b) = b[1]
                /\ 1 \in DOMAIN b
                /\ \A i \in DOMAIN Tail(b) : i + 1 \in DOMAIN b /\ Tail(b)[i] = b[i + 1]
                /\ \A i \in DOMAIN b : i # 1 => i - 1 \in DOMAIN Tail(b)
<1>1. <<>> \in Batches
  <2>1. <<>> \in [1 .. 0 -> Feasible]
    BY Z3
  <2>2. 0 \in 0 .. MaxBatch
    BY ArchiveAssumption
  <2> QED
    BY <2>1, <2>2 DEF Batches
<1>2. ASSUME NEW b \in Batches
      PROVE  /\ b \in Seq(Feasible)
             /\ \A i, j \in DOMAIN b : dominates(b[i], b[j]) => i = j
             /\ b # <<>> =>
                   /\ Tail(b) \in Batches
                   /\ Head(b) = b[1]
                   /\ 1 \in DOMAIN b
                   /\ \A i \in DOMAIN Tail(b) : i + 1 \in DOMAIN b /\ Tail(b)[i] = b[i + 1]
                   /\ \A i \in DOMAIN b : i # 1 => i - 1 \in DOMAIN Tail(b)
  <2>1. PICK k \in 0 .. MaxBatch : b \in [1 .. k -> Feasible]
    BY DEF Batches
  <2>2. k \in Nat /\ DOMAIN b = 1 .. k
    BY <2>1, ArchiveAssumption
  <2>3. b \in Seq(Feasible) /\ Len(b) = k
    BY <2>1, <2>2
  <2>4. \A i, j \in DOMAIN b : dominates(b[i], b[j]) => i = j
    BY DEF Batches
  <2>5. ASSUME b # <<>>
        PROVE  /\ Tail(b) \in Batches
               /\ Head(b) = b[1]
               /\ 1 \in DOMAIN b
               /\ \A i \in DOMAIN Tail(b) : i + 1 \in DOMAIN b /\ Tail(b)[i] = b[i + 1]
               /\ \A i \in DOMAIN b : i # 1 => i - 1 \in DOMAIN Tail(b)
    <3>1. k # 0
      BY <2>3, <2>5
    <3>2. /\ Tail(b) \in Seq(Feasible) /\ Len(Tail(b)) = k - 1
          /\ \A i \in 1 .. k - 1 : Tail(b)[i] = b[i + 1]
      BY <2>3, <2>5, <3>1
    <3>3. DOMAIN Tail(b) = 1 .. k - 1 /\ k - 1 \in 0 .. MaxBatch
      BY <3>1, <3>2, <2>2, ArchiveAssumption
    <3>4. Tail(b) \in [1 .. k - 1 -> Feasible]
      BY <3>2, LenProperties
    <3>5. \A i, j \in DOMAIN Tail(b) : dominates(Tail(b)[i], Tail(b)[j]) => i = j
      <4> SUFFICES ASSUME NEW i \in DOMAIN Tail(b), NEW j \in DOMAIN Tail(b),
                          dominates(Tail(b)[i], Tail(b)[j])
                   PROVE  i = j
        OBVIOUS
      <4>1. i \in 1 .. k - 1 /\ j \in 1 .. k - 1
        BY <3>3
      <4>2. dominates(b[i + 1], b[j + 1]) /\ i + 1 \in DOMAIN b /\ j + 1 \in DOMAIN b
        BY <4>1, <3>2, <2>2
      <4>3. i + 1 = j + 1
        BY <4>2, <2>4
      <4> QED
        BY <4>1, <4>3
    <3>6. Tail(b) \in Batches
      BY <3>3, <3>4, <3>5 DEF Batches
    <3>7. Head(b) = b[1] /\ 1 \in DOMAIN b
      BY <3>1, <2>2, <2>3, <2>5
    <3>8. \A i \in DOMAIN Tail(b) : i + 1 \in DOMAIN b /\ Tail(b)[i] = b[i + 1]
      BY <3>2, <3>3, <2>2
    <3>9. \A i \in DOMAIN b : i # 1 => i - 1 \in DOMAIN Tail(b)
      BY <3>3, <2>2
    <3> QED
      BY <3>6, <3>7, <3>8, <3>9
  <2> QED
    BY <2>3, <2>4, <2>5
<1> QED
  BY <1>1, <1>2

(***************************************************************************)
(* Entries and the locals of a push, out of the type invariant.            *)
(***************************************************************************)
LEMMA EntryFacts ==
    ASSUME TypeOK
    PROVE  /\ Len(archive) \in Nat
           /\ DOMAIN archive = Positions
           /\ \A i \in Positions :
                 /\ i \in Nat /\ archive[i] \in Entry
                 /\ archive[i].yp \in YPoint /\ archive[i].yp \in Feasible
                 /\ archive[i].ts \in Nat
                 /\ archive[i].by \in Worker
                 /\ archive[i].dominated \in BOOLEAN
           /\ push.given \in Batches /\ push.todo \in Batches
           /\ push.at \in Nat /\ push.limit \in Nat /\ push.flagged \in SUBSET Nat
           /\ push.pc \in {"idle", "inspect", "publish", "unlock"}
           /\ Inspecting => /\ Candidate \in YPoint /\ Candidate \in Feasible
                             /\ Candidate = push.todo[1] /\ 1 \in DOMAIN push.todo
<1>1. archive \in Seq(Entry)
  BY DEF TypeOK
<1>2. Len(archive) \in Nat /\ DOMAIN archive = Positions
  BY <1>1, LenProperties DEF Positions
<1>3. ASSUME NEW i \in Positions
      PROVE  /\ i \in Nat /\ archive[i] \in Entry
             /\ archive[i].yp \in YPoint /\ archive[i].yp \in Feasible
             /\ archive[i].ts \in Nat
             /\ archive[i].by \in Worker
             /\ archive[i].dominated \in BOOLEAN
  <2>1. i \in Nat /\ archive[i] \in Entry
    BY <1>1, <1>2, ElementOfSeq DEF Positions
  <2> QED
    BY <2>1, ArchiveAssumption DEF Entry
<1>4. /\ push.given \in Batches /\ push.todo \in Batches
      /\ push.at \in Nat /\ push.limit \in Nat /\ push.flagged \in SUBSET Nat
      /\ push.pc \in {"idle", "inspect", "publish", "unlock"}
  BY DEF TypeOK
<1>5. ASSUME Inspecting
      PROVE  /\ Candidate \in YPoint /\ Candidate \in Feasible
             /\ Candidate = push.todo[1] /\ 1 \in DOMAIN push.todo
  <2>1. /\ push.todo \in Seq(Feasible)
        /\ Head(push.todo) = push.todo[1] /\ 1 \in DOMAIN push.todo
    BY <1>4, <1>5, BatchFacts DEF Inspecting
  <2>2. push.todo[1] \in Feasible
    BY <2>1, LenProperties
  <2> QED
    BY <2>1, <2>2, ArchiveAssumption DEF Candidate
<1> QED
  BY <1>2, <1>3, <1>4, <1>5

(***************************************************************************)
(* inspect, when it marks an entry: nothing else about the entries changes.*)
(***************************************************************************)
LEMMA FlagFacts ==
    ASSUME TypeOK, ControlInv, Flag
    PROVE  /\ push.at \in Positions /\ push.at <= push.limit
           /\ archive' \in Seq(Entry) /\ Len(archive') = Len(archive)
           /\ Positions' = Positions
           /\ \A i \in Positions :
                 /\ archive'[i].yp = archive[i].yp
                 /\ archive'[i].ts = archive[i].ts
                 /\ archive'[i].by = archive[i].by
                 /\ archive'[i].dominated = IF i = push.at THEN TRUE ELSE archive[i].dominated
<1> DEFINE e == [archive[push.at] EXCEPT !.dominated = TRUE]
<1>1. push.at \in Positions /\ push.at <= push.limit
  BY EntryFacts DEF Flag, Inspecting, ControlInv, Positions
<1>2. archive \in Seq(Entry) /\ push.at \in 1 .. Len(archive)
  BY <1>1 DEF TypeOK, Positions
<1>3. archive[push.at] \in Entry
  BY <1>1, EntryFacts
<1>4. /\ e \in Entry
      /\ e.yp = archive[push.at].yp
      /\ e.ts = archive[push.at].ts
      /\ e.by = archive[push.at].by
      /\ e.dominated = TRUE
  BY <1>3 DEF Entry
<1>5. archive' = [archive EXCEPT ![push.at] = e]
  BY DEF Flag
<1> HIDE DEF e
<1>6. /\ archive' \in Seq(Entry) /\ Len(archive') = Len(archive)
      /\ \A i \in Positions : archive'[i] = IF i = push.at THEN e ELSE archive[i]
  BY <1>2, <1>4, <1>5, ExceptSeq DEF Positions
<1>7. ASSUME NEW i \in Positions
      PROVE  /\ archive'[i].yp = archive[i].yp
             /\ archive'[i].ts = archive[i].ts
             /\ archive'[i].by = archive[i].by
             /\ archive'[i].dominated = IF i = push.at THEN TRUE ELSE archive[i].dominated
  <2>1. CASE i = push.at
    BY <2>1, <1>4, <1>6
  <2>2. CASE i # push.at
    BY <2>2, <1>6
  <2> QED
    BY <2>1, <2>2
<1>8. Positions' = Positions
  BY <1>6 DEF Positions
<1> QED
  BY <1>1, <1>6, <1>7, <1>8

(***************************************************************************)
(* inspect, when the candidate joins: one entry more, the others unchanged.*)
(***************************************************************************)
LEMMA AcceptFacts ==
    ASSUME TypeOK, ControlInv, Accept
    PROVE  /\ archive' \in Seq(Entry) /\ Len(archive') = Len(archive) + 1
           /\ Positions' = Positions \cup {Len(archive) + 1}
           /\ \A i \in Positions : archive'[i] = archive[i]
           /\ archive'[Len(archive) + 1] = [yp |-> Candidate, ts |-> lastUpdateTime + 1,
                                            by |-> mutex, dominated |-> FALSE]
           /\ mutex \in Worker
<1> DEFINE e == [yp |-> Candidate, ts |-> lastUpdateTime + 1,
                 by |-> mutex, dominated |-> FALSE]
<1>1. mutex \in Worker
  BY DEF Accept, Inspecting, ControlInv, TypeOK
<1>2. e \in Entry
  BY <1>1, EntryFacts DEF Accept, Entry, TypeOK
<1>3. archive \in Seq(Entry) /\ archive' = Append(archive, e)
  BY DEF TypeOK, Accept
<1> HIDE DEF e
<1>4. /\ archive' \in Seq(Entry) /\ Len(archive') = Len(archive) + 1
      /\ \A i \in 1 .. Len(archive) : archive'[i] = archive[i]
      /\ archive'[Len(archive) + 1] = e
  BY <1>2, <1>3
<1>5. Positions' = Positions \cup {Len(archive) + 1}
  <2>1. \A n \in Nat : 1 .. n + 1 = (1 .. n) \cup {n + 1}
    OBVIOUS
  <2>2. Len(archive) \in Nat
    BY EntryFacts
  <2> QED
    BY <1>4, <2>1, <2>2 DEF Positions
<1> QED
  BY <1>1, <1>4, <1>5 DEF Positions, e

(***************************************************************************)
(* A reader changes nothing but its own locals.                            *)
(***************************************************************************)
Reading == ReadPublished \/ ReadOverflow \/ Scan \/ EndScan \/ Return

Pushing == Pass \/ Skip \/ Flag \/ Accept \/ Count \/ Publish \/ EndSync

LEMMA NextCases == Next <=> Sync \/ Pushing \/ Reading
BY DEF Next, Pushing, Reading

LEMMA ReadingChanges ==
    ASSUME Reading
    PROVE  /\ archive' = archive /\ published' = published /\ liveCount' = liveCount
           /\ archiveOverflow' = archiveOverflow /\ lastUpdateTime' = lastUpdateTime
           /\ solverTimestamps' = solverTimestamps /\ mutex' = mutex /\ push' = push
           /\ received' = received /\ skipped' = skipped
BY DEF Reading, ReadPublished, ReadOverflow, Scan, EndScan, Return, shared, history

LEMMA PushingChanges ==
    ASSUME Pushing
    PROVE  reader' = reader /\ received' = received /\ skipped' = skipped
BY DEF Pushing, Pass, Skip, Flag, Accept, Count, Publish, EndSync, history

(***************************************************************************)
(* What a push does to its own locals.                                     *)
(***************************************************************************)
LEMMA PushLocals ==
    ASSUME TypeOK
    PROVE  /\ Pass => /\ push'.pc = push.pc /\ push'.given = push.given
                      /\ push'.todo = push.todo /\ push'.at = push.at + 1
                      /\ push'.limit = push.limit /\ push'.flagged = push.flagged
           /\ Skip \/ Accept =>
                      /\ push'.pc = push.pc /\ push'.given = push.given
                      /\ push'.todo = Tail(push.todo) /\ push'.at = 1
                      /\ push'.limit = push.limit /\ push'.flagged = push.flagged
           /\ Flag => /\ push'.pc = push.pc /\ push'.given = push.given
                      /\ push'.todo = push.todo /\ push'.at = push.at + 1
                      /\ push'.limit = push.limit
                      /\ push'.flagged = push.flagged \cup {push.at}
           /\ Count => /\ push'.pc = IF Added > 0 THEN "publish" ELSE "unlock"
                       /\ push'.given = push.given
                       /\ push'.todo = push.todo /\ push'.at = push.at
                       /\ push'.limit = push.limit /\ push'.flagged = push.flagged
           /\ Publish => /\ push'.pc = "unlock"
                         /\ push'.given = push.given
                         /\ push'.todo = push.todo /\ push'.at = push.at
                         /\ push'.limit = push.limit /\ push'.flagged = push.flagged
<1>1. push \in [pc : {"idle", "inspect", "publish", "unlock"}, given : Batches,
                todo : Batches, at : Nat, limit : Nat, flagged : SUBSET Nat]
  BY DEF TypeOK
<1> QED
  BY <1>1 DEF Pass, Skip, Flag, Accept, Count, Publish, NextCandidate

LEMMA ControlStep ==
    ASSUME TypeOK, ControlInv, Next
    PROVE  ControlInv'
<1>1. CASE Sync
  <2>1. PICK w \in Worker, candidates \in Batches, alsoPull \in BOOLEAN :
            BeginSync(w, candidates, alsoPull)
    BY <1>1 DEF Sync
  <2>2. /\ push'.pc = "inspect" /\ push'.at = 1
        /\ push'.limit = Len(archive) /\ archive' = archive
        /\ mutex' = w /\ w # NoWorker
    BY <2>1, ArchiveAssumption DEF BeginSync, shared
  <2> QED
    BY <2>2, EntryFacts DEF ControlInv
<1>2. CASE Pass
  BY <1>2, EntryFacts, PushLocals DEF Pass, Inspecting, ControlInv, shared
<1>3. CASE Skip
  BY <1>3, EntryFacts, PushLocals DEF Skip, Inspecting, ControlInv, shared
<1>4. CASE Flag
  <2>1. Len(archive') = Len(archive) /\ mutex' = mutex
    BY <1>4, FlagFacts DEF Flag
  <2> QED
    BY <2>1, <1>4, EntryFacts, PushLocals DEF Flag, Inspecting, ControlInv
<1>5. CASE Accept
  <2>1. Len(archive') = Len(archive) + 1 /\ mutex' = mutex
    BY <1>5, AcceptFacts DEF Accept
  <2> QED
    BY <2>1, <1>5, EntryFacts, PushLocals DEF Accept, Inspecting, ControlInv
<1>6. CASE Count
  BY <1>6, EntryFacts, PushLocals DEF Count, Added, ControlInv
<1>7. CASE Publish
  BY <1>7, EntryFacts, PushLocals DEF Publish, ControlInv
<1>8. CASE EndSync
  <2>1. push' = NoPush /\ mutex' = NoWorker /\ archive' = archive
    BY <1>8 DEF EndSync
  <2> QED
    BY <2>1, EntryFacts DEF ControlInv, NoPush
<1>9. CASE Reading
  BY <1>9, ReadingChanges DEF ControlInv
<1> QED
  BY <1>1, <1>2, <1>3, <1>4, <1>5, <1>6, <1>7, <1>8, <1>9, NextCases DEF Pushing

(***************************************************************************)
(* How a call begins and how it ends.                                      *)
(***************************************************************************)
LEMMA SyncFacts ==
    ASSUME TypeOK, ControlInv, Sync
    PROVE  /\ mutex = NoWorker /\ mutex' \in Worker /\ mutex' # NoWorker
           /\ push = NoPush
           /\ archive' = archive /\ published' = published /\ liveCount' = liveCount
           /\ archiveOverflow' = archiveOverflow /\ lastUpdateTime' = lastUpdateTime
           /\ solverTimestamps' = solverTimestamps
           /\ push'.pc = "inspect" /\ push'.given \in Batches /\ push'.todo = push'.given
           /\ push'.at = 1 /\ push'.limit = Len(archive) /\ push'.flagged = {}
           /\ push' \in [pc : {"idle", "inspect", "publish", "unlock"}, given : Batches,
                         todo : Batches, at : Nat, limit : Nat, flagged : SUBSET Nat]
           /\ reader' = [reader EXCEPT !.quiet = FALSE]
           /\ \E alsoPull \in BOOLEAN :
                 /\ received' = IF alsoPull
                                THEN [received EXCEPT ![mutex'] = @ \cup Pull(mutex')]
                                ELSE received
                 /\ skipped' = IF alsoPull
                               THEN skipped
                               ELSE [skipped EXCEPT ![mutex'] = lastUpdateTime]
<1>1. PICK w \in Worker, candidates \in Batches, alsoPull \in BOOLEAN :
          BeginSync(w, candidates, alsoPull)
  BY DEF Sync
<1>2. push = NoPush
  BY <1>1 DEF BeginSync, ControlInv
<1>3. Len(archive) \in Nat
  BY EntryFacts
<1> QED
  BY <1>1, <1>2, <1>3, ArchiveAssumption DEF BeginSync, shared

LEMMA EndSyncFacts ==
    ASSUME TypeOK, ControlInv, EndSync
    PROVE  /\ mutex \in Worker /\ mutex' = NoWorker
           /\ push.pc = "unlock" /\ push.todo = <<>> /\ push' = NoPush
           /\ push'.pc = "idle" /\ push'.given = <<>> /\ push'.todo = <<>>
           /\ push'.limit = 0 /\ push'.flagged = {}
           /\ archive' = archive /\ published' = published /\ liveCount' = liveCount
           /\ archiveOverflow' = archiveOverflow /\ lastUpdateTime' = lastUpdateTime
           /\ solverTimestamps' \in [Worker -> Nat]
           /\ solverTimestamps'[mutex] = lastUpdateTime
           /\ \A w \in Worker : w # mutex => solverTimestamps'[w] = solverTimestamps[w]
<1>1. mutex \in Worker
  BY DEF EndSync, ControlInv, TypeOK
<1> QED
  BY <1>1 DEF EndSync, ControlInv, NoPush, TypeOK

(***************************************************************************)
(* The counter of live entries, the overflow mark and the published length *)
(* follow what they account for.                                           *)
(***************************************************************************)
LEMMA CounterStep ==
    ASSUME TypeOK, ControlInv, CounterInv, TimeInv, Next
    PROVE  CounterInv'
<1> DEFINE L(n) == {i \in 1 .. n : Live(i)}
<1>0. /\ Accounted \in Nat /\ Announced \in Nat /\ Len(archive) \in Nat
      /\ Accounted <= Len(archive)
  BY EntryFacts DEF Accounted, Announced, ControlInv
<1>00. \A n \in Nat : IsFiniteSet(L(n))
  <2> SUFFICES ASSUME NEW n \in Nat PROVE IsFiniteSet(L(n))
    OBVIOUS
  <2>1. IsFiniteSet(1 .. n)
    BY FS_Interval
  <2> QED
    BY <2>1, FS_Subset
<1>1. CASE Sync
  <2>1. /\ push.pc = "idle" /\ push'.pc = "inspect" /\ push'.limit = Len(archive)
        /\ archive' = archive /\ published' = published /\ liveCount' = liveCount
        /\ archiveOverflow' = archiveOverflow
    BY <1>1, SyncFacts DEF NoPush
  <2>2. Accounted' = Accounted /\ Announced' = Announced
    BY <2>1 DEF Accounted, Announced
  <2> QED
    BY <2>1, <2>2 DEF CounterInv, Live
<1>2. CASE Pass \/ Skip
  <2>1. /\ push'.pc = push.pc /\ push'.limit = push.limit
        /\ archive' = archive /\ published' = published /\ liveCount' = liveCount
        /\ archiveOverflow' = archiveOverflow
    BY <1>2, PushLocals DEF Pass, Skip, shared
  <2>2. Accounted' = Accounted /\ Announced' = Announced
    BY <2>1 DEF Accounted, Announced
  <2> QED
    BY <2>1, <2>2 DEF CounterInv, Live
<1>3. CASE Flag
  <2>1. /\ push'.pc = push.pc /\ push'.limit = push.limit /\ push.pc = "inspect"
        /\ published' = published /\ liveCount' = liveCount - 1
        /\ archiveOverflow' = archiveOverflow
    BY <1>3, PushLocals DEF Flag, Inspecting
  <2>2. Accounted' = Accounted /\ Announced' = Announced /\ Accounted = push.limit
    BY <2>1 DEF Accounted, Announced
  <2>3. {i \in 1 .. Accounted : Live(i)}' = L(Accounted) \ {push.at}
    <3>1. \A i \in 1 .. Accounted : i \in Positions
      BY <1>0 DEF Positions
    <3>2. \A i \in 1 .. Accounted : Live(i)' <=> (Live(i) /\ i # push.at)
      BY <3>1, <1>3, FlagFacts, EntryFacts DEF Live
    <3> QED
      BY <3>2, <2>2
  <2>4. push.at \in L(Accounted)
    BY <1>3, <2>2, FlagFacts, <1>0 DEF Flag, Positions
  <2>5. Cardinality(L(Accounted) \ {push.at}) = Cardinality(L(Accounted)) - 1
    BY <2>4, <1>0, <1>00, FS_RemoveElement
  <2> HIDE DEF L
  <2>6. liveCount = Cardinality(L(Accounted))
    BY DEF CounterInv, L
  <2> QED
    BY <2>1, <2>2, <2>3, <2>5, <2>6 DEF CounterInv
<1>4. CASE Accept
  <2>1. /\ push'.pc = push.pc /\ push'.limit = push.limit /\ push.pc = "inspect"
        /\ published' = published /\ liveCount' = liveCount
        /\ archiveOverflow' = archiveOverflow
    BY <1>4, PushLocals DEF Accept, Inspecting
  <2>2. Accounted' = Accounted /\ Announced' = Announced
    BY <2>1 DEF Accounted, Announced
  <2>3. \A i \in 1 .. Accounted : archive'[i] = archive[i]
    BY <1>4, <1>0, AcceptFacts DEF Positions
  <2>4. {i \in 1 .. Accounted : Live(i)}' = L(Accounted)
    BY <2>2, <2>3 DEF Live
  <2> QED
    BY <2>1, <2>2, <2>4 DEF CounterInv
<1>5. CASE Count
  <2>1. /\ push.pc = "inspect" /\ push'.limit = push.limit
        /\ push'.pc = IF Added > 0 THEN "publish" ELSE "unlock"
        /\ archive' = archive /\ published' = published
        /\ archiveOverflow' = (archiveOverflow \/ Len(archive) > MAX_SOLUTIONS)
        /\ liveCount' = liveCount + Added
    BY <1>5, PushLocals DEF Count
  <2>2. /\ push.limit \in Nat /\ push.limit <= Len(archive)
        /\ Added = Len(archive) - push.limit /\ MAX_SOLUTIONS \in Nat
    BY EntryFacts, ArchiveAssumption DEF ControlInv, Added
  <2>3. Accounted = push.limit /\ Accounted' = Len(archive)
    BY <2>1 DEF Accounted
  <2>4. Announced = push.limit /\ Announced' = push.limit
    BY <2>1, <2>2 DEF Announced
  <2>5. L(Len(archive)) = L(push.limit) \cup (push.limit + 1 .. Len(archive))
    <3>1. \A i \in push.limit + 1 .. Len(archive) : Live(i)
      BY <2>1, <2>2 DEF TimeInv, Positions
    <3> QED
      BY <3>1, <2>2
  <2>6. Cardinality(L(Len(archive))) = Cardinality(L(push.limit)) + Added
    <3>1. L(push.limit) \cap (push.limit + 1 .. Len(archive)) = {}
      BY <2>2
    <3> HIDE DEF L
    <3>a. push.limit + 1 \in Int /\ Len(archive) \in Int
      BY <2>2, <1>0
    <3>b. /\ IsFiniteSet(push.limit + 1 .. Len(archive))
          /\ Cardinality(push.limit + 1 .. Len(archive)) =
               IF push.limit + 1 > Len(archive) THEN 0
               ELSE Len(archive) - (push.limit + 1) + 1
      BY <3>a, FS_Interval
    <3>2. IsFiniteSet(L(push.limit)) /\ IsFiniteSet(push.limit + 1 .. Len(archive))
      BY <1>00, <2>2, <3>b
    <3>3. Cardinality(push.limit + 1 .. Len(archive)) = Added
      BY <3>b, <2>2, <1>0
    <3>4. Cardinality(L(push.limit) \cup (push.limit + 1 .. Len(archive)))
            = Cardinality(L(push.limit)) + Cardinality(push.limit + 1 .. Len(archive))
              - Cardinality(L(push.limit) \cap (push.limit + 1 .. Len(archive)))
      BY <3>2, FS_Union
    <3>5. Cardinality(L(push.limit)) \in Nat
      BY <3>2, FS_CardinalityType
    <3>6. Cardinality(L(push.limit) \cap (push.limit + 1 .. Len(archive))) = 0
      BY <3>1, FS_EmptySet
    <3>7. Added \in Nat
      BY <2>2, <1>0
    <3> QED
      BY <3>3, <3>4, <3>5, <3>6, <3>7, <2>5
  <2>7. {i \in 1 .. Accounted : Live(i)}' = L(Len(archive))
    BY <2>1, <2>3 DEF Live
  <2>8. archiveOverflow' <=> Len(archive) > MAX_SOLUTIONS
    <3>1. archiveOverflow <=> push.limit > MAX_SOLUTIONS
      BY <2>3 DEF CounterInv
    <3>2. push.limit > MAX_SOLUTIONS => Len(archive) > MAX_SOLUTIONS
      BY <2>2, <1>0
    <3>3. archiveOverflow' <=> archiveOverflow \/ Len(archive) > MAX_SOLUTIONS
      BY <2>1
    <3> QED
      BY <3>1, <3>2, <3>3
  <2>9. liveCount = Cardinality(L(push.limit))
    BY <2>3 DEF CounterInv
  <2> HIDE DEF L
  <2> QED
    BY <2>1, <2>3, <2>4, <2>6, <2>7, <2>8, <2>9 DEF CounterInv
<1>6. CASE Publish
  <2>1. /\ push.pc = "publish" /\ push'.pc = "unlock"
        /\ archive' = archive /\ published' = Smaller(Len(archive), MAX_SOLUTIONS)
        /\ liveCount' = liveCount /\ archiveOverflow' = archiveOverflow
    BY <1>6, PushLocals DEF Publish
  <2>2. Accounted' = Accounted /\ Announced' = Len(archive)
    BY <2>1 DEF Accounted, Announced
  <2> QED
    BY <2>1, <2>2 DEF CounterInv, Live
<1>7. CASE EndSync
  <2>1. /\ push.pc = "unlock" /\ push'.pc = "idle"
        /\ archive' = archive /\ published' = published
        /\ liveCount' = liveCount /\ archiveOverflow' = archiveOverflow
    BY <1>7, EndSyncFacts
  <2>2. Accounted' = Accounted /\ Announced' = Announced
    BY <2>1 DEF Accounted, Announced
  <2> QED
    BY <2>1, <2>2 DEF CounterInv, Live
<1>8. CASE Reading
  BY <1>8, ReadingChanges DEF CounterInv, Live, Accounted, Announced
<1> QED
  BY <1>1, <1>2, <1>3, <1>4, <1>5, <1>6, <1>7, <1>8, NextCases DEF Pushing

(***************************************************************************)
(* Every variable keeps its type.                                          *)
(***************************************************************************)
LEMMA TypeStep ==
    ASSUME TypeOK, ControlInv, CounterInv, TimeInv, ReaderInv, Next
    PROVE  TypeOK'
<1> DEFINE PushType == [pc : {"idle", "inspect", "publish", "unlock"}, given : Batches,
                        todo : Batches, at : Nat, limit : Nat, flagged : SUBSET Nat]
           ReaderType == [pc : {"idle", "overflow", "scan", "done"}, n : Nat,
                          at : Nat, seen : SUBSET Nat, quiet : BOOLEAN]
<1>1. liveCount' \in Nat
  <2>1. CounterInv' /\ ControlInv'
    BY CounterStep, ControlStep
  <2>2. CASE Sync \/ Reading \/ Pass \/ Skip \/ Accept \/ Publish \/ EndSync
    BY <2>2, SyncFacts, ReadingChanges DEF Pass, Skip, Accept, Publish, EndSync, shared, TypeOK
  <2>3. CASE Count
    BY <2>3, EntryFacts DEF Count, TypeOK, Added, ControlInv
  <2>4. CASE Flag
    <3>1. push.at \in {i \in 1 .. Accounted : Live(i)}
      <4>1. push.at \in Nat /\ 1 <= push.at /\ push.at <= push.limit
        BY <2>4, FlagFacts, EntryFacts DEF Positions
      <4>2. push.limit = Accounted /\ Live(push.at)
        BY <2>4 DEF Flag, Inspecting, Accounted
      <4> QED
        BY <4>1, <4>2, EntryFacts
    <3>2. IsFiniteSet({i \in 1 .. Accounted : Live(i)})
      <4>1. Accounted \in Nat
        BY EntryFacts DEF Accounted
      <4>2. IsFiniteSet(1 .. Accounted)
        BY <4>1, FS_Interval
      <4> QED
        BY <4>2, FS_Subset
    <3>3. liveCount # 0
      BY <3>1, <3>2, FS_EmptySet DEF CounterInv
    <3> QED
      BY <3>3, <2>4 DEF Flag, TypeOK
  <2> QED
    BY <2>2, <2>3, <2>4, NextCases DEF Pushing
<1>2. archive' \in Seq(Entry)
  <2>1. CASE Flag
    BY <2>1, FlagFacts
  <2>2. CASE Accept
    BY <2>2, AcceptFacts
  <2>3. CASE Sync \/ Reading \/ Pass \/ Skip \/ Count \/ Publish \/ EndSync
    BY <2>3, SyncFacts, ReadingChanges DEF Pass, Skip, Count, Publish, EndSync, shared, TypeOK
  <2> QED
    BY <2>1, <2>2, <2>3, NextCases DEF Pushing
<1>3. published' \in Nat
  <2>1. Smaller(Len(archive), MAX_SOLUTIONS) \in Nat
    BY EntryFacts, ArchiveAssumption DEF Smaller
  <2>2. CASE Sync \/ Reading
    BY <2>2, SyncFacts, ReadingChanges DEF TypeOK
  <2>3. CASE Publish
    BY <2>1, <2>3 DEF Publish
  <2>4. CASE Pass \/ Skip \/ Flag \/ Accept \/ Count \/ EndSync
    BY <2>4 DEF Pass, Skip, Flag, Accept, Count, EndSync, shared, TypeOK
  <2> QED
    BY <2>2, <2>3, <2>4, NextCases DEF Pushing
<1>4. archiveOverflow' \in BOOLEAN /\ lastUpdateTime' \in Nat
  <2>2. CASE Sync \/ Reading
    BY <2>2, SyncFacts, ReadingChanges DEF TypeOK
  <2>3. CASE Pass \/ Skip \/ Flag \/ Accept \/ Publish \/ EndSync
    BY <2>3 DEF Pass, Skip, Flag, Accept, Publish, EndSync, shared, TypeOK
  <2>4. CASE Count
    <3>1. archiveOverflow \in BOOLEAN /\ lastUpdateTime \in Nat
      BY DEF TypeOK
    <3>2. archiveOverflow' \in BOOLEAN
      BY <3>1, <2>4 DEF Count
    <3>3. lastUpdateTime' \in Nat
      BY <3>1, <2>4 DEF Count
    <3> QED
      BY <3>2, <3>3
  <2> QED
    BY <2>2, <2>3, <2>4, NextCases DEF Pushing
<1>5. solverTimestamps' \in [Worker -> Nat] /\ mutex' \in Worker \cup {NoWorker}
  <2>1. CASE Sync \/ Reading
    BY <2>1, SyncFacts, ReadingChanges DEF TypeOK
  <2>2. CASE EndSync
    BY <2>2, EndSyncFacts
  <2>3. CASE Pass \/ Skip \/ Flag \/ Accept \/ Count \/ Publish
    BY <2>3 DEF Pass, Skip, Flag, Accept, Count, Publish, shared, TypeOK
  <2> QED
    BY <2>1, <2>2, <2>3, NextCases DEF Pushing
<1>6. push' \in PushType
  <2>0. push \in PushType
    BY DEF TypeOK
  <2>1. CASE Sync
    BY <2>1, SyncFacts
  <2>2. CASE Reading
    BY <2>0, <2>2, ReadingChanges
  <2>3. CASE EndSync
    BY <2>3, EndSyncFacts, BatchFacts DEF NoPush
  <2>4. CASE Pass \/ Publish
    BY <2>0, <2>4 DEF Pass, Publish
  <2>6. CASE Count
    <3>1. push' = [push EXCEPT !.pc = IF Added > 0 THEN "publish" ELSE "unlock"]
      BY <2>6 DEF Count
    <3>2. (IF Added > 0 THEN "publish" ELSE "unlock") \in
             {"idle", "inspect", "publish", "unlock"}
      OBVIOUS
    <3> QED
      BY <2>0, <3>1, <3>2
  <2>7. CASE Flag
    <3>1. push.flagged \cup {push.at} \in SUBSET Nat /\ push.at + 1 \in Nat
      BY EntryFacts
    <3>2. push' = [push EXCEPT !.at = push.at + 1, !.flagged = push.flagged \cup {push.at}]
      BY <2>7 DEF Flag
    <3> QED
      BY <2>0, <3>1, <3>2
  <2>5. CASE Skip \/ Accept
    <3>1. Tail(push.todo) \in Batches
      BY <2>5, EntryFacts, BatchFacts DEF Skip, Accept, Inspecting
    <3>2. push' = [push EXCEPT !.todo = Tail(push.todo), !.at = 1]
      BY <2>5 DEF Skip, Accept, NextCandidate
    <3> QED
      BY <2>0, <3>1, <3>2
  <2> QED
    BY <2>1, <2>2, <2>3, <2>4, <2>5, <2>6, <2>7, NextCases DEF Pushing
<1>7. reader' \in ReaderType
  <2>0. reader \in ReaderType
    BY DEF TypeOK
  <2>1. CASE Sync
    BY <2>0, <2>1, SyncFacts
  <2>2. CASE Pushing
    BY <2>0, <2>2, PushingChanges
  <2>3. CASE ReadPublished
    BY <2>3 DEF ReadPublished, NoRead, TypeOK
  <2>4. CASE ReadOverflow
    <3>1. {i \in Positions : Live(i)} \in SUBSET Nat
      BY DEF Positions
    <3> QED
      BY <2>0, <2>4, <3>1 DEF ReadOverflow
  <2>5. CASE Scan
    <3> DEFINE s == IF Live(reader.at) THEN reader.seen \cup {reader.at} ELSE reader.seen
    <3>1. reader' = [reader EXCEPT !.at = reader.at + 1, !.seen = s]
      BY <2>5 DEF Scan
    <3>2. reader.at + 1 \in Nat /\ s \in SUBSET Nat
      BY <2>0
    <3> HIDE DEF s
    <3> QED
      BY <2>0, <3>1, <3>2
  <2>6. CASE EndScan
    BY <2>0, <2>6 DEF EndScan
  <2>7. CASE Return
    BY <2>7 DEF Return, NoRead
  <2> QED
    BY <2>1, <2>2, <2>3, <2>4, <2>5, <2>6, <2>7, NextCases DEF Reading
<1>8. received' \in [Worker -> SUBSET Nat] /\ skipped' \in [Worker -> Nat]
  <2>1. CASE Sync
    <3>1. PICK alsoPull \in BOOLEAN :
             /\ received' = IF alsoPull
                            THEN [received EXCEPT ![mutex'] = @ \cup Pull(mutex')]
                            ELSE received
             /\ skipped' = IF alsoPull
                           THEN skipped
                           ELSE [skipped EXCEPT ![mutex'] = lastUpdateTime]
      BY <2>1, SyncFacts
    <3>2. Pull(mutex') \in SUBSET Nat
      BY DEF Pull, Positions
    <3> QED
      BY <2>1, <3>1, <3>2, SyncFacts DEF TypeOK
  <2>2. CASE Pushing \/ Reading
    BY <2>2, PushingChanges, ReadingChanges DEF TypeOK
  <2> QED
    BY <2>1, <2>2, NextCases
<1> QED
  BY <1>1, <1>2, <1>3, <1>4, <1>5, <1>6, <1>7, <1>8 DEF TypeOK

(***************************************************************************)
(* Times only grow, and a call stamps its entries with the next one.       *)
(***************************************************************************)
LEMMA TimeStep ==
    ASSUME TypeOK, ControlInv, TimeInv, Next
    PROVE  TimeInv'
<1>0. /\ lastUpdateTime \in Nat /\ solverTimestamps \in [Worker -> Nat]
      /\ Len(archive) \in Nat /\ push.limit \in Nat /\ push.limit <= Len(archive)
  BY EntryFacts DEF TypeOK, ControlInv
<1>1. CASE Sync
  <2>1. Accounted' = Accounted
    BY <1>1, SyncFacts DEF Accounted, NoPush
  <2>2. \A i \in Positions : ~ (push'.limit < i)
    BY <1>0, <1>1, SyncFacts DEF Positions
  <2> QED
    BY <1>1, <2>1, <2>2, SyncFacts DEF TimeInv, Positions
<1>2. CASE Pass \/ Skip
  <2>1. /\ push'.pc = push.pc /\ push'.limit = push.limit
        /\ archive' = archive /\ lastUpdateTime' = lastUpdateTime
        /\ solverTimestamps' = solverTimestamps /\ mutex' = mutex
    BY <1>2, PushLocals DEF Pass, Skip, shared
  <2>2. Accounted' = Accounted
    BY <2>1 DEF Accounted
  <2> QED
    BY <2>1, <2>2 DEF TimeInv, Positions, Live
<1>3. CASE Flag
  <2>1. /\ push'.pc = push.pc /\ push'.limit = push.limit
        /\ lastUpdateTime' = lastUpdateTime
        /\ solverTimestamps' = solverTimestamps /\ mutex' = mutex
    BY <1>3, PushLocals DEF Flag
  <2>2. Accounted' = Accounted
    BY <1>3, <2>1 DEF Accounted, Flag, Inspecting
  <2>3. \A i \in Positions : push.limit < i => archive'[i].dominated = archive[i].dominated
    <3> SUFFICES ASSUME NEW i \in Positions, push.limit < i
                 PROVE  archive'[i].dominated = archive[i].dominated
      OBVIOUS
    <3>1. push.at <= push.limit /\ push.at \in Nat /\ i \in Nat
      BY <1>3, FlagFacts, EntryFacts
    <3>2. i # push.at
      BY <3>1, <1>0
    <3> QED
      BY <3>2, <1>3, FlagFacts
  <2> QED
    BY <1>3, <2>1, <2>2, <2>3, FlagFacts DEF TimeInv, Live
<1>4. CASE Accept
  <2>1. /\ push'.pc = "inspect" /\ push.pc = "inspect" /\ push'.limit = push.limit
        /\ lastUpdateTime' = lastUpdateTime
        /\ solverTimestamps' = solverTimestamps /\ mutex' = mutex
    BY <1>4, PushLocals DEF Accept, Inspecting
  <2>2. Accounted' = Accounted /\ Accounted = push.limit
    BY <2>1 DEF Accounted
  <2> DEFINE n == Len(archive) + 1
  <2>3. /\ archive'[n].ts = lastUpdateTime + 1 /\ archive'[n].by = mutex
        /\ archive'[n].dominated = FALSE
    BY <1>4, AcceptFacts
  <2>4. \A w \in Worker : solverTimestamps[w] < archive'[n].ts
    BY <2>3, <1>0 DEF TimeInv
  <2>5. Positions' = Positions \cup {n} /\ \A i \in Positions : archive'[i] = archive[i]
    BY <1>4, AcceptFacts
  <2>6. ~ (n <= Accounted)
    BY <1>0, <2>2
  <2>7. archive'[n].ts <= lastUpdateTime + 1
    BY <2>3, <1>0
  <2> HIDE DEF n
  <2>8. ASSUME NEW i \in Positions'
        PROVE  /\ archive'[i].ts <= IF i <= Accounted THEN lastUpdateTime ELSE lastUpdateTime + 1
               /\ push.limit < i =>
                     /\ ~ archive'[i].dominated
                     /\ archive'[i].by = mutex
                     /\ \A w \in Worker : solverTimestamps[w] < archive'[i].ts
    <3>1. CASE i = n
      BY <3>1, <2>3, <2>4, <2>6, <2>7
    <3>2. CASE i \in Positions
      BY <3>2, <2>1, <2>5 DEF TimeInv, Live
    <3> QED
      BY <3>1, <3>2, <2>5
  <2> QED
    BY <2>1, <2>2, <2>8 DEF TimeInv, Live
<1>5. CASE Count
  <2>1. /\ push.pc = "inspect" /\ push'.pc \in {"publish", "unlock"}
        /\ push'.limit = push.limit
        /\ lastUpdateTime' = IF Added > 0 THEN lastUpdateTime + 1 ELSE lastUpdateTime
        /\ archive' = archive /\ Positions' = Positions
        /\ solverTimestamps' = solverTimestamps /\ mutex' = mutex
    BY <1>5, PushLocals DEF Count, Positions
  <2>2. /\ Accounted = push.limit /\ Accounted' = Len(archive)
        /\ Added = Len(archive) - push.limit
    BY <2>1 DEF Accounted, Added
  <2>3. ASSUME NEW i \in Positions
        PROVE  archive[i].ts <= lastUpdateTime' /\ i <= Accounted'
    <3>1. i \in Nat /\ i <= Len(archive) /\ archive[i].ts \in Nat
      BY <1>0, EntryFacts DEF Positions
    <3>2. CASE i <= push.limit
      <4>1. archive[i].ts <= lastUpdateTime
        BY <3>2, <2>2 DEF TimeInv
      <4> QED
        BY <4>1, <3>1, <2>1, <2>2, <1>0
    <3>3. CASE ~ (i <= push.limit)
      <4>1. archive[i].ts <= lastUpdateTime + 1
        BY <3>3, <2>2 DEF TimeInv
      <4>2. Added > 0
        BY <3>1, <3>3, <2>2, <1>0
      <4> QED
        BY <4>1, <4>2, <3>1, <2>1, <2>2, <1>0
    <3> QED
      BY <3>2, <3>3
  <2>4. \A w \in Worker : solverTimestamps[w] <= lastUpdateTime'
    <3> TAKE w \in Worker
    <3>1. solverTimestamps[w] <= lastUpdateTime /\ solverTimestamps[w] \in Nat
      BY <1>0 DEF TimeInv
    <3> QED
      BY <3>1, <2>1, <1>0
  <2> QED
    BY <2>1, <2>3, <2>4 DEF TimeInv, Live
<1>6. CASE Publish
  <2>1. /\ push.pc = "publish" /\ push'.pc = "unlock" /\ push'.limit = push.limit
        /\ archive' = archive /\ lastUpdateTime' = lastUpdateTime
        /\ solverTimestamps' = solverTimestamps /\ mutex' = mutex
    BY <1>6, PushLocals DEF Publish
  <2>2. Accounted' = Accounted
    BY <2>1 DEF Accounted
  <2> QED
    BY <2>1, <2>2 DEF TimeInv, Positions, Live
<1>7. CASE EndSync
  <2>1. Accounted' = Accounted
    BY <1>7, EndSyncFacts DEF Accounted
  <2>2. \A w \in Worker : solverTimestamps'[w] <= lastUpdateTime
    BY <1>0, <1>7, EndSyncFacts DEF TimeInv
  <2> QED
    BY <1>7, <2>1, <2>2, EndSyncFacts DEF TimeInv, Positions
<1>8. CASE Reading
  BY <1>8, ReadingChanges DEF TimeInv, Live, Positions, Accounted
<1> QED
  BY <1>1, <1>2, <1>3, <1>4, <1>5, <1>6, <1>7, <1>8, NextCases DEF Pushing

(***************************************************************************)
(* No live entry is comparable with a candidate that joins, and none that  *)
(* is marked is as good as it.                                             *)
(***************************************************************************)
LEMMA AcceptedIsNew ==
    ASSUME TypeOK, ControlInv, DominanceInv, CandidateInv, Accept
    PROVE  \A i \in Positions :
              /\ ~ dominates(archive[i].yp, Candidate)
              /\ Live(i) => ~ dominates(Candidate, archive[i].yp)
<1>1. Inspecting /\ push.limit \in Nat /\ push.at \in Nat /\ push.limit < push.at
  BY EntryFacts DEF Accept
<1>2. Candidate = push.todo[1] /\ 1 \in DOMAIN push.todo /\ Candidate \in YPoint
  BY <1>1, EntryFacts
<1>3. ASSUME NEW i \in Positions, Live(i)
      PROVE  ~ dominates(archive[i].yp, Candidate) /\ ~ dominates(Candidate, archive[i].yp)
  <2>1. i \in Nat
    BY EntryFacts
  <2>2. CASE push.limit < i
    BY <2>2, <1>1, <1>2 DEF CandidateInv, Inspecting
  <2>3. CASE ~ (push.limit < i)
    <3>1. i < push.at
      BY <2>1, <2>3, <1>1
    <3> QED
      BY <3>1, <1>1, <1>3 DEF CandidateInv
  <2> QED
    BY <2>2, <2>3
<1>4. ASSUME NEW i \in Positions, dominates(archive[i].yp, Candidate)
      PROVE  FALSE
  <2>1. CASE \E j \in Positions : Live(j) /\ dominates(archive[j].yp, archive[i].yp)
    <3>1. PICK j \in Positions : Live(j) /\ dominates(archive[j].yp, archive[i].yp)
      BY <2>1
    <3>2. dominates(archive[j].yp, Candidate)
      BY <3>1, <1>2, <1>4, EntryFacts, DominanceIsOrder
    <3> QED
      BY <3>1, <3>2, <1>3
  <2>2. CASE Beats(Candidate, archive[i].yp)
    BY <2>2, <1>4 DEF Beats
  <2> QED
    BY <2>1, <2>2 DEF DominanceInv
<1> QED
  BY <1>3, <1>4

(***************************************************************************)
(* The steps of a push that leave the entries and the batch alone.         *)
(***************************************************************************)
LEMMA IdleSteps ==
    ASSUME TypeOK, Count \/ Publish \/ Reading
    PROVE  /\ archive' = archive /\ Positions' = Positions /\ mutex' = mutex
           /\ push'.given = push.given /\ push'.todo = push.todo
           /\ push'.limit = push.limit /\ push'.flagged = push.flagged
           /\ push'.at = push.at
           /\ Count => push.pc = "inspect" /\ push.todo = <<>>
                       /\ push'.pc \in {"publish", "unlock"}
           /\ Publish => push.pc = "publish" /\ push'.pc = "unlock"
           /\ Reading => push' = push
           /\ Inspecting' <=> Inspecting
<1>1. Count => /\ archive' = archive /\ mutex' = mutex
               /\ push'.given = push.given /\ push'.todo = push.todo
               /\ push'.limit = push.limit /\ push'.flagged = push.flagged
               /\ push'.at = push.at /\ push.pc = "inspect" /\ push.todo = <<>>
               /\ push'.pc \in {"publish", "unlock"}
  BY PushLocals DEF Count
<1>2. Publish => /\ archive' = archive /\ mutex' = mutex
                 /\ push'.given = push.given /\ push'.todo = push.todo
                 /\ push'.limit = push.limit /\ push'.flagged = push.flagged
                 /\ push'.at = push.at /\ push.pc = "publish" /\ push'.pc = "unlock"
  BY PushLocals DEF Publish
<1>3. Reading => archive' = archive /\ mutex' = mutex /\ push' = push
  BY ReadingChanges
<1>4. archive' = archive => Positions' = Positions
  BY DEF Positions
<1> QED
  BY <1>1, <1>2, <1>3, <1>4 DEF Inspecting

(***************************************************************************)
(* The entries stay ordered by dominance: later ones are not covered, what *)
(* they cover is marked, and a marked entry stays covered.                 *)
(***************************************************************************)
LEMMA DominanceStep ==
    ASSUME TypeOK, ControlInv, DominanceInv, CandidateInv, Next
    PROVE  DominanceInv'
<1> DEFINE Covered(i) ==
              \/ \E j \in Positions : Live(j) /\ dominates(archive[j].yp, archive[i].yp)
              \/ Inspecting /\ Beats(Candidate, archive[i].yp)
<1>0. \A i \in Positions : Covered(i)
  BY DEF DominanceInv
<1>1. CASE Sync
  <2>1. archive' = archive /\ Positions' = Positions /\ ~ Inspecting
    BY <1>1, SyncFacts DEF NoPush, Inspecting, Positions
  <2> QED
    BY <2>1 DEF DominanceInv, Live
<1>2. CASE Pass
  <2>1. archive' = archive /\ Positions' = Positions /\ push'.pc = push.pc
        /\ push'.todo = push.todo
    BY <1>2, PushLocals DEF Pass, shared, Positions
  <2> QED
    BY <2>1 DEF DominanceInv, Live, Inspecting, Candidate
<1>3. CASE Skip
  <2>1. archive' = archive /\ Positions' = Positions
    BY <1>3 DEF Skip, shared, Positions
  <2>2. /\ push.at \in Positions /\ Live(push.at) /\ Candidate \in YPoint
        /\ dominates(archive[push.at].yp, Candidate)
    BY <1>3, EntryFacts DEF Skip, Inspecting, ControlInv, Positions
  <2>3. ASSUME NEW i \in Positions
        PROVE  \E j \in Positions : Live(j) /\ dominates(archive[j].yp, archive[i].yp)
    <3>1. CASE Beats(Candidate, archive[i].yp)
      <4>1. dominates(archive[push.at].yp, archive[i].yp)
        BY <3>1, <2>2, EntryFacts, DominanceIsOrder DEF Beats
      <4> QED
        BY <4>1, <2>2
    <3> QED
      BY <3>1, <1>0
  <2> QED
    BY <2>1, <2>3 DEF DominanceInv, Live
<1>4. CASE Flag
  <2>1. /\ push.at \in Positions /\ Positions' = Positions
        /\ \A i \in Positions :
              /\ archive'[i].yp = archive[i].yp
              /\ archive'[i].dominated = IF i = push.at THEN TRUE ELSE archive[i].dominated
    BY <1>4, FlagFacts
  <2>2. /\ Inspecting /\ Inspecting' /\ Candidate' = Candidate /\ Candidate \in YPoint
        /\ dominates(Candidate, archive[push.at].yp)
        /\ ~ dominates(archive[push.at].yp, Candidate)
    BY <1>4, PushLocals, EntryFacts DEF Flag, Inspecting, Candidate
  <2>3. \A i \in Positions : Live(i)' => Live(i)
    BY <2>1 DEF Live
  <2>4. ASSUME NEW i \in Positions
        PROVE  Covered(i)'
    <3>1. CASE Beats(Candidate, archive[i].yp)
      BY <3>1, <2>1, <2>2 DEF Beats
    <3>2. CASE \E j \in Positions : Live(j) /\ dominates(archive[j].yp, archive[i].yp)
      <4>1. PICK j \in Positions : Live(j) /\ dominates(archive[j].yp, archive[i].yp)
        BY <3>2
      <4>2. CASE j = push.at
        <5>1. dominates(Candidate, archive[i].yp)
          BY <4>1, <4>2, <2>2, EntryFacts, DominanceIsOrder
        <5>2. ~ dominates(archive[i].yp, Candidate)
          BY <4>1, <4>2, <2>2, EntryFacts, DominanceIsOrder
        <5> QED
          BY <5>1, <5>2, <2>1, <2>2 DEF Beats
      <4>3. CASE j # push.at
        BY <4>1, <4>3, <2>1 DEF Live
      <4> QED
        BY <4>2, <4>3
    <3> QED
      BY <3>1, <3>2, <1>0
  <2>5. /\ \A i, j \in Positions : i < j => ~ dominates(archive[i].yp, archive[j].yp)'
        /\ \A i, j \in Positions :
              i < j /\ dominates(archive[j].yp, archive[i].yp)' => ~ Live(i)'
    BY <2>1, <2>3 DEF DominanceInv, dominates
  <2> QED
    BY <2>1, <2>4, <2>5 DEF DominanceInv
<1>5. CASE Accept
  <2> DEFINE n == Len(archive) + 1
  <2>1. /\ Positions' = Positions \cup {n}
        /\ \A i \in Positions : archive'[i] = archive[i]
        /\ archive'[n].yp = Candidate /\ archive'[n].dominated = FALSE
    BY <1>5, AcceptFacts
  <2>2. \A i \in Positions : i \in Nat /\ i < n
    BY EntryFacts DEF Positions
  <2>3. Inspecting /\ Candidate \in YPoint
    BY <1>5, EntryFacts DEF Accept
  <2>4. \A i \in Positions :
           /\ ~ dominates(archive[i].yp, Candidate)
           /\ Live(i) => ~ dominates(Candidate, archive[i].yp)
    BY <1>5, AcceptedIsNew
  <2> HIDE DEF n
  <2>5. ~ (n < n)
    BY EntryFacts DEF n
  <2>6. \A i \in Positions : ~ (n < i)
    BY EntryFacts DEF n, Positions
  <2>7. \A i \in Positions : Live(i)' <=> Live(i)
    BY <2>1 DEF Live
  <2>8. ASSUME NEW i \in Positions', NEW j \in Positions', i < j
        PROVE  /\ ~ dominates(archive'[i].yp, archive'[j].yp)
               /\ dominates(archive'[j].yp, archive'[i].yp) => ~ Live(i)'
    <3>1. i \in Positions
      BY <2>8, <2>1, <2>5, <2>6
    <3>2. CASE j = n
      BY <3>1, <3>2, <2>1, <2>4, <2>7
    <3>3. CASE j \in Positions
      BY <3>1, <3>3, <2>8, <2>1, <2>7 DEF DominanceInv
    <3> QED
      BY <3>2, <3>3, <2>1
  <2>9. ASSUME NEW i \in Positions'
        PROVE  \E j \in Positions' : Live(j)' /\ dominates(archive'[j].yp, archive'[i].yp)
    <3>1. n \in Positions' /\ ~ archive'[n].dominated
      BY <2>1
    <3>2. CASE i = n
      BY <3>1, <3>2, <2>1, <2>3, DominanceIsOrder DEF Live
    <3>3. CASE i \in Positions /\ Beats(Candidate, archive[i].yp)
      BY <3>1, <3>3, <2>1 DEF Beats, Live
    <3>4. CASE i \in Positions /\ \E j \in Positions :
                                     Live(j) /\ dominates(archive[j].yp, archive[i].yp)
      BY <3>4, <2>1, <2>7
    <3> QED
      BY <3>2, <3>3, <3>4, <2>1, <1>0
  <2> QED
    BY <2>8, <2>9 DEF DominanceInv
<1>6. CASE Count \/ Publish \/ Reading
  BY <1>6, IdleSteps DEF DominanceInv, Live, Candidate
<1>7. CASE EndSync
  <2>1. archive' = archive /\ Positions' = Positions /\ ~ Inspecting
    BY <1>7, EndSyncFacts DEF Inspecting, Positions
  <2> QED
    BY <2>1 DEF DominanceInv, Live
<1> QED
  BY <1>1, <1>2, <1>3, <1>4, <1>5, <1>6, <1>7, NextCases DEF Pushing

(***************************************************************************)
(* What has been inspected stays incomparable with the candidate, and what *)
(* has joined with the rest of the batch.                                  *)
(***************************************************************************)
LEMMA CandidateStep ==
    ASSUME TypeOK, ControlInv, CandidateInv, Next
    PROVE  CandidateInv'
<1> DEFINE Apart(p, q) == ~ dominates(p, q) /\ ~ dominates(q, p)
<1>1. CASE Sync
  <2>1. /\ push'.at = 1 /\ push'.limit = Len(archive) /\ Positions' = Positions
    BY <1>1, SyncFacts DEF Positions
  <2>2. \A i \in Positions : ~ (i < 1) /\ ~ (Len(archive) < i)
    BY EntryFacts DEF Positions
  <2> QED
    BY <2>1, <2>2 DEF CandidateInv
<1>2. CASE Pass
  <2>1. /\ archive' = archive /\ Positions' = Positions /\ push'.pc = push.pc
        /\ push'.todo = push.todo /\ push'.limit = push.limit /\ push'.at = push.at + 1
    BY <1>2, PushLocals DEF Pass, shared, Positions
  <2>2. ASSUME NEW i \in Positions, i < push.at + 1, Live(i)
        PROVE  Apart(archive[i].yp, Candidate)
    <3>1. CASE i = push.at
      BY <3>1, <2>2, <1>2 DEF Pass, Live
    <3>2. CASE i # push.at
      <4>1. i < push.at
        BY <2>2, <3>2, EntryFacts
      <4> QED
        BY <4>1, <2>2, <1>2 DEF CandidateInv, Pass
    <3> QED
      BY <3>1, <3>2
  <2> QED
    BY <2>1, <2>2 DEF CandidateInv, Live, Candidate
<1>3. CASE Skip
  <2>1. /\ archive' = archive /\ Positions' = Positions /\ push'.pc = push.pc
        /\ push'.todo = Tail(push.todo) /\ push'.limit = push.limit /\ push'.at = 1
    BY <1>3, PushLocals DEF Skip, shared, Positions
  <2>2. \A i \in Positions : ~ (i < 1)
    BY EntryFacts DEF Positions
  <2>3. \A k \in DOMAIN Tail(push.todo) : k + 1 \in DOMAIN push.todo
                                          /\ Tail(push.todo)[k] = push.todo[k + 1]
    BY <1>3, EntryFacts, BatchFacts DEF Skip, Inspecting
  <2> QED
    BY <2>1, <2>2, <2>3 DEF CandidateInv
<1>4. CASE Flag
  <2>1. /\ push.at \in Positions /\ Positions' = Positions
        /\ \A i \in Positions :
              /\ archive'[i].yp = archive[i].yp
              /\ archive'[i].dominated = IF i = push.at THEN TRUE ELSE archive[i].dominated
    BY <1>4, FlagFacts
  <2>2. /\ push'.pc = push.pc /\ push'.todo = push.todo /\ push'.limit = push.limit
        /\ push'.at = push.at + 1 /\ Candidate' = Candidate /\ Inspecting
    BY <1>4, PushLocals DEF Flag, Candidate
  <2>3. ASSUME NEW i \in Positions, i < push.at + 1, Live(i)'
        PROVE  Apart(archive[i].yp, Candidate)
    <3>1. i # push.at /\ Live(i)
      BY <2>1, <2>3 DEF Live
    <3>2. i < push.at
      BY <2>3, <3>1, EntryFacts
    <3> QED
      BY <3>1, <3>2, <2>2 DEF CandidateInv
  <2> QED
    BY <2>1, <2>2, <2>3 DEF CandidateInv
<1>5. CASE Accept
  <2> DEFINE n == Len(archive) + 1
  <2>1. /\ Positions' = Positions \cup {n}
        /\ \A i \in Positions : archive'[i] = archive[i]
        /\ archive'[n].yp = Candidate
    BY <1>5, AcceptFacts
  <2>2. /\ push'.pc = push.pc /\ push.pc = "inspect"
        /\ push'.todo = Tail(push.todo) /\ push'.limit = push.limit /\ push'.at = 1
    BY <1>5, PushLocals DEF Accept, Inspecting
  <2>3. \A i \in Positions' : ~ (i < 1)
    BY <2>1, EntryFacts DEF Positions
  <2>4. ASSUME NEW k \in DOMAIN Tail(push.todo)
        PROVE  /\ k + 1 \in DOMAIN push.todo /\ Tail(push.todo)[k] = push.todo[k + 1]
               /\ Apart(Candidate, Tail(push.todo)[k])
    <3>1. push.todo \in Batches /\ push.todo # <<>>
      BY <1>5, EntryFacts DEF Accept, Inspecting
    <3>2. k + 1 \in DOMAIN push.todo /\ Tail(push.todo)[k] = push.todo[k + 1]
      BY <3>1, BatchFacts
    <3>3. Candidate = push.todo[1] /\ 1 \in DOMAIN push.todo
      BY <1>5, EntryFacts DEF Accept
    <3>4. k + 1 # 1
      <4>1. Tail(push.todo) \in Seq(Feasible)
        BY <3>1, BatchFacts
      <4> QED
        BY <4>1, LenProperties
    <3> QED
      BY <3>1, <3>2, <3>3, <3>4, BatchFacts
  <2>5. \A i \in Positions : push.limit < i =>
           \A k \in DOMAIN push.todo : Apart(archive[i].yp, push.todo[k])
    BY <2>2 DEF CandidateInv
  <2> HIDE DEF n
  <2>6. \A i \in Positions' : push.limit < i =>
           \A k \in DOMAIN Tail(push.todo) : Apart(archive'[i].yp, Tail(push.todo)[k])
    BY <2>1, <2>4, <2>5
  <2> QED
    BY <2>2, <2>3, <2>6 DEF CandidateInv
<1>6. CASE Count \/ Publish \/ Reading
  BY <1>6, IdleSteps DEF CandidateInv, Live, Candidate, Inspecting
<1>7. CASE EndSync
  BY <1>7, EndSyncFacts DEF CandidateInv, Inspecting
<1> QED
  BY <1>1, <1>2, <1>3, <1>4, <1>5, <1>6, <1>7, NextCases DEF Pushing

(***************************************************************************)
(* What has become of a batch: every candidate is still to come, is        *)
(* covered by the front the call started from, or has joined.              *)
(***************************************************************************)
LEMMA BatchStep ==
    ASSUME TypeOK, ControlInv, DominanceInv, CandidateInv, BatchInv, Next
    PROVE  BatchInv'
<1>0. /\ Len(archive) \in Nat /\ push.limit \in Nat /\ push.limit <= Len(archive)
      /\ \A i \in 1 .. push.limit : i \in Positions
  BY EntryFacts DEF ControlInv, Positions
<1>a. \A k \in DOMAIN push.todo : \E g \in DOMAIN push.given : push.given[g] = push.todo[k]
  BY DEF BatchInv
<1>b. push.pc # "idle" =>
         \A j \in Positions : push.limit < j =>
            \E g \in DOMAIN push.given : push.given[g] = archive[j].yp
  BY DEF BatchInv
<1>c. \A g \in DOMAIN push.given :
         \/ \E k \in DOMAIN push.todo : push.given[g] = push.todo[k]
         \/ \E i \in Standing : dominates(archive[i].yp, push.given[g])
         \/ \E j \in Positions : push.limit < j /\ push.given[g] = archive[j].yp
  BY DEF BatchInv
<1>1. CASE Sync
  <2>1. /\ push.flagged = {} /\ mutex = NoWorker /\ mutex' # NoWorker
        /\ push'.flagged = {} /\ push'.limit = Len(archive) /\ push'.todo = push'.given
        /\ archive' = archive /\ Positions' = Positions
    BY <1>1, SyncFacts DEF NoPush, Positions
  <2>2. Standing' = Standing
    BY <2>1 DEF Standing, Positions, Live
  <2>3. \A j \in Positions : ~ (Len(archive) < j)
    BY <1>0 DEF Positions
  <2> QED
    BY <2>1, <2>2, <2>3 DEF BatchInv
<1>2. CASE Pass
  <2>1. /\ archive' = archive /\ Positions' = Positions /\ mutex' = mutex
        /\ push'.pc = push.pc /\ push'.given = push.given /\ push'.todo = push.todo
        /\ push'.limit = push.limit /\ push'.flagged = push.flagged
    BY <1>2, PushLocals DEF Pass, shared, Positions
  <2>2. Standing' = Standing /\ Candidate' = Candidate /\ (Inspecting' <=> Inspecting)
    BY <2>1 DEF Standing, Live, Candidate, Inspecting
  <2> QED
    BY <2>1, <2>2 DEF BatchInv, Live
<1>3. CASE Skip
  <2>1. /\ archive' = archive /\ Positions' = Positions /\ mutex' = mutex
        /\ push'.pc = push.pc /\ push'.given = push.given
        /\ push'.todo = Tail(push.todo)
        /\ push'.limit = push.limit /\ push'.flagged = push.flagged
        /\ push.pc = "inspect" /\ mutex # NoWorker
    BY <1>3, PushLocals DEF Skip, shared, Positions, Inspecting, ControlInv
  <2>2. Standing' = Standing
    BY <2>1 DEF Standing, Live
  <2>3. /\ push.at \in Standing /\ push.at \in Positions /\ Live(push.at)
        /\ Candidate \in YPoint /\ dominates(archive[push.at].yp, Candidate)
        /\ Candidate = push.todo[1]
    BY <1>0, <1>3, <2>1, EntryFacts DEF Skip, Inspecting, ControlInv, Standing
  <2>4. /\ \A k \in DOMAIN Tail(push.todo) : k + 1 \in DOMAIN push.todo
                                             /\ Tail(push.todo)[k] = push.todo[k + 1]
        /\ \A k \in DOMAIN push.todo : k # 1 => k - 1 \in DOMAIN Tail(push.todo)
        /\ \A k \in DOMAIN push.todo : k \in Nat
    <3>1. push.todo \in Batches /\ push.todo # <<>>
      BY <1>3, EntryFacts DEF Skip, Inspecting
    <3>2. push.todo \in Seq(Feasible)
      BY <3>1, BatchFacts
    <3> QED
      BY <3>1, <3>2, BatchFacts, LenProperties
  <2>5. ASSUME NEW i \in push.flagged
        PROVE  ~ Beats(Candidate, archive[i].yp)
    <3>1. SUFFICES ASSUME dominates(Candidate, archive[i].yp) PROVE FALSE
      BY DEF Beats
    <3>2. 1 <= i /\ i <= push.limit /\ ~ Live(i) /\ i \in Nat
      BY EntryFacts DEF BatchInv
    <3>3. i \in Standing /\ i \in Positions
      BY <1>0, <2>1, <3>2 DEF Standing
    <3>4. dominates(archive[push.at].yp, archive[i].yp)
      BY <2>3, <3>1, <3>3, EntryFacts, DominanceIsOrder
    <3>5. push.at = i
      BY <2>3, <3>3, <3>4 DEF BatchInv
    <3> QED
      BY <2>3, <3>2, <3>5
  <2>6. ASSUME NEW g \in DOMAIN push.given
        PROVE  \/ \E k \in DOMAIN Tail(push.todo) : push.given[g] = Tail(push.todo)[k]
               \/ \E i \in Standing : dominates(archive[i].yp, push.given[g])
               \/ \E j \in Positions : push.limit < j /\ push.given[g] = archive[j].yp
    <3>1. CASE \E k \in DOMAIN push.todo : push.given[g] = push.todo[k]
      <4>1. PICK k \in DOMAIN push.todo : push.given[g] = push.todo[k]
        BY <3>1
      <4>2. CASE k = 1
        BY <4>1, <4>2, <2>3
      <4>3. CASE k # 1
        <5>1. k - 1 \in DOMAIN Tail(push.todo) /\ k = (k - 1) + 1
          BY <4>3, <2>4
        <5>2. Tail(push.todo)[k - 1] = push.todo[k]
          BY <5>1, <2>4
        <5> QED
          BY <4>1, <5>1, <5>2
      <4> QED
        BY <4>2, <4>3
    <3> QED
      BY <3>1 DEF BatchInv
  <2>7. \A k \in DOMAIN Tail(push.todo) :
           \E g \in DOMAIN push.given : push.given[g] = Tail(push.todo)[k]
    BY <2>4, <1>a
  <2>8. \A i \in push.flagged : \E j \in Positions :
           push.limit < j /\ dominates(archive[j].yp, archive[i].yp)
    BY <2>5 DEF BatchInv
  <2> QED
    BY <2>1, <2>2, <2>6, <2>7, <2>8 DEF BatchInv, Live
<1>4. CASE Flag
  <2>1. /\ push.at \in Positions /\ push.at <= push.limit /\ Positions' = Positions
        /\ 1 <= push.at /\ push.at \in Nat
        /\ \A i \in Positions :
              /\ archive'[i].yp = archive[i].yp
              /\ archive'[i].dominated = IF i = push.at THEN TRUE ELSE archive[i].dominated
    <3>1. push.at \in Positions /\ push.at <= push.limit
      BY <1>4, FlagFacts
    <3>2. 1 <= push.at /\ push.at \in Nat
      BY <3>1, EntryFacts DEF Positions
    <3> QED
      BY <3>1, <3>2, <1>4, FlagFacts
  <2>2. /\ push'.pc = push.pc /\ push'.given = push.given /\ push'.todo = push.todo
        /\ push'.limit = push.limit /\ push'.flagged = push.flagged \cup {push.at}
        /\ mutex' = mutex /\ mutex # NoWorker
        /\ Candidate' = Candidate /\ Inspecting /\ Inspecting'
        /\ dominates(Candidate, archive[push.at].yp)
        /\ ~ dominates(archive[push.at].yp, Candidate)
        /\ Live(push.at)
    BY <1>4, PushLocals DEF Flag, Candidate, Inspecting, ControlInv
  <2>3. \A i \in Positions : Live(i)' <=> Live(i) /\ i # push.at
    BY <2>1 DEF Live
  <2>4. Standing' = Standing
    <3>1. Standing = {i \in 1 .. push.limit : Live(i) \/ i \in push.flagged}
      BY <2>2 DEF Standing
    <3>2. Standing' = {i \in 1 .. push.limit : Live(i)' \/ i \in push.flagged \cup {push.at}}
      BY <2>2 DEF Standing
    <3> QED
      BY <3>1, <3>2, <2>2, <2>3, <1>0
  <2>5. \A i \in Standing : i \in Positions
    BY <1>0, <2>2 DEF Standing
  <2>6. \A i \in push.flagged : i \in Positions
    BY <1>0, EntryFacts DEF BatchInv, Positions
  <2>7. \A i \in push'.flagged : 1 <= i /\ i <= push.limit /\ ~ Live(i)'
    BY <2>1, <2>2, <2>3, <2>6 DEF BatchInv
  <2>8. ASSUME NEW i \in push'.flagged
        PROVE  \/ \E j \in Positions : push.limit < j /\ dominates(archive'[j].yp, archive'[i].yp)
               \/ Beats(Candidate, archive'[i].yp)
    <3>1. CASE i = push.at
      BY <3>1, <2>1, <2>2 DEF Beats
    <3>2. CASE i \in push.flagged
      BY <3>2, <2>1, <2>6 DEF BatchInv
    <3> QED
      BY <3>1, <3>2, <2>2
  <2>9. \A k \in DOMAIN push.todo : \E g \in DOMAIN push.given : push.given[g] = push.todo[k]
    BY DEF BatchInv
  <2>10. \A j \in Positions : push.limit < j =>
            \E g \in DOMAIN push.given : push.given[g] = archive'[j].yp
    <3> SUFFICES ASSUME NEW j \in Positions, push.limit < j
                 PROVE  \E g \in DOMAIN push.given : push.given[g] = archive'[j].yp
      OBVIOUS
    <3>1. PICK g \in DOMAIN push.given : push.given[g] = archive[j].yp
      BY <1>b, <2>2 DEF Inspecting
    <3>2. archive'[j].yp = archive[j].yp
      BY <2>1
    <3> QED
      BY <3>1, <3>2
  <2>11. \A g \in DOMAIN push.given :
            \/ \E k \in DOMAIN push.todo : push.given[g] = push.todo[k]
            \/ \E i \in Standing : dominates(archive'[i].yp, push.given[g])
            \/ \E j \in Positions : push.limit < j /\ push.given[g] = archive'[j].yp
    <3> SUFFICES ASSUME NEW g \in DOMAIN push.given
                 PROVE  \/ \E k \in DOMAIN push.todo : push.given[g] = push.todo[k]
                        \/ \E i \in Standing : dominates(archive'[i].yp, push.given[g])
                        \/ \E j \in Positions : push.limit < j /\ push.given[g] = archive'[j].yp
      OBVIOUS
    <3>1. \A i \in Positions : archive'[i].yp = archive[i].yp
      BY <2>1
    <3>2. CASE \E k \in DOMAIN push.todo : push.given[g] = push.todo[k]
      BY <3>2
    <3>3. CASE \E i \in Standing : dominates(archive[i].yp, push.given[g])
      <4>1. PICK i \in Standing : dominates(archive[i].yp, push.given[g])
        BY <3>3
      <4>2. archive'[i].yp = archive[i].yp
        BY <3>1, <2>5
      <4> QED
        BY <4>1, <4>2
    <3>4. CASE \E j \in Positions : push.limit < j /\ push.given[g] = archive[j].yp
      <4>1. PICK j \in Positions : push.limit < j /\ push.given[g] = archive[j].yp
        BY <3>4
      <4>2. archive'[j].yp = archive[j].yp
        BY <3>1
      <4> QED
        BY <4>1, <4>2
    <3> QED
      BY <3>2, <3>3, <3>4, <1>c
  <2>12. \A i, j \in Standing : dominates(archive'[i].yp, archive'[j].yp) => i = j
    BY <2>1, <2>5 DEF BatchInv
  <2> QED
    BY <2>1, <2>2, <2>4, <2>7, <2>8, <2>9, <2>10, <2>11, <2>12 DEF BatchInv
<1>5. CASE Accept
  <2> DEFINE n == Len(archive) + 1
  <2>1. /\ Positions' = Positions \cup {n}
        /\ \A i \in Positions : archive'[i] = archive[i]
        /\ archive'[n].yp = Candidate
        /\ push.limit < n
    BY <1>0, <1>5, AcceptFacts
  <2> HIDE DEF n
  <2>2. /\ push'.pc = push.pc /\ push'.given = push.given
        /\ push'.todo = Tail(push.todo)
        /\ push'.limit = push.limit /\ push'.flagged = push.flagged
        /\ push.pc = "inspect" /\ mutex # NoWorker /\ mutex' = mutex
    BY <1>5, PushLocals DEF Accept, Inspecting, ControlInv
  <2>3. \A i \in Positions : Live(i)' <=> Live(i)
    BY <2>1 DEF Live
  <2>4. Standing' = Standing
    <3>1. Standing = {i \in 1 .. push.limit : Live(i) \/ i \in push.flagged}
      BY <2>2 DEF Standing
    <3>2. Standing' = {i \in 1 .. push.limit : Live(i)' \/ i \in push.flagged}
      BY <2>2 DEF Standing
    <3> QED
      BY <3>1, <3>2, <2>3, <1>0
  <2>5. \A i \in Standing : i \in Positions
    BY <1>0, <2>2 DEF Standing
  <2>6. \A i \in push.flagged : i \in Positions
    BY <1>0, EntryFacts DEF BatchInv, Positions
  <2>7. Candidate = push.todo[1] /\ 1 \in DOMAIN push.todo
    BY <1>5, EntryFacts DEF Accept
  <2>8. /\ \A k \in DOMAIN Tail(push.todo) : k + 1 \in DOMAIN push.todo
                                             /\ Tail(push.todo)[k] = push.todo[k + 1]
        /\ \A k \in DOMAIN push.todo : k # 1 => k - 1 \in DOMAIN Tail(push.todo)
        /\ \A k \in DOMAIN push.todo : k \in Nat
    <3>1. push.todo \in Batches /\ push.todo # <<>>
      BY <1>5, EntryFacts DEF Accept, Inspecting
    <3>2. push.todo \in Seq(Feasible)
      BY <3>1, BatchFacts
    <3> QED
      BY <3>1, <3>2, BatchFacts, LenProperties
  <2>9. \A i \in push.flagged : 1 <= i /\ i <= push.limit /\ ~ Live(i)'
    BY <2>3, <2>6 DEF BatchInv
  <2>10. ASSUME NEW i \in push.flagged
         PROVE  \E j \in Positions' :
                   push.limit < j /\ dominates(archive'[j].yp, archive'[i].yp)
    <3>1. CASE Beats(Candidate, archive[i].yp)
      BY <3>1, <2>1, <2>6 DEF Beats
    <3>2. CASE \E j \in Positions : push.limit < j /\ dominates(archive[j].yp, archive[i].yp)
      BY <3>2, <2>1, <2>6
    <3> QED
      BY <3>1, <3>2 DEF BatchInv
  <2>11. \A k \in DOMAIN Tail(push.todo) :
            \E g \in DOMAIN push.given : push.given[g] = Tail(push.todo)[k]
    BY <2>8, <1>a
  <2>12. ASSUME NEW j \in Positions', push.limit < j
         PROVE  \E g \in DOMAIN push.given : push.given[g] = archive'[j].yp
    <3>1. CASE j = n
      BY <3>1, <2>1, <2>7 DEF BatchInv
    <3>2. CASE j \in Positions
      BY <3>2, <2>12, <2>1, <2>2 DEF BatchInv
    <3> QED
      BY <3>1, <3>2, <2>1
  <2>13. ASSUME NEW g \in DOMAIN push.given
         PROVE  \/ \E k \in DOMAIN Tail(push.todo) : push.given[g] = Tail(push.todo)[k]
                \/ \E i \in Standing : dominates(archive'[i].yp, push.given[g])
                \/ \E j \in Positions' : push.limit < j /\ push.given[g] = archive'[j].yp
    <3>1. CASE \E k \in DOMAIN push.todo : push.given[g] = push.todo[k]
      <4>1. PICK k \in DOMAIN push.todo : push.given[g] = push.todo[k]
        BY <3>1
      <4>2. CASE k = 1
        BY <4>1, <4>2, <2>1, <2>7
      <4>3. CASE k # 1
        <5>1. k - 1 \in DOMAIN Tail(push.todo) /\ k = (k - 1) + 1
          BY <4>3, <2>8
        <5>2. Tail(push.todo)[k - 1] = push.todo[k]
          BY <5>1, <2>8
        <5> QED
          BY <4>1, <5>1, <5>2
      <4> QED
        BY <4>2, <4>3
    <3>2. CASE \E i \in Standing : dominates(archive[i].yp, push.given[g])
      BY <3>2, <2>1, <2>5
    <3>3. CASE \E j \in Positions : push.limit < j /\ push.given[g] = archive[j].yp
      BY <3>3, <2>1
    <3> QED
      BY <3>1, <3>2, <3>3 DEF BatchInv
  <2>14. \A i, j \in Standing : dominates(archive'[i].yp, archive'[j].yp) => i = j
    BY <2>1, <2>5 DEF BatchInv
  <2> QED
    BY <2>2, <2>4, <2>9, <2>10, <2>11, <2>12, <2>13, <2>14 DEF BatchInv
<1>6. CASE Count \/ Publish \/ Reading
  <2>1. /\ archive' = archive /\ Positions' = Positions /\ mutex' = mutex
        /\ push'.given = push.given /\ push'.todo = push.todo
        /\ push'.limit = push.limit /\ push'.flagged = push.flagged
        /\ push'.pc # "idle" => push.pc # "idle"
        /\ Inspecting' <=> Inspecting
    BY <1>6, IdleSteps
  <2>2. Standing' = Standing /\ Candidate' = Candidate
    BY <2>1 DEF Standing, Live, Candidate
  <2> QED
    BY <2>1, <2>2 DEF BatchInv, Live
<1>7. CASE EndSync
  <2>1. /\ push'.pc = "idle" /\ push'.given = <<>> /\ push'.todo = <<>>
        /\ push'.flagged = {} /\ mutex' = NoWorker
        /\ archive' = archive /\ Positions' = Positions
    BY <1>7, EndSyncFacts DEF Positions
  <2>2. Standing' = {i \in Positions : Live(i)}
    BY <2>1 DEF Standing, Live
  <2>3. ASSUME NEW i \in Positions, NEW j \in Positions, Live(i), Live(j),
               dominates(archive[i].yp, archive[j].yp)
        PROVE  i = j
    <3>1. ~ (i < j) /\ ~ (j < i)
      BY <2>3 DEF DominanceInv
    <3> QED
      BY <3>1, EntryFacts
  <2>4. DOMAIN <<>> = {}
    OBVIOUS
  <2> QED
    BY <2>1, <2>2, <2>3, <2>4 DEF BatchInv
<1> QED
  BY <1>1, <1>2, <1>3, <1>4, <1>5, <1>6, <1>7, NextCases DEF Pushing

(***************************************************************************)
(* What solvers pull: everything of the others, and once.                  *)
(***************************************************************************)
LEMMA PullStep ==
    ASSUME TypeOK, ControlInv, TimeInv, PullInv, Next
    PROVE  PullInv'
<1>0. /\ Len(archive) \in Nat /\ push.limit \in Nat /\ push.limit <= Len(archive)
      /\ lastUpdateTime \in Nat /\ solverTimestamps \in [Worker -> Nat]
      /\ received \in [Worker -> SUBSET Nat] /\ skipped \in [Worker -> Nat]
  BY EntryFacts DEF ControlInv, TypeOK
<1>1. CASE Sync
  <2>1. /\ mutex = NoWorker /\ mutex' \in Worker /\ mutex' # NoWorker
        /\ archive' = archive /\ Positions' = Positions
        /\ solverTimestamps' = solverTimestamps
        /\ Accounted = Len(archive) /\ Accounted' = Len(archive)
    BY <1>1, SyncFacts DEF NoPush, Positions, Accounted
  <2>2. PICK alsoPull \in BOOLEAN :
           /\ received' = IF alsoPull
                          THEN [received EXCEPT ![mutex'] = @ \cup Pull(mutex')]
                          ELSE received
           /\ skipped' = IF alsoPull
                         THEN skipped
                         ELSE [skipped EXCEPT ![mutex'] = lastUpdateTime]
    BY <1>1, SyncFacts
  <2>3. \A i \in Positions : i \in Nat /\ archive[i].ts \in Nat /\ archive[i].ts <= lastUpdateTime
    BY <2>1, EntryFacts DEF TimeInv, Positions
  <2>4. \A w \in Worker : w # mutex' => received'[w] = received[w] /\ skipped'[w] = skipped[w]
    BY <1>0, <2>2
  <2>5. CASE alsoPull
    <3>1. received'[mutex'] = received[mutex'] \cup Pull(mutex') /\ skipped' = skipped
      BY <2>1, <2>2, <2>5, <1>0
    <3>2. \A w \in Worker : NothingIsMissed(w)'
      BY <2>1, <2>4, <3>1 DEF PullInv, NothingIsMissed, Live
    <3>3. \A w \in Worker : \A i \in received'[w] :
             /\ i \in Positions /\ i <= Len(archive)
             /\ w # mutex' => archive[i].ts <= solverTimestamps[w]
      <4>1. \A i \in Pull(mutex') : i \in Positions /\ i <= Len(archive)
        BY DEF Pull, Positions
      <4>2. ASSUME NEW w \in Worker PROVE w # mutex
        BY <2>1, ArchiveAssumption
      <4> QED
        BY <2>1, <2>4, <3>1, <4>1, <4>2 DEF PullInv
    <3>4. \A i \in Positions :
             Live(i) /\ archive[i].by # mutex' /\ skipped'[mutex'] < archive[i].ts
                => i \in received'[mutex']
      <4>1. NothingIsMissed(mutex')
        BY <2>1 DEF PullInv
      <4> QED
        BY <3>1, <4>1 DEF NothingIsMissed, Pull
    <3> QED
      BY <2>1, <3>2, <3>3, <3>4 DEF PullInv, Live
  <2>6. CASE ~ alsoPull
    <3>1. received' = received /\ skipped'[mutex'] = lastUpdateTime
      BY <2>1, <2>2, <2>6, <1>0
    <3>2. \A i \in Positions : ~ (skipped'[mutex'] < archive[i].ts)
      BY <2>3, <3>1, <1>0
    <3>3. \A w \in Worker : NothingIsMissed(w)'
      BY <2>1, <2>4, <3>1, <3>2 DEF PullInv, NothingIsMissed, Live
    <3>4. ASSUME NEW w \in Worker PROVE w # mutex
      BY <2>1, ArchiveAssumption
    <3> QED
      BY <2>1, <3>1, <3>2, <3>3, <3>4 DEF PullInv
  <2> QED
    BY <2>5, <2>6
<1>2. CASE Pass \/ Skip
  <2>1. /\ archive' = archive /\ Positions' = Positions /\ mutex' = mutex
        /\ solverTimestamps' = solverTimestamps /\ received' = received /\ skipped' = skipped
        /\ push'.pc = push.pc /\ push'.limit = push.limit
    BY <1>2, PushLocals DEF Pass, Skip, shared, history, Positions
  <2>2. Accounted' = Accounted
    BY <2>1 DEF Accounted
  <2> QED
    BY <2>1, <2>2 DEF PullInv, NothingIsMissed, Live
<1>3. CASE Flag
  <2>1. /\ Positions' = Positions /\ Len(archive') = Len(archive)
        /\ \A i \in Positions :
              /\ archive'[i].ts = archive[i].ts
              /\ archive'[i].by = archive[i].by
              /\ archive'[i].dominated = IF i = push.at THEN TRUE ELSE archive[i].dominated
    BY <1>3, FlagFacts
  <2>2. /\ mutex' = mutex /\ solverTimestamps' = solverTimestamps
        /\ received' = received /\ skipped' = skipped
        /\ push'.pc = push.pc /\ push'.limit = push.limit
    BY <1>3, PushLocals DEF Flag, history
  <2>3. Accounted' = Accounted
    BY <2>1, <2>2 DEF Accounted
  <2>4. \A i \in Positions : Live(i)' => Live(i)
    BY <2>1 DEF Live
  <2>5. \A w \in Worker : NothingIsMissed(w)'
    BY <2>1, <2>2, <2>4 DEF PullInv, NothingIsMissed
  <2>6. \A w \in Worker : \A i \in received[w] :
           /\ i \in Positions /\ i <= Accounted
           /\ w # mutex => archive'[i].ts <= solverTimestamps[w]
    BY <2>1 DEF PullInv
  <2> QED
    BY <2>1, <2>2, <2>3, <2>4, <2>5, <2>6 DEF PullInv
<1>4. CASE Accept
  <2> DEFINE n == Len(archive) + 1
  <2>1. /\ Positions' = Positions \cup {n}
        /\ \A i \in Positions : archive'[i] = archive[i]
        /\ archive'[n].by = mutex /\ archive'[n].ts = lastUpdateTime + 1
    BY <1>4, AcceptFacts
  <2> HIDE DEF n
  <2>2. /\ mutex' = mutex /\ solverTimestamps' = solverTimestamps
        /\ received' = received /\ skipped' = skipped
        /\ push'.pc = push.pc /\ push'.limit = push.limit /\ push.pc = "inspect"
    BY <1>4, PushLocals DEF Accept, history, Inspecting
  <2>3. Accounted' = Accounted
    BY <2>2 DEF Accounted
  <2>4. \A i \in Positions : Live(i)' <=> Live(i)
    BY <2>1 DEF Live
  <2>5. ASSUME NEW w \in Worker, NEW i \in Positions'
        PROVE  /\ Live(i)' /\ archive'[i].by # w /\ skipped[w] < archive'[i].ts
                  => solverTimestamps[w] < archive'[i].ts \/ i \in received[w]
    <3>1. CASE i = n
      <4>1. solverTimestamps[w] <= lastUpdateTime /\ solverTimestamps[w] \in Nat
        BY <1>0 DEF TimeInv
      <4>2. solverTimestamps[w] < archive'[n].ts
        BY <4>1, <2>1, <1>0
      <4> QED
        BY <3>1, <4>2
    <3>2. CASE i \in Positions
      BY <3>2, <2>1, <2>4 DEF PullInv, NothingIsMissed
    <3> QED
      BY <3>1, <3>2, <2>1
  <2>6. \A w \in Worker : \A i \in received[w] :
           /\ i \in Positions' /\ i <= Accounted
           /\ w # mutex => archive'[i].ts <= solverTimestamps[w]
    BY <2>1 DEF PullInv
  <2>7. ASSUME mutex # NoWorker, NEW i \in Positions',
               Live(i)', archive'[i].by # mutex, skipped[mutex] < archive'[i].ts
        PROVE  i \in received[mutex]
    BY <2>7, <2>1, <2>4 DEF PullInv
  <2> QED
    BY <2>2, <2>3, <2>5, <2>6, <2>7 DEF PullInv, NothingIsMissed
<1>5. CASE Count \/ Publish \/ Reading
  <2>1. /\ archive' = archive /\ Positions' = Positions /\ mutex' = mutex
        /\ push'.limit = push.limit
        /\ Count => push.pc = "inspect" /\ push'.pc \in {"publish", "unlock"}
        /\ Publish => push.pc = "publish" /\ push'.pc = "unlock"
        /\ Reading => push' = push
    BY <1>5, IdleSteps
  <2>2. solverTimestamps' = solverTimestamps /\ received' = received /\ skipped' = skipped
    BY <1>5, ReadingChanges DEF Count, Publish, history
  <2>3. Accounted <= Accounted' /\ Accounted \in Nat /\ Accounted' \in Nat
    BY <1>0, <1>5, <2>1 DEF Accounted
  <2>4. \A w \in Worker : \A i \in received[w] : i \in Nat /\ i <= Accounted'
    BY <1>0, <2>3 DEF PullInv
  <2> QED
    BY <2>1, <2>2, <2>4 DEF PullInv, NothingIsMissed, Live
<1>6. CASE EndSync
  <2>1. /\ mutex \in Worker /\ mutex # NoWorker /\ mutex' = NoWorker
        /\ archive' = archive /\ Positions' = Positions
        /\ solverTimestamps'[mutex] = lastUpdateTime
        /\ \A w \in Worker : w # mutex => solverTimestamps'[w] = solverTimestamps[w]
        /\ received' = received /\ skipped' = skipped
    BY <1>6, EndSyncFacts, ArchiveAssumption DEF Positions, EndSync, history
  <2>2. Accounted' = Accounted /\ Accounted = Len(archive)
    BY <1>6, EndSyncFacts DEF Accounted
  <2>3. ASSUME NEW w \in Worker PROVE NothingIsMissed(w)'
    <3>1. CASE w = mutex
      <4>1. \A i \in Positions :
               Live(i) /\ archive[i].by # mutex /\ skipped[mutex] < archive[i].ts
                  => i \in received[mutex]
        BY <2>1 DEF PullInv
      <4> QED
        BY <3>1, <4>1, <2>1 DEF NothingIsMissed, Live
    <3>2. CASE w # mutex
      BY <3>2, <2>1 DEF PullInv, NothingIsMissed, Live
    <3> QED
      BY <3>1, <3>2
  <2>4. ASSUME NEW w \in Worker, NEW i \in received[w]
        PROVE  i \in Positions /\ i <= Accounted /\ archive[i].ts <= solverTimestamps'[w]
    <3>1. i \in Positions /\ i <= Accounted
      BY DEF PullInv
    <3>2. archive[i].ts <= lastUpdateTime
      BY <3>1 DEF TimeInv
    <3>3. CASE w = mutex
      BY <3>1, <3>2, <3>3, <2>1
    <3>4. CASE w # mutex
      BY <3>1, <3>4, <2>1 DEF PullInv
    <3> QED
      BY <3>3, <3>4
  <2> QED
    BY <2>1, <2>2, <2>3, <2>4 DEF PullInv
<1> QED
  BY <1>1, <1>2, <1>3, <1>4, <1>5, <1>6, NextCases DEF Pushing

(***************************************************************************)
(* Entries are never moved or removed, and their points do not change.     *)
(***************************************************************************)
LEMMA EntriesStay ==
    ASSUME TypeOK, ControlInv, Next
    PROVE  /\ Len(archive) \in Nat /\ Len(archive') \in Nat /\ Len(archive) <= Len(archive')
           /\ \A i \in Positions : i \in Positions' /\ archive'[i].yp = archive[i].yp
           /\ \A i \in Positions' : i \in Positions \/ Len(archive) < i
<1>0. Len(archive) \in Nat
  BY EntryFacts
<1>1. CASE Flag
  <2>1. Len(archive') = Len(archive) /\ Positions' = Positions
    BY <1>1, FlagFacts
  <2>2. \A i \in Positions : archive'[i].yp = archive[i].yp
    BY <1>1, FlagFacts
  <2> QED
    BY <1>0, <2>1, <2>2
<1>2. CASE Accept
  BY <1>0, <1>2, AcceptFacts
<1>3. CASE Sync \/ Reading \/ Pass \/ Skip \/ Count \/ Publish \/ EndSync
  <2>1. archive' = archive
    BY <1>3, SyncFacts, ReadingChanges DEF Pass, Skip, Count, Publish, EndSync, shared
  <2> QED
    BY <1>0, <2>1 DEF Positions
<1> QED
  BY <1>1, <1>2, <1>3, NextCases DEF Pushing

LEMMA LiveAreApart ==
    ASSUME TypeOK, DominanceInv
    PROVE  \A i, j \in Positions :
              Live(i) /\ Live(j) /\ dominates(archive[i].yp, archive[j].yp) => i = j
<1> SUFFICES ASSUME NEW i \in Positions, NEW j \in Positions, Live(i), Live(j),
                    dominates(archive[i].yp, archive[j].yp)
             PROVE  i = j
  OBVIOUS
<1>1. ~ (i < j) /\ ~ (j < i)
  BY DEF DominanceInv
<1> QED
  BY <1>1, EntryFacts

(***************************************************************************)
(* The locals of a reader, step by step.                                   *)
(***************************************************************************)
LEMMA ReaderLocals ==
    ASSUME TypeOK
    PROVE  /\ Sync \/ Pushing =>
                 /\ reader'.pc = reader.pc /\ reader'.n = reader.n /\ reader'.at = reader.at
                 /\ reader'.seen = reader.seen
           /\ ReadPublished =>
                 /\ reader'.pc = "overflow" /\ reader'.n = published /\ reader'.at = 1
                 /\ reader'.seen = {} /\ reader'.quiet = (mutex = NoWorker)
           /\ ReadOverflow /\ archiveOverflow /\ mutex = NoWorker =>
                 /\ reader'.pc = "done" /\ reader'.seen = {i \in Positions : Live(i)}
                 /\ reader'.quiet = reader.quiet
           /\ ReadOverflow /\ ~ (archiveOverflow /\ mutex = NoWorker) =>
                 /\ reader'.pc = "scan" /\ reader'.n = reader.n /\ reader'.at = reader.at
                 /\ reader'.seen = reader.seen /\ reader'.quiet = reader.quiet
           /\ Scan =>
                 /\ reader'.pc = "scan" /\ reader'.n = reader.n /\ reader'.at = reader.at + 1
                 /\ reader'.seen = IF Live(reader.at) THEN reader.seen \cup {reader.at}
                                                      ELSE reader.seen
                 /\ reader'.quiet = reader.quiet
           /\ EndScan =>
                 /\ reader'.pc = "done" /\ reader'.n = reader.n /\ reader'.at = reader.at
                 /\ reader'.seen = reader.seen /\ reader'.quiet = reader.quiet
           /\ Return => reader'.pc = "idle"
<1>0. reader \in [pc : {"idle", "overflow", "scan", "done"}, n : Nat,
                  at : Nat, seen : SUBSET Nat, quiet : BOOLEAN]
  BY DEF TypeOK
<1>1. Sync \/ Pushing =>
         /\ reader'.pc = reader.pc /\ reader'.n = reader.n /\ reader'.at = reader.at
         /\ reader'.seen = reader.seen
  <2>1. CASE Sync
    BY <1>0, <2>1 DEF Sync, BeginSync
  <2>2. CASE Pushing
    BY <2>2, PushingChanges
  <2> QED
    BY <2>1, <2>2
<1>2. ReadPublished =>
         /\ reader'.pc = "overflow" /\ reader'.n = published /\ reader'.at = 1
         /\ reader'.seen = {} /\ reader'.quiet = (mutex = NoWorker)
  BY DEF ReadPublished, NoRead
<1>3. /\ ReadOverflow /\ archiveOverflow /\ mutex = NoWorker =>
            /\ reader'.pc = "done" /\ reader'.seen = {i \in Positions : Live(i)}
            /\ reader'.quiet = reader.quiet
      /\ ReadOverflow /\ ~ (archiveOverflow /\ mutex = NoWorker) =>
            /\ reader'.pc = "scan" /\ reader'.n = reader.n /\ reader'.at = reader.at
            /\ reader'.seen = reader.seen /\ reader'.quiet = reader.quiet
  BY <1>0 DEF ReadOverflow
<1>4. Scan =>
         /\ reader'.pc = "scan" /\ reader'.n = reader.n /\ reader'.at = reader.at + 1
         /\ reader'.seen = IF Live(reader.at) THEN reader.seen \cup {reader.at}
                                              ELSE reader.seen
         /\ reader'.quiet = reader.quiet
  BY <1>0 DEF Scan
<1>5. EndScan =>
         /\ reader'.pc = "done" /\ reader'.n = reader.n /\ reader'.at = reader.at
         /\ reader'.seen = reader.seen /\ reader'.quiet = reader.quiet
  BY <1>0 DEF EndScan
<1>6. Return => reader'.pc = "idle"
  BY DEF Return, NoRead
<1> QED
  BY <1>1, <1>2, <1>3, <1>4, <1>5, <1>6

(***************************************************************************)
(* A scan meets nothing that beats what it has seen: entries are marked    *)
(* before what beats them is published.                                    *)
(***************************************************************************)
LEMMA ReaderStep ==
    ASSUME TypeOK, ControlInv, CounterInv, DominanceInv, ReaderInv, Next
    PROVE  ReaderInv'
<1>0. /\ Len(archive) \in Nat /\ reader.n \in Nat /\ reader.at \in Nat
      /\ reader.seen \in SUBSET Nat
      /\ \A i \in Positions : i \in Nat /\ i <= Len(archive)
  BY EntryFacts DEF TypeOK, Positions
<1>1. CASE Sync \/ Pushing
  <2>1. /\ reader'.pc = reader.pc /\ reader'.n = reader.n /\ reader'.at = reader.at
        /\ reader'.seen = reader.seen
    BY <1>1, ReaderLocals
  <2>2. CASE reader.pc \in {"overflow", "scan"}
    <3>1. /\ reader.n <= Len(archive') /\ 1 <= reader.at /\ reader.at <= reader.n + 1
          /\ \A i \in reader.seen : 1 <= i /\ i < reader.at
          /\ reader.pc = "overflow" => reader.seen = {} /\ reader.at = 1
      BY <1>0, <2>2, EntriesStay DEF ReaderInv
    <3>2. ASSUME reader.pc = "scan",
                 NEW i \in reader.seen, NEW j \in Positions', i < j, j <= reader.n
          PROVE  ~ dominates(archive'[j].yp, archive'[i].yp)
      <4>1. reader.n <= Len(archive) /\ 1 <= i /\ i < reader.at /\ reader.at <= reader.n + 1
        BY <2>2 DEF ReaderInv
      <4>2. i \in Positions
        BY <4>1, <1>0 DEF Positions
      <4>3. ~ (Len(archive) < j)
        <5>1. j \in Nat
          BY DEF Positions
        <5> QED
          BY <5>1, <4>1, <3>2, <1>0
      <4>4. j \in Positions
        BY <4>3, EntriesStay
      <4>5. archive'[i].yp = archive[i].yp /\ archive'[j].yp = archive[j].yp
        BY <4>2, <4>4, EntriesStay
      <4>6. ~ dominates(archive[j].yp, archive[i].yp)
        BY <3>2, <4>4 DEF ReaderInv
      <4> QED
        BY <4>5, <4>6
    <3> QED
      BY <2>1, <2>2, <3>1, <3>2 DEF ReaderInv
  <2>3. CASE reader.pc = "done"
    <3>1. reader.seen \subseteq Positions'
      BY <2>3, EntriesStay DEF ReaderInv
    <3> QED
      BY <2>1, <2>3, <3>1 DEF ReaderInv
  <2>4. CASE reader.pc = "idle"
    BY <2>1, <2>4 DEF ReaderInv
  <2> QED
    BY <2>2, <2>3, <2>4 DEF TypeOK
<1>2. CASE ReadPublished
  <2>1. published \in Nat /\ published <= Len(archive)
    <3>1. Announced \in Nat /\ Announced <= Len(archive) /\ MAX_SOLUTIONS \in Nat
      BY EntryFacts, ArchiveAssumption DEF Announced, ControlInv
    <3>2. published = Smaller(Announced, MAX_SOLUTIONS)
      BY DEF CounterInv
    <3> QED
      BY <3>1, <3>2, <1>0 DEF Smaller
  <2>2. archive' = archive
    BY <1>2 DEF ReadPublished, shared
  <2> QED
    BY <1>2, <2>1, <2>2, ReaderLocals DEF ReaderInv
<1>3. CASE ReadOverflow
  <2>1. archive' = archive /\ reader.pc = "overflow"
    BY <1>3 DEF ReadOverflow, shared
  <2>2. CASE archiveOverflow /\ mutex = NoWorker
    <3>1. reader'.pc = "done" /\ reader'.seen \subseteq Positions'
      BY <1>3, <2>1, <2>2, ReaderLocals DEF Positions
    <3> QED
      BY <3>1 DEF ReaderInv
  <2>3. CASE ~ (archiveOverflow /\ mutex = NoWorker)
    <3>1. /\ reader'.pc = "scan" /\ reader'.n = reader.n /\ reader'.at = reader.at
          /\ reader'.seen = reader.seen
      BY <1>3, <2>3, ReaderLocals
    <3> QED
      BY <2>1, <3>1 DEF ReaderInv
  <2> QED
    BY <2>2, <2>3
<1>4. CASE Scan
  <2>1. /\ archive' = archive /\ Positions' = Positions /\ reader.pc = "scan"
        /\ reader.at <= reader.n
    BY <1>4 DEF Scan, shared, Positions
  <2>2. /\ reader'.pc = "scan" /\ reader'.n = reader.n /\ reader'.at = reader.at + 1
        /\ reader'.seen = IF Live(reader.at) THEN reader.seen \cup {reader.at} ELSE reader.seen
    BY <1>4, ReaderLocals
  <2>3. /\ reader.n <= Len(archive) /\ 1 <= reader.at
        /\ \A i \in reader.seen : 1 <= i /\ i < reader.at
        /\ \A i \in reader.seen : \A j \in Positions :
              i < j /\ j <= reader.n => ~ dominates(archive[j].yp, archive[i].yp)
    BY <2>1 DEF ReaderInv
  <2>4. reader.at \in Positions
    BY <1>0, <2>1, <2>3 DEF Positions
  <2>5. \A j \in Positions :
           Live(reader.at) /\ reader.at < j => ~ dominates(archive[j].yp, archive[reader.at].yp)
    BY <2>4 DEF DominanceInv
  <2>6. \A i \in reader'.seen : 1 <= i /\ i < reader.at + 1
    <3> SUFFICES ASSUME NEW i \in reader'.seen PROVE 1 <= i /\ i < reader.at + 1
      OBVIOUS
    <3>1. i = reader.at \/ i \in reader.seen
      BY <2>2
    <3>2. i \in Nat
      BY <3>1, <1>0
    <3> QED
      BY <3>1, <3>2, <2>3, <1>0
  <2>7. \A i \in reader'.seen : \A j \in Positions :
           i < j /\ j <= reader.n => ~ dominates(archive[j].yp, archive[i].yp)
    BY <2>2, <2>3, <2>5
  <2>8. reader.at + 1 <= reader.n + 1 /\ 1 <= reader.at + 1
    BY <1>0, <2>1
  <2>9. reader'.pc = "scan" /\ reader'.n = reader.n /\ reader'.at = reader.at + 1
    BY <2>2
  <2> QED
    BY <2>1, <2>3, <2>6, <2>7, <2>8, <2>9 DEF ReaderInv
<1>5. CASE EndScan
  <2>1. archive' = archive /\ Positions' = Positions /\ reader.pc = "scan"
    BY <1>5 DEF EndScan, shared, Positions
  <2>2. reader'.pc = "done" /\ reader'.seen = reader.seen
    BY <1>5, ReaderLocals
  <2>3. reader.seen \subseteq Positions
    <3> SUFFICES ASSUME NEW i \in reader.seen PROVE i \in Positions
      OBVIOUS
    <3>1. /\ 1 <= i /\ i < reader.at /\ reader.at <= reader.n + 1 /\ reader.n <= Len(archive)
          /\ i \in Nat
      BY <1>0, <2>1 DEF ReaderInv
    <3> QED
      BY <3>1, <1>0 DEF Positions
  <2> QED
    BY <2>1, <2>2, <2>3 DEF ReaderInv
<1>6. CASE Return
  BY <1>6, ReaderLocals DEF ReaderInv
<1> QED
  BY <1>1, <1>2, <1>3, <1>4, <1>5, <1>6, NextCases DEF Reading

LEMMA SnapshotStep ==
    ASSUME TypeOK, ControlInv, DominanceInv, ReaderInv, SnapshotIsAntichain, Next
    PROVE  SnapshotIsAntichain'
<1>1. CASE Sync \/ Pushing
  <2>1. reader'.pc = reader.pc /\ reader'.seen = reader.seen
    BY <1>1, ReaderLocals
  <2>2. reader.pc = "done" => \A i \in reader.seen : archive'[i].yp = archive[i].yp
    BY EntriesStay DEF ReaderInv
  <2> QED
    BY <2>1, <2>2 DEF SnapshotIsAntichain
<1>2. CASE ReadPublished \/ Scan \/ Return
  BY <1>2, ReaderLocals DEF SnapshotIsAntichain
<1>3. CASE ReadOverflow
  <2>1. archive' = archive
    BY <1>3 DEF ReadOverflow, shared
  <2> QED
    BY <1>3, <2>1, ReaderLocals, LiveAreApart DEF SnapshotIsAntichain
<1>4. CASE EndScan
  <2>1. archive' = archive /\ reader'.seen = reader.seen /\ reader.pc = "scan"
    BY <1>4, ReaderLocals DEF EndScan, shared
  <2>2. ASSUME NEW i \in reader.seen, NEW j \in reader.seen,
               dominates(archive[i].yp, archive[j].yp)
        PROVE  i = j
    <3>1. /\ reader.n <= Len(archive) /\ reader.at <= reader.n + 1
          /\ 1 <= i /\ i < reader.at /\ 1 <= j /\ j < reader.at
      BY <2>1 DEF ReaderInv
    <3>2. /\ i \in Nat /\ j \in Nat /\ reader.n \in Nat /\ reader.at \in Nat
          /\ Len(archive) \in Nat
      BY EntryFacts DEF TypeOK
    <3>3. i \in Positions /\ j \in Positions /\ i <= reader.n
      BY <3>1, <3>2 DEF Positions
    <3>4. ~ (i < j)
      BY <2>2, <3>3 DEF DominanceInv
    <3>5. ~ (j < i)
      BY <2>1, <2>2, <3>3 DEF ReaderInv
    <3> QED
      BY <3>2, <3>4, <3>5
  <2> QED
    BY <2>1, <2>2 DEF SnapshotIsAntichain
<1> QED
  BY <1>1, <1>2, <1>3, <1>4, NextCases DEF Reading

(***************************************************************************)
(* A reading that no call has overlapped scans the whole archive.          *)
(***************************************************************************)
LEMMA QuietStep ==
    ASSUME TypeOK, ControlInv, CounterInv, ReaderInv, QuietInv, Next
    PROVE  QuietInv'
<1>0. /\ Len(archive) \in Nat /\ MAX_SOLUTIONS \in Nat
      /\ reader.n \in Nat /\ reader.at \in Nat
      /\ reader \in [pc : {"idle", "overflow", "scan", "done"}, n : Nat,
                     at : Nat, seen : SUBSET Nat, quiet : BOOLEAN]
      /\ \A i \in Positions : i \in Nat /\ i <= Len(archive)
  BY EntryFacts, ArchiveAssumption DEF TypeOK, Positions
<1>1. CASE Sync
  <2>1. reader'.quiet = FALSE
    BY <1>0, <1>1, SyncFacts
  <2> QED
    BY <2>1 DEF QuietInv
<1>2. CASE Pushing
  <2>1. mutex # NoWorker
    BY <1>2 DEF Pushing, Pass, Skip, Flag, Accept, Count, Publish, EndSync, Inspecting, ControlInv
  <2>2. reader' = reader
    BY <1>2, PushingChanges
  <2> QED
    BY <2>1, <2>2 DEF QuietInv
<1>3. CASE Reading
  <2>1. /\ archive' = archive /\ Positions' = Positions /\ mutex' = mutex
        /\ \A i \in Positions : Live(i)' <=> Live(i)
    BY <1>3, ReadingChanges DEF Positions, Live
  <2>2. mutex = NoWorker => /\ Accounted = Len(archive) /\ Announced = Len(archive)
                            /\ published = Smaller(Len(archive), MAX_SOLUTIONS)
                            /\ archiveOverflow <=> Len(archive) > MAX_SOLUTIONS
    BY DEF ControlInv, Accounted, Announced, CounterInv
  <2>3. CASE ReadPublished
    BY <2>1, <2>2, <2>3, ReaderLocals DEF QuietInv
  <2>4. CASE ReadOverflow
    <3>1. reader.pc = "overflow" /\ reader.seen = {} /\ reader.at = 1
      BY <2>4 DEF ReadOverflow, ReaderInv
    <3>2. CASE archiveOverflow /\ mutex = NoWorker
      <4>1. reader'.pc = "done" /\ reader'.seen = {i \in Positions : Live(i)}
        BY <2>4, <3>2, ReaderLocals
      <4>2. reader'.seen = {i \in Positions : Live(i)}'
        BY <4>1, <2>1
      <4> QED
        BY <2>1, <3>2, <4>1, <4>2 DEF QuietInv
    <3>3. CASE ~ (archiveOverflow /\ mutex = NoWorker)
      <4>1. /\ reader'.pc = "scan" /\ reader'.n = reader.n /\ reader'.at = 1
            /\ reader'.seen = {} /\ reader'.quiet = reader.quiet
        BY <2>4, <3>1, <3>3, ReaderLocals
      <4>2. {i \in Positions : i < 1 /\ Live(i)}' = {}
        BY <2>1, <1>0 DEF Positions
      <4>3. ASSUME reader.quiet
            PROVE  mutex = NoWorker /\ reader.n = Len(archive)
        <5>1. mutex = NoWorker /\ reader.n = Smaller(Len(archive), MAX_SOLUTIONS)
          BY <3>1, <4>3 DEF QuietInv
        <5>2. ~ (Len(archive) > MAX_SOLUTIONS)
          BY <3>3, <5>1, <2>2
        <5> QED
          BY <5>1, <5>2, <1>0 DEF Smaller
      <4> QED
        BY <2>1, <4>1, <4>2, <4>3 DEF QuietInv
    <3> QED
      BY <3>2, <3>3
  <2>5. CASE Scan
    <3>1. reader.pc = "scan" /\ reader.at <= reader.n /\ reader.n <= Len(archive)
          /\ 1 <= reader.at
      BY <2>5 DEF Scan, ReaderInv
    <3>2. reader.at \in Positions
      BY <3>1, <1>0 DEF Positions
    <3>3. /\ reader'.pc = "scan" /\ reader'.n = reader.n /\ reader'.at = reader.at + 1
          /\ reader'.seen = IF Live(reader.at) THEN reader.seen \cup {reader.at} ELSE reader.seen
          /\ reader'.quiet = reader.quiet
      BY <2>5, ReaderLocals
    <3>4. ASSUME reader.quiet
          PROVE  /\ mutex = NoWorker /\ reader.n = Len(archive)
                 /\ reader'.seen = {i \in Positions : i < reader.at + 1 /\ Live(i)}
      <4>1. /\ mutex = NoWorker /\ reader.n = Len(archive)
            /\ reader.seen = {i \in Positions : i < reader.at /\ Live(i)}
        BY <3>1, <3>4 DEF QuietInv
      <4>2. \A i \in Positions : i < reader.at + 1 <=> i < reader.at \/ i = reader.at
        BY <1>0
      <4> QED
        BY <4>1, <4>2, <3>2, <3>3
    <3>5. {i \in Positions : i < reader.at /\ Live(i)}' =
          {i \in Positions : i < reader.at + 1 /\ Live(i)}
      BY <2>1, <3>3
    <3> QED
      BY <2>1, <3>3, <3>4, <3>5 DEF QuietInv
  <2>6. CASE EndScan
    <3>1. reader.pc = "scan" /\ reader.at > reader.n
      BY <2>6 DEF EndScan
    <3>2. reader'.pc = "done" /\ reader'.seen = reader.seen /\ reader'.quiet = reader.quiet
      BY <2>6, ReaderLocals
    <3>3. ASSUME reader.quiet
          PROVE  mutex = NoWorker /\ reader.seen = {i \in Positions : Live(i)}
      <4>1. /\ mutex = NoWorker /\ reader.n = Len(archive)
            /\ reader.seen = {i \in Positions : i < reader.at /\ Live(i)}
        BY <3>1, <3>3 DEF QuietInv
      <4>2. \A i \in Positions : i < reader.at
        BY <1>0, <3>1, <4>1
      <4> QED
        BY <4>1, <4>2
    <3>4. {i \in Positions : Live(i)}' = {i \in Positions : Live(i)}
      BY <2>1
    <3> QED
      BY <2>1, <3>2, <3>3, <3>4 DEF QuietInv
  <2>7. CASE Return
    BY <2>7, ReaderLocals DEF QuietInv
  <2> QED
    BY <1>3, <2>3, <2>4, <2>5, <2>6, <2>7 DEF Reading
<1> QED
  BY <1>1, <1>2, <1>3, NextCases

LEMMA InitInvariant == Init => IInv
<1> SUFFICES ASSUME Init PROVE IInv
  OBVIOUS
<1>0. /\ archive = <<>> /\ published = 0 /\ liveCount = 0 /\ archiveOverflow = FALSE
      /\ lastUpdateTime = 0 /\ solverTimestamps = [w \in Worker |-> 0]
      /\ mutex = NoWorker /\ push = NoPush /\ reader = NoRead
      /\ received = [w \in Worker |-> {}] /\ skipped = [w \in Worker |-> 0]
  BY DEF Init
<1>1. Positions = {} /\ Len(archive) = 0
  BY <1>0 DEF Positions
<1>2. TypeOK
  <2>1. archive \in Seq(Entry)
    BY <1>0
  <2>2. push \in [pc : {"idle", "inspect", "publish", "unlock"}, given : Batches,
                  todo : Batches, at : Nat, limit : Nat, flagged : SUBSET Nat]
    BY <1>0, BatchFacts DEF NoPush
  <2>3. reader \in [pc : {"idle", "overflow", "scan", "done"}, n : Nat,
                    at : Nat, seen : SUBSET Nat, quiet : BOOLEAN]
    BY <1>0 DEF NoRead
  <2> QED
    BY <1>0, <2>1, <2>2, <2>3 DEF TypeOK
<1>3. push.pc = "idle" /\ push.limit = 0 /\ push.todo = <<>> /\ push.given = <<>>
      /\ push.flagged = {}
  BY <1>0 DEF NoPush
<1>4. ControlInv
  BY <1>0, <1>1, <1>3 DEF ControlInv
<1>5. CounterInv
  <2>1. Accounted = 0 /\ Announced = 0
    BY <1>1, <1>3 DEF Accounted, Announced
  <2>2. {i \in 1 .. 0 : Live(i)} = {}
    OBVIOUS
  <2>3. Smaller(0, MAX_SOLUTIONS) = 0 /\ ~ (0 > MAX_SOLUTIONS)
    BY ArchiveAssumption DEF Smaller
  <2> QED
    BY <1>0, <2>1, <2>2, <2>3, FS_EmptySet DEF CounterInv
<1>6. TimeInv
  BY <1>0, <1>1, <1>3 DEF TimeInv
<1>7. DominanceInv
  BY <1>1 DEF DominanceInv
<1>8. CandidateInv
  BY <1>3 DEF CandidateInv, Inspecting
<1>9. BatchInv
  <2>1. Standing = {}
    BY <1>0, <1>1 DEF Standing
  <2>2. DOMAIN <<>> = {}
    OBVIOUS
  <2> QED
    BY <1>3, <2>1, <2>2 DEF BatchInv
<1>10. PullInv
  BY <1>0, <1>1 DEF PullInv, NothingIsMissed
<1>11. ReaderInv /\ SnapshotIsAntichain /\ QuietInv
  BY <1>0 DEF ReaderInv, SnapshotIsAntichain, QuietInv, NoRead
<1> QED
  BY <1>2, <1>4, <1>5, <1>6, <1>7, <1>8, <1>9, <1>10, <1>11 DEF IInv

LEMMA StepInvariant == IInv /\ [Next]_vars => IInv'
<1> SUFFICES ASSUME IInv, [Next]_vars PROVE IInv'
  OBVIOUS
<1>0. /\ TypeOK /\ ControlInv /\ CounterInv /\ TimeInv /\ DominanceInv /\ CandidateInv
      /\ BatchInv /\ PullInv /\ ReaderInv /\ SnapshotIsAntichain /\ QuietInv
  BY DEF IInv
<1>1. CASE Next
  <2>1. TypeOK' /\ ControlInv' /\ CounterInv' /\ TimeInv'
    BY <1>0, <1>1, TypeStep, ControlStep, CounterStep, TimeStep
  <2>2. DominanceInv' /\ CandidateInv' /\ BatchInv'
    BY <1>0, <1>1, DominanceStep, CandidateStep, BatchStep
  <2>3. PullInv' /\ ReaderInv' /\ SnapshotIsAntichain' /\ QuietInv'
    BY <1>0, <1>1, PullStep, ReaderStep, SnapshotStep, QuietStep
  <2> QED
    BY <2>1, <2>2, <2>3 DEF IInv
<1>2. CASE UNCHANGED vars
  <2>0. /\ archive' = archive /\ published' = published /\ liveCount' = liveCount
        /\ archiveOverflow' = archiveOverflow /\ lastUpdateTime' = lastUpdateTime
        /\ solverTimestamps' = solverTimestamps /\ mutex' = mutex /\ push' = push
        /\ reader' = reader /\ received' = received /\ skipped' = skipped
    BY <1>2 DEF vars
  <2>1. /\ Positions' = Positions /\ Accounted' = Accounted /\ Announced' = Announced
        /\ Standing' = Standing /\ Candidate' = Candidate /\ (Inspecting' <=> Inspecting)
    BY <2>0 DEF Positions, Accounted, Announced, Standing, Candidate, Inspecting, Live
  <2>2. TypeOK' /\ ControlInv' /\ CounterInv'
    BY <1>0, <2>0, <2>1 DEF TypeOK, ControlInv, CounterInv, Live
  <2>3. TimeInv' /\ DominanceInv' /\ CandidateInv'
    BY <1>0, <2>0, <2>1 DEF TimeInv, DominanceInv, CandidateInv, Live
  <2>4. BatchInv' /\ PullInv'
    BY <1>0, <2>0, <2>1 DEF BatchInv, PullInv, NothingIsMissed, Live
  <2>5. ReaderInv' /\ SnapshotIsAntichain' /\ QuietInv'
    BY <1>0, <2>0, <2>1 DEF ReaderInv, SnapshotIsAntichain, QuietInv, Live
  <2> QED
    BY <2>2, <2>3, <2>4, <2>5 DEF IInv
<1> QED
  BY <1>1, <1>2

(***************************************************************************)
(* SharedSolutionsArchive keeps its inductive invariant, for every number  *)
(* of solvers, every length of the published prefix and of the batches.    *)
(***************************************************************************)
THEOREM ArchiveInvariant == Spec => []IInv
BY InitInvariant, StepInvariant, PTL DEF Spec

(***************************************************************************)
(* SharedSolutionsArchive::empty, read without the mutex between calls,    *)
(* answers whether anything was ever archived: what is counted is live,    *)
(* what is marked is covered by something live, and dominance is an order. *)
(***************************************************************************)
LEMMA CountedIsCovered == IInv => EmptyIsTruthful
<1> SUFFICES ASSUME IInv, mutex = NoWorker PROVE empty <=> archive = <<>>
  BY DEF EmptyIsTruthful
<1>1. /\ TypeOK /\ push.pc = "idle"
      /\ liveCount = Cardinality({i \in 1 .. Len(archive) : Live(i)})
  BY DEF IInv, ControlInv, CounterInv, Accounted
<1>2. Len(archive) \in Nat /\ archive \in Seq(Entry)
  BY <1>1, EntryFacts DEF TypeOK
<1>3. IsFiniteSet({i \in 1 .. Len(archive) : Live(i)})
  <2>1. IsFiniteSet(1 .. Len(archive))
    BY <1>2, FS_Interval
  <2> QED
    BY <2>1, FS_Subset
<1>4. empty <=> {i \in 1 .. Len(archive) : Live(i)} = {}
  BY <1>1, <1>3, FS_EmptySet DEF empty
<1>5. CASE archive = <<>>
  <2>1. Len(archive) = 0
    BY <1>5
  <2> QED
    BY <1>4, <1>5, <2>1
<1>6. CASE archive # <<>>
  <2>1. 1 \in Positions
    BY <1>2, <1>6 DEF Positions
  <2>2. PICK j \in Positions : Live(j)
    BY <1>1, <2>1 DEF IInv, DominanceInv, Inspecting
  <2> QED
    BY <1>4, <1>6, <2>2 DEF Positions
<1> QED
  BY <1>5, <1>6

THEOREM EmptyTruthful == Spec => []EmptyIsTruthful
BY ArchiveInvariant, CountedIsCovered, PTL

(***************************************************************************)
(* SharedSolutionsArchive::pullSolutions hands every live solution of the  *)
(* others over, and none a second time.                                    *)
(***************************************************************************)
LEMMA PulledOnce == IInv => PullsAreExact
<1> SUFFICES ASSUME IInv, mutex = NoWorker, NEW w \in Worker
             PROVE  NothingIsMissed(w) /\ NothingIsRepeated(w)
  BY DEF PullsAreExact
<1>1. NothingIsMissed(w)
  BY DEF IInv, PullInv
<1>2. w # mutex
  BY ArchiveAssumption
<1>3. \A i \in received[w] : i \in Positions /\ archive[i].ts <= solverTimestamps[w]
  BY <1>2 DEF IInv, PullInv
<1>4. ASSUME NEW i \in Pull(w), i \in received[w] PROVE FALSE
  <2>1. i \in Positions /\ solverTimestamps[w] < archive[i].ts
    BY DEF Pull
  <2>2. archive[i].ts \in Nat /\ solverTimestamps[w] \in Nat
    BY <2>1, EntryFacts DEF IInv, TypeOK
  <2> QED
    BY <1>3, <1>4, <2>1, <2>2
<1> QED
  BY <1>1, <1>4 DEF NothingIsRepeated

THEOREM PullsExact == Spec => []PullsAreExact
BY ArchiveInvariant, PulledOnce, PTL

(***************************************************************************)
(* A reader of getSolutions, with or without the mutex, never returns two  *)
(* solutions of which one is as good as the other.                         *)
(***************************************************************************)
THEOREM SnapshotAntichain == Spec => []SnapshotIsAntichain
<1>1. IInv => SnapshotIsAntichain
  BY DEF IInv
<1> QED
  BY <1>1, ArchiveInvariant, PTL

(***************************************************************************)
(* A reading of getSolutions that no call of syncSolutions overlaps        *)
(* returns the whole front.                                                *)
(***************************************************************************)
THEOREM QuietExact == Spec => []QuietSnapshotIsExact
<1>1. IInv => QuietSnapshotIsExact
  BY DEF IInv, QuietInv, QuietSnapshotIsExact
<1> QED
  BY <1>1, ArchiveInvariant, PTL

-----------------------------------------------------------------------------
(***************************************************************************)
(* Until a call returns, the front that it started from stands.            *)
(***************************************************************************)
LEMMA StandingStays ==
    ASSUME TypeOK, ControlInv, Next, ~ EndSync
    PROVE  /\ Standing' = Standing
           /\ \A i \in Standing : /\ archive'[i].yp = archive[i].yp
                                  /\ archive'[i].ts = archive[i].ts
                                  /\ archive'[i].by = archive[i].by
           /\ solverTimestamps' = solverTimestamps
           /\ Sync \/ mutex' = mutex
<1>0. /\ Standing \subseteq Positions
      /\ \A i \in 1 .. push.limit : i \in Positions
  BY EntryFacts DEF Standing, ControlInv, Positions
<1>1. CASE Sync
  <2>1. /\ push.flagged = {} /\ mutex = NoWorker /\ mutex' # NoWorker
        /\ push'.flagged = {} /\ push'.limit = Len(archive)
        /\ archive' = archive /\ solverTimestamps' = solverTimestamps
    BY <1>1, SyncFacts DEF NoPush
  <2>2. Standing' = Standing
    BY <2>1 DEF Standing, Positions, Live
  <2> QED
    BY <1>1, <2>1, <2>2
<1>2. CASE Flag
  <2>1. /\ push.at \in Positions /\ push.at <= push.limit
        /\ \A i \in Positions :
              /\ archive'[i].yp = archive[i].yp
              /\ archive'[i].ts = archive[i].ts
              /\ archive'[i].by = archive[i].by
              /\ archive'[i].dominated = IF i = push.at THEN TRUE ELSE archive[i].dominated
    BY <1>2, FlagFacts
  <2>2. /\ push'.limit = push.limit /\ push'.flagged = push.flagged \cup {push.at}
        /\ mutex' = mutex /\ mutex # NoWorker /\ Live(push.at)
        /\ solverTimestamps' = solverTimestamps
    BY <1>2, PushLocals DEF Flag, Inspecting, ControlInv
  <2>3. \A i \in Positions : Live(i)' <=> Live(i) /\ i # push.at
    BY <2>1 DEF Live
  <2>4. Standing = {i \in 1 .. push.limit : Live(i) \/ i \in push.flagged}
    BY <2>2 DEF Standing
  <2>5. Standing' = {i \in 1 .. push.limit : Live(i)' \/ i \in push.flagged \cup {push.at}}
    BY <2>2 DEF Standing
  <2>6. Standing' = Standing
    BY <2>2, <2>3, <2>4, <2>5, <1>0
  <2> QED
    BY <1>0, <2>1, <2>2, <2>6
<1>3. CASE Accept
  <2>1. \A i \in Positions : archive'[i] = archive[i]
    BY <1>3, AcceptFacts
  <2>2. /\ push'.limit = push.limit /\ push'.flagged = push.flagged
        /\ mutex' = mutex /\ mutex # NoWorker
        /\ solverTimestamps' = solverTimestamps
    BY <1>3, PushLocals DEF Accept, Inspecting, ControlInv
  <2>3. \A i \in Positions : Live(i)' <=> Live(i)
    BY <2>1 DEF Live
  <2>4. Standing = {i \in 1 .. push.limit : Live(i) \/ i \in push.flagged}
    BY <2>2 DEF Standing
  <2>5. Standing' = {i \in 1 .. push.limit : Live(i)' \/ i \in push.flagged}
    BY <2>2 DEF Standing
  <2>6. Standing' = Standing
    BY <2>3, <2>4, <2>5, <1>0
  <2> QED
    BY <1>0, <2>1, <2>2, <2>6
<1>4. CASE Pass \/ Skip \/ Count \/ Publish \/ Reading
  <2>1. /\ archive' = archive /\ mutex' = mutex /\ solverTimestamps' = solverTimestamps
        /\ push'.limit = push.limit /\ push'.flagged = push.flagged
    BY <1>4, PushLocals, ReadingChanges DEF Pass, Skip, Count, Publish, shared
  <2>2. Standing' = Standing
    BY <2>1 DEF Standing, Positions, Live
  <2> QED
    BY <2>1, <2>2
<1> QED
  BY <1>1, <1>2, <1>3, <1>4, NextCases DEF Pushing

(***************************************************************************)
(* When a call returns: what joined is what the front did not cover, and   *)
(* what is no longer standing is what that beats.                          *)
(***************************************************************************)
LEMMA ReturnFacts ==
    ASSUME IInv, EndSync
    PROVE  /\ Standing = {i \in Positions : i <= push.limit /\ (Live(i) \/ i \in push.flagged)}
           /\ Standing' = {i \in Positions : Live(i)}
           /\ \A i \in Positions : i <= push.limit \/ push.limit < i
           /\ \A j \in Positions : push.limit < j =>
                 /\ Live(j) /\ archive[j].by = mutex
                 /\ \A w \in Worker : solverTimestamps[w] < archive[j].ts
                 /\ \E g \in DOMAIN push.given : push.given[g] = archive[j].yp
                 /\ \A i \in Standing : ~ dominates(archive[i].yp, archive[j].yp)
                 /\ \A i \in Standing : dominates(archive[j].yp, archive[i].yp) => ~ Live(i)
           /\ \A i \in push.flagged :
                 /\ ~ Live(i)
                 /\ \E j \in Positions : push.limit < j /\ dominates(archive[j].yp, archive[i].yp)
           /\ \A g \in DOMAIN push.given :
                 \/ \E i \in Standing : dominates(archive[i].yp, push.given[g])
                 \/ \E j \in Positions : push.limit < j /\ push.given[g] = archive[j].yp
           /\ \A i \in Positions : archive[i].ts <= lastUpdateTime
<1>0. /\ TypeOK /\ ControlInv /\ TimeInv /\ DominanceInv /\ BatchInv
  BY DEF IInv
<1>1. /\ mutex \in Worker /\ mutex # NoWorker /\ push.pc = "unlock" /\ push.todo = <<>>
      /\ push.limit \in Nat /\ push.limit <= Len(archive) /\ Len(archive) \in Nat
      /\ \A i \in Positions : i \in Nat /\ i <= Len(archive)
  BY <1>0, EndSyncFacts, EntryFacts, ArchiveAssumption DEF ControlInv, Positions
<1>2. Standing = {i \in Positions : i <= push.limit /\ (Live(i) \/ i \in push.flagged)}
  <2>1. \A i : i \in 1 .. push.limit <=> i \in Positions /\ i <= push.limit
    BY <1>1 DEF Positions
  <2> QED
    BY <1>1, <2>1 DEF Standing
<1>3. Standing' = {i \in Positions : Live(i)}
  <2>1. /\ mutex' = NoWorker /\ push'.flagged = {} /\ archive' = archive
    BY <1>0, EndSyncFacts
  <2> QED
    BY <2>1 DEF Standing, Positions, Live
<1>4. \A i \in Positions : i <= push.limit \/ push.limit < i
  BY <1>1
<1>5. ~ Inspecting /\ DOMAIN push.todo = {} /\ Accounted = Len(archive)
  BY <1>1 DEF Inspecting, Accounted
<1>6. ASSUME NEW j \in Positions, push.limit < j
      PROVE  /\ Live(j) /\ archive[j].by = mutex
             /\ \A w \in Worker : solverTimestamps[w] < archive[j].ts
             /\ \E g \in DOMAIN push.given : push.given[g] = archive[j].yp
             /\ \A i \in Standing : ~ dominates(archive[i].yp, archive[j].yp)
             /\ \A i \in Standing : dominates(archive[j].yp, archive[i].yp) => ~ Live(i)
  <2>1. /\ Live(j) /\ archive[j].by = mutex
        /\ \A w \in Worker : solverTimestamps[w] < archive[j].ts
    BY <1>0, <1>1, <1>6 DEF TimeInv
  <2>2. \E g \in DOMAIN push.given : push.given[g] = archive[j].yp
    BY <1>0, <1>1, <1>6 DEF BatchInv
  <2>3. \A i \in Standing : i \in Positions /\ i < j
    BY <1>1, <1>2, <1>6
  <2>4. /\ \A i \in Standing : ~ dominates(archive[i].yp, archive[j].yp)
        /\ \A i \in Standing : dominates(archive[j].yp, archive[i].yp) => ~ Live(i)
    BY <1>0, <2>3 DEF DominanceInv
  <2> QED
    BY <2>1, <2>2, <2>4
<1>7. \A i \in push.flagged :
         /\ ~ Live(i)
         /\ \E j \in Positions : push.limit < j /\ dominates(archive[j].yp, archive[i].yp)
  BY <1>0, <1>5 DEF BatchInv
<1>8. \A g \in DOMAIN push.given :
         \/ \E i \in Standing : dominates(archive[i].yp, push.given[g])
         \/ \E j \in Positions : push.limit < j /\ push.given[g] = archive[j].yp
  BY <1>0, <1>5 DEF BatchInv
<1>9. \A i \in Positions : archive[i].ts <= lastUpdateTime
  BY <1>0, <1>1, <1>5 DEF TimeInv
<1> QED
  BY <1>2, <1>3, <1>4, <1>6, <1>7, <1>8, <1>9

(***************************************************************************)
(* SharedSolutionsArchive implements SharedFront: syncSolutions takes the  *)
(* unread points when it takes the mutex, and the front changes when it    *)
(* returns; whatever else happens changes neither.                         *)
(***************************************************************************)
THEOREM ImplementsFront == Spec => FrontSpec
<1> DEFINE F == {archive[i].yp : i \in Standing}
           U == [v \in Worker |->
                   IF v = mutex THEN {} ELSE {archive[i].yp : i \in Unread(v)}]
<1>1. Init => Front!Init
  <2> SUFFICES ASSUME Init PROVE F = {} /\ U = [w \in Worker |-> {}]
    BY DEF Front!Init
  <2>1. Standing = {}
    BY DEF Init, Standing, Positions
  <2>2. \A v \in Worker : Unread(v) = {}
    BY <2>1 DEF Unread
  <2> QED
    BY <2>1, <2>2
<1>2. IInv /\ [Next]_vars => [Front!Next]_<<F, U>>
  <2> SUFFICES ASSUME IInv, [Next]_vars
               PROVE  Front!Next \/ (F' = F /\ U' = U)
    OBVIOUS
  <2>0. TypeOK /\ ControlInv
    BY DEF IInv
  <2>1. CASE Next /\ ~ EndSync
    <3>1. /\ Standing' = Standing /\ solverTimestamps' = solverTimestamps
          /\ \A i \in Standing : /\ archive'[i].yp = archive[i].yp
                                 /\ archive'[i].ts = archive[i].ts
                                 /\ archive'[i].by = archive[i].by
          /\ Sync \/ mutex' = mutex
      BY <2>0, <2>1, StandingStays
    <3>2. F' = F
      BY <3>1
    <3>3. ASSUME NEW v \in Worker
          PROVE  {archive[i].yp : i \in Unread(v)}' = {archive[i].yp : i \in Unread(v)}
      <4>1. Unread(v)' = Unread(v) /\ Unread(v) \subseteq Standing
        BY <3>1 DEF Unread
      <4> QED
        BY <3>1, <4>1
    <3>4. CASE mutex' = mutex
      <4>1. U' = U
        BY <3>3, <3>4
      <4> QED
        BY <3>2, <4>1
    <3>5. CASE Sync
      <4>1. mutex = NoWorker /\ mutex' \in Worker
        BY <2>0, <3>5, SyncFacts
      <4>2. \A v \in Worker : v # mutex
        BY <4>1, ArchiveAssumption
      <4>3. U' = [v \in Worker |-> IF v = mutex' THEN {} ELSE U[v]]
        BY <3>3, <4>2
      <4>4. Front!New({}) = {} /\ Front!Beaten({}) = {}
        BY DEF Front!New, Front!Beaten, Front!Covers
      <4>5. Front!Sync(mutex', {})
        BY <3>2, <4>3, <4>4 DEF Front!Sync
      <4>6. Front!IsAntichain({}) /\ {} \in SUBSET Front!YPoint
        BY DEF Front!IsAntichain
      <4> QED
        BY <4>1, <4>5, <4>6 DEF Front!Next
    <3> QED
      BY <3>1, <3>4, <3>5
  <2>2. CASE EndSync
    <3>0. PICK P : P = {push.given[g] : g \in DOMAIN push.given}
      OBVIOUS
    <3> DEFINE N == {archive[j].yp : j \in {k \in Positions : push.limit < k}}
    <3>1. /\ mutex \in Worker /\ mutex' = NoWorker /\ mutex # NoWorker
          /\ archive' = archive /\ Positions' = Positions
          /\ solverTimestamps'[mutex] = lastUpdateTime
          /\ \A w \in Worker : w # mutex => solverTimestamps'[w] = solverTimestamps[w]
      BY <2>0, <2>2, EndSyncFacts, ArchiveAssumption DEF Positions
    <3>2. P \in SUBSET Front!YPoint /\ Front!IsAntichain(P)
      <4>1. push.given \in Batches
        BY <2>0, EntryFacts
      <4>2. push.given \in Seq(Feasible)
            /\ \A i, j \in DOMAIN push.given : dominates(push.given[i], push.given[j]) => i = j
        BY <4>1, BatchFacts
      <4>3. P \in SUBSET YPoint
        BY <3>0, <4>2, LenProperties, ArchiveAssumption
      <4>4. \A p, q \in P : dominates(p, q) => p = q
        BY <3>0, <4>2
      <4> QED
        BY <4>3, <4>4 DEF Front!YPoint, YPoint, Front!IsAntichain, Front!dominates, dominates
    <3>3. Front!New(P) = N
      <4>1. ASSUME NEW p \in P, ~ (\E q \in F : dominates(q, p))
            PROVE  p \in N
        <5>1. PICK g \in DOMAIN push.given : p = push.given[g]
          BY <3>0
        <5>2. ~ \E i \in Standing : dominates(archive[i].yp, push.given[g])
          BY <4>1, <5>1
        <5>3. PICK j \in Positions : push.limit < j /\ push.given[g] = archive[j].yp
          BY <2>2, <5>2, ReturnFacts
        <5> QED
          BY <5>1, <5>3
      <4>2. ASSUME NEW p \in N
            PROVE  p \in P /\ ~ (\E q \in F : dominates(q, p))
        <5>1. PICK j \in Positions : push.limit < j /\ p = archive[j].yp
          OBVIOUS
        <5>2. /\ \E g \in DOMAIN push.given : push.given[g] = archive[j].yp
              /\ \A i \in Standing : ~ dominates(archive[i].yp, archive[j].yp)
          BY <2>2, <5>1, ReturnFacts
        <5> QED
          BY <3>0, <5>1, <5>2
      <4>3. Front!New(P) = {p \in P : ~ (\E q \in F : dominates(q, p))}
        BY DEF Front!New, Front!Covers, Front!dominates, dominates
      <4> QED
        BY <4>1, <4>2, <4>3
    <3>4. ASSUME NEW i \in Standing
          PROVE  archive[i].yp \in Front!Beaten(P) <=> ~ Live(i)
      <4>1. archive[i].yp \in F
        OBVIOUS
      <4>2. archive[i].yp \in Front!Beaten(P) <=> \E q \in N : dominates(q, archive[i].yp)
        BY <3>3, <4>1 DEF Front!Beaten, Front!Covers, Front!dominates, dominates
      <4>3. ASSUME NEW q \in N, dominates(q, archive[i].yp) PROVE ~ Live(i)
        <5>1. PICK j \in Positions : push.limit < j /\ q = archive[j].yp
          OBVIOUS
        <5> QED
          BY <2>2, <4>3, <5>1, ReturnFacts
      <4>4. ASSUME ~ Live(i) PROVE \E q \in N : dominates(q, archive[i].yp)
        <5>1. i \in push.flagged
          BY <2>2, <4>4, ReturnFacts
        <5>2. PICK j \in Positions : push.limit < j /\ dominates(archive[j].yp, archive[i].yp)
          BY <2>2, <5>1, ReturnFacts
        <5> QED
          BY <5>2
      <4> QED
        BY <4>2, <4>3, <4>4
    <3>5. ASSUME NEW i \in Positions, Live(i)
          PROVE  (i \in Standing /\ i <= push.limit) \/ push.limit < i
      BY <2>2, <3>5, ReturnFacts
    <3>6. \A j \in Positions : push.limit < j =>
             /\ Live(j) /\ archive[j].by = mutex
             /\ \A w \in Worker : solverTimestamps[w] < archive[j].ts
      BY <2>2, ReturnFacts
    <3>7. Standing' = {i \in Positions : Live(i)} /\ Standing \subseteq Positions
      BY <2>2, ReturnFacts
    <3>8. F' = (F \ Front!Beaten(P)) \cup N
      <4>1. F' = {archive[i].yp : i \in {k \in Positions : Live(k)}}
        BY <3>1, <3>7
      <4>2. ASSUME NEW i \in Positions, Live(i)
            PROVE  archive[i].yp \in (F \ Front!Beaten(P)) \cup N
        BY <4>2, <3>4, <3>5
      <4>3. ASSUME NEW q \in F \ Front!Beaten(P)
            PROVE  \E i \in Positions : Live(i) /\ q = archive[i].yp
        <5>1. PICK i \in Standing : q = archive[i].yp
          OBVIOUS
        <5> QED
          BY <5>1, <3>4, <3>7
      <4>4. ASSUME NEW q \in N
            PROVE  \E i \in Positions : Live(i) /\ q = archive[i].yp
        BY <3>6
      <4> QED
        BY <4>1, <4>2, <4>3, <4>4
    <3>9. ASSUME NEW v \in Worker
          PROVE  U'[v] = IF v = mutex THEN {} ELSE (U[v] \ Front!Beaten(P)) \cup N
      <4>1. U'[v] = {archive[i].yp : i \in
               {k \in Positions : Live(k) /\ archive[k].by # v
                                  /\ solverTimestamps'[v] < archive[k].ts}}
        BY <3>1, <3>7, ArchiveAssumption DEF Unread
      <4>2. CASE v = mutex
        <5>1. ASSUME NEW i \in Positions, lastUpdateTime < archive[i].ts PROVE FALSE
          <6>1. archive[i].ts <= lastUpdateTime
            BY <2>2, ReturnFacts
          <6>2. archive[i].ts \in Nat /\ lastUpdateTime \in Nat
            BY <2>0, EntryFacts DEF TypeOK
          <6> QED
            BY <5>1, <6>1, <6>2
        <5> QED
          BY <4>1, <4>2, <5>1, <3>1
      <4>3. CASE v # mutex
        <5>1. solverTimestamps'[v] = solverTimestamps[v]
          BY <3>1, <4>3
        <5>2. U[v] = {archive[i].yp : i \in
                        {k \in Standing : archive[k].by # v
                                          /\ solverTimestamps[v] < archive[k].ts}}
          BY <4>3 DEF Unread
        <5>3. ASSUME NEW i \in Positions, Live(i), archive[i].by # v,
                     solverTimestamps[v] < archive[i].ts
              PROVE  archive[i].yp \in (U[v] \ Front!Beaten(P)) \cup N
          BY <5>2, <5>3, <3>4, <3>5
        <5>4. ASSUME NEW q \in U[v] \ Front!Beaten(P)
              PROVE  \E i \in Positions : /\ Live(i) /\ archive[i].by # v
                                          /\ solverTimestamps[v] < archive[i].ts
                                          /\ q = archive[i].yp
          <6>1. PICK i \in Standing : /\ archive[i].by # v
                                      /\ solverTimestamps[v] < archive[i].ts
                                      /\ q = archive[i].yp
            BY <5>2
          <6> QED
            BY <6>1, <3>4, <3>7
        <5>5. ASSUME NEW q \in N
              PROVE  \E i \in Positions : /\ Live(i) /\ archive[i].by # v
                                          /\ solverTimestamps[v] < archive[i].ts
                                          /\ q = archive[i].yp
          BY <3>6, <4>3
        <5>6. \A q : q \in U'[v] <=> \E i \in Positions : /\ Live(i) /\ archive[i].by # v
                                                       /\ solverTimestamps[v] < archive[i].ts
                                                       /\ q = archive[i].yp
          BY <4>1, <5>1
        <5>7. ASSUME NEW q \in U'[v]
              PROVE  q \in (U[v] \ Front!Beaten(P)) \cup N
          <6> HIDE DEF U, N
          <6>1. PICK i \in Positions : /\ Live(i) /\ archive[i].by # v
                                       /\ solverTimestamps[v] < archive[i].ts
                                       /\ q = archive[i].yp
            BY <5>6
          <6> QED
            BY <6>1, <5>3
        <5> HIDE DEF U, N
        <5>8. (U[v] \ Front!Beaten(P)) \cup N \subseteq U'[v]
          BY <5>4, <5>5, <5>6
        <5> QED
          BY <4>3, <5>7, <5>8
      <4> QED
        BY <4>2, <4>3
    <3>10. U' = [v \in Worker |-> IF v = mutex THEN {} ELSE (U[v] \ Front!Beaten(P)) \cup N]
      BY <3>9
    <3>11. Front!Sync(mutex, P)
      BY <3>3, <3>8, <3>10 DEF Front!Sync
    <3> QED
      BY <3>1, <3>2, <3>11 DEF Front!Next
  <2>3. CASE UNCHANGED vars
    BY <2>3 DEF vars, Standing, Unread, Positions, Live
  <2> QED
    BY <2>1, <2>2, <2>3
<1> QED
  BY <1>1, <1>2, ArchiveInvariant, PTL DEF Spec, FrontSpec, Front!Spec
===============================================================================
