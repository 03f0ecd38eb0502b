-------------------------- MODULE SolutionsArchive --------------------------
(***************************************************************************)
(* SharedSolutionsArchive: the solutions found so far by all the parallel  *)
(* solvers.  Solvers push and pull under a mutex; the printing code (which *)
(* also runs in the handler of SIGINT) and empty() read the atomics        *)
(* without it.  A push is therefore a sequence of steps here, one for      *)
(* every change an unlocked reader can see.                                *)
(*                                                                         *)
(* entries[i] is always the address of archive[i] for i up to published,   *)
(* so the two containers are one sequence and a published length.          *)
(***************************************************************************)
EXTENDS Pareto, Sequences, FiniteSets

CONSTANTS
    Feasible,        \* the points of the solutions the solvers can find
    Worker,          \* the solvers (thread ids)
    MAX_SOLUTIONS,   \* capacity of the published prefix (entries.size())
    MaxArchive,      \* bound: solutions ever archived
    MaxBatch,        \* bound: solutions handed over by one call
    NoWorker         \* nobody holds the mutex

ASSUME ArchiveAssumption ==
    /\ Feasible \subseteq YPoint
    /\ NoWorker \notin Worker
    /\ MAX_SOLUTIONS \in Nat
    /\ MaxArchive \in Nat
    /\ MaxBatch \in Nat

VARIABLES
    archive,           \* the tagged solutions, oldest first
    published,         \* atomic: length of the prefix readers may scan
    liveCount,         \* atomic: solutions not marked dominated
    archiveOverflow,   \* atomic: the archive outgrew the published prefix
    lastUpdateTime,
    solverTimestamps,  \* [Worker -> time of the worker's last call]
    mutex,             \* who holds the mutex
    push,              \* the call in progress: its locals
    reader,            \* the unlocked getSolutions in progress: its locals
    received,          \* history: the entries that every worker has pulled
    skipped            \* history: time of the worker's last call without a pull

vars == <<archive, published, liveCount, archiveOverflow, lastUpdateTime,
          solverTimestamps, mutex, push, reader, received, skipped>>

shared == <<archive, published, liveCount, archiveOverflow, lastUpdateTime,
            solverTimestamps>>
history == <<received, skipped>>

-----------------------------------------------------------------------------
Positions == 1 .. Len(archive)

Live(i) == ~ archive[i].dominated

Smaller(a, b) == IF a < b THEN a ELSE b

\* Sequences of distinct points, none as good as another: what a worker's
\* local Solution holds, pushSafe having filtered it.
Batches ==
    {b \in UNION {[1 .. k -> Feasible] : k \in 0 .. MaxBatch} :
        \A i, j \in DOMAIN b : dominates(b[i], b[j]) => i = j}

NoPush == [pc |-> "idle", given |-> <<>>, todo |-> <<>>, at |-> 0, limit |-> 0,
           flagged |-> {}]
NoRead == [pc |-> "idle", n |-> 0, at |-> 0, seen |-> {}, quiet |-> TRUE]

Entry == [yp : Feasible, ts : Nat, by : Worker, dominated : BOOLEAN]

TypeOK ==
    /\ archive \in Seq(Entry)
    /\ published \in Nat
    /\ liveCount \in Nat
    /\ archiveOverflow \in BOOLEAN
    /\ lastUpdateTime \in Nat
    /\ solverTimestamps \in [Worker -> Nat]
    /\ mutex \in Worker \cup {NoWorker}
    /\ push \in [pc : {"idle", "inspect", "publish", "unlock"}, given : Batches,
                 todo : Batches, at : Nat, limit : Nat, flagged : SUBSET Nat]
    /\ reader \in [pc : {"idle", "overflow", "scan", "done"}, n : Nat,
                   at : Nat, seen : SUBSET Nat, quiet : BOOLEAN]
    /\ received \in [Worker -> SUBSET Nat]
    /\ skipped \in [Worker -> Nat]

Init ==
    /\ archive = <<>>
    /\ published = 0
    /\ liveCount = 0
    /\ archiveOverflow = FALSE
    /\ lastUpdateTime = 0
    /\ solverTimestamps = [w \in Worker |-> 0]
    /\ mutex = NoWorker
    /\ push = NoPush
    /\ reader = NoRead
    /\ received = [w \in Worker |-> {}]
    /\ skipped = [w \in Worker |-> 0]

-----------------------------------------------------------------------------
\* pullSolutions: live entries of others, younger than w's last call.
Pull(w) ==
    {i \in Positions :
        Live(i) /\ archive[i].by # w /\ solverTimestamps[w] < archive[i].ts}

\* syncSolutions takes the mutex, pulls if asked to, and begins pushSolutions:
\* the entries inspected are those present now, limit.
BeginSync(w, candidates, alsoPull) ==
    /\ mutex = NoWorker
    /\ Len(archive) + Len(candidates) <= MaxArchive
    /\ mutex' = w
    /\ push' = [pc |-> "inspect", given |-> candidates, todo |-> candidates,
                at |-> 1, limit |-> Len(archive), flagged |-> {}]
    /\ received' = IF alsoPull
                   THEN [received EXCEPT ![w] = @ \cup Pull(w)]
                   ELSE received
    /\ skipped' = IF alsoPull THEN skipped
                              ELSE [skipped EXCEPT ![w] = lastUpdateTime]
    /\ reader' = [reader EXCEPT !.quiet = FALSE]
    /\ UNCHANGED shared

\* The candidate under inspection, and the one after it.
Candidate == Head(push.todo)
NextCandidate == [push EXCEPT !.todo = Tail(@), !.at = 1]

Inspecting == push.pc = "inspect" /\ push.todo # <<>>

\* inspect: an entry that is dominated already, or that is incomparable.
Pass ==
    /\ Inspecting
    /\ push.at <= push.limit
    /\ \/ archive[push.at].dominated
       \/ /\ ~ dominates(archive[push.at].yp, Candidate)
          /\ ~ dominates(Candidate, archive[push.at].yp)
    /\ push' = [push EXCEPT !.at = @ + 1]
    /\ UNCHANGED <<shared, mutex, reader, history>>

\* inspect: a live entry is as good as the candidate, which is skipped.
Skip ==
    /\ Inspecting
    /\ push.at <= push.limit
    /\ Live(push.at)
    /\ dominates(archive[push.at].yp, Candidate)
    /\ push' = NextCandidate
    /\ UNCHANGED <<shared, mutex, reader, history>>

\* Mutant: subtracts an entry that is marked already once more.
FlagTwice ==
    /\ Inspecting
    /\ push.at <= push.limit
    /\ dominates(Candidate, archive[push.at].yp)
    /\ archive' = [archive EXCEPT ![push.at].dominated = TRUE]
    /\ liveCount' = liveCount - 1
    /\ push' = [push EXCEPT !.at = @ + 1, !.flagged = @ \cup {push.at}]
    /\ UNCHANGED <<published, archiveOverflow, lastUpdateTime, solverTimestamps,
                   mutex, reader, history>>

\* Mutant: marks every entry that does not beat the candidate.
FlagIncomparable ==
    /\ Inspecting
    /\ push.at <= push.limit
    /\ Live(push.at)
    /\ ~ dominates(archive[push.at].yp, Candidate)
    /\ archive' = [archive EXCEPT ![push.at].dominated = TRUE]
    /\ liveCount' = liveCount - 1
    /\ push' = [push EXCEPT !.at = @ + 1, !.flagged = @ \cup {push.at}]
    /\ UNCHANGED <<published, archiveOverflow, lastUpdateTime, solverTimestamps,
                   mutex, reader, history>>

\* inspect: the candidate beats a live entry.  The flag and the counter are
\* two atomics, but no reader looks at both.
Flag ==
    /\ Inspecting
    /\ push.at <= push.limit
    /\ Live(push.at)
    /\ ~ dominates(archive[push.at].yp, Candidate)
    /\ dominates(Candidate, archive[push.at].yp)
    /\ archive' = [archive EXCEPT ![push.at].dominated = TRUE]
    /\ liveCount' = liveCount - 1
    /\ push' = [push EXCEPT !.at = @ + 1, !.flagged = @ \cup {push.at}]
    /\ UNCHANGED <<published, archiveOverflow, lastUpdateTime, solverTimestamps,
                   mutex, reader, history>>

\* Mutant: the scan of the archive ends one entry early.
AcceptEarly ==
    /\ Inspecting
    /\ push.at >= push.limit
    /\ archive' = Append(archive, [yp |-> Candidate, ts |-> lastUpdateTime + 1,
                                   by |-> mutex, dominated |-> FALSE])
    /\ push' = NextCandidate
    /\ UNCHANGED <<published, liveCount, archiveOverflow, lastUpdateTime,
                   solverTimestamps, mutex, reader, history>>

\* No entry stopped the candidate: it joins the archive, unpublished.
Accept ==
    /\ Inspecting
    /\ push.at > push.limit
    /\ archive' = Append(archive, [yp |-> Candidate, ts |-> lastUpdateTime + 1,
                                   by |-> mutex, dominated |-> FALSE])
    /\ push' = NextCandidate
    /\ UNCHANGED <<published, liveCount, archiveOverflow, lastUpdateTime,
                   solverTimestamps, mutex, reader, history>>

Added == Len(archive) - push.limit

\* Mutant: only what fits the published prefix is counted.
CountPublished ==
    /\ push.pc = "inspect"
    /\ push.todo = <<>>
    /\ push' = [push EXCEPT !.pc = IF Added > 0 THEN "publish" ELSE "unlock"]
    /\ lastUpdateTime' = IF Added > 0 THEN lastUpdateTime + 1 ELSE lastUpdateTime
    /\ archiveOverflow' = (archiveOverflow \/ Len(archive) > MAX_SOLUTIONS)
    /\ liveCount' = liveCount + Smaller(Len(archive), MAX_SOLUTIONS) - published
    /\ UNCHANGED <<archive, published, solverTimestamps, mutex, reader, history>>

\* Every candidate is dealt with.  If some joined: the new time, the
\* overflow mark and the live counter, before the new length is published.
Count ==
    /\ push.pc = "inspect"
    /\ push.todo = <<>>
    /\ push' = [push EXCEPT !.pc = IF Added > 0 THEN "publish" ELSE "unlock"]
    /\ lastUpdateTime' = IF Added > 0 THEN lastUpdateTime + 1 ELSE lastUpdateTime
    /\ archiveOverflow' = (archiveOverflow \/ Len(archive) > MAX_SOLUTIONS)
    /\ liveCount' = liveCount + Added
    /\ UNCHANGED <<archive, published, solverTimestamps, mutex, reader, history>>

\* published.store(n)
Publish ==
    /\ push.pc = "publish"
    /\ published' = Smaller(Len(archive), MAX_SOLUTIONS)
    /\ push' = [push EXCEPT !.pc = "unlock"]
    /\ UNCHANGED <<archive, liveCount, archiveOverflow, lastUpdateTime,
                   solverTimestamps, mutex, reader, history>>

\* Mutant: the worker's time is set one too late.
EndSyncLate ==
    /\ push.pc = "unlock"
    /\ solverTimestamps' = [solverTimestamps EXCEPT ![mutex] = lastUpdateTime + 1]
    /\ mutex' = NoWorker
    /\ push' = NoPush
    /\ UNCHANGED <<archive, published, liveCount, archiveOverflow,
                   lastUpdateTime, reader, history>>

\* The worker is up to date, and syncSolutions returns.
EndSync ==
    /\ push.pc = "unlock"
    /\ solverTimestamps' = [solverTimestamps EXCEPT ![mutex] = lastUpdateTime]
    /\ mutex' = NoWorker
    /\ push' = NoPush
    /\ UNCHANGED <<archive, published, liveCount, archiveOverflow,
                   lastUpdateTime, reader, history>>

-----------------------------------------------------------------------------
(***************************************************************************)
(* getSolutions and getSolutionPoints: one reader at a time, which takes   *)
(* the mutex only when the archive has overflowed and the mutex is free.   *)
(* reader.quiet is history: no call of syncSolutions overlapped the read.  *)
(***************************************************************************)
ReadPublished ==
    /\ reader.pc = "idle"
    /\ reader' = [NoRead EXCEPT !.pc = "overflow", !.n = published, !.at = 1,
                                !.quiet = (mutex = NoWorker)]
    /\ UNCHANGED <<shared, mutex, push, history>>

\* Mutant: the overflow mark is ignored.
ReadPrefixOnly ==
    /\ reader.pc = "overflow"
    /\ reader' = [reader EXCEPT !.pc = "scan"]
    /\ UNCHANGED <<shared, mutex, push, history>>

ReadOverflow ==
    /\ reader.pc = "overflow"
    /\ reader' = IF archiveOverflow /\ mutex = NoWorker
                 THEN [reader EXCEPT !.pc = "done", !.seen = {i \in Positions : Live(i)}]
                 ELSE [reader EXCEPT !.pc = "scan"]
    /\ UNCHANGED <<shared, mutex, push, history>>

Scan ==
    /\ reader.pc = "scan"
    /\ reader.at <= reader.n
    /\ reader' = [reader EXCEPT !.at = @ + 1,
                                !.seen = IF Live(reader.at) THEN @ \cup {reader.at} ELSE @]
    /\ UNCHANGED <<shared, mutex, push, history>>

EndScan ==
    /\ reader.pc = "scan"
    /\ reader.at > reader.n
    /\ reader' = [reader EXCEPT !.pc = "done"]
    /\ UNCHANGED <<shared, mutex, push, history>>

Return ==
    /\ reader.pc = "done"
    /\ reader' = NoRead
    /\ UNCHANGED <<shared, mutex, push, history>>

-----------------------------------------------------------------------------
Sync == \E w \in Worker, candidates \in Batches, alsoPull \in BOOLEAN :
            BeginSync(w, candidates, alsoPull)

Next ==
    \/ Sync
    \/ Pass \/ Skip \/ Flag \/ Accept \/ Count \/ Publish \/ EndSync
    \/ ReadPublished \/ ReadOverflow \/ Scan \/ EndScan \/ Return

Spec == Init /\ [][Next]_vars

-----------------------------------------------------------------------------
\* empty(): reads the live counter without the mutex.
empty == liveCount = 0

(***************************************************************************)
(* Between calls empty() answers whether anything was ever archived: the   *)
(* solvers decide between OPTIMUM and UNSATISFIABLE with it, and however   *)
(* many candidates beat an entry, the entry is subtracted once.            *)
(***************************************************************************)
EmptyIsTruthful == mutex = NoWorker => (empty <=> archive = <<>>)

(***************************************************************************)
(* Every live solution of another solver that is not younger than a        *)
(* solver's last call has been handed to it, except those that a call      *)
(* without a pull has stepped over; and what it would be handed next, it   *)
(* has not been handed before.                                             *)
(***************************************************************************)
NothingIsMissed(w) ==
    \A i \in Positions :
        /\ Live(i)
        /\ archive[i].by # w
        /\ skipped[w] < archive[i].ts
        => solverTimestamps[w] < archive[i].ts \/ i \in received[w]

NothingIsRepeated(w) == Pull(w) \cap received[w] = {}

PullsAreExact ==
    mutex = NoWorker => \A w \in Worker : NothingIsMissed(w) /\ NothingIsRepeated(w)

(***************************************************************************)
(* An unlocked reader never returns two solutions of which one is as good  *)
(* as the other: entries are marked before what beats them is published.   *)
(***************************************************************************)
SnapshotIsAntichain ==
    reader.pc = "done" =>
        \A i, j \in reader.seen :
            dominates(archive[i].yp, archive[j].yp) => i = j

(***************************************************************************)
(* A reading that no call overlaps returns the whole front, also when the  *)
(* archive has outgrown the published prefix.                              *)
(***************************************************************************)
QuietSnapshotIsExact ==
    reader.pc = "done" /\ reader.quiet => reader.seen = {i \in Positions : Live(i)}

(***************************************************************************)
(* README.md promises a partial solution whenever the solver is            *)
(* interrupted: once a solution is published, a reader finds one.          *)
(***************************************************************************)
InterruptReportsSolution ==
    reader.pc = "done" /\ reader.n > 0 => reader.seen # {}

-----------------------------------------------------------------------------
(***************************************************************************)
(* Until a call returns, the abstract front is the one the call started    *)
(* from: the entries that were there, with those it has marked itself.     *)
(***************************************************************************)
Standing ==
    {i \in IF mutex = NoWorker THEN Positions ELSE 1 .. push.limit :
        Live(i) \/ i \in push.flagged}

Unread(v) == {i \in Standing : archive[i].by # v /\ solverTimestamps[v] < archive[i].ts}

Front == INSTANCE SharedFront
            WITH front <- {archive[i].yp : i \in Standing},
                 unread <- [v \in Worker |->
                              IF v = mutex THEN {} ELSE {archive[i].yp : i \in Unread(v)}]

\* The archive implements the shared set of best points.
FrontSpec == Front!Spec

-----------------------------------------------------------------------------
\* Which locals of a push mean what, and what its mutex protects.
ControlInv ==
    /\ mutex = NoWorker <=> push.pc = "idle"
    /\ push.pc = "idle" => push = NoPush
    /\ push.limit <= Len(archive)
    /\ push.pc = "inspect" => 1 <= push.at /\ push.at <= push.limit + 1
    /\ push.pc \in {"publish", "unlock"} => push.todo = <<>>
    /\ push.pc = "publish" => push.limit < Len(archive)

\* The atomics account for the entries up to here, the length up to there.
Accounted == IF push.pc = "inspect" THEN push.limit ELSE Len(archive)
Announced == IF push.pc \in {"inspect", "publish"} THEN push.limit ELSE Len(archive)

CounterInv ==
    /\ liveCount = Cardinality({i \in 1 .. Accounted : Live(i)})
    /\ archiveOverflow <=> Accounted > MAX_SOLUTIONS
    /\ published = Smaller(Announced, MAX_SOLUTIONS)

\* The entries of a push are live, the caller's, and younger than everyone's last call.
TimeInv ==
    /\ \A w \in Worker : solverTimestamps[w] <= lastUpdateTime
    /\ \A i \in Positions :
          archive[i].ts <= IF i <= Accounted THEN lastUpdateTime ELSE lastUpdateTime + 1
    /\ push.pc # "idle" =>
          \A i \in Positions : push.limit < i =>
              /\ Live(i)
              /\ archive[i].by = mutex
              /\ \A w \in Worker : solverTimestamps[w] < archive[i].ts

Beats(p, q) == dominates(p, q) /\ ~ dominates(q, p)

\* No entry is as good as a later one; what a later one is as good as is marked;
\* and what is marked is covered by a live entry or by the candidate.
DominanceInv ==
    /\ \A i, j \in Positions : i < j => ~ dominates(archive[i].yp, archive[j].yp)
    /\ \A i, j \in Positions :
          i < j /\ dominates(archive[j].yp, archive[i].yp) => ~ Live(i)
    /\ \A i \in Positions :
          \/ \E j \in Positions : Live(j) /\ dominates(archive[j].yp, archive[i].yp)
          \/ Inspecting /\ Beats(Candidate, archive[i].yp)

\* The candidate and the entries inspected, the entries of the batch and the rest of it.
CandidateInv ==
    /\ Inspecting =>
          \A i \in Positions : i < push.at /\ Live(i) =>
              /\ ~ dominates(archive[i].yp, Candidate)
              /\ ~ dominates(Candidate, archive[i].yp)
    /\ push.pc # "idle" =>
          \A i \in Positions : push.limit < i =>
              \A k \in DOMAIN push.todo :
                  /\ ~ dominates(archive[i].yp, push.todo[k])
                  /\ ~ dominates(push.todo[k], archive[i].yp)

\* What has become of the batch: all that was marked is beaten by what joined.
BatchInv ==
    /\ \A i \in push.flagged : 1 <= i /\ i <= push.limit /\ ~ Live(i)
    /\ \A i \in push.flagged :
          \/ \E j \in Positions : push.limit < j /\ dominates(archive[j].yp, archive[i].yp)
          \/ Inspecting /\ Beats(Candidate, archive[i].yp)
    /\ \A k \in DOMAIN push.todo : \E g \in DOMAIN push.given : push.given[g] = push.todo[k]
    /\ push.pc # "idle" =>
          \A j \in Positions : push.limit < j =>
              \E g \in DOMAIN push.given : push.given[g] = archive[j].yp
    /\ \A g \in DOMAIN push.given :
          \/ \E k \in DOMAIN push.todo : push.given[g] = push.todo[k]
          \/ \E i \in Standing : dominates(archive[i].yp, push.given[g])
          \/ \E j \in Positions : push.limit < j /\ push.given[g] = archive[j].yp
    /\ \A i, j \in Standing : dominates(archive[i].yp, archive[j].yp) => i = j

\* What a worker was handed is not younger than its last call, or the call it is in.
PullInv ==
    /\ \A w \in Worker : NothingIsMissed(w)
    /\ \A w \in Worker : \A i \in received[w] :
          /\ i \in Positions /\ i <= Accounted
          /\ w # mutex => archive[i].ts <= solverTimestamps[w]
    /\ mutex # NoWorker =>
          \A i \in Positions :
              Live(i) /\ archive[i].by # mutex /\ skipped[mutex] < archive[i].ts
                  => i \in received[mutex]

ReaderInv ==
    /\ reader.pc = "overflow" => reader.seen = {} /\ reader.at = 1
    /\ reader.pc \in {"overflow", "scan"} =>
          /\ reader.n <= Len(archive)
          /\ 1 <= reader.at /\ reader.at <= reader.n + 1
          /\ \A i \in reader.seen : 1 <= i /\ i < reader.at
    /\ reader.pc = "scan" =>
          \A i \in reader.seen : \A j \in Positions :
              i < j /\ j <= reader.n => ~ dominates(archive[j].yp, archive[i].yp)
    /\ reader.pc = "done" => reader.seen \subseteq Positions

\* A reading that no call has overlapped yet.
QuietInv ==
    reader.pc # "idle" /\ reader.quiet =>
        /\ mutex = NoWorker
        /\ reader.pc = "overflow" => reader.n = Smaller(Len(archive), MAX_SOLUTIONS)
        /\ reader.pc = "scan" =>
              /\ reader.n = Len(archive)
              /\ reader.seen = {i \in Positions : i < reader.at /\ Live(i)}
        /\ reader.pc = "done" => reader.seen = {i \in Positions : Live(i)}

\* The inductive invariant.
IInv ==
    /\ TypeOK
    /\ ControlInv
    /\ CounterInv
    /\ TimeInv
    /\ DominanceInv
    /\ CandidateInv
    /\ BatchInv
    /\ PullInv
    /\ ReaderInv
    /\ SnapshotIsAntichain
    /\ QuietInv
=============================================================================
