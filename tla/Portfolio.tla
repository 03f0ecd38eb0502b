------------------------------- MODULE Portfolio -------------------------------
(***************************************************************************)
(* PortfolioMO: sequential searches side by side, one per thread.  They    *)
(* may exchange learnt clauses and solutions, and the first that finishes  *)
(* may stop the others.  When all have returned, the portfolio answers.    *)
(*                                                                         *)
(* The members are UnsatSatMO ("us"), PMinimalMO ("pmin"), HittingSetsMO   *)
(* ("hs") and SlideDrillShuntMO ("sd").  Of a member's search, the model   *)
(* keeps what the others can see: the points it finds, what it blocks, and *)
(* the order in which it shares, looks at the stop flag and returns.       *)
(* Which part of the objective space it is in (a fence, a point to drill   *)
(* from) is left open, so that a call may be UNSAT there at any time; the  *)
(* modules of the parallel searches are about that.                        *)
(***************************************************************************)
EXTENDS Pareto, Sequences, FiniteSets

CONSTANTS
    Members,     \* the number of members; a member is its thread id
    Problem,     \* the sets of points a formula's solutions can have
    Modes        \* the algorithms of the members, and the options

Worker == 1 .. Members

Kinds == {"us", "pmin", "hs", "sd"}

ASSUME PortfolioAssumption ==
    /\ Members \in Nat \ {0}
    /\ \A P \in Problem : P \subseteq YPoint /\ IsFiniteSet(P)
    /\ Modes \subseteq [kind : [Worker -> Kinds], clauses : BOOLEAN,
                        solutions : BOOLEAN, stop : BOOLEAN]

VARIABLES
    mode,          \* kinds of the members, share-clauses, share-solutions, stop-search-flag
    feasible,      \* the points of the formula's solutions
    first,         \* the first model's point, the same for all: same solver, same formula
    todo,          \* [Worker -> what the member does next, and after that]
    solutions,     \* [Worker -> its solution()]
    server,        \* [Worker -> the solution() of a conflict shunt's server, if it has one]
    excluded,      \* [Worker -> the points that its solver's clauses exclude]
    exported,      \* the points that the shared learnt clauses exclude
    front, unread, \* the archive of solutions
    stopSearch,    \* the stop flag
    answers,       \* [Worker -> its answerType]
    answerType     \* the portfolio's

problem == <<mode, feasible, first>>
found == <<solutions, server>>
sharing == <<exported, front, unread>>
vars == <<problem, todo, found, excluded, sharing, stopSearch, answers, answerType>>

Archive == INSTANCE SharedFront

-----------------------------------------------------------------------------
Is(w, kind) == mode.kind[w] = kind

Sharing == mode.clauses \/ mode.solutions

Open(w) == feasible \ excluded[w]

DominatedBy(S) == {q \in feasible : Covers(S, q)}

\* Solution::pushSafe, for each of the points.
PushSafe(S, points) == NonDominated(S \cup points)

At(w, label) == answerType = "unknown" /\ todo[w] # <<>> /\ Head(todo[w]) = label

\* w does the rest of what it had to do, or something else.
Proceed(w) == todo' = [todo EXCEPT ![w] = Tail(@)]
Goto(w, labels) == todo' = [todo EXCEPT ![w] = labels]

\* w finds p and blocks what it dominates.
Record(w, p) ==
    /\ solutions' = [solutions EXCEPT ![w] = PushSafe(@, {p})]
    /\ excluded' = [excluded EXCEPT ![w] = @ \cup DominatedBy({p})]

Init ==
    /\ mode \in Modes
    /\ feasible \in Problem
    /\ \/ feasible = {} /\ first = {}
       \/ \E p \in feasible : first = {p}
    /\ todo = [w \in Worker |-> <<"first">>]
    /\ solutions = [w \in Worker |-> {}]
    /\ server = [w \in Worker |-> {}]
    /\ excluded = [w \in Worker |-> {}]
    /\ exported = {}
    /\ Archive!Init
    /\ stopSearch = FALSE
    /\ answers = [w \in Worker |-> "unknown"]
    /\ answerType = "unknown"

-----------------------------------------------------------------------------
\* PBtoCNF::shareClauses.  The test solver of "hs" never blocks anything itself.
ShareClauses(w) ==
    /\ At(w, "clauses")
    /\ IF mode.clauses
       THEN /\ \E learnt \in {{}} \cup (IF Is(w, "hs") THEN {} ELSE {excluded[w]}) :
                  exported' = exported \cup learnt
            /\ excluded' = [excluded EXCEPT ![w] = @ \cup exported]
       ELSE UNCHANGED <<exported, excluded>>
    /\ Proceed(w)
    /\ UNCHANGED <<problem, found, front, unread, stopSearch, answers, answerType>>

\* PBtoCNF::shareSolutions: push always, pull only if solutions are shared.
ShareSolutions(w) ==
    /\ At(w, "solutions")
    /\ IF Sharing THEN Archive!Sync(w, solutions[w]) ELSE UNCHANGED <<front, unread>>
    /\ LET pulled == IF mode.solutions THEN unread[w] ELSE {}
       IN /\ excluded' = [excluded EXCEPT ![w] = @ \cup DominatedBy(pulled)]
          /\ solutions' = [solutions EXCEPT ![w] = PushSafe(@, pulled)]
    /\ Proceed(w)
    /\ UNCHANGED <<problem, server, exported, stopSearch, answers, answerType>>

\* requestStopSearch.
Request(w) ==
    /\ At(w, "request")
    /\ stopSearch' = (stopSearch \/ mode.stop)
    /\ Proceed(w)
    /\ UNCHANGED <<problem, found, excluded, sharing, answers, answerType>>

\* A look at the flag: a member that is told to stop goes where its code returns to.
Check(w) ==
    /\ At(w, "check")
    /\ IF stopSearch THEN Goto(w, <<"return">>) ELSE Proceed(w)
    /\ UNCHANGED <<problem, found, excluded, sharing, stopSearch, answers, answerType>>

\* What is shared after a call of the solver, and in which order.
Exchange == <<"clauses", "solutions">>

-----------------------------------------------------------------------------
\* UnsatSatMO::rootedSearch, SAT: no look at the flag before the next call.
HarvestSat(w) ==
    /\ At(w, "harvest")
    /\ \E p \in Open(w) : Record(w, p)
    /\ UNCHANGED <<problem, todo, server, sharing, stopSearch, answers, answerType>>

\* Mutant: a stopped search returns before it shares the solutions of its clauses.
HarvestUndefChecksEarly(w) ==
    /\ At(w, "harvest")
    /\ Goto(w, <<"clauses", "check", "solutions", "harvest">>)
    /\ UNCHANGED <<problem, found, excluded, sharing, stopSearch, answers, answerType>>

\* Undef: the budget is used up.
HarvestUndef(w) ==
    /\ At(w, "harvest")
    /\ Goto(w, Exchange \o <<"check", "harvest">>)
    /\ UNCHANGED <<problem, found, excluded, sharing, stopSearch, answers, answerType>>

\* UNSAT below the fence; if nothing is left, the fence may be unable to move.
HarvestUnsat(w) ==
    /\ At(w, "harvest")
    /\ \/ Goto(w, Exchange \o <<"check", "harvest">>)
       \/ Open(w) = {} /\ Goto(w, Exchange \o <<"return">>)
    /\ UNCHANGED <<problem, found, excluded, sharing, stopSearch, answers, answerType>>

-----------------------------------------------------------------------------
\* PMinimalMO::searchPMinimalMO, SAT: outside, or in a descent.
DescendSat(w) ==
    /\ At(w, "solve") \/ At(w, "descend")
    /\ IF stopSearch
       THEN Goto(w, <<"return">>) /\ UNCHANGED <<solutions, excluded>>
       ELSE /\ \E p \in Open(w) : Record(w, p)
            /\ Goto(w, Exchange \o <<"descend">>)
    /\ UNCHANGED <<problem, server, sharing, stopSearch, answers, answerType>>

DescendUnsat(w) ==
    /\ At(w, "descend")
    /\ Goto(w, Exchange \o <<"solve">>)
    /\ UNCHANGED <<problem, found, excluded, sharing, stopSearch, answers, answerType>>

\* Mutant: the retries do not look at the flag.
DescendUndefUnchecked(w) ==
    /\ At(w, "solve") \/ At(w, "descend")
    /\ Goto(w, Exchange \o <<Head(todo[w])>>)
    /\ UNCHANGED <<problem, found, excluded, sharing, stopSearch, answers, answerType>>

\* Undef: here, the flag is looked at first.
DescendUndef(w) ==
    /\ At(w, "solve") \/ At(w, "descend")
    /\ Goto(w, <<"check">> \o Exchange \o <<Head(todo[w])>>)
    /\ UNCHANGED <<problem, found, excluded, sharing, stopSearch, answers, answerType>>

\* UNSAT without assumptions: the answer is set from the member's own solutions.
SolveUnsat(w) ==
    /\ At(w, "solve")
    /\ Open(w) = {}
    /\ answers' = [answers EXCEPT ![w] =
                      IF solutions[w] = {} THEN "unsatisfiable" ELSE "optimum"]
    /\ Goto(w, <<"return">>)
    /\ UNCHANGED <<problem, found, excluded, sharing, stopSearch, answerType>>

-----------------------------------------------------------------------------
\* HittingSetsMO: one round.  The candidates that pass their tests are absorbed, and
\* the optimizer blocks them before the next round; "first" joins them every time.
\* Here, what is excluded is what the optimizer or the tests' solver excludes.
Round(w) ==
    /\ At(w, "round")
    /\ \E passed \in SUBSET Open(w) :
          /\ solutions' = [solutions EXCEPT ![w] = PushSafe(@, passed \cup first)]
          /\ excluded' = [excluded EXCEPT ![w] = @ \cup DominatedBy(passed)]
    /\ \/ Goto(w, Exchange \o <<"check", "round">>)
       \/ feasible \subseteq excluded'[w] /\ Goto(w, Exchange \o <<"return">>)
    /\ UNCHANGED <<problem, server, sharing, stopSearch, answers, answerType>>

\* The optimizer, or the master after it, sees the flag in the middle of a round.
RoundStopped(w) ==
    /\ At(w, "round")
    /\ stopSearch
    /\ Goto(w, <<"return">>)
    /\ UNCHANGED <<problem, found, excluded, sharing, stopSearch, answers, answerType>>

-----------------------------------------------------------------------------
\* SlideDrillMO::slide: a model from which a slide starts or goes on.  It is found by
\* the shunt's server; between a drill and its slide, the flag is looked at.
SlideSat(w) ==
    /\ At(w, "drill") \/ At(w, "slide")
    /\ IF At(w, "drill") /\ stopSearch
       THEN Goto(w, <<"return">>) /\ UNCHANGED <<server, excluded>>
       ELSE /\ \E p \in Open(w) :
                  /\ server' = [server EXCEPT ![w] = PushSafe(@, {p})]
                  /\ excluded' = [excluded EXCEPT ![w] = @ \cup DominatedBy({p})]
            /\ Goto(w, <<"serverSolutions", "clauses", "check", "slide">>)
    /\ UNCHANGED <<problem, solutions, sharing, stopSearch, answers, answerType>>

\* shareSolutions, called by the server.  The shunt passes it the archive and the
\* option share-clauses, but not share-solutions: it pushes or does nothing, and
\* never pulls.
ShareServerSolutions(w) ==
    /\ At(w, "serverSolutions")
    /\ IF mode.clauses THEN Archive!Sync(w, server[w]) ELSE UNCHANGED <<front, unread>>
    /\ Proceed(w)
    /\ UNCHANGED <<problem, found, excluded, exported, stopSearch, answers, answerType>>

\* UNSAT: the next point of the waiting list; or there is none, or the core is empty.
SlideUnsat(w) ==
    /\ \/ At(w, "drill") /\ Goto(w, <<"check", "clauses", "serverSolutions", "check", "drill">>)
       \/ At(w, "slide") /\ Goto(w, <<"check", "drill">>)
       \/ /\ At(w, "drill") \/ At(w, "slide")
          /\ Open(w) = {}
          /\ Goto(w, <<"check", "incorporate", "return">>)
    /\ UNCHANGED <<problem, found, excluded, sharing, stopSearch, answers, answerType>>

\* Undef: back to the conflict shunt, whose next approximation resumes the search.
SlideUndef(w) ==
    /\ At(w, "drill") \/ At(w, "slide")
    /\ Goto(w, <<"check", "incorporate", "check", "drill">>)
    /\ UNCHANGED <<problem, found, excluded, sharing, stopSearch, answers, answerType>>

\* Mutant: the shunt shares its clauses only.
IncorporateUnshared(w) ==
    /\ At(w, "incorporate")
    /\ solutions' = [solutions EXCEPT ![w] = PushSafe(@, server[w])]
    /\ server' = [server EXCEPT ![w] = {}]
    /\ Goto(w, <<"clauses">> \o Tail(todo[w]))
    /\ UNCHANGED <<problem, excluded, sharing, stopSearch, answers, answerType>>

\* The shunt takes the server's solutions (incorporate_approx) and shares them.
Incorporate(w) ==
    /\ At(w, "incorporate")
    /\ solutions' = [solutions EXCEPT ![w] = PushSafe(@, server[w])]
    /\ server' = [server EXCEPT ![w] = {}]
    /\ Goto(w, Exchange \o Tail(todo[w]))
    /\ UNCHANGED <<problem, excluded, sharing, stopSearch, answers, answerType>>

-----------------------------------------------------------------------------
\* firstSolution: where each search starts if there is a solution, and where it
\* goes on if there is none.
Begin == [us   |-> <<"check", "harvest">>,
          pmin |-> <<"check">> \o Exchange \o <<"solve">>,
          hs   |-> <<"round">>,
          sd   |-> <<"check", "drill">>]

GiveUp == [us |-> <<"return">>, pmin |-> <<"conclude">>, hs |-> <<"fail">>, sd |-> <<"fail">>]

\* Only the conflict shunt blocks what the first solution dominates.
FirstSolution(w) ==
    /\ At(w, "first")
    /\ Goto(w, IF feasible = {} THEN GiveUp[mode.kind[w]] ELSE Begin[mode.kind[w]])
    /\ excluded' = [excluded EXCEPT ![w] = IF Is(w, "sd") THEN DominatedBy(first) ELSE @]
    /\ UNCHANGED <<problem, found, sharing, stopSearch, answers, answerType>>

\* After the answer: the conflict shunt shares first, the others stop the search first.
Leave(w) == Goto(w, IF Is(w, "sd") THEN <<"solutions", "request">> ELSE <<"request", "solutions">>)

\* Masters without a first solution.
Fail(w) ==
    /\ At(w, "fail")
    /\ answers' = [answers EXCEPT ![w] = "unsatisfiable"]
    /\ Leave(w)
    /\ UNCHANGED <<problem, found, excluded, sharing, stopSearch, answerType>>

\* Mutant: the first solution is not added to the member's own.
FinalSolutionsWithoutFirst(w) == solutions[w]

\* consolidateSolution; PMinimalMO does not call it.
FinalSolutions(w) ==
    IF Is(w, "pmin") THEN solutions[w] ELSE PushSafe(solutions[w], first)

\* Mutant: the answer is taken before "first" is added.
AnswerBeforeFirst(w) == IF solutions[w] = {} THEN "unsatisfiable" ELSE "optimum"

\* From the solutions, its own and the archive's (hasSharedSolutions).
AnswerOf(w) ==
    IF FinalSolutions(w) = {} /\ ~ (mode.solutions /\ front # {}) THEN "unsatisfiable"
    ELSE IF Is(w, "pmin") THEN answers[w] ELSE "optimum"

Conclude(w) ==
    /\ \/ At(w, "conclude")
       \/ At(w, "return") /\ ~ stopSearch
    /\ solutions' = [solutions EXCEPT ![w] = FinalSolutions(w)]
    /\ answers' = [answers EXCEPT ![w] = AnswerOf(w)]
    /\ Leave(w)
    /\ UNCHANGED <<problem, server, excluded, sharing, stopSearch, answerType>>

\* search_MO sees the flag and returns INTERRUPTED, without sharing what it has.
Interrupted(w) ==
    /\ At(w, "return")
    /\ stopSearch
    /\ answers' = [answers EXCEPT ![w] = "interrupted"]
    /\ Goto(w, <<>>)
    /\ UNCHANGED <<problem, found, excluded, sharing, stopSearch, answerType>>

\* The threads have joined: the last member's answer that is not INTERRUPTED.
Finished == {w \in Worker : answers[w] # "interrupted"}

Answer ==
    /\ answerType = "unknown"
    /\ \A w \in Worker : todo[w] = <<>>
    /\ answerType' = IF Finished = {} THEN "none"
                     ELSE answers[CHOOSE w \in Finished : \A v \in Finished : v <= w]
    /\ UNCHANGED <<problem, todo, found, excluded, sharing, stopSearch, answers>>

Search(w) ==
    \/ FirstSolution(w) \/ Fail(w) \/ Conclude(w) \/ Interrupted(w)
    \/ ShareClauses(w) \/ ShareSolutions(w) \/ Request(w) \/ Check(w)
    \/ HarvestSat(w) \/ HarvestUndef(w) \/ HarvestUnsat(w)
    \/ DescendSat(w) \/ DescendUnsat(w) \/ DescendUndef(w) \/ SolveUnsat(w)
    \/ Round(w) \/ RoundStopped(w)
    \/ SlideSat(w) \/ SlideUnsat(w) \/ SlideUndef(w)
    \/ ShareServerSolutions(w) \/ Incorporate(w)

Next == (\E w \in Worker : Search(w)) \/ Answer

Spec == Init /\ [][Next]_vars

\* Every thread makes progress; the loops in it are the program's.
FairSpec == Spec /\ (\A w \in Worker : WF_vars(Search(w))) /\ WF_vars(Answer)

-----------------------------------------------------------------------------
\* What a member does on the way to the next call of its solver, or to its return.
Steps == {"check", "clauses", "solutions", "serverSolutions", "incorporate"}

\* What comes after that.
Calls == {"first", "harvest", "solve", "descend", "round", "drill", "slide", "return",
          "conclude", "fail"}

TypeOK ==
    /\ mode \in Modes /\ feasible \in Problem /\ first \subseteq feasible
    /\ todo \in [Worker -> Seq(Calls \cup Steps \cup {"request"})]
    /\ solutions \in [Worker -> SUBSET feasible]
    /\ server \in [Worker -> SUBSET feasible]
    /\ excluded \in [Worker -> SUBSET feasible]
    /\ exported \subseteq feasible
    /\ front \subseteq feasible
    /\ unread \in [Worker -> SUBSET feasible]
    /\ stopSearch \in BOOLEAN
    /\ answers \in [Worker -> {"unknown", "interrupted", "unsatisfiable", "optimum"}]
    /\ answerType \in {"unknown", "none", "unsatisfiable", "optimum"}

RightAnswer == IF feasible = {} THEN "unsatisfiable" ELSE "optimum"

(***************************************************************************)
(* The members use the archive as it promises to work: a call pushes an    *)
(* antichain (Solution::pushSafe keeps local fronts free of dominance),    *)
(* and nothing else changes the archive.                                   *)
(***************************************************************************)
ArchiveSpec == Archive!Spec

(***************************************************************************)
(* The answer is the formula's, and what is printed with OPTIMUM is the    *)
(* whole Pareto front (README.md, Output format): the archive if anything  *)
(* is shared (PortfolioMO::printAnswer), else the solutions of every       *)
(* member that finished, each of which prints its own.                     *)
(***************************************************************************)
AnswerIsCorrect ==
    answerType # "unknown" =>
        /\ answerType = RightAnswer
        /\ IF Sharing THEN front = NonDominated(feasible)
           ELSE \A w \in Finished : solutions[w] = NonDominated(feasible)

(***************************************************************************)
(* Several members can finish before they see the flag, and the portfolio  *)
(* keeps the answer of the last one: they never disagree.                  *)
(***************************************************************************)
AnswersAgree ==
    \A w \in Worker : answers[w] \in {"unknown", "interrupted", RightAnswer}

(***************************************************************************)
(* A learnt clause excludes solutions because of what its author found.    *)
(* Whoever imports it relies on the author: what is excluded that way is   *)
(* in the archive, or is still held by a member that is going to share it, *)
(* even one that is told to stop.                                          *)
(***************************************************************************)
WillShare(w) == {p \in solutions[w] : \E i \in DOMAIN todo[w] : todo[w][i] = "solutions"}

ExportsAreArchived ==
    \A p \in exported :
        Covers(front \cup first \cup UNION {WillShare(w) : w \in Worker}, p)

-----------------------------------------------------------------------------
\* The calls of each kind.
Ends == [us   |-> {"first", "harvest", "return"},
         pmin |-> {"first", "solve", "descend", "return", "conclude"},
         hs   |-> {"first", "round", "return", "fail"},
         sd   |-> {"first", "drill", "slide", "return", "fail"}]

\* t leads to label.
LeadsTo(t, label) ==
    Len(t) > 0 /\ t[Len(t)] = label /\ \A i \in 1 .. Len(t) - 1 : t[i] \in Steps

Searching(w, label) == LeadsTo(todo[w], label)

\* The member has an answer, or has been interrupted.
Leaving(w) == todo[w] \in Seq({"request", "solutions"})

\* A member searches or leaves.
PlanInv ==
    \A w \in Worker : Leaving(w) \/ \E label \in Ends[mode.kind[w]] : Searching(w, label)

\* The shunt has yet to take what its server has found.
WillIncorporate(w) == \E i \in DOMAIN todo[w] : todo[w][i] = "incorporate"

\* What the end of a search says about what is left to find.
EndInv ==
    \A w \in Worker :
        /\ Searching(w, "first") =>
              todo[w] = <<"first">> /\ excluded[w] = {} /\ solutions[w] = {} /\ server[w] = {}
        /\ Searching(w, "conclude") \/ Searching(w, "fail") => feasible = {}
        /\ Searching(w, "return") /\ ~ stopSearch =>
              /\ feasible \subseteq excluded[w]
              /\ server[w] = {} \/ WillIncorporate(w)
              /\ Is(w, "pmin") => answers[w] # "unknown"

\* Who has an answer; and that somebody has one if the flag is set.
AnswerInv ==
    /\ \A w \in Worker :
          /\ Leaving(w) => answers[w] # "unknown"
          /\ answers[w] = "interrupted" => todo[w] = <<>> /\ stopSearch
    /\ stopSearch => \E w \in Worker : Leaving(w) /\ answers[w] # "interrupted"

\* The formula's points, and those of the archive and of the members.
FrontInv ==
    /\ feasible # {} => first # {}
    /\ IsAntichain(front)
    /\ \A w \in Worker :
          unread[w] \subseteq front /\ IsAntichain(solutions[w]) /\ IsAntichain(server[w])

\* w shares its solutions before it looks at the flag again, or it is UnsatSatMO
\* between two models.
Unshared(w) ==
    \/ todo[w] = <<"harvest">>
    \/ \E i \in DOMAIN todo[w] :
          todo[w][i] = "solutions" /\ \A j \in 1 .. i - 1 : todo[w][j] # "check"

\* The solutions of a member that may be interrupted are in the archive; those of its
\* server that it has not taken yet need not be.
SharedInv ==
    \A w \in Worker : Sharing /\ ~ Unshared(w) => \A p \in solutions[w] : Covers(front, p)

\* Only conflict shunts have servers.  If clauses are shared, what a server has found is
\* archived before its next clauses are.
ServerInv ==
    \A w \in Worker :
        /\ ~ Is(w, "sd") => server[w] = {}
        /\ mode.clauses /\ ~ At(w, "serverSolutions") => \A p \in server[w] : Covers(front, p)

\* What can be counted on: archived, known from the start, or about to be shared.
Archived == front \cup UNION {WillShare(w) : w \in Worker}

\* What a member excludes rests on what it knows or can count on.
ExcludedInv ==
    /\ mode.clauses =>
          \A w \in Worker : \A p \in excluded[w] :
              Covers(Archived \cup first \cup solutions[w] \cup server[w], p)
    /\ ~ mode.clauses =>
          \A w \in Worker : \A p \in excluded[w] :
              Covers(solutions[w] \cup server[w] \cup (IF Is(w, "sd") THEN first ELSE {}), p)
    /\ ~ mode.clauses => exported = {}

\* PMinimalMO does not add the first solution, on which clauses may rest.
Sound == mode.clauses => \A w \in Worker : ~ Is(w, "pmin")

\* A member that has an answer leaves nothing to be found.
CompleteInv ==
    \A w \in Worker : Leaving(w) /\ answers[w] = "optimum" =>
        \A p \in feasible : Covers(IF Sharing THEN Archived ELSE solutions[w], p)

\* The inductive invariant.
IInv ==
    /\ TypeOK
    /\ PlanInv
    /\ EndInv
    /\ AnswerInv
    /\ FrontInv
    /\ SharedInv
    /\ ServerInv
    /\ ExcludedInv
    /\ ExportsAreArchived
    /\ Sound => AnswersAgree /\ CompleteInv /\ AnswerIsCorrect

(***************************************************************************)
(* When a member asks the others to stop, the portfolio answers: no member *)
(* is in a loop that does not look at the flag, whatever the budget does.  *)
(***************************************************************************)
StopIsObeyed == stopSearch ~> (answerType # "unknown")
=============================================================================
