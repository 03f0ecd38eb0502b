---------------------------- MODULE Portfolio_proofs ----------------------------
(***************************************************************************)
(* Proofs about Portfolio, for any number of members of any kinds: what    *)
(* the shared clauses rest on gets into the archive, the members that      *)
(* finish agree, and the portfolio's answer is the Pareto front.           *)
(***************************************************************************)
EXTENDS Portfolio, Pareto_proofs, SequenceTheorems

-----------------------------------------------------------------------------
\* All that a member can have to do.
Label == Calls \cup Steps \cup {"request"}

(***************************************************************************)
(* What the kinds of members lead to.                                      *)
(***************************************************************************)
LEMMA Kind ==
    ASSUME NEW k \in Kinds
    PROVE  /\ Ends[k] \subseteq Calls
           /\ "first" \in Ends[k] /\ "return" \in Ends[k]
           /\ "harvest" \in Ends[k] <=> k = "us"
           /\ {"solve", "descend", "conclude"} \cap Ends[k] # {} <=> k = "pmin"
           /\ "round" \in Ends[k] <=> k = "hs"
           /\ {"drill", "slide"} \cap Ends[k] # {} <=> k = "sd"
           /\ k = "pmin" => {"solve", "descend", "conclude"} \subseteq Ends[k]
           /\ k = "sd" => {"drill", "slide"} \subseteq Ends[k]
           /\ k \in {"hs", "sd"} <=> "fail" \in Ends[k]
BY DEF Kinds, Ends, Calls

(***************************************************************************)
(* A list that leads somewhere does so after its first step.               *)
(***************************************************************************)
LEMMA TailLeads ==
    ASSUME NEW t \in Seq(Label), NEW label \in Calls, LeadsTo(t, label), Head(t) \in Steps
    PROVE  Tail(t) \in Seq(Label) /\ LeadsTo(Tail(t), label)
<1>1. Len(t) > 0 /\ t[Len(t)] = label /\ \A i \in 1 .. Len(t) - 1 : t[i] \in Steps
  BY DEF LeadsTo
<1>2. Len(t) \in Nat /\ t # <<>>
  BY <1>1
<1>3. Head(t) = t[1]
  BY <1>2
<1>4. Len(t) # 1
  BY <1>1, <1>3 DEF Calls, Steps
<1>5. /\ Tail(t) \in Seq(Label) /\ Len(Tail(t)) = Len(t) - 1
      /\ \A i \in 1 .. Len(Tail(t)) : Tail(t)[i] = t[i + 1]
  BY <1>2, HeadTailProperties
<1>6. Len(Tail(t)) > 0 /\ Tail(t)[Len(Tail(t))] = label
  BY <1>1, <1>2, <1>4, <1>5
<1>7. ASSUME NEW i \in 1 .. Len(Tail(t)) - 1
      PROVE  Tail(t)[i] \in Steps
  BY <1>1, <1>2, <1>5
<1> QED
  BY <1>5, <1>6, <1>7 DEF LeadsTo

(***************************************************************************)
(* What is on a list, but not first, is still on it after its first step,  *)
(* with the same before it.                                                *)
(***************************************************************************)
LEMMA TailKeeps ==
    ASSUME NEW t \in Seq(Label), t # <<>>, NEW i \in DOMAIN t, t[i] # Head(t)
    PROVE  /\ i - 1 \in DOMAIN Tail(t) /\ Tail(t)[i - 1] = t[i]
           /\ \A j \in 1 .. (i - 1) - 1 : j + 1 \in 1 .. i - 1 /\ Tail(t)[j] = t[j + 1]
<1>1. i \in 1 .. Len(t) /\ Len(t) \in Nat /\ Head(t) = t[1]
  OBVIOUS
<1>2. i # 1
  BY <1>1
<1>3. /\ Tail(t) \in Seq(Label) /\ Len(Tail(t)) = Len(t) - 1
      /\ \A k \in 1 .. Len(Tail(t)) : Tail(t)[k] = t[k + 1]
  BY HeadTailProperties
<1>4. DOMAIN Tail(t) = 1 .. Len(Tail(t))
  BY <1>3, LenProperties
<1>5. i - 1 \in 1 .. Len(Tail(t)) /\ (i - 1) + 1 = i
  BY <1>1, <1>2, <1>3
<1>6. ASSUME NEW j \in 1 .. (i - 1) - 1
      PROVE  j + 1 \in 1 .. i - 1 /\ j \in 1 .. Len(Tail(t))
  BY <1>5
<1> QED
  BY <1>3, <1>4, <1>5, <1>6

(***************************************************************************)
(* A list that leads to what its head says has nothing else in it.         *)
(***************************************************************************)
LEMMA HeadEnds ==
    ASSUME NEW t \in Seq(Label), NEW label \in Calls, LeadsTo(t, label), Head(t) \notin Steps
    PROVE  t = <<label>>
<1>1. Len(t) > 0 /\ t[Len(t)] = label /\ \A i \in 1 .. Len(t) - 1 : t[i] \in Steps
  BY DEF LeadsTo
<1>2. Len(t) \in Nat /\ t # <<>>
  BY <1>1
<1>3. Head(t) = t[1]
  BY <1>2
<1>4. Len(t) = 1
  <2>1. SUFFICES ASSUME Len(t) # 1 PROVE FALSE
    OBVIOUS
  <2>2. 1 \in 1 .. Len(t) - 1
    <3>1. \A n \in Nat : n > 0 /\ n # 1 => 1 \in 1 .. n - 1
      OBVIOUS
    <3> QED
      BY <1>1, <1>2, <2>1, <3>1
  <2> QED
    BY <1>1, <1>3, <2>2
<1> QED
  BY <1>1, <1>4

(***************************************************************************)
(* Steps before a list that leads somewhere.                               *)
(***************************************************************************)
LEMMA StepsBefore ==
    ASSUME NEW label \in Calls, NEW s \in Seq(Steps), NEW t \in Seq(Label), LeadsTo(t, label)
    PROVE  s \o t \in Seq(Label) /\ LeadsTo(s \o t, label)
<1>1. s \in Seq(Label)
  <2>1. Steps \subseteq Label
    BY DEF Label
  <2> QED
    BY <2>1, SeqMonotonic
<1>2. /\ s \o t \in Seq(Label) /\ Len(s \o t) = Len(s) + Len(t)
      /\ \A i \in 1 .. Len(s) + Len(t) :
            (s \o t)[i] = IF i <= Len(s) THEN s[i] ELSE t[i - Len(s)]
  BY <1>1, ConcatProperties
<1>3. Len(t) > 0 /\ t[Len(t)] = label /\ \A i \in 1 .. Len(t) - 1 : t[i] \in Steps
  BY DEF LeadsTo
<1>4. Len(s) \in Nat /\ Len(t) \in Nat /\ Len(t) > 0
  BY <1>3
<1>5. Len(s \o t) > 0
  BY <1>2, <1>4
<1>6. (s \o t)[Len(s \o t)] = label
  BY <1>2, <1>3, <1>4
<1>7. ASSUME NEW i \in 1 .. Len(s \o t) - 1
      PROVE  (s \o t)[i] \in Steps
  <2>1. CASE i <= Len(s)
    BY <1>2, <1>4, <2>1, ElementOfSeq
  <2>2. CASE i > Len(s)
    BY <1>2, <1>3, <1>4, <2>2
  <2> QED
    BY <1>4, <2>1, <2>2
<1> QED
  BY <1>2, <1>5, <1>6, <1>7 DEF LeadsTo

(***************************************************************************)
(* The lists that the searches continue with.                              *)
(***************************************************************************)
LEMMA Plans ==
    ASSUME NEW label \in Calls
    PROVE  \A t \in {<<label>>, <<"check", label>>,
                     Exchange \o <<label>>, Exchange \o <<"check", label>>,
                     <<"check">> \o Exchange \o <<label>>,
                     <<"check", "incorporate", label>>,
                     <<"check", "incorporate", "check", label>>,
                     <<"check", "clauses", "serverSolutions", "check", label>>,
                     <<"serverSolutions", "clauses", "check", label>>} :
               t \in Seq(Label) /\ LeadsTo(t, label)
<1>1. <<label>> \in Seq(Label) /\ <<"check", label>> \in Seq(Label)
  BY DEF Label, Steps
<1>2. LeadsTo(<<label>>, label) /\ LeadsTo(<<"check", label>>, label)
  BY DEF LeadsTo, Steps
<1>3. Exchange \in Seq(Steps) /\ <<"check">> \o Exchange \in Seq(Steps)
  <2>1. Exchange \in Seq(Steps) /\ <<"check">> \in Seq(Steps)
    BY DEF Exchange, Steps
  <2> QED
    BY <2>1, ConcatProperties
<1>4. /\ <<"check", "incorporate", label>> \in Seq(Label)
      /\ <<"check", "incorporate", "check", label>> \in Seq(Label)
      /\ <<"check", "clauses", "serverSolutions", "check", label>> \in Seq(Label)
      /\ <<"serverSolutions", "clauses", "check", label>> \in Seq(Label)
  BY DEF Label, Steps
<1>5. /\ LeadsTo(<<"check", "incorporate", label>>, label)
      /\ LeadsTo(<<"check", "incorporate", "check", label>>, label)
      /\ LeadsTo(<<"check", "clauses", "serverSolutions", "check", label>>, label)
      /\ LeadsTo(<<"serverSolutions", "clauses", "check", label>>, label)
  BY DEF LeadsTo, Steps
<1> QED
  BY <1>1, <1>2, <1>3, <1>4, <1>5, StepsBefore

(***************************************************************************)
(* Whose head is what: a member that searches is not leaving, and at a     *)
(* call of its solver it has nothing else to do.                           *)
(***************************************************************************)
LEMMA AtEnd ==
    ASSUME TypeOK, PlanInv, NEW w \in Worker, NEW label \in Calls, At(w, label)
    PROVE  /\ todo[w] = <<label>> /\ Searching(w, label) /\ ~ Leaving(w)
           /\ label \in Ends[mode.kind[w]]
           /\ WillShare(w) = {}
           /\ label # "harvest" => ~ Unshared(w)
<1>1. todo[w] \in Seq(Label) /\ todo[w] # <<>> /\ Head(todo[w]) = label
  BY DEF TypeOK, At, Label
<1>2. ~ Leaving(w)
  BY <1>1, HeadTailProperties DEF Leaving, Label, Calls
<1>3. mode.kind[w] \in Kinds
  BY PortfolioAssumption DEF TypeOK
<1>4. PICK l \in Ends[mode.kind[w]] : Searching(w, l)
  BY <1>2 DEF PlanInv
<1>5. l \in Calls
  BY <1>3, Kind
<1>6. todo[w] = <<l>>
  BY <1>1, <1>4, <1>5, HeadEnds DEF Searching, Calls, Steps
<1>7. l = label
  BY <1>1, <1>6
<1>8. ASSUME NEW i \in DOMAIN todo[w]
      PROVE  todo[w][i] = label
  BY <1>6, <1>7
<1>9. label # "solutions"
  BY DEF Label, Calls
<1> QED
  BY <1>2, <1>4, <1>6, <1>7, <1>8, <1>9 DEF WillShare, Unshared

(***************************************************************************)
(* A member that has a step to do on the way leads to the same end after.  *)
(***************************************************************************)
LEMMA AtStep ==
    ASSUME TypeOK, PlanInv, NEW w \in Worker, NEW step \in Steps \cup {"request"}, At(w, step)
    PROVE  /\ Tail(todo[w]) \in Seq(Label)
           /\ step = "request" => Leaving(w)
           /\ step \notin {"request", "solutions"} => ~ Leaving(w)
           /\ Leaving(w) => Tail(todo[w]) \in Seq({"request", "solutions"})
           /\ ~ Leaving(w) => \E label \in Ends[mode.kind[w]] :
                                  Searching(w, label) /\ LeadsTo(Tail(todo[w]), label)
<1>1. todo[w] \in Seq(Label) /\ todo[w] # <<>> /\ Head(todo[w]) = step
  BY DEF TypeOK, At, Label
<1>2. Tail(todo[w]) \in Seq(Label)
  BY <1>1, HeadTailProperties
<1>3. Leaving(w) => Head(todo[w]) \in {"request", "solutions"}
                    /\ Tail(todo[w]) \in Seq({"request", "solutions"})
  BY <1>1, HeadTailProperties DEF Leaving
<1>4. ASSUME ~ Leaving(w)
      PROVE  /\ step # "request"
             /\ \E label \in Ends[mode.kind[w]] :
                    Searching(w, label) /\ LeadsTo(Tail(todo[w]), label)
  <2>1. mode.kind[w] \in Kinds
    BY PortfolioAssumption DEF TypeOK
  <2>2. PICK l \in Ends[mode.kind[w]] : Searching(w, l)
    BY <1>4 DEF PlanInv
  <2>3. l \in Calls
    BY <2>1, <2>2, Kind
  <2>4. step \in Steps
    <3>1. SUFFICES ASSUME step \notin Steps PROVE FALSE
      OBVIOUS
    <3>2. todo[w] = <<l>>
      BY <1>1, <2>2, <2>3, <3>1, HeadEnds DEF Searching
    <3> QED
      BY <1>1, <2>3, <3>1, <3>2 DEF Calls, Steps
  <2>5. LeadsTo(Tail(todo[w]), l)
    BY <1>1, <2>2, <2>3, <2>4, TailLeads DEF Searching
  <2> QED
    BY <2>2, <2>4, <2>5 DEF Steps
<1> QED
  BY <1>1, <1>2, <1>3, <1>4

-----------------------------------------------------------------------------
(***************************************************************************)
(* The formula's points, and the options.                                  *)
(***************************************************************************)
LEMMA Given ==
    ASSUME TypeOK
    PROVE  /\ feasible \in SUBSET YPoint /\ IsFiniteSet(feasible)
           /\ \A w \in Worker : mode.kind[w] \in Kinds
           /\ mode.clauses \in BOOLEAN /\ mode.solutions \in BOOLEAN /\ mode.stop \in BOOLEAN
           /\ \A S : DominatedBy(S) \in SUBSET feasible
           /\ first \in SUBSET feasible
           /\ \A w \in Worker : WillShare(w) \in SUBSET solutions[w]
           /\ Archived \in SUBSET feasible
BY PortfolioAssumption DEF TypeOK, DominatedBy, WillShare, Archived

(***************************************************************************)
(* What is covered by points that are covered.                             *)
(***************************************************************************)
LEMMA CoversMore ==
    ASSUME NEW S \in SUBSET YPoint, NEW T \in SUBSET YPoint, \A q \in S : Covers(T, q),
           NEW p \in YPoint, Covers(S, p)
    PROVE  Covers(T, p)
<1>1. PICK q \in S : dominates(q, p)
  BY DEF Covers
<1>2. PICK r \in T : dominates(r, q)
  BY <1>1 DEF Covers
<1>3. q \in YPoint /\ r \in YPoint
  OBVIOUS
<1> QED
  BY <1>1, <1>2, <1>3, DominanceOrder DEF Covers

(***************************************************************************)
(* Solution::pushSafe keeps what is best, and that covers the rest.        *)
(***************************************************************************)
LEMMA PushFacts ==
    ASSUME TypeOK, NEW S \in SUBSET feasible, NEW P \in SUBSET feasible
    PROVE  /\ PushSafe(S, P) \in SUBSET (S \cup P)
           /\ IsAntichain(PushSafe(S, P))
           /\ \A p \in feasible : Covers(S \cup P, p) => Covers(PushSafe(S, P), p)
<1>1. S \cup P \in SUBSET YPoint /\ IsFiniteSet(S \cup P)
  BY Given, FS_Subset
<1> QED
  BY <1>1, NonDominatedCovers, Given DEF PushSafe

(***************************************************************************)
(* Calls on the archive.                                                   *)
(***************************************************************************)
LEMMA SyncFacts ==
    ASSUME TypeOK, NEW w \in Worker, NEW S \in SUBSET feasible, Archive!Sync(w, S)
    PROVE  /\ front' \in SUBSET feasible
           /\ unread' \in [Worker -> SUBSET feasible]
           /\ \A p \in feasible : Covers(front \cup S, p) => Covers(front', p)
           /\ IsAntichain(front) /\ IsAntichain(S) => IsAntichain(front')
           /\ (\A v \in Worker : unread[v] \subseteq front)
                 => \A v \in Worker : unread'[v] \subseteq front'
<1>1. /\ front' = (front \ Archive!Beaten(S)) \cup Archive!New(S)
      /\ unread' = [v \in Worker |-> IF v = w THEN {}
                         ELSE (unread[v] \ Archive!Beaten(S)) \cup Archive!New(S)]
  BY DEF Archive!Sync
<1>2. front' = Joined(front, S)
  BY <1>1 DEF Joined, Joining, Dropped, Archive!New, Archive!Beaten, Archive!Covers,
              Archive!dominates, Covers, dominates
<1>3. /\ front \in SUBSET YPoint /\ S \in SUBSET YPoint /\ feasible \in SUBSET YPoint
      /\ front \in SUBSET feasible /\ unread \in [Worker -> SUBSET feasible]
  BY Given DEF TypeOK
<1>4. /\ front' \subseteq front \cup S
      /\ \A p \in YPoint : Covers(front \cup S, p) => Covers(front', p)
      /\ IsAntichain(front) /\ IsAntichain(S) => IsAntichain(front')
  BY <1>2, <1>3, JoinFacts
<1>5. Archive!New(S) \subseteq S
  BY DEF Archive!New
<1>6. front' \in SUBSET feasible /\ unread' \in [Worker -> SUBSET feasible]
  BY <1>1, <1>3, <1>5
<1>7. ASSUME \A v \in Worker : unread[v] \subseteq front, NEW v \in Worker
      PROVE  unread'[v] \subseteq front'
  BY <1>1, <1>7
<1> QED
  BY <1>3, <1>4, <1>6, <1>7

(***************************************************************************)
(* After an exchange that lies ahead, the solutions are shared.            *)
(***************************************************************************)
LEMMA Exchanges ==
    ASSUME NEW u \in Seq(Label)
    PROVE  /\ 2 \in DOMAIN (Exchange \o u)
           /\ (Exchange \o u)[1] = "clauses" /\ (Exchange \o u)[2] = "solutions"
<1>1. Exchange \in Seq(Label) /\ Len(Exchange) = 2
      /\ Exchange[1] = "clauses" /\ Exchange[2] = "solutions"
  BY DEF Exchange, Label, Steps
<1>2. /\ Exchange \o u \in Seq(Label) /\ Len(Exchange \o u) = 2 + Len(u)
      /\ \A i \in 1 .. 2 + Len(u) :
            (Exchange \o u)[i] = IF i <= 2 THEN Exchange[i] ELSE u[i - 2]
  <2>1. /\ Exchange \o u \in Seq(Label) /\ Len(Exchange \o u) = Len(Exchange) + Len(u)
        /\ \A i \in 1 .. Len(Exchange) + Len(u) :
              (Exchange \o u)[i] = IF i <= Len(Exchange) THEN Exchange[i]
                                   ELSE u[i - Len(Exchange)]
    BY <1>1, ConcatProperties
  <2> QED
    BY <1>1, <2>1
<1>3. Len(u) \in Nat
  OBVIOUS
<1>4. 1 \in 1 .. 2 + Len(u) /\ 2 \in 1 .. 2 + Len(u)
  BY <1>3
<1>5. DOMAIN (Exchange \o u) = 1 .. 2 + Len(u)
  BY <1>2, LenProperties
<1> QED
  BY <1>1, <1>2, <1>4, <1>5

-----------------------------------------------------------------------------
\* w has another list, which leads to one of its own calls.
Onward(w, label) ==
    /\ todo' = [todo EXCEPT ![w] = todo'[w]] /\ todo'[w] \in Seq(Label)
    /\ label \in Ends[mode.kind[w]] /\ LeadsTo(todo'[w], label)

\* w goes on with its search: it has found nothing, has shared what it has found or is
\* going to, and does not return unless it is told to or nothing is left.
Moves(w) ==
    /\ UNCHANGED <<problem, solutions, server, excluded, sharing, stopSearch, answerType>>
    /\ ~ Leaving(w) /\ ~ At(w, "first")
    /\ ~ Unshared(w) \/ (WillShare(w) = {} /\ Unshared(w)')
    /\ answers' = answers \/ SolveUnsat(w)
    /\ \E label \in Calls :
          /\ Onward(w, label)
          /\ \/ Searching(w, label) /\ (WillIncorporate(w) => WillIncorporate(w)')
             \/ /\ label \notin {"first", "conclude", "fail"}
                /\ label = "return" =>
                      stopSearch \/ (Open(w) = {} /\ (Is(w, "sd") => WillIncorporate(w)'))
                /\ label = "return" /\ Is(w, "pmin") => stopSearch \/ SolveUnsat(w)

\* w finds points, and is going to share them.
Finds(w) ==
    /\ UNCHANGED <<problem, server, sharing, stopSearch, answers, answerType>>
    /\ ~ Leaving(w) /\ WillShare(w) = {} /\ Unshared(w)'
    /\ \E points \in SUBSET feasible : \E blocked \in SUBSET points :
          /\ points \ blocked \subseteq first
          /\ solutions' = [solutions EXCEPT ![w] = PushSafe(@, points)]
          /\ excluded' = [excluded EXCEPT ![w] = @ \cup DominatedBy(blocked)]
    /\ \E label \in Calls :
          /\ Onward(w, label) /\ label \notin {"first", "conclude", "fail"}
          /\ label = "return" => feasible \subseteq excluded'[w] /\ Is(w, "hs")

\* The server of w finds a point, and is going to push it if it can.
Slides(w) ==
    /\ UNCHANGED <<problem, solutions, sharing, stopSearch, answers, answerType>>
    /\ ~ Leaving(w) /\ WillShare(w) = {} /\ ~ Unshared(w)
    /\ Is(w, "sd") /\ At(w, "serverSolutions")'
    /\ \E p \in feasible :
          /\ server' = [server EXCEPT ![w] = PushSafe(@, {p})]
          /\ excluded' = [excluded EXCEPT ![w] = @ \cup DominatedBy({p})]
    /\ Onward(w, "slide")

(***************************************************************************)
(* A look at the flag.                                                     *)
(***************************************************************************)
LEMMA CheckMoves ==
    ASSUME TypeOK, PlanInv, NEW w \in Worker, Check(w)
    PROVE  Moves(w)
<1>1. /\ At(w, "check") /\ todo \in [Worker -> Seq(Label)] /\ mode.kind[w] \in Kinds
      /\ todo[w] \in Seq(Label) /\ todo[w] # <<>> /\ todo[w][1] = "check"
  BY Given DEF Check, At, TypeOK, Label
<1>2. ~ Leaving(w) /\ ~ At(w, "first")
  <2>1. ~ At(w, "first")
    BY <1>1 DEF At
  <2> QED
    BY <1>1, <2>1, AtStep DEF Steps
<1>3. ~ Unshared(w)
  <2>1. todo[w] # <<"harvest">>
    BY <1>1
  <2>2. ASSUME NEW i \in DOMAIN todo[w], todo[w][i] = "solutions"
        PROVE  1 \in 1 .. i - 1
    <3>1. i \in Nat /\ i >= 1 /\ i # 1
      BY <1>1, <2>2
    <3> QED
      BY <3>1
  <2> QED
    BY <1>1, <2>1, <2>2 DEF Unshared
<1>4. /\ UNCHANGED <<problem, solutions, server, excluded, sharing, stopSearch, answerType>>
      /\ answers' = answers
  BY DEF Check, found
<1>5. CASE stopSearch
  <2>1. todo' = [todo EXCEPT ![w] = <<"return">>]
    BY <1>5 DEF Check, Goto
  <2>2. "return" \in Calls /\ "return" \in Ends[mode.kind[w]]
    BY <1>1, Kind DEF Calls
  <2>3. Onward(w, "return")
    BY <1>1, <2>1, <2>2, Plans DEF Onward
  <2> QED
    BY <1>2, <1>3, <1>4, <1>5, <2>2, <2>3 DEF Moves, Calls
<1>6. CASE ~ stopSearch
  <2>1. todo' = [todo EXCEPT ![w] = Tail(todo[w])]
    BY <1>6 DEF Check, Proceed
  <2>2. PICK label \in Ends[mode.kind[w]] : Searching(w, label) /\ LeadsTo(Tail(todo[w]), label)
    BY <1>1, <1>2, AtStep DEF Steps
  <2>3. Tail(todo[w]) \in Seq(Label)
    BY <1>1, AtStep DEF Steps
  <2>4. label \in Calls
    BY <1>1, <2>2, Kind
  <2>5. Onward(w, label)
    BY <1>1, <2>1, <2>2, <2>3 DEF Onward
  <2>6. ASSUME WillIncorporate(w) PROVE WillIncorporate(w)'
    <3>1. PICK i \in DOMAIN todo[w] : todo[w][i] = "incorporate"
      BY <2>6 DEF WillIncorporate
    <3>2. i - 1 \in DOMAIN Tail(todo[w]) /\ Tail(todo[w])[i - 1] = "incorporate"
      BY <1>1, <3>1, TailKeeps
    <3> QED
      BY <1>1, <2>1, <3>2 DEF WillIncorporate
  <2> QED
    BY <1>2, <1>3, <1>4, <2>2, <2>4, <2>5, <2>6 DEF Moves
<1> QED
  BY <1>5, <1>6

(***************************************************************************)
(* What is ahead of w, with its next list.                                 *)
(***************************************************************************)
LEMMA Ahead ==
    ASSUME TypeOK, NEW w \in Worker, NEW t \in Seq(Label), Goto(w, t)
    PROVE  /\ todo' = [todo EXCEPT ![w] = todo'[w]] /\ todo'[w] = t
           /\ \A u \in Seq(Label) : t = Exchange \o u => Unshared(w)'
           /\ t[1] = "solutions" /\ 1 \in DOMAIN t => Unshared(w)'
<1>1. todo' = [todo EXCEPT ![w] = t] /\ todo \in [Worker -> Seq(Label)]
  BY DEF Goto, TypeOK, Label
<1>2. todo' = [todo EXCEPT ![w] = todo'[w]] /\ todo'[w] = t
  BY <1>1
<1>3. ASSUME NEW u \in Seq(Label), t = Exchange \o u
      PROVE  Unshared(w)'
  <2>1. 2 \in DOMAIN t /\ t[1] = "clauses" /\ t[2] = "solutions"
    BY <1>3, Exchanges
  <2>2. \A j \in 1 .. 2 - 1 : t[j] # "check"
    <3>1. \A j \in 1 .. 2 - 1 : j = 1
      OBVIOUS
    <3> QED
      BY <2>1, <3>1
  <2> QED
    BY <1>2, <2>1, <2>2 DEF Unshared
<1>4. ASSUME t[1] = "solutions", 1 \in DOMAIN t
      PROVE  Unshared(w)'
  <2>1. \A j \in 1 .. 1 - 1 : FALSE
    OBVIOUS
  <2> QED
    BY <1>2, <1>4, <2>1 DEF Unshared
<1> QED
  BY <1>2, <1>3, <1>4

(***************************************************************************)
(* UnsatSatMO: Undef, and UNSAT below a fence.                             *)
(***************************************************************************)
LEMMA HarvestMoves ==
    ASSUME TypeOK, PlanInv, NEW w \in Worker, HarvestUndef(w) \/ HarvestUnsat(w)
    PROVE  Moves(w)
<1>1. /\ UNCHANGED <<problem, solutions, server, excluded, sharing, stopSearch, answerType>>
      /\ answers' = answers /\ At(w, "harvest")
      /\ \/ Goto(w, Exchange \o <<"check", "harvest">>)
         \/ Open(w) = {} /\ Goto(w, Exchange \o <<"return">>)
  BY DEF HarvestUndef, HarvestUnsat, found
<1>2. "harvest" \in Calls /\ "return" \in Calls
  BY DEF Calls
<1>3. /\ ~ Leaving(w) /\ WillShare(w) = {} /\ "harvest" \in Ends[mode.kind[w]]
      /\ mode.kind[w] = "us" /\ ~ At(w, "first")
  BY <1>1, <1>2, AtEnd, Given, Kind DEF At
<1>4. "return" \in Ends[mode.kind[w]]
  BY Given, Kind
<1>5. <<"check", "harvest">> \in Seq(Label) /\ <<"return">> \in Seq(Label)
  BY <1>2, Plans
<1>6. CASE Goto(w, Exchange \o <<"check", "harvest">>)
  <2>1. /\ Exchange \o <<"check", "harvest">> \in Seq(Label)
        /\ LeadsTo(Exchange \o <<"check", "harvest">>, "harvest")
    BY <1>2, Plans
  <2>2. Unshared(w)' /\ Onward(w, "harvest")
    BY <1>3, <1>5, <1>6, <2>1, Ahead DEF Onward
  <2> QED
    BY <1>1, <1>2, <1>3, <2>2 DEF Moves
<1>7. CASE Open(w) = {} /\ Goto(w, Exchange \o <<"return">>)
  <2>1. /\ Exchange \o <<"return">> \in Seq(Label)
        /\ LeadsTo(Exchange \o <<"return">>, "return")
    BY <1>2, Plans
  <2>2. Unshared(w)' /\ Onward(w, "return")
    BY <1>4, <1>5, <1>7, <2>1, Ahead DEF Onward
  <2>3. ~ Is(w, "sd") /\ ~ Is(w, "pmin")
    BY <1>3 DEF Is
  <2> QED
    BY <1>1, <1>2, <1>3, <1>7, <2>2, <2>3 DEF Moves
<1> QED
  BY <1>1, <1>6, <1>7

(***************************************************************************)
(* PMinimalMO: whatever finds nothing.                                     *)
(***************************************************************************)
LEMMA DescendMoves ==
    ASSUME TypeOK, PlanInv, NEW w \in Worker,
           (DescendSat(w) /\ stopSearch) \/ DescendUnsat(w) \/ DescendUndef(w) \/ SolveUnsat(w)
    PROVE  Moves(w)
<1>1. /\ UNCHANGED <<problem, solutions, server, excluded, sharing, stopSearch, answerType>>
      /\ At(w, "solve") \/ At(w, "descend")
      /\ answers' = answers \/ SolveUnsat(w)
      /\ \/ stopSearch /\ Goto(w, <<"return">>)
         \/ Goto(w, Exchange \o <<"solve">>)
         \/ Goto(w, <<"check">> \o Exchange \o <<Head(todo[w])>>)
         \/ SolveUnsat(w) /\ Open(w) = {} /\ Goto(w, <<"return">>)
  BY DEF DescendSat, DescendUnsat, DescendUndef, SolveUnsat, found
<1>2. {"solve", "descend", "return"} \subseteq Calls
  BY DEF Calls
<1>3. /\ ~ Leaving(w) /\ ~ At(w, "first") /\ ~ Unshared(w) /\ mode.kind[w] = "pmin"
      /\ Head(todo[w]) \in {"solve", "descend"}
  BY <1>1, <1>2, AtEnd, Given, Kind DEF At
<1>4. {"solve", "descend", "return"} \subseteq Ends[mode.kind[w]]
  BY <1>3, Given, Kind
<1>5. CASE Goto(w, <<"return">>) /\ (stopSearch \/ (SolveUnsat(w) /\ Open(w) = {}))
  <2>1. <<"return">> \in Seq(Label) /\ LeadsTo(<<"return">>, "return")
    BY <1>2, Plans
  <2>2. Onward(w, "return")
    BY <1>4, <1>5, <2>1, Ahead DEF Onward
  <2>3. ~ Is(w, "sd")
    BY <1>3 DEF Is
  <2> QED
    BY <1>1, <1>2, <1>3, <1>5, <2>2, <2>3 DEF Moves
<1>6. CASE Goto(w, Exchange \o <<"solve">>)
  <2>1. Exchange \o <<"solve">> \in Seq(Label) /\ LeadsTo(Exchange \o <<"solve">>, "solve")
    BY <1>2, Plans
  <2>2. Onward(w, "solve")
    BY <1>4, <1>6, <2>1, Ahead DEF Onward
  <2> QED
    BY <1>1, <1>2, <1>3, <2>2 DEF Moves
<1>7. ASSUME NEW label \in {"solve", "descend"}, Goto(w, <<"check">> \o Exchange \o <<label>>)
      PROVE  Moves(w)
  <2>1. /\ <<"check">> \o Exchange \o <<label>> \in Seq(Label)
        /\ LeadsTo(<<"check">> \o Exchange \o <<label>>, label)
    BY <1>2, Plans
  <2>2. Onward(w, label)
    BY <1>4, <1>7, <2>1, Ahead DEF Onward
  <2> QED
    BY <1>1, <1>2, <1>3, <2>2 DEF Moves
<1>8. CASE Goto(w, <<"check">> \o Exchange \o <<Head(todo[w])>>)
  BY <1>3, <1>7, <1>8
<1> QED
  BY <1>1, <1>5, <1>6, <1>8

(***************************************************************************)
(* HittingSetsMO and slide and drill: whatever finds nothing.              *)
(***************************************************************************)
LEMMA SlideMoves ==
    ASSUME TypeOK, PlanInv, NEW w \in Worker,
           \/ RoundStopped(w) \/ SlideUnsat(w) \/ SlideUndef(w)
           \/ SlideSat(w) /\ At(w, "drill") /\ stopSearch
    PROVE  Moves(w)
<1> DEFINE exchange == <<"check", "clauses", "serverSolutions", "check", "drill">>
           resume == <<"check", "incorporate", "check", "drill">>
           finish == <<"check", "incorporate", "return">>
<1>1. /\ UNCHANGED <<problem, solutions, server, excluded, sharing, stopSearch, answerType>>
      /\ answers' = answers
      /\ \/ (At(w, "round") \/ At(w, "drill")) /\ stopSearch /\ Goto(w, <<"return">>)
         \/ /\ At(w, "drill") \/ At(w, "slide")
            /\ \/ Goto(w, exchange) \/ Goto(w, resume) \/ Goto(w, <<"check", "drill">>)
               \/ Open(w) = {} /\ Goto(w, finish)
  BY DEF RoundStopped, SlideUnsat, SlideUndef, SlideSat, found
<1>2. {"round", "drill", "slide", "return"} \subseteq Calls
  BY DEF Calls
<1>3. ~ Leaving(w) /\ ~ At(w, "first") /\ ~ Unshared(w)
  BY <1>1, <1>2, AtEnd DEF At
<1>4. ~ Is(w, "pmin") /\ "return" \in Ends[mode.kind[w]]
  BY <1>1, <1>2, AtEnd, Given, Kind DEF Is
<1>5. At(w, "drill") \/ At(w, "slide") => "drill" \in Ends[mode.kind[w]]
  BY <1>2, AtEnd, Given, Kind
<1>6. /\ \A t \in {exchange, resume, <<"check", "drill">>} : t \in Seq(Label) /\ LeadsTo(t, "drill")
      /\ \A t \in {<<"return">>, finish} : t \in Seq(Label) /\ LeadsTo(t, "return")
  BY <1>2, Plans
<1>7. 2 \in DOMAIN finish /\ finish[2] = "incorporate"
  OBVIOUS
<1> HIDE DEF exchange, resume, finish
<1>8. ASSUME NEW label \in {"drill", "return"}, label \in Ends[mode.kind[w]],
             NEW t \in Seq(Label), LeadsTo(t, label), Goto(w, t),
             label = "return" => stopSearch \/ (Open(w) = {} /\ t = finish)
      PROVE  Moves(w)
  <2>1. Onward(w, label) /\ todo'[w] = t
    BY <1>8, Ahead DEF Onward
  <2>2. t = finish => WillIncorporate(w)'
    BY <1>7, <2>1 DEF WillIncorporate
  <2> QED
    BY <1>1, <1>2, <1>3, <1>4, <1>8, <2>1, <2>2 DEF Moves
<1>9. CASE stopSearch /\ Goto(w, <<"return">>)
  BY <1>4, <1>6, <1>8, <1>9
<1>10. CASE /\ At(w, "drill") \/ At(w, "slide")
            /\ Goto(w, exchange) \/ Goto(w, resume) \/ Goto(w, <<"check", "drill">>)
  BY <1>5, <1>6, <1>8, <1>10
<1>11. CASE Open(w) = {} /\ Goto(w, finish)
  BY <1>4, <1>6, <1>8, <1>11
<1> QED
  BY <1>1, <1>9, <1>10, <1>11

(***************************************************************************)
(* The calls that find something.                                          *)
(***************************************************************************)
LEMMA CallFinds ==
    ASSUME TypeOK, PlanInv, NEW w \in Worker,
           HarvestSat(w) \/ (DescendSat(w) /\ ~ stopSearch) \/ Round(w)
    PROVE  Finds(w)
<1>1. PICK label \in {"harvest", "solve", "descend", "round"} : At(w, label)
  BY DEF HarvestSat, DescendSat, Round
<1>2. /\ {"harvest", "solve", "descend", "round", "return"} \subseteq Calls
      /\ todo \in [Worker -> Seq(Label)]
  BY DEF Calls, Label, TypeOK
<1>3. ~ Leaving(w) /\ WillShare(w) = {} /\ todo[w] = <<label>> /\ label \in Ends[mode.kind[w]]
      /\ Searching(w, label)
  BY <1>1, <1>2, AtEnd
<1>4. UNCHANGED <<problem, server, sharing, stopSearch, answers, answerType>>
  BY DEF HarvestSat, DescendSat, Round
<1>5. \E points \in SUBSET feasible : \E blocked \in SUBSET points :
          /\ points \ blocked \subseteq first
          /\ solutions' = [solutions EXCEPT ![w] = PushSafe(@, points)]
          /\ excluded' = [excluded EXCEPT ![w] = @ \cup DominatedBy(blocked)]
  <2>1. ASSUME NEW p \in Open(w), Record(w, p)
        PROVE  /\ {p} \in SUBSET feasible /\ {p} \in SUBSET {p} /\ {p} \ {p} \subseteq first
               /\ solutions' = [solutions EXCEPT ![w] = PushSafe(@, {p})]
               /\ excluded' = [excluded EXCEPT ![w] = @ \cup DominatedBy({p})]
    BY <2>1 DEF Record, Open
  <2>2. CASE \E p \in Open(w) : Record(w, p)
    BY <2>1, <2>2
  <2>3. CASE Round(w)
    <3>1. PICK passed \in SUBSET Open(w) :
              /\ solutions' = [solutions EXCEPT ![w] = PushSafe(@, passed \cup first)]
              /\ excluded' = [excluded EXCEPT ![w] = @ \cup DominatedBy(passed)]
      BY <2>3 DEF Round
    <3>2. /\ passed \cup first \in SUBSET feasible /\ passed \in SUBSET (passed \cup first)
          /\ (passed \cup first) \ passed \subseteq first
      BY Given DEF Open
    <3> QED
      BY <3>1, <3>2
  <2> QED
    BY <2>2, <2>3 DEF HarvestSat, DescendSat
<1>6. ASSUME NEW end \in Calls, Onward(w, end), Unshared(w)',
             end \notin {"first", "conclude", "fail"},
             end = "return" => feasible \subseteq excluded'[w] /\ Is(w, "hs")
      PROVE  Finds(w)
  BY <1>3, <1>4, <1>5, <1>6 DEF Finds
<1>7. CASE HarvestSat(w)
  <2>1. todo' = todo /\ label = "harvest"
    BY <1>3, <1>7, <1>2, AtEnd DEF HarvestSat, At
  <2>2. Onward(w, "harvest")
    BY <1>2, <1>3, <2>1 DEF Onward, Searching
  <2>3. Unshared(w)'
    BY <1>3, <2>1 DEF Unshared
  <2> QED
    BY <1>2, <1>6, <2>2, <2>3
<1>8. CASE DescendSat(w) /\ ~ stopSearch
  <2>1. Goto(w, Exchange \o <<"descend">>) /\ label \in {"solve", "descend"}
    BY <1>3, <1>8 DEF DescendSat, At
  <2>2. /\ <<"descend">> \in Seq(Label) /\ Exchange \o <<"descend">> \in Seq(Label)
        /\ LeadsTo(Exchange \o <<"descend">>, "descend")
    BY <1>2, Plans
  <2>3. "descend" \in Ends[mode.kind[w]]
    BY <1>3, <2>1, Given, Kind
  <2>4. Onward(w, "descend") /\ Unshared(w)'
    BY <2>1, <2>2, <2>3, Ahead DEF Onward
  <2> QED
    BY <1>2, <1>6, <2>4
<1>9. CASE Round(w)
  <2>1. label = "round"
    BY <1>3, <1>9 DEF Round, At
  <2>2. mode.kind[w] = "hs" /\ "round" \in Ends[mode.kind[w]] /\ "return" \in Ends[mode.kind[w]]
    BY <1>3, <2>1, Given, Kind
  <2>3. /\ <<"check", "round">> \in Seq(Label) /\ <<"return">> \in Seq(Label)
        /\ Exchange \o <<"check", "round">> \in Seq(Label)
        /\ LeadsTo(Exchange \o <<"check", "round">>, "round")
        /\ Exchange \o <<"return">> \in Seq(Label)
        /\ LeadsTo(Exchange \o <<"return">>, "return")
    BY <1>2, Plans
  <2>4. CASE Goto(w, Exchange \o <<"check", "round">>)
    <3>1. Onward(w, "round") /\ Unshared(w)'
      BY <2>2, <2>3, <2>4, Ahead DEF Onward
    <3> QED
      BY <1>2, <1>6, <3>1
  <2>5. CASE feasible \subseteq excluded'[w] /\ Goto(w, Exchange \o <<"return">>)
    <3>1. Onward(w, "return") /\ Unshared(w)'
      BY <2>2, <2>3, <2>5, Ahead DEF Onward
    <3>2. Is(w, "hs")
      BY <2>2 DEF Is
    <3> QED
      BY <1>2, <1>6, <2>5, <3>1, <3>2
  <2> QED
    BY <1>9, <2>4, <2>5 DEF Round
<1> QED
  BY <1>7, <1>8, <1>9

(***************************************************************************)
(* A model from which a slide starts or goes on.                           *)
(***************************************************************************)
LEMMA SlideFinds ==
    ASSUME TypeOK, PlanInv, NEW w \in Worker, SlideSat(w), ~ (At(w, "drill") /\ stopSearch)
    PROVE  Slides(w)
<1> DEFINE push == <<"serverSolutions", "clauses", "check", "slide">>
<1>1. /\ At(w, "drill") \/ At(w, "slide")
      /\ \E p \in Open(w) : /\ server' = [server EXCEPT ![w] = PushSafe(@, {p})]
                            /\ excluded' = [excluded EXCEPT ![w] = @ \cup DominatedBy({p})]
      /\ Goto(w, push)
      /\ UNCHANGED <<problem, solutions, sharing, stopSearch, answers, answerType>>
  BY DEF SlideSat
<1>2. "drill" \in Calls /\ "slide" \in Calls
  BY DEF Calls
<1>3. ~ Leaving(w) /\ WillShare(w) = {} /\ ~ Unshared(w) /\ mode.kind[w] = "sd"
  BY <1>1, <1>2, AtEnd, Given, Kind
<1>4. Is(w, "sd") /\ "slide" \in Ends[mode.kind[w]]
  BY <1>3, Given, Kind DEF Is
<1>5. push \in Seq(Label) /\ LeadsTo(push, "slide")
  BY <1>2, Plans
<1>6. push # <<>> /\ Head(push) = "serverSolutions"
  OBVIOUS
<1> HIDE DEF push
<1>7. Onward(w, "slide") /\ todo'[w] = push
  BY <1>1, <1>4, <1>5, Ahead DEF Onward
<1>8. At(w, "serverSolutions")'
  BY <1>1, <1>6, <1>7 DEF At
<1> QED
  BY <1>1, <1>3, <1>4, <1>7, <1>8 DEF Slides, Open

(***************************************************************************)
(* What a member can do.                                                   *)
(***************************************************************************)
LEMMA Actions ==
    ASSUME TypeOK, PlanInv, NEW w \in Worker, Search(w)
    PROVE  \/ Moves(w) \/ Finds(w) \/ Slides(w)
           \/ ShareClauses(w) \/ ShareSolutions(w) \/ ShareServerSolutions(w) \/ Incorporate(w)
           \/ Request(w) \/ FirstSolution(w) \/ Fail(w) \/ Conclude(w) \/ Interrupted(w)
BY CheckMoves, HarvestMoves, DescendMoves, SlideMoves, CallFinds, SlideFinds DEF Search

(***************************************************************************)
(* A search begins, or is given up if the formula has no solution.         *)
(***************************************************************************)
LEMMA Starts ==
    ASSUME TypeOK, PlanInv, NEW w \in Worker, FirstSolution(w)
    PROVE  /\ Searching(w, "first") /\ ~ Leaving(w) /\ WillShare(w) = {}
           /\ \E label \in Calls :
                 /\ Onward(w, label) /\ label # "first"
                 /\ label \in {"conclude", "fail", "return"} => feasible = {}
                 /\ label = "return" => ~ Is(w, "pmin")
<1> DEFINE Started == \E label \in Calls :
                        /\ Onward(w, label) /\ label # "first"
                        /\ label \in {"conclude", "fail", "return"} => feasible = {}
                        /\ label = "return" => ~ Is(w, "pmin")
<1>1. {"first", "harvest", "solve", "round", "drill", "return", "conclude", "fail"} \subseteq Calls
  BY DEF Calls
<1>2. At(w, "first") /\ Goto(w, IF feasible = {} THEN GiveUp[mode.kind[w]] ELSE Begin[mode.kind[w]])
  BY DEF FirstSolution
<1>3. Searching(w, "first") /\ ~ Leaving(w) /\ WillShare(w) = {}
  BY <1>1, <1>2, AtEnd
<1>4. mode.kind[w] \in Kinds
  BY Given
<1>5. ASSUME NEW label \in Calls, label \in Ends[mode.kind[w]], label # "first",
             NEW t \in Seq(Label), LeadsTo(t, label), Goto(w, t),
             label \in {"conclude", "fail", "return"} => feasible = {},
             label = "return" => ~ Is(w, "pmin")
      PROVE  Started
  <2>1. Onward(w, label)
    BY <1>5, Ahead DEF Onward
  <2> QED
    BY <1>5, <2>1
<1> HIDE DEF Started
<1>6. ASSUME feasible = {} PROVE Started
  <2>1. CASE Is(w, "us")
    <3>1. Goto(w, <<"return">>) /\ "return" \in Ends[mode.kind[w]]
      BY <1>2, <1>4, <1>6, <2>1, Kind DEF GiveUp, Is
    <3>2. <<"return">> \in Seq(Label) /\ LeadsTo(<<"return">>, "return")
      BY <1>1, Plans
    <3> QED
      BY <1>1, <1>5, <1>6, <2>1, <3>1, <3>2 DEF Is
  <2>2. CASE Is(w, "pmin")
    <3>1. Goto(w, <<"conclude">>) /\ "conclude" \in Ends[mode.kind[w]]
      BY <1>2, <1>4, <1>6, <2>2, Kind DEF GiveUp, Is
    <3>2. <<"conclude">> \in Seq(Label) /\ LeadsTo(<<"conclude">>, "conclude")
      BY <1>1, Plans
    <3> QED
      BY <1>1, <1>5, <1>6, <3>1, <3>2
  <2>3. CASE Is(w, "hs") \/ Is(w, "sd")
    <3>1. Goto(w, <<"fail">>) /\ "fail" \in Ends[mode.kind[w]]
      BY <1>2, <1>4, <1>6, <2>3, Kind DEF GiveUp, Is
    <3>2. <<"fail">> \in Seq(Label) /\ LeadsTo(<<"fail">>, "fail")
      BY <1>1, Plans
    <3> QED
      BY <1>1, <1>5, <1>6, <3>1, <3>2
  <2> QED
    BY <1>4, <2>1, <2>2, <2>3 DEF Kinds, Is
<1>7. ASSUME feasible # {} PROVE Started
  <2>1. CASE Is(w, "us")
    <3>1. Goto(w, <<"check", "harvest">>) /\ "harvest" \in Ends[mode.kind[w]]
      BY <1>2, <1>4, <1>7, <2>1, Kind DEF Begin, Is
    <3>2. <<"check", "harvest">> \in Seq(Label) /\ LeadsTo(<<"check", "harvest">>, "harvest")
      BY <1>1, Plans
    <3> QED
      BY <1>1, <1>5, <1>7, <3>1, <3>2
  <2>2. CASE Is(w, "pmin")
    <3>1. Goto(w, <<"check">> \o Exchange \o <<"solve">>) /\ "solve" \in Ends[mode.kind[w]]
      BY <1>2, <1>4, <1>7, <2>2, Kind DEF Begin, Is
    <3>2. /\ <<"check">> \o Exchange \o <<"solve">> \in Seq(Label)
          /\ LeadsTo(<<"check">> \o Exchange \o <<"solve">>, "solve")
      BY <1>1, Plans
    <3> QED
      BY <1>1, <1>5, <1>7, <3>1, <3>2
  <2>3. CASE Is(w, "hs")
    <3>1. Goto(w, <<"round">>) /\ "round" \in Ends[mode.kind[w]]
      BY <1>2, <1>4, <1>7, <2>3, Kind DEF Begin, Is
    <3>2. <<"round">> \in Seq(Label) /\ LeadsTo(<<"round">>, "round")
      BY <1>1, Plans
    <3> QED
      BY <1>1, <1>5, <1>7, <3>1, <3>2
  <2>4. CASE Is(w, "sd")
    <3>1. Goto(w, <<"check", "drill">>) /\ "drill" \in Ends[mode.kind[w]]
      BY <1>2, <1>4, <1>7, <2>4, Kind DEF Begin, Is
    <3>2. <<"check", "drill">> \in Seq(Label) /\ LeadsTo(<<"check", "drill">>, "drill")
      BY <1>1, Plans
    <3> QED
      BY <1>1, <1>5, <1>7, <3>1, <3>2
  <2> QED
    BY <1>4, <2>1, <2>2, <2>3, <2>4 DEF Kinds, Is
<1> QED
  BY <1>3, <1>6, <1>7 DEF Started

(***************************************************************************)
(* A member that has an answer is going to share its solutions.            *)
(***************************************************************************)
LEMMA Leaves ==
    ASSUME TypeOK, NEW w \in Worker, Leave(w)
    PROVE  /\ todo' = [todo EXCEPT ![w] = todo'[w]]
           /\ todo'[w] \in Seq(Label) /\ todo'[w] \in Seq({"request", "solutions"})
           /\ todo'[w] # <<>>
           /\ \E i \in DOMAIN todo'[w] : todo'[w][i] = "solutions"
           /\ Unshared(w)'
<1>1. PICK t \in {<<"solutions", "request">>, <<"request", "solutions">>} : Goto(w, t)
  BY DEF Leave
<1>2. t \in Seq(Label) /\ t \in Seq({"request", "solutions"}) /\ t # <<>>
  <2>1. \A S : {"request", "solutions"} \subseteq S =>
               /\ <<"solutions", "request">> \in Seq(S) /\ <<"request", "solutions">> \in Seq(S)
    OBVIOUS
  <2>2. {"request", "solutions"} \subseteq Label
    BY DEF Label, Steps
  <2>3. \A s \in {<<"solutions", "request">>, <<"request", "solutions">>} : s # <<>>
    OBVIOUS
  <2> QED
    BY <2>1, <2>2, <2>3
<1>3. todo' = [todo EXCEPT ![w] = todo'[w]] /\ todo'[w] = t
  BY <1>1, <1>2, Ahead
<1>4. \E i \in DOMAIN t : t[i] = "solutions" /\ \A j \in 1 .. i - 1 : t[j] # "check"
  <2>1. CASE t = <<"solutions", "request">>
    <3>1. \A j \in 1 .. 1 - 1 : FALSE
      OBVIOUS
    <3> QED
      BY <2>1, <3>1
  <2>2. CASE t = <<"request", "solutions">>
    <3>1. \A j \in 1 .. 2 - 1 : j = 1
      OBVIOUS
    <3>2. 2 \in DOMAIN t /\ t[1] = "request" /\ t[2] = "solutions"
      BY <2>2
    <3>3. \A j \in 1 .. 2 - 1 : t[j] # "check"
      BY <3>1, <3>2
    <3> QED
      BY <3>2, <3>3
  <2> QED
    BY <2>1, <2>2
<1> QED
  BY <1>2, <1>3, <1>4 DEF Unshared

(***************************************************************************)
(* Whoever searches is not leaving.                                        *)
(***************************************************************************)
LEMMA NotLeaving ==
    ASSUME NEW t \in Seq(Label), NEW label \in Calls, LeadsTo(t, label)
    PROVE  t \notin Seq({"request", "solutions"})
<1>1. Len(t) > 0 /\ t[Len(t)] = label
  BY DEF LeadsTo
<1>2. Len(t) \in 1 .. Len(t)
  <2>1. Len(t) \in Nat
    OBVIOUS
  <2> QED
    BY <1>1, <2>1
<1>3. ASSUME t \in Seq({"request", "solutions"})
      PROVE  label \in {"request", "solutions"}
  BY <1>1, <1>2, <1>3, ElementOfSeq
<1> QED
  BY <1>3 DEF Calls

(***************************************************************************)
(* What is done on the way to the next call.                               *)
(***************************************************************************)
LEMMA Proceeds ==
    ASSUME TypeOK, PlanInv, NEW w \in Worker,
           NEW step \in {"clauses", "solutions", "serverSolutions", "request"},
           At(w, step), Proceed(w)
    PROVE  /\ todo' = [todo EXCEPT ![w] = todo'[w]] /\ todo'[w] \in Seq(Label)
           /\ step = "request" => Leaving(w)
           /\ step \in {"clauses", "serverSolutions"} => ~ Leaving(w)
           /\ Leaving(w) => todo'[w] \in Seq({"request", "solutions"})
           /\ ~ Leaving(w) => \E label \in Calls : Searching(w, label) /\ Onward(w, label)
           /\ step # "solutions" /\ (\E i \in DOMAIN todo[w] : todo[w][i] = "solutions")
                 => \E i \in DOMAIN todo'[w] : todo'[w][i] = "solutions"
           /\ step # "solutions" /\ Unshared(w) => Unshared(w)'
           /\ WillIncorporate(w) => WillIncorporate(w)'
<1>1. /\ todo' = [todo EXCEPT ![w] = Tail(todo[w])] /\ todo \in [Worker -> Seq(Label)]
      /\ todo[w] \in Seq(Label) /\ todo[w] # <<>> /\ Head(todo[w]) = step
  BY DEF Proceed, TypeOK, Label, At
<1>2. todo' = [todo EXCEPT ![w] = todo'[w]] /\ todo'[w] = Tail(todo[w])
  BY <1>1
<1>3. /\ Tail(todo[w]) \in Seq(Label)
      /\ step = "request" => Leaving(w)
      /\ step \in {"clauses", "serverSolutions"} => ~ Leaving(w)
      /\ Leaving(w) => Tail(todo[w]) \in Seq({"request", "solutions"})
      /\ ~ Leaving(w) => \E label \in Ends[mode.kind[w]] :
                             Searching(w, label) /\ LeadsTo(Tail(todo[w]), label)
  BY AtStep DEF Steps
<1>4. ASSUME ~ Leaving(w)
      PROVE  \E label \in Calls : Searching(w, label) /\ Onward(w, label)
  <2>1. PICK label \in Ends[mode.kind[w]] : Searching(w, label) /\ LeadsTo(Tail(todo[w]), label)
    BY <1>3, <1>4
  <2>2. label \in Calls
    BY Given, Kind
  <2> QED
    BY <1>2, <1>3, <2>1, <2>2 DEF Onward
<1>5. ASSUME NEW i \in DOMAIN todo[w], todo[w][i] # step
      PROVE  /\ i - 1 \in DOMAIN todo'[w] /\ todo'[w][i - 1] = todo[w][i]
             /\ \A j \in 1 .. (i - 1) - 1 : j + 1 \in 1 .. i - 1 /\ todo'[w][j] = todo[w][j + 1]
  BY <1>1, <1>2, <1>5, TailKeeps
<1>6. ASSUME step # "solutions", Unshared(w)
      PROVE  Unshared(w)'
  <2>1. todo[w] # <<"harvest">>
    BY <1>1
  <2>2. PICK i \in DOMAIN todo[w] :
            todo[w][i] = "solutions" /\ \A j \in 1 .. i - 1 : todo[w][j] # "check"
    BY <1>6, <2>1 DEF Unshared
  <2> QED
    BY <1>5, <1>6, <2>2 DEF Unshared
<1>7. WillIncorporate(w) => WillIncorporate(w)'
  BY <1>5 DEF WillIncorporate
<1> QED
  BY <1>2, <1>3, <1>4, <1>5, <1>6, <1>7

(***************************************************************************)
(* The shunt goes on to share what it has taken from its server.           *)
(***************************************************************************)
LEMMA Incorporates ==
    ASSUME TypeOK, PlanInv, NEW w \in Worker, Incorporate(w)
    PROVE  /\ todo' = [todo EXCEPT ![w] = todo'[w]] /\ todo'[w] \in Seq(Label)
           /\ ~ Leaving(w) /\ Unshared(w)'
           /\ \E i \in DOMAIN todo'[w] : todo'[w][i] = "solutions"
           /\ \E label \in Calls : Searching(w, label) /\ Onward(w, label)
<1>1. At(w, "incorporate") /\ Goto(w, Exchange \o Tail(todo[w])) /\ "incorporate" \in Steps
  BY DEF Incorporate, Steps
<1>2. ~ Leaving(w) /\ Tail(todo[w]) \in Seq(Label)
  BY <1>1, AtStep
<1>3. PICK label \in Ends[mode.kind[w]] : Searching(w, label) /\ LeadsTo(Tail(todo[w]), label)
  BY <1>1, <1>2, AtStep
<1>4. label \in Calls
  BY Given, Kind
<1>5. Exchange \in Seq(Steps)
  BY DEF Exchange, Steps
<1>6. /\ Exchange \o Tail(todo[w]) \in Seq(Label)
      /\ LeadsTo(Exchange \o Tail(todo[w]), label)
  BY <1>2, <1>3, <1>4, <1>5, StepsBefore
<1>7. /\ todo' = [todo EXCEPT ![w] = todo'[w]] /\ todo'[w] = Exchange \o Tail(todo[w])
      /\ Unshared(w)'
  BY <1>1, <1>2, <1>6, Ahead
<1>8. \E i \in DOMAIN todo'[w] : todo'[w][i] = "solutions"
  BY <1>2, <1>7, Exchanges
<1> QED
  BY <1>2, <1>3, <1>4, <1>6, <1>7, <1>8 DEF Onward

(***************************************************************************)
(* A member acts only if it has something to do, and before the portfolio  *)
(* has an answer.                                                          *)
(***************************************************************************)
LEMMA Active ==
    ASSUME TypeOK, NEW w \in Worker, Search(w)
    PROVE  answerType = "unknown" /\ todo[w] # <<>>
<1>1. \A label : At(w, label) => answerType = "unknown" /\ todo[w] # <<>>
  BY DEF At
<1> QED
  BY <1>1 DEF Search, FirstSolution, Fail, Conclude, Interrupted, ShareClauses, ShareSolutions,
              Request, Check, HarvestSat, HarvestUndef, HarvestUnsat, DescendSat, DescendUnsat,
              DescendUndef, SolveUnsat, Round, RoundStopped, SlideSat, SlideUnsat, SlideUndef,
              ShareServerSolutions, Incorporate

(***************************************************************************)
(* What a member does to its own state, and what it leaves alone.          *)
(***************************************************************************)
LEMMA Own ==
    ASSUME TypeOK, PlanInv, NEW w \in Worker, Search(w)
    PROVE  /\ UNCHANGED <<problem, answerType>>
           /\ todo' = [todo EXCEPT ![w] = todo'[w]] /\ todo'[w] \in Seq(Label)
           /\ solutions' = [solutions EXCEPT ![w] = solutions'[w]]
           /\ solutions'[w] \in SUBSET feasible
           /\ \A p \in feasible : Covers(solutions[w], p) => Covers(solutions'[w], p)
           /\ excluded' = [excluded EXCEPT ![w] = excluded'[w]]
           /\ answers' = [answers EXCEPT ![w] = answers'[w]]
           /\ answers'[w] \in {"unknown", "interrupted", "unsatisfiable", "optimum"}
           /\ stopSearch' \in BOOLEAN /\ (stopSearch => stopSearch')
<1> DEFINE Answers == {"unknown", "interrupted", "unsatisfiable", "optimum"}
<1> DEFINE Controls ==
      /\ UNCHANGED <<problem, answerType>>
      /\ todo' = [todo EXCEPT ![w] = todo'[w]] /\ todo'[w] \in Seq(Label)
      /\ excluded' = [excluded EXCEPT ![w] = excluded'[w]]
      /\ answers' = [answers EXCEPT ![w] = answers'[w]] /\ answers'[w] \in Answers
      /\ stopSearch' \in BOOLEAN /\ (stopSearch => stopSearch')
<1> DEFINE Grows ==
      /\ solutions' = [solutions EXCEPT ![w] = solutions'[w]]
      /\ solutions'[w] \in SUBSET feasible
      /\ \A p \in feasible : Covers(solutions[w], p) => Covers(solutions'[w], p)
<1>0. /\ todo \in [Worker -> Seq(Label)] /\ solutions \in [Worker -> SUBSET feasible]
      /\ excluded \in [Worker -> SUBSET feasible] /\ answers \in [Worker -> Answers]
      /\ stopSearch \in BOOLEAN /\ unread \in [Worker -> SUBSET feasible]
      /\ server \in [Worker -> SUBSET feasible]
      /\ first \in SUBSET feasible /\ mode.stop \in BOOLEAN
  BY Given DEF TypeOK, Label
<1>1. ASSUME solutions' = solutions PROVE Grows
  BY <1>0, <1>1
<1>2. ASSUME NEW P \in SUBSET feasible, solutions' = [solutions EXCEPT ![w] = PushSafe(@, P)]
      PROVE  Grows
  <2>1. solutions'[w] = PushSafe(solutions[w], P) /\ solutions[w] \in SUBSET feasible
    BY <1>0, <1>2
  <2>2. /\ PushSafe(solutions[w], P) \in SUBSET (solutions[w] \cup P)
        /\ \A p \in feasible :
              Covers(solutions[w] \cup P, p) => Covers(PushSafe(solutions[w], P), p)
    BY <2>1, PushFacts
  <2>3. \A p \in feasible : Covers(solutions[w], p) => Covers(solutions[w] \cup P, p)
    BY DEF Covers
  <2> QED
    BY <1>0, <1>2, <2>1, <2>2, <2>3
<1> HIDE DEF Grows
<1>3. CASE Moves(w)
  <2>1. answers' = [answers EXCEPT ![w] = answers'[w]] /\ answers'[w] \in Answers
    BY <1>0, <1>3 DEF Moves, SolveUnsat
  <2>2. Grows
    BY <1>1, <1>3 DEF Moves
  <2>3. Controls
    BY <1>0, <1>3, <2>1 DEF Moves, Onward
  <2> QED
    BY <2>2, <2>3 DEF Grows
<1>4. CASE Finds(w)
  <2>1. Grows
    BY <1>2, <1>4 DEF Finds
  <2>2. excluded' = [excluded EXCEPT ![w] = excluded'[w]]
    BY <1>0, <1>4 DEF Finds
  <2>3. Controls
    BY <1>0, <1>4, <2>2 DEF Finds, Onward
  <2> QED
    BY <2>1, <2>3 DEF Grows
<1>5. CASE ShareClauses(w)
  <2>1. todo' = [todo EXCEPT ![w] = todo'[w]] /\ todo'[w] \in Seq(Label)
    BY <1>5, Proceeds DEF ShareClauses
  <2>2. Grows
    BY <1>1, <1>5 DEF ShareClauses, found
  <2>3. excluded' = [excluded EXCEPT ![w] = excluded'[w]]
    BY <1>0, <1>5 DEF ShareClauses
  <2>4. Controls
    BY <1>0, <1>5, <2>1, <2>3 DEF ShareClauses
  <2> QED
    BY <2>2, <2>4 DEF Grows
<1>6. CASE ShareSolutions(w)
  <2>1. todo' = [todo EXCEPT ![w] = todo'[w]] /\ todo'[w] \in Seq(Label)
    BY <1>6, Proceeds DEF ShareSolutions
  <2>2. Grows
    <3>1. PICK P \in {{}, unread[w]} : solutions' = [solutions EXCEPT ![w] = PushSafe(@, P)]
      BY <1>6 DEF ShareSolutions
    <3> QED
      BY <1>0, <1>2, <3>1
  <2>3. excluded' = [excluded EXCEPT ![w] = excluded'[w]]
    BY <1>0, <1>6 DEF ShareSolutions
  <2>4. Controls
    BY <1>0, <1>6, <2>1, <2>3 DEF ShareSolutions
  <2> QED
    BY <2>2, <2>4 DEF Grows
<1>7. CASE Request(w)
  <2>1. todo' = [todo EXCEPT ![w] = todo'[w]] /\ todo'[w] \in Seq(Label)
    BY <1>7, Proceeds DEF Request
  <2>2. Grows
    BY <1>1, <1>7 DEF Request, found
  <2>3. Controls
    BY <1>0, <1>7, <2>1 DEF Request
  <2> QED
    BY <2>2, <2>3 DEF Grows
<1>8. CASE FirstSolution(w)
  <2>1. todo' = [todo EXCEPT ![w] = todo'[w]] /\ todo'[w] \in Seq(Label)
    BY <1>8, Starts DEF Onward
  <2>2. Grows
    BY <1>1, <1>8 DEF FirstSolution, found
  <2>3. excluded' = [excluded EXCEPT ![w] = excluded'[w]]
    BY <1>0, <1>8 DEF FirstSolution
  <2>4. Controls
    BY <1>0, <1>8, <2>1, <2>3 DEF FirstSolution
  <2> QED
    BY <2>2, <2>4 DEF Grows
<1>9. CASE Fail(w)
  <2>1. todo' = [todo EXCEPT ![w] = todo'[w]] /\ todo'[w] \in Seq(Label)
    BY <1>9, Leaves DEF Fail
  <2>2. Grows
    BY <1>1, <1>9 DEF Fail, found
  <2>3. Controls
    BY <1>0, <1>9, <2>1 DEF Fail
  <2> QED
    BY <2>2, <2>3 DEF Grows
<1>10. CASE Conclude(w)
  <2>1. todo' = [todo EXCEPT ![w] = todo'[w]] /\ todo'[w] \in Seq(Label)
    BY <1>10, Leaves DEF Conclude
  <2>2. Grows
    <3>1. CASE Is(w, "pmin")
      <4>1. solutions' = solutions
        BY <1>0, <1>10, <3>1 DEF Conclude, FinalSolutions
      <4> QED
        BY <1>1, <4>1
    <3>2. CASE ~ Is(w, "pmin")
      <4>1. solutions' = [solutions EXCEPT ![w] = PushSafe(@, first)]
        BY <1>0, <1>10, <3>2 DEF Conclude, FinalSolutions
      <4> QED
        BY <1>0, <1>2, <4>1
    <3> QED
      BY <3>1, <3>2
  <2>3. AnswerOf(w) \in Answers
    BY <1>0 DEF AnswerOf
  <2>4. Controls
    BY <1>0, <1>10, <2>1, <2>3 DEF Conclude
  <2> QED
    BY <2>2, <2>4 DEF Grows
<1>11. CASE Interrupted(w)
  <2>1. todo' = [todo EXCEPT ![w] = todo'[w]] /\ todo'[w] \in Seq(Label)
    BY <1>0, <1>11 DEF Interrupted, Goto
  <2>2. Grows
    BY <1>1, <1>11 DEF Interrupted, found
  <2>3. Controls
    BY <1>0, <1>11, <2>1 DEF Interrupted
  <2> QED
    BY <2>2, <2>3 DEF Grows
<1>12. CASE Slides(w)
  <2>1. Grows
    BY <1>1, <1>12 DEF Slides
  <2>2. excluded' = [excluded EXCEPT ![w] = excluded'[w]]
    BY <1>0, <1>12 DEF Slides
  <2>3. Controls
    BY <1>0, <1>12, <2>2 DEF Slides, Onward
  <2> QED
    BY <2>1, <2>3 DEF Grows
<1>13. CASE ShareServerSolutions(w)
  <2>1. todo' = [todo EXCEPT ![w] = todo'[w]] /\ todo'[w] \in Seq(Label)
    BY <1>13, Proceeds DEF ShareServerSolutions
  <2>2. Grows
    BY <1>1, <1>13 DEF ShareServerSolutions, found
  <2>3. Controls
    BY <1>0, <1>13, <2>1 DEF ShareServerSolutions
  <2> QED
    BY <2>2, <2>3 DEF Grows
<1>14. CASE Incorporate(w)
  <2>1. todo' = [todo EXCEPT ![w] = todo'[w]] /\ todo'[w] \in Seq(Label)
    BY <1>14, Incorporates
  <2>2. /\ solutions' = [solutions EXCEPT ![w] = PushSafe(@, server[w])]
        /\ server[w] \in SUBSET feasible
    BY <1>0, <1>14 DEF Incorporate
  <2>3. Grows
    BY <1>2, <2>2
  <2>4. Controls
    BY <1>0, <1>14, <2>1 DEF Incorporate
  <2> QED
    BY <2>3, <2>4 DEF Grows
<1> QED
  BY <1>3, <1>4, <1>5, <1>6, <1>7, <1>8, <1>9, <1>10, <1>11, <1>12, <1>13, <1>14, Actions

(***************************************************************************)
(* What a member does to its server: it finds points with it, and takes    *)
(* them over; nothing gets lost in between.                                *)
(***************************************************************************)
LEMMA OwnServer ==
    ASSUME TypeOK, PlanInv, NEW w \in Worker, Search(w)
    PROVE  /\ server' = server \/ Slides(w) \/ Incorporate(w)
           /\ server' = [server EXCEPT ![w] = server'[w]]
           /\ server'[w] \in SUBSET feasible
           /\ Incorporate(w) => server'[w] = {}
           /\ \A p \in feasible :
                 Covers(solutions[w] \cup server[w], p) => Covers(solutions'[w] \cup server'[w], p)
           /\ IsAntichain(server[w]) => IsAntichain(server'[w])
<1>1. /\ server \in [Worker -> SUBSET feasible] /\ solutions \in [Worker -> SUBSET feasible]
      /\ server[w] \in SUBSET feasible /\ solutions[w] \in SUBSET feasible
      /\ feasible \in SUBSET YPoint
  BY Given DEF TypeOK
<1>2. \A p \in feasible : Covers(solutions[w], p) => Covers(solutions'[w], p)
  BY Own
<1>3. ASSUME \A p \in feasible : Covers(server[w], p) => Covers(server'[w], p), NEW p \in feasible,
             Covers(solutions[w] \cup server[w], p)
      PROVE  Covers(solutions'[w] \cup server'[w], p)
  BY <1>2, <1>3 DEF Covers
<1>4. CASE server' = server
  <2>1. ~ Incorporate(w) \/ server'[w] = {}
    BY <1>1 DEF Incorporate
  <2> QED
    BY <1>1, <1>3, <1>4, <2>1
<1>5. CASE Slides(w)
  <2>1. PICK p \in feasible : server' = [server EXCEPT ![w] = PushSafe(@, {p})]
    BY <1>5 DEF Slides
  <2>2. server'[w] = PushSafe(server[w], {p}) /\ {p} \in SUBSET feasible
    BY <1>1, <2>1
  <2>3. /\ PushSafe(server[w], {p}) \in SUBSET (server[w] \cup {p})
        /\ IsAntichain(PushSafe(server[w], {p}))
        /\ \A q \in feasible : Covers(server[w] \cup {p}, q) => Covers(PushSafe(server[w], {p}), q)
    BY <1>1, <2>2, PushFacts
  <2>4. \A q \in feasible : Covers(server[w], q) => Covers(server'[w], q)
    BY <2>2, <2>3 DEF Covers
  <2>5. ~ Incorporate(w) \/ server'[w] = {}
    BY <1>1 DEF Incorporate
  <2> QED
    BY <1>1, <1>3, <1>5, <2>1, <2>2, <2>3, <2>4, <2>5
<1>6. CASE Incorporate(w)
  <2>1. solutions'[w] = PushSafe(solutions[w], server[w]) /\ server'[w] = {}
        /\ server' = [server EXCEPT ![w] = {}]
    BY <1>1, <1>6 DEF Incorporate
  <2>2. \A p \in feasible : Covers(solutions[w] \cup server[w], p)
                              => Covers(PushSafe(solutions[w], server[w]), p)
    BY <1>1, PushFacts
  <2>3. IsAntichain(server'[w])
    BY <2>1 DEF IsAntichain
  <2>4. \A p \in feasible : Covers(solutions[w] \cup server[w], p)
                              => Covers(solutions'[w] \cup server'[w], p)
    BY <2>1, <2>2
  <2> QED
    BY <1>6, <2>1, <2>3, <2>4
<1>7. server' = server \/ Slides(w) \/ Incorporate(w)
  BY Actions DEF Moves, Finds, ShareClauses, ShareSolutions, ShareServerSolutions, Request,
                 FirstSolution, Fail, Conclude, Interrupted, found
<1> QED
  BY <1>4, <1>5, <1>6, <1>7

(***************************************************************************)
(* What a member does to what is shared.                                   *)
(***************************************************************************)
LEMMA Common ==
    ASSUME TypeOK, PlanInv, NEW w \in Worker, Search(w)
    PROVE  /\ exported' \in SUBSET feasible /\ excluded'[w] \in SUBSET feasible
           /\ front' \in SUBSET feasible /\ unread' \in [Worker -> SUBSET feasible]
           /\ \A p \in feasible : Covers(front, p) => Covers(front', p)
           /\ FrontInv => FrontInv'
           /\ front' = front \/ (ShareSolutions(w) /\ Sharing)
                 \/ (ShareServerSolutions(w) /\ mode.clauses)
<1> DEFINE Kept ==
      /\ exported' \in SUBSET feasible /\ excluded'[w] \in SUBSET feasible
<1> DEFINE Archives ==
      /\ front' \in SUBSET feasible /\ unread' \in [Worker -> SUBSET feasible]
      /\ \A p \in feasible : Covers(front, p) => Covers(front', p)
      /\ IsAntichain(solutions[w]) /\ IsAntichain(server[w]) /\ IsAntichain(front)
            => IsAntichain(front')
      /\ (\A v \in Worker : unread[v] \subseteq front)
            => \A v \in Worker : unread'[v] \subseteq front'
<1> DEFINE Tidy == IsAntichain(solutions[w]) => IsAntichain(solutions'[w])
<1>0. /\ solutions \in [Worker -> SUBSET feasible] /\ front \in SUBSET feasible
      /\ excluded \in [Worker -> SUBSET feasible] /\ exported \in SUBSET feasible
      /\ unread \in [Worker -> SUBSET feasible] /\ first \in SUBSET feasible
      /\ \A S : DominatedBy(S) \in SUBSET feasible /\ server \in [Worker -> SUBSET feasible]
  BY Given DEF TypeOK
<1>1. Kept
  <2>1. CASE Moves(w) \/ Request(w) \/ Fail(w) \/ Conclude(w) \/ Interrupted(w)
    BY <1>0, <2>1 DEF Moves, Request, Fail, Conclude, Interrupted, sharing
  <2>2. CASE Finds(w)
    BY <1>0, <2>2 DEF Finds, sharing
  <2>3. CASE ShareClauses(w)
    BY <1>0, <2>3 DEF ShareClauses
  <2>4. CASE ShareSolutions(w)
    BY <1>0, <2>4 DEF ShareSolutions
  <2>5. CASE FirstSolution(w)
    BY <1>0, <2>5 DEF FirstSolution, sharing
  <2>6. CASE Slides(w)
    BY <1>0, <2>6 DEF Slides, sharing
  <2>7. CASE ShareServerSolutions(w) \/ Incorporate(w)
    BY <1>0, <2>7 DEF ShareServerSolutions, Incorporate, sharing
  <2> QED
    BY <2>1, <2>2, <2>3, <2>4, <2>5, <2>6, <2>7, Actions
<1>2. Archives
  <2>1. ASSUME front' = front, unread' = unread PROVE Archives
    BY <1>0, <2>1
  <2>2. ASSUME NEW S \in {solutions[w], server[w]}, Archive!Sync(w, S) PROVE Archives
    <3>1. S \in SUBSET feasible
      BY <1>0
    <3>2. /\ front' \in SUBSET feasible /\ unread' \in [Worker -> SUBSET feasible]
          /\ \A p \in feasible : Covers(front \cup S, p) => Covers(front', p)
          /\ IsAntichain(front) /\ IsAntichain(S) => IsAntichain(front')
          /\ (\A v \in Worker : unread[v] \subseteq front)
                => \A v \in Worker : unread'[v] \subseteq front'
      BY <2>2, <3>1, SyncFacts
    <3>3. \A p \in feasible : Covers(front, p) => Covers(front \cup S, p)
      BY DEF Covers
    <3> QED
      BY <3>2, <3>3
  <2> HIDE DEF Archives
  <2>3. CASE ShareSolutions(w)
    BY <2>1, <2>2, <2>3 DEF ShareSolutions
  <2>4. CASE ShareServerSolutions(w)
    BY <2>1, <2>2, <2>4 DEF ShareServerSolutions
  <2>5. CASE ~ ShareSolutions(w) /\ ~ ShareServerSolutions(w)
    <3>1. front' = front /\ unread' = unread
      BY <2>5, Actions DEF Moves, Finds, Slides, ShareClauses, Incorporate, Request,
                           FirstSolution, Fail, Conclude, Interrupted, sharing
    <3> QED
      BY <2>1, <3>1
  <2> QED
    BY <2>3, <2>4, <2>5
<1>3. Tidy
  <2>1. ASSUME solutions' = solutions PROVE Tidy
    BY <2>1
  <2>2. ASSUME NEW P \in SUBSET feasible, solutions' = [solutions EXCEPT ![w] = PushSafe(@, P)]
        PROVE  Tidy
    <3>1. solutions'[w] = PushSafe(solutions[w], P) /\ solutions[w] \in SUBSET feasible
      BY <1>0, <2>2
    <3> QED
      BY <3>1, PushFacts
  <2> HIDE DEF Tidy
  <2>3. CASE Finds(w)
    BY <2>2, <2>3 DEF Finds
  <2>4. CASE ShareSolutions(w)
    <3>1. PICK P \in {{}, unread[w]} : solutions' = [solutions EXCEPT ![w] = PushSafe(@, P)]
      BY <2>4 DEF ShareSolutions
    <3> QED
      BY <1>0, <2>2, <3>1
  <2>5. CASE Conclude(w)
    <3>1. CASE Is(w, "pmin")
      BY <1>0, <2>1, <2>5, <3>1 DEF Conclude, FinalSolutions
    <3>2. CASE ~ Is(w, "pmin")
      <4>1. solutions' = [solutions EXCEPT ![w] = PushSafe(@, first)]
        BY <1>0, <2>5, <3>2 DEF Conclude, FinalSolutions
      <4> QED
        BY <1>0, <2>2, <4>1
    <3> QED
      BY <3>1, <3>2
  <2>6. CASE Incorporate(w)
    <3>1. /\ solutions' = [solutions EXCEPT ![w] = PushSafe(@, server[w])]
          /\ server[w] \in SUBSET feasible
      BY <1>0, <2>6 DEF Incorporate
    <3> QED
      BY <2>2, <3>1
  <2>7. CASE ~ (Finds(w) \/ ShareSolutions(w) \/ Conclude(w) \/ Incorporate(w))
    <3>1. solutions' = solutions
      BY <2>7, Actions DEF Moves, Slides, ShareClauses, ShareServerSolutions, Request,
                           FirstSolution, Fail, Interrupted, found
    <3> QED
      BY <2>1, <3>1
  <2> QED
    BY <2>3, <2>4, <2>5, <2>6, <2>7
<1>4. ASSUME FrontInv PROVE FrontInv'
  <2>1. /\ UNCHANGED <<feasible, first>>
        /\ solutions' = [solutions EXCEPT ![w] = solutions'[w]]
    BY Own DEF problem
  <2>2. ASSUME NEW v \in Worker PROVE IsAntichain(solutions'[v]) /\ IsAntichain(server'[v])
    <3>1. server' = [server EXCEPT ![w] = server'[w]]
          /\ (IsAntichain(server[w]) => IsAntichain(server'[w]))
      BY OwnServer
    <3>2. IsAntichain(solutions'[v])
      BY <1>0, <1>3, <1>4, <2>1 DEF FrontInv
    <3>3. IsAntichain(server'[v])
      BY <1>0, <1>4, <3>1 DEF FrontInv
    <3> QED
      BY <3>2, <3>3
  <2>3. IsAntichain(front') /\ \A v \in Worker : unread'[v] \subseteq front'
    BY <1>2, <1>4 DEF FrontInv
  <2>4. IsAntichain(front)'
        /\ \A v \in Worker : IsAntichain(solutions[v])' /\ IsAntichain(server[v])'
    BY <2>2, <2>3 DEF IsAntichain
  <2> QED
    BY <1>4, <2>1, <2>3, <2>4 DEF FrontInv
<1>5. front' = front \/ (ShareSolutions(w) /\ Sharing) \/ (ShareServerSolutions(w) /\ mode.clauses)
  BY Actions DEF Moves, Finds, Slides, ShareClauses, ShareSolutions, ShareServerSolutions,
                 Incorporate, Request, FirstSolution, Fail, Conclude, Interrupted, sharing
<1> QED
  BY <1>1, <1>2, <1>4, <1>5

(***************************************************************************)
(* How a member goes on: it searches until it has an answer.               *)
(***************************************************************************)
LEMMA Goes ==
    ASSUME TypeOK, PlanInv, NEW w \in Worker, Search(w)
    PROVE  \/ /\ Leaving(w) /\ (ShareSolutions(w) \/ Request(w))
              /\ todo'[w] \in Seq({"request", "solutions"})
           \/ /\ ~ Leaving(w) /\ (Fail(w) \/ Conclude(w) \/ Interrupted(w))
              /\ todo'[w] \in Seq({"request", "solutions"})
           \/ ~ Leaving(w) /\ \E label \in Calls : Onward(w, label)
<1>1. CASE Moves(w) \/ Finds(w)
  BY <1>1, Actions DEF Moves, Finds
<1>2. CASE ShareClauses(w)
  BY <1>2, Proceeds DEF ShareClauses
<1>3. CASE ShareSolutions(w)
  BY <1>3, Proceeds DEF ShareSolutions
<1>4. CASE Request(w)
  BY <1>4, Proceeds DEF Request
<1>5. CASE FirstSolution(w)
  BY <1>5, Starts
<1>6. CASE Fail(w) \/ Conclude(w) \/ Interrupted(w)
  <2>1. ~ Leaving(w)
    <3>1. PICK label \in {"fail", "conclude", "return"} : At(w, label)
      BY <1>6 DEF Fail, Conclude, Interrupted
    <3>2. label \in Calls
      BY DEF Calls
    <3> QED
      BY <3>1, <3>2, AtEnd
  <2>2. ASSUME Interrupted(w) PROVE todo'[w] \in Seq({"request", "solutions"})
    <3>1. todo'[w] = <<>>
      BY <2>2 DEF Interrupted, Goto, TypeOK
    <3> QED
      BY <3>1
  <2> QED
    BY <1>6, <2>1, <2>2, Leaves DEF Fail, Conclude
<1>7. CASE Slides(w)
  <2>1. "slide" \in Calls
    BY DEF Calls
  <2> QED
    BY <1>7, <2>1 DEF Slides
<1>8. CASE ShareServerSolutions(w)
  BY <1>8, Proceeds DEF ShareServerSolutions
<1>9. CASE Incorporate(w)
  BY <1>9, Incorporates
<1> QED
  BY <1>1, <1>2, <1>3, <1>4, <1>5, <1>6, <1>7, <1>8, <1>9, Actions

-----------------------------------------------------------------------------
(***************************************************************************)
(* Types and plans: a member searches or leaves.                           *)
(***************************************************************************)
LEMMA PlanStep ==
    ASSUME TypeOK, PlanInv, NEW w \in Worker, Search(w)
    PROVE  TypeOK' /\ PlanInv'
<1>1. /\ UNCHANGED <<mode, feasible, first, answerType>>
      /\ todo' = [todo EXCEPT ![w] = todo'[w]] /\ todo'[w] \in Seq(Label)
      /\ solutions' = [solutions EXCEPT ![w] = solutions'[w]]
      /\ solutions'[w] \in SUBSET feasible
      /\ excluded' = [excluded EXCEPT ![w] = excluded'[w]]
      /\ answers' = [answers EXCEPT ![w] = answers'[w]]
      /\ answers'[w] \in {"unknown", "interrupted", "unsatisfiable", "optimum"}
      /\ stopSearch' \in BOOLEAN
  BY Own DEF problem
<1>2. /\ exported' \in SUBSET feasible /\ excluded'[w] \in SUBSET feasible
      /\ front' \in SUBSET feasible /\ unread' \in [Worker -> SUBSET feasible]
  BY Common
<1>3. TypeOK'
  <2>0. server' \in [Worker -> SUBSET feasible]
    BY OwnServer DEF TypeOK
  <2>1. todo' \in [Worker -> Seq(Calls \cup Steps \cup {"request"})]
    BY <1>1 DEF TypeOK, Label
  <2>2. solutions' \in [Worker -> SUBSET feasible] /\ excluded' \in [Worker -> SUBSET feasible]
    BY <1>1, <1>2 DEF TypeOK
  <2>3. answers' \in [Worker -> {"unknown", "interrupted", "unsatisfiable", "optimum"}]
    BY <1>1 DEF TypeOK
  <2> QED
    BY <1>1, <1>2, <2>0, <2>1, <2>2, <2>3 DEF TypeOK
<1>4. ASSUME NEW v \in Worker
      PROVE  (Leaving(v) \/ \E label \in Ends[mode.kind[v]] : Searching(v, label))'
  <2>1. CASE v # w
    <3>1. todo'[v] = todo[v]
      BY <1>1, <2>1 DEF TypeOK
    <3> QED
      BY <1>1, <3>1 DEF PlanInv, Leaving, Searching
  <2>2. CASE v = w
    <3>1. CASE todo'[w] \in Seq({"request", "solutions"})
      BY <2>2, <3>1 DEF Leaving
    <3>2. CASE \E label \in Calls : Onward(w, label)
      BY <1>1, <2>2, <3>2 DEF Onward, Searching
    <3> QED
      BY <3>1, <3>2, Goes
  <2> QED
    BY <2>1, <2>2
<1>5. PlanInv'
  BY <1>4 DEF PlanInv
<1> QED
  BY <1>3, <1>5

(***************************************************************************)
(* Who has an answer, and that somebody has one if the flag is set.        *)
(***************************************************************************)
LEMMA AnswerStep ==
    ASSUME TypeOK, PlanInv, EndInv, AnswerInv, NEW w \in Worker, Search(w)
    PROVE  AnswerInv'
<1>1. /\ todo' = [todo EXCEPT ![w] = todo'[w]] /\ todo'[w] \in Seq(Label)
      /\ answers' = [answers EXCEPT ![w] = answers'[w]]
      /\ (stopSearch => stopSearch')
      /\ todo \in [Worker -> Seq(Label)]
      /\ answers \in [Worker -> {"unknown", "interrupted", "unsatisfiable", "optimum"}]
  BY Own DEF TypeOK, Label
<1>2. answers[w] # "interrupted"
  BY Active DEF AnswerInv
<1>3. ASSUME NEW v \in Worker, v # w
      PROVE  todo'[v] = todo[v] /\ answers'[v] = answers[v] /\ (Leaving(v)' <=> Leaving(v))
  BY <1>1, <1>3 DEF Leaving
<1>4. Leaving(w)' <=> todo'[w] \in Seq({"request", "solutions"})
  BY DEF Leaving
<1>5. /\ Leaving(w)' => answers'[w] # "unknown"
      /\ answers'[w] = "interrupted" => todo'[w] = <<>> /\ stopSearch'
      /\ Leaving(w) => Leaving(w)' /\ answers'[w] # "interrupted"
  <2>1. CASE /\ Leaving(w) /\ (ShareSolutions(w) \/ Request(w))
             /\ todo'[w] \in Seq({"request", "solutions"})
    <3>1. answers' = answers
      BY <2>1 DEF ShareSolutions, Request
    <3> QED
      BY <1>2, <1>4, <2>1, <3>1 DEF AnswerInv
  <2>2. CASE /\ ~ Leaving(w) /\ (Fail(w) \/ Conclude(w) \/ Interrupted(w))
             /\ todo'[w] \in Seq({"request", "solutions"})
    <3>1. CASE Fail(w)
      BY <1>1, <2>2, <3>1 DEF Fail
    <3>2. CASE Interrupted(w)
      BY <1>1, <2>2, <3>2 DEF Interrupted, Goto
    <3>3. CASE Conclude(w)
      <4>1. answers'[w] = AnswerOf(w)
        BY <1>1, <3>3 DEF Conclude
      <4>2. AnswerOf(w) \in {"unsatisfiable", "optimum", answers[w]}
        BY DEF AnswerOf
      <4>3. AnswerOf(w) # "unknown"
        <5>1. CASE At(w, "conclude")
          <6>1. "conclude" \in Calls
            BY DEF Calls
          <6>2. feasible = {}
            BY <5>1, <6>1, AtEnd DEF EndInv
          <6>3. front = {} /\ solutions[w] = {}
            BY <6>2 DEF TypeOK
          <6>4. FinalSolutions(w) = {}
            <7>1. first = {}
              BY <6>2 DEF TypeOK
            <7>2. PushSafe({}, {}) = {}
              BY DEF PushSafe, NonDominated
            <7> QED
              BY <6>3, <7>1, <7>2 DEF FinalSolutions
          <6> QED
            BY <6>3, <6>4 DEF AnswerOf
        <5>2. CASE At(w, "return") /\ ~ stopSearch
          <6>1. "return" \in Calls
            BY DEF Calls
          <6>2. Is(w, "pmin") => answers[w] # "unknown"
            BY <5>2, <6>1, AtEnd DEF EndInv
          <6> QED
            BY <6>2 DEF AnswerOf
        <5> QED
          BY <3>3, <5>1, <5>2 DEF Conclude
      <4> QED
        BY <1>2, <2>2, <4>1, <4>2, <4>3
    <3> QED
      BY <2>2, <3>1, <3>2, <3>3
  <2>3. CASE ~ Leaving(w) /\ \E label \in Calls : Onward(w, label)
    <3>1. ~ Leaving(w)'
      BY <1>1, <1>4, <2>3, NotLeaving DEF Onward
    <3>2. answers'[w] # "interrupted"
      <4>1. SUFFICES ASSUME Interrupted(w) PROVE FALSE
        <5>1. CASE Moves(w)
          BY <1>1, <1>2, <5>1 DEF Moves, SolveUnsat
        <5>2. CASE \/ Finds(w) \/ Slides(w) \/ ShareClauses(w) \/ ShareSolutions(w)
                   \/ ShareServerSolutions(w) \/ Incorporate(w) \/ Request(w) \/ FirstSolution(w)
          BY <1>2, <5>2 DEF Finds, Slides, ShareClauses, ShareSolutions, ShareServerSolutions,
                            Incorporate, Request, FirstSolution
        <5>3. CASE Fail(w)
          BY <1>1, <5>3 DEF Fail
        <5>4. CASE Conclude(w)
          BY <1>1, <1>2, <5>4 DEF Conclude, AnswerOf
        <5> QED
          BY <4>1, <5>1, <5>2, <5>3, <5>4, Actions
      <4>2. todo'[w] = <<>>
        BY <1>1, <4>1 DEF Interrupted, Goto
      <4>3. todo'[w] \in Seq({"request", "solutions"})
        BY <4>2
      <4> QED
        BY <1>4, <3>1, <4>3
    <3> QED
      BY <2>3, <3>1, <3>2
  <2> QED
    BY <2>1, <2>2, <2>3, Goes
<1>6. ASSUME stopSearch'
      PROVE  \E v \in Worker : Leaving(v)' /\ answers'[v] # "interrupted"
  <2>1. CASE stopSearch
    <3>1. PICK v \in Worker : Leaving(v) /\ answers[v] # "interrupted"
      BY <2>1 DEF AnswerInv
    <3> QED
      BY <1>3, <1>5, <3>1
  <2>2. CASE ~ stopSearch
    <3>1. Request(w)
      BY <1>6, <2>2, Actions DEF Moves, Finds, Slides, ShareClauses, ShareSolutions,
                                 ShareServerSolutions, Incorporate, FirstSolution, Fail, Conclude,
                                 Interrupted
    <3>2. Leaving(w)
      BY <3>1, Proceeds DEF Request
    <3> QED
      BY <1>5, <3>2
  <2> QED
    BY <2>1, <2>2
<1>7. ASSUME NEW v \in Worker
      PROVE  /\ Leaving(v)' => answers'[v] # "unknown"
             /\ answers'[v] = "interrupted" => todo'[v] = <<>> /\ stopSearch'
  <2>1. CASE v = w
    BY <1>5, <2>1
  <2>2. CASE v # w
    BY <1>1, <1>3, <2>2 DEF AnswerInv
  <2> QED
    BY <2>1, <2>2
<1> QED
  BY <1>6, <1>7 DEF AnswerInv

(***************************************************************************)
(* A search ends only when it is told to, or when nothing is left.         *)
(***************************************************************************)
LEMMA EndStep ==
    ASSUME TypeOK, PlanInv, EndInv, ServerInv, NEW w \in Worker, Search(w)
    PROVE  EndInv'
<1> DEFINE Ended(v) ==
      /\ Searching(v, "first") =>
            todo[v] = <<"first">> /\ excluded[v] = {} /\ solutions[v] = {} /\ server[v] = {}
      /\ Searching(v, "conclude") \/ Searching(v, "fail") => feasible = {}
      /\ Searching(v, "return") /\ ~ stopSearch =>
            /\ feasible \subseteq excluded[v]
            /\ server[v] = {} \/ WillIncorporate(v)
            /\ Is(v, "pmin") => answers[v] # "unknown"
<1>1. /\ UNCHANGED <<mode, feasible>>
      /\ todo' = [todo EXCEPT ![w] = todo'[w]] /\ todo'[w] \in Seq(Label)
      /\ solutions' = [solutions EXCEPT ![w] = solutions'[w]]
      /\ excluded' = [excluded EXCEPT ![w] = excluded'[w]]
      /\ answers' = [answers EXCEPT ![w] = answers'[w]]
      /\ (stopSearch => stopSearch')
      /\ todo \in [Worker -> Seq(Label)]
      /\ excluded \in [Worker -> SUBSET feasible] /\ solutions \in [Worker -> SUBSET feasible]
      /\ answers \in [Worker -> {"unknown", "interrupted", "unsatisfiable", "optimum"}]
      /\ server' = [server EXCEPT ![w] = server'[w]] /\ server \in [Worker -> SUBSET feasible]
      /\ server' = server \/ Slides(w) \/ Incorporate(w)
  BY Own, OwnServer DEF TypeOK, Label, problem
<1>2. ASSUME NEW v \in Worker PROVE Ended(v)
  BY DEF EndInv
<1>3. ASSUME NEW v \in Worker, v # w
      PROVE  Ended(v)'
  <2>1. /\ todo'[v] = todo[v] /\ excluded'[v] = excluded[v] /\ solutions'[v] = solutions[v]
        /\ answers'[v] = answers[v] /\ server'[v] = server[v]
    BY <1>1, <1>3
  <2> QED
    BY <1>1, <1>2, <2>1 DEF Searching, Is, WillIncorporate
<1>4. ASSUME NEW label \in Calls, Onward(w, label)
      PROVE  \A l : Searching(w, l)' <=> l = label
  <2>1. LeadsTo(todo'[w], label)
    BY <1>4 DEF Onward
  <2> QED
    BY <2>1 DEF Searching, LeadsTo
<1>5. ASSUME todo'[w] \in Seq({"request", "solutions"})
      PROVE  Ended(w)'
  <2>1. \A l \in Calls : ~ Searching(w, l)'
    BY <1>1, <1>5, NotLeaving DEF Searching
  <2>2. {"first", "conclude", "fail", "return"} \subseteq Calls
    BY DEF Calls
  <2> QED
    BY <2>1, <2>2
<1>6. ASSUME NEW label \in Calls, Onward(w, label), Searching(w, label), label # "first",
             excluded[w] \subseteq excluded'[w], answers'[w] = answers[w] \/ SolveUnsat(w),
             \/ server'[w] = {}
             \/ server'[w] = server[w] /\ (WillIncorporate(w) => WillIncorporate(w)')
      PROVE  Ended(w)'
  <2>1. SolveUnsat(w) => answers'[w] # "unknown"
    BY <1>1 DEF SolveUnsat
  <2>2. Ended(w)
    BY <1>2
  <2>3. \A l : Searching(w, l)' => l = label /\ Searching(w, l)
    BY <1>4, <1>6
  <2> QED
    BY <1>1, <1>6, <2>1, <2>2, <2>3 DEF Is
<1>7. ASSUME NEW label \in Calls, Onward(w, label), label \notin {"first", "conclude", "fail"},
             label = "return" /\ ~ stopSearch' =>
                /\ feasible \subseteq excluded'[w] /\ (Is(w, "pmin") => answers'[w] # "unknown")
                /\ server'[w] = {} \/ WillIncorporate(w)'
      PROVE  Ended(w)'
  <2>1. \A l : Searching(w, l)' => l = label
    BY <1>4, <1>7
  <2> QED
    BY <1>1, <1>7, <2>1 DEF Is
<1>8. ASSUME NEW label \in Calls, Searching(w, label), ~ At(w, "first"), answerType = "unknown"
      PROVE  label # "first"
  <2>1. todo[w] = <<"first">> => At(w, "first")
    BY <1>8 DEF At
  <2> QED
    BY <1>2, <1>8, <2>1
<1> HIDE DEF Ended
<1>9. Ended(w)'
  <2>0. answerType = "unknown" /\ (~ Is(w, "sd") => server[w] = {})
    BY Active DEF ServerInv
  <2>1. CASE Moves(w)
    <3>1. PICK label \in Calls :
            /\ Onward(w, label)
            /\ \/ Searching(w, label) /\ (WillIncorporate(w) => WillIncorporate(w)')
               \/ /\ label \notin {"first", "conclude", "fail"}
                  /\ label = "return" =>
                        stopSearch \/ (Open(w) = {} /\ (Is(w, "sd") => WillIncorporate(w)'))
                  /\ label = "return" /\ Is(w, "pmin") => stopSearch \/ SolveUnsat(w)
      BY <2>1 DEF Moves
    <3>2. /\ excluded' = excluded /\ (answers' = answers \/ SolveUnsat(w)) /\ ~ At(w, "first")
          /\ server' = server
      BY <2>1 DEF Moves
    <3>3. CASE Searching(w, label) /\ (WillIncorporate(w) => WillIncorporate(w)')
      BY <1>6, <1>8, <2>0, <3>1, <3>2, <3>3
    <3>4. CASE ~ (Searching(w, label) /\ (WillIncorporate(w) => WillIncorporate(w)'))
      <4>1. SolveUnsat(w) => answers'[w] # "unknown"
        BY <1>1 DEF SolveUnsat
      <4>2. Open(w) = {} => feasible \subseteq excluded[w]
        BY DEF Open
      <4> QED
        BY <1>1, <1>7, <2>0, <3>1, <3>2, <3>4, <4>1, <4>2
    <3> QED
      BY <3>3, <3>4
  <2>2. CASE Finds(w)
    <3>1. PICK label \in Calls :
            /\ Onward(w, label) /\ label \notin {"first", "conclude", "fail"}
            /\ label = "return" => feasible \subseteq excluded'[w] /\ Is(w, "hs")
      BY <2>2 DEF Finds
    <3>2. Is(w, "hs") => ~ Is(w, "pmin") /\ ~ Is(w, "sd")
      BY DEF Is
    <3>3. server' = server
      BY <2>2 DEF Finds
    <3> QED
      BY <1>7, <2>0, <3>1, <3>2, <3>3
  <2>3. CASE ShareClauses(w) \/ ShareSolutions(w) \/ ShareServerSolutions(w)
    <3>1. PICK step \in {"clauses", "solutions", "serverSolutions"} : At(w, step) /\ Proceed(w)
      BY <2>3 DEF ShareClauses, ShareSolutions, ShareServerSolutions
    <3>2. ~ At(w, "first")
      BY <3>1 DEF At
    <3>3. excluded[w] \subseteq excluded'[w] /\ answers' = answers /\ server' = server
      BY <1>1, <2>3 DEF ShareClauses, ShareSolutions, ShareServerSolutions, found
    <3>4. CASE Leaving(w)
      BY <1>5, <3>1, <3>4, Proceeds
    <3>5. CASE ~ Leaving(w)
      <4>1. PICK label \in Calls : Searching(w, label) /\ Onward(w, label)
        BY <3>1, <3>5, Proceeds
      <4>2. WillIncorporate(w) => WillIncorporate(w)'
        BY <3>1, Proceeds
      <4> QED
        BY <1>6, <1>8, <2>0, <3>2, <3>3, <4>1, <4>2
    <3> QED
      BY <3>4, <3>5
  <2>4. CASE Request(w)
    BY <1>5, <2>4, Proceeds DEF Request
  <2>5. CASE FirstSolution(w)
    <3>1. PICK label \in Calls :
             /\ Onward(w, label) /\ label # "first"
             /\ label \in {"conclude", "fail", "return"} => feasible = {}
             /\ label = "return" => ~ Is(w, "pmin")
      BY <2>5, Starts
    <3>2. server'[w] = {}
      <4>1. server[w] = {}
        BY <2>5, Starts DEF EndInv
      <4> QED
        BY <2>5, <4>1 DEF FirstSolution, found
    <3>3. \A l : Searching(w, l)' => l = label
      BY <1>4, <3>1
    <3>4. \A S : feasible = {} => feasible \subseteq S
      OBVIOUS
    <3> QED
      BY <1>1, <3>1, <3>2, <3>3, <3>4 DEF Ended, Is
  <2>6. CASE Fail(w) \/ Conclude(w)
    BY <1>5, <2>6, Leaves DEF Fail, Conclude
  <2>7. CASE Interrupted(w)
    <3>1. todo'[w] = <<>>
      BY <1>1, <2>7 DEF Interrupted, Goto
    <3>2. todo'[w] \in Seq({"request", "solutions"})
      BY <3>1
    <3> QED
      BY <1>5, <3>2
  <2>8. CASE Slides(w)
    <3>1. "slide" \in Calls
      BY DEF Calls
    <3> QED
      BY <1>7, <2>8, <3>1 DEF Slides
  <2>9. CASE Incorporate(w)
    <3>1. At(w, "incorporate") /\ excluded' = excluded /\ answers' = answers
      BY <2>9 DEF Incorporate
    <3>2. ~ At(w, "first") /\ server'[w] = {}
      BY <2>9, <3>1, OwnServer DEF At
    <3>3. PICK label \in Calls : Searching(w, label) /\ Onward(w, label)
      BY <2>9, Incorporates
    <3> QED
      BY <1>6, <1>8, <2>0, <3>1, <3>2, <3>3
  <2> QED
    BY <2>1, <2>2, <2>3, <2>4, <2>5, <2>6, <2>7, <2>8, <2>9, Actions
<1>10. \A v \in Worker : Ended(v)'
  BY <1>3, <1>9
<1> QED
  BY <1>10 DEF EndInv, Ended

-----------------------------------------------------------------------------
(***************************************************************************)
(* A call on the archive leaves nothing of the caller's out.               *)
(***************************************************************************)
LEMMA Pushed ==
    ASSUME TypeOK, NEW w \in Worker, ShareSolutions(w), Sharing
    PROVE  \A p \in feasible : Covers(front \cup solutions[w], p) => Covers(front', p)
<1>1. solutions[w] \in SUBSET feasible /\ Archive!Sync(w, solutions[w])
  BY DEF TypeOK, ShareSolutions
<1> QED
  BY <1>1, SyncFacts

(***************************************************************************)
(* A member that is about to return or gives up has shared what it will.   *)
(***************************************************************************)
LEMMA AtReturn ==
    ASSUME TypeOK, PlanInv, NEW w \in Worker, Fail(w) \/ Conclude(w) \/ Interrupted(w)
    PROVE  ~ Leaving(w) /\ WillShare(w) = {} /\ ~ Unshared(w)
<1>1. PICK label \in {"fail", "conclude", "return"} : At(w, label)
  BY DEF Fail, Conclude, Interrupted
<1>2. label \in Calls /\ label # "harvest"
  BY DEF Calls
<1> QED
  BY <1>1, <1>2, AtEnd

(***************************************************************************)
(* Nothing that can be counted on gets lost: a member that is told to stop *)
(* before it shares has shared all it had.                                 *)
(***************************************************************************)
LEMMA ArchivedStep ==
    ASSUME TypeOK, PlanInv, SharedInv, Sharing, NEW w \in Worker, Search(w)
    PROVE  \A p \in feasible : Covers(Archived, p) => Covers(Archived', p)
<1>1. /\ todo' = [todo EXCEPT ![w] = todo'[w]]
      /\ solutions' = [solutions EXCEPT ![w] = solutions'[w]]
      /\ todo \in [Worker -> Seq(Label)] /\ solutions \in [Worker -> SUBSET feasible]
      /\ front \in SUBSET feasible /\ feasible \in SUBSET YPoint
  BY Own, Given DEF TypeOK, Label
<1>2. \A p \in feasible : Covers(front, p) => Covers(front', p)
  BY Common
<1>3. front' \subseteq Archived' /\ \A v \in Worker : WillShare(v)' \subseteq Archived'
  BY DEF Archived
<1>4. \A p : Covers(front', p) => Covers(Archived', p)
  BY <1>3 DEF Covers
<1>5. ASSUME NEW q \in feasible, q \in WillShare(w)
      PROVE  Covers(Archived', q)
  <2>0. q \in solutions[w] /\ \E i \in DOMAIN todo[w] : todo[w][i] = "solutions"
    BY <1>5 DEF WillShare
  <2>1. CASE Moves(w)
    <3>1. ~ Unshared(w)
      BY <1>5, <2>1 DEF Moves
    <3>2. Covers(front, q)
      BY <2>0, <3>1 DEF SharedInv
    <3> QED
      BY <1>2, <1>4, <3>2
  <2>2. CASE Finds(w) \/ Slides(w)
    BY <1>5, <2>2 DEF Finds, Slides
  <2>3. CASE FirstSolution(w)
    BY <1>5, <2>3, Starts
  <2>4. CASE Fail(w) \/ Conclude(w) \/ Interrupted(w)
    BY <1>5, <2>4, AtReturn
  <2>5. CASE ShareSolutions(w)
    <3>1. Covers(front \cup solutions[w], q)
      BY <1>1, <2>0, DominanceOrder DEF Covers
    <3> QED
      BY <1>4, <2>5, <3>1, Pushed
  <2>6. CASE ShareClauses(w) \/ ShareServerSolutions(w) \/ Request(w)
    <3>1. solutions' = solutions
      BY <2>6 DEF ShareClauses, ShareServerSolutions, Request, found
    <3>2. PICK step \in {"clauses", "serverSolutions", "request"} : At(w, step) /\ Proceed(w)
      BY <2>6 DEF ShareClauses, ShareServerSolutions, Request
    <3>3. \E i \in DOMAIN todo'[w] : todo'[w][i] = "solutions"
      BY <2>0, <3>2, Proceeds
    <3>4. q \in WillShare(w)'
      BY <2>0, <3>1, <3>3 DEF WillShare
    <3>5. q \in Archived'
      BY <1>3, <3>4
    <3> QED
      BY <1>1, <3>5, DominanceOrder DEF Covers
  <2>7. CASE Incorporate(w)
    <3>1. \E i \in DOMAIN todo'[w] : todo'[w][i] = "solutions"
      BY <2>7, Incorporates
    <3>2. solutions'[w] \subseteq Archived'
      BY <1>3, <3>1 DEF WillShare
    <3>3. Covers(solutions[w], q)
      BY <1>1, <2>0, DominanceOrder DEF Covers
    <3>4. Covers(solutions'[w], q)
      BY <3>3, Own
    <3> QED
      BY <3>2, <3>4 DEF Covers
  <2> QED
    BY <2>1, <2>2, <2>3, <2>4, <2>5, <2>6, <2>7, Actions
<1>6. ASSUME NEW v \in Worker, v # w
      PROVE  WillShare(v)' = WillShare(v)
  <2>1. todo'[v] = todo[v] /\ solutions'[v] = solutions[v]
    BY <1>1, <1>6
  <2> QED
    BY <2>1 DEF WillShare
<1>7. ASSUME NEW q \in Archived
      PROVE  Covers(Archived', q) /\ q \in feasible
  <2>1. q \in feasible /\ q \in YPoint
    BY <1>1, Given
  <2>2. CASE q \in front
    <3>1. Covers(front, q)
      BY <2>1, <2>2, DominanceOrder DEF Covers
    <3> QED
      BY <1>2, <1>4, <2>1, <3>1
  <2>3. CASE \E v \in Worker : q \in WillShare(v)
    <3>1. PICK v \in Worker : q \in WillShare(v)
      BY <2>3
    <3>2. CASE v = w
      BY <1>5, <2>1, <3>1, <3>2
    <3>3. CASE v # w
      <4>1. q \in Archived'
        BY <1>3, <1>6, <3>1, <3>3
      <4> QED
        BY <2>1, <4>1, DominanceOrder DEF Covers
    <3> QED
      BY <3>2, <3>3
  <2> QED
    BY <2>2, <2>3 DEF Archived
<1>8. Archived \in SUBSET YPoint /\ Archived' \in SUBSET YPoint
  <2>1. TypeOK' /\ feasible' = feasible
    BY PlanStep, Own DEF problem
  <2>2. front' \in SUBSET feasible /\ solutions' \in [Worker -> SUBSET feasible]
    BY <2>1 DEF TypeOK
  <2>3. Archived' \in SUBSET feasible
    BY <2>2 DEF Archived, WillShare
  <2> QED
    BY <1>1, <2>3, Given
<1> QED
  BY <1>1, <1>7, <1>8, CoversMore

(***************************************************************************)
(* What a member has found is in the archive when it looks at the flag.    *)
(***************************************************************************)
LEMMA SharedStep ==
    ASSUME TypeOK, PlanInv, EndInv, FrontInv, SharedInv, NEW w \in Worker, Search(w)
    PROVE  SharedInv'
<1>1. /\ UNCHANGED mode
      /\ todo' = [todo EXCEPT ![w] = todo'[w]]
      /\ solutions' = [solutions EXCEPT ![w] = solutions'[w]]
      /\ todo \in [Worker -> Seq(Label)] /\ solutions \in [Worker -> SUBSET feasible]
      /\ unread \in [Worker -> SUBSET feasible]
      /\ front \in SUBSET feasible /\ feasible \in SUBSET YPoint
  BY Own, Given DEF TypeOK, Label, problem
<1>2. \A p \in feasible : Covers(front, p) => Covers(front', p)
  BY Common
<1>3. Sharing' <=> Sharing
  BY <1>1 DEF Sharing
<1>4. ASSUME Sharing, NEW v \in Worker, v # w, ~ Unshared(v)', NEW p \in solutions'[v]
      PROVE  Covers(front', p)
  <2>1. todo'[v] = todo[v] /\ solutions'[v] = solutions[v]
    BY <1>1, <1>4
  <2>2. ~ Unshared(v)
    BY <1>4, <2>1 DEF Unshared
  <2>3. Covers(front, p) /\ p \in feasible
    BY <1>1, <1>4, <2>1, <2>2 DEF SharedInv
  <2> QED
    BY <1>2, <2>3
<1>5. ASSUME Sharing, ~ Unshared(w)', NEW p \in solutions'[w]
      PROVE  Covers(front', p)
  <2>1. ASSUME solutions' = solutions, ~ Unshared(w)
        PROVE  Covers(front', p)
    <3>1. p \in solutions[w] /\ p \in feasible
      BY <1>1, <1>5, <2>1
    <3>2. Covers(front, p)
      BY <1>5, <2>1, <3>1 DEF SharedInv
    <3> QED
      BY <1>2, <3>1, <3>2
  <2>2. CASE Moves(w)
    BY <1>5, <2>1, <2>2 DEF Moves
  <2>3. CASE Finds(w)
    BY <1>5, <2>3 DEF Finds
  <2>4. CASE ShareClauses(w) \/ ShareServerSolutions(w) \/ Request(w)
    <3>1. PICK step \in {"clauses", "serverSolutions", "request"} : At(w, step) /\ Proceed(w)
      BY <2>4 DEF ShareClauses, ShareServerSolutions, Request
    <3>2. ~ Unshared(w)
      BY <1>5, <3>1, Proceeds
    <3> QED
      BY <2>1, <2>4, <3>2 DEF ShareClauses, ShareServerSolutions, Request, found
  <2>5. CASE ShareSolutions(w)
    <3>1. PICK P \in {{}, unread[w]} : solutions' = [solutions EXCEPT ![w] = PushSafe(@, P)]
      BY <2>5 DEF ShareSolutions
    <3>2. P \subseteq front /\ P \in SUBSET feasible
      BY <1>1, <3>1 DEF FrontInv
    <3>3. solutions'[w] = PushSafe(solutions[w], P) /\ solutions[w] \in SUBSET feasible
      BY <1>1, <3>1
    <3>4. PushSafe(solutions[w], P) \subseteq solutions[w] \cup P
      BY <3>2, <3>3, PushFacts
    <3>5. p \in front \cup solutions[w] /\ p \in feasible
      BY <1>1, <1>5, <3>2, <3>3, <3>4
    <3>6. Covers(front \cup solutions[w], p)
      BY <1>1, <3>5, DominanceOrder DEF Covers
    <3> QED
      BY <1>5, <2>5, <3>5, <3>6, Pushed
  <2>6. CASE FirstSolution(w)
    <3>1. solutions' = solutions
      BY <2>6 DEF FirstSolution, found
    <3>2. solutions[w] = {}
      BY <2>6, Starts DEF EndInv
    <3> QED
      BY <1>5, <3>1, <3>2
  <2>7. CASE Fail(w) \/ Conclude(w)
    BY <1>5, <2>7, Leaves DEF Fail, Conclude
  <2>8. CASE Interrupted(w)
    <3>1. ~ Unshared(w)
      BY <2>8, AtReturn
    <3> QED
      BY <2>1, <2>8, <3>1 DEF Interrupted, found
  <2>9. CASE Slides(w)
    BY <2>1, <2>9 DEF Slides
  <2>10. CASE Incorporate(w)
    BY <1>5, <2>10, Incorporates
  <2> QED
    BY <2>2, <2>3, <2>4, <2>5, <2>6, <2>7, <2>8, <2>9, <2>10, Actions
<1>6. ASSUME NEW v \in Worker, Sharing', ~ Unshared(v)', NEW p \in solutions'[v]
      PROVE  Covers(front', p)
  BY <1>3, <1>4, <1>5, <1>6
<1>7. \A p : Covers(front, p)' <=> Covers(front', p)
  BY DEF Covers, dominates
<1> QED
  BY <1>6, <1>7 DEF SharedInv

(***************************************************************************)
(* What a server has found is archived before anything else is shared; it  *)
(* finds nothing while something is not.                                   *)
(***************************************************************************)
LEMMA ServerStep ==
    ASSUME TypeOK, PlanInv, ServerInv, NEW w \in Worker, Search(w)
    PROVE  ServerInv'
<1>1. /\ UNCHANGED <<mode, answerType>>
      /\ todo' = [todo EXCEPT ![w] = todo'[w]] /\ todo \in [Worker -> Seq(Label)]
      /\ server' = [server EXCEPT ![w] = server'[w]] /\ server \in [Worker -> SUBSET feasible]
      /\ server' = server \/ Slides(w) \/ Incorporate(w)
      /\ Incorporate(w) => server'[w] = {}
  BY Own, OwnServer DEF TypeOK, Label, problem
<1>2. \A p \in feasible : Covers(front, p) => Covers(front', p)
  BY Common
<1>3. ASSUME NEW v \in Worker, ~ Is(v, "sd") PROVE server'[v] = {}
  <2>1. Slides(w) => v # w
    BY <1>3 DEF Slides
  <2> QED
    BY <1>1, <1>3, <2>1 DEF ServerInv
<1>4. At(w, "serverSolutions") => ShareServerSolutions(w)
  <2>1. \A l, m : At(w, l) /\ At(w, m) => l = m
    BY DEF At
  <2> QED
    BY <2>1 DEF Search, FirstSolution, Fail, Conclude, Interrupted, ShareClauses, ShareSolutions,
                Request, Check, HarvestSat, HarvestUndef, HarvestUnsat, DescendSat, DescendUnsat,
                DescendUndef, SolveUnsat, Round, RoundStopped, SlideSat, SlideUnsat, SlideUndef,
                Incorporate
<1>5. ASSUME mode.clauses, NEW v \in Worker, ~ At(v, "serverSolutions")', NEW p \in server'[v]
      PROVE  Covers(front', p)
  <2>1. CASE v # w
    <3>1. server'[v] = server[v] /\ ~ At(v, "serverSolutions")
      BY <1>1, <1>5, <2>1 DEF At
    <3>2. Covers(front, p) /\ p \in feasible
      BY <1>1, <1>5, <3>1 DEF ServerInv
    <3> QED
      BY <1>2, <3>2
  <2>2. CASE v = w /\ ShareServerSolutions(w)
    <3>1. Archive!Sync(w, server[w]) /\ server' = server
      BY <1>5, <2>2 DEF ShareServerSolutions, found
    <3>2. server[w] \in SUBSET feasible /\ p \in server[w] /\ p \in feasible /\ p \in YPoint
      BY <1>1, <1>5, <2>2, <3>1, Given
    <3>3. Covers(front \cup server[w], p)
      BY <3>2, DominanceOrder DEF Covers
    <3> QED
      BY <3>1, <3>2, <3>3, SyncFacts
  <2>3. CASE v = w /\ ~ ShareServerSolutions(w)
    <3>1. server' = server
      BY <1>1, <1>5, <2>3 DEF Slides
    <3>2. Covers(front, p) /\ p \in feasible
      BY <1>1, <1>4, <1>5, <2>3, <3>1 DEF ServerInv
    <3> QED
      BY <1>2, <3>2
  <2> QED
    BY <2>1, <2>2, <2>3
<1>6. \A p : Covers(front, p)' <=> Covers(front', p)
  BY DEF Covers, dominates
<1>7. \A v \in Worker : Is(v, "sd")' <=> Is(v, "sd")
  BY <1>1 DEF Is
<1> QED
  BY <1>1, <1>3, <1>5, <1>6, <1>7 DEF ServerInv

-----------------------------------------------------------------------------
\* What a member's clauses rest on.
Known(w) ==
    IF mode.clauses THEN Archived \cup first \cup solutions[w] \cup server[w]
    ELSE solutions[w] \cup server[w] \cup (IF Is(w, "sd") THEN first ELSE {})

(***************************************************************************)
(* What the clauses rest on, in one line.                                  *)
(***************************************************************************)
LEMMA KnownFacts ==
    ASSUME TypeOK
    PROVE  /\ ExcludedInv <=> /\ \A w \in Worker : \A p \in excluded[w] : Covers(Known(w), p)
                              /\ ~ mode.clauses => exported = {}
           /\ \A w \in Worker :
                 Known(w) \in SUBSET feasible /\ solutions[w] \cup server[w] \subseteq Known(w)
<1>1. mode.clauses \in BOOLEAN /\ Archived \in SUBSET feasible /\ first \in SUBSET feasible
      /\ solutions \in [Worker -> SUBSET feasible] /\ server \in [Worker -> SUBSET feasible]
  BY Given DEF TypeOK
<1>2. CASE mode.clauses
  <2>1. \A w \in Worker : Known(w) = Archived \cup first \cup solutions[w] \cup server[w]
    BY <1>2 DEF Known
  <2> QED
    BY <1>1, <1>2, <2>1 DEF ExcludedInv
<1>3. CASE ~ mode.clauses
  <2>1. \A w \in Worker :
            Known(w) = solutions[w] \cup server[w] \cup (IF Is(w, "sd") THEN first ELSE {})
    BY <1>3 DEF Known
  <2> QED
    BY <1>1, <1>3, <2>1 DEF ExcludedInv
<1> QED
  BY <1>1, <1>2, <1>3

(***************************************************************************)
(* What a member knows stays known.                                        *)
(***************************************************************************)
LEMMA KnownStep ==
    ASSUME TypeOK, PlanInv, SharedInv, NEW w \in Worker, Search(w), NEW v \in Worker
    PROVE  \A p \in feasible : Covers(Known(v), p) => Covers(Known(v)', p)
<1>1. /\ UNCHANGED <<mode, feasible, first>>
      /\ solutions' = [solutions EXCEPT ![w] = solutions'[w]]
      /\ \A p \in feasible : Covers(solutions[w], p) => Covers(solutions'[w], p)
      /\ solutions \in [Worker -> SUBSET feasible]
      /\ first \in SUBSET feasible /\ mode.clauses \in BOOLEAN
      /\ Archived \in SUBSET feasible
      /\ server' = [server EXCEPT ![w] = server'[w]] /\ server \in [Worker -> SUBSET feasible]
      /\ \A p \in feasible :
            Covers(solutions[w] \cup server[w], p) => Covers(solutions'[w] \cup server'[w], p)
  BY Own, OwnServer, Given DEF TypeOK, problem
<1>2. ASSUME NEW p \in feasible, Covers(solutions[v] \cup server[v], p)
      PROVE  Covers(solutions'[v] \cup server'[v], p)
  <2>1. CASE v = w
    BY <1>1, <1>2, <2>1
  <2>2. CASE v # w
    BY <1>1, <1>2, <2>2
  <2> QED
    BY <2>1, <2>2
<1>3. CASE mode.clauses
  <2>1. Sharing
    BY <1>3 DEF Sharing
  <2>2. \A p \in feasible : Covers(Archived, p) => Covers(Archived', p)
    BY <2>1, ArchivedStep
  <2>3. /\ Known(v) = (Archived \cup first) \cup (solutions[v] \cup server[v])
        /\ Known(v)' = (Archived' \cup first) \cup (solutions'[v] \cup server'[v])
    BY <1>1, <1>3 DEF Known
  <2> QED
    BY <1>2, <2>2, <2>3 DEF Covers
<1>4. CASE ~ mode.clauses
  <2>1. PICK F \in {{}, first} : /\ Known(v) = (solutions[v] \cup server[v]) \cup F
                                 /\ Known(v)' = (solutions'[v] \cup server'[v]) \cup F
    BY <1>1, <1>4 DEF Known, Is
  <2> QED
    BY <1>2, <2>1 DEF Covers
<1> QED
  BY <1>3, <1>4

(***************************************************************************)
(* What a member blocks, imports or pulls is known to it, or archived.     *)
(***************************************************************************)
LEMMA ExcludedStep ==
    ASSUME TypeOK, PlanInv, EndInv, FrontInv, SharedInv, ExcludedInv, ExportsAreArchived,
           NEW w \in Worker, Search(w)
    PROVE  ExcludedInv'
<1>1. /\ UNCHANGED <<mode, feasible, first>>
      /\ solutions' = [solutions EXCEPT ![w] = solutions'[w]]
      /\ excluded' = [excluded EXCEPT ![w] = excluded'[w]]
      /\ solutions \in [Worker -> SUBSET feasible]
      /\ excluded \in [Worker -> SUBSET feasible]
      /\ unread \in [Worker -> SUBSET feasible]
      /\ front \in SUBSET feasible /\ exported \in SUBSET feasible
      /\ first \in SUBSET feasible /\ mode.clauses \in BOOLEAN
      /\ feasible \in SUBSET YPoint
  BY Own, Given DEF TypeOK, problem
<1>2. TypeOK'
  BY PlanStep
<1>3. ASSUME NEW v \in Worker, NEW p \in excluded[v]
      PROVE  Covers(Known(v)', p)
  <2>1. Covers(Known(v), p) /\ p \in feasible
    BY <1>1, KnownFacts
  <2> QED
    BY <2>1, KnownStep
<1>4. \A p : Covers(solutions'[w], p) => Covers(Known(w)', p)
  <2>1. solutions'[w] \subseteq Known(w)'
    BY DEF Known
  <2> QED
    BY <2>1 DEF Covers
<1>5. ASSUME NEW P \in SUBSET feasible, solutions' = [solutions EXCEPT ![w] = PushSafe(@, P)],
             NEW Q \in SUBSET P, NEW p \in DominatedBy(Q)
      PROVE  Covers(Known(w)', p)
  <2>1. solutions'[w] = PushSafe(solutions[w], P) /\ solutions[w] \in SUBSET feasible
    BY <1>1, <1>5
  <2>2. p \in feasible /\ Covers(solutions[w] \cup P, p)
    BY DEF DominatedBy, Covers
  <2>3. Covers(solutions'[w], p)
    BY <2>1, <2>2, PushFacts
  <2> QED
    BY <1>4, <2>3
<1>6. ASSUME Slides(w), NEW p \in excluded'[w], p \notin excluded[w]
      PROVE  Covers(Known(w)', p)
  <2>1. PICK q \in feasible : /\ server' = [server EXCEPT ![w] = PushSafe(@, {q})]
                              /\ excluded' = [excluded EXCEPT ![w] = @ \cup DominatedBy({q})]
    BY <1>6 DEF Slides
  <2>2. /\ server'[w] = PushSafe(server[w], {q}) /\ server[w] \in SUBSET feasible
        /\ {q} \in SUBSET feasible /\ p \in DominatedBy({q})
    BY <1>1, <1>6, <2>1 DEF TypeOK
  <2>3. p \in feasible /\ Covers(server[w] \cup {q}, p)
    BY <2>2 DEF DominatedBy, Covers
  <2>4. Covers(server'[w], p)
    BY <2>2, <2>3, PushFacts
  <2>5. server'[w] \subseteq Known(w)'
    BY DEF Known
  <2> QED
    BY <2>4, <2>5 DEF Covers
<1>7. ASSUME NEW p \in excluded'[w], p \notin excluded[w]
      PROVE  Covers(Known(w)', p)
  <2>1. CASE Finds(w)
    <3>1. PICK points \in SUBSET feasible : \E blocked \in SUBSET points :
            /\ solutions' = [solutions EXCEPT ![w] = PushSafe(@, points)]
            /\ excluded' = [excluded EXCEPT ![w] = @ \cup DominatedBy(blocked)]
      BY <2>1 DEF Finds
    <3>2. PICK blocked \in SUBSET points :
            /\ solutions' = [solutions EXCEPT ![w] = PushSafe(@, points)]
            /\ excluded' = [excluded EXCEPT ![w] = @ \cup DominatedBy(blocked)]
      BY <3>1
    <3>3. p \in DominatedBy(blocked)
      BY <1>1, <1>7, <3>2
    <3> QED
      BY <1>5, <3>2, <3>3
  <2>2. CASE ShareSolutions(w)
    <3>1. PICK P \in {{}, unread[w]} :
            /\ solutions' = [solutions EXCEPT ![w] = PushSafe(@, P)]
            /\ excluded' = [excluded EXCEPT ![w] = @ \cup DominatedBy(P)]
      BY <2>2 DEF ShareSolutions
    <3>2. p \in DominatedBy(P) /\ P \in SUBSET feasible
      BY <1>1, <1>7, <3>1
    <3> QED
      BY <1>5, <3>1, <3>2
  <2>3. CASE ShareClauses(w)
    <3>1. mode.clauses /\ p \in exported
      BY <1>1, <1>7, <2>3 DEF ShareClauses
    <3>2. Covers(Archived \cup first, p) /\ p \in feasible
      BY <1>1, <3>1 DEF ExportsAreArchived, Archived, Covers
    <3>3. Covers(Known(w), p)
      BY <3>1, <3>2 DEF Known, Covers
    <3> QED
      BY <3>2, <3>3, KnownStep
  <2>4. CASE FirstSolution(w)
    <3>1. Is(w, "sd") /\ p \in DominatedBy(first)
      BY <1>1, <1>7, <2>4 DEF FirstSolution
    <3>2. p \in feasible /\ Covers(first, p)
      BY <3>1 DEF DominatedBy
    <3>3. Covers(Known(w), p)
      BY <3>1, <3>2 DEF Known, Covers
    <3> QED
      BY <3>2, <3>3, KnownStep
  <2>5. CASE Slides(w)
    BY <1>6, <1>7, <2>5
  <2>6. CASE \/ Moves(w) \/ ShareServerSolutions(w) \/ Incorporate(w)
             \/ Request(w) \/ Fail(w) \/ Conclude(w) \/ Interrupted(w)
    BY <1>7, <2>6 DEF Moves, ShareServerSolutions, Incorporate, Request, Fail, Conclude, Interrupted
  <2> QED
    BY <2>1, <2>2, <2>3, <2>4, <2>5, <2>6, Actions
<1>8. ASSUME NEW v \in Worker, NEW p \in excluded'[v]
      PROVE  Covers(Known(v)', p)
  <2>1. CASE v = w
    BY <1>3, <1>7, <2>1
  <2>2. CASE v # w
    <3>1. excluded'[v] = excluded[v]
      BY <1>1, <2>2
    <3> QED
      BY <1>3, <1>8, <3>1
  <2> QED
    BY <2>1, <2>2
<1>9. ~ mode.clauses => exported' = {}
  <2>1. SUFFICES ASSUME ~ mode.clauses PROVE exported' = {}
    OBVIOUS
  <2>2. exported = {}
    BY <2>1 DEF ExcludedInv
  <2>3. exported' = exported
    BY <2>1, Actions DEF Moves, Finds, Slides, ShareClauses, ShareSolutions, ShareServerSolutions,
                         Incorporate, Request, FirstSolution, Fail, Conclude, Interrupted, sharing
  <2> QED
    BY <2>2, <2>3
<1>10. CASE mode.clauses
  <2>1. \A v \in Worker : Known(v)' = Archived' \cup first' \cup solutions'[v] \cup server'[v]
    BY <1>1, <1>10 DEF Known
  <2>2. ASSUME NEW v \in Worker, NEW p \in excluded'[v]
        PROVE  Covers(Archived \cup first \cup solutions[v] \cup server[v], p)'
    BY <1>8, <2>1 DEF Covers, dominates
  <2> QED
    BY <1>1, <1>10, <2>2 DEF ExcludedInv
<1>11. CASE ~ mode.clauses
  <2>1. \A v \in Worker :
            Known(v)' = solutions'[v] \cup server'[v] \cup (IF Is(v, "sd")' THEN first' ELSE {})
    BY <1>1, <1>11 DEF Known
  <2>2. ASSUME NEW v \in Worker, NEW p \in excluded'[v]
        PROVE  Covers(solutions[v] \cup server[v] \cup (IF Is(v, "sd") THEN first ELSE {}), p)'
    BY <1>8, <2>1 DEF Covers, dominates
  <2> QED
    BY <1>1, <1>9, <1>11, <2>2 DEF ExcludedInv
<1> QED
  BY <1>10, <1>11

(***************************************************************************)
(* What learnt clauses rest on when they are exported: the author has      *)
(* shared its solutions, or is going to before it looks at the flag.       *)
(***************************************************************************)
LEMMA ExportStep ==
    ASSUME TypeOK, PlanInv, EndInv, FrontInv, SharedInv, ServerInv, ExcludedInv, ExportsAreArchived,
           NEW w \in Worker, Search(w)
    PROVE  ExportsAreArchived'
<1>1. /\ UNCHANGED <<mode, feasible, first>>
      /\ todo \in [Worker -> Seq(Label)] /\ solutions \in [Worker -> SUBSET feasible]
      /\ excluded \in [Worker -> SUBSET feasible]
      /\ front \in SUBSET feasible /\ exported \in SUBSET feasible
      /\ first \in SUBSET feasible /\ feasible \in SUBSET YPoint
      /\ Archived \in SUBSET feasible /\ server \in [Worker -> SUBSET feasible]
  BY Own, Given DEF TypeOK, Label, problem
<1>2. CASE mode.clauses
  <2>1. Sharing
    BY <1>2 DEF Sharing
  <2>2. \A p \in feasible : Covers(Archived \cup first, p) => Covers(Archived' \cup first, p)
    <3>1. \A p \in feasible : Covers(Archived, p) => Covers(Archived', p)
      BY <2>1, ArchivedStep
    <3> QED
      BY <3>1 DEF Covers
  <2>3. ASSUME NEW p \in exported PROVE Covers(Archived \cup first, p) /\ p \in feasible
    BY <1>1 DEF ExportsAreArchived, Archived, Covers
  <2>4. ASSUME ShareClauses(w), NEW p \in excluded[w]
        PROVE  Covers(Archived \cup first, p) /\ p \in feasible
    <3>1. Covers(Archived \cup first \cup solutions[w] \cup server[w], p) /\ p \in feasible
      BY <1>1, <1>2 DEF ExcludedInv
    <3>2. ASSUME NEW q \in solutions[w] PROVE Covers(Archived \cup first, q)
      <4>1. q \in feasible /\ q \in YPoint
        BY <1>1
      <4>2. CASE Unshared(w)
        <5>1. todo[w] # <<"harvest">>
          <6>1. todo[w] # <<>> /\ Head(todo[w]) = "clauses"
            BY <2>4 DEF ShareClauses, At
          <6> QED
            BY <6>1
        <5>2. \E i \in DOMAIN todo[w] : todo[w][i] = "solutions"
          BY <4>2, <5>1 DEF Unshared
        <5>3. q \in WillShare(w)
          BY <5>2 DEF WillShare
        <5>4. q \in Archived
          BY <5>3 DEF Archived
        <5> QED
          BY <4>1, <5>4, DominanceOrder DEF Covers
      <4>3. CASE ~ Unshared(w)
        <5>1. Covers(front, q)
          BY <2>1, <4>3 DEF SharedInv
        <5>2. front \subseteq Archived
          BY DEF Archived
        <5> QED
          BY <5>1, <5>2 DEF Covers
      <4> QED
        BY <4>2, <4>3
    <3>3. ASSUME NEW q \in server[w] PROVE Covers(Archived \cup first, q)
      <4>1. ~ At(w, "serverSolutions")
        BY <2>4 DEF ShareClauses, At
      <4>2. Covers(front, q)
        BY <1>2, <4>1 DEF ServerInv
      <4>3. front \subseteq Archived
        BY DEF Archived
      <4> QED
        BY <4>2, <4>3 DEF Covers
    <3>4. \A q \in Archived \cup first \cup solutions[w] \cup server[w] :
             Covers(Archived \cup first, q)
      <4>1. \A q \in Archived \cup first : Covers(Archived \cup first, q)
        BY <1>1, DominanceOrder DEF Covers
      <4> QED
        BY <3>2, <3>3, <4>1
    <3>5. /\ Archived \cup first \cup solutions[w] \cup server[w] \in SUBSET YPoint
          /\ Archived \cup first \in SUBSET YPoint /\ p \in YPoint
      BY <1>1, <3>1
    <3> QED
      BY <3>1, <3>4, <3>5, CoversMore
  <2>5. ASSUME NEW p \in exported' PROVE Covers(Archived' \cup first, p)
    <3>1. p \in exported \/ (ShareClauses(w) /\ p \in excluded[w])
      <4>1. CASE ShareClauses(w)
        <5>1. PICK learnt \in {{}, excluded[w]} : exported' = exported \cup learnt
          BY <1>2, <4>1 DEF ShareClauses
        <5> QED
          BY <2>5, <4>1, <5>1
      <4>2. CASE ~ ShareClauses(w)
        <5>1. exported' = exported
          BY <4>2, Actions DEF Moves, Finds, Slides, ShareSolutions, ShareServerSolutions,
                               Incorporate, Request, FirstSolution, Fail, Conclude, Interrupted,
                               sharing
        <5> QED
          BY <2>5, <5>1
      <4> QED
        BY <4>1, <4>2
    <3>2. Covers(Archived \cup first, p) /\ p \in feasible
      BY <2>3, <2>4, <3>1
    <3> QED
      BY <2>2, <3>2
  <2>6. \A p \in exported' : Covers((front \cup first \cup UNION {WillShare(v) : v \in Worker})', p)
    <3>1. (front \cup first \cup UNION {WillShare(v) : v \in Worker})' = Archived' \cup first
      BY <1>1 DEF Archived
    <3> QED
      BY <2>5, <3>1
  <2> QED
    BY <2>6 DEF ExportsAreArchived, Covers, dominates
<1>3. CASE ~ mode.clauses
  <2>1. ExcludedInv'
    BY ExcludedStep
  <2>2. exported' = {}
    BY <1>1, <1>3, <2>1 DEF ExcludedInv
  <2> QED
    BY <2>2 DEF ExportsAreArchived
<1> QED
  BY <1>2, <1>3

-----------------------------------------------------------------------------
(***************************************************************************)
(* A member with nothing left to find, unless it is told to stop, has what *)
(* it needs to answer: what its clauses rest on beats every solution.      *)
(***************************************************************************)
LEMMA AtTheEnd ==
    ASSUME TypeOK, PlanInv, EndInv, ExcludedInv, NEW w \in Worker, Conclude(w)
    PROVE  /\ ~ Leaving(w)
           /\ feasible # {} => At(w, "return") /\ ~ stopSearch
           /\ \A p \in feasible : Covers(Known(w), p)
           /\ server[w] = {}
           /\ feasible # {} /\ Is(w, "pmin") => answers[w] # "unknown"
           /\ solutions'[w] = FinalSolutions(w) /\ answers'[w] = AnswerOf(w)
           /\ \A v \in Worker : v # w => todo'[v] = todo[v] /\ answers'[v] = answers[v]
<1>1. "return" \in Calls /\ "conclude" \in Calls
  BY DEF Calls
<1>2. At(w, "conclude") => feasible = {}
  BY <1>1, AtEnd DEF EndInv
<1>3. At(w, "return") /\ ~ stopSearch =>
         feasible \subseteq excluded[w] /\ (Is(w, "pmin") => answers[w] # "unknown")
  BY <1>1, AtEnd DEF EndInv
<1>4. At(w, "conclude") \/ (At(w, "return") /\ ~ stopSearch)
  BY DEF Conclude
<1>5. \A p \in feasible : Covers(Known(w), p)
  <2>1. \A p \in excluded[w] : Covers(Known(w), p)
    BY KnownFacts
  <2> QED
    BY <1>2, <1>3, <1>4, <2>1
<1>6. solutions'[w] = FinalSolutions(w) /\ answers'[w] = AnswerOf(w)
  BY DEF Conclude, TypeOK
<1>7. ASSUME NEW v \in Worker, v # w
      PROVE  todo'[v] = todo[v] /\ answers'[v] = answers[v]
  <2>1. /\ todo' = [todo EXCEPT ![w] = todo'[w]]
        /\ answers' = [answers EXCEPT ![w] = AnswerOf(w)]
    BY Leaves DEF Conclude
  <2> QED
    BY <1>7, <2>1 DEF TypeOK
<1>8. server[w] = {}
  <2>1. ASSUME At(w, "return"), ~ stopSearch PROVE server[w] = {}
    <3>1. todo[w] = <<"return">> /\ Searching(w, "return")
      BY <1>1, <2>1, AtEnd
    <3>2. ~ WillIncorporate(w)
      BY <3>1 DEF WillIncorporate
    <3> QED
      BY <2>1, <3>1, <3>2 DEF EndInv
  <2>2. feasible = {} => server[w] = {}
    BY DEF TypeOK
  <2> QED
    BY <1>2, <1>4, <2>1, <2>2
<1> QED
  BY <1>2, <1>3, <1>4, <1>5, <1>6, <1>7, <1>8, AtReturn

(***************************************************************************)
(* What a member ends with covers what its clauses rest on, unless that is *)
(* archived.                                                               *)
(***************************************************************************)
LEMMA FinalCovers ==
    ASSUME TypeOK, Sound, NEW w \in Worker, server[w] = {}, NEW p \in feasible,
           Covers(Known(w), p)
    PROVE  Covers(FinalSolutions(w), p) \/ (mode.clauses /\ Covers(Archived, p))
<1>1. /\ solutions[w] \in SUBSET feasible /\ first \in SUBSET feasible
      /\ mode.clauses \in BOOLEAN
  BY Given DEF TypeOK
<1>2. CASE Is(w, "pmin")
  <2>1. ~ mode.clauses
    BY <1>2 DEF Sound
  <2>2. Known(w) = solutions[w]
    BY <1>2, <2>1 DEF Known, Is
  <2> QED
    BY <1>2, <2>2 DEF FinalSolutions
<1>3. CASE ~ Is(w, "pmin")
  <2>1. Covers(solutions[w] \cup first, p) => Covers(FinalSolutions(w), p)
    BY <1>1, <1>3, PushFacts DEF FinalSolutions
  <2>2. CASE mode.clauses
    <3>1. Covers(Archived \cup (first \cup solutions[w]), p)
      BY <2>2 DEF Known, Covers
    <3>2. Covers(Archived, p) \/ Covers(solutions[w] \cup first, p)
      BY <3>1 DEF Covers
    <3> QED
      BY <2>1, <2>2, <3>2
  <2>3. CASE ~ mode.clauses
    <3>1. Known(w) \subseteq solutions[w] \cup first
      BY <2>3 DEF Known
    <3>2. Covers(solutions[w] \cup first, p)
      BY <3>1 DEF Covers
    <3> QED
      BY <2>1, <3>2
  <2> QED
    BY <2>2, <2>3
<1> QED
  BY <1>2, <1>3

(***************************************************************************)
(* Whoever answers, answers right.                                         *)
(***************************************************************************)
LEMMA AgreeStep ==
    ASSUME TypeOK, PlanInv, EndInv, AnswerInv, FrontInv, ServerInv, ExcludedInv, Sound,
           AnswersAgree,
           NEW w \in Worker, Search(w)
    PROVE  AnswersAgree'
<1>1. /\ UNCHANGED <<mode, feasible, first>>
      /\ answers' = [answers EXCEPT ![w] = answers'[w]]
      /\ answers \in [Worker -> {"unknown", "interrupted", "unsatisfiable", "optimum"}]
      /\ solutions \in [Worker -> SUBSET feasible]
      /\ front \in SUBSET feasible /\ first \in SUBSET feasible
  BY Own, Given DEF TypeOK, problem
<1>2. answers[w] # "interrupted" /\ answers[w] \in {"unknown", RightAnswer}
  BY Active DEF AnswerInv, AnswersAgree
<1>3. answers'[w] \in {"unknown", "interrupted", RightAnswer}
  <2>1. CASE Fail(w)
    <3>1. "fail" \in Calls /\ At(w, "fail")
      BY <2>1 DEF Fail, Calls
    <3>2. feasible = {}
      BY <3>1, AtEnd DEF EndInv
    <3> QED
      BY <1>1, <2>1, <3>2 DEF Fail, RightAnswer
  <2>2. CASE Interrupted(w)
    BY <1>1, <2>2 DEF Interrupted
  <2>3. CASE SolveUnsat(w)
    <3>1. At(w, "solve") /\ "solve" \in Calls /\ feasible \subseteq excluded[w]
      BY <2>3 DEF SolveUnsat, Calls, Open
    <3>2. mode.kind[w] = "pmin"
      BY <3>1, AtEnd, Given, Kind
    <3>3. ~ mode.clauses /\ Is(w, "pmin") /\ ~ Is(w, "sd")
      BY <3>2 DEF Sound, Is
    <3>4. \A p \in excluded[w] : Covers(solutions[w], p)
      <4>1. server[w] = {}
        BY <3>3 DEF ServerInv
      <4>2. \A p \in excluded[w] : Covers(solutions[w] \cup server[w] \cup {}, p)
        BY <3>3 DEF ExcludedInv
      <4> QED
        BY <4>1, <4>2
    <3>5. solutions[w] = {} <=> feasible = {}
      BY <1>1, <3>1, <3>4 DEF Covers
    <3> QED
      BY <1>1, <2>3, <3>5 DEF SolveUnsat, RightAnswer
  <2>4. CASE Conclude(w)
    <3>1. answers'[w] = AnswerOf(w)
      BY <2>4, AtTheEnd
    <3>2. CASE feasible = {}
      <4>1. solutions[w] = {} /\ front = {} /\ first = {}
        BY <1>1, <3>2
      <4>2. FinalSolutions(w) = {}
        <5>1. PushSafe({}, {}) = {}
          BY DEF PushSafe, NonDominated
        <5> QED
          BY <4>1, <5>1 DEF FinalSolutions
      <4> QED
        BY <3>1, <3>2, <4>1, <4>2 DEF AnswerOf, RightAnswer
    <3>3. CASE feasible # {}
      <4>1. PICK p \in feasible : TRUE
        BY <3>3
      <4>2. CASE Is(w, "pmin")
        <5>1. ~ mode.clauses
          BY <4>2 DEF Sound
        <5>2. Covers(Known(w), p) /\ answers[w] # "unknown" /\ server[w] = {}
          BY <2>4, <3>3, <4>1, <4>2, AtTheEnd
        <5>3. Covers(FinalSolutions(w), p)
          BY <4>1, <5>1, <5>2, FinalCovers
        <5>4. FinalSolutions(w) # {}
          BY <5>3 DEF Covers
        <5> QED
          BY <1>2, <3>1, <4>2, <5>2, <5>4 DEF AnswerOf
      <4>3. CASE ~ Is(w, "pmin")
        <5>1. PICK q \in first : TRUE
          BY <3>3 DEF FrontInv
        <5>2. q \in feasible /\ q \in YPoint /\ Covers(solutions[w] \cup first, q)
          BY <1>1, <5>1, Given, DominanceOrder DEF Covers
        <5>3. Covers(FinalSolutions(w), q)
          BY <1>1, <4>3, <5>2, PushFacts DEF FinalSolutions
        <5>4. FinalSolutions(w) # {}
          BY <5>3 DEF Covers
        <5> QED
          BY <3>1, <3>3, <4>3, <5>4 DEF AnswerOf, RightAnswer
      <4> QED
        BY <4>2, <4>3
    <3> QED
      BY <3>2, <3>3
  <2>5. CASE ~ (Fail(w) \/ Interrupted(w) \/ SolveUnsat(w) \/ Conclude(w))
    <3>1. answers' = answers
      BY <2>5, Actions DEF Moves, Finds, Slides, ShareClauses, ShareSolutions,
                           ShareServerSolutions, Incorporate, Request, FirstSolution
    <3> QED
      BY <1>2, <3>1
  <2> QED
    BY <2>1, <2>2, <2>3, <2>4, <2>5
<1>4. ASSUME NEW v \in Worker
      PROVE  answers'[v] \in {"unknown", "interrupted", RightAnswer}
  BY <1>1, <1>3 DEF AnswersAgree
<1>5. RightAnswer' = RightAnswer
  BY <1>1 DEF RightAnswer
<1> QED
  BY <1>4, <1>5 DEF AnswersAgree

(***************************************************************************)
(* Whoever answers leaves nothing to be found, and that stays so.          *)
(***************************************************************************)
LEMMA CompleteStep ==
    ASSUME TypeOK, PlanInv, EndInv, AnswerInv, SharedInv, ExcludedInv, Sound, CompleteInv,
           NEW w \in Worker, Search(w)
    PROVE  CompleteInv'
<1>1. /\ UNCHANGED <<mode, feasible, first>>
      /\ todo' = [todo EXCEPT ![w] = todo'[w]]
      /\ answers' = [answers EXCEPT ![w] = answers'[w]]
      /\ solutions' = [solutions EXCEPT ![w] = solutions'[w]]
      /\ \A p \in feasible : Covers(solutions[w], p) => Covers(solutions'[w], p)
      /\ todo \in [Worker -> Seq(Label)] /\ solutions \in [Worker -> SUBSET feasible]
      /\ answers \in [Worker -> {"unknown", "interrupted", "unsatisfiable", "optimum"}]
  BY Own DEF TypeOK, Label, problem
<1>2. Sharing' <=> Sharing
  BY <1>1 DEF Sharing
<1>3. Sharing => \A p \in feasible : Covers(Archived, p) => Covers(Archived', p)
  BY ArchivedStep
<1>4. ASSUME NEW v \in Worker, Leaving(v), answers[v] = "optimum", NEW p \in feasible
      PROVE  Covers(IF Sharing THEN Archived' ELSE solutions'[v], p)
  <2>1. Covers(IF Sharing THEN Archived ELSE solutions[v], p)
    BY <1>4 DEF CompleteInv
  <2>2. CASE Sharing
    BY <1>3, <2>1, <2>2
  <2>3. CASE ~ Sharing
    BY <1>1, <2>1, <2>3
  <2> QED
    BY <2>2, <2>3
<1>5. ASSUME Conclude(w), NEW p \in feasible
      PROVE  Covers(IF Sharing THEN Archived' ELSE solutions'[w], p)
  <2>1. Covers(Known(w), p) /\ solutions'[w] = FinalSolutions(w) /\ server[w] = {}
    BY <1>5, AtTheEnd
  <2>2. Covers(solutions'[w], p) \/ (mode.clauses /\ Covers(Archived, p))
    BY <2>1, FinalCovers
  <2>3. \E i \in DOMAIN todo'[w] : todo'[w][i] = "solutions"
    BY <1>5, Leaves DEF Conclude
  <2>4. solutions'[w] \subseteq Archived'
    BY <2>3 DEF Archived, WillShare
  <2>5. Covers(solutions'[w], p) => Covers(Archived', p)
    BY <2>4 DEF Covers
  <2> QED
    BY <1>3, <2>2, <2>5 DEF Sharing
<1>6. ASSUME NEW v \in Worker, Leaving(v)', answers'[v] = "optimum", NEW p \in feasible
      PROVE  Covers(IF Sharing THEN Archived' ELSE solutions'[v], p)
  <2>1. CASE v # w
    <3>1. todo'[v] = todo[v] /\ answers'[v] = answers[v]
      BY <1>1, <2>1
    <3> QED
      BY <1>4, <1>6, <3>1 DEF Leaving
  <2>2. CASE v = w
    <3>1. CASE Leaving(w) /\ (ShareSolutions(w) \/ Request(w))
      <4>1. answers' = answers
        BY <3>1 DEF ShareSolutions, Request
      <4> QED
        BY <1>4, <1>6, <2>2, <3>1, <4>1
    <3>2. CASE Conclude(w)
      BY <1>5, <2>2, <3>2
    <3>3. CASE Fail(w) \/ Interrupted(w)
      BY <1>1, <1>6, <2>2, <3>3 DEF Fail, Interrupted
    <3>4. CASE \E label \in Calls : Onward(w, label)
      BY <1>1, <1>6, <2>2, <3>4, NotLeaving DEF Onward, Leaving
    <3> QED
      BY <3>1, <3>2, <3>3, <3>4, Goes
  <2> QED
    BY <2>1, <2>2
<1>7. ASSUME NEW v \in Worker, Leaving(v)', answers'[v] = "optimum", NEW p \in feasible
      PROVE  Covers(IF Sharing THEN Archived ELSE solutions[v], p)'
  <2>1. CASE Sharing
    BY <1>2, <1>6, <1>7, <2>1 DEF Covers, dominates
  <2>2. CASE ~ Sharing
    BY <1>2, <1>6, <1>7, <2>2 DEF Covers, dominates
  <2> QED
    BY <2>1, <2>2
<1> QED
  BY <1>1, <1>7 DEF CompleteInv

-----------------------------------------------------------------------------
(***************************************************************************)
(* Somebody finishes, and of those who do, one is the last.                *)
(***************************************************************************)
LEMMA LastFinished ==
    ASSUME TypeOK, AnswerInv, \A w \in Worker : todo[w] = <<>>
    PROVE  /\ Finished # {}
           /\ (CHOOSE w \in Finished : \A v \in Finished : v <= w) \in Finished
           /\ \A w \in Finished : Leaving(w) /\ answers[w] \notin {"unknown", "interrupted"}
<1>1. ASSUME NEW w \in Worker PROVE Leaving(w)
  <2>1. todo[w] = <<>> /\ <<>> \in Seq({"request", "solutions"})
    OBVIOUS
  <2> QED
    BY <2>1 DEF Leaving
<1>2. Members \in Nat /\ 1 \in Worker
  BY PortfolioAssumption DEF Worker
<1>3. Finished # {}
  <2>1. CASE stopSearch
    BY <2>1 DEF AnswerInv, Finished
  <2>2. CASE ~ stopSearch
    <3>1. answers[1] # "interrupted"
      BY <1>2, <2>2 DEF AnswerInv
    <3> QED
      BY <1>2, <3>1 DEF Finished
  <2> QED
    BY <2>1, <2>2
<1>4. \E w \in Finished : \A v \in Finished : v <= w
  <2> DEFINE rest == {Members - w : w \in Finished}
  <2>1. \A w \in Finished : w \in Nat /\ Members - w \in Nat
    BY <1>2 DEF Finished, Worker
  <2>2. rest \in SUBSET Nat /\ rest # {}
    BY <1>3, <2>1
  <2>3. PICK m \in rest : \A n \in rest : m <= n
    BY <2>2, LeastNumber
  <2>4. PICK w \in Finished : m = Members - w
    BY <2>3
  <2>5. ASSUME NEW v \in Finished PROVE v <= w
    <3>1. Members - w <= Members - v
      BY <2>3, <2>4
    <3> QED
      BY <1>2, <2>1, <3>1
  <2> QED
    BY <2>5
<1>5. (CHOOSE w \in Finished : \A v \in Finished : v <= w) \in Finished
  BY <1>4
<1>6. ASSUME NEW w \in Finished
      PROVE  Leaving(w) /\ answers[w] \notin {"unknown", "interrupted"}
  BY <1>1 DEF AnswerInv, Finished
<1> QED
  BY <1>3, <1>5, <1>6

(***************************************************************************)
(* When all have returned, the archive, or else what each member that      *)
(* finished has, is the Pareto front.                                      *)
(***************************************************************************)
LEMMA AllReturned ==
    ASSUME IInv, Sound, \A w \in Worker : todo[w] = <<>>
    PROVE  /\ \A w \in Finished : answers[w] = RightAnswer
           /\ IF Sharing THEN front = NonDominated(feasible)
              ELSE \A w \in Finished : solutions[w] = NonDominated(feasible)
<1>1. /\ TypeOK /\ AnswerInv /\ FrontInv /\ AnswersAgree /\ CompleteInv
      /\ feasible \in SUBSET YPoint
      /\ front \in SUBSET feasible /\ solutions \in [Worker -> SUBSET feasible]
  BY Given DEF IInv, TypeOK
<1>2. /\ Finished # {} /\ Finished \subseteq Worker
      /\ \A w \in Finished : Leaving(w) /\ answers[w] \notin {"unknown", "interrupted"}
  BY <1>1, LastFinished DEF Finished
<1>3. \A w \in Finished : answers[w] = RightAnswer
  BY <1>1, <1>2 DEF AnswersAgree
<1>4. Archived = front
  <2>1. ASSUME NEW w \in Worker PROVE WillShare(w) = {}
    <3>1. todo[w] = <<>>
      OBVIOUS
    <3>2. ~ \E i \in DOMAIN todo[w] : todo[w][i] = "solutions"
      BY <3>1
    <3> QED
      BY <3>2 DEF WillShare
  <2> QED
    BY <2>1 DEF Archived
<1>5. ASSUME NEW w \in Finished, NEW p \in feasible
      PROVE  Covers(IF Sharing THEN front ELSE solutions[w], p)
  <2>1. answers[w] = "optimum"
    BY <1>3 DEF RightAnswer
  <2> QED
    BY <1>1, <1>2, <1>4, <2>1 DEF CompleteInv
<1>6. CASE Sharing
  <2>1. \A p \in feasible : Covers(front, p)
    BY <1>2, <1>5, <1>6
  <2>2. IsAntichain(front)
    BY <1>1 DEF FrontInv
  <2>3. front = NonDominated(feasible)
    BY <1>1, <2>1, <2>2, FrontOf
  <2> QED
    BY <1>3, <1>6, <2>3
<1>7. CASE ~ Sharing
  <2>1. ASSUME NEW w \in Finished PROVE solutions[w] = NonDominated(feasible)
    <3>1. \A p \in feasible : Covers(solutions[w], p)
      BY <1>5, <1>7
    <3>2. IsAntichain(solutions[w]) /\ solutions[w] \in SUBSET feasible
      BY <1>1, <1>2 DEF FrontInv
    <3> QED
      BY <1>1, <3>1, <3>2, FrontOf
  <2> QED
    BY <1>3, <1>7, <2>1
<1> QED
  BY <1>6, <1>7

(***************************************************************************)
(* The invariant holds at the start.                                       *)
(***************************************************************************)
LEMMA Starting == Init => IInv
<1> SUFFICES ASSUME Init PROVE IInv
  OBVIOUS
<1>1. /\ mode \in Modes /\ feasible \in Problem /\ first \subseteq feasible
      /\ feasible # {} => first # {}
      /\ exported = {} /\ front = {} /\ unread = [w \in Worker |-> {}]
      /\ stopSearch = FALSE /\ answerType = "unknown"
      /\ \A w \in Worker : /\ todo[w] = <<"first">> /\ solutions[w] = {} /\ excluded[w] = {}
                           /\ server[w] = {} /\ answers[w] = "unknown"
  BY DEF Init, Archive!Init
<1>2. "first" \in Calls
  BY DEF Calls
<1>3. <<"first">> \in Seq(Label) /\ LeadsTo(<<"first">>, "first")
  BY <1>2, Plans
<1>4. TypeOK
  <2>1. todo \in [Worker -> Seq(Calls \cup Steps \cup {"request"})]
    BY <1>3 DEF Init, Label
  <2> QED
    BY <1>1, <2>1 DEF Init, TypeOK
<1>5. ASSUME NEW w \in Worker
      PROVE  /\ ~ Leaving(w)
             /\ \A label : Searching(w, label) <=> label = "first"
             /\ "first" \in Ends[mode.kind[w]]
  <2>1. ~ Leaving(w)
    BY <1>1, <1>2, <1>3, NotLeaving DEF Leaving
  <2>2. \A label : Searching(w, label) <=> label = "first"
    BY <1>1, <1>3 DEF Searching, LeadsTo
  <2> QED
    BY <1>4, <2>1, <2>2, Given, Kind
<1>6. PlanInv
  BY <1>5 DEF PlanInv
<1>7. EndInv
  BY <1>1, <1>5 DEF EndInv
<1>8. AnswerInv
  BY <1>1, <1>5 DEF AnswerInv
<1>9. FrontInv
  BY <1>1 DEF FrontInv, IsAntichain
<1>10. SharedInv
  BY <1>1 DEF SharedInv
<1>11. ServerInv /\ ExcludedInv
  BY <1>1 DEF ServerInv, ExcludedInv
<1>12. ExportsAreArchived
  BY <1>1 DEF ExportsAreArchived
<1>13. AnswersAgree
  BY <1>1 DEF AnswersAgree
<1>14. CompleteInv
  BY <1>5 DEF CompleteInv
<1>15. AnswerIsCorrect
  BY <1>1 DEF AnswerIsCorrect
<1> QED
  BY <1>4, <1>6, <1>7, <1>8, <1>9, <1>10, <1>11, <1>12, <1>13, <1>14, <1>15 DEF IInv

(***************************************************************************)
(* The invariant is kept by the members, and when the portfolio answers.   *)
(***************************************************************************)
LEMMA Step ==
    ASSUME IInv, [Next]_vars
    PROVE  IInv'
<1>1. CASE \E w \in Worker : Search(w)
  <2>1. PICK w \in Worker : Search(w)
    BY <1>1
  <2>2. /\ TypeOK /\ PlanInv /\ EndInv /\ AnswerInv /\ FrontInv /\ SharedInv /\ ServerInv
        /\ ExcludedInv /\ ExportsAreArchived
    BY DEF IInv
  <2>3. TypeOK' /\ PlanInv'
    BY <2>1, <2>2, PlanStep
  <2>4. EndInv' /\ AnswerInv' /\ FrontInv'
    BY <2>1, <2>2, EndStep, AnswerStep, Common
  <2>5. SharedInv' /\ ServerInv' /\ ExcludedInv' /\ ExportsAreArchived'
    BY <2>1, <2>2, SharedStep, ServerStep, ExcludedStep, ExportStep
  <2>6. ASSUME Sound' PROVE AnswersAgree' /\ CompleteInv' /\ AnswerIsCorrect'
    <3>1. UNCHANGED <<mode, answerType>> /\ answerType = "unknown"
      BY <2>1, <2>2, Own, Active DEF problem
    <3>2. Sound
      BY <2>6, <3>1 DEF Sound, Is
    <3>3. AnswersAgree /\ CompleteInv
      BY <3>2 DEF IInv
    <3>4. AnswersAgree' /\ CompleteInv'
      BY <2>1, <2>2, <3>2, <3>3, AgreeStep, CompleteStep
    <3>5. AnswerIsCorrect'
      BY <3>1 DEF AnswerIsCorrect
    <3> QED
      BY <3>4, <3>5
  <2> QED
    BY <2>3, <2>4, <2>5, <2>6 DEF IInv
<1>2. ASSUME UNCHANGED <<problem, todo, found, excluded, sharing, stopSearch, answers>>,
             answerType' \in {"unknown", "none", "unsatisfiable", "optimum"},
             \A w \in Worker : At(w, "serverSolutions")' <=> At(w, "serverSolutions"),
             Sound => AnswerIsCorrect'
      PROVE  IInv'
  <2>1. /\ TypeOK /\ PlanInv /\ EndInv /\ AnswerInv /\ FrontInv /\ SharedInv /\ ServerInv
        /\ ExcludedInv /\ ExportsAreArchived
    BY DEF IInv
  <2>2. /\ UNCHANGED <<mode, feasible, first, todo, solutions, server, excluded, exported, front>>
        /\ UNCHANGED <<unread, stopSearch, answers>>
    BY <1>2 DEF problem, found, sharing
  <2>3. \A w : /\ Leaving(w)' <=> Leaving(w)
               /\ \A label : Searching(w, label)' <=> Searching(w, label)
               /\ WillShare(w)' = WillShare(w)
               /\ Unshared(w)' <=> Unshared(w)
               /\ WillIncorporate(w)' <=> WillIncorporate(w)
               /\ \A kind : Is(w, kind)' <=> Is(w, kind)
    BY <2>2 DEF Leaving, Searching, WillShare, Unshared, WillIncorporate, Is
  <2>4. TypeOK'
    BY <1>2, <2>1, <2>2 DEF TypeOK
  <2>5. PlanInv'
    BY <2>1, <2>2, <2>3 DEF PlanInv
  <2>6. EndInv'
    BY <2>1, <2>2, <2>3 DEF EndInv
  <2>7. AnswerInv'
    BY <2>1, <2>2, <2>3 DEF AnswerInv
  <2>8. FrontInv'
    BY <2>1, <2>2 DEF FrontInv, IsAntichain
  <2>9. (Sharing' <=> Sharing) /\ Archived' = Archived
    BY <2>2, <2>3 DEF Sharing, Archived
  <2>10. SharedInv'
    BY <2>1, <2>2, <2>3, <2>9 DEF SharedInv, Covers, dominates
  <2>11. ServerInv'
    BY <1>2, <2>1, <2>2, <2>3 DEF ServerInv, Covers, dominates
  <2>12. ExcludedInv'
    BY <2>1, <2>2, <2>3, <2>9 DEF ExcludedInv, Covers, dominates
  <2>13. ExportsAreArchived'
    BY <2>1, <2>2, <2>3 DEF ExportsAreArchived, Covers, dominates
  <2>14. ASSUME Sound' PROVE AnswersAgree' /\ CompleteInv' /\ AnswerIsCorrect'
    <3>1. Sound
      BY <2>2, <2>3, <2>14 DEF Sound
    <3>2. AnswersAgree /\ CompleteInv
      BY <3>1 DEF IInv
    <3>3. AnswersAgree'
      BY <2>2, <3>2 DEF AnswersAgree, RightAnswer
    <3>4. CompleteInv'
      BY <2>2, <2>3, <2>9, <3>2 DEF CompleteInv, Covers, dominates
    <3> QED
      BY <1>2, <3>1, <3>3, <3>4
  <2> QED
    BY <2>4, <2>5, <2>6, <2>7, <2>8, <2>10, <2>11, <2>12, <2>13, <2>14 DEF IInv
<1>3. CASE Answer
  <2> DEFINE last == CHOOSE w \in Finished : \A v \in Finished : v <= w
  <2>1. /\ UNCHANGED <<problem, todo, found, excluded, sharing, stopSearch, answers>>
        /\ \A w \in Worker : todo[w] = <<>>
        /\ answerType' = IF Finished = {} THEN "none" ELSE answers[last]
    BY <1>3 DEF Answer
  <2>2. TypeOK /\ AnswerInv
    BY DEF IInv
  <2>3. /\ Finished # {} /\ last \in Finished
        /\ \A w \in Finished : answers[w] \notin {"unknown", "interrupted"}
    BY <2>1, <2>2, LastFinished
  <2> HIDE DEF last
  <2>4. answerType' = answers[last] /\ last \in Worker
    BY <2>1, <2>3 DEF Finished
  <2>5. answerType' \in {"unsatisfiable", "optimum"}
    BY <2>2, <2>3, <2>4 DEF TypeOK
  <2>6. ASSUME Sound PROVE AnswerIsCorrect'
    <3>1. /\ \A w \in Finished : answers[w] = RightAnswer
          /\ IF Sharing THEN front = NonDominated(feasible)
             ELSE \A w \in Finished : solutions[w] = NonDominated(feasible)
      BY <2>1, <2>6, AllReturned
    <3>2. answerType' = RightAnswer
      BY <2>3, <2>4, <3>1
    <3>3. UNCHANGED <<mode, feasible, first, solutions, front, answers>>
      BY <2>1 DEF problem, found, sharing
    <3>4. /\ (Sharing' <=> Sharing) /\ Finished' = Finished /\ RightAnswer' = RightAnswer
          /\ NonDominated(feasible)' = NonDominated(feasible)
      BY <3>3 DEF Sharing, Finished, RightAnswer, NonDominated, dominates
    <3> QED
      BY <3>1, <3>2, <3>3, <3>4 DEF AnswerIsCorrect
  <2>7. \A w \in Worker : At(w, "serverSolutions")' <=> At(w, "serverSolutions")
    BY <2>1 DEF At
  <2> QED
    BY <1>2, <2>1, <2>5, <2>6, <2>7
<1>4. CASE UNCHANGED vars
  <2>1. /\ UNCHANGED <<problem, todo, found, excluded, sharing, stopSearch, answers>>
        /\ UNCHANGED answerType
    BY <1>4 DEF vars
  <2>2. answerType \in {"unknown", "none", "unsatisfiable", "optimum"}
    BY DEF IInv, TypeOK
  <2>3. ASSUME Sound PROVE AnswerIsCorrect'
    <3>1. AnswerIsCorrect
      BY <2>3 DEF IInv
    <3>2. UNCHANGED <<mode, feasible, solutions, front, answers, answerType>>
      BY <2>1 DEF problem, found, sharing
    <3> QED
      BY <3>1, <3>2 DEF AnswerIsCorrect, Sharing, Finished, RightAnswer, NonDominated, dominates
  <2>4. \A w \in Worker : At(w, "serverSolutions")' <=> At(w, "serverSolutions")
    BY <2>1 DEF At
  <2> QED
    BY <1>2, <2>1, <2>2, <2>3, <2>4
<1> QED
  BY <1>1, <1>3, <1>4 DEF Next

-----------------------------------------------------------------------------
(***************************************************************************)
(* The inductive invariant, for any number of members of any kinds.        *)
(***************************************************************************)
THEOREM PortfolioInvariant == Spec => []IInv
<1>1. Init => IInv
  BY Starting
<1>2. IInv /\ [Next]_vars => IInv'
  BY Step
<1> QED
  BY <1>1, <1>2, PTL DEF Spec

(***************************************************************************)
(* What the shared learnt clauses rest on is archived, known from the      *)
(* start, or about to be shared by a member that does not stop before      *)
(* (Algorithm::shareClauses, and the order of calls in each search).       *)
(***************************************************************************)
THEOREM Exports == Spec => []ExportsAreArchived
<1>1. IInv => ExportsAreArchived
  BY DEF IInv
<1> QED
  BY <1>1, PortfolioInvariant, PTL

(***************************************************************************)
(* Unless clauses are shared with PMinimalMO, members that finish agree,   *)
(* however many do before they see the flag (Algorithm::hasStopSearch).    *)
(***************************************************************************)
THEOREM Agreement == Spec => [](Sound => AnswersAgree)
<1>1. IInv => (Sound => AnswersAgree)
  BY DEF IInv
<1> QED
  BY <1>1, PortfolioInvariant, PTL

(***************************************************************************)
(* Unless clauses are shared with PMinimalMO, the portfolio's answer is    *)
(* the formula's, and what is printed is the Pareto front                  *)
(* (PortfolioMO::searchPortfolioMO, printAnswer).                          *)
(***************************************************************************)
THEOREM Correctness == Spec => [](Sound => AnswerIsCorrect)
<1>1. IInv => (Sound => AnswerIsCorrect)
  BY DEF IInv
<1> QED
  BY <1>1, PortfolioInvariant, PTL

(***************************************************************************)
(* A call of the archive with points that do not beat each other is one    *)
(* that it makes a promise about.                                          *)
(***************************************************************************)
LEMMA Promised ==
    ASSUME NEW w \in Worker, NEW S \in SUBSET YPoint, IsAntichain(S), Archive!Sync(w, S)
    PROVE  Archive!Next
<1>1. S \in SUBSET Archive!YPoint /\ Archive!IsAntichain(S)
  BY DEF IsAntichain, dominates, YPoint, Archive!IsAntichain, Archive!dominates,
         Archive!YPoint
<1> QED
  BY <1>1 DEF Archive!Next

(***************************************************************************)
(* The members use the archive as it promises to work: what happens to it  *)
(* is a behaviour of SharedFront (PBtoCNF::shareSolutions).                *)
(***************************************************************************)
THEOREM UsesArchive == Spec => ArchiveSpec
<1>1. Init => Archive!Init
  BY DEF Init
<1>2. ASSUME IInv, Next
      PROVE  Archive!Next \/ UNCHANGED <<front, unread>>
  <2>1. ASSUME NEW w \in Worker, ShareSolutions(w), Sharing
        PROVE  Archive!Next
    <3>1. Archive!Sync(w, solutions[w])
      BY <2>1 DEF ShareSolutions
    <3>2. IsAntichain(solutions[w])
      BY <1>2 DEF IInv, FrontInv
    <3>3. solutions[w] \subseteq feasible /\ feasible \subseteq YPoint
      BY <1>2, PortfolioAssumption DEF IInv, TypeOK
    <3> QED
      BY <3>1, <3>2, <3>3, Promised
  <2>2. ASSUME NEW w \in Worker, ShareServerSolutions(w), mode.clauses
        PROVE  Archive!Next
    <3>1. Archive!Sync(w, server[w])
      BY <2>2 DEF ShareServerSolutions
    <3>2. IsAntichain(server[w])
      BY <1>2 DEF IInv, FrontInv
    <3>3. server[w] \subseteq feasible /\ feasible \subseteq YPoint
      BY <1>2, PortfolioAssumption DEF IInv, TypeOK
    <3> QED
      BY <3>1, <3>2, <3>3, Promised
  <2>3. ASSUME NEW w \in Worker,
               (ShareSolutions(w) /\ ~ Sharing) \/ (ShareServerSolutions(w) /\ ~ mode.clauses)
        PROVE  UNCHANGED <<front, unread>>
    BY <2>3 DEF ShareSolutions, ShareServerSolutions
  <2>4. CASE Answer
    BY <2>4 DEF Answer, sharing
  <2>5. ASSUME NEW w \in Worker, Search(w), ~ ShareSolutions(w), ~ ShareServerSolutions(w)
        PROVE  UNCHANGED <<front, unread>>
    BY <2>5 DEF Search, FirstSolution, Fail, Conclude, Interrupted, ShareClauses, Request, Check,
                HarvestSat, HarvestUndef, HarvestUnsat, DescendSat, DescendUnsat, DescendUndef,
                SolveUnsat, Round, RoundStopped, SlideSat, SlideUnsat, SlideUndef,
                Incorporate, sharing
  <2> QED
    BY <1>2, <2>1, <2>2, <2>3, <2>4, <2>5 DEF Next
<1>3. ASSUME IInv, [Next]_vars
      PROVE  [Archive!Next]_<<front, unread>>
  BY <1>2, <1>3 DEF vars, sharing
<1> QED
  BY <1>1, <1>3, PortfolioInvariant, PTL DEF Spec, ArchiveSpec, Archive!Spec
=============================================================================
