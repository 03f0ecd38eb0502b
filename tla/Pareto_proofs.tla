----------------------------- MODULE Pareto_proofs -----------------------------
(***************************************************************************)
(* Facts about dominance, for the proofs about the searches.               *)
(***************************************************************************)
EXTENDS Pareto, FiniteSetTheorems, WellFoundedInduction, TLAPS

(***************************************************************************)
(* Dominance (pareto::dominates) is a partial order on points.             *)
(***************************************************************************)
LEMMA DominanceOrder ==
    /\ \A p \in YPoint : dominates(p, p)
    /\ \A p, q, r \in YPoint : dominates(p, q) /\ dominates(q, r) => dominates(p, r)
    /\ \A p, q \in YPoint : dominates(p, q) /\ dominates(q, p) => p = q
<1>1. \A p \in YPoint : \A o \in Obj : p[o] \in Nat
  BY ObjectiveAssumption DEF YPoint
<1>2. \A p \in YPoint : dominates(p, p)
  BY <1>1 DEF dominates
<1>3. ASSUME NEW p \in YPoint, NEW q \in YPoint, NEW r \in YPoint,
             dominates(p, q), dominates(q, r), NEW o \in Obj
      PROVE  p[o] <= r[o]
  <2>1. p[o] \in Nat /\ q[o] \in Nat /\ r[o] \in Nat
    BY <1>1
  <2>2. p[o] <= q[o] /\ q[o] <= r[o]
    BY <1>3 DEF dominates
  <2> QED
    BY <2>1, <2>2
<1>4. ASSUME NEW p \in YPoint, NEW q \in YPoint, dominates(p, q), dominates(q, p)
      PROVE  p = q
  <2>1. ASSUME NEW o \in Obj PROVE p[o] = q[o]
    <3>1. p[o] \in Nat /\ q[o] \in Nat
      BY <1>1
    <3>2. p[o] <= q[o] /\ q[o] <= p[o]
      BY <1>4 DEF dominates
    <3> QED
      BY <3>1, <3>2
  <2> QED
    BY <2>1 DEF YPoint
<1> QED
  BY <1>2, <1>3, <1>4 DEF dominates

(***************************************************************************)
(* A non-empty set of numbers has a least one: the encoding has a next key *)
(* wherever it has a greater one.                                          *)
(***************************************************************************)
LEMMA LeastNumber ==
    ASSUME NEW S \in SUBSET Nat, S # {}
    PROVE  \E m \in S : \A n \in S : m <= n
<1>1. \E m \in S : \A n \in S : ~ (<<n, m>> \in OpToRel(<, Nat))
  BY NatLessThanWellFounded, WFMin
<1>2. PICK m \in S : \A n \in S : ~ (<<n, m>> \in OpToRel(<, Nat))
  BY <1>1
<1>3. \A n \in S : ~ (n < m)
  BY <1>2 DEF OpToRel
<1> QED
  BY <1>3

\* The points of S that join the front F, and the members of F that they drop.
Joining(F, S) == {p \in S : ~ Covers(F, p)}
Dropped(F, S) == {q \in F : Covers(Joining(F, S), q)}

\* The front F after the points S have joined.
Joined(F, S) == (F \ Dropped(F, S)) \cup Joining(F, S)

(***************************************************************************)
(* What becomes of a front that a set of points joins                      *)
(* (SharedSolutionsArchive::pushSolutions): it is made of both, covers     *)
(* what both covered, and stays an antichain.                              *)
(***************************************************************************)
LEMMA JoinFacts ==
    ASSUME NEW F \in SUBSET YPoint, NEW S \in SUBSET YPoint
    PROVE  /\ Joined(F, S) \subseteq F \cup S
           /\ \A p \in YPoint : Covers(F \cup S, p) => Covers(Joined(F, S), p)
           /\ IsAntichain(F) /\ IsAntichain(S) => IsAntichain(Joined(F, S))
<1> DEFINE N == {p \in S : ~ Covers(F, p)}
<1> DEFINE B == {q \in F : Covers(N, q)}
<1> DEFINE G == Joined(F, S)
<1>0. G = (F \ B) \cup N
  BY DEF Joined, Joining, Dropped
<1> HIDE DEF G
<1>1. ASSUME NEW q \in F
      PROVE  Covers(G, q)
  BY <1>0, DominanceOrder DEF Covers
<1>2. ASSUME NEW q \in S
      PROVE  Covers(G, q)
  <2>1. CASE q \in N
    BY <1>0, <2>1, DominanceOrder DEF Covers
  <2>2. CASE q \notin N
    <3>1. PICK f \in F : dominates(f, q)
      BY <2>2 DEF Covers
    <3>2. PICK g \in G : dominates(g, f)
      BY <1>1 DEF Covers
    <3>3. g \in YPoint /\ f \in YPoint /\ q \in YPoint
      BY <1>0
    <3> QED
      BY <3>1, <3>2, <3>3, DominanceOrder DEF Covers
  <2> QED
    BY <2>1, <2>2
<1>3. ASSUME NEW p \in YPoint, Covers(F \cup S, p)
      PROVE  Covers(G, p)
  <2>1. PICK q \in F \cup S : dominates(q, p)
    BY <1>3 DEF Covers
  <2>2. PICK g \in G : dominates(g, q)
    BY <1>1, <1>2 DEF Covers
  <2>3. g \in YPoint /\ q \in YPoint
    BY <1>0
  <2> QED
    BY <2>1, <2>2, <2>3, DominanceOrder DEF Covers
<1>4. ASSUME IsAntichain(F), IsAntichain(S),
             NEW p \in G, NEW q \in G, dominates(p, q)
      PROVE  p = q
  <2>1. CASE p \in F \ B /\ q \in F \ B
    BY <2>1, <1>4 DEF IsAntichain
  <2>2. CASE p \in F \ B /\ q \in N
    BY <2>2, <1>4 DEF Covers
  <2>3. CASE p \in N /\ q \in F \ B
    BY <2>3, <1>4 DEF Covers
  <2>4. CASE p \in N /\ q \in N
    BY <2>4, <1>4 DEF IsAntichain
  <2> QED
    BY <1>0, <2>1, <2>2, <2>3, <2>4
<1>5. G \subseteq F \cup S
  BY <1>0
<1> QED
  BY <1>3, <1>4, <1>5 DEF G, IsAntichain

\* What the workers W have still to read after w has pushed S: U is what it was.
StillUnread(W, U, w, F, S) ==
    [v \in W |-> IF v = w THEN {} ELSE (U[v] \ Dropped(F, S)) \cup Joining(F, S)]

(***************************************************************************)
(* What a synchronisation does to what the workers have still to read      *)
(* (SharedSolutionsArchive::syncSolutions): it is part of the front, and   *)
(* what a worker has already seen is not new, but for what the caller has  *)
(* pulled and pushed itself.                                               *)
(***************************************************************************)
LEMMA Synchronised ==
    ASSUME NEW W, NEW w \in W, NEW F \in SUBSET YPoint, NEW S \in SUBSET YPoint,
           NEW U \in [W -> SUBSET YPoint]
    PROVE  /\ Joined(F, S) \in SUBSET YPoint
           /\ StillUnread(W, U, w, F, S) \in [W -> SUBSET YPoint]
           /\ (\A v \in W : U[v] \subseteq F)
                 => \A v \in W : StillUnread(W, U, w, F, S)[v] \subseteq Joined(F, S)
           /\ \A v \in W \ {w} : Joined(F, S) \ StillUnread(W, U, w, F, S)[v] \subseteq F \ U[v]
           /\ Joined(F, S) \ StillUnread(W, U, w, F, S)[w] \subseteq (F \ U[w]) \cup U[w] \cup S
<1> DEFINE V == StillUnread(W, U, w, F, S)
<1>1. V = [v \in W |-> IF v = w THEN {} ELSE (U[v] \ Dropped(F, S)) \cup Joining(F, S)]
  BY DEF StillUnread
<1>2. Joined(F, S) = (F \ Dropped(F, S)) \cup Joining(F, S) /\ Joining(F, S) \subseteq S
  BY DEF Joined, Joining
<1> HIDE DEF V
<1>3. Joined(F, S) \in SUBSET YPoint /\ V \in [W -> SUBSET YPoint]
  BY <1>1, <1>2
<1>4. ASSUME \A v \in W : U[v] \subseteq F, NEW v \in W
      PROVE  V[v] \subseteq Joined(F, S)
  BY <1>1, <1>2, <1>4
<1>5. /\ \A v \in W \ {w} : Joined(F, S) \ V[v] \subseteq F \ U[v]
      /\ Joined(F, S) \ V[w] \subseteq (F \ U[w]) \cup U[w] \cup S
  BY <1>1, <1>2
<1> QED
  BY <1>3, <1>4, <1>5 DEF V

\* The points of a front F and of the local fronts L of the workers W.
Together(W, F, L) == F \cup (UNION {L[v] : v \in W})

(***************************************************************************)
(* Pushing moves the local front of w into the archive (shareSolutions):   *)
(* nothing that was covered by a point of either is uncovered by it, and   *)
(* no point is new.                                                        *)
(***************************************************************************)
LEMMA Moved ==
    ASSUME NEW W, NEW w \in W, NEW F \in SUBSET YPoint, NEW L \in [W -> SUBSET YPoint],
           NEW G \in SUBSET (F \cup L[w]),
           \A p \in YPoint : Covers(F \cup L[w], p) => Covers(G, p)
    PROVE  /\ \A p \in YPoint : Covers(Together(W, F, L), p)
                                => Covers(Together(W, G, [L EXCEPT ![w] = {}]), p)
           /\ Together(W, G, [L EXCEPT ![w] = {}]) \subseteq Together(W, F, L)
<1> DEFINE Before == Together(W, F, L)
<1> DEFINE After == Together(W, G, [L EXCEPT ![w] = {}])
<1>1. After \subseteq Before
  BY DEF Together
<1>2. ASSUME NEW p \in YPoint, Covers(Before, p)
      PROVE  Covers(After, p)
  <2>1. PICK q \in Before : dominates(q, p)
    BY <1>2 DEF Covers
  <2>2. CASE q \in F \cup L[w]
    <3>1. Covers(G, p)
      BY <2>1, <2>2 DEF Covers
    <3> QED
      BY <3>1 DEF Covers, Together
  <2>3. CASE q \notin F \cup L[w]
    <3>1. q \in After
      BY <2>3 DEF Together
    <3> QED
      BY <2>1, <3>1 DEF Covers
  <2> QED
    BY <2>2, <2>3
<1> QED
  BY <1>1, <1>2

(***************************************************************************)
(* Points of solutions that cover all of them, and of which none beats     *)
(* another, are the Pareto front.                                          *)
(***************************************************************************)
LEMMA FrontOf ==
    ASSUME NEW P \in SUBSET YPoint, NEW F \in SUBSET P, IsAntichain(F),
           \A p \in P : Covers(F, p)
    PROVE  F = NonDominated(P)
<1>1. ASSUME NEW p \in F, NEW q \in P, dominates(q, p)
      PROVE  q = p
  <2>1. PICK f \in F : dominates(f, q)
    BY DEF Covers
  <2>2. f \in YPoint /\ q \in YPoint /\ p \in YPoint
    OBVIOUS
  <2>3. f = p
    BY <1>1, <2>1, <2>2, DominanceOrder DEF IsAntichain
  <2> QED
    BY <1>1, <2>1, <2>2, <2>3, DominanceOrder
<1>2. ASSUME NEW p \in NonDominated(P)
      PROVE  p \in F
  BY DEF NonDominated, Covers
<1> QED
  BY <1>1, <1>2 DEF NonDominated

(***************************************************************************)
(* In a finite set, what is beaten is beaten by a point that nothing       *)
(* beats: Solution::pushSafe drops points, but uncovers none.              *)
(***************************************************************************)
LEMMA NonDominatedCovers ==
    ASSUME NEW S \in SUBSET YPoint, IsFiniteSet(S)
    PROVE  /\ IsAntichain(NonDominated(S))
           /\ NonDominated(S) \subseteq S
           /\ \A p \in YPoint : Covers(S, p) => Covers(NonDominated(S), p)
<1> DEFINE Below(q) == {r \in S : dominates(r, q)}
<1>1. ASSUME NEW q \in S
      PROVE  IsFiniteSet(Below(q)) /\ Cardinality(Below(q)) \in Nat
  BY FS_Subset, FS_CardinalityType
<1>2. ASSUME NEW p \in YPoint, Covers(S, p)
      PROVE  Covers(NonDominated(S), p)
  <2> DEFINE sizes == {Cardinality(Below(q)) : q \in Below(p)}
  <2>1. sizes \in SUBSET Nat /\ sizes # {}
    BY <1>1, <1>2 DEF Covers
  <2>2. PICK m \in sizes : \A n \in sizes : m <= n
    BY <2>1, LeastNumber
  <2>3. PICK q \in Below(p) : m = Cardinality(Below(q))
    OBVIOUS
  <2>4. ASSUME NEW r \in S, dominates(r, q)
        PROVE  r = q
    <3>1. q \in S /\ q \in YPoint /\ r \in YPoint /\ dominates(q, p) /\ q \in Below(q)
      BY DominanceOrder
    <3>2. Below(r) \subseteq Below(q)
      BY <2>4, <3>1, DominanceOrder
    <3>3. r \in Below(p)
      BY <2>4, <3>1, DominanceOrder
    <3>4. Cardinality(Below(q)) <= Cardinality(Below(r))
      BY <2>2, <2>3, <3>3
    <3>5. Below(r) = Below(q)
      <4>1. IsFiniteSet(Below(q)) /\ Below(r) \in SUBSET Below(q)
        BY <1>1, <3>1, <3>2
      <4>2. /\ Cardinality(Below(r)) <= Cardinality(Below(q))
            /\ Cardinality(Below(q)) = Cardinality(Below(r)) => Below(q) = Below(r)
        BY <4>1, FS_Subset
      <4>3. Cardinality(Below(r)) \in Nat /\ Cardinality(Below(q)) \in Nat
        BY <1>1, <3>1
      <4> QED
        BY <3>4, <4>2, <4>3
    <3> QED
      BY <2>4, <3>1, <3>5, DominanceOrder
  <2>5. q \in NonDominated(S) /\ dominates(q, p)
    BY <2>4 DEF NonDominated
  <2> QED
    BY <2>5 DEF Covers
<1> QED
  BY <1>2 DEF NonDominated, IsAntichain
=============================================================================
