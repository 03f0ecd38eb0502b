--------------------------- MODULE ClauseBag_proofs ---------------------------
(***************************************************************************)
(* Proofs about ClauseBag, for every set of workers and every bound: the   *)
(* inductive invariant, exactly-once in-order delivery, and the            *)
(* implementation of the broadcast log.                                    *)
(***************************************************************************)
EXTENDS ClauseBag, TLAPS

(***************************************************************************)
(* Where the elements of a concatenation, and of a suffix, come from.      *)
(***************************************************************************)
LEMMA ConcatElements ==
    ASSUME NEW S, NEW s \in Seq(S), NEW t \in Seq(S)
    PROVE  /\ s \o t \in Seq(S)
           /\ Len(s \o t) = Len(s) + Len(t)
           /\ \A i \in 1 .. Len(s) + Len(t) :
                 (s \o t)[i] = IF i <= Len(s) THEN s[i] ELSE t[i - Len(s)]
    OBVIOUS

LEMMA SuffixElements ==
    ASSUME NEW S, NEW s \in Seq(S), NEW m \in Nat, m <= Len(s)
    PROVE  /\ SubSeq(s, m + 1, Len(s)) \in Seq(S)
           /\ Len(SubSeq(s, m + 1, Len(s))) = Len(s) - m
           /\ \A i \in 1 .. Len(s) - m : SubSeq(s, m + 1, Len(s))[i] = s[i + m]
    OBVIOUS

LEMMA TupleOf ==
    ASSUME NEW S, NEW k \in Nat, NEW f \in [1 .. k -> S]
    PROVE  f \in Seq(S) /\ Len(f) = k
    OBVIOUS

-----------------------------------------------------------------------------
(***************************************************************************)
(* One synchronisation in terms of the log: afterwards the deque has lost  *)
(* its first m clauses, the caller has read everything, and nobody else's  *)
(* place in the log has moved.                                             *)
(***************************************************************************)
LEMMA SyncEffect ==
    ASSUME IInv, NEW w \in Worker, NEW k \in 0 .. MaxBatch,
           SyncSharedClauses(w, k)
    PROVE  \E m \in Nat :
              /\ deque' \in Seq(Nat)
              /\ Len(deque') = Len(deque) + k - m
              /\ m <= Len(deque) + k
              /\ \A i \in 1 .. Len(deque') : deque'[i] = Base + m + i
              /\ last_seen_by_solver' \in [Worker -> Nat]
              /\ last_seen_by_solver'[w] = Len(deque) + k - m
              /\ \A v \in Worker \ {w} :
                    last_seen_by_solver'[v] = last_seen_by_solver[v] - m
              /\ \E v \in Worker : last_seen_by_solver'[v] = 0
<1> DEFINE seen == SeenAfter(w, k)
<1> k \in Nat
  BY ConstantsAssumption
<1>1. Len(Grab(w)) = Len(deque) - last_seen_by_solver[w]
  BY SuffixElements DEF Grab, IInv, TypeOK, SeenWithinDeque
<1>2. /\ seen \in [Worker -> Nat]
      /\ seen[w] = Len(deque) + k
      /\ \A v \in Worker \ {w} : seen[v] = last_seen_by_solver[v]
  BY <1>1 DEF SeenAfter, IInv, TypeOK
<1>3. /\ Pushed(k) \in Seq(Nat)
      /\ Len(Pushed(k)) = Len(deque) + k
      /\ \A i \in 1 .. Len(deque) + k : Pushed(k)[i] = Base + i
  <2> DEFINE new == [i \in 1 .. k |-> Len(log) + i]
  <2>1. new \in [1 .. k -> Nat]
    BY DEF IInv, TypeOK
  <2>2. new \in Seq(Nat) /\ Len(new) = k
    BY <2>1, TupleOf, Zenon
  <2> HIDE DEF new
  <2>3. \A i \in 1 .. k : new[i] = Len(log) + i
    BY DEF new
  <2>4. deque \in Seq(Nat) /\ log \in Seq(Worker)
    BY DEF IInv, TypeOK
  <2>5. Pushed(k) = deque \o new
    BY DEF Pushed, new
  <2>6. /\ deque \o new \in Seq(Nat)
        /\ Len(deque \o new) = Len(deque) + k
        /\ \A i \in 1 .. Len(deque) + k :
              (deque \o new)[i] = IF i <= Len(deque) THEN deque[i]
                                                    ELSE new[i - Len(deque)]
    BY <2>2, <2>4, ConcatElements
  <2>7. ASSUME NEW i \in 1 .. Len(deque) + k
        PROVE  (deque \o new)[i] = Base + i
    BY <2>3, <2>4, <2>6 DEF IInv, DequeIsLogSuffix, Base
  <2> QED
    BY <2>5, <2>6, <2>7
<1>4. PICK slowest \in Worker :
          /\ \A v \in Worker : seen[slowest] <= seen[v]
          /\ Clean(Pushed(k), seen, seen[slowest])
  BY DEF SyncSharedClauses
<1> DEFINE m == seen[slowest]
<1>5. m \in Nat /\ m <= Len(deque) + k
  BY <1>2, <1>4
<1>6. /\ deque' \in Seq(Nat)
      /\ Len(deque') = Len(deque) + k - m
      /\ \A i \in 1 .. Len(deque') : deque'[i] = Base + m + i
  <2>1. deque' = SubSeq(Pushed(k), m + 1, Len(Pushed(k)))
    BY <1>4 DEF Clean
  <2> DEFINE bag == Pushed(k)
  <2> HIDE DEF m, bag
  <2>2. bag \in Seq(Nat) /\ m \in Nat /\ m <= Len(bag)
    BY <1>3, <1>5 DEF bag
  <2>3. /\ SubSeq(bag, m + 1, Len(bag)) \in Seq(Nat)
        /\ Len(SubSeq(bag, m + 1, Len(bag))) = Len(bag) - m
        /\ \A i \in 1 .. Len(bag) - m : SubSeq(bag, m + 1, Len(bag))[i] = bag[i + m]
    BY <2>2, SuffixElements, Zenon
  <2>4. /\ deque' \in Seq(Nat)
        /\ Len(deque') = Len(bag) - m
        /\ \A i \in 1 .. Len(bag) - m : deque'[i] = bag[i + m]
    <3>1. deque' = SubSeq(bag, m + 1, Len(bag))
      BY <2>1 DEF bag
    <3> QED
      BY <2>3, <3>1, Zenon
  <2>5. /\ Len(bag) = Len(deque) + k
        /\ \A i \in 1 .. Len(deque) + k : bag[i] = Base + i
    BY <1>3 DEF bag
  <2>6. Len(deque) \in Nat /\ Base \in Int
    BY DEF IInv, TypeOK, Base
  <2>7. /\ deque' \in Seq(Nat)
        /\ Len(deque') = Len(deque) + k - m
        /\ \A i \in 1 .. Len(deque) + k - m : deque'[i] = bag[i + m]
    BY <2>2, <2>4, <2>5, <2>6
  <2> QED
    BY <1>5, <2>5, <2>6, <2>7
<1>7. last_seen_by_solver' = [v \in Worker |-> seen[v] - m]
  BY <1>4 DEF Clean
<1> HIDE DEF m, seen
<1>8. \A v \in Worker : m <= seen[v]
  BY <1>4 DEF m
<1>9. \E v \in Worker : seen[v] = m
  BY DEF m
<1>10. last_seen_by_solver' \in [Worker -> Nat]
  BY <1>2, <1>5, <1>7, <1>8
<1>11. /\ last_seen_by_solver'[w] = Len(deque) + k - m
       /\ \A v \in Worker \ {w} :
             last_seen_by_solver'[v] = last_seen_by_solver[v] - m
  BY <1>2, <1>5, <1>7
<1>12. \E v \in Worker : last_seen_by_solver'[v] = 0
  BY <1>2, <1>5, <1>7, <1>9
<1>13. QED
  <2>1. m \in Nat
    BY <1>5
  <2> WITNESS m \in Nat
  <2> QED
    BY <1>5, <1>6, <1>10, <1>11, <1>12

(***************************************************************************)
(* What the caller is given: the unread clauses of the log, in order.      *)
(***************************************************************************)
LEMMA GrabIsUnread ==
    ASSUME IInv, NEW w \in Worker
    PROVE  /\ Grab(w) \in Seq(Nat)
           /\ Len(Grab(w)) = Len(log) - ReadUpTo(w)
           /\ \A i \in 1 .. Len(Grab(w)) : Grab(w)[i] = ReadUpTo(w) + i
<1> DEFINE seen == last_seen_by_solver[w]
<1>1. /\ deque \in Seq(Nat)
      /\ log \in Seq(Worker)
      /\ seen \in Nat
      /\ seen <= Len(deque)
      /\ Len(deque) <= Len(log)
      /\ \A i \in 1 .. Len(deque) : deque[i] = Base + i
  BY DEF IInv, TypeOK, DequeIsLogSuffix, SeenWithinDeque
<1>2. Grab(w) = SubSeq(deque, seen + 1, Len(deque)) /\ ReadUpTo(w) = Base + seen
  BY DEF Grab, ReadUpTo
<1> HIDE DEF seen
<1>3. /\ Grab(w) \in Seq(Nat)
      /\ Len(Grab(w)) = Len(deque) - seen
      /\ \A i \in 1 .. Len(deque) - seen : Grab(w)[i] = deque[i + seen]
  BY <1>1, <1>2, SuffixElements
<1>4. QED
  BY <1>1, <1>2, <1>3 DEF Base

LEMMA SyncReceived ==
    ASSUME IInv, NEW w \in Worker, NEW k \in 0 .. MaxBatch,
           SyncSharedClauses(w, k)
    PROVE  /\ received' \in [Worker -> Seq(Nat)]
           /\ \A v \in Worker \ {w} : received'[v] = received[v]
           /\ Increasing(received'[w])
           /\ Elements(received'[w]) = {i \in 1 .. Len(log) : log[i] # w}
<1> DEFINE r == received[w]
           g == Grab(w)
<1>1. /\ received' = [received EXCEPT ![w] = r \o g]
      /\ r \in Seq(Nat)
  BY DEF SyncSharedClauses, IInv, TypeOK
<1>2. /\ g \in Seq(Nat)
      /\ Len(g) = Len(log) - ReadUpTo(w)
      /\ \A i \in 1 .. Len(g) : g[i] = ReadUpTo(w) + i
  BY GrabIsUnread
<1>3. /\ ReadUpTo(w) \in Nat
      /\ ReadUpTo(w) <= Len(log)
      /\ log \in Seq(Worker)
  BY DEF IInv, TypeOK, DequeIsLogSuffix, SeenWithinDeque, ReadUpTo, Base
<1>4. /\ Increasing(r)
      /\ Elements(r) = {i \in 1 .. ReadUpTo(w) : log[i] # w}
      /\ \A i \in ReadUpTo(w) + 1 .. Len(log) : log[i] # w
  BY DEF IInv, ExactlyOnceInOrder, UnreadIsForeign
<1> HIDE DEF r, g
<1>5. /\ r \o g \in Seq(Nat)
      /\ Len(r \o g) = Len(r) + Len(g)
      /\ \A i \in 1 .. Len(r) + Len(g) :
            (r \o g)[i] = IF i <= Len(r) THEN r[i] ELSE g[i - Len(r)]
  BY <1>1, <1>2, ConcatElements
<1>6. received' \in [Worker -> Seq(Nat)] /\ received'[w] = r \o g
  BY <1>1, <1>5 DEF IInv, TypeOK
<1>7. \A i \in 1 .. Len(r) : r[i] \in 1 .. ReadUpTo(w)
  BY <1>4 DEF Elements
<1>8. Increasing(r \o g)
  <2> SUFFICES ASSUME NEW i \in 1 .. Len(r) + Len(g),
                      NEW j \in 1 .. Len(r) + Len(g), i < j
               PROVE  (r \o g)[i] < (r \o g)[j]
    BY <1>5 DEF Increasing
  <2>1. CASE j <= Len(r)
    BY <2>1, <1>1, <1>4, <1>5 DEF Increasing
  <2>2. CASE i <= Len(r) /\ j > Len(r)
    BY <2>2, <1>1, <1>2, <1>3, <1>5, <1>7
  <2>3. CASE i > Len(r)
    BY <2>3, <1>1, <1>2, <1>3, <1>5
  <2> QED
    BY <1>1, <1>2, <2>1, <2>2, <2>3
<1>9. Elements(r \o g) = {i \in 1 .. Len(log) : log[i] # w}
  <2>1. ASSUME NEW x \in Elements(r \o g)
        PROVE  x \in 1 .. Len(log) /\ log[x] # w
    <3>1. PICK i \in 1 .. Len(r) + Len(g) : x = (r \o g)[i]
      BY <2>1, <1>5 DEF Elements
    <3>2. CASE i <= Len(r)
      <4>1. x \in Elements(r)
        BY <3>1, <3>2, <1>1, <1>5 DEF Elements
      <4> QED
        BY <4>1, <1>3, <1>4
    <3>3. CASE i > Len(r)
      <4>1. x \in ReadUpTo(w) + 1 .. Len(log)
        BY <3>1, <3>3, <1>1, <1>2, <1>3, <1>5
      <4> QED
        BY <4>1, <1>3, <1>4
    <3> QED
      BY <3>2, <3>3, <1>1
  <2>2. ASSUME NEW x \in 1 .. Len(log), log[x] # w
        PROVE  x \in Elements(r \o g)
    <3>1. CASE x <= ReadUpTo(w)
      <4>1. PICK i \in 1 .. Len(r) : x = r[i]
        BY <2>2, <3>1, <1>3, <1>4 DEF Elements
      <4> QED
        BY <4>1, <1>1, <1>2, <1>5 DEF Elements
    <3>2. CASE x > ReadUpTo(w)
      <4> DEFINE i == x - ReadUpTo(w)
      <4>1. i \in 1 .. Len(g) /\ g[i] = x
        BY <3>2, <1>2, <1>3
      <4>2. /\ i + Len(r) \in 1 .. Len(r) + Len(g)
            /\ (r \o g)[i + Len(r)] = x
        BY <4>1, <1>1, <1>2, <1>5
      <4> QED
        BY <4>2, <1>5 DEF Elements
    <3> QED
      BY <3>1, <3>2, <1>3
  <2> QED
    BY <2>1, <2>2
<1>10. QED
  BY <1>1, <1>6, <1>8, <1>9

-----------------------------------------------------------------------------
LEMMA InitInv == Init => IInv
  BY ConstantsAssumption
     DEF Init, IInv, TypeOK, DequeIsLogSuffix, SeenWithinDeque, Base, ReadUpTo,
         ExactlyOnceInOrder, Increasing, Elements, UnreadIsForeign,
         NothingReadByAllIsKept

LEMMA LogGrows ==
    ASSUME IInv, NEW w \in Worker, NEW k \in 0 .. MaxBatch,
           SyncSharedClauses(w, k)
    PROVE  /\ log' \in Seq(Worker)
           /\ Len(log') = Len(log) + k
           /\ \A i \in 1 .. Len(log) : log'[i] = log[i]
           /\ \A i \in Len(log) + 1 .. Len(log) + k : log'[i] = w
<1> DEFINE own == [i \in 1 .. k |-> w]
<1> k \in Nat
  BY ConstantsAssumption
<1>1. own \in [1 .. k -> Worker]
  OBVIOUS
<1>2. own \in Seq(Worker) /\ Len(own) = k
  BY <1>1, TupleOf, Zenon
<1> \A i \in 1 .. k : own[i] = w
  OBVIOUS
<1>3. log' = log \o own /\ log \in Seq(Worker)
  BY DEF SyncSharedClauses, IInv, TypeOK
<1> HIDE DEF own
<1>4. /\ log \o own \in Seq(Worker)
      /\ Len(log \o own) = Len(log) + Len(own)
      /\ \A i \in 1 .. Len(log) + Len(own) :
            (log \o own)[i] = IF i <= Len(log) THEN log[i] ELSE own[i - Len(log)]
  BY <1>2, <1>3, ConcatElements, Zenon
<1>5. Len(log) \in Nat
  BY <1>3
<1>6. QED
  BY <1>2, <1>3, <1>4, <1>5

(***************************************************************************)
(* A synchronisation preserves the inductive invariant, one conjunct at a  *)
(* time, from the three lemmas on what it does to deque, log and received. *)
(***************************************************************************)
LEMMA SyncInv ==
    ASSUME IInv, NEW w \in Worker, NEW k \in 0 .. MaxBatch,
           SyncSharedClauses(w, k)
    PROVE  IInv'
<1> k \in Nat
  BY ConstantsAssumption
<1>1. PICK m \in Nat :
        /\ deque' \in Seq(Nat)
        /\ Len(deque') = Len(deque) + k - m
        /\ m <= Len(deque) + k
        /\ \A i \in 1 .. Len(deque') : deque'[i] = Base + m + i
        /\ last_seen_by_solver' \in [Worker -> Nat]
        /\ last_seen_by_solver'[w] = Len(deque) + k - m
        /\ \A v \in Worker \ {w} :
              last_seen_by_solver'[v] = last_seen_by_solver[v] - m
        /\ \E v \in Worker : last_seen_by_solver'[v] = 0
  BY SyncEffect
<1>2. /\ received' \in [Worker -> Seq(Nat)]
      /\ \A v \in Worker \ {w} : received'[v] = received[v]
      /\ Increasing(received'[w])
      /\ Elements(received'[w]) = {i \in 1 .. Len(log) : log[i] # w}
  BY SyncReceived
<1>3. /\ log' \in Seq(Worker)
      /\ Len(log') = Len(log) + k
      /\ \A i \in 1 .. Len(log) : log'[i] = log[i]
      /\ \A i \in Len(log) + 1 .. Len(log) + k : log'[i] = w
  BY LogGrows
<1>4. /\ deque \in Seq(Nat)
      /\ log \in Seq(Worker)
      /\ last_seen_by_solver \in [Worker -> Nat]
      /\ Len(deque) <= Len(log)
      /\ \A v \in Worker : last_seen_by_solver[v] <= Len(deque)
  BY DEF IInv, TypeOK, DequeIsLogSuffix, SeenWithinDeque
<1>5. /\ Base' = Base + m
      /\ Base \in Nat
      /\ Base + Len(deque) = Len(log)
      /\ Len(log) \in Nat /\ Len(deque) \in Nat
  BY <1>1, <1>3, <1>4 DEF Base
<1>6. /\ ReadUpTo(w)' = Len(log) + k
      /\ \A v \in Worker \ {w} : ReadUpTo(v)' = ReadUpTo(v)
      /\ \A v \in Worker : ReadUpTo(v) \in Nat /\ ReadUpTo(v) <= Len(log)
  <2> USE DEF ReadUpTo
  <2>1. ReadUpTo(w)' = Len(log) + k
    <3>1. last_seen_by_solver'[w] = Len(deque) + k - m
      BY <1>1
    <3> QED
      BY <3>1, <1>5
  <2>2. ASSUME NEW v \in Worker \ {w}
        PROVE  ReadUpTo(v)' = ReadUpTo(v)
    <3>1. last_seen_by_solver'[v] = last_seen_by_solver[v] - m
      BY <1>1
    <3> QED
      BY <3>1, <1>4, <1>5
  <2>3. ASSUME NEW v \in Worker
        PROVE  ReadUpTo(v) \in Nat /\ ReadUpTo(v) <= Len(log)
    BY <1>4, <1>5
  <2> QED
    BY <2>1, <2>2, <2>3
<1>7. TypeOK'
  BY <1>1, <1>2, <1>3 DEF TypeOK
<1>8. DequeIsLogSuffix'
  BY <1>1, <1>3, <1>4, <1>5 DEF DequeIsLogSuffix
<1>9. SeenWithinDeque'
  <2> SUFFICES ASSUME NEW v \in Worker
               PROVE  last_seen_by_solver'[v] <= Len(deque')
    BY DEF SeenWithinDeque
  <2>1. CASE v = w
    BY <2>1, <1>1, <1>4
  <2>2. CASE v # w
    <3>1. last_seen_by_solver'[v] = last_seen_by_solver[v] - m
      BY <2>2, <1>1
    <3> QED
      BY <3>1, <1>1, <1>4
  <2> QED
    BY <2>1, <2>2
<1>10. ExactlyOnceInOrder'
  <2> SUFFICES ASSUME NEW v \in Worker
               PROVE  /\ Increasing(received'[v])
                      /\ Elements(received'[v]) =
                           {i \in 1 .. ReadUpTo(v)' : log'[i] # v}
    BY DEF ExactlyOnceInOrder, Increasing, Elements
  <2>1. CASE v = w
    <3>1. {i \in 1 .. Len(log) + k : log'[i] # w} = {i \in 1 .. Len(log) : log[i] # w}
      <4>1. \A i : (i \in 1 .. Len(log) + k /\ log'[i] # w)
                      <=> (i \in 1 .. Len(log) /\ log[i] # w)
        <5>1. Len(log) \in Nat
          BY <1>4
        <5> QED
          BY <5>1, <1>3
      <4> QED
        BY <4>1
    <3> QED
      BY <2>1, <3>1, <1>2, <1>6
  <2>2. CASE v # w
    <3>1. {i \in 1 .. ReadUpTo(v) : log'[i] # v} = {i \in 1 .. ReadUpTo(v) : log[i] # v}
      <4>1. \A i \in 1 .. ReadUpTo(v) : i \in 1 .. Len(log)
        <5>1. Len(log) \in Nat
          BY <1>4
        <5> QED
          BY <5>1, <1>6
      <4> QED
        BY <4>1, <1>3
    <3>2. /\ Increasing(received[v])
          /\ Elements(received[v]) = {i \in 1 .. ReadUpTo(v) : log[i] # v}
      BY DEF IInv, ExactlyOnceInOrder
    <3> QED
      BY <2>2, <3>1, <3>2, <1>2, <1>6
  <2> QED
    BY <2>1, <2>2
<1>11. UnreadIsForeign'
  <2> SUFFICES ASSUME NEW v \in Worker,
                      NEW i \in ReadUpTo(v)' + 1 .. Len(log')
               PROVE  log'[i] # v
    BY DEF UnreadIsForeign
  <2>1. v # w
    BY <1>3, <1>4, <1>6
  <2>2. CASE i <= Len(log)
    <3>1. i \in ReadUpTo(v) + 1 .. Len(log) /\ i \in 1 .. Len(log)
      BY <2>1, <2>2, <1>3, <1>5, <1>6
    <3>2. log[i] # v
      BY <3>1 DEF IInv, UnreadIsForeign
    <3> QED
      BY <3>1, <3>2, <1>3
  <2>3. CASE i > Len(log)
    <3>1. i \in Len(log) + 1 .. Len(log) + k
      BY <2>3, <1>3, <1>4, <1>6
    <3> QED
      BY <2>1, <3>1, <1>3
  <2> QED
    BY <2>2, <2>3, <1>3, <1>4, <1>6
<1>12. NothingReadByAllIsKept'
  BY <1>1 DEF NothingReadByAllIsKept
<1> QED
  BY <1>7, <1>8, <1>9, <1>10, <1>11, <1>12 DEF IInv

LEMMA NextInv == IInv /\ [Next]_vars => IInv'
<1> SUFFICES ASSUME IInv, [Next]_vars
             PROVE  IInv'
  OBVIOUS
<1>1. ASSUME NEW w \in Worker, NEW k \in 0 .. MaxBatch, SyncSharedClauses(w, k)
      PROVE  IInv'
  BY <1>1, SyncInv
<1>2. CASE UNCHANGED vars
  BY <1>2 DEF vars, IInv, TypeOK, DequeIsLogSuffix, SeenWithinDeque, Base,
              ReadUpTo, ExactlyOnceInOrder, Increasing, Elements,
              UnreadIsForeign, NothingReadByAllIsKept
<1>3. QED
  BY <1>1, <1>2 DEF Next

(***************************************************************************)
(* The inductive invariant of the bag holds in every reachable state,      *)
(* whatever the number of workers and whatever they push.                  *)
(***************************************************************************)
THEOREM BagInvariant == Spec => []IInv
<1>1. QED
  BY InitInv, NextInv, PTL DEF Spec

(***************************************************************************)
(* The variables of the bag stay in their types: in particular the read    *)
(* positions, unsigned in the code, never go below zero.                   *)
(***************************************************************************)
THEOREM TypeCorrect == Spec => []TypeOK
<1>1. IInv => TypeOK
  BY DEF IInv
<1>2. QED
  BY BagInvariant, <1>1, PTL

(***************************************************************************)
(* Each worker is given the clauses of the others exactly once, in push    *)
(* order, and never one of its own (grab, push and clean of the deque).    *)
(***************************************************************************)
THEOREM Delivery == Spec => []ExactlyOnceInOrder
<1>1. IInv => ExactlyOnceInOrder
  BY DEF IInv
<1>2. QED
  BY BagInvariant, <1>1, PTL

(***************************************************************************)
(* clean() leaves no clause in the bag that every worker has read.         *)
(***************************************************************************)
THEOREM BagIsMinimal == Spec => []NothingReadByAllIsKept
<1>1. IInv => NothingReadByAllIsKept
  BY DEF IInv
<1>2. QED
  BY BagInvariant, <1>1, PTL

-----------------------------------------------------------------------------
(***************************************************************************)
(* Every step of the bag is a step of the broadcast log, or a stutter.     *)
(***************************************************************************)
LEMMA SyncRefines ==
    ASSUME IInv, NEW w \in Worker, NEW k \in 0 .. MaxBatch,
           SyncSharedClauses(w, k)
    PROVE  Broadcast!Sync(w, k)
<1> DEFINE inbox == [v \in Worker |-> Elements(received[v])]
<1>1. inbox' = [inbox EXCEPT ![w] = {i \in 1 .. Len(log) : log[i] # w}]
  <2>1. inbox' = [v \in Worker |-> Elements(received'[v])]
    BY DEF Elements
  <2>2. /\ \A v \in Worker \ {w} : received'[v] = received[v]
        /\ Elements(received'[w]) = {i \in 1 .. Len(log) : log[i] # w}
    BY SyncReceived
  <2> QED
    BY <2>1, <2>2, Zenon
<1>2. QED
  BY <1>1 DEF Broadcast!Sync, Broadcast!Foreign, SyncSharedClauses

(***************************************************************************)
(* The deque with its read positions implements the broadcast log: what a  *)
(* worker is handed is what the log holds for it.                          *)
(***************************************************************************)
THEOREM ImplementsBroadcast == Spec => BroadcastSpec
<1>1. Init => Broadcast!Init
  BY DEF Init, Broadcast!Init, Elements
<1>2. IInv /\ [Next]_vars => [Broadcast!Next]_(Broadcast!vars)
  <2> SUFFICES ASSUME IInv, [Next]_vars
               PROVE  [Broadcast!Next]_(Broadcast!vars)
    OBVIOUS
  <2>1. CASE Next
    BY <2>1, SyncRefines DEF Next, Broadcast!Next
  <2>2. CASE UNCHANGED vars
    BY <2>2 DEF vars, Broadcast!vars, Elements
  <2> QED
    BY <2>1, <2>2
<1>3. QED
  BY <1>1, <1>2, BagInvariant, PTL DEF Spec, BroadcastSpec, Broadcast!Spec
===============================================================================
