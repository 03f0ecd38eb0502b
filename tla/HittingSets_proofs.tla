-------------------------- MODULE HittingSets_proofs --------------------------
(***************************************************************************)
(* The rounds of the hitting sets: what the optimizer leaves unsearched is *)
(* covered, what it blocks for good is justified, and the answer is the    *)
(* Pareto front, for any number of objectives, variables and threads.      *)
(***************************************************************************)
EXTENDS HittingSets, Pareto_proofs

-----------------------------------------------------------------------------
(***************************************************************************)
(* A bounded set of integers has a greatest member: evalToIndex finds the  *)
(* last key that is not above a value.                                     *)
(***************************************************************************)
LEMMA GreatestNumber ==
    ASSUME NEW S \in SUBSET Int, S # {}, NEW v \in Int, \A s \in S : s <= v
    PROVE  Max(S) \in S /\ \A s \in S : s <= Max(S)
<1> DEFINE D == {v - s : s \in S}
<1>1. D \in SUBSET Nat /\ D # {}
  <2>1. \A s \in S : v - s \in Nat
    OBVIOUS
  <2> QED
    BY <2>1
<1>2. PICK d \in D : \A e \in D : d <= e
  BY <1>1, LeastNumber
<1>3. PICK m \in S : d = v - m
  OBVIOUS
<1>4. \A s \in S : m >= s
  <2> TAKE s \in S
  <2>1. d <= v - s
    BY <1>2
  <2> QED
    BY <1>3, <2>1
<1>5. \E x \in S : \A y \in S : x >= y
  BY <1>4
<1>6. Max(S) \in S /\ \A s \in S : Max(S) >= s
  BY <1>5 DEF Max
<1> QED
  BY <1>6

(***************************************************************************)
(* A non-empty set of numbers has a least one, which Min chooses: the next *)
(* key, or the least value of some points.                                 *)
(***************************************************************************)
LEMMA MinIsLeast ==
    ASSUME NEW S \in SUBSET Nat, S # {}
    PROVE  Min(S) \in S /\ \A s \in S : Min(S) <= s
<1>1. \E x \in S : \A y \in S : x <= y
  BY LeastNumber
<1> QED
  BY <1>1 DEF Min

(***************************************************************************)
(* A finite set has subsets of every size up to its own.                   *)
(***************************************************************************)
LEMMA SubsetOfSize ==
    ASSUME NEW S, IsFiniteSet(S), NEW n \in Nat, n <= Cardinality(S)
    PROVE  \E R \in SUBSET S : Cardinality(R) = n
<1>1. Cardinality(S) \in Nat
  BY FS_CardinalityType
<1>2. PICK f \in Bijection(1 .. Cardinality(S), S) : TRUE
  BY FS_CardinalityType DEF ExistsBijection
<1> DEFINE R == {f[i] : i \in 1 .. n}
<1> DEFINE g == [i \in 1 .. n |-> f[i]]
<1>3. 1 .. n \subseteq 1 .. Cardinality(S)
  BY <1>1
<1>4. /\ f \in [1 .. Cardinality(S) -> S]
      /\ \A i, j \in 1 .. Cardinality(S) : f[i] = f[j] => i = j
  BY <1>2 DEF Bijection, Injection, IsInjective
<1>5. R \in SUBSET S
  BY <1>3, <1>4
<1>6. g \in Bijection(1 .. n, R)
  <2>1. g \in [1 .. n -> R]
    OBVIOUS
  <2>2. \A i, j \in 1 .. n : g[i] = g[j] => i = j
    BY <1>3, <1>4
  <2>3. \A r \in R : \E i \in 1 .. n : g[i] = r
    OBVIOUS
  <2> QED
    BY <2>1, <2>2, <2>3 DEF Bijection, Injection, Surjection, IsInjective
<1>7. Cardinality(R) = n
  BY <1>6, FS_CountingElements DEF ExistsBijection
<1> QED
  BY <1>5, <1>7

-----------------------------------------------------------------------------
(***************************************************************************)
(* Literals and their coefficients: there are finitely many.               *)
(***************************************************************************)
LEMMA Literals ==
    /\ IsFiniteSet(Literal)
    /\ \A l \in Literal : Not(l) \in Literal /\ Not(Not(l)) = l
    /\ \A o \in Obj : \A l \in Literal : Weight[o][l] \in Nat
    /\ \A o \in Obj : Counted(o) \subseteq Literal
    /\ AllCounted \subseteq Literal
    /\ \A l \in Literal : \A x \in Assignment : Holds(Not(l), x) <=> ~ Holds(l, x)
<1>1. IsFiniteSet(Var \X BOOLEAN)
  <2>1. IsFiniteSet({TRUE, FALSE})
    <3>1. IsFiniteSet({TRUE}) /\ {TRUE} \cup {FALSE} = {TRUE, FALSE}
      BY FS_Singleton
    <3> QED
      BY <3>1, FS_AddElement
  <2>2. BOOLEAN = {TRUE, FALSE}
    OBVIOUS
  <2> QED
    BY <2>1, <2>2, FS_Product, HittingSetsAssumption
<1> DEFINE f == [p \in Var \X BOOLEAN |-> [var |-> p[1], sign |-> p[2]]]
<1>2. f \in Surjection(Var \X BOOLEAN, Literal)
  <2>1. \A p \in Var \X BOOLEAN : p[1] \in Var /\ p[2] \in BOOLEAN
    OBVIOUS
  <2>2. f \in [Var \X BOOLEAN -> Literal]
    BY <2>1 DEF Literal
  <2>3. ASSUME NEW l \in Literal PROVE \E p \in Var \X BOOLEAN : f[p] = l
    <3>1. <<l.var, l.sign>> \in Var \X BOOLEAN
      BY DEF Literal
    <3>2. f[<<l.var, l.sign>>] = [var |-> l.var, sign |-> l.sign]
      BY <3>1
    <3>3. l = [var |-> l.var, sign |-> l.sign]
      BY DEF Literal
    <3> QED
      BY <3>1, <3>2, <3>3
  <2> QED
    BY <2>2, <2>3 DEF Surjection
<1>3. IsFiniteSet(Literal)
  BY <1>1, <1>2, FS_Surjection
<1>4. ASSUME NEW l \in Literal
      PROVE  Not(l) \in Literal /\ Not(Not(l)) = l
  BY DEF Literal, Not
<1>5. ASSUME NEW l \in Literal, NEW x \in Assignment
      PROVE  Holds(Not(l), x) <=> ~ Holds(l, x)
  <2>1. l.var \in Var /\ l.sign \in BOOLEAN /\ x[l.var] \in BOOLEAN
    BY DEF Literal, Assignment
  <2>2. Not(l).var = l.var /\ Not(l).sign = ~ l.sign
    BY DEF Literal, Not
  <2> QED
    BY <2>1, <2>2 DEF Holds
<1>6. \A o \in Obj : \A l \in Literal : Weight[o][l] \in Nat
  BY HittingSetsAssumption
<1> QED
  BY <1>3, <1>4, <1>5, <1>6 DEF Counted, AllCounted


(***************************************************************************)
(* The units of a coefficient are as many as it says.                      *)
(***************************************************************************)
LEMMA CountUpTo ==
    ASSUME NEW k \in Nat
    PROVE  IsFiniteSet(1 .. k) /\ Cardinality(1 .. k) = k
<1>1. 1 \in Int /\ k \in Int
  OBVIOUS
<1>2. IsFiniteSet(1 .. k) /\ Cardinality(1 .. k) = IF 1 > k THEN 0 ELSE k - 1 + 1
  BY <1>1, FS_Interval
<1>3. (IF 1 > k THEN 0 ELSE k - 1 + 1) = k
  OBVIOUS
<1> QED
  BY <1>2, <1>3

\* The units of the coefficients of the literals in S.
Units(o, S) == UNION {{l} \X (1 .. Weight[o][l]) : l \in S \cap Counted(o)}

(***************************************************************************)
(* The value of an objective (OneSolution::yPoint) is a number; only the   *)
(* literals that occur in it matter, and more of them never lower it.      *)
(***************************************************************************)
LEMMA TotalFacts ==
    ASSUME NEW o \in Obj, NEW S \in SUBSET Literal
    PROVE  /\ IsFiniteSet(S)
           /\ IsFiniteSet(Units(o, S)) /\ Total(o, S) = Cardinality(Units(o, S))
           /\ Total(o, S) \in Nat
           /\ \A T : T \cap Counted(o) = S \cap Counted(o) => Total(o, T) = Total(o, S)
           /\ \A T : T \cap Counted(o) \subseteq S => Total(o, T) <= Total(o, S)
<1> DEFINE D == S \cap Counted(o)
<1> DEFINE f == [l \in D |-> {l} \X (1 .. Weight[o][l])]
<1> DEFINE R == {{l} \X (1 .. Weight[o][l]) : l \in D}
<1>1. IsFiniteSet(S) /\ IsFiniteSet(D)
  BY Literals, FS_Subset
<1>2. f \in Surjection(D, R)
  BY DEF Surjection
<1>3. IsFiniteSet(R)
  BY <1>1, <1>2, FS_Surjection
<1>4. ASSUME NEW l \in D PROVE IsFiniteSet({l} \X (1 .. Weight[o][l]))
  <2>1. Weight[o][l] \in Nat
    BY Literals
  <2>2. IsFiniteSet({l}) /\ IsFiniteSet(1 .. Weight[o][l])
    BY <2>1, FS_Singleton, CountUpTo
  <2> QED
    BY <2>2, FS_Product
<1>5. IsFiniteSet(UNION R)
  BY <1>3, <1>4, FS_UNION
<1>6. Units(o, S) = UNION R
  BY DEF Units
<1>7. Total(o, S) = Cardinality(Units(o, S))
  BY DEF Total, Units
<1>8. ASSUME NEW T, T \cap Counted(o) \subseteq S
      PROVE  Total(o, T) <= Total(o, S)
  <2>1. T \cap Counted(o) \subseteq D
    BY <1>8
  <2>2. Units(o, T) \in SUBSET Units(o, S)
    BY <2>1 DEF Units
  <2>3. Total(o, T) = Cardinality(Units(o, T))
    BY DEF Total, Units
  <2> QED
    BY <1>5, <1>6, <1>7, <2>2, <2>3, FS_Subset
<1>9. ASSUME NEW T, T \cap Counted(o) = S \cap Counted(o)
      PROVE  Total(o, T) = Total(o, S)
  BY <1>9 DEF Total
<1> QED
  BY <1>1, <1>5, <1>6, <1>7, <1>8, <1>9, FS_CardinalityType

(***************************************************************************)
(* Where all the literals of an objective weigh the same, every value      *)
(* below a sum of some of them that occurs at all is the sum of fewer of   *)
(* them: the values between two keys of a slice are values of no model.    *)
(***************************************************************************)
LEMMA SmallerSums ==
    ASSUME EqualWeights, NEW o \in Obj, NEW S \in SUBSET Counted(o), NEW T \in SUBSET Counted(o),
           Total(o, T) < Total(o, S)
    PROVE  \E R \in SUBSET S : Total(o, R) = Total(o, T)
<1>1. S \in SUBSET Literal /\ T \in SUBSET Literal
  BY Literals
<1>2. S # {}
  <2>1. Total(o, T) \in Nat /\ Total(o, {}) \in Nat /\ Total(o, {}) <= Total(o, T)
    BY <1>1, TotalFacts
  <2> QED
    BY <2>1
<1>3. PICK m \in S : TRUE
  BY <1>2
<1> DEFINE k == Weight[o][m]
<1>4. k \in Nat /\ IsFiniteSet(1 .. k) /\ Cardinality(1 .. k) = k
  <2>1. k \in Nat
    BY <1>1, Literals
  <2> QED
    BY <2>1, CountUpTo
<1> HIDE DEF k
<1>5. ASSUME NEW U \in SUBSET Counted(o)
      PROVE  /\ IsFiniteSet(U) /\ Cardinality(U) \in Nat
             /\ Total(o, U) = Cardinality(U) * k
  <2>1. U \in SUBSET Literal
    BY Literals
  <2>2. \A l \in U : Weight[o][l] = k
    BY DEF EqualWeights, k
  <2>3. Units(o, U) = UNION {{l} \X (1 .. k) : l \in U}
    <3>1. U \cap Counted(o) = U
      OBVIOUS
    <3> QED
      BY <2>2, <3>1 DEF Units
  <2>4. UNION {{l} \X (1 .. k) : l \in U} = U \X (1 .. k)
    OBVIOUS
  <2>5. IsFiniteSet(U) /\ Total(o, U) = Cardinality(U \X (1 .. k))
    BY <2>1, <2>3, <2>4, TotalFacts
  <2>6. Cardinality(U \X (1 .. k)) = Cardinality(U) * Cardinality(1 .. k)
    BY <1>4, <2>5, FS_Product
  <2> QED
    BY <1>4, <2>5, <2>6, FS_CardinalityType
<1>6. PICK a \in Nat : a = Cardinality(T)
  BY <1>5
<1>7. PICK b \in Nat : b = Cardinality(S)
  BY <1>5
<1>8. a * k < b * k
  BY <1>5, <1>6, <1>7
<1>9. a <= b
  BY <1>4, <1>8
<1>10. PICK R \in SUBSET S : Cardinality(R) = a
  BY <1>5, <1>6, <1>7, <1>9, SubsetOfSize
<1>11. Total(o, R) = a * k /\ Total(o, T) = a * k
  BY <1>5, <1>6, <1>10
<1> QED
  BY <1>11

(***************************************************************************)
(* The complete objectives of an assignment bound from above what a slice  *)
(* counts of it.                                                           *)
(***************************************************************************)
LEMMA Values ==
    ASSUME NEW x \in Assignment
    PROVE  /\ Full[x] \in YPoint
           /\ \A o \in Obj : Full[x][o] \in Nat /\ Full[x][o] <= MaxValue
           /\ \A o \in Obj : Full[x][o] = Total(o, {l \in Literal : Holds(l, x)})
           /\ \A S \in SUBSET Literal : Eval(S, x) \in YPoint
<1>1. Full[x] \in YPoint
  BY ValuesAreBounded
<1>2. ASSUME NEW o \in Obj
      PROVE  /\ Full[x][o] \in Nat /\ Full[x][o] <= MaxValue
             /\ Full[x][o] = Total(o, {l \in Literal : Holds(l, x)})
  <2>1. Full[x][o] \in 0 .. MaxValue
    BY <1>1 DEF YPoint
  <2>2. Full[x] = [i \in Obj |-> Total(i, {l \in Literal : Holds(l, x)})]
    BY DEF Full, Eval
  <2> QED
    BY <2>1, <2>2, ObjectiveAssumption
<1>3. ASSUME NEW S \in SUBSET Literal
      PROVE  Eval(S, x) \in YPoint
  <2>1. ASSUME NEW o \in Obj PROVE Total(o, {l \in S : Holds(l, x)}) \in 0 .. MaxValue
    <3> DEFINE A == {l \in S : Holds(l, x)}
    <3> DEFINE B == {l \in Literal : Holds(l, x)}
    <3>1. A \in SUBSET Literal /\ B \in SUBSET Literal /\ A \cap Counted(o) \subseteq B
      OBVIOUS
    <3>2. Total(o, A) \in Nat /\ Total(o, A) <= Total(o, B) /\ Total(o, B) \in Nat
      BY <3>1, TotalFacts
    <3>3. Total(o, B) <= MaxValue
      BY <1>2
    <3> QED
      BY <3>2, <3>3, ObjectiveAssumption
  <2> QED
    BY <2>1 DEF Eval, YPoint
<1> QED
  BY <1>1, <1>2, <1>3


(***************************************************************************)
(* A slice that counts every counted literal of an assignment counts all   *)
(* of it.                                                                  *)
(***************************************************************************)
LEMMA FullyCounted ==
    ASSUME NEW S \in SUBSET Literal, NEW x \in Assignment,
           \A l \in AllCounted : Holds(l, x) => l \in S
    PROVE  Eval(S, x) = Full[x]
<1>1. ASSUME NEW o \in Obj
      PROVE  Total(o, {l \in S : Holds(l, x)}) = Total(o, {l \in Literal : Holds(l, x)})
  <2>1. {l \in S : Holds(l, x)} \cap Counted(o) = {l \in Literal : Holds(l, x)} \cap Counted(o)
    BY DEF AllCounted
  <2> QED
    BY <2>1 DEF Total
<1>2. Full[x] = [o \in Obj |-> Total(o, {l \in Literal : Holds(l, x)})]
  BY DEF Full, Eval
<1> QED
  BY <1>1, <1>2 DEF Eval

(***************************************************************************)
(* A solution can do without the frozen literals: without them it is no    *)
(* worse, and the clauses that do not mention them still hold.             *)
(***************************************************************************)
LEMMA WithoutFrozen ==
    ASSUME OneSign, NEW F \in SUBSET AllCounted, NEW y \in Assignment
    PROVE  \E z \in Assignment :
              /\ \A l \in F : ~ Holds(l, z)
              /\ \A l \in Literal \ F : Holds(l, y) => Holds(l, z)
              /\ dominates(Full[z], Full[y])
<1> DEFINE Lit(v) == [var |-> v, sign |-> y[v]]
<1> DEFINE z == [v \in Var |-> IF Lit(v) \in F THEN ~ y[v] ELSE y[v]]
<1>1. z \in Assignment
  BY DEF Assignment
<1>2. ASSUME NEW l \in Literal, Holds(l, y)
      PROVE  l = Lit(l.var)
  BY <1>2 DEF Holds, Literal
<1>3. ASSUME NEW l \in Literal, ~ Holds(l, y)
      PROVE  Not(l) = Lit(l.var)
  BY <1>3 DEF Holds, Literal, Not, Assignment
<1>4. ASSUME NEW l \in F
      PROVE  ~ Holds(l, z)
  <2>1. l \in Literal /\ l \in AllCounted /\ Not(l) \notin F /\ l.var \in Var
    BY Literals DEF OneSign, Literal
  <2>2. CASE Holds(l, y)
    <3>1. z[l.var] = ~ y[l.var]
      BY <1>2, <2>1, <2>2
    <3>2. y[l.var] = l.sign /\ y[l.var] \in BOOLEAN
      BY <2>1, <2>2 DEF Holds, Assignment
    <3> QED
      BY <3>1, <3>2 DEF Holds
  <2>3. CASE ~ Holds(l, y)
    <3>1. z[l.var] = y[l.var]
      BY <1>3, <2>1, <2>3
    <3> QED
      BY <3>1, <2>3 DEF Holds
  <2> QED
    BY <2>2, <2>3
<1>5. ASSUME NEW l \in Literal \ F, Holds(l, y)
      PROVE  Holds(l, z)
  <2>1. l.var \in Var /\ l = Lit(l.var)
    BY <1>2, <1>5 DEF Literal
  <2>2. z[l.var] = y[l.var]
    BY <2>1, <1>5
  <2> QED
    BY <2>2, <1>5 DEF Holds
<1>6. ASSUME NEW l \in AllCounted, Holds(l, z)
      PROVE  Holds(l, y)
  <2>1. l \in Literal /\ l.var \in Var /\ Not(l) \notin F
    BY Literals DEF OneSign, Literal
  <2>2. CASE ~ Holds(l, y)
    <3>1. z[l.var] = y[l.var]
      BY <1>3, <2>1, <2>2
    <3> QED
      BY <3>1, <1>6 DEF Holds
  <2> QED
    BY <2>2
<1> HIDE DEF z
<1>7. ASSUME NEW o \in Obj PROVE Full[z][o] <= Full[y][o]
  <2> DEFINE A == {l \in Literal : Holds(l, z)}
  <2> DEFINE B == {l \in Literal : Holds(l, y)}
  <2>1. A \cap Counted(o) \subseteq B
    BY <1>6 DEF AllCounted
  <2>2. Total(o, A) <= Total(o, B)
    BY <2>1, TotalFacts
  <2>3. Full[z][o] = Total(o, A) /\ Full[y][o] = Total(o, B)
    BY <1>1, Values
  <2> QED
    BY <2>2, <2>3
<1>8. dominates(Full[z], Full[y])
  BY <1>7 DEF dominates
<1> QED
  BY <1>1, <1>4, <1>5, <1>8

-----------------------------------------------------------------------------
(***************************************************************************)
(* The keys of an objective are numbers, and there is a greatest one.      *)
(***************************************************************************)
LEMMA KeyFacts ==
    ASSUME KeysInv, NEW o \in Obj
    PROVE  /\ slicedRoots[o] \in SUBSET Nat
           /\ slicedRoots[o] # {} =>
                 Max(slicedRoots[o]) \in slicedRoots[o]
                 /\ \A s \in slicedRoots[o] : s <= Max(slicedRoots[o])
<1>1. CASE slicedRoots = AllSums(slice)
  <2>1. slicedRoots[o] = {Total(o, T) : T \in SUBSET (slice \cap Counted(o))}
    BY <1>1 DEF AllSums
  <2>2. ASSUME NEW T \in SUBSET (slice \cap Counted(o))
        PROVE  Total(o, T) \in Nat /\ Total(o, T) <= Total(o, slice) /\ Total(o, slice) \in Nat
    <3>1. T \in SUBSET Literal /\ slice \in SUBSET Literal /\ T \cap Counted(o) \subseteq slice
      BY DEF KeysInv
    <3> QED
      BY <3>1, TotalFacts
  <2>3. slicedRoots[o] \in SUBSET Nat /\ \A s \in slicedRoots[o] : s <= Total(o, slice)
    BY <2>1, <2>2
  <2>4. Total(o, slice) \in Int /\ slicedRoots[o] \in SUBSET Int
    <3>1. Total(o, slice) \in Nat
      BY TotalFacts DEF KeysInv
    <3> QED
      BY <3>1, <2>3
  <2> QED
    BY <2>3, <2>4, GreatestNumber
<1>2. CASE slicedRoots = [i \in Obj |-> {}]
  BY <1>2
<1> QED
  BY <1>1, <1>2 DEF KeysInv

(***************************************************************************)
(* The largest key that is at most v (evalToIndex).                        *)
(***************************************************************************)
LEMMA AtMostFacts ==
    ASSUME KeysInv, NEW o \in Obj, NEW v \in Int
    PROVE  /\ AtMost(o, v) \in slicedRoots[o] \cup {-1}
           /\ AtMost(o, v) \in Int /\ -1 <= AtMost(o, v)
           /\ AtMost(o, v) = -1 \/ AtMost(o, v) <= v
           /\ \A s \in slicedRoots[o] : s <= v => s <= AtMost(o, v)
<1> DEFINE B == {s \in slicedRoots[o] : s <= v} \cup {-1}
<1>1. slicedRoots[o] \in SUBSET Nat
  BY KeyFacts
<1>2. B \in SUBSET Int /\ B # {} /\ -1 \in B
  BY <1>1
<1>3. PICK n \in Int : v <= n /\ -1 <= n
  <2>1. CASE v <= -1
    BY <2>1
  <2>2. CASE ~ (v <= -1)
    <3>1. v <= v /\ -1 <= v
      BY <2>2
    <3> QED
      BY <3>1
  <2> QED
    BY <2>1, <2>2
<1>4. \A s \in B : s <= n
  BY <1>1, <1>3
<1>5. Max(B) \in B /\ \A s \in B : s <= Max(B)
  BY <1>2, <1>4, GreatestNumber
<1>6. AtMost(o, v) = Max(B)
  BY DEF AtMost
<1> HIDE DEF B
<1>7. AtMost(o, v) \in Int /\ -1 <= AtMost(o, v)
  BY <1>2, <1>5, <1>6
<1>8. \A s \in slicedRoots[o] : s <= v => s <= AtMost(o, v)
  BY <1>5, <1>6 DEF B
<1>9. AtMost(o, v) \in {s \in slicedRoots[o] : s <= v} \cup {-1}
  BY <1>5, <1>6 DEF B
<1> QED
  BY <1>7, <1>8, <1>9

(***************************************************************************)
(* A blocking clause (blockingClause) that is built from the keys of a     *)
(* slice excludes nothing but what its point dominates.                    *)
(***************************************************************************)
LEMMA BoundIsTight ==
    ASSUME EqualWeights, KeysInv, NEW x \in Assignment, NEW y \in Assignment,
           Blocks(Bound(Eval(slice, x)), y)
    PROVE  dominates(Eval(slice, x), Full[y])
<1> DEFINE p == Eval(slice, x)
<1>1. p \in YPoint /\ slice \in SUBSET Literal
  BY Values DEF KeysInv
<1> SUFFICES ASSUME NEW o \in Obj, ~ (p[o] <= Full[y][o]) PROVE FALSE
  BY DEF dominates
<1>2. p[o] \in Nat /\ Full[y][o] \in Nat
  BY <1>1, Values, ObjectiveAssumption DEF YPoint
<1> DEFINE A == {l \in slice : Holds(l, x)}
<1> DEFINE S == A \cap Counted(o)
<1> DEFINE B == {l \in Literal : Holds(l, y)}
<1> DEFINE T == B \cap Counted(o)
<1>3. S \in SUBSET Counted(o) /\ T \in SUBSET Counted(o)
  OBVIOUS
<1>4. p[o] = Total(o, S)
  <2>1. p[o] = Total(o, A)
    BY DEF Eval
  <2>2. Total(o, S) = Total(o, A)
    <3>1. S \cap Counted(o) = A \cap Counted(o) /\ A \in SUBSET Literal
      BY <1>1
    <3> QED
      BY <3>1, TotalFacts
  <2> QED
    BY <2>1, <2>2
<1>5. Full[y][o] = Total(o, T)
  <2>1. Full[y][o] = Total(o, B)
    BY Values
  <2>2. T \cap Counted(o) = B \cap Counted(o) /\ B \in SUBSET Literal
    OBVIOUS
  <2> QED
    BY <2>1, <2>2, TotalFacts
<1> HIDE DEF S, T, p
<1>6. Total(o, T) < Total(o, S)
  BY <1>2, <1>4, <1>5
<1>7. PICK R \in SUBSET S : Total(o, R) = Total(o, T)
  BY <1>3, <1>6, SmallerSums
<1>8. R \in SUBSET (slice \cap Counted(o))
  BY DEF S
<1>9. Full[y][o] \in slicedRoots[o]
  <2>1. CASE slicedRoots = AllSums(slice)
    <3>1. slicedRoots[o] = {Total(o, U) : U \in SUBSET (slice \cap Counted(o))}
      BY <2>1 DEF AllSums
    <3> QED
      BY <3>1, <1>5, <1>7, <1>8
  <2>2. CASE slice = {}
    <3>1. S = R
      BY <2>2 DEF S
    <3> QED
      BY <3>1, <1>6, <1>7, <1>2, <1>4, <1>5
  <2> QED
    BY <2>1, <2>2 DEF KeysInv
<1>10. Full[y][o] <= p[o] - 1 /\ p[o] - 1 \in Int
  BY <1>2
<1>11. Full[y][o] <= AtMost(o, p[o] - 1) /\ AtMost(o, p[o] - 1) \in Int
  BY <1>9, <1>10, AtMostFacts
<1>12. Full[y][o] > AtMost(o, p[o] - 1)
  BY DEF Blocks, Bound, p
<1> QED
  BY <1>2, <1>11, <1>12


-----------------------------------------------------------------------------
(***************************************************************************)
(* Fences are ordered as points are.                                       *)
(***************************************************************************)
LEMMA FenceOrder ==
    /\ \A p \in Fence : dominates(p, p)
    /\ \A p, q, r \in Fence : dominates(p, q) /\ dominates(q, r) => dominates(p, r)
    /\ \A p, q \in Fence : dominates(p, q) /\ dominates(q, p) => p = q
<1>1. \A p \in Fence : \A o \in Obj : p[o] \in Nat
  BY DEF Fence
<1>2. \A p \in Fence : dominates(p, p)
  BY <1>1 DEF dominates
<1>3. ASSUME NEW p \in Fence, NEW q \in Fence, NEW r \in Fence,
             dominates(p, q), dominates(q, r), NEW o \in Obj
      PROVE  p[o] <= r[o]
  <2>1. p[o] \in Nat /\ q[o] \in Nat /\ r[o] \in Nat
    BY <1>1
  <2>2. p[o] <= q[o] /\ q[o] <= r[o]
    BY <1>3 DEF dominates
  <2> QED
    BY <2>1, <2>2
<1>4. ASSUME NEW p \in Fence, NEW q \in Fence, dominates(p, q), dominates(q, p)
      PROVE  p = q
  <2>1. ASSUME NEW o \in Obj PROVE p[o] = q[o]
    <3>1. p[o] \in Nat /\ q[o] \in Nat
      BY <1>1
    <3>2. p[o] <= q[o] /\ q[o] <= p[o]
      BY <1>4 DEF dominates
    <3> QED
      BY <3>1, <3>2
  <2> QED
    BY <2>1 DEF Fence
<1> QED
  BY <1>2, <1>3, <1>4 DEF dominates

(***************************************************************************)
(* Pruning (insertAndPrune) keeps a fence around each fence that it drops. *)
(***************************************************************************)
LEMMA PruningKeeps ==
    ASSUME NEW A \in SUBSET Fence, IsFiniteSet(A), NEW p \in A
    PROVE  \E q \in A : dominates(p, q) /\ \A r \in A : dominates(q, r) => r = q
<1> DEFINE Above(q) == {r \in A : dominates(q, r)}
<1>1. ASSUME NEW q \in A
      PROVE  IsFiniteSet(Above(q)) /\ Cardinality(Above(q)) \in Nat
  BY FS_Subset, FS_CardinalityType
<1> DEFINE sizes == {Cardinality(Above(q)) : q \in Above(p)}
<1>2. p \in Above(p)
  BY FenceOrder
<1>3. sizes \in SUBSET Nat /\ sizes # {}
  BY <1>1, <1>2
<1>4. PICK m \in sizes : \A n \in sizes : m <= n
  BY <1>3, LeastNumber
<1>5. PICK q \in Above(p) : m = Cardinality(Above(q))
  OBVIOUS
<1>6. ASSUME NEW r \in A, dominates(q, r)
      PROVE  r = q
  <2>1. q \in A /\ q \in Fence /\ r \in Fence /\ dominates(p, q)
    OBVIOUS
  <2>2. r \in Above(p)
    BY <1>6, <2>1, FenceOrder
  <2>3. Above(r) \in SUBSET Above(q)
    BY <1>6, <2>1, FenceOrder
  <2>4. Cardinality(Above(q)) <= Cardinality(Above(r))
    BY <1>4, <1>5, <2>2
  <2>5. IsFiniteSet(Above(q)) /\ Cardinality(Above(q)) \in Nat /\ Cardinality(Above(r)) \in Nat
    BY <1>1, <2>1
  <2>6. /\ Cardinality(Above(r)) <= Cardinality(Above(q))
        /\ Cardinality(Above(q)) = Cardinality(Above(r)) => Above(q) = Above(r)
    BY <2>3, <2>5, FS_Subset
  <2>7. Above(r) = Above(q)
    BY <2>4, <2>5, <2>6
  <2>8. q \in Above(r)
    BY <2>1, <2>7, FenceOrder
  <2> QED
    BY <1>6, <2>1, <2>8, FenceOrder
<1> QED
  BY <1>5, <1>6

(***************************************************************************)
(* The next key above a fence (expansionPoints, extendUL).                 *)
(***************************************************************************)
LEMMA NextKey ==
    ASSUME KeysInv, NEW q \in Fence, NEW o \in Obj, Larger(o, q) # {}
    PROVE  /\ Min(Larger(o, q)) \in slicedRoots[o]
           /\ Min(Larger(o, q)) \in Nat
           /\ q[o] < Min(Larger(o, q))
<1>1. slicedRoots[o] \in SUBSET Nat /\ q[o] \in Nat
  BY KeyFacts DEF Fence
<1>2. Larger(o, q) \in SUBSET Nat
  BY <1>1 DEF Larger
<1>3. Min(Larger(o, q)) \in Larger(o, q)
  BY <1>2, MinIsLeast
<1> QED
  BY <1>1, <1>3 DEF Larger

(***************************************************************************)
(* An expansion of a fence is a fence that lies strictly further out, with *)
(* a stride or without.                                                    *)
(***************************************************************************)
LEMMA ExpandedFacts ==
    ASSUME KeysInv, NEW q \in Fence, NEW o \in Obj, Larger(o, q) # {}
    PROVE  /\ Expanded(q, o) \in Fence
           /\ dominates(q, Expanded(q, o))
           /\ q[o] < Expanded(q, o)[o]
<1> DEFINE n == Min(Larger(o, q))
<1> DEFINE t == q[o] * Stride
<1> DEFINE m == Max(slicedRoots[o])
<1>1. n \in slicedRoots[o] /\ n \in Nat /\ q[o] < n /\ q[o] \in Nat
  BY NextKey DEF Fence
<1>2. m \in Nat /\ n <= m
  BY <1>1, KeyFacts
<1>3. Stride \in Nat
  BY HittingSetsAssumption
<1>4. t \in Nat
  BY <1>1, <1>3
<1> DEFINE a == Max({n, t})
<1> DEFINE b == Min({a, m})
<1>5. Expanded(q, o) = [q EXCEPT ![o] = b]
  BY DEF Expanded
<1> HIDE DEF n, t, m
<1>6. a \in {n, t} /\ n <= a
  <2>1. \E v \in Int : \A s \in {n, t} : s <= v
    <3>1. n + t \in Int /\ n <= n + t /\ t <= n + t
      BY <1>1, <1>4
    <3> QED
      BY <3>1
  <2>2. {n, t} \in SUBSET Int /\ {n, t} # {}
    BY <1>1, <1>4
  <2> QED
    BY <2>1, <2>2, GreatestNumber
<1>7. a \in Nat
  BY <1>1, <1>4, <1>6
<1> HIDE DEF a
<1>8. b \in {a, m}
  BY <1>2, <1>7, MinIsLeast
<1> HIDE DEF b
<1>9. b \in Nat /\ q[o] < b
  BY <1>1, <1>2, <1>6, <1>7, <1>8
<1> DEFINE e == Expanded(q, o)
<1>10. e \in Fence /\ e[o] = b
  BY <1>5, <1>9 DEF Fence
<1>11. ASSUME NEW i \in Obj PROVE q[i] <= e[i]
  <2>1. CASE i = o
    BY <1>1, <1>9, <1>10, <2>1
  <2>2. CASE i # o
    <3>1. e[i] = q[i] /\ q[i] \in Nat
      BY <1>5, <2>2 DEF Fence
    <3> QED
      BY <3>1
  <2> QED
    BY <2>1, <2>2
<1> QED
  BY <1>9, <1>10, <1>11 DEF dominates

(***************************************************************************)
(* What is beyond a fence has a key that the fence can be moved to.        *)
(***************************************************************************)
LEMMA BeyondHasKey ==
    ASSUME KeysInv, NEW q \in Fence, NEW o \in Obj, NEW x \in Assignment,
           \A l \in AllCounted : Holds(l, x) => l \in slice, Beyond(o, q, x)
    PROVE  Larger(o, q) # {}
<1> DEFINE v == Full[x][o]
<1>1. v \in Nat /\ q[o] \in Nat
  BY Values DEF Fence
<1>2. slicedRoots[o] # {}
  <2>1. AtMost(o, q[o]) \in slicedRoots[o] \cup {-1} /\ AtMost(o, q[o]) # -1
    BY <1>1, AtMostFacts DEF Beyond
  <2> QED
    BY <2>1
<1>3. slicedRoots[o] = {Total(o, T) : T \in SUBSET (slice \cap Counted(o))}
  BY <1>2 DEF KeysInv, AllSums
<1> DEFINE A == {l \in slice : Holds(l, x)}
<1> DEFINE T == A \cap Counted(o)
<1>4. v = Total(o, A)
  <2>1. slice \in SUBSET Literal
    BY DEF KeysInv
  <2>2. Eval(slice, x) = Full[x]
    BY <2>1, FullyCounted
  <2> QED
    BY <2>2 DEF Eval
<1>5. Total(o, T) = Total(o, A)
  <2>1. T \cap Counted(o) = A \cap Counted(o) /\ A \in SUBSET Literal
    BY DEF KeysInv
  <2> QED
    BY <2>1, TotalFacts
<1>6. v \in slicedRoots[o]
  BY <1>3, <1>4, <1>5
<1>7. v > AtMost(o, q[o]) /\ AtMost(o, q[o]) \in Int
  BY <1>1, AtMostFacts DEF Beyond
<1>8. v <= q[o] => v <= AtMost(o, q[o])
  BY <1>1, <1>6, AtMostFacts
<1>9. v > q[o]
  BY <1>1, <1>7, <1>8
<1> QED
  BY <1>6, <1>9 DEF Larger


-----------------------------------------------------------------------------
(***************************************************************************)
(* The values of every slice are numbers (allSums).                        *)
(***************************************************************************)
LEMMA SumsAreNumbers ==
    ASSUME NEW S \in SUBSET Literal
    PROVE  AllSums(S) \in [Obj -> SUBSET Nat]
<1>1. ASSUME NEW o \in Obj, NEW T \in SUBSET (S \cap Counted(o))
      PROVE  Total(o, T) \in Nat
  <2>1. T \in SUBSET Literal
    OBVIOUS
  <2> QED
    BY <2>1, TotalFacts
<1> QED
  BY <1>1 DEF AllSums

(***************************************************************************)
(* The fence that a round starts with (searchAgain).                       *)
(***************************************************************************)
LEMMA StartFence ==
    ASSUME NEW failed \in SUBSET YPoint
    PROVE  (IF failed = {} THEN Zero ELSE Dominator(failed)) \in Fence
<1>1. Zero \in Fence
  BY DEF Zero, Fence
<1>2. ASSUME failed # {}, NEW o \in Obj
      PROVE  Min({p[o] : p \in failed}) \in Nat
  <2>1. {p[o] : p \in failed} \in SUBSET Nat /\ {p[o] : p \in failed} # {}
    BY <1>2, ObjectiveAssumption DEF YPoint
  <2> QED
    BY <2>1, MinIsLeast
<1> QED
  BY <1>1, <1>2 DEF Dominator, Fence

(***************************************************************************)
(* The blocking clause of a point is the one that is remembered for it, or *)
(* a new one (blockStep).                                                  *)
(***************************************************************************)
LEMMA BlockOfFacts ==
    ASSUME TypeOK, KeysInv, NEW p \in YPoint
    PROVE  /\ BlockOf(p).point = p
           /\ BlockOf(p) \in [point : YPoint, bound : Guard]
           /\ BlockOf(p) \in soft_blocks \/ BlockOf(p).bound = Bound(p)
<1>1. CASE \E s \in soft_blocks : s.point = p
  <2>1. BlockOf(p) \in soft_blocks /\ BlockOf(p).point = p
    BY <1>1 DEF BlockOf
  <2> QED
    BY <2>1 DEF TypeOK
<1>2. CASE ~ \E s \in soft_blocks : s.point = p
  <2>1. BlockOf(p) = [point |-> p, bound |-> Bound(p)]
    BY <1>2 DEF BlockOf
  <2>2. ASSUME NEW o \in Obj PROVE AtMost(o, p[o] - 1) \in -1 .. MaxValue
    <3>1. p[o] \in Nat /\ p[o] <= MaxValue /\ p[o] - 1 \in Int /\ MaxValue \in Nat
      BY ObjectiveAssumption DEF YPoint
    <3>2. /\ AtMost(o, p[o] - 1) \in Int /\ -1 <= AtMost(o, p[o] - 1)
          /\ AtMost(o, p[o] - 1) = -1 \/ AtMost(o, p[o] - 1) <= p[o] - 1
      BY <3>1, AtMostFacts
    <3> QED
      BY <3>1, <3>2
  <2>3. Bound(p) \in Guard
    BY <2>2 DEF Bound, Guard
  <2> QED
    BY <2>1, <2>3
<1> QED
  BY <1>1, <1>2

(***************************************************************************)
(* The count of the busy threads is positive as long as one is busy.       *)
(***************************************************************************)
LEMMA BusyFacts ==
    ASSUME ThreadsInv
    PROVE  /\ IsFiniteSet(Busy) /\ active \in Nat
           /\ active = 0 <=> Busy = {}
<1>1. Busy \in SUBSET Optimizer
  BY DEF Busy
<1>2. IsFiniteSet(Busy)
  BY <1>1, FS_Subset, HittingSetsAssumption
<1> QED
  BY <1>2, FS_CardinalityType, FS_EmptySet DEF ThreadsInv

\* The part of the inductive invariant that holds whatever the objectives count.
Basics == TypeOK /\ KeysInv /\ ThreadsInv /\ TestsInv /\ KnownInv /\ CandidatesInv

(***************************************************************************)
(* What an optimizing thread finds is a candidate, and so is its block.    *)
(***************************************************************************)
LEMMA FoundFacts ==
    ASSUME Basics, NEW w \in Optimizer, NEW x \in Open(w)
    PROVE  /\ x \in Assignment /\ Point(x) \in YPoint
           /\ BlockOf(Point(x)).point = Point(x)
           /\ BlockOf(Point(x)) \in [point : YPoint, bound : Guard]
           /\ [model |-> x, point |-> Point(x), bound |-> BlockOf(Point(x)).bound] \in Candidate
<1>1. x \in Assignment /\ slice \in SUBSET Literal
  BY DEF Open, Basics, TypeOK
<1>2. Point(x) \in YPoint
  BY <1>1, Values DEF Point
<1>3. /\ BlockOf(Point(x)).point = Point(x)
      /\ BlockOf(Point(x)) \in [point : YPoint, bound : Guard]
  BY <1>2, BlockOfFacts DEF Basics
<1> QED
  BY <1>1, <1>2, <1>3 DEF Candidate

(***************************************************************************)
(* The expansions that a thread inserts are fences, finitely many, and the *)
(* list that is pruned stays a finite set of fences.                       *)
(***************************************************************************)
LEMMA InsertFacts ==
    ASSUME Basics, NEW w \in Optimizer, NEW C \in SUBSET Obj,
           Insert({Expanded(fence[w], o) : o \in {c \in C : Larger(c, fence[w]) # {}}})
    PROVE  /\ pending' \in SUBSET Fence /\ seen' \in SUBSET Fence
           /\ IsFiniteSet(pending')
           /\ pending \subseteq seen => pending' \subseteq seen'
           /\ seen' = seen \cup {Expanded(fence[w], o) : o \in {c \in C : Larger(c, fence[w]) # {}}}
           /\ \A q \in pending \cup (seen' \ seen) : \E r \in pending' : dominates(q, r)
<1> DEFINE D == {c \in C : Larger(c, fence[w]) # {}}
<1> DEFINE P == {Expanded(fence[w], o) : o \in D}
<1> DEFINE all == pending \cup (P \ seen)
<1>1. fence[w] \in Fence /\ pending \in SUBSET Fence /\ seen \in SUBSET Fence /\ IsFiniteSet(pending)
  BY DEF Basics, TypeOK, ThreadsInv
<1>2. P \in SUBSET Fence
  BY <1>1, ExpandedFacts DEF Basics
<1>3. IsFiniteSet(P)
  <2> DEFINE f == [o \in D |-> Expanded(fence[w], o)]
  <2>1. f \in Surjection(D, P)
    BY DEF Surjection
  <2>2. IsFiniteSet(D)
    BY FS_Subset, HittingSetsAssumption
  <2> QED
    BY <2>1, <2>2, FS_Surjection
<1>4. IsFiniteSet(all) /\ all \in SUBSET Fence
  <2>1. IsFiniteSet(P \ seen)
    BY <1>3, FS_Subset
  <2> QED
    BY <1>1, <1>2, <2>1, FS_Union
<1>5. /\ seen' = seen \cup P
      /\ pending' = {q \in all : \A r \in all : dominates(q, r) => r = q}
  BY DEF Insert
<1> HIDE DEF P
<1>6. \A q \in all : \E r \in pending' : dominates(q, r)
  BY <1>4, <1>5, PruningKeeps
<1>7. pending' \in SUBSET all
  BY <1>5
<1>8. IsFiniteSet(pending')
  BY <1>4, <1>7, FS_Subset
<1>9. seen' \ seen \subseteq all
  BY <1>5
<1> QED
  BY <1>1, <1>2, <1>4, <1>5, <1>6, <1>7, <1>8, <1>9 DEF P


-----------------------------------------------------------------------------
(***************************************************************************)
(* The parts of the invariant that need no hypothesis hold at the start.   *)
(***************************************************************************)
LEMMA BasicsInit == Init => Basics
<1> SUFFICES ASSUME Init PROVE Basics
  OBVIOUS
<1>1. Zero \in Fence
  BY DEF Zero, Fence
<1>2. sequential \in BOOLEAN /\ budget \in BOOLEAN
  BY HittingSetsAssumption DEF Init
<1>3. frozen \subseteq Literal
  BY Literals DEF Init
<1>4. TypeOK
  BY <1>1, <1>2, <1>3 DEF Init, TypeOK
<1>5. KeysInv
  BY DEF Init, KeysInv
<1>6. ThreadsInv
  <2>1. Busy = {}
    BY DEF Init, Busy
  <2>2. active = Cardinality(Busy) /\ IsFiniteSet(pending)
    BY <2>1, FS_EmptySet DEF Init
  <2> QED
    BY <2>2 DEF Init, ThreadsInv
<1>7. TestsInv
  BY DEF Init, TestsInv
<1>8. KnownInv
  BY DEF Init, KnownInv, IsAntichain
<1>9. CandidatesInv
  BY DEF Init, CandidatesInv
<1> QED
  BY <1>4, <1>5, <1>6, <1>7, <1>8, <1>9 DEF Basics

(***************************************************************************)
(* Archiving a point (syncSolutions) keeps the archive an antichain, and   *)
(* uncovers nothing.                                                       *)
(***************************************************************************)
LEMMA ArchiveFacts ==
    ASSUME front \subseteq YPoint, NEW p \in YPoint, Archive(p)
    PROVE  /\ front' \subseteq front \cup {p}
           /\ IsAntichain(front) => IsAntichain(front')
           /\ \A q \in YPoint : Covers(front \cup {p}, q) => Covers(front', q)
<1>1. CASE Covers(front, p)
  <2>1. front' = front
    BY <1>1 DEF Archive
  <2>2. ASSUME NEW q \in YPoint, Covers(front \cup {p}, q) PROVE Covers(front', q)
    <3>1. PICK r \in front : dominates(r, p)
      BY <1>1 DEF Covers
    <3>2. dominates(p, q) => dominates(r, q)
      BY <3>1, DominanceOrder
    <3> QED
      BY <2>1, <2>2, <3>1, <3>2 DEF Covers
  <2> QED
    BY <2>1, <2>2
<1>2. CASE ~ Covers(front, p)
  <2>1. front' = {q \in front : ~ dominates(p, q)} \cup {p}
    BY <1>2 DEF Archive
  <2>2. ASSUME NEW q \in YPoint, Covers(front \cup {p}, q) PROVE Covers(front', q)
    <3>1. PICK r \in front \cup {p} : dominates(r, q)
      BY <2>2 DEF Covers
    <3>2. CASE r = p \/ dominates(p, r)
      <4>1. dominates(p, q)
        BY <3>1, <3>2, DominanceOrder
      <4> QED
        BY <2>1, <4>1 DEF Covers
    <3>3. CASE r # p /\ ~ dominates(p, r)
      BY <2>1, <3>1, <3>3 DEF Covers
    <3> QED
      BY <3>2, <3>3
  <2>3. ASSUME IsAntichain(front) PROVE IsAntichain(front')
    BY <1>2, <2>1, <2>3 DEF IsAntichain, Covers
  <2> QED
    BY <2>1, <2>2, <2>3
<1> QED
  BY <1>1, <1>2

(***************************************************************************)
(* What the next round starts with (setup_approx: thaw, checkSols and      *)
(* searchAgain).                                                           *)
(***************************************************************************)
LEMMA SetupFacts ==
    ASSUME TypeOK, SetupApprox
    PROVE  /\ phase = "test" /\ tested = Worker
           /\ \E ul \in Fence : pending' = {ul} /\ seen' = {ul}
           /\ UNCHANGED <<problem, front, answerType, active, fence, guards, untested,
                          rejected, tested>>
           /\ phase' = "search" /\ activeBlocks' = {} /\ marked_sols' = {} /\ diagnoses' = {}
           /\ clauses' = clauses \cup diagnoses
           /\ pc' = [w \in Optimizer |-> IF w \in Crew THEN "pop" ELSE "idle"]
           /\ frozen' = frozen \ (UNION diagnoses)
           /\ slice' = slice \cup (UNION diagnoses) \cup {Not(l) : l \in (UNION diagnoses) \ frozen}
           /\ slicedRoots' = AllSums(slice')
           /\ lowerBound' = {c.point : c \in solution \cap marked_sols}
           /\ permanent' = permanent \cup {c.bound : c \in solution \ marked_sols}
           /\ soft_blocks' \subseteq soft_blocks
           /\ solution' = {}
<1>1. {c.point : c \in solution \cap marked_sols} \subseteq YPoint
  BY DEF TypeOK, Candidate
<1>2. lowerBound' = {c.point : c \in solution \cap marked_sols} /\ SearchAgain(lowerBound')
  BY DEF SetupApprox, CheckSols
<1>3. \E ul \in Fence : pending' = {ul} /\ seen' = {ul}
  BY <1>1, <1>2, StartFence DEF SearchAgain
<1> QED
  BY <1>3 DEF SetupApprox, Thaw, CheckSols, SearchAgain

(***************************************************************************)
(* Every step keeps the types.                                             *)
(***************************************************************************)
LEMMA TypeStep == Basics /\ Next => TypeOK'
<1> SUFFICES ASSUME Basics, Next PROVE TypeOK'
  OBVIOUS
<1>0. TypeOK /\ KeysInv /\ ThreadsInv /\ TestsInv /\ KnownInv
  BY DEF Basics
<1>1. CASE FirstSolution
  <2>1. PICK x \in formula : Archive(Full[x])
    BY <1>1 DEF FirstSolution
  <2>2. x \in Assignment
    BY <1>0, HittingSetsAssumption DEF TypeOK
  <2>3. front' \subseteq YPoint
    BY <1>0, <2>1, <2>2, Values, ArchiveFacts DEF TypeOK
  <2>4. Zero \in Fence
    BY DEF Zero, Fence
  <2>5. pending' = {Zero} /\ seen' = {Zero} /\ activeBlocks' = {} /\ phase' = "search"
        /\ pc' = [w \in Optimizer |-> IF w \in Crew THEN "pop" ELSE "idle"]
    BY <1>1 DEF FirstSolution, SearchAgain
  <2> QED
    BY <1>0, <1>1, <2>3, <2>4, <2>5
    DEF TypeOK, FirstSolution, relaxation, testing, problem
<1>2. CASE Unsatisfiable
  BY <1>0, <1>2 DEF TypeOK, Unsatisfiable, relaxation, search, testing, problem
<1>3. CASE StartTesting
  <2>1. Zero \in Fence
    BY DEF Zero, Fence
  <2> QED
    BY <1>0, <1>3, <2>1 DEF TypeOK, StartTesting, relaxation, problem
<1>4. CASE SetupApprox
  <2>1. UNION diagnoses \subseteq Literal
    BY <1>0 DEF TypeOK
  <2>2. slice' \subseteq Literal
    BY <1>0, <1>4, <2>1, SetupFacts, Literals DEF TypeOK
  <2>3. slicedRoots' \in [Obj -> SUBSET Nat]
    BY <1>0, <1>4, <2>2, SetupFacts, SumsAreNumbers
  <2>4. lowerBound' \subseteq YPoint /\ permanent' \subseteq Guard
    BY <1>0, <1>4, SetupFacts DEF TypeOK, Candidate
  <2>5. pending' \subseteq Fence /\ seen' \subseteq Fence
    <3>1. \E ul \in Fence : pending' = {ul} /\ seen' = {ul}
      BY <1>0, <1>4, SetupFacts
    <3> QED
      BY <3>1
  <2>6. pc' = [w \in Optimizer |-> IF w \in Crew THEN "pop" ELSE "idle"] /\ phase' = "search"
    BY <1>0, <1>4, SetupFacts
  <2>7. /\ frozen' \subseteq Literal /\ soft_blocks' \subseteq soft_blocks
        /\ clauses' = clauses \cup diagnoses /\ diagnoses' = {} /\ activeBlocks' = {}
        /\ marked_sols' = {} /\ solution' = {}
        /\ UNCHANGED <<problem, front, answerType, active, fence, guards, untested,
                       rejected, tested>>
    BY <1>0, <1>4, SetupFacts DEF TypeOK
  <2> QED
    BY <1>0, <2>2, <2>3, <2>4, <2>5, <2>6, <2>7 DEF TypeOK, problem
<1>5. CASE Answer
  BY <1>0, <1>5 DEF TypeOK, Answer, relaxation, search, testing, problem
<1>6. ASSUME NEW w \in Optimizer, Optimize(w) PROVE TypeOK'
  <2>1. CASE Pop(w)
    BY <1>0, <2>1 DEF TypeOK, Pop, Goto, relaxation, testing, problem
  <2>2. CASE Finish(w)
    BY <1>0, <2>2 DEF TypeOK, Finish, Goto, relaxation, testing, problem
  <2>3. CASE Synchronize(w)
    BY <1>0, <2>3 DEF TypeOK, Synchronize, Goto, relaxation, testing, problem
  <2>4. CASE Leave(w)
    <3>1. Zero \in Fence
      BY DEF Zero, Fence
    <3> QED
      BY <1>0, <2>4, <3>1 DEF TypeOK, Leave, Goto, relaxation, testing, problem
  <2>5. CASE SolveSat(w)
    <3>1. PICK x \in Open(w) :
            \/ solution' \subseteq solution /\ UNCHANGED <<soft_blocks, activeBlocks>>
            \/ /\ solution' \subseteq solution \cup
                      {[model |-> x, point |-> Point(x), bound |-> BlockOf(Point(x)).bound]}
               /\ soft_blocks' = soft_blocks \cup {BlockOf(Point(x))}
               /\ activeBlocks' = activeBlocks \cup {BlockOf(Point(x)).bound}
      BY <2>5 DEF SolveSat
    <3>2. /\ BlockOf(Point(x)) \in [point : YPoint, bound : Guard]
          /\ [model |-> x, point |-> Point(x), bound |-> BlockOf(Point(x)).bound] \in Candidate
      BY FoundFacts
    <3>3. solution' \subseteq Candidate /\ activeBlocks' \subseteq Guard
          /\ soft_blocks' \subseteq [point : YPoint, bound : Guard]
      BY <1>0, <3>1, <3>2 DEF TypeOK
    <3>4. /\ UNCHANGED <<problem, phase, front, answerType, relaxation, pending, seen,
                         active, fence, guards, testing>>
          /\ Goto(w, "sync")
      BY <2>5 DEF SolveSat
    <3> QED
      BY <1>0, <3>3, <3>4 DEF TypeOK, Goto, relaxation, testing, problem
  <2>6. CASE SolveUnsat(w)
    <3>1. PICK C \in SUBSET Obj :
            Insert({Expanded(fence[w], o) : o \in {c \in C : Larger(c, fence[w]) # {}}})
      BY <2>6 DEF SolveUnsat
    <3>2. pending' \in SUBSET Fence /\ seen' \in SUBSET Fence
      BY <3>1, InsertFacts
    <3>3. /\ UNCHANGED <<problem, phase, front, answerType, relaxation, soft_blocks,
                         solution, activeBlocks, active, fence, guards, testing>>
          /\ Goto(w, "leave")
      BY <2>6 DEF SolveUnsat
    <3> QED
      BY <1>0, <3>2, <3>3 DEF TypeOK, Goto, relaxation, testing, problem
  <2>7. CASE ExtendUL(w)
    <3>1. /\ UNCHANGED <<problem, phase, front, answerType, relaxation, soft_blocks,
                         solution, pending, seen, active, guards, testing>>
          /\ pc' \in [Optimizer -> {"idle", "pop", "sync", "solve", "leave"}]
      BY <1>0, <2>7 DEF ExtendUL, Goto, TypeOK
    <3>2. fence' \in [Optimizer -> Fence] /\ activeBlocks' \subseteq Guard
      <4>1. PICK D \in SUBSET Obj :
              /\ \A o \in D : Larger(o, fence[w]) # {}
              /\ \/ UNCHANGED <<fence, activeBlocks>>
                 \/ /\ fence' = [fence EXCEPT ![w] =
                           [o \in Obj |-> IF o \in D THEN Min(Larger(o, fence[w]))
                                                     ELSE fence[w][o]]]
                    /\ activeBlocks' = {c.bound : c \in solution}
        BY <2>7 DEF ExtendUL
      <4>2. \A o \in D : Min(Larger(o, fence[w])) \in Nat
        BY <1>0, <4>1, NextKey DEF TypeOK
      <4>3. [o \in Obj |-> IF o \in D THEN Min(Larger(o, fence[w])) ELSE fence[w][o]] \in Fence
        BY <1>0, <4>2 DEF TypeOK, Fence
      <4>4. {c.bound : c \in solution} \subseteq Guard
        BY <1>0 DEF TypeOK, Candidate
      <4> QED
        BY <1>0, <4>1, <4>3, <4>4 DEF TypeOK
    <3> QED
      BY <1>0, <3>1, <3>2 DEF TypeOK, relaxation, testing, problem
  <2>8. CASE SolveUndef(w)
    BY <1>0, <2>8 DEF TypeOK, SolveUndef, Goto, relaxation, testing, problem
  <2> QED
    BY <1>6, <2>1, <2>2, <2>3, <2>4, <2>5, <2>6, <2>7, <2>8 DEF Optimize
<1>7. ASSUME NEW w \in Worker, Test(w) PROVE TypeOK'
  <2>1. CASE TestSat(w)
    <3>1. PICK c \in untested : Archive(Full[c.model]) /\ untested' = untested \ {c}
      BY <2>1 DEF TestSat
    <3>2. c.model \in Assignment
      BY <1>0 DEF TypeOK, Candidate
    <3>3. front' \subseteq YPoint
      BY <1>0, <3>1, <3>2, Values, ArchiveFacts DEF TypeOK
    <3> QED
      BY <1>0, <2>1, <3>1, <3>3 DEF TypeOK, TestSat, relaxation, search, problem
  <2>2. CASE TestUnsat(w)
    <3>0. PICK c \in untested : \E conflict \in Conflicts(c.model) :
            /\ rejected' = [rejected EXCEPT ![w] = @ \cup {[of |-> c, core |-> conflict]}]
            /\ untested' = untested \ {c}
      BY <2>2 DEF TestUnsat
    <3>1. PICK conflict \in Conflicts(c.model) :
            /\ rejected' = [rejected EXCEPT ![w] = @ \cup {[of |-> c, core |-> conflict]}]
            /\ untested' = untested \ {c}
      BY <3>0
    <3>2. c \in Candidate /\ conflict \in SUBSET Literal
      <4>1. c \in Candidate /\ c.model \in Assignment
        BY <1>0 DEF TypeOK, Candidate
      <4>2. \A v \in Var : [var |-> v, sign |-> ~ c.model[v]] \in Literal
        BY <4>1 DEF Literal, Assignment
      <4> QED
        BY <4>1, <4>2 DEF Conflicts
    <3>3. [of |-> c, core |-> conflict] \in [of : Candidate, core : SUBSET Literal]
      BY <3>2
    <3> QED
      BY <1>0, <2>2, <3>1, <3>3 DEF TypeOK, TestUnsat, relaxation, search, problem
  <2>3. CASE Report(w)
    <3>1. {r.of : r \in rejected[w]} \subseteq Candidate
          /\ {r.core : r \in rejected[w]} \subseteq SUBSET Literal
      BY <1>0 DEF TypeOK
    <3> QED
      BY <1>0, <2>3, <3>1 DEF TypeOK, Report, relaxation, search, problem
  <2> QED
    BY <1>7, <2>1, <2>2, <2>3 DEF Test
<1> QED
  BY <1>1, <1>2, <1>3, <1>4, <1>5, <1>6, <1>7 DEF Next, Main


(***************************************************************************)
(* A step of the optimizer happens during the search, and leaves alone     *)
(* what belongs to the main thread and to the workers that test.           *)
(***************************************************************************)
LEMMA OptimizeKeeps ==
    ASSUME TypeOK, ThreadsInv, NEW w \in Optimizer, Optimize(w)
    PROVE  /\ phase = "search" /\ w \in Crew
           /\ UNCHANGED <<problem, phase, front, answerType, relaxation, testing>>
<1>1. pc[w] # "idle" /\ UNCHANGED <<problem, phase, front, answerType, relaxation, testing>>
  BY DEF Optimize, Pop, Finish, Synchronize, Leave, SolveSat, SolveUnsat, ExtendUL, SolveUndef
<1> QED
  BY <1>1 DEF ThreadsInv

(***************************************************************************)
(* A step of a worker that tests leaves the optimizer alone.               *)
(***************************************************************************)
LEMMA TestKeeps ==
    ASSUME NEW w \in Worker, Test(w)
    PROVE  /\ phase = "test"
           /\ UNCHANGED <<problem, phase, answerType, relaxation, search>>
BY DEF Test, TestSat, TestUnsat, Report

(***************************************************************************)
(* Only the setup of a round changes the relaxation, and nothing changes   *)
(* the formula.                                                            *)
(***************************************************************************)
LEMMA RelaxationKept ==
    ASSUME TypeOK, ThreadsInv, Next
    PROVE  /\ UNCHANGED problem
           /\ SetupApprox \/ UNCHANGED relaxation
<1>1. CASE Main
  BY <1>1 DEF Main, FirstSolution, Unsatisfiable, StartTesting, SetupApprox, Answer
<1>2. ASSUME NEW w \in Optimizer, Optimize(w) PROVE UNCHANGED <<problem, relaxation>>
  BY <1>2, OptimizeKeeps
<1>3. ASSUME NEW w \in Worker, Test(w) PROVE UNCHANGED <<problem, relaxation>>
  BY <1>3, TestKeeps
<1> QED
  BY <1>1, <1>2, <1>3 DEF Next

(***************************************************************************)
(* The keys of every slice are its sums.                                   *)
(***************************************************************************)
LEMMA KeysStep == Basics /\ Next => KeysInv'
<1> SUFFICES ASSUME Basics, Next PROVE KeysInv'
  OBVIOUS
<1>1. CASE SetupApprox
  <2>1. slice' \subseteq Literal
    BY TypeStep DEF TypeOK
  <2>2. slicedRoots' = AllSums(slice')
    BY <1>1, SetupFacts DEF Basics
  <2> QED
    BY <2>1, <2>2 DEF KeysInv, AllSums
<1>2. CASE UNCHANGED relaxation
  <2>1. slice' = slice /\ slicedRoots' = slicedRoots
    BY <1>2 DEF relaxation
  <2> QED
    BY <2>1 DEF Basics, KeysInv, AllSums
<1> QED
  BY <1>1, <1>2, RelaxationKept DEF Basics

(***************************************************************************)
(* A thread that leaves the search leaves nothing behind.                  *)
(***************************************************************************)
LEMMA ThreadsStep == Basics /\ Next => ThreadsInv'
<1> SUFFICES ASSUME Basics, Next PROVE ThreadsInv'
  OBVIOUS
<1>0. TypeOK /\ ThreadsInv /\ IsFiniteSet(Busy)
  BY BusyFacts DEF Basics
<1>00. Crew' = Crew /\ Crew \subseteq Optimizer /\ Crew # {}
  BY RelaxationKept, HittingSetsAssumption DEF Basics, Crew, problem
<1> DEFINE Labels == {"idle", "pop", "sync", "solve", "leave"}
<1>P. pc \in [Optimizer -> Labels]
  BY <1>0 DEF TypeOK
<1>1. ASSUME phase' = "search", pc' = [v \in Optimizer |-> IF v \in Crew THEN "pop" ELSE "idle"],
             phase # "search", active' = active, guards' = guards,
             \E ul \in Fence : pending' = {ul} /\ seen' = {ul}
      PROVE  ThreadsInv'
  <2>1. Busy = {} /\ Busy' = {}
    BY <1>0, <1>1 DEF Busy, ThreadsInv
  <2>2. active' = Cardinality(Busy')
    BY <1>0, <1>1, <2>1 DEF ThreadsInv
  <2>3. IsFiniteSet(pending') /\ seen' # {} /\ pending' \subseteq seen'
    BY <1>1, FS_Singleton
  <2> QED
    BY <1>00, <1>1, <2>2, <2>3 DEF ThreadsInv
<1>2. CASE FirstSolution
  <2>1. Zero \in Fence
    BY DEF Zero, Fence
  <2> QED
    BY <1>1, <1>2, <2>1 DEF FirstSolution, SearchAgain
<1>3. CASE SetupApprox
  BY <1>0, <1>1, <1>3, SetupFacts
<1>4. CASE Unsatisfiable \/ Answer
  <2>1. UNCHANGED search /\ phase' = "done" /\ phase # "search"
    BY <1>4 DEF Unsatisfiable, Answer
  <2>2. Busy' = Busy
    BY <2>1 DEF Busy, search
  <2> QED
    BY <1>0, <1>00, <2>1, <2>2 DEF ThreadsInv, search
<1>5. CASE StartTesting
  <2>1. Busy' = Busy
    BY <1>5 DEF Busy, StartTesting
  <2> QED
    BY <1>0, <1>00, <1>5, <2>1 DEF ThreadsInv, StartTesting
<1>6. ASSUME NEW w \in Worker, Test(w) PROVE ThreadsInv'
  <2>1. UNCHANGED search /\ phase' = phase
    BY <1>6, TestKeeps
  <2>2. Busy' = Busy
    BY <2>1 DEF Busy, search
  <2> QED
    BY <1>0, <1>00, <2>1, <2>2 DEF ThreadsInv, search
<1>7. ASSUME NEW w \in Optimizer, Optimize(w) PROVE ThreadsInv'
  <2>0. /\ phase = "search" /\ phase' = "search" /\ w \in Crew
        /\ seen # {} /\ pending \subseteq seen /\ IsFiniteSet(pending)
        /\ active = Cardinality(Busy)
        /\ (\E v \in Crew : pc[v] = "idle") => pending = {} /\ Busy = {}
        /\ \A v \in Optimizer \ Crew : pc[v] = "idle"
    BY <1>0, <1>7, OptimizeKeeps DEF ThreadsInv
  <2>1. CASE Pop(w)
    <3>1. PICK q \in pending : pending' = pending \ {q}
      BY <2>1 DEF Pop
    <3>2. pc[w] = "pop" /\ pc' = [pc EXCEPT ![w] = "sync"] /\ active' = active + 1 /\ seen' = seen
      BY <2>1 DEF Pop, Goto
    <3>3. w \notin Busy /\ Busy' = Busy \cup {w}
      BY <1>P, <3>2 DEF Busy
    <3>4. active' = Cardinality(Busy')
      BY <1>0, <2>0, <3>2, <3>3, FS_AddElement
    <3>5. IsFiniteSet(pending') /\ pending' \subseteq seen'
      BY <2>0, <3>1, <3>2, FS_RemoveElement
    <3>6. \A v \in Crew : pc'[v] # "idle"
      BY <1>P, <1>00, <2>0, <3>1, <3>2
    <3>7. \A v \in Optimizer \ Crew : pc'[v] = "idle"
      BY <1>P, <2>0, <3>2
    <3> QED
      BY <1>00, <2>0, <3>2, <3>4, <3>5, <3>6, <3>7 DEF ThreadsInv
  <2>2. CASE Finish(w)
    <3>1. /\ pc[w] = "pop" /\ pc' = [pc EXCEPT ![w] = "idle"] /\ active' = active
          /\ pending = {} /\ active = 0 /\ pending' = pending /\ seen' = seen
      BY <2>2 DEF Finish, Goto
    <3>2. Busy = {} /\ Busy' = Busy
      <4>1. Busy = {}
        BY <1>0, <3>1, BusyFacts
      <4> QED
        BY <1>P, <3>1, <4>1 DEF Busy
    <3>3. \A v \in Optimizer \ Crew : pc'[v] = "idle"
      BY <1>P, <2>0, <3>1
    <3> QED
      BY <1>00, <2>0, <3>1, <3>2, <3>3 DEF ThreadsInv
  <2>3. ASSUME pc[w] \in {"sync", "solve"},
               \/ pc' = [pc EXCEPT ![w] = "sync"]
               \/ pc' = [pc EXCEPT ![w] = "solve"]
               \/ pc' = [pc EXCEPT ![w] = "leave"],
               active' = active, seen \subseteq seen',
               IsFiniteSet(pending'), pending' \subseteq seen'
        PROVE  ThreadsInv'
    <3>1. w \in Busy /\ Busy' = Busy
      BY <1>P, <2>3 DEF Busy
    <3>2. \A v \in Crew : pc'[v] # "idle"
      BY <1>P, <1>00, <2>0, <2>3, <3>1
    <3>3. \A v \in Optimizer \ Crew : pc'[v] = "idle"
      BY <1>P, <2>0, <2>3
    <3> QED
      BY <1>00, <2>0, <2>3, <3>1, <3>2, <3>3 DEF ThreadsInv
  <2>4. CASE Synchronize(w)
    BY <2>0, <2>3, <2>4 DEF Synchronize, Goto
  <2>5. CASE SolveSat(w)
    BY <2>0, <2>3, <2>5 DEF SolveSat, Goto
  <2>6. CASE SolveUnsat(w)
    <3>1. PICK C \in SUBSET Obj :
            Insert({Expanded(fence[w], o) : o \in {c \in C : Larger(c, fence[w]) # {}}})
      BY <2>6 DEF SolveUnsat
    <3>2. IsFiniteSet(pending') /\ pending' \subseteq seen'
      BY <2>0, <3>1, InsertFacts
    <3>3. seen \subseteq seen'
      BY <3>1 DEF Insert
    <3> QED
      BY <2>3, <2>6, <3>2, <3>3 DEF SolveUnsat, Goto
  <2>7. CASE ExtendUL(w)
    <3>1. pc' = [pc EXCEPT ![w] = "leave"] \/ pc' = [pc EXCEPT ![w] = "sync"]
      BY <2>7 DEF ExtendUL, Goto
    <3>2. pc[w] = "solve" /\ active' = active /\ seen' = seen /\ pending' = pending
      BY <2>7 DEF ExtendUL
    <3> QED
      BY <2>0, <2>3, <3>1, <3>2
  <2>8. CASE SolveUndef(w)
    BY <2>0, <2>3, <2>8 DEF SolveUndef, Goto
  <2>9. CASE Leave(w)
    <3>1. /\ pc[w] = "leave" /\ pc' = [pc EXCEPT ![w] = "pop"] /\ active' = active - 1
          /\ pending' = pending /\ seen' = seen
      BY <2>9 DEF Leave, Goto
    <3>2. w \in Busy /\ Busy' = Busy \ {w}
      BY <1>P, <3>1 DEF Busy
    <3>3. active' = Cardinality(Busy')
      BY <1>0, <2>0, <3>1, <3>2, FS_RemoveElement
    <3>4. \A v \in Crew : pc'[v] # "idle"
      BY <1>P, <1>00, <2>0, <3>1, <3>2
    <3>5. \A v \in Optimizer \ Crew : pc'[v] = "idle"
      BY <1>P, <2>0, <3>1
    <3> QED
      BY <1>00, <2>0, <3>1, <3>3, <3>4, <3>5 DEF ThreadsInv
  <2> QED
    BY <1>7, <2>1, <2>2, <2>4, <2>5, <2>6, <2>7, <2>8, <2>9 DEF Optimize
<1> QED
  BY <1>2, <1>3, <1>4, <1>5, <1>6, <1>7 DEF Next, Main


(***************************************************************************)
(* No candidate is lost between the workers (recycleLowerBoundSet).        *)
(***************************************************************************)
LEMMA TestsStep == Basics /\ Next => TestsInv'
<1> SUFFICES ASSUME Basics, Next PROVE TestsInv'
  OBVIOUS
<1>0. TypeOK /\ ThreadsInv /\ TestsInv
  BY DEF Basics
<1>1. CASE FirstSolution \/ Unsatisfiable
  BY <1>0, <1>1
  DEF TestsInv, FirstSolution, SearchAgain, Unsatisfiable, search, testing
<1>2. CASE StartTesting
  <2>1. /\ phase = "search" /\ phase' = "test" /\ tested' = {} /\ untested' = solution
        /\ UNCHANGED <<solution, rejected, marked_sols, diagnoses>>
    BY <1>2 DEF StartTesting
  <2>2. marked_sols = {} /\ \A w \in Worker : rejected[w] = {}
    BY <1>0, <2>1 DEF TestsInv
  <2>3. Worker # {}
    BY HittingSetsAssumption
  <2> QED
    BY <2>1, <2>2, <2>3 DEF TestsInv
<1>3. CASE SetupApprox
  <2>1. /\ phase = "test" /\ phase' = "search" /\ tested = Worker
        /\ untested' = untested /\ rejected' = rejected /\ tested' = tested
        /\ marked_sols' = {} /\ diagnoses' = {} /\ solution' = {}
    BY <1>0, <1>3, SetupFacts
  <2>2. untested = {} /\ \A w \in Worker : rejected[w] = {}
    BY <1>0, <2>1 DEF TestsInv
  <2> QED
    BY <2>1, <2>2 DEF TestsInv
<1>4. CASE Answer
  <2>1. /\ phase = "test" /\ phase' = "done" /\ tested = Worker /\ diagnoses = {}
        /\ UNCHANGED <<solution, untested, rejected, tested, marked_sols, diagnoses>>
    BY <1>4 DEF Answer, search, testing
  <2>2. untested = {} /\ marked_sols = {} /\ \A w \in Worker : rejected[w] = {}
    BY <1>0, <2>1 DEF TestsInv
  <2> QED
    BY <2>1, <2>2 DEF TestsInv
<1>5. ASSUME NEW w \in Optimizer, Optimize(w) PROVE TestsInv'
  <2>1. phase = "search" /\ phase' = "search"
        /\ UNCHANGED <<untested, rejected, tested, marked_sols, diagnoses>>
    BY <1>0, <1>5, OptimizeKeeps DEF testing
  <2> QED
    BY <1>0, <2>1 DEF TestsInv
<1>6. ASSUME NEW w \in Worker, Test(w) PROVE TestsInv'
  <2>0. phase = "test" /\ phase' = "test" /\ solution' = solution
    BY <1>6, TestKeeps DEF search
  <2>1. CASE TestSat(w)
    <3>1. PICK c \in untested : Archive(Full[c.model]) /\ untested' = untested \ {c}
      BY <2>1 DEF TestSat
    <3>2. UNCHANGED <<rejected, tested, marked_sols, diagnoses>> /\ w \notin tested
      BY <2>1 DEF TestSat
    <3>3. /\ \A d \in solution : d.model \in Assignment /\ Full[d.model] \in YPoint
          /\ c \in solution /\ front \subseteq YPoint
      BY <1>0, Values DEF TypeOK, TestsInv, Candidate
    <3>4. Covers(front', Full[c.model])
      <4>1. Covers(front \cup {Full[c.model]}, Full[c.model])
        BY <3>3, DominanceOrder DEF Covers
      <4> QED
        BY <3>1, <3>3, <4>1, ArchiveFacts
    <3>5. \A d \in solution : Covers(front, Full[d.model]) => Covers(front', Full[d.model])
      <4> TAKE d \in solution
      <4> HAVE Covers(front, Full[d.model])
      <4>1. Covers(front \cup {Full[c.model]}, Full[d.model])
        BY DEF Covers
      <4> QED
        BY <3>1, <3>3, <4>1, ArchiveFacts
    <3>6. ASSUME NEW d \in solution
          PROVE  \/ d \in untested' \cup marked_sols'
                 \/ \E v \in Worker : \E r \in rejected'[v] : r.of = d
                 \/ Covers(front', Full[d.model])
      BY <1>0, <2>0, <3>1, <3>2, <3>4, <3>5 DEF TestsInv
    <3> QED
      BY <1>0, <2>0, <3>1, <3>2, <3>6 DEF TestsInv
  <2>2. CASE TestUnsat(w)
    <3>0. PICK c \in untested : \E conflict \in Conflicts(c.model) :
            /\ rejected' = [rejected EXCEPT ![w] = @ \cup {[of |-> c, core |-> conflict]}]
            /\ untested' = untested \ {c}
      BY <2>2 DEF TestUnsat
    <3>1. PICK conflict \in Conflicts(c.model) :
            /\ rejected' = [rejected EXCEPT ![w] = @ \cup {[of |-> c, core |-> conflict]}]
            /\ untested' = untested \ {c}
      BY <3>0
    <3>2. UNCHANGED <<front, tested, marked_sols, diagnoses>> /\ w \notin tested
      BY <2>2 DEF TestUnsat
    <3>3. c \in solution
      BY <1>0 DEF TestsInv
    <3>4. /\ rejected'[w] = rejected[w] \cup {[of |-> c, core |-> conflict]}
          /\ \A v \in Worker \ {w} : rejected'[v] = rejected[v]
      BY <1>0, <3>1 DEF TypeOK
    <3>5. ASSUME NEW d \in solution
          PROVE  \/ d \in untested' \cup marked_sols'
                 \/ \E v \in Worker : \E r \in rejected'[v] : r.of = d
                 \/ Covers(front', Full[d.model])
      <4>1. CASE d = c
        <5>1. [of |-> c, core |-> conflict] \in rejected'[w]
          BY <3>4
        <5>2. [of |-> c, core |-> conflict].of = d
          BY <4>1
        <5> QED
          BY <5>1, <5>2
      <4>2. CASE d # c /\ \E v \in Worker : \E r \in rejected[v] : r.of = d
        BY <3>4, <4>2
      <4>3. CASE d # c /\ ~ \E v \in Worker : \E r \in rejected[v] : r.of = d
        BY <1>0, <2>0, <3>1, <3>2, <4>3 DEF TestsInv
      <4> QED
        BY <4>1, <4>2, <4>3
    <3>6. \A v \in Worker : {r.of : r \in rejected'[v]} \subseteq solution
      <4> TAKE v \in Worker
      <4>1. {r.of : r \in rejected[v]} \subseteq solution
        BY <1>0 DEF TestsInv
      <4>2. CASE v = w
        <5>1. ASSUME NEW r \in rejected'[v] PROVE r.of \in solution
          BY <3>3, <3>4, <4>1, <4>2
        <5> QED
          BY <5>1
      <4> QED
        BY <3>4, <4>1, <4>2
    <3>7. \A v \in Worker : v \in tested' => rejected'[v] = {}
      BY <1>0, <3>2, <3>4 DEF TestsInv
    <3> QED
      BY <1>0, <2>0, <3>1, <3>2, <3>5, <3>6, <3>7 DEF TestsInv
  <2>3. CASE Report(w)
    <3>1. /\ w \notin tested /\ (untested = {} \/ Worker \ tested # {w})
          /\ tested' = tested \cup {w}
          /\ marked_sols' = marked_sols \cup {r.of : r \in rejected[w]}
          /\ diagnoses' = diagnoses \cup {r.core : r \in rejected[w]}
          /\ rejected' = [rejected EXCEPT ![w] = {}]
          /\ untested' = untested /\ front' = front
      BY <2>3 DEF Report
    <3>2. /\ rejected'[w] = {}
          /\ \A v \in Worker \ {w} : rejected'[v] = rejected[v]
      BY <1>0, <3>1 DEF TypeOK
    <3>3. tested' = Worker => untested' = {}
      BY <3>1
    <3>4. diagnoses' = {} => marked_sols' = {}
      BY <1>0, <2>0, <3>1 DEF TestsInv
    <3>5. ASSUME NEW d \in solution
          PROVE  \/ d \in untested' \cup marked_sols'
                 \/ \E v \in Worker : \E r \in rejected'[v] : r.of = d
                 \/ Covers(front', Full[d.model])
      <4>1. CASE \E r \in rejected[w] : r.of = d
        BY <3>1, <4>1
      <4>2. CASE \E v \in Worker \ {w} : \E r \in rejected[v] : r.of = d
        BY <3>2, <4>2
      <4>3. CASE ~ \E v \in Worker : \E r \in rejected[v] : r.of = d
        BY <1>0, <2>0, <3>1, <4>3 DEF TestsInv
      <4> QED
        BY <4>1, <4>2, <4>3
    <3>6. untested' \cup marked_sols' \subseteq solution
      BY <1>0, <3>1 DEF TestsInv
    <3>7. \A v \in Worker : {r.of : r \in rejected'[v]} \subseteq solution
      BY <1>0, <3>2 DEF TestsInv
    <3>8. \A v \in Worker : v \in tested' => rejected'[v] = {}
      BY <1>0, <3>1, <3>2 DEF TestsInv
    <3> QED
      BY <2>0, <3>3, <3>4, <3>5, <3>6, <3>7, <3>8 DEF TestsInv
  <2> QED
    BY <1>6, <2>1, <2>2, <2>3 DEF Test
<1> QED
  BY <1>1, <1>2, <1>3, <1>4, <1>5, <1>6 DEF Next, Main

(***************************************************************************)
(* The archive keeps to solutions, and the cores to what the formula       *)
(* implies.                                                                *)
(***************************************************************************)
LEMMA KnownStep == Basics /\ Next => KnownInv'
<1> SUFFICES ASSUME Basics, Next PROVE KnownInv'
  OBVIOUS
<1>0. TypeOK /\ ThreadsInv /\ KnownInv
  BY DEF Basics
<1>00. formula' = formula /\ Feasible' = Feasible
  BY <1>0, RelaxationKept DEF problem, Feasible
<1> DEFINE Cores(S) == \A c \in S : \A y \in formula : \E l \in c : Holds(l, y)
<1> DEFINE Rejects == \A v \in Worker : \A r \in rejected[v] : \A y \in formula : \E l \in r.core : Holds(l, y)
<1>C. Cores(clauses \cup diagnoses) /\ Rejects
  BY <1>0 DEF KnownInv
<1>F. front \subseteq Feasible /\ IsAntichain(front)
  BY <1>0 DEF KnownInv
<1>X. ASSUME NEW x \in formula, Archive(Full[x])
      PROVE  front' \subseteq Feasible' /\ IsAntichain(front)'
  <2>1. x \in Assignment /\ front \subseteq YPoint
    BY <1>0, HittingSetsAssumption DEF TypeOK
  <2>2. front' \subseteq front \cup {Full[x]} /\ (IsAntichain(front) => IsAntichain(front'))
    BY <1>X, <2>1, Values, ArchiveFacts
  <2>3. Full[x] \in Feasible
    BY DEF Feasible
  <2>4. IsAntichain(front')
    BY <1>F, <2>2
  <2>5. front' \subseteq Feasible'
    BY <1>00, <1>F, <2>2, <2>3
  <2> QED
    BY <2>4, <2>5 DEF IsAntichain
<1>1. CASE FirstSolution
  <2>1. PICK x \in formula : Archive(Full[x])
    BY <1>1 DEF FirstSolution
  <2>2. UNCHANGED <<clauses, diagnoses, rejected, answerType>> /\ phase = "first" /\ phase' = "search"
    BY <1>1 DEF FirstSolution, SearchAgain, relaxation, testing
  <2>3. front' \subseteq Feasible' /\ IsAntichain(front)'
    BY <2>1, <1>X
  <2> QED
    BY <1>0, <1>00, <2>1, <2>2, <2>3 DEF KnownInv
<1>2. CASE Unsatisfiable \/ Answer
  <2>1. UNCHANGED <<clauses, diagnoses, rejected, front>> /\ phase' = "done"
    BY <1>2 DEF Unsatisfiable, Answer, relaxation, testing
  <2> QED
    BY <1>0, <1>00, <2>1 DEF KnownInv, IsAntichain
<1>3. CASE StartTesting
  <2>1. UNCHANGED <<clauses, diagnoses, rejected, front, answerType>>
        /\ phase = "search" /\ phase' = "test"
    BY <1>3 DEF StartTesting, relaxation
  <2> QED
    BY <1>0, <1>00, <2>1 DEF KnownInv, IsAntichain
<1>4. CASE SetupApprox
  <2>1. /\ UNCHANGED <<front, answerType, rejected>> /\ phase = "test" /\ phase' = "search"
        /\ clauses' = clauses \cup diagnoses /\ diagnoses' = {}
    BY <1>0, <1>4, SetupFacts
  <2> QED
    BY <1>0, <1>00, <2>1 DEF KnownInv, IsAntichain
<1>5. ASSUME NEW w \in Optimizer, Optimize(w) PROVE KnownInv'
  <2>1. UNCHANGED <<clauses, diagnoses, rejected, front, answerType, phase>>
    BY <1>0, <1>5, OptimizeKeeps DEF relaxation, testing
  <2> QED
    BY <1>0, <1>00, <2>1 DEF KnownInv, IsAntichain
<1>6. ASSUME NEW w \in Worker, Test(w) PROVE KnownInv'
  <2>0. phase = "test" /\ UNCHANGED <<phase, answerType, clauses>>
    BY <1>6, TestKeeps DEF relaxation
  <2>1. CASE TestSat(w)
    <3>1. PICK c \in untested : c.model \in formula /\ Archive(Full[c.model])
      BY <2>1 DEF TestSat
    <3>2. front' \subseteq Feasible' /\ IsAntichain(front)'
      BY <3>1, <1>X
    <3>3. UNCHANGED <<rejected, diagnoses>>
      BY <2>1 DEF TestSat
    <3> QED
      BY <1>0, <1>00, <2>0, <3>2, <3>3 DEF KnownInv
  <2>2. CASE TestUnsat(w)
    <3>0. PICK c \in untested : \E conflict \in Conflicts(c.model) :
            rejected' = [rejected EXCEPT ![w] = @ \cup {[of |-> c, core |-> conflict]}]
      BY <2>2 DEF TestUnsat
    <3>1. PICK conflict \in Conflicts(c.model) :
            rejected' = [rejected EXCEPT ![w] = @ \cup {[of |-> c, core |-> conflict]}]
      BY <3>0
    <3>2. \A y \in formula : \E l \in conflict : Holds(l, y)
      BY DEF Conflicts
    <3>3. /\ rejected'[w] = rejected[w] \cup {[of |-> c, core |-> conflict]}
          /\ \A v \in Worker \ {w} : rejected'[v] = rejected[v]
      BY <1>0, <3>1 DEF TypeOK
    <3>4. ASSUME NEW v \in Worker, NEW r \in rejected'[v], NEW y \in formula
          PROVE  \E l \in r.core : Holds(l, y)
      <4>1. CASE r \in rejected[v]
        BY <1>C, <4>1
      <4>2. CASE r = [of |-> c, core |-> conflict]
        BY <3>2, <4>2
      <4> QED
        BY <3>3, <4>1, <4>2
    <3>5. UNCHANGED <<front, diagnoses>>
      BY <2>2 DEF TestUnsat
    <3> QED
      BY <1>0, <1>00, <2>0, <3>4, <3>5 DEF KnownInv, IsAntichain
  <2>3. CASE Report(w)
    <3>1. /\ diagnoses' = diagnoses \cup {r.core : r \in rejected[w]}
          /\ rejected' = [rejected EXCEPT ![w] = {}] /\ front' = front
      BY <2>3 DEF Report
    <3>2. Cores(diagnoses')
      BY <1>C, <3>1
    <3>3. \A v \in Worker : rejected'[v] \subseteq rejected[v]
      BY <1>0, <3>1 DEF TypeOK
    <3> QED
      BY <1>0, <1>00, <2>0, <3>1, <3>2, <3>3 DEF KnownInv, IsAntichain
  <2> QED
    BY <1>6, <2>1, <2>2, <2>3 DEF Test
<1> QED
  BY <1>1, <1>2, <1>3, <1>4, <1>5, <1>6 DEF Next, Main

(***************************************************************************)
(* A bound is below the point that it is built for, so that its clause     *)
(* excludes whatever the point dominates.                                  *)
(***************************************************************************)
LEMMA BoundsAreBelow ==
    ASSUME Basics, NEW p \in YPoint, NEW o \in Obj
    PROVE  BlockOf(p).bound[o] < p[o]
<1>1. p[o] \in Nat /\ p[o] - 1 \in Int
  BY ObjectiveAssumption DEF YPoint
<1>2. BlockOf(p).point = p /\ (BlockOf(p) \in soft_blocks \/ BlockOf(p).bound = Bound(p))
  BY BlockOfFacts DEF Basics
<1>3. CASE BlockOf(p) \in soft_blocks
  BY <1>2, <1>3 DEF Basics, CandidatesInv
<1>4. CASE BlockOf(p).bound = Bound(p)
  <2>1. /\ AtMost(o, p[o] - 1) \in Int
        /\ AtMost(o, p[o] - 1) = -1 \/ AtMost(o, p[o] - 1) <= p[o] - 1
    BY <1>1, AtMostFacts DEF Basics
  <2> QED
    BY <1>1, <1>4, <2>1 DEF Bound
<1> QED
  BY <1>2, <1>3, <1>4

(***************************************************************************)
(* Candidates stay models of the relaxation, blocked, and excluded by the  *)
(* cores of those that fail.                                               *)
(***************************************************************************)
LEMMA CandidatesStep == Basics /\ Next => CandidatesInv'
<1> SUFFICES ASSUME Basics, Next PROVE CandidatesInv'
  OBVIOUS
<1>0. TypeOK /\ ThreadsInv /\ TestsInv /\ CandidatesInv
  BY DEF Basics
<1>1. ASSUME UNCHANGED <<solution, soft_blocks, clauses, rejected, diagnoses>>,
             phase' # "first" \/ phase' = phase,
             phase' = "search" => {c.bound : c \in solution} \subseteq activeBlocks'
      PROVE  CandidatesInv'
  BY <1>0, <1>1 DEF CandidatesInv
<1>2. CASE FirstSolution
  <2>1. /\ UNCHANGED <<solution, soft_blocks, clauses, rejected, diagnoses>>
        /\ phase = "first" /\ phase' = "search"
    BY <1>2 DEF FirstSolution, SearchAgain, relaxation, testing
  <2> QED
    BY <1>0, <1>1, <2>1 DEF CandidatesInv
<1>3. CASE Unsatisfiable \/ StartTesting \/ Answer
  <2>1. /\ UNCHANGED <<solution, soft_blocks, clauses, rejected, diagnoses>>
        /\ phase' \in {"test", "done"}
    BY <1>3 DEF Unsatisfiable, StartTesting, Answer, relaxation, search, testing
  <2> QED
    BY <1>1, <2>1
<1>4. CASE SetupApprox
  <2>1. /\ phase' = "search" /\ solution' = {} /\ diagnoses' = {} /\ rejected' = rejected
        /\ soft_blocks' \subseteq soft_blocks
    BY <1>0, <1>4, SetupFacts
  <2> QED
    BY <1>0, <2>1 DEF CandidatesInv
<1>5. ASSUME NEW w \in Optimizer, Optimize(w) PROVE CandidatesInv'
  <2>0. /\ phase = "search" /\ phase' = "search"
        /\ UNCHANGED <<clauses, rejected, diagnoses>>
        /\ diagnoses = {} /\ \A v \in Worker : rejected[v] = {}
    BY <1>0, <1>5, OptimizeKeeps DEF relaxation, testing, TestsInv
  <2>1. CASE SolveSat(w)
    <3>1. PICK x \in Open(w) :
            LET p == Point(x)
                kept == {c \in solution : c.point = p \/ ~ dominates(p, c.point)}
            IN IF \E c \in solution : dominates(c.point, p)
               THEN solution' = kept /\ UNCHANGED <<soft_blocks, activeBlocks>>
               ELSE /\ solution' = kept \cup {[model |-> x, point |-> p,
                                               bound |-> BlockOf(p).bound]}
                    /\ soft_blocks' = soft_blocks \cup {BlockOf(p)}
                    /\ activeBlocks' = activeBlocks \cup {BlockOf(p).bound}
      BY <2>1 DEF SolveSat
    <3> DEFINE new == [model |-> x, point |-> Point(x), bound |-> BlockOf(Point(x)).bound]
    <3>2. /\ \A d \in clauses : \E l \in d : Holds(l, x)
          /\ Point(x) \in YPoint /\ BlockOf(Point(x)).point = Point(x)
      BY FoundFacts DEF Open
    <3>3. \A o \in Obj : BlockOf(Point(x)).bound[o] < Point(x)[o]
      BY <3>2, BoundsAreBelow
    <3>4. /\ solution' \subseteq solution \cup {new}
          /\ soft_blocks' \subseteq soft_blocks \cup {BlockOf(Point(x))}
          /\ activeBlocks \subseteq activeBlocks'
          /\ new \in solution' => new \in solution \/ BlockOf(Point(x)).bound \in activeBlocks'
      BY <3>1
    <3>5. new.model = x /\ new.point = Point(x) /\ new.bound = BlockOf(Point(x)).bound
      OBVIOUS
    <3> HIDE DEF new
    <3>6. \A c \in solution' : \A d \in clauses : \E l \in d : Holds(l, c.model)
      BY <1>0, <3>2, <3>4, <3>5 DEF CandidatesInv
    <3>7. \A s \in soft_blocks' \cup solution' : \A o \in Obj : s.bound[o] < s.point[o]
      BY <1>0, <3>2, <3>3, <3>4, <3>5 DEF CandidatesInv
    <3>8. {c.bound : c \in solution'} \subseteq activeBlocks'
      BY <1>0, <2>0, <3>4, <3>5 DEF CandidatesInv
    <3> QED
      BY <2>0, <3>6, <3>7, <3>8 DEF CandidatesInv
  <2>2. CASE ~ SolveSat(w)
    <3>1. /\ UNCHANGED <<solution, soft_blocks>>
          /\ activeBlocks' = activeBlocks \/ activeBlocks' = {c.bound : c \in solution}
      BY <1>5, <2>2
      DEF Optimize, Pop, Finish, Synchronize, Leave, SolveUnsat, ExtendUL, SolveUndef
    <3> QED
      BY <1>0, <1>1, <2>0, <3>1 DEF CandidatesInv
  <2> QED
    BY <2>1, <2>2
<1>6. ASSUME NEW w \in Worker, Test(w) PROVE CandidatesInv'
  <2>0. /\ phase = "test" /\ phase' = "test"
        /\ UNCHANGED <<solution, soft_blocks, activeBlocks, clauses>>
    BY <1>6, TestKeeps DEF relaxation, search
  <2>1. ASSUME \A v \in Worker : \A r \in rejected'[v] : \A l \in r.core : ~ Holds(l, r.of.model),
               \A d \in diagnoses' : \E c \in solution : \A l \in d : ~ Holds(l, c.model)
        PROVE  CandidatesInv'
    BY <1>0, <2>0, <2>1 DEF CandidatesInv
  <2>2. CASE TestSat(w)
    <3>1. UNCHANGED <<rejected, diagnoses>>
      BY <2>2 DEF TestSat
    <3> QED
      BY <1>0, <2>1, <3>1 DEF CandidatesInv
  <2>3. CASE TestUnsat(w)
    <3>0. PICK c \in untested : \E conflict \in Conflicts(c.model) :
            rejected' = [rejected EXCEPT ![w] = @ \cup {[of |-> c, core |-> conflict]}]
      BY <2>3 DEF TestUnsat
    <3>1. PICK conflict \in Conflicts(c.model) :
            rejected' = [rejected EXCEPT ![w] = @ \cup {[of |-> c, core |-> conflict]}]
      BY <3>0
    <3>2. \A l \in conflict : ~ Holds(l, c.model)
      <4>1. conflict \subseteq {[var |-> v, sign |-> ~ c.model[v]] : v \in Var}
        BY DEF Conflicts
      <4>2. c.model \in [Var -> BOOLEAN]
        BY <1>0 DEF TypeOK, TestsInv, Candidate, Assignment
      <4>3. ASSUME NEW v \in Var PROVE ~ Holds([var |-> v, sign |-> ~ c.model[v]], c.model)
        BY <4>2 DEF Holds
      <4> QED
        BY <4>1, <4>3
    <3>3. /\ rejected'[w] = rejected[w] \cup {[of |-> c, core |-> conflict]}
          /\ \A v \in Worker \ {w} : rejected'[v] = rejected[v]
      BY <1>0, <3>1 DEF TypeOK
    <3>4. ASSUME NEW v \in Worker, NEW r \in rejected'[v], NEW l \in r.core
          PROVE  ~ Holds(l, r.of.model)
      <4>1. CASE r \in rejected[v]
        BY <1>0, <3>4, <4>1 DEF CandidatesInv
      <4>2. CASE r = [of |-> c, core |-> conflict]
        BY <3>2, <3>4, <4>2
      <4> QED
        BY <3>3, <4>1, <4>2
    <3>5. diagnoses' = diagnoses
      BY <2>3 DEF TestUnsat
    <3> QED
      BY <1>0, <2>1, <3>4, <3>5 DEF CandidatesInv
  <2>4. CASE Report(w)
    <3>1. /\ diagnoses' = diagnoses \cup {r.core : r \in rejected[w]}
          /\ rejected' = [rejected EXCEPT ![w] = {}]
      BY <2>4 DEF Report
    <3>2. \A v \in Worker : rejected'[v] \subseteq rejected[v]
      BY <1>0, <3>1 DEF TypeOK
    <3>3. ASSUME NEW d \in diagnoses' PROVE \E c \in solution : \A l \in d : ~ Holds(l, c.model)
      <4>1. CASE d \in diagnoses
        BY <1>0, <4>1 DEF CandidatesInv
      <4>2. CASE d \notin diagnoses
        <5>1. PICK r \in rejected[w] : d = r.core
          BY <3>1, <4>2
        <5>2. r.of \in solution
          BY <1>0 DEF TestsInv
        <5> QED
          BY <1>0, <5>1, <5>2 DEF CandidatesInv
      <4> QED
        BY <4>1, <4>2
    <3> QED
      BY <1>0, <2>1, <3>2, <3>3 DEF CandidatesInv
  <2> QED
    BY <1>6, <2>2, <2>3, <2>4 DEF Test
<1> QED
  BY <1>2, <1>3, <1>4, <1>5, <1>6 DEF Next, Main

(***************************************************************************)
(* What the threads, the workers and the archive rely on among themselves  *)
(* holds whatever the objectives count.                                    *)
(***************************************************************************)
THEOREM RoundsAreOrdered == Spec => []Basics
<1>1. Basics /\ [Next]_vars => Basics'
  <2> SUFFICES ASSUME Basics, [Next]_vars PROVE Basics'
    OBVIOUS
  <2>1. CASE Next
    BY <2>1, TypeStep, KeysStep, ThreadsStep, TestsStep, KnownStep, CandidatesStep
    DEF Basics
  <2>2. CASE UNCHANGED vars
    <3>1. UNCHANGED <<problem, phase, front, answerType, relaxation, search, testing>>
      BY <2>2 DEF vars
    <3>2. Busy' = Busy /\ Crew' = Crew /\ Feasible' = Feasible
      BY <3>1 DEF Busy, Crew, Feasible, search, problem
    <3>3. TypeOK' /\ KeysInv'
      BY <3>1 DEF Basics, TypeOK, KeysInv, AllSums, problem, relaxation, search, testing
    <3>4. ThreadsInv'
      BY <3>1, <3>2 DEF Basics, ThreadsInv, search
    <3>5. TestsInv'
      BY <3>1 DEF Basics, TestsInv, search, testing
    <3>6. KnownInv'
      BY <3>1, <3>2 DEF Basics, KnownInv, IsAntichain, problem, relaxation, testing
    <3>7. CandidatesInv'
      BY <3>1 DEF Basics, CandidatesInv, relaxation, search, testing
    <3> QED
      BY <3>3, <3>4, <3>5, <3>6, <3>7 DEF Basics
  <2> QED
    BY <2>1, <2>2
<1> QED
  BY BasicsInit, <1>1, PTL DEF Spec


-----------------------------------------------------------------------------
(***************************************************************************)
(* What an optimizing thread can find has nothing but counted literals of  *)
(* the slice, and its point in the slice is its point.                     *)
(***************************************************************************)
LEMMA OpenIsCounted ==
    ASSUME TypeOK, SliceInv, NEW w \in Optimizer, NEW x \in Open(w)
    PROVE  /\ x \in Assignment
           /\ \A l \in AllCounted : Holds(l, x) => l \in slice
           /\ Point(x) = Full[x]
<1>1. x \in Assignment /\ slice \in SUBSET Literal
  BY DEF Open, TypeOK
<1>2. \A l \in AllCounted : Holds(l, x) => l \in slice
  BY DEF Open, SliceInv
<1> QED
  BY <1>1, <1>2, FullyCounted DEF Point

(***************************************************************************)
(* The literals that occur in one polarity are frozen at first, and are    *)
(* counted from the moment that they are thawed.                           *)
(***************************************************************************)
LEMMA SliceInit == OneSign /\ Init => SliceInv
BY DEF Init, SliceInv, OneSign

LEMMA SliceStep == OneSign /\ Basics /\ SliceInv /\ Next => SliceInv'
<1> SUFFICES ASSUME OneSign, Basics, SliceInv, Next PROVE SliceInv'
  OBVIOUS
<1>0. TypeOK /\ ThreadsInv
  BY DEF Basics
<1>1. ASSUME UNCHANGED relaxation, \A c \in solution' : c.point = Full[c.model]
      PROVE  SliceInv'
  BY <1>1 DEF SliceInv, relaxation
<1>2. CASE SetupApprox
  <2>1. /\ frozen' = frozen \ (UNION diagnoses)
        /\ slice' = slice \cup (UNION diagnoses) \cup {Not(l) : l \in (UNION diagnoses) \ frozen}
        /\ clauses' = clauses \cup diagnoses
        /\ solution' = {}
    BY <1>0, <1>2, SetupFacts
  <2>2. frozen' \subseteq AllCounted /\ AllCounted \subseteq frozen' \cup slice'
    BY <2>1 DEF SliceInv
  <2>3. \A c \in clauses' : c \cap frozen' = {}
    BY <2>1 DEF SliceInv
  <2> QED
    BY <2>1, <2>2, <2>3 DEF SliceInv
<1>3. CASE Main /\ ~ SetupApprox
  <2>1. solution' = solution
    BY <1>3
    DEF Main, FirstSolution, Unsatisfiable, StartTesting, Answer, SearchAgain, search
  <2>2. UNCHANGED relaxation
    BY <1>0, <1>3, RelaxationKept
  <2> QED
    BY <1>1, <2>1, <2>2 DEF SliceInv
<1>4. ASSUME NEW w \in Worker, Test(w) PROVE SliceInv'
  BY <1>1, <1>4, TestKeeps DEF SliceInv, search
<1>5. ASSUME NEW w \in Optimizer, Optimize(w) PROVE SliceInv'
  <2>1. UNCHANGED relaxation
    BY <1>0, <1>5, OptimizeKeeps
  <2>2. CASE SolveSat(w)
    <3>1. PICK x \in Open(w) :
            solution' \subseteq solution \cup
                 {[model |-> x, point |-> Point(x), bound |-> BlockOf(Point(x)).bound]}
      BY <2>2 DEF SolveSat
    <3>2. Point(x) = Full[x]
      BY <1>0, OpenIsCounted
    <3>3. \A c \in solution' : c.point = Full[c.model]
      BY <3>1, <3>2 DEF SliceInv
    <3> QED
      BY <1>1, <2>1, <3>3
  <2>3. CASE ~ SolveSat(w)
    <3>1. solution' = solution
      BY <1>5, <2>3
      DEF Optimize, Pop, Finish, Synchronize, Leave, SolveUnsat, ExtendUL, SolveUndef
    <3> QED
      BY <1>1, <2>1, <3>1 DEF SliceInv
  <2> QED
    BY <2>2, <2>3
<1> QED
  BY <1>2, <1>3, <1>4, <1>5 DEF Next

(***************************************************************************)
(* Unless a literal is counted in both polarities, the optimizer counts in *)
(* full what it can find: what it does not count is false in every model   *)
(* of its clauses, although literals are thawed one diagnosis at a time.   *)
(***************************************************************************)
THEOREM CountsStayExact == Spec => [](OneSign => SliceInv /\ CountsAreExact)
<1>1. Init => (OneSign => SliceInv)
  BY SliceInit
<1>2. Basics /\ (OneSign => SliceInv) /\ [Next]_vars => (OneSign => SliceInv)'
  <2> SUFFICES ASSUME Basics, OneSign, SliceInv, [Next]_vars PROVE SliceInv'
    BY DEF OneSign
  <2>1. CASE Next
    BY <2>1, SliceStep
  <2>2. CASE UNCHANGED vars
    BY <2>2 DEF SliceInv, vars, relaxation, search
  <2> QED
    BY <2>1, <2>2
<1>3. Basics /\ (OneSign => SliceInv) => (OneSign => SliceInv /\ CountsAreExact)
  BY OpenIsCounted DEF Basics, CountsAreExact
<1> QED
  BY RoundsAreOrdered, <1>1, <1>2, <1>3, PTL DEF Spec

-----------------------------------------------------------------------------
(***************************************************************************)
(* Publishing a candidate (publishModel): what beats it is kept, what it   *)
(* beats goes, and the candidates that stay cover what they covered.       *)
(***************************************************************************)
LEMMA PublishFacts ==
    ASSUME Simple, Basics, SliceInv, BlocksInv, NEW w \in Optimizer, SolveSat(w)
    PROVE  /\ \A q \in YPoint : Covers({c.point : c \in solution}, q)
                                   => Covers({c.point : c \in solution'}, q)
           /\ \A c, d \in solution' : dominates(c.point, d.point) => c.point = d.point
           /\ \A s \in soft_blocks' \cup solution' : \A y \in Assignment :
                 Blocks(s.bound, y) => dominates(s.point, Full[y])
           /\ \A b \in activeBlocks' : \A y \in Assignment :
                 Blocks(b, y) => Covers({c.point : c \in solution'}, Full[y])
<1> DEFINE Pts == {c.point : c \in solution}
<1> DEFINE Tight(s) == \A y \in Assignment : Blocks(s.bound, y) => dominates(s.point, Full[y])
<1>0. /\ TypeOK /\ KeysInv /\ EqualWeights
      /\ \A c \in solution : c \in Candidate /\ c.point \in YPoint /\ c.point = Full[c.model]
      /\ \A s \in soft_blocks \cup solution : Tight(s)
      /\ \A c, d \in solution : dominates(c.point, d.point) => c.point = d.point
      /\ \A b \in activeBlocks : \A y \in Assignment : Blocks(b, y) => Covers(Pts, Full[y])
  BY DEF Simple, Basics, TypeOK, Candidate, SliceInv, BlocksInv
<1>1. PICK x \in Open(w) :
        LET p == Point(x)
            kept == {c \in solution : c.point = p \/ ~ dominates(p, c.point)}
        IN IF \E c \in solution : dominates(c.point, p)
           THEN solution' = kept /\ UNCHANGED <<soft_blocks, activeBlocks>>
           ELSE /\ solution' = kept \cup {[model |-> x, point |-> p, bound |-> BlockOf(p).bound]}
                /\ soft_blocks' = soft_blocks \cup {BlockOf(p)}
                /\ activeBlocks' = activeBlocks \cup {BlockOf(p).bound}
  BY DEF SolveSat
<1> DEFINE p == Point(x)
<1> DEFINE kept == {c \in solution : c.point = p \/ ~ dominates(p, c.point)}
<1> DEFINE new == [model |-> x, point |-> p, bound |-> BlockOf(p).bound]
<1>2. /\ x \in Assignment /\ p \in YPoint /\ BlockOf(p).point = p
      /\ BlockOf(p) \in soft_blocks \/ BlockOf(p).bound = Bound(p)
  BY <1>0, FoundFacts, BlockOfFacts
<1>3. ASSUME NEW y \in Assignment, Blocks(BlockOf(p).bound, y)
      PROVE  dominates(p, Full[y])
  <2>1. CASE BlockOf(p) \in soft_blocks
    BY <1>0, <1>2, <1>3, <2>1
  <2>2. CASE BlockOf(p).bound = Bound(p)
    <3>1. Blocks(Bound(Eval(slice, x)), y)
      BY <1>3, <2>2 DEF Point
    <3>2. dominates(Eval(slice, x), Full[y])
      BY <1>0, <1>2, <3>1, BoundIsTight
    <3> QED
      BY <3>2 DEF Point
  <2> QED
    BY <1>2, <2>1, <2>2
<1>4. CASE \E c \in solution : dominates(c.point, p)
  <2>1. solution' = kept /\ UNCHANGED <<soft_blocks, activeBlocks>>
    BY <1>1, <1>4
  <2>2. PICK c0 \in solution : dominates(c0.point, p)
    BY <1>4
  <2>3. ASSUME NEW c \in solution PROVE c \in kept
    <3>1. CASE dominates(p, c.point)
      <4>1. dominates(c0.point, c.point)
        BY <1>0, <1>2, <2>2, <3>1, DominanceOrder
      <4>2. c0.point = c.point
        BY <1>0, <4>1
      <4>3. c.point = p
        BY <1>0, <1>2, <2>2, <3>1, <4>2, DominanceOrder
      <4> QED
        BY <4>3
    <3> QED
      BY <3>1
  <2>4. solution' = solution
    BY <2>1, <2>3
  <2> QED
    BY <1>0, <2>1, <2>4
<1>5. CASE ~ \E c \in solution : dominates(c.point, p)
  <2>1. /\ solution' = kept \cup {new}
        /\ soft_blocks' = soft_blocks \cup {BlockOf(p)}
        /\ activeBlocks' = activeBlocks \cup {BlockOf(p).bound}
    BY <1>1, <1>5
  <2>2. new.point = p /\ new.bound = BlockOf(p).bound
    OBVIOUS
  <2> HIDE DEF new
  <2> DEFINE Pts2 == {c.point : c \in solution'}
  <2>3. p \in Pts2
    BY <2>1, <2>2
  <2>4. ASSUME NEW q \in YPoint, Covers(Pts, q) PROVE Covers(Pts2, q)
    <3>1. PICK c \in solution : dominates(c.point, q)
      BY <2>4 DEF Covers
    <3>2. CASE c \in kept
      BY <2>1, <3>1, <3>2 DEF Covers
    <3>3. CASE c \notin kept
      <4>1. dominates(p, c.point)
        BY <3>3
      <4>2. dominates(p, q)
        BY <1>0, <1>2, <3>1, <4>1, DominanceOrder
      <4> QED
        BY <2>3, <4>2 DEF Covers
    <3> QED
      BY <3>2, <3>3
  <2>5. ASSUME NEW c \in solution', NEW d \in solution', dominates(c.point, d.point)
        PROVE  c.point = d.point
    <3>1. CASE c \in kept /\ d \in kept
      BY <1>0, <2>5, <3>1
    <3>2. CASE c \in kept /\ d = new
      BY <1>5, <2>2, <2>5, <3>2
    <3>3. CASE c = new /\ d \in kept
      BY <2>2, <2>5, <3>3
    <3> QED
      BY <2>1, <3>1, <3>2, <3>3
  <2>6. ASSUME NEW s \in soft_blocks' \cup solution' PROVE Tight(s)
    <3>1. CASE s \in soft_blocks \cup solution
      BY <1>0, <3>1
    <3>2. CASE s = BlockOf(p)
      BY <1>2, <1>3, <3>2
    <3>3. CASE s = new
      BY <1>3, <2>2, <3>3
    <3> QED
      BY <2>1, <3>1, <3>2, <3>3
  <2>7. ASSUME NEW b \in activeBlocks', NEW y \in Assignment, Blocks(b, y)
        PROVE  Covers(Pts2, Full[y])
    <3>1. CASE b \in activeBlocks
      BY <1>0, <2>4, <2>7, <3>1, Values
    <3>2. CASE b = BlockOf(p).bound
      BY <1>3, <2>3, <2>7, <3>2 DEF Covers
    <3> QED
      BY <2>1, <3>1, <3>2
  <2> QED
    BY <2>4, <2>5, <2>6, <2>7
<1> QED
  BY <1>4, <1>5


(***************************************************************************)
(* Nothing is blocked at the start.                                        *)
(***************************************************************************)
LEMMA BlocksInit == Init => BlocksInv
BY DEF Init, BlocksInv

(***************************************************************************)
(* A blocking clause goes on blocking only what is dominated by the point  *)
(* that it stands for, by a candidate of the round or by the archive.      *)
(***************************************************************************)
LEMMA BlocksStep == Simple /\ Basics /\ SliceInv /\ BlocksInv /\ Next => BlocksInv'
<1> SUFFICES ASSUME Simple, Basics, SliceInv, BlocksInv, Next PROVE BlocksInv'
  OBVIOUS
<1> DEFINE Tight(S) == \A s \in S : \A y \in Assignment :
                          Blocks(s.bound, y) => dominates(s.point, Full[y])
<1> DEFINE Covered(S, F) == \A b \in S : \A y \in Assignment : Blocks(b, y) => Covers(F, Full[y])
<1> DEFINE Apart(S) == \A c, d \in S : dominates(c.point, d.point) => c.point = d.point
<1> DEFINE Guards == activeBlocks \cup UNION {guards[w] : w \in Optimizer}
<1> DEFINE Pts == {c.point : c \in solution}
<1>0. /\ TypeOK /\ ThreadsInv /\ TestsInv /\ KnownInv
      /\ Tight(soft_blocks \cup solution) /\ Covered(Guards, Pts)
      /\ Covered(permanent, front) /\ Apart(solution)
  BY DEF Basics, BlocksInv
<1>A. \A p \in YPoint : Archive(p) => Covered(permanent, front')
  <2> TAKE p \in YPoint
  <2> HAVE Archive(p)
  <2>1. ASSUME NEW y \in Assignment, Covers(front, Full[y]) PROVE Covers(front', Full[y])
    <3>1. Covers(front \cup {p}, Full[y])
      BY <2>1 DEF Covers
    <3> QED
      BY <1>0, <3>1, Values, ArchiveFacts DEF TypeOK
  <2> QED
    BY <1>0, <2>1
<1>1. ASSUME soft_blocks' \subseteq soft_blocks, solution' = solution, permanent' = permanent,
             \/ front' = front
             \/ \E p \in YPoint : Archive(p),
             Guards' \subseteq Guards
      PROVE  BlocksInv'
  <2>1. Tight(soft_blocks' \cup solution')
    BY <1>0, <1>1
  <2>2. Covered(Guards', Pts)
    BY <1>0, <1>1
  <2>3. Covered(permanent, front')
    BY <1>0, <1>1, <1>A
  <2>4. Pts' = Pts
    BY <1>1
  <2> QED
    BY <1>0, <1>1, <2>1, <2>2, <2>3, <2>4 DEF BlocksInv
<1>2. CASE FirstSolution
  <2>1. PICK x \in formula : Archive(Full[x])
    BY <1>2 DEF FirstSolution
  <2>2. Full[x] \in YPoint
    BY <1>0, Values, HittingSetsAssumption DEF TypeOK
  <2>3. UNCHANGED <<soft_blocks, solution, permanent, guards>> /\ activeBlocks' = {}
    BY <1>2 DEF FirstSolution, SearchAgain, relaxation
  <2>4. Guards' \subseteq Guards
    BY <2>3
  <2> QED
    BY <1>1, <2>1, <2>2, <2>3, <2>4
<1>3. CASE Unsatisfiable \/ Answer
  <2>1. UNCHANGED <<soft_blocks, solution, permanent, front, guards, activeBlocks>>
    BY <1>3 DEF Unsatisfiable, Answer, relaxation, search
  <2> QED
    BY <1>1, <2>1
<1>4. CASE StartTesting
  <2>1. UNCHANGED <<soft_blocks, solution, permanent, front, activeBlocks>>
        /\ guards' = [w \in Optimizer |-> {}]
    BY <1>4 DEF StartTesting, relaxation
  <2>2. Guards' \subseteq Guards
    BY <2>1
  <2> QED
    BY <1>1, <2>1, <2>2
<1>5. CASE SetupApprox
  <2>1. /\ phase = "test" /\ tested = Worker /\ front' = front /\ guards' = guards
        /\ permanent' = permanent \cup {c.bound : c \in solution \ marked_sols}
        /\ soft_blocks' \subseteq soft_blocks
        /\ solution' = {} /\ activeBlocks' = {}
    BY <1>0, <1>5, SetupFacts
  <2>2. ASSUME NEW w \in Optimizer PROVE guards'[w] = {}
    BY <1>0, <2>1 DEF ThreadsInv
  <2>3. ASSUME NEW c \in solution \ marked_sols, NEW y \in Assignment, Blocks(c.bound, y)
        PROVE  Covers(front, Full[y])
    <3>1. Covers(front, Full[c.model])
      BY <1>0, <2>1 DEF TestsInv
    <3>2. c.point = Full[c.model] /\ c.point \in YPoint
      BY <1>0 DEF SliceInv, TypeOK, Candidate
    <3>3. dominates(c.point, Full[y])
      BY <1>0, <2>3
    <3>4. PICK q \in front : dominates(q, c.point)
      BY <3>1, <3>2 DEF Covers
    <3>5. dominates(q, Full[y])
      BY <1>0, <3>2, <3>3, <3>4, Values, DominanceOrder DEF TypeOK
    <3> QED
      BY <3>5 DEF Covers
  <2>4. Covered(permanent', front')
    BY <1>0, <2>1, <2>3
  <2>5. Guards' = {}
    BY <2>1, <2>2
  <2>6. Tight(soft_blocks' \cup solution')
    BY <1>0, <2>1
  <2> QED
    BY <2>1, <2>4, <2>5, <2>6 DEF BlocksInv
<1>6. ASSUME NEW w \in Worker, Test(w) PROVE BlocksInv'
  <2>1. UNCHANGED <<soft_blocks, solution, permanent, guards, activeBlocks>>
    BY <1>6, TestKeeps DEF relaxation, search
  <2>2. front' = front \/ \E p \in YPoint : Archive(p)
    <3>1. CASE TestSat(w)
      <4>1. PICK c \in untested : Archive(Full[c.model])
        BY <3>1 DEF TestSat
      <4>2. Full[c.model] \in YPoint
        BY <1>0, Values DEF TypeOK, Candidate
      <4> QED
        BY <4>1, <4>2
    <3>2. CASE ~ TestSat(w)
      BY <1>6, <3>2 DEF Test, TestUnsat, Report
    <3> QED
      BY <3>1, <3>2
  <2> QED
    BY <1>1, <2>1, <2>2
<1>7. ASSUME NEW w \in Optimizer, Optimize(w) PROVE BlocksInv'
  <2>0. permanent' = permanent /\ front' = front
    BY <1>0, <1>7, OptimizeKeeps DEF relaxation
  <2>1. CASE SolveSat(w)
    <3>1. /\ \A q \in YPoint : Covers(Pts, q) => Covers(Pts', q)
          /\ Apart(solution') /\ Tight(soft_blocks' \cup solution')
          /\ Covered(activeBlocks', Pts')
      BY <2>1, PublishFacts
    <3>2. guards' = guards
      BY <2>1 DEF SolveSat
    <3>3. Covered(Guards', Pts')
      BY <1>0, <3>1, <3>2, Values
    <3> QED
      BY <1>0, <2>0, <3>1, <3>3 DEF BlocksInv
  <2>2. CASE Synchronize(w)
    <3>1. UNCHANGED <<soft_blocks, solution, activeBlocks>>
          /\ guards' = [guards EXCEPT ![w] = activeBlocks]
      BY <2>2 DEF Synchronize
    <3>2. guards \in [Optimizer -> SUBSET Guard]
      BY <1>0 DEF TypeOK
    <3>3. Guards' \subseteq Guards
      BY <3>1, <3>2
    <3> QED
      BY <1>1, <2>0, <3>1, <3>3
  <2>3. CASE ExtendUL(w)
    <3>1. UNCHANGED <<soft_blocks, solution, guards>>
          /\ (activeBlocks' = activeBlocks \/ activeBlocks' = {c.bound : c \in solution})
      BY <2>3 DEF ExtendUL
    <3>2. Pts' = Pts
      BY <3>1
    <3>3. Covered({c.bound : c \in solution}, Pts)
      BY <1>0 DEF Covers
    <3>4. Covered(activeBlocks', Pts)
      BY <1>0, <3>1, <3>3
    <3>5. Covered(Guards', Pts')
      BY <1>0, <3>1, <3>2, <3>4
    <3> QED
      BY <1>0, <2>0, <3>1, <3>5 DEF BlocksInv
  <2>4. CASE ~ SolveSat(w) /\ ~ Synchronize(w) /\ ~ ExtendUL(w)
    <3>1. UNCHANGED <<soft_blocks, solution, activeBlocks, guards>>
      BY <1>7, <2>4 DEF Optimize, Pop, Finish, Leave, SolveUnsat, SolveUndef
    <3> QED
      BY <1>1, <2>0, <3>1
  <2> QED
    BY <2>1, <2>2, <2>3, <2>4
<1> QED
  BY <1>2, <1>3, <1>4, <1>5, <1>6, <1>7 DEF Next, Main

-----------------------------------------------------------------------------
(***************************************************************************)
(* What is missing is open to every thread: no guard excludes it.          *)
(***************************************************************************)
LEMMA MissingIsOpen ==
    ASSUME TypeOK, BlocksInv, NEW w \in Optimizer, NEW y \in Missing
    PROVE  y \in Open(w)
<1>1. /\ y \in Assignment
      /\ \A c \in clauses : \E l \in c : Holds(l, y)
      /\ \A l \in frozen : ~ Holds(l, y)
      /\ \A b \in permanent : ~ Blocks(b, y)
      /\ ~ Covers({c.point : c \in solution}, Full[y])
  BY DEF Missing
<1>2. \A b \in guards[w] : ~ Blocks(b, y)
  BY <1>1 DEF BlocksInv
<1> QED
  BY <1>1, <1>2 DEF Open

\* The fences of the round lie within one that is pending or explored.
Kept == \A q \in seen : \E r \in pending \cup {fence[w] : w \in Exploring} : dominates(q, r)

(***************************************************************************)
(* An answer UNSAT while something is missing: the core has an objective   *)
(* along which the fence can be moved to a key.                            *)
(***************************************************************************)
LEMMA CoreExpands ==
    ASSUME Basics, SliceInv, BlocksInv, NEW w \in Optimizer, NEW C \in SUBSET Obj,
           IsCore(w, C), Missing # {}
    PROVE  \E o \in C : Larger(o, fence[w]) # {}
<1>1. PICK y \in Missing : TRUE
  OBVIOUS
<1>2. y \in Open(w)
  BY MissingIsOpen DEF Basics
<1>3. PICK o \in C : Beyond(o, fence[w], y)
  BY <1>2 DEF IsCore
<1>4. y \in Assignment /\ \A l \in AllCounted : Holds(l, y) => l \in slice
  BY <1>2, OpenIsCounted DEF Basics
<1>5. fence[w] \in Fence /\ o \in Obj
  BY DEF Basics, TypeOK
<1>6. Larger(o, fence[w]) # {}
  BY <1>3, <1>4, <1>5, BeyondHasKey DEF Basics
<1> QED
  BY <1>6


(***************************************************************************)
(* Nothing is missing at the start, for there is no search yet.            *)
(***************************************************************************)
LEMMA FencesInit == Init => FencesInv
BY DEF Init, FencesInv

(***************************************************************************)
(* As long as something is missing no fence is lost: a fence that a thread *)
(* leaves lies within an expansion of it, which is pending, explored, or   *)
(* has been replaced by a larger one.                                      *)
(***************************************************************************)
LEMMA FencesStep == Simple /\ Basics /\ SliceInv /\ BlocksInv /\ FencesInv /\ Next => FencesInv'
<1> SUFFICES ASSUME Simple, Basics, SliceInv, BlocksInv, FencesInv, Next PROVE FencesInv'
  OBVIOUS
<1>0. TypeOK /\ ThreadsInv /\ KeysInv
  BY DEF Basics
<1>T. /\ pending \in SUBSET Fence /\ seen \in SUBSET Fence /\ fence \in [Optimizer -> Fence]
      /\ pc \in [Optimizer -> {"idle", "pop", "sync", "solve", "leave"}]
  BY <1>0 DEF TypeOK
<1>K. phase = "search" /\ Missing # {} => Kept
  BY DEF FencesInv, Kept
<1>1. ASSUME phase' = "search", \E ul \in Fence : pending' = {ul} /\ seen' = {ul}
      PROVE  FencesInv'
  <2>1. PICK ul \in Fence : pending' = {ul} /\ seen' = {ul}
    BY <1>1
  <2>2. dominates(ul, ul)
    BY FenceOrder
  <2> QED
    BY <1>1, <2>1, <2>2 DEF FencesInv
<1>2. CASE FirstSolution
  <2>1. Zero \in Fence
    BY DEF Zero, Fence
  <2> QED
    BY <1>1, <1>2, <2>1 DEF FirstSolution, SearchAgain
<1>3. CASE SetupApprox
  BY <1>0, <1>1, <1>3, SetupFacts
<1>4. CASE Unsatisfiable \/ Answer
  <2>1. phase' = "done"
    BY <1>4 DEF Unsatisfiable, Answer
  <2> QED
    BY <2>1 DEF FencesInv
<1>5. CASE StartTesting
  <2>1. /\ phase = "search" /\ phase' = "test" /\ \A w \in Optimizer : pc[w] = "idle"
        /\ UNCHANGED <<clauses, frozen, permanent, solution>>
    BY <1>5 DEF StartTesting, relaxation
  <2>2. Missing' = Missing
    BY <2>1 DEF Missing
  <2>3. Exploring = {}
    BY <2>1 DEF Exploring
  <2>4. Crew \subseteq Optimizer /\ Crew # {}
    BY HittingSetsAssumption DEF Crew
  <2>5. pending = {} /\ seen # {}
    BY <1>0, <2>1, <2>4 DEF ThreadsInv
  <2>6. Missing = {}
    BY <1>K, <2>1, <2>3, <2>5 DEF Kept
  <2> QED
    BY <2>1, <2>2, <2>6 DEF FencesInv
<1>6. ASSUME NEW w \in Worker, Test(w) PROVE FencesInv'
  <2>1. phase = "test" /\ phase' = "test" /\ UNCHANGED <<clauses, frozen, permanent, solution>>
    BY <1>6, TestKeeps DEF relaxation, search
  <2>2. Missing' = Missing
    BY <2>1 DEF Missing
  <2> QED
    BY <2>1, <2>2 DEF FencesInv
<1>7. ASSUME NEW w \in Optimizer, Optimize(w) PROVE FencesInv'
  <2>0. phase = "search" /\ phase' = "search" /\ UNCHANGED <<clauses, frozen, permanent>>
    BY <1>0, <1>7, OptimizeKeeps DEF relaxation
  <2>1. Missing' \subseteq Missing
    <3>1. CASE SolveSat(w)
      <4>1. \A q \in YPoint : Covers({c.point : c \in solution}, q)
                                 => Covers({c.point : c \in solution'}, q)
        BY <3>1, PublishFacts
      <4> QED
        BY <2>0, <4>1, Values DEF Missing
    <3>2. CASE ~ SolveSat(w)
      <4>1. solution' = solution
        BY <1>7, <3>2
        DEF Optimize, Pop, Finish, Synchronize, Leave, SolveUnsat, ExtendUL, SolveUndef
      <4> QED
        BY <2>0, <4>1 DEF Missing
    <3> QED
      BY <3>1, <3>2
  <2> SUFFICES ASSUME Missing # {}, Kept PROVE Kept'
    BY <1>K, <2>0, <2>1 DEF FencesInv, Kept
  <2>2. ASSUME NEW q \in seen
        PROVE  \E r \in pending \cup {fence[v] : v \in Exploring} : dominates(q, r)
    BY DEF Kept
  <2>3. ASSUME UNCHANGED <<pending, seen>>,
               \A v \in Exploring : v \in Exploring' /\ fence'[v] = fence[v]
        PROVE  Kept'
    <3>1. {fence[v] : v \in Exploring} \subseteq {fence'[v] : v \in Exploring'}
      BY <2>3
    <3> QED
      BY <2>2, <2>3, <3>1 DEF Kept
  <2>4. CASE Pop(w)
    <3>1. PICK q \in pending : pending' = pending \ {q} /\ fence' = [fence EXCEPT ![w] = q]
      BY <2>4 DEF Pop
    <3>2. pc[w] = "pop" /\ pc' = [pc EXCEPT ![w] = "sync"] /\ seen' = seen
      BY <2>4 DEF Pop, Goto
    <3>3. w \notin Exploring /\ w \in Exploring' /\ fence'[w] = q
      BY <1>T, <3>1, <3>2 DEF Exploring
    <3>4. \A v \in Exploring : v \in Exploring' /\ fence'[v] = fence[v]
      BY <1>T, <3>1, <3>2, <3>3 DEF Exploring
    <3>5. pending \cup {fence[v] : v \in Exploring}
             \subseteq pending' \cup {fence'[v] : v \in Exploring'}
      BY <3>1, <3>3, <3>4
    <3> QED
      BY <2>2, <3>2, <3>5 DEF Kept
  <2>5. CASE Finish(w) \/ Leave(w)
    <3>1. pc[w] \in {"pop", "leave"} /\ UNCHANGED <<pending, seen>>
      BY <2>5 DEF Finish, Leave
    <3>2. w \notin Exploring
      BY <3>1 DEF Exploring
    <3>3. \A v \in Optimizer \ {w} : pc'[v] = pc[v] /\ fence'[v] = fence[v]
      BY <1>T, <2>5 DEF Finish, Leave, Goto
    <3> QED
      BY <2>3, <3>1, <3>2, <3>3 DEF Exploring
  <2>6. CASE Synchronize(w) \/ SolveSat(w) \/ SolveUndef(w)
    <3>1. UNCHANGED <<pending, seen, fence>>
          /\ (pc' = [pc EXCEPT ![w] = "sync"] \/ pc' = [pc EXCEPT ![w] = "solve"])
      BY <2>6 DEF Synchronize, SolveSat, SolveUndef, Goto
    <3>2. \A v \in Exploring : v \in Exploring'
      BY <1>T, <3>1 DEF Exploring
    <3> QED
      BY <2>3, <3>1, <3>2
  <2>7. CASE SolveUnsat(w)
    <3>1. PICK C \in SUBSET Obj :
            /\ IsCore(w, C)
            /\ Insert({Expanded(fence[w], o) : o \in {c \in C : Larger(c, fence[w]) # {}}})
      BY <2>7 DEF SolveUnsat
    <3>2. pc[w] = "solve" /\ pc' = [pc EXCEPT ![w] = "leave"] /\ fence' = fence
      BY <2>7 DEF SolveUnsat, Goto
    <3>3. PICK o \in C : Larger(o, fence[w]) # {}
      BY <3>1, CoreExpands
    <3> DEFINE e == Expanded(fence[w], o)
    <3>4. e \in Fence /\ dominates(fence[w], e) /\ fence[w][o] < e[o] /\ fence[w] \in Fence
      BY <1>0, <1>T, <3>3, ExpandedFacts
    <3>5. /\ pending' \in SUBSET Fence
          /\ e \in seen'
          /\ \A q \in pending \cup (seen' \ seen) : \E r \in pending' : dominates(q, r)
      <4>1. /\ pending' \in SUBSET Fence
            /\ seen' = seen \cup {Expanded(fence[w], i) : i \in {c \in C : Larger(c, fence[w]) # {}}}
            /\ \A q \in pending \cup (seen' \ seen) : \E r \in pending' : dominates(q, r)
        BY <3>1, InsertFacts
      <4>2. e \in {Expanded(fence[w], i) : i \in {c \in C : Larger(c, fence[w]) # {}}}
        BY <3>3
      <4> QED
        BY <4>1, <4>2
    <3> HIDE DEF e
    <3> DEFINE Now == pending' \cup {fence'[v] : v \in Exploring'}
    <3>6. Now \in SUBSET Fence
      BY <1>T, <3>2, <3>5 DEF Exploring
    <3>7. ASSUME NEW v \in Exploring, v # w PROVE fence[v] \in Now
      <4>1. v \in Exploring'
        BY <1>T, <3>2, <3>7 DEF Exploring
      <4> QED
        BY <3>2, <4>1
    <3>8. PICK s \in Now : dominates(e, s)
      <4>1. CASE e \in seen
        <5>1. PICK r \in pending \cup {fence[v] : v \in Exploring} : dominates(e, r)
          BY <2>2, <4>1
        <5>2. CASE r \in pending
          <6>1. PICK s \in pending' : dominates(r, s)
            BY <3>5, <5>2
          <6>2. dominates(e, s)
            BY <1>T, <3>4, <3>5, <5>1, <5>2, <6>1, FenceOrder
          <6> QED
            BY <6>1, <6>2
        <5>3. CASE \E v \in Exploring : r = fence[v]
          <6>1. PICK v \in Exploring : r = fence[v]
            BY <5>3
          <6>2. v # w
            <7>1. CASE v = w
              <8>1. e[o] <= fence[w][o]
                BY <5>1, <6>1, <7>1 DEF dominates
              <8>2. e[o] \in Nat /\ fence[w][o] \in Nat
                BY <3>4 DEF Fence
              <8> QED
                BY <3>4, <8>1, <8>2
            <7> QED
              BY <7>1
          <6>3. r \in Now
            BY <3>7, <6>1, <6>2
          <6> QED
            BY <5>1, <6>3
        <5> QED
          BY <5>2, <5>3
      <4>2. CASE e \notin seen
        BY <3>5, <4>2
      <4> QED
        BY <4>1, <4>2
    <3>9. ASSUME NEW q \in seen' PROVE \E r \in Now : dominates(q, r)
      <4>1. CASE q \notin seen
        BY <3>5, <4>1
      <4>2. CASE q \in seen
        <5>1. PICK r \in pending \cup {fence[v] : v \in Exploring} : dominates(q, r)
          BY <2>2, <4>2
        <5>2. q \in Fence /\ r \in Fence
          BY <1>T, <4>2 DEF Exploring
        <5>3. CASE r \in pending
          <6>1. PICK t \in pending' : dominates(r, t)
            BY <3>5, <5>3
          <6>2. dominates(q, t)
            BY <3>5, <5>1, <5>2, <6>1, FenceOrder
          <6> QED
            BY <6>1, <6>2
        <5>4. CASE \E v \in Exploring : v # w /\ r = fence[v]
          BY <3>7, <5>1, <5>4
        <5>5. CASE r = fence[w]
          <6>1. dominates(r, s)
            BY <3>4, <3>6, <3>8, <5>5, FenceOrder
          <6>2. dominates(q, s)
            BY <3>6, <3>8, <5>1, <5>2, <6>1, FenceOrder
          <6> QED
            BY <3>8, <6>2
        <5> QED
          BY <5>3, <5>4, <5>5
      <4> QED
        BY <4>1, <4>2
    <3> QED
      BY <3>9 DEF Kept
  <2>8. CASE ExtendUL(w)
    <3>1. PICK C \in SUBSET Obj :
            /\ IsCore(w, C)
            /\ LET extended == {o \in C : Larger(o, fence[w]) # {}}
               IN IF extended = {}
                  THEN Goto(w, "leave") /\ UNCHANGED <<fence, activeBlocks>>
                  ELSE /\ fence' = [fence EXCEPT ![w] =
                             [o \in Obj |-> IF o \in extended THEN Min(Larger(o, fence[w]))
                                                              ELSE fence[w][o]]]
                       /\ activeBlocks' = {c.bound : c \in solution}
                       /\ Goto(w, "sync")
      BY <2>8 DEF ExtendUL
    <3> DEFINE D == {o \in C : Larger(o, fence[w]) # {}}
    <3> DEFINE e == [o \in Obj |-> IF o \in D THEN Min(Larger(o, fence[w])) ELSE fence[w][o]]
    <3>2. D # {}
      BY <3>1, CoreExpands
    <3>3. fence' = [fence EXCEPT ![w] = e] /\ pc' = [pc EXCEPT ![w] = "sync"]
      BY <3>1, <3>2 DEF Goto
    <3>4. pc[w] = "solve" /\ pending' = pending /\ seen' = seen
      BY <2>8 DEF ExtendUL
    <3>5. fence[w] \in Fence
      BY <1>T
    <3>6. ASSUME NEW o \in Obj PROVE e[o] \in Nat /\ fence[w][o] <= e[o]
      <4>1. fence[w][o] \in Nat
        BY <3>5 DEF Fence
      <4>2. CASE o \in D
        <5>1. Min(Larger(o, fence[w])) \in Nat /\ fence[w][o] < Min(Larger(o, fence[w]))
          BY <1>0, <3>5, <4>2, NextKey
        <5> QED
          BY <4>1, <4>2, <5>1
      <4>3. CASE o \notin D
        BY <4>1, <4>3
      <4> QED
        BY <4>2, <4>3
    <3>7. e \in Fence /\ dominates(fence[w], e)
      BY <3>6 DEF Fence, dominates
    <3> HIDE DEF e
    <3>8. w \in Exploring' /\ fence'[w] = e
          /\ \A v \in Exploring \ {w} : v \in Exploring' /\ fence'[v] = fence[v]
      BY <1>T, <3>3, <3>4 DEF Exploring
    <3>9. ASSUME NEW q \in seen
          PROVE  \E r \in pending' \cup {fence'[v] : v \in Exploring'} : dominates(q, r)
      <4>1. PICK r \in pending \cup {fence[v] : v \in Exploring} : dominates(q, r)
        BY <2>2
      <4>2. q \in Fence /\ r \in Fence
        BY <1>T DEF Exploring
      <4>3. CASE r \in pending \/ \E v \in Exploring \ {w} : r = fence[v]
        <5>1. r \in pending' \cup {fence'[v] : v \in Exploring'}
          BY <3>4, <3>8, <4>3
        <5> QED
          BY <4>1, <5>1
      <4>4. CASE r = fence[w]
        <5>1. dominates(q, e)
          BY <3>5, <3>7, <4>1, <4>2, <4>4, FenceOrder
        <5> QED
          BY <3>8, <5>1
      <4> QED
        BY <4>3, <4>4
    <3> QED
      BY <3>4, <3>9 DEF Kept
  <2> QED
    BY <1>7, <2>4, <2>5, <2>6, <2>7, <2>8 DEF Optimize
<1> QED
  BY <1>2, <1>3, <1>4, <1>5, <1>6, <1>7 DEF Next, Main


-----------------------------------------------------------------------------
(***************************************************************************)
(* The inductive invariant of the rounds: types, threads, tests and cores  *)
(* whatever is counted; exact counts if no literal is counted in both      *)
(* polarities; justified blocks and complete searches if the weights of an *)
(* objective are equal, too.                                               *)
(***************************************************************************)
THEOREM HittingSetsInvariant == Spec => []IInv
<1> DEFINE Later == Simple => BlocksInv /\ FencesInv
<1>1. Init => Later
  BY BlocksInit, FencesInit
<1>2. Basics /\ (OneSign => SliceInv /\ CountsAreExact) /\ Later /\ [Next]_vars => Later'
  <2> SUFFICES ASSUME Basics, SliceInv, Simple, BlocksInv, FencesInv, [Next]_vars
               PROVE  BlocksInv' /\ FencesInv'
    BY DEF Simple, OneSign, EqualWeights
  <2>1. CASE Next
    BY <2>1, BlocksStep, FencesStep
  <2>2. CASE UNCHANGED vars
    <3>1. UNCHANGED <<phase, front, relaxation, search>>
      BY <2>2 DEF vars
    <3>2. Exploring' = Exploring /\ Missing' = Missing
      BY <3>1 DEF Exploring, Missing, relaxation, search
    <3> QED
      BY <3>1, <3>2 DEF BlocksInv, FencesInv, relaxation, search
  <2> QED
    BY <2>1, <2>2
<1>3. Basics /\ (OneSign => SliceInv /\ CountsAreExact) /\ Later => IInv
  BY DEF Basics, IInv
<1> QED
  BY RoundsAreOrdered, CountsStayExact, <1>1, <1>2, <1>3, PTL DEF Spec

(***************************************************************************)
(* The types of the rounds.                                                *)
(***************************************************************************)
THEOREM HittingSetsTypes == Spec => []TypeOK
<1>1. Basics => TypeOK
  BY DEF Basics
<1> QED
  BY RoundsAreOrdered, <1>1, PTL

(***************************************************************************)
(* What was blocked for good is dominated by an archived solution, in the  *)
(* complete formula as well as in the relaxation (checkSols).              *)
(***************************************************************************)
THEOREM PermanentStaysJustified == Spec => [](Simple => PermanentIsJustified)
<1>1. IInv => (Simple => PermanentIsJustified)
  <2> SUFFICES ASSUME TypeOK, BlocksInv, NEW b \in permanent, NEW x \in formula, Blocks(b, x)
               PROVE  Covers(front, Full[x])
    BY DEF IInv, PermanentIsJustified
  <2>1. x \in Assignment
    BY HittingSetsAssumption DEF TypeOK
  <2> QED
    BY <2>1 DEF BlocksInv
<1> QED
  BY HittingSetsInvariant, <1>1, PTL

(***************************************************************************)
(* With nothing missing in the relaxation, no solution of the formula is   *)
(* missing either: without its frozen literals it is a model of the        *)
(* relaxation that is no worse.                                            *)
(***************************************************************************)
LEMMA LowerBoundFacts == IInv /\ Simple => LowerBoundSet
<1> SUFFICES ASSUME IInv, Simple, phase = "test", NEW x \in formula
             PROVE  Covers(front \cup {c.point : c \in solution}, Full[x])
  BY DEF LowerBoundSet, Feasible
<1>0. TypeOK /\ KnownInv /\ SliceInv /\ BlocksInv /\ FencesInv /\ OneSign
  BY DEF IInv, Simple
<1>1. x \in Assignment /\ frozen \in SUBSET AllCounted
  BY <1>0, HittingSetsAssumption DEF TypeOK, SliceInv
<1>2. PICK z \in Assignment :
         /\ \A l \in frozen : ~ Holds(l, z)
         /\ \A l \in Literal \ frozen : Holds(l, x) => Holds(l, z)
         /\ dominates(Full[z], Full[x])
  BY <1>0, <1>1, WithoutFrozen
<1>3. \A c \in clauses : \E l \in c : Holds(l, z)
  <2> TAKE c \in clauses
  <2>1. PICK l \in c : Holds(l, x)
    BY <1>0 DEF KnownInv
  <2>2. l \in Literal \ frozen
    BY <1>0 DEF TypeOK, SliceInv
  <2> QED
    BY <1>2, <2>1, <2>2
<1>4. z \notin Missing
  BY <1>0 DEF FencesInv
<1>5. Covers(front, Full[z]) \/ Covers({c.point : c \in solution}, Full[z])
  <2>1. CASE \E b \in permanent : Blocks(b, z)
    BY <1>0, <2>1 DEF BlocksInv
  <2>2. CASE ~ \E b \in permanent : Blocks(b, z)
    BY <1>2, <1>3, <1>4, <2>2 DEF Missing
  <2> QED
    BY <2>1, <2>2
<1>6. PICK q \in front \cup {c.point : c \in solution} : dominates(q, Full[z])
  BY <1>5 DEF Covers
<1>7. q \in YPoint /\ Full[z] \in YPoint /\ Full[x] \in YPoint
  BY <1>0, <1>1, Values DEF TypeOK, Candidate
<1>8. dominates(q, Full[x])
  BY <1>2, <1>6, <1>7, DominanceOrder
<1> QED
  BY <1>8 DEF Covers

(***************************************************************************)
(* When the optimizer returns, its candidates and the archive are a lower  *)
(* bound set of the complete formula.                                      *)
(***************************************************************************)
THEOREM RoundsGiveLowerBounds == Spec => [](Simple => LowerBoundSet)
<1>1. IInv => (Simple => LowerBoundSet)
  BY LowerBoundFacts
<1> QED
  BY HittingSetsInvariant, <1>1, PTL

(***************************************************************************)
(* A candidate that passes its test is optimal: what could beat it is      *)
(* above an archived point or another candidate (absorb).                  *)
(***************************************************************************)
THEOREM AbsorbedStaysOptimal == Simple => (Spec => AbsorbedIsOptimal)
<1> SUFFICES ASSUME Simple PROVE Spec => AbsorbedIsOptimal
  OBVIOUS
<1> DEFINE Absorb == phase = "test" => front' \ front \subseteq NonDominated(Feasible)
<1>1. IInv /\ Next => Absorb
  <2> SUFFICES ASSUME IInv, Next, phase = "test"
               PROVE  front' \ front \subseteq NonDominated(Feasible)
    OBVIOUS
  <2>0. TypeOK /\ ThreadsInv /\ TestsInv /\ KnownInv /\ SliceInv /\ BlocksInv /\ LowerBoundSet
    BY LowerBoundFacts DEF IInv, Simple
  <2>1. CASE \E w \in Worker : TestSat(w)
    <3>1. PICK c \in untested : c.model \in formula /\ Archive(Full[c.model])
      BY <2>1 DEF TestSat
    <3> DEFINE p == Full[c.model]
    <3>2. c \in solution /\ c.point = p /\ p \in YPoint /\ p \in Feasible /\ front \subseteq YPoint
      BY <2>0, <3>1, Values DEF TestsInv, SliceInv, TypeOK, Candidate, Feasible
    <3>3. front' \ front \subseteq {p}
      BY <2>0, <3>1, <3>2, ArchiveFacts
    <3>4. ASSUME p \notin front, p \in front', NEW q \in Feasible, dominates(q, p)
          PROVE  q = p
      <4>1. ~ Covers(front, p)
        BY <3>1, <3>4 DEF Archive
      <4>2. PICK r \in front \cup {d.point : d \in solution} : dominates(r, q)
        BY <2>0, <3>4 DEF LowerBoundSet, Covers
      <4>3. r \in YPoint /\ q \in YPoint
        <5>1. q \in YPoint
          BY <2>0, Values, HittingSetsAssumption DEF Feasible, TypeOK
        <5>2. r \in YPoint
          BY <2>0 DEF TypeOK, Candidate
        <5> QED
          BY <5>1, <5>2
      <4>4. dominates(r, p)
        BY <3>2, <3>4, <4>2, <4>3, DominanceOrder
      <4>5. r \notin front
        BY <4>1, <4>4 DEF Covers
      <4>6. PICK d \in solution : r = d.point
        BY <4>2, <4>5
      <4>7. r = p
        BY <2>0, <3>2, <4>4, <4>6 DEF BlocksInv
      <4> QED
        BY <3>2, <3>4, <4>2, <4>3, <4>7, DominanceOrder
    <3>5. ASSUME p \notin front, p \in front' PROVE p \in NonDominated(Feasible)
      BY <3>2, <3>4, <3>5 DEF NonDominated
    <3> QED
      BY <3>3, <3>5
  <2>2. CASE ~ \E w \in Worker : TestSat(w)
    <3>1. ASSUME NEW w \in Worker, Test(w) PROVE front' = front
      BY <2>2, <3>1 DEF Test, TestUnsat, Report
    <3>2. ASSUME NEW w \in Optimizer, Optimize(w) PROVE front' = front
      BY <2>0, <3>2, OptimizeKeeps
    <3>3. ASSUME Main PROVE front' = front
      BY <2>0, <3>3 DEF Main, FirstSolution, Unsatisfiable, StartTesting, SetupApprox, Answer
    <3>4. front' = front
      BY <3>1, <3>2, <3>3 DEF Next
    <3> QED
      BY <3>4
  <2> QED
    BY <2>1, <2>2
<1>2. IInv /\ [Next]_vars => [Absorb]_vars
  BY <1>1
<1> QED
  BY HittingSetsInvariant, <1>2, PTL DEF Spec, AbsorbedIsOptimal

(***************************************************************************)
(* OPTIMUM is answered only with the whole Pareto front in the archive,    *)
(* and UNSATISFIABLE only if the formula has no solution.                  *)
(***************************************************************************)
THEOREM HittingSetsCorrect == Spec => [](Simple => AnswerIsCorrect)
<1>1. Init => AnswerIsCorrect
  BY DEF Init, AnswerIsCorrect
<1>2. IInv /\ (Simple => AnswerIsCorrect) /\ [Next]_vars => (Simple => AnswerIsCorrect)'
  <2> SUFFICES ASSUME IInv, Simple, AnswerIsCorrect, [Next]_vars PROVE AnswerIsCorrect'
    BY DEF Simple, OneSign, EqualWeights
  <2>0. TypeOK /\ ThreadsInv /\ TestsInv /\ KnownInv /\ SliceInv /\ BlocksInv /\ LowerBoundSet
    BY LowerBoundFacts DEF IInv, Simple
  <2>1. ASSUME UNCHANGED problem, UNCHANGED <<front, answerType>> PROVE AnswerIsCorrect'
    BY <2>1 DEF AnswerIsCorrect, Feasible, problem
  <2>2. ASSUME answerType' = "unknown" PROVE AnswerIsCorrect'
    BY <2>2 DEF AnswerIsCorrect
  <2>3. CASE UNCHANGED vars
    BY <2>1, <2>3 DEF vars
  <2>4. CASE Unsatisfiable
    BY <2>4 DEF Unsatisfiable, AnswerIsCorrect, problem
  <2>5. CASE FirstSolution \/ StartTesting
    <3>1. phase # "done" /\ answerType' = answerType
      BY <2>5 DEF FirstSolution, StartTesting
    <3> QED
      BY <2>0, <2>2, <3>1 DEF KnownInv
  <2>6. CASE SetupApprox
    <3>1. phase = "test" /\ answerType' = answerType
      BY <2>0, <2>6, SetupFacts
    <3> QED
      BY <2>0, <2>2, <3>1 DEF KnownInv
  <2>7. CASE Answer
    <3>1. /\ phase = "test" /\ tested = Worker /\ diagnoses = {}
          /\ answerType' = IF front = {} THEN "unsatisfiable" ELSE "optimum"
          /\ front' = front /\ formula' = formula
      BY <2>7 DEF Answer, problem
    <3>2. untested = {} /\ marked_sols = {} /\ \A w \in Worker : rejected[w] = {}
      BY <2>0, <3>1 DEF TestsInv
    <3>3. ASSUME NEW c \in solution PROVE Covers(front, c.point)
      BY <2>0, <3>1, <3>2 DEF TestsInv, SliceInv
    <3>4. /\ Feasible \in SUBSET YPoint /\ front \in SUBSET Feasible
          /\ IsAntichain(front) /\ formula # {}
      BY <2>0, <3>1, Values, HittingSetsAssumption DEF Feasible, TypeOK, KnownInv
    <3>5. ASSUME NEW p \in Feasible PROVE Covers(front, p)
      <4>1. PICK r \in front \cup {d.point : d \in solution} : dominates(r, p)
        BY <2>0, <3>1 DEF LowerBoundSet, Covers
      <4>2. CASE r \in front
        BY <4>1, <4>2 DEF Covers
      <4>3. CASE r \notin front
        <5>1. PICK d \in solution : r = d.point
          BY <4>1, <4>3
        <5>2. PICK q \in front : dominates(q, r)
          BY <3>3, <5>1 DEF Covers
        <5>3. q \in YPoint /\ r \in YPoint /\ p \in YPoint
          BY <2>0, <3>4, <5>1 DEF TypeOK, Candidate
        <5>4. dominates(q, p)
          BY <4>1, <5>2, <5>3, DominanceOrder
        <5> QED
          BY <5>4 DEF Covers
      <4> QED
        BY <4>2, <4>3
    <3>6. front = NonDominated(Feasible)
      BY <3>4, <3>5, FrontOf
    <3>7. front # {}
      <4>1. PICK x \in formula : TRUE
        BY <3>4
      <4>2. Full[x] \in Feasible
        BY DEF Feasible
      <4> QED
        BY <3>5, <4>2 DEF Covers
    <3>8. Feasible' = Feasible
      BY <3>1 DEF Feasible
    <3> QED
      BY <3>1, <3>4, <3>6, <3>7, <3>8 DEF AnswerIsCorrect, NonDominated
  <2>8. ASSUME NEW w \in Optimizer, Optimize(w) PROVE AnswerIsCorrect'
    BY <2>0, <2>1, <2>8, OptimizeKeeps
  <2>9. ASSUME NEW w \in Worker, Test(w) PROVE AnswerIsCorrect'
    <3>1. phase = "test" /\ answerType' = answerType
      BY <2>9, TestKeeps
    <3> QED
      BY <2>0, <2>2, <3>1 DEF KnownInv
  <2> QED
    BY <2>3, <2>4, <2>5, <2>6, <2>7, <2>8, <2>9 DEF Next, Main
<1>3. Init => (Simple => AnswerIsCorrect)
  BY <1>1
<1> QED
  BY HittingSetsInvariant, <1>2, <1>3, PTL DEF Spec


-----------------------------------------------------------------------------
(***************************************************************************)
(* Each round takes something from the relaxation and no solution: the     *)
(* number of rounds is bounded by the number of assignments                *)
(* (setup_approx, incrementFormula).                                       *)
(***************************************************************************)
THEOREM RoundsShrink == Spec => RoundsShrinkRelaxation
<1> DEFINE Shrink ==
      phase = "test" /\ phase' = "search" =>
         /\ formula \subseteq Relaxed' /\ Relaxed' \subseteq Relaxed
         /\ Relaxed' # Relaxed
<1>1. Basics /\ Next => Shrink
  <2> SUFFICES ASSUME Basics, Next, phase = "test", phase' = "search"
               PROVE  /\ formula \subseteq Relaxed' /\ Relaxed' \subseteq Relaxed
                      /\ Relaxed' # Relaxed
    OBVIOUS
  <2>0. TypeOK /\ ThreadsInv /\ KnownInv /\ CandidatesInv
    BY DEF Basics
  <2>1. SetupApprox
    <3>1. ASSUME NEW w \in Optimizer, Optimize(w) PROVE FALSE
      BY <2>0, <3>1, OptimizeKeeps
    <3>2. ASSUME NEW w \in Worker, Test(w) PROVE FALSE
      BY <3>2, TestKeeps
    <3> QED
      BY <3>1, <3>2 DEF Next, Main, FirstSolution, Unsatisfiable, StartTesting, Answer
  <2>2. clauses' = clauses \cup diagnoses /\ diagnoses # {}
    BY <2>0, <2>1, SetupFacts DEF SetupApprox
  <2>3. formula \subseteq Relaxed'
    <3>1. formula \subseteq Assignment
      BY <2>0, HittingSetsAssumption DEF TypeOK
    <3> QED
      BY <2>0, <2>2, <3>1 DEF Relaxed, KnownInv
  <2>4. Relaxed' \subseteq Relaxed
    BY <2>2 DEF Relaxed
  <2>5. PICK d \in diagnoses : TRUE
    BY <2>2
  <2>6. PICK c \in solution : \A l \in d : ~ Holds(l, c.model)
    BY <2>0, <2>5 DEF CandidatesInv
  <2>7. c.model \in Relaxed
    BY <2>0 DEF Relaxed, TypeOK, Candidate, CandidatesInv
  <2>8. c.model \notin Relaxed'
    BY <2>2, <2>5, <2>6 DEF Relaxed
  <2> QED
    BY <2>3, <2>4, <2>7, <2>8
<1>2. Basics /\ [Next]_vars => [Shrink]_vars
  BY <1>1
<1> QED
  BY RoundsAreOrdered, <1>2, PTL DEF Spec, RoundsShrinkRelaxation

(***************************************************************************)
(* Publishing a model (publishModel) uncovers nothing, whatever the        *)
(* objectives count, and covers what was found.                            *)
(***************************************************************************)
LEMMA PublishCovers ==
    ASSUME Basics, NEW w \in Optimizer, SolveSat(w), NEW q \in YPoint,
           Covers({c.point : c \in solution}, q)
    PROVE  Covers({c.point : c \in solution'}, q)
<1>0. \A c \in solution : c.point \in YPoint
  BY DEF Basics, TypeOK, Candidate
<1>1. PICK x \in Open(w) :
        LET p == Point(x)
            kept == {c \in solution : c.point = p \/ ~ dominates(p, c.point)}
        IN IF \E c \in solution : dominates(c.point, p)
           THEN solution' = kept /\ UNCHANGED <<soft_blocks, activeBlocks>>
           ELSE /\ solution' = kept \cup {[model |-> x, point |-> p, bound |-> BlockOf(p).bound]}
                /\ soft_blocks' = soft_blocks \cup {BlockOf(p)}
                /\ activeBlocks' = activeBlocks \cup {BlockOf(p).bound}
  BY DEF SolveSat
<1> DEFINE p == Point(x)
<1> DEFINE kept == {c \in solution : c.point = p \/ ~ dominates(p, c.point)}
<1> DEFINE new == [model |-> x, point |-> p, bound |-> BlockOf(p).bound]
<1>2. p \in YPoint
  BY FoundFacts
<1>3. PICK d \in solution : dominates(d.point, q)
  BY DEF Covers
<1>4. \E e \in solution' : dominates(e.point, p)
  <2>1. CASE \E c \in solution : dominates(c.point, p)
    <3>1. PICK c \in solution : dominates(c.point, p)
      BY <2>1
    <3>2. c \in kept
      BY <1>0, <1>2, <3>1, DominanceOrder
    <3> QED
      BY <1>1, <2>1, <3>1, <3>2
  <2>2. CASE ~ \E c \in solution : dominates(c.point, p)
    <3>1. new \in solution' /\ new.point = p
      BY <1>1, <2>2
    <3> QED
      BY <1>2, <3>1, DominanceOrder
  <2> QED
    BY <2>1, <2>2
<1>5. PICK e \in solution' : dominates(e.point, p)
  BY <1>4
<1>6. kept \subseteq solution' /\ e.point \in YPoint
  <2>1. solution' \subseteq solution \cup {new} /\ new.point = p
    BY <1>1
  <2> QED
    BY <1>0, <1>1, <1>2, <2>1
<1>7. CASE d \in kept
  BY <1>3, <1>6, <1>7 DEF Covers
<1>8. CASE d \notin kept
  <2>1. dominates(p, d.point)
    BY <1>8
  <2>2. dominates(e.point, q)
    BY <1>0, <1>2, <1>3, <1>5, <1>6, <2>1, DominanceOrder
  <2> QED
    BY <2>2 DEF Covers
<1> QED
  BY <1>7, <1>8

(***************************************************************************)
(* The clauses that a thread takes over when it synchronises exclude all   *)
(* that the candidates of the round dominate by then, and what they        *)
(* dominate only grows: no thread finds the same model twice in a round.   *)
(***************************************************************************)
THEOREM FindsStayNew == Spec => FindsAreNew
<1> DEFINE Pts == {c.point : c \in solution}
<1> DEFINE Fresh ==
      /\ \A w \in Optimizer : pc[w] = "sync" /\ pc'[w] = "solve" =>
            \A x \in Open(w)' : ~ Covers({c.point : c \in solution'}, Full[x])
      /\ phase = "search" /\ phase' = "search" =>
            \A x \in Assignment : Covers({c.point : c \in solution}, Full[x])
                               => Covers({c.point : c \in solution'}, Full[x])
<1>1. Basics /\ Next => Fresh
  <2> SUFFICES ASSUME Basics, Next PROVE Fresh
    OBVIOUS
  <2>0. TypeOK /\ ThreadsInv /\ CandidatesInv
    BY DEF Basics
  <2>1. ASSUME NEW w \in Optimizer, pc[w] = "sync", pc'[w] = "solve", NEW x \in Open(w)',
               Covers(Pts', Full[x])
        PROVE  FALSE
    <3>1. phase = "search"
      BY <2>0, <2>1 DEF ThreadsInv
    <3>2. Synchronize(w)
      <4>1. ~ Main
        BY <2>1, <3>1 DEF Main, FirstSolution, Unsatisfiable, StartTesting, SetupApprox, Answer
      <4>2. ASSUME NEW v \in Worker, Test(v) PROVE FALSE
        BY <3>1, <4>2, TestKeeps
      <4>3. PICK v \in Optimizer : Optimize(v)
        BY <4>1, <4>2 DEF Next
      <4>4. v = w
        BY <2>0, <2>1, <4>3
        DEF Optimize, Pop, Finish, Synchronize, Leave, SolveSat, SolveUnsat, ExtendUL,
            SolveUndef, Goto, TypeOK
      <4> QED
        BY <2>1, <4>3, <4>4
        DEF Optimize, Pop, Finish, Leave, SolveSat, SolveUnsat, ExtendUL, SolveUndef
    <3>3. guards'[w] = activeBlocks /\ solution' = solution
      BY <2>0, <3>2 DEF Synchronize, TypeOK
    <3>4. x \in Assignment /\ \A b \in guards'[w] : ~ Blocks(b, x)
      BY <2>1 DEF Open
    <3>5. PICK c \in solution : dominates(c.point, Full[x])
      BY <2>1, <3>3 DEF Covers
    <3>6. c.bound \in activeBlocks
      BY <2>0, <3>1 DEF CandidatesInv
    <3>7. ASSUME NEW o \in Obj PROVE Full[x][o] > c.bound[o]
      <4>1. c.bound[o] < c.point[o] /\ c.point[o] <= Full[x][o]
        BY <2>0, <3>5 DEF CandidatesInv, dominates
      <4>2. c.bound[o] \in Int /\ c.point[o] \in Int /\ Full[x][o] \in Int
        <5>1. c \in Candidate
          BY <2>0 DEF TypeOK
        <5>2. c.bound[o] \in -1 .. MaxValue /\ c.point[o] \in 0 .. MaxValue
          BY <5>1 DEF Candidate, Guard, YPoint
        <5> QED
          BY <3>4, <5>2, Values
      <4> QED
        BY <4>1, <4>2
    <3> QED
      BY <3>3, <3>4, <3>6, <3>7 DEF Blocks
  <2>2. ASSUME phase = "search", phase' = "search", NEW x \in Assignment, Covers(Pts, Full[x])
        PROVE  Covers(Pts', Full[x])
    <3>1. CASE \E w \in Optimizer : SolveSat(w)
      BY <2>2, <3>1, Values, PublishCovers
    <3>2. CASE ~ \E w \in Optimizer : SolveSat(w)
      <4>1. ASSUME NEW w \in Optimizer, Optimize(w) PROVE solution' = solution
        BY <3>2, <4>1
        DEF Optimize, Pop, Finish, Synchronize, Leave, SolveUnsat, ExtendUL, SolveUndef
      <4>2. ASSUME NEW w \in Worker, Test(w) PROVE FALSE
        BY <2>2, <4>2, TestKeeps
      <4>3. ~ Main
        BY <2>2 DEF Main, FirstSolution, Unsatisfiable, StartTesting, SetupApprox, Answer
      <4>4. solution' = solution
        BY <4>1, <4>2, <4>3 DEF Next
      <4> QED
        BY <2>2, <4>4
    <3> QED
      BY <3>1, <3>2
  <2> QED
    BY <2>1, <2>2
<1>2. Basics /\ [Next]_vars => [Fresh]_vars
  BY <1>1
<1> QED
  BY RoundsAreOrdered, <1>2, PTL DEF Spec, FindsAreNew
=============================================================================
