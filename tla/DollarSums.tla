----------------------------- MODULE DollarSums -----------------------------
(***************************************************************************)
(* The laws of SumOf the books and the scan rest on.                       *)
(***************************************************************************)
EXTENDS Dollars, Integers, FiniteSetTheorems, WellFoundedInduction, TLAPS

\* Of naturals with some property one is the least: how an induction goes here.
LEMMA LeastOf ==
    ASSUME NEW T \in SUBSET Nat, T # {}
    PROVE  \E n \in T : \A m \in T : n <= m
<1> DEFINE L == OpToRel(<, Nat)
<1>1. L = {p \in Nat \X Nat : p[1] < p[2]}
  BY DEF OpToRel
<1>2. IsWellFoundedOn(L, Nat)
  BY NatLessThanWellFounded
<1> HIDE DEF L
<1>3. PICK n \in T : \A m \in T : ~(<<m, n>> \in L)
  BY <1>2, WFMin
<1>4. ASSUME NEW m \in T
      PROVE  n <= m
  <2>1. m \in Nat /\ n \in Nat
    OBVIOUS
  <2>2. CASE m < n
    <3>1. <<m, n>> \in Nat \X Nat /\ <<m, n>>[1] < <<m, n>>[2]
      BY <2>1, <2>2
    <3>2. <<m, n>> \in L
      BY <1>1, <3>1
    <3> QED
      BY <1>3, <3>2
  <2> QED
    BY <2>1, <2>2
<1> QED
  BY <1>4

Dollar(f, S) == UNION {{x} \X (1 .. f[x]) : x \in S}

\* One account's dollars are finitely many: as many as it holds.
LEMMA OneAccount ==
  ASSUME NEW x, NEW n \in Nat
  PROVE  IsFiniteSet({x} \X (1 .. n)) /\ Cardinality({x} \X (1 .. n)) = n
<1>1. IsFiniteSet({x}) /\ Cardinality({x}) = 1
  BY FS_Singleton
<1>2. IsFiniteSet(1 .. n) /\ Cardinality(1 .. n) = n
  BY FS_Interval
<1>3. IsFiniteSet({x} \X (1 .. n)) /\ Cardinality({x} \X (1 .. n)) = 1 * Cardinality(1 .. n)
  BY <1>1, <1>2, FS_Product
<1> QED BY <1>2, <1>3

LEMMA DollarsFinite ==
  ASSUME NEW S, IsFiniteSet(S), NEW f, \A x \in S : f[x] \in Nat
  PROVE  IsFiniteSet(Dollar(f, S))
<1> DEFINE g == [x \in S |-> {x} \X (1 .. f[x])]
           R == {g[x] : x \in S}
<1>1. g \in Surjection(S, R)
  BY DEF Surjection
<1>2. IsFiniteSet(R)
  BY <1>1, FS_Surjection
<1>3. ASSUME NEW x \in S PROVE IsFiniteSet(g[x])
  <2>1. IsFiniteSet({x} \X (1 .. f[x]))
    BY OneAccount
  <2> QED BY <2>1
<1>4. IsFiniteSet(UNION R)
  <2>1. \A T \in R : IsFiniteSet(T)
    BY <1>3
  <2> QED BY <1>2, <2>1, FS_UNION
<1>5. R = {{x} \X (1 .. f[x]) : x \in S}
  OBVIOUS
<1> QED BY <1>4, <1>5 DEF Dollar

\* A sum of naturals is a natural.
LEMMA SumType ==
  ASSUME NEW S, IsFiniteSet(S), NEW f, \A x \in S : f[x] \in Nat
  PROVE  SumOf(f, S) \in Nat
  BY DollarsFinite, FS_CardinalityType DEF SumOf, Dollar

\* Nobody, nothing.
LEMMA SumEmpty ==
  ASSUME NEW f
  PROVE  SumOf(f, {}) = 0
<1>1. UNION {{x} \X (1 .. f[x]) : x \in {}} = {}
  OBVIOUS
<1> QED BY <1>1, FS_EmptySet DEF SumOf

\* One more account adds what it holds.
LEMMA SumAdd ==
  ASSUME NEW S, IsFiniteSet(S), NEW f, NEW y, y \notin S,
         \A x \in S \cup {y} : f[x] \in Nat
  PROVE  SumOf(f, S \cup {y}) = SumOf(f, S) + f[y]
<1> DEFINE A == Dollar(f, S)
           B == {y} \X (1 .. f[y])
<1>1. Dollar(f, S \cup {y}) = A \cup B
  BY DEF Dollar
<1>2. A \cap B = {}
  BY DEF Dollar
<1>3. IsFiniteSet(A)
  BY DollarsFinite
<1>4. f[y] \in Nat /\ IsFiniteSet(B) /\ Cardinality(B) = f[y]
  BY OneAccount
<1>5. Cardinality(A \cup B) = Cardinality(A) + Cardinality(B) - Cardinality(A \cap B)
  BY <1>3, <1>4, FS_Union
<1>6. Cardinality(A) \in Nat /\ Cardinality(A \cap B) = 0
  BY <1>2, <1>3, FS_CardinalityType, FS_EmptySet
<1>7. SumOf(f, S \cup {y}) = Cardinality(A \cup B) /\ SumOf(f, S) = Cardinality(A)
  BY <1>1 DEF SumOf, Dollar
<1> QED BY <1>4, <1>5, <1>6, <1>7

\* One account less takes away what it held.
LEMMA SumDrop ==
  ASSUME NEW S, IsFiniteSet(S), NEW f, NEW y \in S, \A x \in S : f[x] \in Nat
  PROVE  SumOf(f, S) = SumOf(f, S \ {y}) + f[y]
<1>1. IsFiniteSet(S \ {y}) /\ y \notin S \ {y} /\ S = (S \ {y}) \cup {y}
  BY FS_RemoveElement
<1>2. SumOf(f, (S \ {y}) \cup {y}) = SumOf(f, S \ {y}) + f[y]
  BY <1>1, SumAdd
<1> QED BY <1>1, <1>2

\* A sum depends on the accounts in the set only.
LEMMA SumSame ==
  ASSUME NEW S, NEW f, NEW g, \A x \in S : f[x] = g[x]
  PROVE  SumOf(f, S) = SumOf(g, S)
<1>1. {{x} \X (1 .. f[x]) : x \in S} = {{x} \X (1 .. g[x]) : x \in S}
  OBVIOUS
<1> QED BY <1>1 DEF SumOf

\* Fewer accounts hold no more.
LEMMA SumPart ==
  ASSUME NEW S, IsFiniteSet(S), NEW R, R \subseteq S, NEW f, \A x \in S : f[x] \in Nat
  PROVE  SumOf(f, R) <= SumOf(f, S)
<1>1. Dollar(f, R) \subseteq Dollar(f, S)
  BY DEF Dollar
<1>2. IsFiniteSet(Dollar(f, S))
  BY DollarsFinite
<1>3. Cardinality(Dollar(f, R)) <= Cardinality(Dollar(f, S))
  BY <1>1, <1>2, FS_Subset
<1> QED BY <1>3 DEF SumOf, Dollar

\* Accounts that hold at most c each hold at most c each together.
LEMMA SumCapped ==
  ASSUME NEW S, IsFiniteSet(S), NEW f, NEW c \in Nat,
         \A x \in S : f[x] \in Nat /\ f[x] <= c
  PROVE  SumOf(f, S) <= Cardinality(S) * c
<1>1. Dollar(f, S) \subseteq S \X (1 .. c)
  BY DEF Dollar
<1>2. IsFiniteSet(1 .. c) /\ Cardinality(1 .. c) = c
  BY FS_Interval
<1>3. /\ IsFiniteSet(S \X (1 .. c))
      /\ Cardinality(S \X (1 .. c)) = Cardinality(S) * Cardinality(1 .. c)
  BY <1>2, FS_Product
<1>4. Cardinality(Dollar(f, S)) <= Cardinality(S \X (1 .. c))
  BY <1>1, <1>3, FS_Subset
<1> QED BY <1>2, <1>3, <1>4 DEF SumOf, Dollar

\* Accounts that are in one of two sets.
LEMMA SumUnion ==
  ASSUME NEW S, IsFiniteSet(S), NEW R, IsFiniteSet(R), S \cap R = {},
         NEW f, \A x \in S \cup R : f[x] \in Nat
  PROVE  SumOf(f, S \cup R) = SumOf(f, S) + SumOf(f, R)
<1> DEFINE A == Dollar(f, S)
           B == Dollar(f, R)
<1>1. Dollar(f, S \cup R) = A \cup B /\ A \cap B = {}
  BY DEF Dollar
<1>2. IsFiniteSet(A) /\ IsFiniteSet(B)
  BY DollarsFinite
<1>3. Cardinality(A \cup B) = Cardinality(A) + Cardinality(B) - Cardinality(A \cap B)
  BY <1>2, FS_Union
<1>4. Cardinality(A) \in Nat /\ Cardinality(B) \in Nat /\ Cardinality(A \cap B) = 0
  BY <1>1, <1>2, FS_CardinalityType, FS_EmptySet
<1>5. /\ SumOf(f, S \cup R) = Cardinality(A \cup B)
      /\ SumOf(f, S) = Cardinality(A) /\ SumOf(f, R) = Cardinality(B)
  BY <1>1 DEF SumOf, Dollar
<1> QED BY <1>3, <1>4, <1>5

-----------------------------------------------------------------------------
\* Sums of gains and losses

LEMMA NetParts ==
  ASSUME NEW S, NEW f, \A x \in S : f[x] \in Int
  PROVE  \A x \in S : /\ Gains(f, S)[x] \in Nat /\ Losses(f, S)[x] \in Nat
                      /\ Gains(f, S)[x] - Losses(f, S)[x] = f[x]
  BY DEF Gains, Losses

LEMMA NetType ==
  ASSUME NEW S, IsFiniteSet(S), NEW f, \A x \in S : f[x] \in Int
  PROVE  NetOf(f, S) \in Int
<1>1. SumOf(Gains(f, S), S) \in Nat
  BY NetParts, SumType
<1>2. SumOf(Losses(f, S), S) \in Nat
  BY NetParts, SumType
<1> QED BY <1>1, <1>2 DEF NetOf

LEMMA NetEmpty ==
  ASSUME NEW f
  PROVE  NetOf(f, {}) = 0
  BY SumEmpty DEF NetOf

LEMMA NetSame ==
  ASSUME NEW S, NEW f, NEW g, \A x \in S : f[x] = g[x]
  PROVE  NetOf(f, S) = NetOf(g, S)
<1>1. Gains(f, S) = Gains(g, S) /\ Losses(f, S) = Losses(g, S)
  BY DEF Gains, Losses
<1> QED BY <1>1 DEF NetOf

LEMMA NetUnion ==
  ASSUME NEW S, IsFiniteSet(S), NEW R, IsFiniteSet(R), S \cap R = {},
         NEW f, \A x \in S \cup R : f[x] \in Int
  PROVE  NetOf(f, S \cup R) = NetOf(f, S) + NetOf(f, R)
<1> DEFINE T == S \cup R
           G == Gains(f, T)
           L == Losses(f, T)
<1>1. \A x \in T : G[x] \in Nat /\ L[x] \in Nat
  BY NetParts
<1>2. SumOf(G, T) = SumOf(G, S) + SumOf(G, R)
  <2> HIDE DEF G
  <2> QED BY <1>1, SumUnion
<1>3. SumOf(L, T) = SumOf(L, S) + SumOf(L, R)
  <2> HIDE DEF L
  <2> QED BY <1>1, SumUnion
<1>4. SumOf(G, S) = SumOf(Gains(f, S), S) /\ SumOf(G, R) = SumOf(Gains(f, R), R)
  <2>1. \A x \in S : G[x] = Gains(f, S)[x]
    BY DEF Gains
  <2>2. \A x \in R : G[x] = Gains(f, R)[x]
    BY DEF Gains
  <2> HIDE DEF G
  <2> QED BY <2>1, <2>2, SumSame
<1>5. SumOf(L, S) = SumOf(Losses(f, S), S) /\ SumOf(L, R) = SumOf(Losses(f, R), R)
  <2>1. \A x \in S : L[x] = Losses(f, S)[x]
    BY DEF Losses
  <2>2. \A x \in R : L[x] = Losses(f, R)[x]
    BY DEF Losses
  <2> HIDE DEF L
  <2> QED BY <2>1, <2>2, SumSame
<1>6. /\ SumOf(G, S) \in Nat /\ SumOf(G, R) \in Nat
      /\ SumOf(L, S) \in Nat /\ SumOf(L, R) \in Nat
  <2> HIDE DEF G, L
  <2>1. SumOf(G, S) \in Nat /\ SumOf(G, R) \in Nat
    BY <1>1, SumType
  <2>2. SumOf(L, S) \in Nat /\ SumOf(L, R) \in Nat
    BY <1>1, SumType
  <2> QED BY <2>1, <2>2
<1> QED BY <1>2, <1>3, <1>4, <1>5, <1>6 DEF NetOf

\* One more entry adds its gain or loss.
LEMMA NetAdd ==
  ASSUME NEW S, IsFiniteSet(S), NEW f, NEW y, y \notin S,
         \A x \in S \cup {y} : f[x] \in Int
  PROVE  NetOf(f, S \cup {y}) = NetOf(f, S) + f[y]
<1>1. IsFiniteSet({y}) /\ S \cap {y} = {}
  BY FS_Singleton
<1>2. NetOf(f, S \cup {y}) = NetOf(f, S) + NetOf(f, {y})
  BY <1>1, NetUnion
<1>3. NetOf(f, {y}) = f[y]
  <2> DEFINE G == Gains(f, {y})
             L == Losses(f, {y})
  <2>1. G[y] \in Nat /\ L[y] \in Nat /\ G[y] - L[y] = f[y]
    BY NetParts
  <2>2. IsFiniteSet({}) /\ {y} = {} \cup {y}
    BY FS_EmptySet
  <2> HIDE DEF G, L
  <2>3. SumOf(G, {} \cup {y}) = SumOf(G, {}) + G[y]
    BY <2>1, <2>2, SumAdd
  <2>4. SumOf(L, {} \cup {y}) = SumOf(L, {}) + L[y]
    <3>1. y \notin {} /\ \A x \in {} \cup {y} : L[x] \in Nat
      BY <2>1
    <3> QED BY <2>2, <3>1, SumAdd
  <2>5. SumOf(G, {y}) = G[y] /\ SumOf(L, {y}) = L[y]
    BY <2>1, <2>2, <2>3, <2>4, SumEmpty
  <2> QED BY <2>1, <2>5 DEF NetOf, G, L
<1> QED BY <1>2, <1>3

Alike(g, S, k) == {x \in S : g[x] = k}

\* A sum over groups of the sums of the groups.
LEMMA NetGroups ==
  ASSUME NEW K, IsFiniteSet(K), NEW S, IsFiniteSet(S),
         NEW g, \A x \in S : g[x] \in K,
         NEW f, \A x \in S : f[x] \in Int,
         NEW h, \A k \in K : h[k] = NetOf(f, Alike(g, S, k))
  PROVE  NetOf(h, K) = NetOf(f, S)
<1> DEFINE In(Q)   == {x \in S : g[x] \in Q}
           Holds(Q) == NetOf(h, Q) = NetOf(f, In(Q))
           T == {n \in Nat : \E Q \in SUBSET K : Cardinality(Q) = n /\ ~Holds(Q)}
<1>1. \A Q : IsFiniteSet(In(Q)) /\ \A x \in In(Q) : f[x] \in Int
  BY FS_Subset
<1>2. ASSUME NEW k \in K PROVE h[k] \in Int
  <2>1. Alike(g, S, k) \in SUBSET S
    BY DEF Alike
  <2>2. IsFiniteSet(Alike(g, S, k)) /\ \A x \in Alike(g, S, k) : f[x] \in Int
    BY <2>1, FS_Subset
  <2> QED BY <2>2, NetType
<1>3. ASSUME NEW Q \in SUBSET K, Q = {} PROVE Holds(Q)
  <2>1. In(Q) = {}
    BY <1>3
  <2> QED BY <1>3, <2>1, NetEmpty
<1>4. ASSUME NEW Q \in SUBSET K, NEW y \in Q, Holds(Q \ {y}) PROVE Holds(Q)
  <2> DEFINE P == Q \ {y}
             Group == Alike(g, S, y)
  <2>1. /\ IsFiniteSet(P) /\ y \notin P /\ P \cup {y} = Q
        /\ \A k \in P \cup {y} : h[k] \in Int
    BY <1>2, FS_Subset
  <2>2. NetOf(h, P \cup {y}) = NetOf(h, P) + h[y]
    <3> HIDE DEF P, Holds, In
    <3>1. IsFiniteSet(P) /\ y \notin P
      BY <2>1
    <3>2. \A x \in P \cup {y} : h[x] \in Int
      BY <2>1
    <3> QED BY ONLY <3>1, <3>2, NetAdd
  <2>3. /\ In(Q) = In(P) \cup Group /\ In(P) \cap Group = {}
        /\ \A x \in In(P) \cup Group : f[x] \in Int
    BY <2>1 DEF Alike
  <2>4. IsFiniteSet(In(P)) /\ IsFiniteSet(Group)
    BY <1>1, FS_Subset DEF Alike
  <2>5. NetOf(f, In(P) \cup Group) = NetOf(f, In(P)) + NetOf(f, Group)
    <3> HIDE DEF P, In, Group
    <3> QED BY <2>3, <2>4, NetUnion
  <2>6. h[y] = NetOf(f, Group)
    OBVIOUS
  <2> QED BY <1>4, <2>1, <2>2, <2>3, <2>5, <2>6
<1> HIDE DEF Holds
<1>5. T = {}
  <2> SUFFICES ASSUME T # {} PROVE FALSE
    OBVIOUS
  <2>1. T \in SUBSET Nat
    OBVIOUS
  <2>2. PICK n \in T : \A m \in T : n <= m
    <3> HIDE DEF T
    <3> QED BY <2>1, LeastOf
  <2>3. PICK Q \in SUBSET K : Cardinality(Q) = n /\ ~Holds(Q)
    BY <2>2
  <2>4. Q # {}
    BY <1>3, <2>3
  <2>5. PICK y : y \in Q
    BY <2>4
  <2>6. IsFiniteSet(Q)
    BY FS_Subset
  <2>7. Cardinality(Q \ {y}) = n - 1 /\ n \in Nat
    BY <2>2, <2>3, <2>5, <2>6, FS_RemoveElement
  <2>8. IsFiniteSet(Q \ {y}) /\ Cardinality(Q \ {y}) \in Nat
    BY <2>6, FS_Subset, FS_CardinalityType
  <2>9. n - 1 \in Nat /\ ~(n <= n - 1)
    BY <2>7, <2>8
  <2>10. n - 1 \notin T
    BY <2>2, <2>9
  <2>11. Holds(Q \ {y})
    BY <2>7, <2>9, <2>10
  <2> QED BY <1>4, <2>3, <2>5, <2>11
<1>6. Holds(K)
  <2>1. Cardinality(K) \in Nat
    BY FS_CardinalityType
  <2>2. Cardinality(K) \notin T
    BY <1>5
  <2> QED BY <2>1, <2>2
<1>7. In(K) = S
  OBVIOUS
<1> QED BY <1>6, <1>7 DEF Holds

\* Who is counted once each.
LEMMA NetCounts ==
  ASSUME NEW S, IsFiniteSet(S), NEW R, NEW f,
         \A x \in S : f[x] = IF x \in R THEN 1 ELSE 0
  PROVE  NetOf(f, S) = Cardinality(S \cap R)
<1>1. \A x \in S : Gains(f, S)[x] = (IF x \in R THEN 1 ELSE 0) /\ Losses(f, S)[x] = 0
  BY DEF Gains, Losses
<1>2. SumOf(Losses(f, S), S) = 0
  <2>1. UNION {{x} \X (1 .. Losses(f, S)[x]) : x \in S} = {}
    BY <1>1
  <2> QED BY <2>1, FS_EmptySet DEF SumOf
<1>3. SumOf(Gains(f, S), S) = Cardinality((S \cap R) \X {1})
  <2> DEFINE G == Gains(f, S)
             Units == UNION {{x} \X (1 .. G[x]) : x \in S}
  <2>1. \A x \in S : G[x] = (IF x \in R THEN 1 ELSE 0)
    BY <1>1
  <2>2. 1 .. 1 = {1} /\ 1 .. 0 = {}
    OBVIOUS
  <2> HIDE DEF G
  <2>3. ASSUME NEW x \in S PROVE 1 .. G[x] = (IF x \in R THEN {1} ELSE {})
    <3>1. CASE x \in R
      <4>1. G[x] = 1
        BY <2>1, <3>1
      <4> QED BY <2>2, <3>1, <4>1
    <3>2. CASE x \notin R
      <4>1. G[x] = 0
        BY <2>1, <3>2
      <4> QED BY <2>2, <3>2, <4>1
    <3> QED BY <3>1, <3>2
  <2>4. ASSUME NEW u \in Units PROVE u \in (S \cap R) \X {1}
    <3>1. PICK x \in S : u \in {x} \X (1 .. G[x])
      OBVIOUS
    <3>2. x \in R /\ u \in {x} \X {1}
      BY <2>3, <3>1
    <3> QED BY <3>2
  <2>5. ASSUME NEW u \in (S \cap R) \X {1} PROVE u \in Units
    <3>1. PICK x \in S \cap R : u \in {x} \X {1}
      OBVIOUS
    <3>2. u \in {x} \X (1 .. G[x])
      BY <2>3, <3>1
    <3> QED BY <3>2
  <2>6. Units = (S \cap R) \X {1}
    BY <2>4, <2>5
  <2> QED BY <2>6 DEF SumOf, G
<1>4. IsFiniteSet(S \cap R) /\ IsFiniteSet({1}) /\ Cardinality({1}) = 1
  BY FS_Subset, FS_Singleton
<1>5. Cardinality((S \cap R) \X {1}) = Cardinality(S \cap R) * 1 /\ Cardinality(S \cap R) \in Nat
  BY <1>4, FS_Product, FS_CardinalityType
<1> QED BY <1>2, <1>3, <1>5 DEF NetOf
=============================================================================
