---------------------------- MODULE RoutingProofs ----------------------------
(***************************************************************************)
(* Proofs about Routing, for any models, deployments, aliases and requests *)
(* that satisfy its assumption, and about SessionAffinity, for any         *)
(* sessions, requests, deployments, keys and settings.                     *)
(*                                                                         *)
(* What Routing promises is promised in every well-typed state, so the     *)
(* invariant is the types; the work is in what the plan is made of.  An    *)
(* alias's expansion is a fixed point over the depth, equal to what can be *)
(* reached in as many steps; a sorted list, a turned list and a list with  *)
(* one moved ahead hold the candidates, each once (Lists); and the first   *)
(* of a sorted list has the least key.                                     *)
(*                                                                         *)
(* The second half is about the dictionaries of session affinity, the one  *)
(* of the pool and its twin in the scheduler. A session that is due is     *)
(* bound in both, and the bindings before its own are those of sessions    *)
(* served since: fewer than there is room for.                             *)
(***************************************************************************)
EXTENDS MCRouting, FiniteSetTheorems, SequenceTheorems, WellFoundedInduction, TLAPS

-----------------------------------------------------------------------------
(* Numbers *)

\* A set of numbers that is not empty has a least one.
LEMMA LeastNumber ==
  ASSUME NEW T \in SUBSET Nat, T # {}
  PROVE  \E x \in T : \A y \in T : x <= y
  <1>1. \E x \in T : \A y \in T : ~ (<<y, x>> \in OpToRel(<, Nat))
    <2>. HIDE DEF OpToRel
    <2>. QED BY NatLessThanWellFounded, WFMin
  <1>2. PICK x \in T : \A y \in T : ~ (<<y, x>> \in OpToRel(<, Nat))
    BY <1>1
  <1>3. \A y \in T : ~ (y < x)
    BY <1>2 DEF OpToRel
  <1>. QED BY <1>3

LEMMA LeastIsLeast ==
  ASSUME NEW T \in SUBSET Nat, T # {}
  PROVE  Least(T) \in T /\ \A y \in T : Least(T) <= y
  BY LeastNumber DEF Least

\* Induction, for the set of numbers that a statement holds of.
LEMMA SetInduction ==
  ASSUME NEW S, 0 \in S, \A n \in Nat : n \in S => n + 1 \in S
  PROVE  Nat \subseteq S
  <1>. SUFFICES ASSUME Nat \ S # {} PROVE FALSE
    OBVIOUS
  <1>1. PICK x \in Nat \ S : \A y \in Nat \ S : x <= y
    BY LeastNumber
  <1>2. x # 0 /\ x - 1 \in Nat
    BY <1>1
  <1>3. x - 1 \in S
    BY <1>1, <1>2
  <1>. QED BY <1>1, <1>2, <1>3

-----------------------------------------------------------------------------
(* Sorting *)

Ordered(K) ==
    /\ \A k \in K : ~Lesser(k, k)
    /\ \A k, l \in K : k # l => Lesser(k, l) \/ Lesser(l, k)
    /\ \A k, l, m \in K : Lesser(k, l) /\ Lesser(l, m) => Lesser(k, m)

\* Tuples of one length are in a strict order, whatever the length.
LEMMA TuplesAreOrdered ==
  ASSUME NEW n \in Nat, NEW K \in SUBSET [1 .. n -> Int]
  PROVE  Ordered(K)
  <1>1. ASSUME NEW k \in K PROVE ~Lesser(k, k)
    BY DEF Lesser
  <1>2. ASSUME NEW k \in K, NEW l \in K, k # l PROVE Lesser(k, l) \/ Lesser(l, k)
    <2>. DEFINE D == {i \in 1 .. n : k[i] # l[i]}
    <2>0. k \in [1 .. n -> Int] /\ l \in [1 .. n -> Int]
      OBVIOUS
    <2>1. D # {} /\ D \in SUBSET Nat
      <3>1. \E i \in 1 .. n : k[i] # l[i]
        BY <1>2, <2>0
      <3>. QED BY <3>1
    <2>2. PICK i \in D : \A j \in D : i <= j
      BY <2>1, LeastNumber
    <2>3. \A j \in 1 .. i - 1 : k[j] = l[j]
      BY <2>2
    <2>4. k[i] < l[i] \/ l[i] < k[i]
      BY <2>2
    <2>. QED BY <2>2, <2>3, <2>4 DEF Lesser
  <1>3. ASSUME NEW k \in K, NEW l \in K, NEW m \in K, Lesser(k, l), Lesser(l, m)
        PROVE  Lesser(k, m)
    <2>1. PICK i \in 1 .. n : k[i] < l[i] /\ \A j \in 1 .. i - 1 : k[j] = l[j]
      BY <1>3 DEF Lesser
    <2>2. PICK j \in 1 .. n : l[j] < m[j] /\ \A h \in 1 .. j - 1 : l[h] = m[h]
      BY <1>3 DEF Lesser
    <2>3. CASE i < j
      <3>1. k[i] < m[i] /\ \A h \in 1 .. i - 1 : k[h] = m[h]
        BY <2>1, <2>2, <2>3
      <3>. QED BY <3>1 DEF Lesser
    <2>4. CASE j <= i
      <3>1. k[j] < m[j]
        <4>1. k[j] \in Int /\ l[j] \in Int /\ m[j] \in Int
          OBVIOUS
        <4>2. k[j] <= l[j]
          <5>1. CASE j = i
            BY <2>1, <4>1, <5>1
          <5>2. CASE j \in 1 .. i - 1
            BY <2>1, <4>1, <5>2
          <5>. QED BY <2>4, <5>1, <5>2
        <4>. QED BY <4>1, <4>2, <2>2
      <3>2. \A h \in 1 .. j - 1 : k[h] = m[h]
        BY <2>1, <2>2, <2>4
      <3>. QED BY <3>1, <3>2 DEF Lesser
    <2>. QED BY <2>3, <2>4
  <1>. QED BY <1>1, <1>2, <1>3 DEF Ordered

\* The sorted sequence of a finite ordered set exists: the place of an element is given by how
\* many are lesser.
LEMMA Sorting ==
  ASSUME NEW K, IsFiniteSet(K), Ordered(K)
  PROVE  /\ Cardinality(K) \in Nat
         /\ Ascending(K) \in [1 .. Cardinality(K) -> K]
         /\ \A i, j \in 1 .. Cardinality(K) : i < j => Lesser(Ascending(K)[i], Ascending(K)[j])
         /\ \A k \in K : \E i \in 1 .. Cardinality(K) : Ascending(K)[i] = k
  <1>. DEFINE n == Cardinality(K)
              Below(k) == {l \in K : Lesser(l, k)}
              rank == [k \in K |-> Cardinality(Below(k)) + 1]
  <1>1. n \in Nat
    BY FS_CardinalityType
  <1>2. ASSUME NEW k \in K
        PROVE  IsFiniteSet(Below(k)) /\ Cardinality(Below(k)) \in 0 .. n - 1
    <2>1. Below(k) \in SUBSET K /\ k \notin Below(k)
      BY DEF Ordered
    <2>2. IsFiniteSet(Below(k)) /\ Cardinality(Below(k)) <= n /\ Cardinality(Below(k)) # n
      BY <2>1, FS_Subset
    <2>3. Cardinality(Below(k)) \in Nat
      BY <2>2, FS_CardinalityType
    <2>. QED BY <1>1, <2>2, <2>3
  <1>3. ASSUME NEW k \in K, NEW l \in K, Lesser(k, l)
        PROVE  rank[k] < rank[l]
    <2>1. Below(k) \in SUBSET Below(l) /\ k \in Below(l) /\ k \notin Below(k)
      BY <1>3 DEF Ordered
    <2>2. Cardinality(Below(k)) <= Cardinality(Below(l)) /\ Cardinality(Below(k)) # Cardinality(Below(l))
      BY <1>2, <2>1, FS_Subset
    <2>3. Cardinality(Below(k)) \in Nat /\ Cardinality(Below(l)) \in Nat
      BY <1>2, FS_CardinalityType
    <2>4. Cardinality(Below(k)) < Cardinality(Below(l))
      BY <2>2, <2>3
    <2>5. rank[k] = Cardinality(Below(k)) + 1 /\ rank[l] = Cardinality(Below(l)) + 1
      OBVIOUS
    <2>. HIDE DEF Below, rank
    <2>. QED BY <2>3, <2>4, <2>5
  <1>4. rank \in [K -> 1 .. n]
    <2>1. \A k \in K : Cardinality(Below(k)) + 1 \in 1 .. n
      <3>. TAKE k \in K
      <3>1. Cardinality(Below(k)) \in 0 .. n - 1
        BY <1>2
      <3>. HIDE DEF Below, n
      <3>. QED BY <1>1, <3>1
    <2>. HIDE DEF Below, n
    <2>. QED BY <2>1
  <1>. HIDE DEF rank, n, Below
  <1>5. \A k, l \in K : rank[k] = rank[l] => k = l
    <2>. SUFFICES ASSUME NEW k \in K, NEW l \in K, rank[k] = rank[l], k # l PROVE FALSE
      OBVIOUS
    <2>1. rank[k] < rank[l] \/ rank[l] < rank[k]
      BY <1>3 DEF Ordered
    <2>2. rank[k] \in Nat /\ rank[l] \in Nat
      BY <1>4
    <2>. QED BY <2>1, <2>2
  <1>6. rank \in Injection(K, 1 .. n)
    BY <1>4, <1>5 DEF Injection, IsInjective
  <1>7. IsFiniteSet(1 .. n) /\ Cardinality(1 .. n) = n
    BY <1>1, FS_Interval
  <1>8. rank \in Surjection(K, 1 .. n)
    <2>1. Cardinality(K) = Cardinality(1 .. n)
      BY <1>7 DEF n
    <2>. QED BY <1>6, <1>7, <2>1, FS_Injection
  <1>9. \A i \in 1 .. n : \E k \in K : rank[k] = i
    BY <1>8 DEF Surjection
  <1>. DEFINE s0 == [i \in 1 .. n |-> CHOOSE k \in K : rank[k] = i]
  <1>10. s0 \in [1 .. n -> K] /\ \A i \in 1 .. n : rank[s0[i]] = i
    BY <1>9
  <1>. HIDE DEF s0
  <1>11. \A i, j \in DOMAIN s0 : i < j => Lesser(s0[i], s0[j])
    <2>. SUFFICES ASSUME NEW i \in 1 .. n, NEW j \in 1 .. n, i < j, ~Lesser(s0[i], s0[j]) PROVE FALSE
      BY <1>10
    <2>1. s0[i] # s0[j]
      <3>1. rank[s0[i]] # rank[s0[j]]
        BY <1>10
      <3>. QED BY <3>1
    <2>2. Lesser(s0[j], s0[i])
      BY <1>10, <2>1 DEF Ordered
    <2>3. rank[s0[j]] < rank[s0[i]]
      BY <1>3, <1>10, <2>2
    <2>. QED BY <1>10, <2>3
  <1>. DEFINE Fine(s) == \A i, j \in DOMAIN s : i < j => Lesser(s[i], s[j])
  <1>12. Ascending(K) \in [1 .. n -> K] /\ Fine(Ascending(K))
    BY <1>10, <1>11 DEF Ascending, n
  <1>. DEFINE s == Ascending(K)
  <1>13. s \in [1 .. n -> K] /\ \A i, j \in 1 .. n : i < j => Lesser(s[i], s[j])
    BY <1>12
  <1>. HIDE DEF s
  <1>14. s \in Injection(1 .. n, K)
    <2>1. ASSUME NEW i \in 1 .. n, NEW j \in 1 .. n, s[i] = s[j], i < j PROVE FALSE
      <3>1. Lesser(s[i], s[j])
        BY <1>13, <2>1
      <3>2. s[j] \in K /\ Lesser(s[j], s[j])
        BY <1>13, <2>1, <3>1
      <3>. QED BY <3>2 DEF Ordered
    <2>2. \A i, j \in 1 .. n : s[i] = s[j] => i = j
      <3>. SUFFICES ASSUME NEW i \in 1 .. n, NEW j \in 1 .. n, s[i] = s[j], i # j PROVE FALSE
        OBVIOUS
      <3>. QED BY <2>1
    <2>. QED BY <1>13, <2>2 DEF Injection, IsInjective
  <1>15. s \in Surjection(1 .. n, K)
    <2>1. Cardinality(1 .. n) = Cardinality(K)
      BY <1>7 DEF n
    <2>. QED BY <1>14, <2>1, FS_Injection
  <1>16. \A k \in K : \E i \in 1 .. n : s[i] = k
    BY <1>15 DEF Surjection
  <1>. QED BY <1>1, <1>13, <1>16 DEF n, s

-----------------------------------------------------------------------------
(* Sequences *)

\* A sequence has an entry.
Holds(q, x) == \E i \in 1 .. Len(q) : q[i] = x

\* What is picked from a sequence: its entries at some places, in order.
LEMMA PickedFacts ==
  ASSUME NEW X, NEW s \in Seq(X), NEW I \in SUBSET (1 .. Len(s))
  PROVE  /\ Picked(s, I) \in Seq(X)
         /\ \E at \in [1 .. Len(Picked(s, I)) -> I] :
                /\ \A i, j \in 1 .. Len(Picked(s, I)) : i < j => at[i] < at[j]
                /\ \A k \in I : \E i \in 1 .. Len(Picked(s, I)) : at[i] = k
                /\ \A i \in 1 .. Len(Picked(s, I)) : Picked(s, I)[i] = s[at[i]]
  <1>. DEFINE K == {<<i>> : i \in I}
              n == Cardinality(K)
              places == Ascending(K)
              at == [i \in 1 .. n |-> places[i][1]]
  <1>1. Len(s) \in Nat /\ \A i \in 1 .. Len(s) : s[i] \in X
    OBVIOUS
  <1>2. IsFiniteSet(K)
    <2>1. IsFiniteSet(I)
      <3>1. IsFiniteSet(1 .. Len(s))
        BY <1>1, FS_Interval
      <3>. QED BY <3>1, FS_Subset
    <2>. DEFINE f == [i \in I |-> <<i>>]
    <2>2. f \in Surjection(I, K)
      BY DEF Surjection
    <2>. QED BY <2>1, <2>2, FS_Surjection
  <1>3. Ordered(K)
    <2>1. K \in SUBSET [1 .. 1 -> Int]
      OBVIOUS
    <2>. QED BY <2>1, TuplesAreOrdered
  <1>4. /\ n \in Nat /\ places \in [1 .. n -> K]
        /\ \A i, j \in 1 .. n : i < j => Lesser(places[i], places[j])
        /\ \A k \in K : \E i \in 1 .. n : places[i] = k
    BY <1>2, <1>3, Sorting
  <1>. HIDE DEF n, places
  <1>5. \A i \in 1 .. n : places[i] = <<at[i]>> /\ at[i] \in I
    BY <1>4
  <1>6. at \in [1 .. n -> I]
    BY <1>5
  <1>7. ASSUME NEW i \in 1 .. n, NEW j \in 1 .. n, i < j PROVE at[i] < at[j]
    <2>1. Lesser(places[i], places[j]) /\ places[i] = <<at[i]>> /\ places[j] = <<at[j]>>
      BY <1>4, <1>5, <1>7
    <2>. HIDE DEF at
    <2>2. Lesser(<<at[i]>>, <<at[j]>>)
      BY <2>1
    <2>. QED BY <2>2 DEF Lesser
  <1>8. \A k \in I : \E i \in 1 .. n : at[i] = k
    <2>. TAKE k \in I
    <2>1. <<k>> \in K
      OBVIOUS
    <2>2. PICK i \in 1 .. n : places[i] = <<k>>
      BY <1>4, <2>1
    <2>3. at[i] = k
      BY <2>2
    <2>. QED BY <2>3
  <1>9. Picked(s, I) = [i \in 1 .. n |-> s[at[i]]]
    <2>1. DOMAIN places = 1 .. n
      BY <1>4
    <2>. QED BY <2>1 DEF Picked, places
  <1>. HIDE DEF at
  <1>10. Picked(s, I) \in [1 .. n -> X]
    BY <1>1, <1>6, <1>9
  <1>11. Picked(s, I) \in Seq(X) /\ Len(Picked(s, I)) = n
    BY <1>4, <1>10
  <1>12. \A i \in 1 .. n : Picked(s, I)[i] = s[at[i]]
    BY <1>9
  <1>. QED BY <1>6, <1>7, <1>8, <1>11, <1>12

\* Distinct keeps every entry once.
LEMMA DistinctFacts ==
  ASSUME NEW X, NEW s \in Seq(X)
  PROVE  /\ Distinct(s) \in Seq(X)
         /\ \A x : (\E i \in 1 .. Len(Distinct(s)) : Distinct(s)[i] = x) <=> (\E i \in 1 .. Len(s) : s[i] = x)
         /\ \A i, j \in 1 .. Len(Distinct(s)) : Distinct(s)[i] = Distinct(s)[j] => i = j
  <1>. DEFINE I == {i \in 1 .. Len(s) : \A j \in 1 .. i - 1 : s[j] # s[i]}
              p == Distinct(s)
  <1>1. Len(s) \in Nat /\ DOMAIN s = 1 .. Len(s)
    OBVIOUS
  <1>2. p = Picked(s, I)
    BY <1>1 DEF Distinct
  <1>3. I \in SUBSET (1 .. Len(s))
    OBVIOUS
  <1>4. PICK at \in [1 .. Len(p) -> I] :
                /\ \A i, j \in 1 .. Len(p) : i < j => at[i] < at[j]
                /\ \A k \in I : \E i \in 1 .. Len(p) : at[i] = k
                /\ \A i \in 1 .. Len(p) : p[i] = s[at[i]]
    <2>. HIDE DEF I, p
    <2>1. \E at \in [1 .. Len(Picked(s, I)) -> I] :
                /\ \A i, j \in 1 .. Len(Picked(s, I)) : i < j => at[i] < at[j]
                /\ \A k \in I : \E i \in 1 .. Len(Picked(s, I)) : at[i] = k
                /\ \A i \in 1 .. Len(Picked(s, I)) : Picked(s, I)[i] = s[at[i]]
      BY <1>3, PickedFacts
    <2>. QED BY <1>2, <2>1
  <1>5. p \in Seq(X) /\ Len(p) \in Nat
    BY <1>2, <1>3, PickedFacts
  <1>6. ASSUME NEW i \in 1 .. Len(s) PROVE \E k \in I : s[k] = s[i]
    <2>. DEFINE T == {j \in 1 .. Len(s) : s[j] = s[i]}
    <2>1. T \in SUBSET Nat /\ i \in T
      OBVIOUS
    <2>2. PICK k \in T : \A j \in T : k <= j
      BY <2>1, LeastNumber
    <2>3. \A j \in 1 .. k - 1 : s[j] # s[k]
      BY <1>1, <2>2
    <2>. QED BY <2>2, <2>3
  <1>7. ASSUME NEW k \in I, NEW l \in I, s[k] = s[l] PROVE k = l
    BY <1>1, <1>7
  <1>. HIDE DEF I, p
  <1>8. \A x : (\E i \in 1 .. Len(p) : p[i] = x) <=> (\E i \in 1 .. Len(s) : s[i] = x)
    <2>. TAKE x
    <2>1. ASSUME NEW i \in 1 .. Len(p), p[i] = x PROVE \E j \in 1 .. Len(s) : s[j] = x
      BY <1>3, <1>4, <2>1
    <2>2. ASSUME NEW i \in 1 .. Len(s), s[i] = x PROVE \E j \in 1 .. Len(p) : p[j] = x
      <3>1. PICK k \in I : s[k] = x
        BY <1>6, <2>2
      <3>2. PICK j \in 1 .. Len(p) : at[j] = k
        BY <1>4
      <3>. QED BY <1>4, <3>1, <3>2
    <2>. QED BY <2>1, <2>2
  <1>9. ASSUME NEW i \in 1 .. Len(p), NEW j \in 1 .. Len(p), p[i] = p[j] PROVE i = j
    <2>1. at[i] \in I /\ at[j] \in I /\ s[at[i]] = s[at[j]]
      BY <1>4, <1>9
    <2>2. at[i] = at[j]
      BY <1>7, <2>1
    <2>3. at[i] \in Nat
      <3>1. at[i] \in 1 .. Len(s)
        BY <1>3, <2>1
      <3>. QED BY <1>1, <3>1
    <2>4. ~(at[i] < at[j]) /\ ~(at[j] < at[i])
      BY <2>2, <2>3
    <2>5. ~(i < j) /\ ~(j < i)
      BY <1>4, <2>4
    <2>. QED BY <1>5, <2>5
  <1>. QED BY <1>5, <1>8, <1>9 DEF p

\* A step repeated from a starting point.
Run(f, x0, g, N) == f[0] = x0 /\ \A n \in 1 .. N : f[n] = g[<<n, f[n - 1]>>]

LEMMA Iteration ==
  ASSUME NEW X, NEW x0 \in X, NEW g \in [Nat \X X -> X]
  PROVE  \A N \in Nat : \E f \in [0 .. N -> X] : Run(f, x0, g, N)
  <1>. DEFINE Fine(f, N) == f[0] = x0 /\ \A n \in 1 .. N : f[n] = g[<<n, f[n - 1]>>]
              S == {N \in Nat : \E f \in [0 .. N -> X] : Fine(f, N)}
  <1>1. 0 \in S
    <2>1. [n \in 0 .. 0 |-> x0] \in [0 .. 0 -> X] /\ Fine([n \in 0 .. 0 |-> x0], 0)
      OBVIOUS
    <2>. QED BY <2>1
  <1>2. ASSUME NEW N \in Nat, N \in S PROVE N + 1 \in S
    <2>1. PICK f \in [0 .. N -> X] : Fine(f, N)
      BY <1>2
    <2>. DEFINE h == [n \in 0 .. N + 1 |-> IF n = N + 1 THEN g[<<n, f[N]>>] ELSE f[n]]
    <2>2. h \in [0 .. N + 1 -> X]
      <3>1. ASSUME NEW n \in 0 .. N + 1 PROVE (IF n = N + 1 THEN g[<<n, f[N]>>] ELSE f[n]) \in X
        <4>1. CASE n = N + 1
          <5>1. <<n, f[N]>> \in Nat \X X
            BY <4>1
          <5>. QED BY <4>1, <5>1
        <4>2. CASE n # N + 1
          BY <4>2
        <4>. QED BY <4>1, <4>2
      <3>. QED BY <3>1
    <2>3. h[0] = x0
      BY <2>1
    <2>4. ASSUME NEW n \in 1 .. N + 1 PROVE h[n] = g[<<n, h[n - 1]>>]
      <3>1. CASE n = N + 1
        <4>1. h[n - 1] = f[N]
          BY <3>1
        <4>. QED BY <3>1, <4>1
      <3>2. CASE n # N + 1
        <4>1. h[n - 1] = f[n - 1] /\ h[n] = f[n]
          BY <3>2
        <4>2. f[n] = g[<<n, f[n - 1]>>]
          BY <2>1, <3>2
        <4>. QED BY <4>1, <4>2
      <3>. QED BY <3>1, <3>2
    <2>5. Fine(h, N + 1)
      BY <2>3, <2>4
    <2>. HIDE DEF h, Fine
    <2>6. \E e \in [0 .. N + 1 -> X] : Fine(e, N + 1)
      BY <2>2, <2>5
    <2>. QED BY <2>6
  <1>. HIDE DEF S
  <1>3. Nat \subseteq S
    BY <1>1, <1>2, SetInduction
  <1>. QED BY <1>3 DEF S, Run

\* FlattenSeq keeps what its parts hold.
LEMMA FlattenFacts ==
  ASSUME NEW X, NEW n \in Nat, NEW ss \in [1 .. n -> Seq(X)]
  PROVE  /\ FlattenSeq(ss) \in Seq(X)
         /\ \A x : Holds(FlattenSeq(ss), x) <=> \E j \in 1 .. n : Holds(ss[j], x)
  <1>1. Len(ss) = n /\ ss \in Seq(Seq(X))
    OBVIOUS
  <1>2. CASE n = 0
    <2>1. ss = <<>> /\ FlattenSeq(ss) = <<>> /\ Len(<<>>) = 0
      BY <1>1, <1>2 DEF FlattenSeq
    <2>2. <<>> \in Seq(X)
      OBVIOUS
    <2>3. 1 .. Len(FlattenSeq(ss)) = {} /\ 1 .. n = {}
      BY <1>2, <2>1
    <2>. QED BY <2>1, <2>2, <2>3 DEF Holds
  <1>3. CASE n # 0
    <2>. DEFINE flatten == CHOOSE f : f = [i \in 1 .. Len(ss) |-> IF i = 1 THEN ss[i] ELSE f[i - 1] \o ss[i]]
    <2>1. FlattenSeq(ss) = flatten[n]
      BY <1>1, <1>3 DEF FlattenSeq
    <2>. DEFINE g == [e \in Nat \X Seq(X) |-> IF e[1] \in 1 .. n THEN e[2] \o ss[e[1]] ELSE <<>>]
    <2>2. g \in [Nat \X Seq(X) -> Seq(X)]
      <3>1. ASSUME NEW e \in Nat \X Seq(X)
            PROVE  (IF e[1] \in 1 .. n THEN e[2] \o ss[e[1]] ELSE <<>>) \in Seq(X)
        <4>1. CASE e[1] \in 1 .. n
          <5>1. ss[e[1]] \in Seq(X) /\ e[2] \in Seq(X)
            BY <4>1
          <5>2. e[2] \o ss[e[1]] \in Seq(X)
            BY <5>1
          <5>. QED BY <4>1, <5>2
        <4>2. CASE e[1] \notin 1 .. n
          BY <4>2
        <4>. QED BY <4>1, <4>2
      <3>. QED BY <3>1
    <2>3. PICK h \in [0 .. n -> Seq(X)] :
            h[0] = <<>> /\ \A i \in 1 .. n : h[i] = g[<<i, h[i - 1]>>]
      <3>1. <<>> \in Seq(X)
        OBVIOUS
      <3>. HIDE DEF g
      <3>2. \A N \in Nat : \E f \in [0 .. N -> Seq(X)] : Run(f, <<>>, g, N)
        BY <2>2, <3>1, Iteration
      <3>3. PICK f \in [0 .. n -> Seq(X)] : Run(f, <<>>, g, n)
        BY <3>2
      <3>. QED BY <3>3 DEF Run
    <2>4. \A i \in 1 .. n : h[i - 1] \in Seq(X) /\ h[i] = h[i - 1] \o ss[i]
      <3>. TAKE i \in 1 .. n
      <3>1. h[i - 1] \in Seq(X)
        OBVIOUS
      <3>2. <<i, h[i - 1]>> \in Nat \X Seq(X)
        BY <3>1
      <3>3. h[i] = g[<<i, h[i - 1]>>]
        BY <2>3
      <3>. QED BY <3>1, <3>2, <3>3
    <2>. HIDE DEF g
    <2>. DEFINE f0 == [i \in 1 .. n |-> h[i]]
    <2>5. f0 = [i \in 1 .. Len(ss) |-> IF i = 1 THEN ss[i] ELSE f0[i - 1] \o ss[i]]
      <3>1. ASSUME NEW i \in 1 .. n PROVE h[i] = IF i = 1 THEN ss[i] ELSE f0[i - 1] \o ss[i]
        <4>1. CASE i = 1
          <5>0. 1 - 1 = 0
            OBVIOUS
          <5>1. h[1] = <<>> \o ss[1] /\ ss[1] \in Seq(X)
            BY <2>3, <2>4, <4>1, <5>0
          <5>2. <<>> \o ss[1] = ss[1]
            BY <5>1
          <5>. QED BY <4>1, <5>1, <5>2
        <4>2. CASE i # 1
          <5>1. f0[i - 1] = h[i - 1]
            BY <4>2
          <5>. QED BY <2>4, <4>2, <5>1
        <4>. QED BY <4>1, <4>2
      <3>. QED BY <1>1, <3>1
    <2>. HIDE DEF f0
    <2>6. flatten = [i \in 1 .. Len(ss) |-> IF i = 1 THEN ss[i] ELSE flatten[i - 1] \o ss[i]]
      BY <2>5
    <2>. HIDE DEF flatten
    <2>. DEFINE S == {i \in Nat : i + 1 \in 1 .. n =>
                        /\ flatten[i + 1] \in Seq(X)
                        /\ \A x \in X : Holds(flatten[i + 1], x) <=> \E j \in 1 .. i + 1 : Holds(ss[j], x)}
    <2>7. 0 \in S
      <3>1. flatten[1] = ss[1] /\ ss[1] \in Seq(X)
        BY <1>1, <1>3, <2>6
      <3>2. \A j \in 1 .. 1 : j = 1
        OBVIOUS
      <3>. QED BY <3>1, <3>2
    <2>8. ASSUME NEW i \in Nat, i \in S PROVE i + 1 \in S
      <3>. SUFFICES ASSUME i + 2 \in 1 .. n
                    PROVE  /\ flatten[i + 2] \in Seq(X)
                           /\ \A x \in X : Holds(flatten[i + 2], x) <=> \E j \in 1 .. i + 2 : Holds(ss[j], x)
        <4>1. (i + 1) + 1 = i + 2
          OBVIOUS
        <4>. QED BY <4>1
      <3>1. flatten[i + 2] = flatten[i + 1] \o ss[i + 2]
        <4>1. i + 2 \in 1 .. n /\ i + 2 # 1 /\ (i + 2) - 1 = i + 1
          OBVIOUS
        <4>. QED BY <1>1, <2>6, <4>1
      <3>2. flatten[i + 1] \in Seq(X) /\ \A x \in X : Holds(flatten[i + 1], x) <=> \E j \in 1 .. i + 1 : Holds(ss[j], x)
        <4>1. i + 1 \in 1 .. n
          OBVIOUS
        <4>. QED BY <2>8, <4>1
      <3>3. ss[i + 2] \in Seq(X)
        OBVIOUS
      <3>4. ASSUME NEW a \in Seq(X), NEW b \in Seq(X), NEW x PROVE Holds(a \o b, x) <=> Holds(a, x) \/ Holds(b, x)
        <4>1. /\ a \o b \in Seq(X) /\ Len(a \o b) = Len(a) + Len(b) /\ Len(a) \in Nat /\ Len(b) \in Nat
              /\ \A k \in 1 .. Len(a) + Len(b) : (a \o b)[k] = IF k <= Len(a) THEN a[k] ELSE b[k - Len(a)]
          OBVIOUS
        <4>2. ASSUME NEW k \in 1 .. Len(a), a[k] = x PROVE Holds(a \o b, x)
          <5>1. k \in 1 .. Len(a \o b) /\ (a \o b)[k] = x
            BY <4>1, <4>2
          <5>. QED BY <5>1 DEF Holds
        <4>3. ASSUME NEW k \in 1 .. Len(b), b[k] = x PROVE Holds(a \o b, x)
          <5>1. Len(a) + k \in 1 .. Len(a) + Len(b) /\ ~(Len(a) + k <= Len(a)) /\ (Len(a) + k) - Len(a) = k
            BY <4>1
          <5>2. (a \o b)[Len(a) + k] = x
            BY <4>1, <4>3, <5>1
          <5>. QED BY <4>1, <5>1, <5>2 DEF Holds
        <4>4. ASSUME NEW k \in 1 .. Len(a \o b), (a \o b)[k] = x PROVE Holds(a, x) \/ Holds(b, x)
          <5>1. CASE k <= Len(a)
            BY <4>1, <4>4, <5>1 DEF Holds
          <5>2. CASE ~(k <= Len(a))
            <6>1. k - Len(a) \in 1 .. Len(b) /\ b[k - Len(a)] = x
              BY <4>1, <4>4, <5>2
            <6>. QED BY <6>1 DEF Holds
          <5>. QED BY <5>1, <5>2
        <4>. QED BY <4>2, <4>3, <4>4 DEF Holds
      <3>5. flatten[i + 2] \in Seq(X)
        BY <3>1, <3>2, <3>3
      <3>6. ASSUME NEW x \in X PROVE Holds(flatten[i + 2], x) <=> \E j \in 1 .. i + 2 : Holds(ss[j], x)
        <4>1. Holds(flatten[i + 2], x) <=> Holds(flatten[i + 1], x) \/ Holds(ss[i + 2], x)
          BY <3>1, <3>2, <3>3, <3>4
        <4>2. \A j : j \in 1 .. i + 2 <=> j \in 1 .. i + 1 \/ j = i + 2
          OBVIOUS
        <4>. QED BY <3>2, <4>1, <4>2
      <3>. QED BY <3>5, <3>6
    <2>. HIDE DEF S
    <2>9. n - 1 \in S
      <3>1. Nat \subseteq S
        <4>1. \A i \in Nat : i \in S => i + 1 \in S
          BY <2>8
        <4>. QED BY <2>7, <4>1, SetInduction
      <3>. QED BY <1>3, <3>1
    <2>10. /\ flatten[n] \in Seq(X)
           /\ \A x \in X : Holds(flatten[n], x) <=> \E j \in 1 .. n : Holds(ss[j], x)
      <3>1. (n - 1) + 1 = n /\ n \in 1 .. n
        BY <1>3
      <3>. QED BY <2>9, <3>1 DEF S
    <2>11. ASSUME NEW x, x \notin X PROVE ~Holds(flatten[n], x) /\ ~\E j \in 1 .. n : Holds(ss[j], x)
      <3>1. ASSUME NEW q \in Seq(X) PROVE ~Holds(q, x)
        BY <2>11 DEF Holds
      <3>. QED BY <2>10, <3>1
    <2>. QED BY <2>1, <2>10, <2>11
  <1>. QED BY <1>2, <1>3

-----------------------------------------------------------------------------
(* What an alias stands for *)

Tables == [Names -> Seq(Models)]
Parts(a, deeper) ==
    [i \in DOMAIN aliases[a].targets |-> Meant(aliases[a].targets[i], deeper)]
Level(deeper) == [a \in Names |-> Distinct(FlattenSeq(Parts(a, deeper)))]
NextOf(a) == {t \in Names \ Models : Live(t) /\ Leads(a, t)}

LEMMA AliasFields ==
  ASSUME NEW alias \in AliasType
  PROVE  /\ alias.targets \in Seq(STRING) /\ alias.enabled \in BOOLEAN
         /\ alias.strategy \in Strategies /\ alias.pin \in BOOLEAN /\ alias.front \in STRING \cup {None}
         /\ alias.requires \in [Dims -> Nat \cup {Unset}] /\ alias.floors \in [Dims -> Nat]
  BY DEF AliasType

\* One level: the models among the targets and what the enabled aliases among them stand for,
\* each once.
LEMMA LevelFacts ==
  ASSUME TypeOK, NEW deeper \in Tables, NEW a \in Names
  PROVE  LET all == Distinct(FlattenSeq(Parts(a, deeper)))
         IN  /\ all \in Seq(Models)
             /\ \A i, j \in 1 .. Len(all) : all[i] = all[j] => i = j
             /\ \A m \in Models : Holds(all, m) <=>
                    Leads(a, m) \/ \E t \in NextOf(a) : Holds(deeper[t], m)
  <1>. DEFINE ts == aliases[a].targets
              n == Len(ts)
              ps == Parts(a, deeper)
              flat == FlattenSeq(ps)
              all == Distinct(flat)
  <1>1. ts \in Seq(STRING)
    BY AliasFields DEF TypeOK
  <1>2. n \in Nat /\ DOMAIN ts = 1 .. n
    BY <1>1
  <1>3. \A t : Meant(t, deeper) \in Seq(Models)
    <2>. TAKE t
    <2>1. CASE t \in Models
      BY <2>1 DEF Meant
    <2>2. CASE t \notin Models /\ Live(t)
      BY <2>2 DEF Meant, Live, Tables
    <2>3. CASE t \notin Models /\ ~Live(t)
      BY <2>3 DEF Meant
    <2>. QED BY <2>1, <2>2, <2>3
  <1>4. ps \in [1 .. n -> Seq(Models)] /\ \A i \in 1 .. n : ps[i] = Meant(ts[i], deeper)
    BY <1>2, <1>3 DEF Parts
  <1>. HIDE DEF ps
  <1>5. /\ flat \in Seq(Models)
        /\ \A x : Holds(flat, x) <=> \E j \in 1 .. n : Holds(ps[j], x)
    <2>. HIDE DEF n
    <2>. QED BY <1>2, <1>4, FlattenFacts
  <1>. HIDE DEF flat
  <1>6. /\ all \in Seq(Models)
        /\ \A i, j \in 1 .. Len(all) : all[i] = all[j] => i = j
        /\ \A x : Holds(all, x) <=> Holds(flat, x)
    <2>1. /\ all \in Seq(Models)
          /\ \A x : (\E i \in 1 .. Len(all) : all[i] = x) <=> (\E i \in 1 .. Len(flat) : flat[i] = x)
          /\ \A i, j \in 1 .. Len(all) : all[i] = all[j] => i = j
      BY <1>5, DistinctFacts
    <2>. HIDE DEF all
    <2>. QED BY <2>1 DEF Holds
  <1>7. \A b : Leads(a, b) <=> \E i \in 1 .. n : ts[i] = b
    BY DEF Leads, Contains
  <1>8. ASSUME NEW m \in Models, NEW j \in 1 .. n, Holds(ps[j], m)
        PROVE  Leads(a, m) \/ \E t \in NextOf(a) : Holds(deeper[t], m)
    <2>1. Holds(Meant(ts[j], deeper), m)
      BY <1>4, <1>8
    <2>2. CASE ts[j] \in Models
      <3>1. Meant(ts[j], deeper) = <<ts[j]>>
        BY <2>2 DEF Meant
      <3>2. ts[j] = m
        BY <2>1, <3>1 DEF Holds
      <3>. QED BY <1>7, <3>2
    <2>3. CASE ts[j] \notin Models /\ Live(ts[j])
      <3>1. Meant(ts[j], deeper) = deeper[ts[j]]
        BY <2>3 DEF Meant
      <3>2. ts[j] \in NextOf(a)
        BY <1>7, <2>3 DEF NextOf, Live
      <3>. QED BY <2>1, <3>1, <3>2
    <2>4. CASE ts[j] \notin Models /\ ~Live(ts[j])
      <3>1. Meant(ts[j], deeper) = <<>> /\ Len(<<>>) = 0
        BY <2>4 DEF Meant
      <3>. QED BY <2>1, <3>1 DEF Holds
    <2>. QED BY <2>2, <2>3, <2>4
  <1>9. ASSUME NEW m \in Models, Leads(a, m) PROVE \E j \in 1 .. n : Holds(ps[j], m)
    <2>1. PICK j \in 1 .. n : ts[j] = m
      BY <1>7, <1>9
    <2>2. ps[j] = <<m>>
      BY <1>4, <2>1 DEF Meant
    <2>3. Len(<<m>>) = 1 /\ <<m>>[1] = m
      OBVIOUS
    <2>4. Holds(<<m>>, m)
      BY <2>3 DEF Holds
    <2>. QED BY <2>2, <2>4
  <1>10. ASSUME NEW m \in Models, NEW t \in NextOf(a), Holds(deeper[t], m)
         PROVE  \E j \in 1 .. n : Holds(ps[j], m)
    <2>1. PICK j \in 1 .. n : ts[j] = t
      BY <1>7 DEF NextOf
    <2>2. ps[j] = deeper[t]
      BY <1>4, <2>1 DEF Meant, NextOf
    <2>. QED BY <1>10, <2>2
  <1>. HIDE DEF all
  <1>11. \A m \in Models : Holds(all, m) <=> Leads(a, m) \/ \E t \in NextOf(a) : Holds(deeper[t], m)
    BY <1>5, <1>6, <1>8, <1>9, <1>10
  <1>. QED BY <1>6, <1>11 DEF all, flat, ps

\* The recursion of expand is well founded.
LEMMA NestedDef ==
  ASSUME TypeOK
  PROVE  Nested = [depth \in 0 .. MaxDepth + 1 |->
            [a \in Names |-> IF depth > MaxDepth THEN <<>>
                             ELSE Distinct(FlattenSeq(Parts(a, Nested[depth + 1])))]]
  <1>. DEFINE D == MaxDepth + 1
              x0 == [a \in Names |-> <<>>]
              g == [e \in Nat \X Tables |-> Level(e[2])]
              Fine(f) == f = [depth \in 0 .. MaxDepth + 1 |->
                [a \in Names |-> IF depth > MaxDepth THEN <<>>
                                 ELSE Distinct(FlattenSeq(Parts(a, f[depth + 1])))]]
  <1>1. D \in Nat /\ MaxDepth \in Nat
    BY RoutingAssumption
  <1>2. x0 \in Tables
    BY DEF Tables
  <1>3. \A deeper \in Tables : Level(deeper) \in Tables
    BY LevelFacts DEF Level, Tables
  <1>4. g \in [Nat \X Tables -> Tables]
    <2>1. \A e \in Nat \X Tables : Level(e[2]) \in Tables
      BY <1>3
    <2>. QED BY <2>1
  <1>5. \A N \in Nat : \E f \in [0 .. N -> Tables] : Run(f, x0, g, N)
    <2>. HIDE DEF g, x0
    <2>. QED BY <1>2, <1>4, Iteration
  <1>6. PICK h \in [0 .. D -> Tables] : Run(h, x0, g, D)
    BY <1>1, <1>5
  <1>7. \A n \in 1 .. D : h[n] = Level(h[n - 1])
    <2>. TAKE n \in 1 .. D
    <2>1. n - 1 \in 0 .. D /\ n \in Nat
      BY <1>1
    <2>2. <<n, h[n - 1]>> \in Nat \X Tables
      BY <2>1
    <2>3. h[n] = g[<<n, h[n - 1]>>]
      BY <1>6 DEF Run
    <2>. QED BY <2>2, <2>3
  <1>8. h[0] = x0
    BY <1>6 DEF Run
  <1>. HIDE DEF g
  <1>. DEFINE f0 == [depth \in 0 .. D |-> h[D - depth]]
  <1>9. ASSUME NEW depth \in 0 .. D
        PROVE  h[D - depth] = [a \in Names |-> IF depth > MaxDepth THEN <<>>
                                 ELSE Distinct(FlattenSeq(Parts(a, f0[depth + 1])))]
    <2>1. CASE depth > MaxDepth
      <3>1. D - depth = 0
        BY <1>1, <2>1
      <3>. QED BY <1>8, <2>1, <3>1
    <2>2. CASE ~(depth > MaxDepth)
      <3>1. D - depth \in 1 .. D /\ (D - depth) - 1 = D - (depth + 1) /\ depth + 1 \in 0 .. D
        BY <1>1, <2>2
      <3>2. h[D - depth] = Level(h[D - (depth + 1)])
        BY <1>7, <3>1
      <3>3. f0[depth + 1] = h[D - (depth + 1)]
        BY <3>1
      <3>. HIDE DEF f0
      <3>. QED BY <2>2, <3>2, <3>3 DEF Level
    <2>. QED BY <2>1, <2>2
  <1>10. Fine(f0)
    BY <1>9
  <1>. HIDE DEF f0
  <1>11. Fine(CHOOSE f : Fine(f))
    BY <1>10
  <1>12. Nested = CHOOSE f : Fine(f)
    BY DEF Nested, Parts
  <1>13. Fine(Nested)
    <2>. HIDE DEF Fine
    <2>. QED BY <1>11, <1>12
  <1>. QED BY <1>13

LEMMA NestedSteps ==
  ASSUME TypeOK
  PROVE  /\ \A a \in Names : Nested[MaxDepth + 1][a] = <<>>
         /\ \A depth \in 0 .. MaxDepth : Nested[depth] = Level(Nested[depth + 1])
         /\ \A depth \in 0 .. MaxDepth + 1 : Nested[depth] \in Tables
  <1>1. MaxDepth \in Nat
    BY RoutingAssumption
  <1>. DEFINE T(n) == n <= MaxDepth + 1 => Nested[MaxDepth + 1 - n] \in Tables
              S == {n \in Nat : T(n)}
  <1>2. Nested[MaxDepth + 1] = [a \in Names |-> <<>>]
    <2>1. MaxDepth + 1 \in 0 .. MaxDepth + 1 /\ MaxDepth + 1 > MaxDepth
      BY <1>1
    <2>. QED BY <2>1, NestedDef
  <1>3. ASSUME NEW depth \in 0 .. MaxDepth PROVE Nested[depth] = Level(Nested[depth + 1])
    <2>1. depth \in 0 .. MaxDepth + 1 /\ ~(depth > MaxDepth)
      BY <1>1
    <2>. QED BY <2>1, NestedDef DEF Level
  <1>4. 0 \in S
    <2>1. MaxDepth + 1 - 0 = MaxDepth + 1
      BY <1>1
    <2>2. [a \in Names |-> <<>>] \in Tables
      BY DEF Tables
    <2>. QED BY <1>2, <2>1, <2>2
  <1>5. ASSUME NEW n \in Nat, n \in S PROVE n + 1 \in S
    <2>. SUFFICES ASSUME n + 1 <= MaxDepth + 1
                  PROVE  Nested[MaxDepth + 1 - (n + 1)] \in Tables
      OBVIOUS
    <2>. DEFINE d == MaxDepth + 1 - (n + 1)
    <2>1. d \in 0 .. MaxDepth /\ d + 1 = MaxDepth + 1 - n /\ n <= MaxDepth + 1
      BY <1>1
    <2>2. Nested[d + 1] \in Tables
      BY <1>5, <2>1
    <2>3. Nested[d] = Level(Nested[d + 1])
      BY <1>3, <2>1
    <2>. HIDE DEF d
    <2>4. Level(Nested[d + 1]) \in Tables
      BY <2>2, LevelFacts DEF Level, Tables
    <2>. QED BY <2>3, <2>4 DEF d
  <1>. HIDE DEF S
  <1>6. Nat \subseteq S
    <2>1. \A n \in Nat : n \in S => n + 1 \in S
      BY <1>5
    <2>. QED BY <1>4, <2>1, SetInduction
  <1>7. ASSUME NEW depth \in 0 .. MaxDepth + 1 PROVE Nested[depth] \in Tables
    <2>1. MaxDepth + 1 - depth \in Nat /\ MaxDepth + 1 - depth <= MaxDepth + 1
          /\ MaxDepth + 1 - (MaxDepth + 1 - depth) = depth
      BY <1>1
    <2>2. T(MaxDepth + 1 - depth)
      BY <1>6, <2>1 DEF S
    <2>. QED BY <2>1, <2>2
  <1>. QED BY <1>2, <1>3, <1>7

-----------------------------------------------------------------------------
(* What an alias leads to *)

\* The sets within n steps of a, as Reach has them.
Ball(a) ==
    CHOOSE f : f = [n \in 0 .. MaxDepth |-> IF n = 0 THEN {b \in {a} : Live(b)} ELSE Further(f[n - 1])]

LEMMA BallDef ==
  ASSUME NEW a \in Names
  PROVE  /\ Reach(a) = Ball(a)[MaxDepth]
         /\ Ball(a)[0] = {b \in {a} : Live(b)}
         /\ \A n \in 1 .. MaxDepth : Ball(a)[n] = Further(Ball(a)[n - 1])
  <1>. DEFINE x0 == {b \in {a} : Live(b)}
              X == SUBSET Names
              g == [e \in Nat \X X |-> Further(e[2])]
              Fine(f) == f = [n \in 0 .. MaxDepth |-> IF n = 0 THEN {b \in {a} : Live(b)} ELSE Further(f[n - 1])]
  <1>1. MaxDepth \in Nat
    BY RoutingAssumption
  <1>2. x0 \in X /\ g \in [Nat \X X -> X]
    <2>1. \A e \in Nat \X X : Further(e[2]) \in X
      BY DEF Further
    <2>. QED BY <2>1
  <1>3. PICK h \in [0 .. MaxDepth -> X] : Run(h, x0, g, MaxDepth)
    <2>. HIDE DEF g, x0, X
    <2>1. \A N \in Nat : \E f \in [0 .. N -> X] : Run(f, x0, g, N)
      BY <1>2, Iteration
    <2>. QED BY <1>1, <2>1
  <1>4. h[0] = x0
    BY <1>3 DEF Run
  <1>5. \A n \in 1 .. MaxDepth : h[n] = Further(h[n - 1])
    <2>. TAKE n \in 1 .. MaxDepth
    <2>1. n - 1 \in 0 .. MaxDepth /\ n \in Nat
      BY <1>1
    <2>2. <<n, h[n - 1]>> \in Nat \X X
      BY <2>1
    <2>3. h[n] = g[<<n, h[n - 1]>>]
      BY <1>3 DEF Run
    <2>. QED BY <2>2, <2>3
  <1>. HIDE DEF g
  <1>6. Fine(h)
    <2>1. \A n \in 0 .. MaxDepth : h[n] = IF n = 0 THEN {b \in {a} : Live(b)} ELSE Further(h[n - 1])
      BY <1>1, <1>4, <1>5
    <2>. QED BY <2>1
  <1>7. Fine(Ball(a))
    BY <1>6 DEF Ball
  <1>8. Reach(a) = Ball(a)[MaxDepth]
    BY DEF Reach, Ball
  <1>. DEFINE f == Ball(a)
  <1>9. f = [n \in 0 .. MaxDepth |-> IF n = 0 THEN {b \in {a} : Live(b)} ELSE Further(f[n - 1])]
    BY <1>7
  <1>. HIDE DEF f
  <1>10. f[0] = {b \in {a} : Live(b)}
    <2>1. 0 \in 0 .. MaxDepth
      BY <1>1
    <2>. QED BY <1>9, <2>1
  <1>11. ASSUME NEW n \in 1 .. MaxDepth PROVE f[n] = Further(f[n - 1])
    <2>1. n \in 0 .. MaxDepth /\ n # 0
      BY <1>1
    <2>. QED BY <1>9, <2>1
  <1>. QED BY <1>8, <1>10, <1>11 DEF f

\* Enabled aliases only, the first of them a.
LEMMA BallSteps ==
  ASSUME NEW a \in Names, Live(a), NEW n \in 0 .. MaxDepth
  PROVE  a \in Ball(a)[n] /\ (n < MaxDepth => Ball(a)[n] \subseteq Ball(a)[n + 1])
  <1>1. MaxDepth \in Nat
    BY RoutingAssumption
  <1>. DEFINE S == {k \in Nat : k <= MaxDepth => a \in Ball(a)[k]}
  <1>2. ASSUME NEW k \in Nat, k + 1 <= MaxDepth PROVE Ball(a)[k + 1] = Further(Ball(a)[k])
    <2>1. k + 1 \in 1 .. MaxDepth /\ (k + 1) - 1 = k
      BY <1>1, <1>2
    <2>. QED BY <2>1, BallDef
  <1>3. 0 \in S
    BY BallDef
  <1>4. ASSUME NEW k \in Nat, k \in S PROVE k + 1 \in S
    BY <1>1, <1>2, <1>4 DEF Further
  <1>. HIDE DEF S
  <1>5. Nat \subseteq S
    <2>1. \A k \in Nat : k \in S => k + 1 \in S
      BY <1>4
    <2>. QED BY <1>3, <2>1, SetInduction
  <1>6. n \in Nat /\ n \in S
    BY <1>1, <1>5
  <1>. QED BY <1>1, <1>2, <1>6 DEF S, Further

\* A step may as well be put in front.
LEMMA Prepend ==
  ASSUME NEW a \in Names, Live(a), NEW n \in Nat, n + 1 <= MaxDepth
  PROVE  \A b : b \in Ball(a)[n + 1] <=> b = a \/ \E t \in NextOf(a) : b \in Ball(t)[n]
  <1>1. MaxDepth \in Nat
    BY RoutingAssumption
  <1>2. ASSUME NEW c \in Names, NEW k \in Nat, k + 1 <= MaxDepth
        PROVE  Ball(c)[k + 1] = Further(Ball(c)[k])
    <2>1. k + 1 \in 1 .. MaxDepth /\ (k + 1) - 1 = k
      BY <1>1, <1>2
    <2>. QED BY <2>1, BallDef
  <1>3. \A t \in NextOf(a) : t \in Names /\ Live(t)
    BY DEF NextOf
  <1>. DEFINE P(k) == \A b : b \in Ball(a)[k + 1] <=> b = a \/ \E t \in NextOf(a) : b \in Ball(t)[k]
              S == {k \in Nat : k + 1 <= MaxDepth => P(k)}
  <1>4. 0 \in S
    <2>. SUFFICES ASSUME 1 <= MaxDepth, NEW b
                  PROVE  b \in Ball(a)[0 + 1] <=> b = a \/ \E t \in NextOf(a) : b \in Ball(t)[0]
      OBVIOUS
    <2>1. Ball(a)[0 + 1] = Further(Ball(a)[0]) /\ Ball(a)[0] = {a}
      BY <1>2, BallDef
    <2>2. \A t \in NextOf(a) : Ball(t)[0] = {t}
      BY <1>3, BallDef
    <2>. QED BY <2>1, <2>2 DEF Further, NextOf
  <1>5. ASSUME NEW k \in Nat, k \in S PROVE k + 1 \in S
    <2>. SUFFICES ASSUME (k + 1) + 1 <= MaxDepth, NEW b
                  PROVE  b \in Ball(a)[(k + 1) + 1] <=> b = a \/ \E t \in NextOf(a) : b \in Ball(t)[k + 1]
      OBVIOUS
    <2>1. k + 1 \in Nat /\ k + 1 <= MaxDepth /\ k \in 0 .. MaxDepth /\ k < MaxDepth /\ k + 1 \in 0 .. MaxDepth
      BY <1>1
    <2>2. P(k)
      BY <1>5, <2>1
    <2>3. Ball(a)[(k + 1) + 1] = Further(Ball(a)[k + 1])
      BY <1>2, <2>1
    <2>4. \A t \in NextOf(a) : Ball(t)[k + 1] = Further(Ball(t)[k])
      BY <1>2, <1>3, <2>1
    <2>5. \A t \in NextOf(a) : t \in Ball(t)[k + 1] /\ Ball(t)[k] \subseteq Ball(t)[k + 1]
      BY <1>3, <2>1, BallSteps
    <2>6. a \in Ball(a)[k + 1]
      BY <2>1, BallSteps
    <2>7. ASSUME b \in Ball(a)[(k + 1) + 1], b # a PROVE \E t \in NextOf(a) : b \in Ball(t)[k + 1]
      <3>1. CASE b \in Ball(a)[k + 1]
        BY <2>2, <2>5, <2>7, <3>1
      <3>2. CASE b \notin Ball(a)[k + 1]
        <4>1. b \in Names \ Models /\ Live(b)
          BY <2>3, <2>7, <3>2 DEF Further
        <4>2. PICK c \in Ball(a)[k + 1] : Leads(c, b)
          BY <2>3, <2>7, <3>2 DEF Further
        <4>3. CASE c = a
          <5>1. b \in NextOf(a)
            BY <4>1, <4>2, <4>3 DEF NextOf
          <5>. QED BY <2>5, <5>1
        <4>4. CASE c # a
          <5>1. PICK t \in NextOf(a) : c \in Ball(t)[k]
            BY <2>2, <4>4
          <5>2. b \in Further(Ball(t)[k])
            BY <4>1, <4>2, <5>1 DEF Further
          <5>. QED BY <2>4, <5>2
        <4>. QED BY <4>3, <4>4
      <3>. QED BY <3>1, <3>2
    <2>8. Ball(a)[k + 1] \subseteq Ball(a)[(k + 1) + 1]
      BY <2>3 DEF Further
    <2>9. ASSUME NEW t \in NextOf(a), b \in Ball(t)[k + 1] PROVE b \in Ball(a)[(k + 1) + 1]
      <3>1. CASE b \in Ball(t)[k]
        BY <2>2, <2>8, <3>1
      <3>2. CASE b \notin Ball(t)[k]
        <4>1. b \in Names \ Models /\ Live(b)
          BY <2>4, <2>9, <3>2 DEF Further
        <4>2. PICK c \in Ball(t)[k] : Leads(c, b)
          BY <2>4, <2>9, <3>2 DEF Further
        <4>3. c \in Ball(a)[k + 1]
          BY <2>2, <4>2
        <4>. QED BY <2>3, <4>1, <4>2, <4>3 DEF Further
      <3>. QED BY <3>1, <3>2
    <2>. QED BY <2>6, <2>7, <2>8, <2>9
  <1>. HIDE DEF S
  <1>6. Nat \subseteq S
    <2>1. \A k \in Nat : k \in S => k + 1 \in S
      BY <1>5
    <2>. QED BY <1>4, <2>1, SetInduction
  <1>7. n \in S
    BY <1>6
  <1>. QED BY <1>7 DEF S

LEMMA NestedIsReach ==
  ASSUME TypeOK, NEW a \in Names, Live(a), NEW m \in Models
  PROVE  Holds(Nested[0][a], m) <=> \E b \in Reach(a) : Leads(b, m)
  <1>1. MaxDepth \in Nat
    BY RoutingAssumption
  <1>. DEFINE P(k) == \A c \in Names : Live(c) =>
                (Holds(Nested[MaxDepth - k][c], m) <=> \E b \in Ball(c)[k] : Leads(b, m))
              S == {k \in Nat : k <= MaxDepth => P(k)}
  <1>2. ASSUME NEW d \in 0 .. MaxDepth, NEW c \in Names
        PROVE  Holds(Nested[d][c], m) <=> Leads(c, m) \/ \E t \in NextOf(c) : Holds(Nested[d + 1][t], m)
    <2>1. Nested[d] = Level(Nested[d + 1]) /\ Nested[d + 1] \in Tables
      <3>1. d + 1 \in 0 .. MaxDepth + 1
        BY <1>1
      <3>. QED BY <3>1, NestedSteps
    <2>2. Nested[d][c] = Distinct(FlattenSeq(Parts(c, Nested[d + 1])))
      BY <2>1 DEF Level
    <2>. QED BY <2>1, <2>2, LevelFacts
  <1>3. 0 \in S
    <2>. SUFFICES ASSUME NEW c \in Names, Live(c)
                  PROVE  Holds(Nested[MaxDepth - 0][c], m) <=> \E b \in Ball(c)[0] : Leads(b, m)
      OBVIOUS
    <2>1. MaxDepth - 0 = MaxDepth /\ MaxDepth \in 0 .. MaxDepth
      BY <1>1
    <2>2. \A t \in NextOf(c) : ~Holds(Nested[MaxDepth + 1][t], m)
      <3>1. Len(<<>>) = 0
        OBVIOUS
      <3>. QED BY <3>1, NestedSteps DEF Holds, NextOf
    <2>3. Ball(c)[0] = {c}
      BY BallDef
    <2>. QED BY <1>2, <2>1, <2>2, <2>3
  <1>4. ASSUME NEW k \in Nat, k \in S PROVE k + 1 \in S
    <2>. SUFFICES ASSUME k + 1 <= MaxDepth, NEW c \in Names, Live(c)
                  PROVE  Holds(Nested[MaxDepth - (k + 1)][c], m) <=> \E b \in Ball(c)[k + 1] : Leads(b, m)
      OBVIOUS
    <2>1. MaxDepth - (k + 1) \in 0 .. MaxDepth /\ (MaxDepth - (k + 1)) + 1 = MaxDepth - k /\ k <= MaxDepth
      BY <1>1
    <2>2. P(k)
      BY <1>4, <2>1
    <2>3. Holds(Nested[MaxDepth - (k + 1)][c], m)
            <=> Leads(c, m) \/ \E t \in NextOf(c) : Holds(Nested[MaxDepth - k][t], m)
      BY <1>2, <2>1
    <2>4. \A t \in NextOf(c) : Holds(Nested[MaxDepth - k][t], m) <=> \E b \in Ball(t)[k] : Leads(b, m)
      BY <2>2 DEF NextOf
    <2>5. \A b : b \in Ball(c)[k + 1] <=> b = c \/ \E t \in NextOf(c) : b \in Ball(t)[k]
      BY Prepend
    <2>. QED BY <2>3, <2>4, <2>5
  <1>. HIDE DEF S
  <1>5. Nat \subseteq S
    <2>1. \A k \in Nat : k \in S => k + 1 \in S
      BY <1>4
    <2>. QED BY <1>3, <2>1, SetInduction
  <1>6. P(MaxDepth)
    BY <1>1, <1>5 DEF S
  <1>7. MaxDepth - MaxDepth = 0
    BY <1>1
  <1>. QED BY <1>6, <1>7, BallDef

\* Every alias stands for distinct models.
LEMMA ExpandFacts ==
  ASSUME TypeOK, NEW a \in Names
  PROVE  /\ Expand(a) \in Seq(Models)
         /\ \A i, j \in 1 .. Len(Expand(a)) : Expand(a)[i] = Expand(a)[j] => i = j
  <1>1. CASE Live(a)
    <2>1. MaxDepth \in Nat /\ 0 \in 0 .. MaxDepth /\ 0 + 1 = 1 /\ 1 \in 0 .. MaxDepth + 1
      BY RoutingAssumption
    <2>2. Nested[0] = Level(Nested[1]) /\ Nested[1] \in Tables
      BY <2>1, NestedSteps
    <2>3. Expand(a) = Distinct(FlattenSeq(Parts(a, Nested[1])))
      BY <1>1, <2>2 DEF Expand, Level
    <2>. QED BY <2>2, <2>3, LevelFacts
  <1>2. CASE ~Live(a)
    <2>1. Expand(a) = <<>> /\ Len(<<>>) = 0 /\ <<>> \in Seq(Models)
      BY <1>2 DEF Expand
    <2>. QED BY <2>1
  <1>. QED BY <1>1, <1>2

LEMMA ExpandReaches == ASSUME TypeOK PROVE ExpandIsReach
  <1>. SUFFICES ASSUME NEW a \in Names
                PROVE  /\ Range(Expand(a)) = {m \in Models : \E b \in Reach(a) : Leads(b, m)}
                       /\ IsInjective(Expand(a))
    BY DEF ExpandIsReach
  <1>. DEFINE q == Expand(a)
  <1>1. /\ q \in Seq(Models) /\ DOMAIN q = 1 .. Len(q)
        /\ \A i, j \in 1 .. Len(q) : q[i] = q[j] => i = j
    BY ExpandFacts
  <1>2. \A m \in Models : Holds(q, m) <=> \E b \in Reach(a) : Leads(b, m)
    <2>1. CASE Live(a)
      BY <2>1, NestedIsReach DEF Expand
    <2>2. CASE ~Live(a)
      <3>1. q = <<>> /\ Len(<<>>) = 0
        BY <2>2 DEF Expand
      <3>2. Reach(a) = {}
        <4>1. MaxDepth \in Nat
          BY RoutingAssumption
        <4>. DEFINE S == {k \in Nat : k <= MaxDepth => Ball(a)[k] = {}}
        <4>2. 0 \in S
          BY <2>2, BallDef
        <4>3. ASSUME NEW k \in Nat, k \in S PROVE k + 1 \in S
          <5>. SUFFICES ASSUME k + 1 <= MaxDepth PROVE Ball(a)[k + 1] = {}
            OBVIOUS
          <5>1. k + 1 \in 1 .. MaxDepth /\ (k + 1) - 1 = k /\ k <= MaxDepth
            BY <4>1
          <5>2. Ball(a)[k + 1] = Further(Ball(a)[k])
            BY <5>1, BallDef
          <5>. QED BY <4>3, <5>1, <5>2 DEF Further
        <4>. HIDE DEF S
        <4>4. Nat \subseteq S
          <5>1. \A k \in Nat : k \in S => k + 1 \in S
            BY <4>3
          <5>. QED BY <4>2, <5>1, SetInduction
        <4>. QED BY <4>1, <4>4, BallDef DEF S
      <3>. QED BY <3>1, <3>2 DEF Holds
    <2>. QED BY <2>1, <2>2
  <1>. HIDE DEF q
  <1>3. Range(q) = {m \in Models : Holds(q, m)}
    BY <1>1 DEF Range, Holds
  <1>. QED BY <1>1, <1>2, <1>3 DEF q, IsInjective

-----------------------------------------------------------------------------
(* The order of the candidates *)

\* s holds every element of S once, and nothing else.
Lists(s, S) ==
    /\ s \in Seq(S)
    /\ \A d \in S : \E i \in 1 .. Len(s) : s[i] = d
    /\ \A i, j \in 1 .. Len(s) : s[i] = s[j] => i = j

LEMMA DeploymentFacts ==
  ASSUME NEW d \in Deployments
  PROVE  /\ d \in Nat \ {0} /\ Caps[d] \in [Dims -> Nat] /\ Asks[d] \in [Dims -> Nat]
         /\ Priority[d] \in Int /\ Window[d] \in Nat
  BY RoutingAssumption

LEMMA MinimumsType ==
  ASSUME NEW r \in Requests, NEW alias \in AliasType
  PROVE  /\ Minimums(r, alias) \in [Dims -> Nat \cup {Unset}]
         /\ r.image /\ alias.requires["vision"] # 0 => Minimums(r, alias)["vision"] > 0
  <1>1. alias.requires \in [Dims -> Nat \cup {Unset}]
    BY AliasFields
  <1>2. "vision" \in Dims
    BY DEF Dims
  <1>. QED BY <1>1, <1>2 DEF Minimums, Unset

LEMMA WeightsType ==
  ASSUME NEW r \in Requests, NEW alias \in AliasType
  PROVE  Weights(r, alias) \in [Dims -> Int]
  <1>1. alias.floors \in [Dims -> Nat]
    BY AliasFields
  <1>2. \A n \in Dims : Baseline[n] \in Int
    BY DEF Dims, Baseline
  <1>. DEFINE raised(n) == IF \/ n = "reasoning" /\ (r.image \/ r.thinks)
                              \/ n = "long_context" /\ r.tokens >= 24 THEN 50 ELSE Baseline[n]
              gated(n) == IF Minimums(r, alias)[n] # Unset THEN Greater(raised(n), 80) ELSE raised(n)
  <1>3. \A n \in Dims : raised(n) \in Int
    BY <1>2
  <1>4. \A n \in Dims : gated(n) \in Int
    <2>. HIDE DEF raised
    <2>. QED BY <1>3 DEF Greater
  <1>5. Weights(r, alias) = [n \in Dims |-> Greater(gated(n), 10 * alias.floors[n])]
    BY DEF Weights
  <1>. HIDE DEF raised, gated
  <1>6. \A n \in Dims : Greater(gated(n), 10 * alias.floors[n]) \in Int
    <2>1. \A n \in Dims : 10 * alias.floors[n] \in Int
      BY <1>1
    <2>. QED BY <1>4, <2>1 DEF Greater
  <1>. QED BY <1>5, <1>6

LEMMA TotalType ==
  ASSUME NEW f \in [Dims -> Int]
  PROVE  Total(f) \in Int
  <1>1. \A n \in {"reasoning", "tool_use", "long_context", "vision", "speed", "cost"} : f[n] \in Int
    BY DEF Dims
  <1>2. /\ f.reasoning \in Int /\ f.tool_use \in Int /\ f.long_context \in Int
        /\ f.vision \in Int /\ f.speed \in Int /\ f.cost \in Int
    BY <1>1
  <1>. QED BY <1>2 DEF Total

LEMMA ScoreType ==
  ASSUME NEW d \in Deployments, NEW w \in [Dims -> Int]
  PROVE  Score(d, w) \in Int
  <1>1. \A n \in Dims : w[n] * Caps[d][n] \in Int
    <2>. TAKE n \in Dims
    <2>1. w[n] \in Int /\ Caps[d][n] \in Int
      BY DeploymentFacts
    <2>. QED BY <2>1
  <1>2. Total([n \in Dims |-> w[n] * Caps[d][n]]) \in Int
    BY <1>1, TotalType
  <1>3. Total(w) \in Int
    BY TotalType
  <1>4. Bonus(d) \in Int
    BY DeploymentFacts DEF Bonus
  <1>5. Bonus(d) * 10 * Total(w) \in Int
    BY <1>3, <1>4
  <1>. QED BY <1>2, <1>5 DEF Score

\* The keys that a strategy sorts S by are tuples of one length, each ending with its deployment.
LEMMA KeyFacts ==
  ASSUME NEW r \in Requests, NEW alias \in AliasType, NEW strategy, NEW ids \in Seq(Models),
         NEW S \in SUBSET Deployments, \A d \in S : \E i \in DOMAIN ids : ids[i] = ModelOf(d)
  PROVE  LET key(d) == Key(d, alias, strategy, Score(d, Weights(r, alias)), Index(d, ids))
         IN  \E n \in {3, 4} : \A d \in S : key(d) \in [1 .. n -> Int] /\ Len(key(d)) = n /\ key(d)[n] = d
  <1>. DEFINE key(d) == Key(d, alias, strategy, Score(d, Weights(r, alias)), Index(d, ids))
              n == IF strategy \in {"priority", "cost", "speed", "round_robin"} THEN 3 ELSE 4
  <1>1. ASSUME NEW d \in S PROVE key(d) \in [1 .. n -> Int] /\ Len(key(d)) = n /\ key(d)[n] = d
    <2>. DEFINE score == Score(d, Weights(r, alias))
                place == Index(d, ids)
    <2>1. score \in Int
      BY WeightsType, ScoreType
    <2>2. place \in Int
      <3>1. place \in DOMAIN ids
        BY DEF Index
      <3>. QED BY <3>1
    <2>3. d \in Int /\ Priority[d] \in Int
      BY DeploymentFacts
    <2>4. Caps[d].cost \in Int /\ Caps[d].speed \in Int
      <3>1. \A m \in {"cost", "speed"} : Caps[d][m] \in Int
        BY DeploymentFacts DEF Dims
      <3>. QED BY <3>1
    <2>. HIDE DEF score, place
    <2>5. key(d) = Key(d, alias, strategy, score, place)
      BY DEF score, place
    <2>6. CASE strategy = "priority"
      <3>1. key(d) = <<place, -Priority[d], d>> /\ n = 3
        BY <2>5, <2>6 DEF Key
      <3>. QED BY <2>2, <2>3, <3>1
    <2>7. CASE strategy = "cost"
      <3>1. key(d) = <<-Caps[d].cost, -score, d>> /\ n = 3
        BY <2>5, <2>7 DEF Key
      <3>. QED BY <2>1, <2>3, <2>4, <3>1
    <2>8. CASE strategy = "speed"
      <3>1. key(d) = <<-Caps[d].speed, -score, d>> /\ n = 3
        BY <2>5, <2>8 DEF Key
      <3>. QED BY <2>1, <2>3, <2>4, <3>1
    <2>9. CASE strategy = "round_robin"
      <3>1. key(d) = <<-Priority[d], -score, d>> /\ n = 3
        BY <2>5, <2>9 DEF Key
      <3>. QED BY <2>1, <2>3, <3>1
    <2>10. CASE strategy \notin {"priority", "cost", "speed", "round_robin"}
      <3>1. key(d) = <<IF alias.pin /\ place > 1 THEN 1 ELSE 0, -score, -Priority[d], d>> /\ n = 4
        BY <2>5, <2>10 DEF Key
      <3>. QED BY <2>1, <2>3, <3>1
    <2>. QED BY <2>6, <2>7, <2>8, <2>9, <2>10
  <1>2. n \in {3, 4}
    OBVIOUS
  <1>. HIDE DEF n, key
  <1>. QED BY <1>1, <1>2 DEF key

\* Sorting lists the candidates, by their keys.
LEMMA SortedFacts ==
  ASSUME NEW r \in Requests, NEW alias \in AliasType, NEW strategy, NEW ids \in Seq(Models),
         NEW S \in SUBSET Deployments, \A d \in S : \E i \in DOMAIN ids : ids[i] = ModelOf(d)
  PROVE  LET key(d) == Key(d, alias, strategy, Score(d, Weights(r, alias)), Index(d, ids))
             s == Sorted(S, r, alias, strategy, ids)
         IN  /\ Lists(s, S)
             /\ \A i, j \in 1 .. Len(s) : i < j => Lesser(key(s[i]), key(s[j]))
  <1>. DEFINE key(d) == Key(d, alias, strategy, Score(d, Weights(r, alias)), Index(d, ids))
              s == Sorted(S, r, alias, strategy, ids)
              K == {key(d) : d \in S}
              N == Cardinality(K)
              keys == Ascending(K)
  <1>1. PICK n \in {3, 4} : \A d \in S : key(d) \in [1 .. n -> Int] /\ Len(key(d)) = n /\ key(d)[n] = d
    <2>1. \E n \in {3, 4} : \A d \in S : key(d) \in [1 .. n -> Int] /\ Len(key(d)) = n /\ key(d)[n] = d
      BY KeyFacts
    <2>. QED BY <2>1
  <1>2. s = [i \in DOMAIN keys |-> keys[i][Len(keys[i])]]
    BY DEF Sorted
  <1>. HIDE DEF key, s
  <1>3. IsFiniteSet(K)
    <2>1. IsFiniteSet(S)
      BY RoutingAssumption, FS_Subset
    <2>. DEFINE f == [d \in S |-> key(d)]
    <2>2. f \in Surjection(S, K)
      BY DEF Surjection
    <2>. QED BY <2>1, <2>2, FS_Surjection
  <1>4. Ordered(K)
    <2>1. K \in SUBSET [1 .. n -> Int] /\ n \in Nat
      BY <1>1
    <2>. QED BY <2>1, TuplesAreOrdered
  <1>5. /\ N \in Nat /\ keys \in [1 .. N -> K]
        /\ \A i, j \in 1 .. N : i < j => Lesser(keys[i], keys[j])
        /\ \A k \in K : \E i \in 1 .. N : keys[i] = k
    <2>. HIDE DEF K
    <2>. QED BY <1>3, <1>4, Sorting
  <1>. HIDE DEF keys, N
  <1>6. \A i \in 1 .. N : s[i] \in S /\ keys[i] = key(s[i])
    <2>. TAKE i \in 1 .. N
    <2>1. PICK d \in S : keys[i] = key(d)
      BY <1>5
    <2>2. s[i] = key(d)[Len(key(d))]
      BY <1>2, <1>5, <2>1
    <2>3. s[i] = d
      BY <1>1, <2>2
    <2>. QED BY <2>1, <2>3
  <1>7. s \in Seq(S) /\ Len(s) = N
    <2>1. s \in [1 .. N -> S]
      BY <1>2, <1>5, <1>6
    <2>. QED BY <1>5, <2>1
  <1>8. ASSUME NEW d \in S PROVE \E i \in 1 .. N : s[i] = d
    <2>1. PICK i \in 1 .. N : keys[i] = key(d)
      BY <1>5
    <2>2. key(s[i]) = key(d) /\ s[i] \in S
      BY <1>6, <2>1
    <2>3. s[i] = d
      BY <1>1, <2>2
    <2>. QED BY <2>3
  <1>9. \A i, j \in 1 .. N : i < j => Lesser(key(s[i]), key(s[j]))
    BY <1>5, <1>6
  <1>10. ASSUME NEW i \in 1 .. N, NEW j \in 1 .. N, s[i] = s[j] PROVE i = j
    <2>1. ~Lesser(keys[i], keys[j]) /\ ~Lesser(keys[j], keys[i])
      BY <1>4, <1>5, <1>6, <1>10 DEF Ordered
    <2>2. ~(i < j) /\ ~(j < i)
      BY <1>5, <2>1
    <2>. QED BY <1>5, <2>2
  <1>. QED BY <1>7, <1>8, <1>9, <1>10 DEF Lists, key, s

LEMMA RotatedLists ==
  ASSUME NEW S, NEW s, Lists(s, S), NEW n \in 0 .. Len(s)
  PROVE  Lists(Rotated(s, n), S) /\ Len(Rotated(s, n)) = Len(s)
  <1>. DEFINE L == Len(s)
              a == SubSeq(s, n + 1, Len(s))
              b == SubSeq(s, 1, n)
              t == Rotated(s, n)
  <1>1. s \in Seq(S) /\ L \in Nat /\ n \in Nat /\ n <= L /\ \A i \in 1 .. L : s[i] \in S
    BY DEF Lists
  <1>2. a \in Seq(S) /\ Len(a) = L - n /\ \A i \in 1 .. L - n : a[i] = s[n + i]
    BY <1>1
  <1>3. b \in Seq(S) /\ Len(b) = n /\ \A i \in 1 .. n : b[i] = s[i]
    BY <1>1
  <1>4. t = a \o b
    BY DEF Rotated
  <1>. HIDE DEF a, b, L, t
  <1>5. /\ t \in Seq(S) /\ Len(t) = L
        /\ \A i \in 1 .. L : t[i] = IF i <= L - n THEN a[i] ELSE b[i - (L - n)]
    <2>1. /\ a \o b \in Seq(S) /\ Len(a \o b) = Len(a) + Len(b)
          /\ \A i \in 1 .. Len(a) + Len(b) : (a \o b)[i] = IF i <= Len(a) THEN a[i] ELSE b[i - Len(a)]
      BY <1>2, <1>3, ConcatProperties
    <2>2. Len(a) = L - n /\ Len(b) = n /\ (L - n) + n = L
      BY <1>1, <1>2, <1>3
    <2>. QED BY <1>4, <2>1, <2>2
  <1>6. ASSUME NEW i \in 1 .. L PROVE t[i] = IF i <= L - n THEN s[n + i] ELSE s[i - (L - n)]
    <2>1. t[i] = IF i <= L - n THEN a[i] ELSE b[i - (L - n)]
      BY <1>5
    <2>2. CASE i <= L - n
      BY <1>1, <1>2, <2>1, <2>2
    <2>3. CASE ~(i <= L - n)
      <3>1. i - (L - n) \in 1 .. n
        BY <1>1, <2>3
      <3>. QED BY <1>2, <1>3, <2>1, <2>3, <3>1
    <2>. QED BY <2>2, <2>3
  <1>. DEFINE from(i) == IF i <= L - n THEN n + i ELSE i - (L - n)
  <1>7. \A i \in 1 .. L : t[i] = s[from(i)] /\ from(i) \in 1 .. L
    BY <1>1, <1>6
  <1>8. \A i, j \in 1 .. L : from(i) = from(j) => i = j
    BY <1>1
  <1>9. \A k \in 1 .. L : \E i \in 1 .. L : from(i) = k
    <2>. TAKE k \in 1 .. L
    <2>1. CASE k <= n
      <3>1. k + (L - n) \in 1 .. L /\ from(k + (L - n)) = k
        BY <1>1, <2>1
      <3>. QED BY <3>1
    <2>2. CASE ~(k <= n)
      <3>1. k - n \in 1 .. L /\ from(k - n) = k
        BY <1>1, <2>2
      <3>. QED BY <3>1
    <2>. QED BY <2>1, <2>2
  <1>. HIDE DEF from
  <1>10. ASSUME NEW i \in 1 .. L, NEW j \in 1 .. L, t[i] = t[j] PROVE i = j
    <2>1. \A k, l \in 1 .. L : s[k] = s[l] => k = l
      BY DEF Lists, L
    <2>2. from(i) = from(j)
      BY <1>7, <1>10, <2>1
    <2>. QED BY <1>8, <2>2
  <1>11. \A d \in S : \E i \in 1 .. L : t[i] = d
    <2>. TAKE d \in S
    <2>1. PICK k \in 1 .. L : s[k] = d
      BY DEF Lists, L
    <2>2. PICK i \in 1 .. L : from(i) = k
      BY <1>9
    <2>. QED BY <1>7, <2>1, <2>2
  <1>. QED BY <1>5, <1>10, <1>11 DEF Lists, t, L

LEMMA AheadLists ==
  ASSUME NEW S, NEW s, Lists(s, S), NEW i \in 1 .. Len(s), NEW at \in 1 .. i
  PROVE  Lists(Ahead(s, i, at), S) /\ Len(Ahead(s, i, at)) = Len(s)
  <1>. DEFINE L == Len(s)
              t == Ahead(s, i, at)
              from(j) == IF j = at THEN i ELSE IF at < j /\ j <= i THEN j - 1 ELSE j
  <1>1. s \in Seq(S) /\ L \in Nat /\ DOMAIN s = 1 .. L /\ \A k \in 1 .. L : s[k] \in S
    BY DEF Lists
  <1>. HIDE DEF L
  <1>2. i \in 1 .. L /\ at \in 1 .. L /\ at <= i
    BY <1>1 DEF L
  <1>3. \A j \in 1 .. L : from(j) \in 1 .. L
    BY <1>1, <1>2
  <1>4. t = [j \in 1 .. L |-> s[from(j)]]
    BY <1>1 DEF Ahead
  <1>5. \A j, k \in 1 .. L : from(j) = from(k) => j = k
    BY <1>2
  <1>6. \A k \in 1 .. L : \E j \in 1 .. L : from(j) = k
    <2>. TAKE k \in 1 .. L
    <2>1. CASE k = i
      <3>1. from(at) = k
        BY <2>1
      <3>. QED BY <1>2, <3>1
    <2>2. CASE at <= k /\ k < i
      <3>1. from(k + 1) = k /\ k + 1 \in 1 .. L
        BY <1>1, <1>2, <2>2
      <3>. QED BY <3>1
    <2>3. CASE k < at \/ i < k
      <3>1. from(k) = k
        BY <1>2, <2>3
      <3>. QED BY <3>1
    <2>. QED BY <1>2, <2>1, <2>2, <2>3
  <1>. HIDE DEF from, t
  <1>7. t \in Seq(S) /\ Len(t) = L
    <2>1. t \in [1 .. L -> S]
      BY <1>1, <1>3, <1>4
    <2>. QED BY <1>1, <2>1
  <1>8. \A j \in 1 .. L : t[j] = s[from(j)]
    BY <1>4
  <1>9. ASSUME NEW j \in 1 .. L, NEW k \in 1 .. L, t[j] = t[k] PROVE j = k
    <2>1. \A m, l \in 1 .. L : s[m] = s[l] => m = l
      BY DEF Lists, L
    <2>2. from(j) = from(k)
      BY <1>3, <1>8, <1>9, <2>1
    <2>. QED BY <1>5, <2>2
  <1>10. \A d \in S : \E j \in 1 .. L : t[j] = d
    <2>. TAKE d \in S
    <2>1. PICK k \in 1 .. L : s[k] = d
      BY DEF Lists, L
    <2>2. PICK j \in 1 .. L : from(j) = k
      BY <1>6
    <2>. QED BY <1>8, <2>1, <2>2
  <1>. QED BY <1>7, <1>9, <1>10 DEF Lists, t, L

LEMMA PromotedLists ==
  ASSUME NEW S, NEW s, Lists(s, S), NEW alias
  PROVE  /\ Lists(Promoted(s, alias), S) /\ Len(Promoted(s, alias)) = Len(s)
         /\ FrontAt(s, alias) # {} =>
                /\ Promoted(s, alias) # <<>>
                /\ ModelOf(Promoted(s, alias)[1]) = alias.front
                /\ Promoted(s, alias)[1] \notin parked
  <1>1. s \in Seq(S) /\ Len(s) \in Nat /\ DOMAIN s = 1 .. Len(s)
    BY DEF Lists
  <1>2. CASE FrontAt(s, alias) = {}
    BY <1>2 DEF Promoted
  <1>3. CASE FrontAt(s, alias) # {}
    <2>. DEFINE i == Least(FrontAt(s, alias))
    <2>1. FrontAt(s, alias) \in SUBSET Nat
      BY <1>1 DEF FrontAt
    <2>2. i \in FrontAt(s, alias)
      BY <1>3, <2>1, LeastIsLeast
    <2>. HIDE DEF i
    <2>3. i \in 1 .. Len(s) /\ ModelOf(s[i]) = alias.front /\ s[i] \notin parked
      BY <1>1, <2>2 DEF FrontAt
    <2>4. 1 \in 1 .. i
      BY <1>1, <2>3
    <2>5. Promoted(s, alias) = Ahead(s, i, 1)
      BY <1>3 DEF Promoted, i
    <2>6. Lists(Ahead(s, i, 1), S) /\ Len(Ahead(s, i, 1)) = Len(s)
      BY <2>3, <2>4, AheadLists
    <2>7. Ahead(s, i, 1)[1] = s[i]
      <3>1. 1 \in DOMAIN s
        BY <1>1, <2>3
      <3>. QED BY <3>1 DEF Ahead
    <2>8. Ahead(s, i, 1) # <<>>
      <3>1. Len(s) # 0 /\ Len(<<>>) = 0
        BY <1>1, <2>3
      <3>. QED BY <2>6, <3>1
    <2>. QED BY <2>3, <2>5, <2>6, <2>7, <2>8
  <1>. QED BY <1>2, <1>3

\* The session's deployment goes ahead, behind a pinned first.
LEMMA AttemptsLists ==
  ASSUME NEW S, NEW p, Lists(p.order, S)
  PROVE  /\ Lists(Attempts(p), S) /\ Len(Attempts(p)) = Len(p.order)
         /\ Pins(p.name) /\ p.order # <<>> => Attempts(p)[1] = p.order[1]
         /\ ~Pins(p.name) /\ p.order # <<>> /\ Attempts(p)[1] # p.order[1] =>
                Attempts(p)[1] = sticky /\ Len(p.order) > 1 /\ Attempts(p)[2] = p.order[1]
  <1>. DEFINE at == IF Pins(p.name) THEN 2 ELSE 1
              s == p.order
              here == {i \in DOMAIN s : i > at /\ s[i] = sticky /\ sticky \notin parked}
              i == Least(here)
  <1>1. s \in Seq(S) /\ Len(s) \in Nat /\ DOMAIN s = 1 .. Len(s)
    BY DEF Lists
  <1>2. Attempts(p) = IF here = {} THEN s ELSE Ahead(s, i, at)
    BY DEF Attempts
  <1>3. at \in {1, 2} /\ (Pins(p.name) => at = 2) /\ (~Pins(p.name) => at = 1)
    OBVIOUS
  <1>. HIDE DEF s, at
  <1>4. CASE here = {}
    <2>. HIDE DEF here
    <2>. QED BY <1>2, <1>4 DEF s
  <1>5. CASE here # {}
    <2>1. here \in SUBSET Nat
      BY <1>1
    <2>2. i \in here
      BY <1>5, <2>1, LeastIsLeast
    <2>. HIDE DEF i
    <2>8. i > at /\ s[i] = sticky
      BY <2>2
    <2>3. i \in 1 .. Len(s) /\ at \in 1 .. i
      BY <1>1, <1>3, <2>2
    <2>4. Attempts(p) = Ahead(s, i, at)
      BY <1>2, <1>5
    <2>. HIDE DEF here
    <2>5. Lists(Ahead(s, i, at), S) /\ Len(Ahead(s, i, at)) = Len(s)
      BY <2>3, AheadLists DEF s
    <2>6. Pins(p.name) => Ahead(s, i, at)[1] = s[1]
      <3>1. 1 \in DOMAIN s
        BY <1>1, <2>3
      <3>. QED BY <1>3, <3>1 DEF Ahead
    <2>7. ~Pins(p.name) => /\ Ahead(s, i, at)[1] = sticky /\ Len(s) > 1
                           /\ Ahead(s, i, at)[2] = s[1]
      <3>. SUFFICES ASSUME ~Pins(p.name)
                    PROVE  Ahead(s, i, 1)[1] = sticky /\ Len(s) > 1 /\ Ahead(s, i, 1)[2] = s[1]
        BY <1>3
      <3>1. i > 1 /\ s[i] = sticky /\ i \in 1 .. Len(s)
        BY <1>3, <2>3, <2>8
      <3>2. 1 \in DOMAIN s /\ 2 \in DOMAIN s /\ Len(s) > 1
        BY <1>1, <3>1
      <3>. QED BY <3>1, <3>2 DEF Ahead
    <2>. QED BY <2>4, <2>5, <2>6, <2>7 DEF s
  <1>. QED BY <1>4, <1>5

-----------------------------------------------------------------------------
(* The plans *)

LEMMA AbsentType == Absent \in AliasType
  <1>1. "priority" \in Strategies
    BY DEF Strategies
  <1>2. <<>> \in Seq(STRING)
    OBVIOUS
  <1>3. [n \in Dims |-> 0] \in [Dims -> Nat] /\ [n \in Dims |-> Unset] \in [Dims -> Nat \cup {Unset}]
    OBVIOUS
  <1>. QED BY <1>1, <1>2, <1>3 DEF Absent, AliasType

LEMMA AliasForType == ASSUME TypeOK, NEW name PROVE AliasFor(name) \in AliasType
  <1>1. CASE name \notin Models /\ Live(name)
    BY <1>1 DEF AliasFor, Live, TypeOK
  <1>2. CASE ~(name \notin Models /\ Live(name))
    BY <1>2, AbsentType DEF AliasFor
  <1>. QED BY <1>1, <1>2

\* A request asks for models, each once.
LEMMA ResolvedFacts ==
  ASSUME TypeOK, NEW name
  PROVE  /\ Resolved(name) \in Seq(Models)
         /\ \A i, j \in 1 .. Len(Resolved(name)) : Resolved(name)[i] = Resolved(name)[j] => i = j
  <1>1. CASE name \in Models
    <2>1. Resolved(name) = <<name>> /\ Len(<<name>>) = 1 /\ <<name>> \in Seq(Models)
      BY <1>1 DEF Resolved
    <2>. QED BY <2>1
  <1>2. CASE name \notin Models /\ name \in Names
    <2>1. Resolved(name) = Expand(name)
      BY <1>2 DEF Resolved
    <2>. QED BY <1>2, <2>1, ExpandFacts
  <1>3. CASE name \notin Models /\ name \notin Names
    <2>1. Resolved(name) = <<>> /\ Len(<<>>) = 0 /\ <<>> \in Seq(Models)
      BY <1>3 DEF Resolved
    <2>. QED BY <2>1
  <1>. QED BY <1>1, <1>2, <1>3

\* Those that a plan lists.
Chosen(r, name) ==
    Eligible(Strict(Resolved(name), r, AliasFor(name)), Resolved(name), r, AliasFor(name))

LEMMA CandidateFacts ==
  ASSUME TypeOK, NEW name, NEW d \in Candidates(Resolved(name))
  PROVE  /\ d \in Deployments
         /\ \E i \in DOMAIN Resolved(name) : Resolved(name)[i] = ModelOf(d)
         /\ ModelOf(d) \in Models
  <1>1. PICK i \in DOMAIN Resolved(name) : Resolved(name)[i] = ModelOf(d)
    BY DEF Candidates
  <1>2. Resolved(name)[i] \in Models
    BY ResolvedFacts
  <1>. QED BY <1>1, <1>2 DEF Candidates

LEMMA ChosenFacts ==
  ASSUME TypeOK, NEW r, NEW name
  PROVE  Chosen(r, name) \subseteq Candidates(Resolved(name))
  BY DEF Chosen, Eligible, Strict

\* The plan of a request that has candidates: they are sorted, turned and the front model goes
\* first.
LEMMA MadeFacts ==
  ASSUME TypeOK, NEW r \in Requests, NEW name, Candidates(Resolved(name)) # {}
  PROVE  LET alias == AliasFor(name)
             sorted == Sorted(Chosen(r, name), r, alias, StrategyFor(name), Resolved(name))
             turner == Turner(sorted, StrategyFor(name))
             turned == Turned(sorted, turner)
         IN  /\ PlanOf(r, name) = Made(name, alias, Strict(Resolved(name), r, alias) = {}, turner, turned)
             /\ Lists(sorted, Chosen(r, name)) /\ Lists(turned, Chosen(r, name))
             /\ turner # None => turner \in Models /\ Len(turned) \in Nat \ {0}
             /\ \A i, j \in 1 .. Len(sorted) : i < j =>
                    Lesser(Key(sorted[i], alias, StrategyFor(name), Score(sorted[i], Weights(r, alias)),
                               Index(sorted[i], Resolved(name))),
                           Key(sorted[j], alias, StrategyFor(name), Score(sorted[j], Weights(r, alias)),
                               Index(sorted[j], Resolved(name))))
  <1>. DEFINE ids == Resolved(name)
              alias == AliasFor(name)
              strategy == StrategyFor(name)
              S == Chosen(r, name)
              sorted == Sorted(S, r, alias, strategy, ids)
              turner == Turner(sorted, strategy)
              turned == Turned(sorted, turner)
  <1>1. PlanOf(r, name) = Made(name, alias, Strict(ids, r, alias) = {}, turner, turned)
    BY DEF PlanOf, PlanFor, Ranked, Chosen
  <1>2. ids \in Seq(Models) /\ alias \in AliasType
    BY ResolvedFacts, AliasForType
  <1>3. S \in SUBSET Deployments /\ \A d \in S : ModelOf(d) \in Models /\ \E i \in DOMAIN ids : ids[i] = ModelOf(d)
    BY ChosenFacts, CandidateFacts
  <1>4. /\ Lists(sorted, S)
        /\ \A i, j \in 1 .. Len(sorted) : i < j =>
              Lesser(Key(sorted[i], alias, strategy, Score(sorted[i], Weights(r, alias)), Index(sorted[i], ids)),
                     Key(sorted[j], alias, strategy, Score(sorted[j], Weights(r, alias)), Index(sorted[j], ids)))
    <2>. HIDE DEF ids, alias, strategy, S
    <2>. QED BY <1>2, <1>3, SortedFacts
  <1>. HIDE DEF ids, alias, strategy, S, sorted
  <1>5. Len(sorted) \in Nat /\ DOMAIN sorted = 1 .. Len(sorted) /\ \A i \in 1 .. Len(sorted) : sorted[i] \in S
    BY <1>4 DEF Lists
  <1>6. CASE turner = None
    <2>1. turned = sorted
      BY <1>6 DEF Turned
    <2>. QED BY <1>1, <1>4, <1>6, <2>1 DEF ids, alias, strategy, S, sorted
  <1>7. CASE turner # None
    <2>1. sorted # <<>> /\ turner = ModelOf(sorted[1])
      BY <1>7 DEF Turner
    <2>2. Len(sorted) # 0
      BY <1>4, <2>1 DEF Lists
    <2>3. turner \in Models
      <3>1. sorted[1] \in S
        BY <1>5, <2>2
      <3>. QED BY <1>3, <2>1, <3>1
    <2>. HIDE DEF turner
    <2>4. cursor[turner] % Len(sorted) \in 0 .. Len(sorted)
      <3>1. cursor[turner] \in Nat
        BY <2>3 DEF TypeOK
      <3>. QED BY <1>5, <2>2, <3>1
    <2>5. turned = Rotated(sorted, cursor[turner] % Len(sorted))
      BY <1>7 DEF Turned
    <2>6. Lists(turned, S) /\ Len(turned) = Len(sorted)
      BY <1>4, <2>4, <2>5, RotatedLists
    <2>. QED BY <1>1, <1>4, <1>5, <2>2, <2>3, <2>6 DEF ids, alias, strategy, S, sorted, turner
  <1>. QED BY <1>6, <1>7

LEMMA PlanFacts ==
  ASSUME TypeOK, NEW r \in Requests, NEW name
  PROVE  LET p == PlanOf(r, name)
             alias == AliasFor(name)
         IN  /\ p.name = name
             /\ Lists(p.order, Chosen(r, name))
             /\ p.turner # None => p.turner \in Models /\ Len(p.order) \in Nat \ {0}
             /\ p.said # None =>
                    p.order # <<>> /\ ModelOf(p.order[1]) = p.said /\ p.order[1] \notin parked
             /\ p.said = None =>
                    p.open \/ \A i \in 1 .. Len(p.order) : ModelOf(p.order[i]) = alias.front => p.order[i] \in parked
  <1>. DEFINE p == PlanOf(r, name)
              alias == AliasFor(name)
              S == Chosen(r, name)
  <1>1. CASE Candidates(Resolved(name)) = {}
    <2>1. p = [name |-> name, open |-> FALSE, turner |-> None, order |-> <<>>, said |-> None]
      BY <1>1 DEF PlanOf
    <2>2. S = {}
      BY <1>1, ChosenFacts
    <2>3. Len(<<>>) = 0 /\ <<>> \in Seq({})
      OBVIOUS
    <2>4. Lists(<<>>, S)
      BY <2>2, <2>3 DEF Lists
    <2>. HIDE DEF p, S
    <2>5. p.name = name /\ p.open = FALSE /\ p.turner = None /\ p.order = <<>> /\ p.said = None
      BY <2>1
    <2>. QED BY <2>3, <2>4, <2>5 DEF p, S
  <1>2. CASE Candidates(Resolved(name)) # {}
    <2>. DEFINE open == Strict(Resolved(name), r, alias) = {}
                sorted == Sorted(S, r, alias, StrategyFor(name), Resolved(name))
                turner == Turner(sorted, StrategyFor(name))
                turned == Turned(sorted, turner)
    <2>1. /\ p = Made(name, alias, open, turner, turned)
          /\ Lists(turned, S)
          /\ turner # None => turner \in Models /\ Len(turned) \in Nat \ {0}
      BY <1>2, MadeFacts
    <2>. HIDE DEF p, S, open, turner, turned, alias
    <2>2. /\ p.name = name /\ p.open = open /\ p.turner = turner /\ p.order = Promoted(turned, alias)
          /\ p.said = IF ~open /\ FrontAt(turned, alias) # {} THEN alias.front ELSE None
      BY <2>1 DEF Made
    <2>3. /\ Lists(p.order, S) /\ Len(p.order) = Len(turned)
          /\ FrontAt(turned, alias) # {} =>
                p.order # <<>> /\ ModelOf(p.order[1]) = alias.front /\ p.order[1] \notin parked
      <3>. DEFINE q == Promoted(turned, alias)
      <3>1. /\ Lists(q, S) /\ Len(q) = Len(turned)
            /\ FrontAt(turned, alias) # {} => q # <<>> /\ ModelOf(q[1]) = alias.front /\ q[1] \notin parked
        BY <2>1, PromotedLists
      <3>2. p.order = q
        BY <2>2
      <3>. HIDE DEF q
      <3>. QED BY <3>1, <3>2
    <2>4. ASSUME p.said = None, ~p.open, NEW i \in 1 .. Len(p.order), ModelOf(p.order[i]) = alias.front
          PROVE  p.order[i] \in parked
      <3>1. p.order[i] \in S
        BY <2>3, <2>4 DEF Lists
      <3>2. alias.front \in Models
        BY <2>4, <3>1, ChosenFacts, CandidateFacts DEF S
      <3>3. FrontAt(turned, alias) = {}
        BY <2>2, <2>4, <3>2, RoutingAssumption
      <3>4. p.order = turned /\ DOMAIN turned = 1 .. Len(turned)
        BY <2>1, <2>2, <3>3 DEF Promoted, Lists
      <3>5. i \in DOMAIN turned
        BY <3>4
      <3>. QED BY <2>4, <3>3, <3>4, <3>5 DEF FrontAt
    <2>. QED BY <2>1, <2>2, <2>3, <2>4 DEF p, S, alias
  <1>. QED BY <1>1, <1>2

LEMMA NobodyRefused == ASSUME TypeOK PROVE NobodyIsRefused
  <1>. SUFFICES ASSUME NEW r \in Requests, NEW p \in {Plan(r)}
                PROVE  LET own == Candidates(Resolved(r.model))
                           all == Candidates(Resolved(p.name))
                           tried == {p.order[i] : i \in DOMAIN p.order}
                           good == {d \in all : Passes(d, r, AliasFor(p.name), FALSE)}
                       IN  /\ (\E d \in own \cup all : Ready(d, r)) => tried # {} \/ Stranded(r)
                           /\ good # {} => tried = good
                           /\ Len(p.order) = Cardinality(tried)
    BY DEF NobodyIsRefused
  <1>. DEFINE name == Rewritten(r)
              S == Chosen(r, name)
              s == p.order
              tried == {s[i] : i \in DOMAIN s}
              all == Candidates(Resolved(name))
              good == Strict(Resolved(name), r, AliasFor(name))
  <1>1. p.name = name /\ Lists(s, S)
    <2>. HIDE DEF name
    <2>1. p = PlanOf(r, name)
      BY DEF Plan, name
    <2>. QED BY <2>1, PlanFacts
  <1>. HIDE DEF s, S, name
  <1>2. s \in Seq(S) /\ Len(s) \in Nat /\ DOMAIN s = 1 .. Len(s)
    BY <1>1 DEF Lists
  <1>3. tried = S
    BY <1>1, <1>2 DEF Lists
  <1>4. good # {} => S = good
    BY DEF S, Chosen, Eligible
  <1>5. ASSUME NEW d \in all, Ready(d, r) PROVE S # {}
    BY <1>5 DEF S, Chosen, Eligible, Passes, Ready
  <1>8. ASSUME NEW d \in Candidates(Resolved(r.model)), Ready(d, r), ~Stranded(r)
        PROVE  S # {}
    <2>1. CASE name = r.model
      BY <1>5, <1>8, <2>1
    <2>2. CASE name # r.model
      <3>1. Resolved(name) # <<>>
        <4>1. name = Shape(r) /\ Servable(name)
          BY <2>2 DEF name, Rewritten
        <4>2. CASE name \in Models
          <5>1. Resolved(name) = <<name>>
            BY <4>2 DEF Resolved
          <5>. QED BY <5>1
        <4>3. CASE name \notin Models
          BY <4>1, <4>3 DEF Servable, Resolved
        <4>. QED BY <4>2, <4>3
      <3>2. \E e \in all : Ready(e, r)
        BY <1>8, <2>2, <3>1 DEF Stranded, name
      <3>. QED BY <1>5, <3>2
    <2>. QED BY <2>1, <2>2
  <1>6. Len(s) = Cardinality(S)
    <2>1. s \in Bijection(1 .. Len(s), S)
      <3>1. s \in [1 .. Len(s) -> S]
        BY <1>2
      <3>. QED BY <1>1, <3>1 DEF Lists, Bijection, Injection, Surjection, IsInjective
    <2>. DEFINE L == Len(s)
    <2>2. IsFiniteSet(1 .. L) /\ Cardinality(1 .. L) = L
      <3>1. L \in Nat
        BY <1>2
      <3>. HIDE DEF L
      <3>. QED BY <3>1, FS_Interval
    <2>3. ExistsBijection(1 .. L, S)
      <3>1. s \in Bijection(1 .. L, S)
        BY <2>1
      <3>. HIDE DEF L
      <3>. QED BY <3>1 DEF ExistsBijection
    <2>. HIDE DEF L
    <2>4. Cardinality(1 .. L) = Cardinality(S)
      BY <2>2, <2>3, FS_Bijection
    <2>. QED BY <2>2, <2>4 DEF L
  <1>7. good = {d \in all : Passes(d, r, AliasFor(p.name), FALSE)}
    BY <1>1 DEF Strict
  <1>. QED BY <1>1, <1>3, <1>4, <1>5, <1>6, <1>7, <1>8 DEF s

LEMMA ImagesSeen == ASSUME TypeOK PROVE ImagesAreSeen
  <1>. SUFFICES ASSUME NEW r \in Requests, NEW p \in {Plan(r)}, r.image,
                       AliasFor(p.name).requires["vision"] # 0,
                       NEW i \in DOMAIN Attempts(p), Caps[Attempts(p)[i]].vision = 0,
                       NEW d \in Candidates(Resolved(p.name)), Passes(d, r, AliasFor(p.name), FALSE)
                PROVE  FALSE
    BY DEF ImagesAreSeen
  <1>. DEFINE name == Rewritten(r)
              t == Attempts(p)
              alias == AliasFor(name)
              good == Strict(Resolved(name), r, alias)
  <1>1. p.name = name /\ Lists(p.order, Chosen(r, name))
    <2>. HIDE DEF name
    <2>1. p = PlanOf(r, name)
      BY DEF Plan, name
    <2>. QED BY <2>1, PlanFacts
  <1>2. Lists(t, Chosen(r, name))
    <2>. HIDE DEF name
    <2>. QED BY <1>1, AttemptsLists
  <1>3. d \in good
    BY <1>1 DEF Strict
  <1>4. Chosen(r, name) = good
    BY <1>3 DEF Chosen, Eligible
  <1>5. t[i] \in good
    BY <1>2, <1>4 DEF Lists
  <1>11. alias.requires["vision"] # 0
    BY <1>1
  <1>. HIDE DEF t, name
  <1>6. t[i] \in Deployments /\ \A n \in Dims : Caps[t[i]][n] >= Minimums(r, alias)[n]
    BY <1>5 DEF Strict, Passes, Candidates
  <1>7. Minimums(r, alias)["vision"] > 0 /\ Minimums(r, alias)["vision"] \in Int /\ "vision" \in Dims
    <2>1. "vision" \in Dims
      BY DEF Dims
    <2>2. alias \in AliasType
      BY AliasForType
    <2>. HIDE DEF alias
    <2>. QED BY <1>11, <2>1, <2>2, MinimumsType DEF Unset
  <1>8. Caps[t[i]]["vision"] \in Nat
    BY <1>6, <1>7, DeploymentFacts
  <1>9. Caps[t[i]]["vision"] >= Minimums(r, alias)["vision"]
    BY <1>6, <1>7
  <1>10. Caps[t[i]]["vision"] = 0
    BY DEF t
  <1>. HIDE DEF alias
  <1>. QED BY <1>7, <1>8, <1>9, <1>10

LEMMA FrontTruthful == ASSUME TypeOK PROVE FrontIsTruthful
  <1>. SUFFICES ASSUME NEW r \in Requests, NEW p \in {Plan(r)}
                PROVE  LET tries == Attempts(p)
                       IN  IF p.said # None
                           THEN \E i \in DOMAIN tries :
                                   /\ ModelOf(tries[i]) = p.said /\ tries[i] \notin parked
                                   /\ \A j \in 1 .. i - 1 : tries[j] = sticky /\ ~Pins(p.name)
                           ELSE p.open \/ \A i \in DOMAIN tries :
                                    ModelOf(tries[i]) = AliasFor(p.name).front => tries[i] \in parked
    BY DEF FrontIsTruthful
  <1>. DEFINE name == Rewritten(r)
              tries == Attempts(p)
              S == Chosen(r, name)
  <1>1. p = PlanOf(r, name)
    BY DEF Plan
  <1>. HIDE DEF name
  <1>2. /\ p.name = name
        /\ Lists(p.order, S)
        /\ p.said # None =>
              p.order # <<>> /\ ModelOf(p.order[1]) = p.said /\ p.order[1] \notin parked
        /\ p.said = None =>
              p.open \/ \A i \in 1 .. Len(p.order) : ModelOf(p.order[i]) = AliasFor(name).front => p.order[i] \in parked
    BY <1>1, PlanFacts
  <1>. HIDE DEF S
  <1>3. /\ Lists(tries, S) /\ Len(tries) = Len(p.order)
        /\ Pins(p.name) /\ p.order # <<>> => tries[1] = p.order[1]
        /\ ~Pins(p.name) /\ p.order # <<>> /\ tries[1] # p.order[1] =>
                tries[1] = sticky /\ Len(p.order) > 1 /\ tries[2] = p.order[1]
    BY <1>2, AttemptsLists
  <1>. HIDE DEF tries
  <1>4. /\ DOMAIN p.order = 1 .. Len(p.order) /\ DOMAIN tries = 1 .. Len(p.order)
        /\ Len(p.order) \in Nat /\ (p.order # <<>> => Len(p.order) # 0)
    <2>. DEFINE s == p.order
    <2>1. s \in Seq(S) /\ tries \in Seq(S) /\ Len(tries) = Len(s)
      BY <1>2, <1>3 DEF Lists
    <2>. HIDE DEF s
    <2>2. DOMAIN s = 1 .. Len(s) /\ DOMAIN tries = 1 .. Len(s) /\ Len(s) \in Nat
      BY <2>1
    <2>3. s # <<>> => Len(s) # 0
      BY <2>1
    <2>. QED BY <2>2, <2>3 DEF s
  <1>5. ASSUME p.said # None
        PROVE  \E i \in DOMAIN tries :
                   /\ ModelOf(tries[i]) = p.said /\ tries[i] \notin parked
                   /\ \A j \in 1 .. i - 1 : tries[j] = sticky /\ ~Pins(p.name)
    <2>1. /\ p.order # <<>> /\ 1 \in DOMAIN tries
          /\ ModelOf(p.order[1]) = p.said /\ p.order[1] \notin parked
      BY <1>2, <1>4, <1>5
    <2>2. CASE tries[1] = p.order[1]
      <3>1. \A j \in 1 .. 1 - 1 : tries[j] = sticky /\ ~Pins(p.name)
        OBVIOUS
      <3>. QED BY <2>1, <2>2, <3>1
    <2>3. CASE tries[1] # p.order[1]
      <3>1. ~Pins(p.name) /\ tries[1] = sticky /\ Len(p.order) > 1 /\ tries[2] = p.order[1]
        BY <1>3, <2>1, <2>3
      <3>2. 2 \in DOMAIN tries
        BY <1>4, <3>1
      <3>3. \A j \in 1 .. 2 - 1 : tries[j] = sticky /\ ~Pins(p.name)
        BY <3>1
      <3>. QED BY <2>1, <3>1, <3>2, <3>3
    <2>. QED BY <2>2, <2>3
  <1>6. ASSUME p.said = None, ~p.open, NEW i \in DOMAIN tries,
               ModelOf(tries[i]) = AliasFor(p.name).front
        PROVE  tries[i] \in parked
    <2>1. tries[i] \in S
      BY <1>3, <1>6 DEF Lists
    <2>2. PICK j \in 1 .. Len(p.order) : p.order[j] = tries[i]
      BY <1>2, <2>1 DEF Lists
    <2>. QED BY <1>2, <1>6, <2>2
  <1>. QED BY <1>5, <1>6 DEF tries

LEMMA OperatorAhead == ASSUME TypeOK PROVE OperatorLeads
  <1>. SUFFICES ASSUME NEW r \in Requests, NEW p \in {Plan(r)},
                       AliasFor(Rewritten(r)).pin, AliasFor(Rewritten(r)).front = None,
                       AliasFor(Rewritten(r)).strategy \in {"priority", "capability"},
                       NEW i \in DOMAIN p.order, ModelOf(p.order[i]) = Resolved(p.name)[1]
                PROVE  ModelOf(Attempts(p)[1]) = Resolved(p.name)[1]
    BY DEF OperatorLeads
  <1>. DEFINE name == Rewritten(r)
              alias == AliasFor(name)
              ids == Resolved(name)
              S == Chosen(r, name)
              strategy == StrategyFor(name)
              sorted == Sorted(S, r, alias, strategy, ids)
              key(d) == Key(d, alias, strategy, Score(d, Weights(r, alias)), Index(d, ids))
  <1>1. p = PlanOf(r, name)
    BY DEF Plan
  <1>. HIDE DEF name
  <1>2. alias.pin /\ alias.front = None /\ alias.strategy \in {"priority", "capability"}
    BY DEF name
  <1>3. p.name = name /\ Lists(p.order, S)
    BY <1>1, PlanFacts
  <1>4. ModelOf(p.order[i]) = ids[1]
    BY <1>3
  <1>5. name \notin Models /\ Live(name) /\ alias = aliases[name]
    <2>1. ~Absent.pin
      BY DEF Absent
    <2>. QED BY <1>2, <2>1 DEF AliasFor
  <1>6. Pins(name) /\ strategy = alias.strategy
    BY <1>2, <1>5 DEF Pins, StrategyFor
  <1>7. p.order \in Seq(S) /\ i \in 1 .. Len(p.order)
    BY <1>3 DEF Lists
  <1>8. Candidates(ids) # {}
    BY <1>7, ChosenFacts DEF ids
  <1>9. p.order = sorted
    <2>. DEFINE turner == Turner(sorted, strategy)
                turned == Turned(sorted, turner)
    <2>1. p = Made(name, alias, Strict(ids, r, alias) = {}, turner, turned) /\ Lists(turned, S)
      BY <1>1, <1>8, MadeFacts
    <2>2. turner = None
      BY <1>2, <1>6 DEF Turner
    <2>3. turned = sorted
      BY <2>2 DEF Turned
    <2>. HIDE DEF turned, turner
    <2>4. p.order = Promoted(turned, alias)
      BY <2>1 DEF Made
    <2>5. FrontAt(turned, alias) = {}
      <3>1. ASSUME NEW j \in DOMAIN turned PROVE ModelOf(turned[j]) # None
        <4>1. turned[j] \in S
          BY <2>1 DEF Lists
        <4>2. ModelOf(turned[j]) \in Models
          BY <4>1, ChosenFacts, CandidateFacts
        <4>. QED BY <4>2, RoutingAssumption
      <3>. QED BY <1>2, <3>1 DEF FrontAt
    <2>. QED BY <2>3, <2>4, <2>5 DEF Promoted
  <1>10. \A m, n \in 1 .. Len(sorted) : m < n => Lesser(key(sorted[m]), key(sorted[n]))
    BY <1>8, MadeFacts
  <1>. HIDE DEF sorted, key, S, strategy, alias
  <1>11. ASSUME NEW d \in S
         PROVE  /\ Index(d, ids) \in Nat \ {0} /\ (Index(d, ids) = 1 <=> ModelOf(d) = ids[1])
    <2>1. \E j \in DOMAIN ids : ids[j] = ModelOf(d)
      BY ChosenFacts, CandidateFacts DEF S
    <2>2. ids \in Seq(Models) /\ \A j, k \in 1 .. Len(ids) : ids[j] = ids[k] => j = k
      BY ResolvedFacts
    <2>. HIDE DEF ids
    <2>3. Index(d, ids) \in 1 .. Len(ids) /\ ids[Index(d, ids)] = ModelOf(d)
      BY <2>1, <2>2 DEF Index
    <2>4. 1 \in 1 .. Len(ids)
      BY <2>2, <2>3
    <2>. QED BY <2>2, <2>3, <2>4
  <1>12. ASSUME NEW d \in S
         PROVE  IF strategy = "priority" THEN key(d)[1] = Index(d, ids)
                ELSE key(d)[1] = IF Index(d, ids) > 1 THEN 1 ELSE 0
    <2>1. strategy # "priority" => strategy = "capability"
      BY <1>2, <1>6
    <2>. HIDE DEF ids
    <2>. QED BY <1>2, <2>1 DEF key, Key
  <1>13. /\ 1 \in 1 .. Len(sorted) /\ i \in 1 .. Len(sorted) /\ sorted[1] \in S /\ sorted[i] \in S
         /\ ModelOf(sorted[i]) = ids[1]
    BY <1>4, <1>7, <1>9
  <1>14. ModelOf(sorted[1]) = ids[1]
    <2>1. CASE i = 1
      BY <1>13, <2>1
    <2>2. CASE i # 1
      <3>1. Lesser(key(sorted[1]), key(sorted[i]))
        BY <1>10, <1>13, <2>2
      <3>. DEFINE a == key(sorted[1])[1]
                  b == key(sorted[i])[1]
      <3>2. a <= b
        <4>1. a \in Int /\ b \in Int
          BY <1>11, <1>12, <1>13
        <4>2. PICK j \in DOMAIN key(sorted[1]) :
                 /\ key(sorted[1])[j] < key(sorted[i])[j]
                 /\ \A n \in 1 .. j - 1 : key(sorted[1])[n] = key(sorted[i])[n]
          BY <3>1 DEF Lesser
        <4>3. DOMAIN key(sorted[1]) \in {1 .. 3, 1 .. 4}
          BY DEF key, Key
        <4>4. j = 1 \/ 1 \in 1 .. j - 1
          BY <4>3
        <4>. QED BY <4>1, <4>2, <4>4
      <3>3. Index(sorted[i], ids) = 1
        BY <1>11, <1>13
      <3>4. a = IF strategy = "priority" THEN Index(sorted[1], ids) ELSE IF Index(sorted[1], ids) > 1 THEN 1 ELSE 0
        BY <1>12, <1>13
      <3>5. b = IF strategy = "priority" THEN 1 ELSE 0
        BY <1>12, <1>13, <3>3
      <3>6. Index(sorted[1], ids) \in Nat \ {0}
        BY <1>11, <1>13
      <3>. HIDE DEF a, b, ids
      <3>7. Index(sorted[1], ids) = 1
        BY <3>2, <3>4, <3>5, <3>6
      <3>. QED BY <1>11, <1>13, <3>7
    <2>. QED BY <2>1, <2>2
  <1>15. Attempts(p)[1] = p.order[1]
    <2>1. p.order # <<>>
      <3>1. Len(<<>>) = 0 /\ 1 \in 1 .. Len(p.order)
        BY <1>9, <1>13
      <3>. QED BY <3>1
    <2>. QED BY <1>3, <1>6, <2>1, AttemptsLists
  <1>. QED BY <1>3, <1>9, <1>14, <1>15

LEMMA InitTyped == Init => TypeOK
  <1>. SUFFICES ASSUME Init PROVE TypeOK
    OBVIOUS
  <1>1. aliases \in [Names -> AliasType]
    BY RoutingAssumption DEF Init
  <1>2. edits \in 0 .. MaxEdits
    BY RoutingAssumption DEF Init
  <1>. HIDE DEF AliasType
  <1>. QED BY <1>1, <1>2 DEF Init, TypeOK

LEMMA CursorTyped ==
  ASSUME TypeOK, NEW r \in Requests, NEW p \in {Plan(r)}
  PROVE  CursorAfter(p) \in [Models -> Nat]
  <1>. DEFINE name == Rewritten(r)
  <1>1. p = PlanOf(r, name)
    BY DEF Plan
  <1>. HIDE DEF name
  <1>2. p.turner # None => p.turner \in Models /\ Len(p.order) \in Nat \ {0}
    BY <1>1, PlanFacts
  <1>3. cursor \in [Models -> Nat]
    BY DEF TypeOK
  <1>4. CASE p.turner = None
    BY <1>3, <1>4 DEF CursorAfter
  <1>5. CASE p.turner # None
    <2>. DEFINE m == p.turner
                L == Len(p.order)
    <2>1. m \in Models /\ L \in Nat \ {0} /\ cursor[m] \in Nat
      BY <1>2, <1>3, <1>5
    <2>2. CursorAfter(p) = [cursor EXCEPT ![m] = ((@ % L) + 1) % L]
      BY <1>5 DEF CursorAfter
    <2>. HIDE DEF m, L
    <2>3. ((cursor[m] % L) + 1) % L \in Nat
      <3>1. cursor[m] % L \in Nat
        BY <2>1
      <3>. QED BY <2>1, <3>1
    <2>. QED BY <1>3, <2>1, <2>2, <2>3
  <1>. QED BY <1>4, <1>5

LEMMA CalledTyped ==
  ASSUME TypeOK, NEW r \in Requests, NEW p \in {Plan(r)}
  PROVE  Called(p) \subseteq Deployments
  <1>. DEFINE name == Rewritten(r)
  <1>1. p = PlanOf(r, name)
    BY DEF Plan
  <1>. HIDE DEF name
  <1>2. Lists(p.order, Chosen(r, name))
    BY <1>1, PlanFacts
  <1>3. Attempts(p) \in Seq(Chosen(r, name))
    BY <1>2, AttemptsLists DEF Lists
  <1>4. Chosen(r, name) \subseteq Deployments
    BY ChosenFacts, CandidateFacts
  <1>. QED BY <1>3, <1>4 DEF Called, Range

\* Every step keeps the types: whom a request is served by, the cursors, and what is edited.
LEMMA NextTyped == TypeOK /\ [Next]_vars => TypeOK'
  <1>. SUFFICES ASSUME TypeOK, [Next]_vars PROVE TypeOK'
    OBVIOUS
  <1>. HIDE DEF AliasType, Deployments, Providers
  <1>1. ASSUME NEW r \in Requests, Serve(r) PROVE TypeOK'
    <2>1. sticky' \in Deployments /\ cursor' \in [Models -> Nat]
      <3>1. PICK p \in {Plan(r)} : (\E d \in Called(p) : sticky' = d) /\ cursor' = CursorAfter(p)
        BY <1>1 DEF Serve
      <3>. QED BY <3>1, CursorTyped, CalledTyped
    <2>. QED BY <1>1, <2>1 DEF Serve, TypeOK
  <1>2. ASSUME NEW r \in Requests, Ask(r) PROVE TypeOK'
    <2>1. cursor' \in [Models -> Nat]
      <3>1. PICK p \in {Plan(r)} : cursor' = CursorAfter(p)
        BY <1>2 DEF Ask
      <3>. QED BY <3>1, CursorTyped
    <2>. QED BY <1>2, <2>1 DEF Ask, TypeOK
  <1>3. ASSUME Edit PROVE edits' \in 0 .. MaxEdits
    BY <1>3, RoutingAssumption DEF Edit, TypeOK
  <1>4. ASSUME NEW o \in Offers, Upsert(o[1], o[2]) PROVE TypeOK'
    <2>1. o[1] \in Names /\ o[2] \in AliasType
      BY RoutingAssumption
    <2>. QED BY <1>3, <1>4, <2>1 DEF Upsert, TypeOK
  <1>5. Absent \in AliasType
    BY AbsentType
  <1>6. ASSUME NEW a \in Names, Delete(a) PROVE TypeOK'
    BY <1>3, <1>5, <1>6 DEF Delete, TypeOK
  <1>7. ASSUME NEW m \in Models \cup Names, HotSwap(m) PROVE TypeOK'
    <2>. DEFINE old == aliases["zk-auto"]
                targets == <<m>> \o Picked(old.targets, {i \in DOMAIN old.targets : old.targets[i] # m})
                new == [old EXCEPT !.targets = targets, !.enabled = TRUE, !.pin = TRUE, !.front = None]
    <2>1. aliases' = [aliases EXCEPT !["zk-auto"] = new]
      BY <1>7 DEF HotSwap
    <2>2. CASE "zk-auto" \in Names
      <3>1. old \in AliasType
        BY <2>2 DEF TypeOK
      <3>. HIDE DEF old
      <3>2. old.targets \in Seq(STRING)
        BY <3>1, AliasFields
      <3>3. targets \in Seq(STRING)
        <4>. DEFINE q == old.targets
                    I == {i \in DOMAIN q : q[i] # m}
        <4>1. I \in SUBSET (1 .. Len(q))
          BY <3>2
        <4>. HIDE DEF q, I
        <4>2. Picked(q, I) \in Seq(STRING)
          BY <3>2, <4>1, PickedFacts DEF q
        <4>3. <<m>> \in Seq(STRING)
          BY RoutingAssumption
        <4>4. <<m>> \o Picked(q, I) \in Seq(STRING)
          BY <4>2, <4>3
        <4>. QED BY <4>4 DEF q, I
      <3>. HIDE DEF targets
      <3>4. new \in AliasType
        BY <3>1, <3>3 DEF AliasType
      <3>. HIDE DEF new
      <3>. QED BY <1>3, <1>7, <2>1, <3>4 DEF HotSwap, TypeOK
    <2>3. CASE "zk-auto" \notin Names
      <3>. HIDE DEF new
      <3>. QED BY <1>3, <1>7, <2>1, <2>3 DEF HotSwap, TypeOK
    <2>. QED BY <2>2, <2>3
  <1>8. ASSUME NEW x \in Models \cup Providers, Switch(x) PROVE TypeOK'
    BY <1>8 DEF Switch, TypeOK
  <1>9. ASSUME NEW d \in Deployments, SwitchDeployment(d) PROVE TypeOK'
    BY <1>9 DEF SwitchDeployment, TypeOK
  <1>10. ASSUME NEW d \in Deployments, Park(d) PROVE TypeOK'
    BY <1>10 DEF Park, TypeOK
  <1>11. ASSUME Forget PROVE TypeOK'
    BY <1>11 DEF Forget, TypeOK
  <1>12. ASSUME Reload PROVE TypeOK'
    <2>1. Configured \in [Names -> AliasType] /\ 0 \in 0 .. MaxEdits
      BY RoutingAssumption
    <2>. QED BY <1>12, <2>1 DEF Reload, TypeOK
  <1>13. ASSUME UNCHANGED vars PROVE TypeOK'
    BY <1>13 DEF vars, TypeOK
  <1>. QED BY <1>1, <1>2, <1>4, <1>6, <1>7, <1>8, <1>9, <1>10, <1>11, <1>12, <1>13 DEF Next

\* A behaviour of either part is one of the plans.
LEMMA PlansBehaviour == MCSpec => Spec
  <1>1. MCInit => Init
    BY DEF MCInit
  <1>2. [MCNext]_both => [Next]_vars
    BY DEF MCNext, both, vars
  <1>. QED BY <1>1, <1>2, PTL DEF MCSpec, Spec

\* The registry of aliases, the switches and the cursors stay in their types, whatever requests
\* and edits come in whatever order (RoundRobinSelection, the admin API's edits of aliases).
THEOREM RoutingTypeCorrect == MCSpec => []TypeOK
  <1>1. Init => TypeOK
    BY InitTyped
  <1>2. TypeOK /\ [Next]_vars => TypeOK'
    BY NextTyped
  <1>. QED BY <1>1, <1>2, PlansBehaviour, PTL DEF Spec

\* For any aliases, however they refer to each other, any candidates and any capabilities: an
\* alias stands for the models that it leads to; no gate refuses what could be served; a picture
\* is tried with who sees it (aliases.py, Router.plan).
THEOREM PlansAlwaysServe == MCSpec => []PlansServe
  <1>1. TypeOK => PlansServe
    BY ExpandReaches, NobodyRefused, ImagesSeen DEF PlansServe
  <1>. QED BY <1>1, RoutingTypeCorrect, PTL

\* A pin is obeyed, and what is said of the front model is so (Router.plan,
\* _promote_front_model, _apply_deployment_affinity).
THEOREM OperatorIsAlwaysObeyed == MCSpec => []OperatorIsObeyed
  <1>1. TypeOK => OperatorIsObeyed
    BY OperatorAhead, FrontTruthful DEF OperatorIsObeyed
  <1>. QED BY <1>1, RoutingTypeCorrect, PTL


-----------------------------------------------------------------------------
(* Sessions and their bindings (SessionAffinity), for any sessions, requests, deployments and  *)
(* keys and any settings.                                                                      *)

\* A dictionary binds a session once.
Bindings(T) == Seq([session : Sessions, to : T, left : Nat])
OneEach(pins) == \A i, j \in 1 .. Len(pins) : pins[i].session = pins[j].session => i = j
Dict(pins, T) == pins \in Bindings(T) /\ OneEach(pins)

\* What is left of pins without what stands at a, if anything does.
Shrunk(w, pins, a) ==
    /\ Len(w) = IF a <= Len(pins) THEN Len(pins) - 1 ELSE Len(pins)
    /\ \A j \in 1 .. Len(w) : w[j] = IF j < a THEN pins[j] ELSE pins[j + 1]

\* A session is bound, and whatever is younger belongs to the others.
Bound(pins, s, to, left, others) ==
    \E i \in 1 .. Len(pins) :
        /\ pins[i] = [session |-> s, to |-> to, left |-> left]
        /\ \A j \in 1 .. i - 1 : pins[j].session \in others

\* The module's sets are finite as ours are.
LEMMA SameFiniteness == \A S : Affinity!IsFiniteSet(S) <=> IsFiniteSet(S)
  BY DEF Affinity!IsFiniteSet, IsFiniteSet

LEMMA SameCardinality == \A S : Affinity!Cardinality(S) = Cardinality(S)
  BY DEF Affinity!Cardinality, Cardinality

LEMMA Untouched ==
  ASSUME NEW p, Len(p) \in Nat
  PROVE  /\ Shrunk(p, p, Len(p) + 1)
         /\ Len(p) + 1 \in 1 .. Len(p) + 1 /\ ~(Len(p) + 1 <= Len(p))
  BY DEF Shrunk

LEMMA Removed ==
  ASSUME NEW T, NEW p \in Seq(T), NEW i \in 1 .. Len(p)
  PROVE  /\ Affinity!RemoveAt(p, i) \in Seq(T)
         /\ Len(Affinity!RemoveAt(p, i)) = Len(p) - 1
         /\ \A j \in 1 .. Len(p) - 1 :
               Affinity!RemoveAt(p, i)[j] = IF j < i THEN p[j] ELSE p[j + 1]
  <1>. DEFINE b == SubSeq(p, 1, i - 1)
              e == SubSeq(p, i + 1, Len(p))
  <1>1. Len(p) \in Nat /\ \A j \in 1 .. Len(p) : p[j] \in T
    BY LenProperties, ElementOfSeq
  <1>2. b \in Seq(T) /\ Len(b) = i - 1 /\ \A j \in 1 .. i - 1 : b[j] = p[j]
    <2>1. \A j \in 1 .. i - 1 : p[j] \in T
      BY <1>1
    <2>. QED BY <1>1, <2>1, SubSeqProperties
  <1>3. e \in Seq(T) /\ Len(e) = Len(p) - i /\ \A j \in 1 .. Len(p) - i : e[j] = p[i + j]
    <2>1. \A j \in i + 1 .. Len(p) : p[j] \in T
      BY <1>1
    <2>2. /\ e \in Seq(T) /\ Len(e) = IF i + 1 <= Len(p) THEN Len(p) - (i + 1) + 1 ELSE 0
          /\ \A j \in 1 .. Len(p) - (i + 1) + 1 : e[j] = p[(i + 1) + j - 1]
      BY <1>1, <2>1, SubSeqProperties
    <2>3. Len(e) = Len(p) - i
      BY <1>1, <2>2
    <2>. QED BY <1>1, <2>2, <2>3
  <1>4. /\ b \o e \in Seq(T) /\ Len(b \o e) = (i - 1) + (Len(p) - i)
        /\ \A j \in 1 .. (i - 1) + (Len(p) - i) : (b \o e)[j] = IF j <= i - 1 THEN b[j] ELSE e[j - (i - 1)]
    <2>. HIDE DEF b, e
    <2>1. b \in Seq(T) /\ e \in Seq(T)
      BY <1>2, <1>3
    <2>2. /\ b \o e \in Seq(T) /\ Len(b \o e) = Len(b) + Len(e)
          /\ \A j \in 1 .. Len(b) + Len(e) : (b \o e)[j] = IF j <= Len(b) THEN b[j] ELSE e[j - Len(b)]
      BY <2>1, ConcatProperties
    <2>3. Len(b) = i - 1 /\ Len(e) = Len(p) - i
      BY <1>2, <1>3
    <2>. QED BY <2>2, <2>3, Zenon
  <1>5. Affinity!RemoveAt(p, i) = b \o e
    BY DEF Affinity!RemoveAt
  <1>. HIDE DEF b, e
  <1>6. Len(b \o e) = Len(p) - 1
    BY <1>1, <1>4
  <1>7. \A j \in 1 .. Len(p) - 1 : (b \o e)[j] = IF j < i THEN p[j] ELSE p[j + 1]
    <2>. SUFFICES ASSUME NEW j \in 1 .. Len(p) - 1
                  PROVE  (b \o e)[j] = IF j < i THEN p[j] ELSE p[j + 1]
      OBVIOUS
    <2>0. j \in 1 .. (i - 1) + (Len(p) - i)
      BY <1>1
    <2>1. (b \o e)[j] = IF j <= i - 1 THEN b[j] ELSE e[j - (i - 1)]
      BY <1>4, <2>0
    <2>2. CASE j < i
      <3>1. j \in 1 .. i - 1 /\ j <= i - 1
        BY <1>1, <2>2
      <3>. QED BY <1>2, <2>1, <2>2, <3>1
    <2>3. CASE ~(j < i)
      <3>1. ~(j <= i - 1) /\ j - (i - 1) \in 1 .. Len(p) - i /\ i + (j - (i - 1)) = j + 1
        BY <1>1, <2>3
      <3>. QED BY <1>3, <2>1, <2>3, <3>1
    <2>. QED BY <2>2, <2>3
  <1>. QED BY <1>4, <1>5, <1>6, <1>7

\* What shrinks is a dictionary still.
LEMMA ShrunkDict ==
  ASSUME NEW T, NEW p, Dict(p, T), NEW a \in Nat \ {0}, NEW w \in Bindings(T), Shrunk(w, p, a)
  PROVE  Dict(w, T)
  <1>1. Len(p) \in Nat /\ Len(w) \in Nat
    BY LenProperties DEF Dict, Bindings
  <1>2. ASSUME NEW i \in 1 .. Len(w), NEW j \in 1 .. Len(w), w[i].session = w[j].session
        PROVE  i = j
    <2>. DEFINE at(k) == IF k < a THEN k ELSE k + 1
    <2>1. at(i) \in 1 .. Len(p) /\ at(j) \in 1 .. Len(p)
      BY <1>1 DEF Shrunk
    <2>2. w[i] = p[at(i)] /\ w[j] = p[at(j)]
      BY DEF Shrunk
    <2>3. at(i) = at(j)
      BY <1>2, <2>1, <2>2 DEF Dict, OneEach
    <2>. QED BY <1>1, <2>3
  <1>. QED BY <1>2 DEF Dict, OneEach

\* A session is taken out of a dictionary.
LEMMA WithoutIs ==
  ASSUME NEW T, NEW p, Dict(p, T), NEW s
  PROVE  /\ Dict(Affinity!Without(p, s), T)
         /\ \E a \in 1 .. Len(p) + 1 :
              /\ Shrunk(Affinity!Without(p, s), p, a)
              /\ a <= Len(p) => p[a].session = s
              /\ a = Len(p) + 1 => \A j \in 1 .. Len(p) : p[j].session # s
  <1>1. Len(p) \in Nat /\ DOMAIN p = 1 .. Len(p) /\ p \in Bindings(T)
    BY LenProperties DEF Dict, Bindings
  <1>. DEFINE here == Affinity!Of(p, s)
              w == Affinity!Without(p, s)
  <1>2. here = {i \in 1 .. Len(p) : p[i].session = s}
    BY <1>1 DEF Affinity!Of
  <1>3. CASE here = {}
    <2>1. Affinity!Without(p, s) = p
      BY <1>3 DEF Affinity!Without
    <2>2. Shrunk(p, p, Len(p) + 1) /\ Len(p) + 1 \in 1 .. Len(p) + 1
      BY <1>1, Untouched
    <2>3. \A j \in 1 .. Len(p) : p[j].session # s
      BY <1>2, <1>3
    <2>4. ~(Len(p) + 1 <= Len(p))
      BY <1>1
    <2>. QED BY <2>1, <2>2, <2>3, <2>4, Zenon
  <1>4. CASE here # {}
    <2>. DEFINE a == CHOOSE i \in here : TRUE
    <2>1. a \in here
      BY <1>4
    <2>2. w = Affinity!RemoveAt(p, a)
      BY <1>4 DEF Affinity!Without
    <2>3. a \in 1 .. Len(p) /\ p[a].session = s
      BY <1>2, <2>1
    <2>. HIDE DEF a, here, w
    <2>a. /\ w \in Bindings(T) /\ Len(w) = Len(p) - 1
          /\ \A j \in 1 .. Len(p) - 1 : w[j] = IF j < a THEN p[j] ELSE p[j + 1]
      BY <1>1, <2>2, <2>3, Removed DEF Bindings
    <2>b. Shrunk(w, p, a)
      BY <1>1, <2>3, <2>a DEF Shrunk
    <2>4. w \in Bindings(T) /\ Shrunk(w, p, a)
      BY <2>a, <2>b
    <2>5. Dict(w, T)
      BY <2>3, <2>4, ShrunkDict
    <2>6. a \in 1 .. Len(p) + 1 /\ a # Len(p) + 1
      BY <1>1, <2>3
    <2>. QED BY <2>3, <2>4, <2>5, <2>6 DEF w
  <1>. QED BY <1>3, <1>4

\* A lookup takes out what has expired.
LEMMA PrunedIs ==
  ASSUME NEW T, NEW p, Dict(p, T), NEW s
  PROVE  /\ Dict(Affinity!Pruned(p, s), T)
         /\ \E a \in 1 .. Len(p) + 1 :
              /\ Shrunk(Affinity!Pruned(p, s), p, a)
              /\ a <= Len(p) => p[a].session = s /\ p[a].left = 0
  <1>1. Len(p) \in Nat /\ DOMAIN p = 1 .. Len(p) /\ p \in Bindings(T)
    BY LenProperties DEF Dict, Bindings
  <1>2. CASE Affinity!Live(p, s) = {}
    <2>1. Affinity!Pruned(p, s) = Affinity!Without(p, s)
      BY <1>2 DEF Affinity!Pruned
    <2>2. \A j \in 1 .. Len(p) : p[j].session = s => p[j].left = 0
      <3>1. ASSUME NEW j \in 1 .. Len(p), p[j].session = s PROVE p[j].left = 0
        <4>1. p[j] \in Affinity!Range(p) /\ p[j].left \in Nat
          <5>1. p[j] \in [session : Sessions, to : T, left : Nat]
            BY <1>1, ElementOfSeq DEF Bindings
          <5>2. p[j] \in Affinity!Range(p)
            BY <1>1 DEF Affinity!Range
          <5>. QED BY <5>1, <5>2
        <4>2. ~(p[j].left > 0)
          BY <1>2, <3>1, <4>1 DEF Affinity!Live
        <4>. QED BY <4>1, <4>2
      <3>. QED BY <3>1
    <2>3. PICK a \in 1 .. Len(p) + 1 :
              /\ Shrunk(Affinity!Without(p, s), p, a)
              /\ a <= Len(p) => p[a].session = s
      BY WithoutIs
    <2>4. a <= Len(p) => a \in 1 .. Len(p)
      BY <1>1
    <2>5. Dict(Affinity!Without(p, s), T)
      BY WithoutIs
    <2>. QED BY <2>1, <2>2, <2>3, <2>4, <2>5
  <1>3. CASE Affinity!Live(p, s) # {}
    <2>1. Affinity!Pruned(p, s) = p
      BY <1>3 DEF Affinity!Pruned
    <2>2. Shrunk(p, p, Len(p) + 1) /\ Len(p) + 1 \in 1 .. Len(p) + 1 /\ ~(Len(p) + 1 <= Len(p))
      BY <1>1, Untouched
    <2>. QED BY <2>1, <2>2
  <1>. QED BY <1>2, <1>3

LEMMA WithoutKeepsOthers ==
  ASSUME NEW T, NEW p, Dict(p, T), NEW s
  PROVE  \A j \in 1 .. Len(Affinity!Without(p, s)) : Affinity!Without(p, s)[j].session # s
  <1>. DEFINE w == Affinity!Without(p, s)
  <1>1. PICK a \in 1 .. Len(p) + 1 :
              /\ Shrunk(w, p, a)
              /\ a <= Len(p) => p[a].session = s
              /\ a = Len(p) + 1 => \A j \in 1 .. Len(p) : p[j].session # s
    BY WithoutIs
  <1>2. Len(p) \in Nat /\ Len(w) \in Nat
    BY WithoutIs, LenProperties DEF Dict, Bindings
  <1>. HIDE DEF w
  <1>3. SUFFICES ASSUME NEW j \in 1 .. Len(w), w[j].session = s PROVE FALSE
    BY DEF w
  <1>. DEFINE i == IF j < a THEN j ELSE j + 1
  <1>4. i \in 1 .. Len(p) /\ i # a
    BY <1>1, <1>2 DEF Shrunk
  <1>5. w[j] = p[i]
    BY <1>1 DEF Shrunk
  <1>6. CASE a <= Len(p)
    <2>1. a \in 1 .. Len(p) /\ p[a].session = p[i].session
      BY <1>1, <1>2, <1>3, <1>5, <1>6
    <2>. QED BY <1>4, <2>1 DEF Dict, OneEach
  <1>7. CASE ~(a <= Len(p))
    <2>1. a = Len(p) + 1
      BY <1>2, <1>7
    <2>. QED BY <1>1, <1>3, <1>4, <1>5, <2>1
  <1>. QED BY <1>6, <1>7

\* A success makes a binding the youngest; of the others the oldest may go.
LEMMA NotedIs ==
  ASSUME NEW T, NEW p, Dict(p, T), NEW s \in Sessions, NEW to \in T,
         setting.cap \in Nat, setting.ttl \in Nat
  PROVE  /\ Dict(Affinity!Noted(p, s, to), T)
         /\ LET w == Affinity!Without(p, s)
                n == Affinity!Noted(p, s, to)
            IN  /\ Len(n) = IF Len(w) + 1 > setting.cap THEN setting.cap ELSE Len(w) + 1
                /\ \A j \in 1 .. Len(n) :
                      n[j] = IF j = 1 THEN Affinity!Pin(s, to) ELSE w[j - 1]
  <1>. DEFINE w == Affinity!Without(p, s)
              n == Affinity!Noted(p, s, to)
              x == Affinity!Pin(s, to)
              B == [session : Sessions, to : T, left : Nat]
              f == <<x>> \o w
              L == IF Len(w) + 1 > setting.cap THEN setting.cap ELSE Len(w) + 1
  <1>1. Dict(w, T)
    BY WithoutIs
  <1>2. x \in B /\ x.session = s
    BY DEF Affinity!Pin
  <1>3. n = SubSeq(f, 1, IF Len(f) > setting.cap THEN setting.cap ELSE Len(f))
    BY DEF Affinity!Noted, Affinity!Fitting
  <1>4. w \in Seq(B) /\ Len(w) \in Nat
    BY <1>1, LenProperties DEF Dict, Bindings
  <1>5. \A j \in 1 .. Len(w) : w[j].session # s
    BY WithoutKeepsOthers
  <1>. HIDE DEF w, x, n, B
  <1>6. /\ f \in Seq(B) /\ Len(f) = Len(w) + 1
        /\ \A j \in 1 .. Len(w) + 1 : f[j] = IF j = 1 THEN x ELSE w[j - 1]
    <2>1. <<x>> \in Seq(B) /\ Len(<<x>>) = 1 /\ <<x>>[1] = x
      BY <1>2
    <2>2. /\ f \in Seq(B) /\ Len(f) = 1 + Len(w)
          /\ \A j \in 1 .. 1 + Len(w) : f[j] = IF j <= 1 THEN <<x>>[j] ELSE w[j - 1]
      BY <1>4, <2>1, ConcatProperties
    <2>. HIDE DEF f
    <2>3. SUFFICES ASSUME NEW j \in 1 .. Len(w) + 1 PROVE f[j] = IF j = 1 THEN x ELSE w[j - 1]
      BY <1>4, <2>2
    <2>4. f[j] = IF j <= 1 THEN <<x>>[j] ELSE w[j - 1]
      BY <1>4, <2>2
    <2>. QED BY <1>4, <2>1, <2>4
  <1>. HIDE DEF f
  <1>7. L \in 0 .. Len(w) + 1 /\ n = SubSeq(f, 1, L)
    BY <1>3, <1>4, <1>6
  <1>8. Len(n) = L /\ n \in Seq(B) /\ \A j \in 1 .. L : n[j] = f[j]
    <2>. HIDE DEF L
    <2>1. L \in Int /\ \A j \in 1 .. L : f[j] \in B
      BY <1>4, <1>6, <1>7, ElementOfSeq
    <2>2. /\ n \in Seq(B) /\ Len(n) = IF 1 <= L THEN L - 1 + 1 ELSE 0
          /\ \A j \in 1 .. L - 1 + 1 : n[j] = f[1 + j - 1]
      BY <1>7, <2>1, SubSeqProperties
    <2>. QED BY <1>4, <1>7, <2>1, <2>2
  <1>9. \A j \in 1 .. L : n[j] = IF j = 1 THEN x ELSE w[j - 1]
    BY <1>4, <1>6, <1>7, <1>8
  <1>10. OneEach(n)
    <2>1. SUFFICES ASSUME NEW i \in 1 .. L, NEW j \in 1 .. L, n[i].session = n[j].session, i < j
                   PROVE  FALSE
      BY <1>4, <1>7, <1>8 DEF OneEach
    <2>2. j - 1 \in 1 .. Len(w) /\ n[j] = w[j - 1]
      BY <1>4, <1>7, <1>9, <2>1
    <2>3. CASE i = 1
      BY <1>2, <1>5, <1>9, <2>1, <2>2, <2>3
    <2>4. CASE i # 1
      <3>1. i - 1 \in 1 .. Len(w) /\ n[i] = w[i - 1]
        BY <1>4, <1>7, <1>9, <2>4
      <3>2. i - 1 = j - 1
        BY <1>1, <2>1, <2>2, <3>1 DEF Dict, OneEach
      <3>. QED BY <2>1, <3>2
    <2>. QED BY <2>3, <2>4
  <1>. QED BY <1>8, <1>9, <1>10 DEF Dict, Bindings, B, n, w, x

\* Nobody takes a bound session out but itself, or time.
LEMMA BoundShrinks ==
  ASSUME NEW T, NEW p, Dict(p, T), NEW w, Len(w) \in Nat, NEW a \in 1 .. Len(p) + 1,
         Shrunk(w, p, a), NEW s, NEW to, NEW left, NEW others, Bound(p, s, to, left, others),
         a <= Len(p) => p[a].session # s \/ p[a].left # left
  PROVE  Bound(w, s, to, left, others)
  <1>1. Len(p) \in Nat
    BY LenProperties DEF Dict, Bindings
  <1>2. PICK i \in 1 .. Len(p) :
        /\ p[i] = [session |-> s, to |-> to, left |-> left]
        /\ \A j \in 1 .. i - 1 : p[j].session \in others
    BY DEF Bound
  <1>3. i # a
    BY <1>1, <1>2
  <1>. DEFINE k == IF i < a THEN i ELSE i - 1
  <1>4. k \in 1 .. Len(w) /\ w[k] = p[i]
    BY <1>1, <1>3 DEF Shrunk
  <1>5. ASSUME NEW j \in 1 .. k - 1 PROVE w[j].session \in others
    <2>. DEFINE m == IF j < a THEN j ELSE j + 1
    <2>1. m \in 1 .. i - 1
      BY <1>1, <1>3
    <2>2. j \in 1 .. Len(w)
      BY <1>1, <1>4
    <2>3. w[j] = p[m]
      BY <2>2 DEF Shrunk
    <2>. QED BY <1>2, <2>1, <2>3
  <1>. QED BY <1>2, <1>4, <1>5 DEF Bound

\* As long as there is room for the others, one more of them crowds nobody out.
LEMMA BoundNoted ==
  ASSUME NEW T, NEW p, Dict(p, T), NEW x \in Sessions, NEW y \in T,
         setting.cap \in Nat, setting.ttl \in Nat,
         NEW s, NEW to, NEW left, NEW others, Bound(p, s, to, left, others), s # x,
         IsFiniteSet(others \cup {x}), Cardinality(others \cup {x}) < setting.cap
  PROVE  Bound(Affinity!Noted(p, x, y), s, to, left, others \cup {x})
  <1>. DEFINE w == Affinity!Without(p, x)
              n == Affinity!Noted(p, x, y)
              f(j) == IF j = 1 THEN x ELSE w[j - 1].session
  <1>1. PICK a \in 1 .. Len(p) + 1 : Shrunk(w, p, a) /\ (a <= Len(p) => p[a].session = x)
    BY WithoutIs
  <1>2. Len(p) \in Nat /\ Len(w) \in Nat /\ Dict(w, T)
    BY WithoutIs, LenProperties DEF Dict, Bindings
  <1>3. Bound(w, s, to, left, others)
    <2>. HIDE DEF w
    <2>1. a <= Len(p) => p[a].session # s
      BY <1>1
    <2>. QED BY <1>1, <1>2, <2>1, BoundShrinks
  <1>4. /\ Dict(n, T)
        /\ Len(n) = IF Len(w) + 1 > setting.cap THEN setting.cap ELSE Len(w) + 1
        /\ \A j \in 1 .. Len(n) : n[j] = IF j = 1 THEN Affinity!Pin(x, y) ELSE w[j - 1]
    BY NotedIs
  <1>. HIDE DEF w, n
  <1>5. PICK i \in 1 .. Len(w) :
        /\ w[i] = [session |-> s, to |-> to, left |-> left]
        /\ \A j \in 1 .. i - 1 : w[j].session \in others
    BY <1>3 DEF Bound
  <1>6. i < setting.cap
    <2>. DEFINE g == [j \in 1 .. i |-> f(j)]
    <2>1. \A j \in 1 .. Len(w) : w[j].session # x
      BY WithoutKeepsOthers DEF w
    <2>2. g \in Injection(1 .. i, others \cup {x})
      <3>1. g \in [1 .. i -> others \cup {x}]
        BY <1>2, <1>5
      <3>2. ASSUME NEW j \in 1 .. i, NEW k \in 1 .. i, g[j] = g[k], j < k PROVE FALSE
        <4>1. k - 1 \in 1 .. Len(w) /\ g[k] = w[k - 1].session
          BY <1>2, <3>2
        <4>2. CASE j = 1
          BY <2>1, <3>2, <4>1, <4>2
        <4>3. CASE j # 1
          <5>1. j - 1 \in 1 .. Len(w) /\ g[j] = w[j - 1].session
            BY <1>2, <4>3
          <5>2. j - 1 = k - 1
            BY <1>2, <3>2, <4>1, <5>1 DEF Dict, OneEach
          <5>. QED BY <3>2, <5>2
        <4>. QED BY <4>2, <4>3
      <3>. HIDE DEF g
      <3>3. \A j, k \in 1 .. i : g[j] = g[k] => j = k
        BY <3>2
      <3>. QED BY <3>1, <3>3 DEF Injection, IsInjective
    <2>3. IsFiniteSet(1 .. i) /\ Cardinality(1 .. i) = i
      BY <1>2, FS_Interval
    <2>4. i <= Cardinality(others \cup {x})
      BY <2>2, <2>3, FS_Injection
    <2>5. Cardinality(others \cup {x}) \in Nat
      BY FS_CardinalityType
    <2>. QED BY <1>2, <2>4, <2>5
  <1>7. i + 1 \in 1 .. Len(n) /\ n[i + 1] = w[i]
    <2>1. i + 1 \in 1 .. Len(n) /\ i + 1 # 1 /\ (i + 1) - 1 = i
      BY <1>2, <1>4, <1>6
    <2>2. n[i + 1] = IF i + 1 = 1 THEN Affinity!Pin(x, y) ELSE w[(i + 1) - 1]
      BY <1>4, <2>1
    <2>. QED BY <2>1, <2>2
  <1>8. ASSUME NEW j \in 1 .. (i + 1) - 1 PROVE n[j].session \in others \cup {x}
    <2>1. j \in 1 .. Len(n) /\ n[j] = IF j = 1 THEN Affinity!Pin(x, y) ELSE w[j - 1]
      BY <1>2, <1>4, <1>7
    <2>2. CASE j = 1
      BY <2>1, <2>2 DEF Affinity!Pin
    <2>3. CASE j # 1
      BY <1>2, <1>5, <2>1, <2>3
    <2>. QED BY <2>2, <2>3
  <1>. QED BY <1>5, <1>7, <1>8 DEF Bound, n

\* The binding of a session that is bound is the one a lookup finds.
LEMMA LiveIs ==
  ASSUME NEW T, NEW p, Dict(p, T), NEW s, NEW to, NEW left \in Nat, left > 0, NEW others,
         Bound(p, s, to, left, others)
  PROVE  Affinity!Live(p, s) # {} /\ \A q \in Affinity!Live(p, s) : q.to = to
  <1>1. Len(p) \in Nat /\ DOMAIN p = 1 .. Len(p)
    BY LenProperties DEF Dict, Bindings
  <1>2. PICK i \in 1 .. Len(p) : p[i] = [session |-> s, to |-> to, left |-> left]
    BY DEF Bound
  <1>3. p[i] \in Affinity!Live(p, s)
    BY <1>1, <1>2 DEF Affinity!Live, Affinity!Range
  <1>4. ASSUME NEW q \in Affinity!Live(p, s) PROVE q.to = to
    <2>1. q \in Affinity!Range(p) /\ q.session = s
      BY DEF Affinity!Live
    <2>2. PICK j \in 1 .. Len(p) : q = p[j]
      BY <1>1, <2>1 DEF Affinity!Range
    <2>3. j = i
      BY <1>2, <2>1, <2>2 DEF Dict, OneEach
    <2>. QED BY <1>2, <2>2, <2>3
  <1>. QED BY <1>3, <1>4

\* An order of a set has each of its members.
LEMMA OrderIs ==
  ASSUME NEW S, IsFiniteSet(S), NEW o \in Affinity!SetToSeqs(S)
  PROVE  /\ o \in Seq(S) /\ (S # {} => o # <<>>)
         /\ \A x \in S : \E i \in 1 .. Len(o) : o[i] = x
  <1>. DEFINE n == Cardinality(S)
  <1>1. n \in Nat
    BY FS_CardinalityType
  <1>2. o \in [1 .. n -> S] /\ \A i, j \in 1 .. n : i # j => o[i] # o[j]
    BY SameCardinality DEF Affinity!SetToSeqs
  <1>. HIDE DEF n
  <1>3. o \in Seq(S) /\ Len(o) = n
    BY <1>1, <1>2
  <1>4. o \in Injection(1 .. n, S)
    BY <1>2 DEF Injection, IsInjective
  <1>5. IsFiniteSet(1 .. n) /\ Cardinality(1 .. n) = n
    BY <1>1, FS_Interval
  <1>6. o \in Surjection(1 .. n, S)
    BY <1>4, <1>5, FS_Injection DEF n
  <1>7. \A x \in S : \E i \in 1 .. n : o[i] = x
    BY <1>6 DEF Surjection
  <1>8. S # {} => o # <<>>
    <2>1. SUFFICES ASSUME S # {}, o = <<>> PROVE FALSE
      OBVIOUS
    <2>2. PICK x \in S : TRUE
      BY <2>1
    <2>3. PICK i \in 1 .. n : o[i] = x
      BY <1>7
    <2>4. Len(o) = 0
      BY <2>1
    <2>. QED BY <1>3, <2>3, <2>4
  <1>. QED BY <1>3, <1>7, <1>8

LEMMA Inserted ==
  ASSUME NEW S, NEW q \in Seq(S), NEW at \in 1 .. Len(q) + 1, NEW x \in S
  PROVE  /\ Affinity!InsertAt(q, at, x) \in Seq(S)
         /\ Len(Affinity!InsertAt(q, at, x)) = Len(q) + 1
         /\ at = 1 => Affinity!InsertAt(q, at, x)[1] = x
  <1>. DEFINE b == SubSeq(q, 1, at - 1)
              e == SubSeq(q, at, Len(q))
  <1>1. Len(q) \in Nat /\ \A j \in 1 .. Len(q) : q[j] \in S
    BY LenProperties, ElementOfSeq
  <1>2. b \in Seq(S) /\ Len(b) = at - 1
    <2>1. \A j \in 1 .. at - 1 : q[j] \in S
      BY <1>1
    <2>. QED BY <1>1, <2>1, SubSeqProperties
  <1>3. e \in Seq(S) /\ Len(e) = Len(q) + 1 - at
    <2>1. \A j \in at .. Len(q) : q[j] \in S
      BY <1>1
    <2>2. e \in Seq(S) /\ Len(e) = IF at <= Len(q) THEN Len(q) - at + 1 ELSE 0
      BY <1>1, <2>1, SubSeqProperties
    <2>. QED BY <1>1, <2>2
  <1>4. <<x>> \in Seq(S) /\ Len(<<x>>) = 1 /\ <<x>>[1] = x
    OBVIOUS
  <1>5. Affinity!InsertAt(q, at, x) = (b \o <<x>>) \o e
    BY DEF Affinity!InsertAt
  <1>. HIDE DEF b, e
  <1>6. /\ b \o <<x>> \in Seq(S) /\ Len(b \o <<x>>) = Len(b) + 1
        /\ \A i \in 1 .. Len(b) + 1 : (b \o <<x>>)[i] = IF i <= Len(b) THEN b[i] ELSE <<x>>[i - Len(b)]
    BY <1>2, <1>4, ConcatProperties
  <1>7. /\ (b \o <<x>>) \o e \in Seq(S) /\ Len((b \o <<x>>) \o e) = Len(b \o <<x>>) + Len(e)
        /\ \A i \in 1 .. Len(b \o <<x>>) + Len(e) :
              ((b \o <<x>>) \o e)[i] = IF i <= Len(b \o <<x>>) THEN (b \o <<x>>)[i] ELSE e[i - Len(b \o <<x>>)]
    BY <1>3, <1>6, ConcatProperties
  <1>8. Len((b \o <<x>>) \o e) = Len(q) + 1
    BY <1>1, <1>2, <1>3, <1>6, <1>7
  <1>9. ASSUME at = 1 PROVE ((b \o <<x>>) \o e)[1] = x
    <2>1. Len(b) = 0 /\ Len(b \o <<x>>) = 1 /\ 1 \in 1 .. Len(b \o <<x>>) + Len(e)
      BY <1>1, <1>2, <1>3, <1>6, <1>9
    <2>2. (b \o <<x>>)[1] = x
      BY <1>4, <1>6, <2>1
    <2>. QED BY <1>7, <2>1, <2>2
  <1>. QED BY <1>5, <1>7, <1>8, <1>9

\* What is bound leads, and an order stays an order.
LEMMA FrontedIs ==
  ASSUME NEW S, NEW o \in Seq(S), NEW to, NEW front \in BOOLEAN
  PROVE  /\ Affinity!Fronted(o, to, front) \in Seq(S)
         /\ Len(Affinity!Fronted(o, to, front)) = Len(o)
         /\ ~front /\ (\E i \in 1 .. Len(o) : o[i] = to) => Affinity!Fronted(o, to, front)[1] = to
  <1>. DEFINE at == IF front THEN 2 ELSE 1
              here == {i \in DOMAIN o : i > at /\ o[i] = to}
              i == CHOOSE i \in here : TRUE
              q == Affinity!RemoveAt(o, i)
  <1>1. Len(o) \in Nat /\ DOMAIN o = 1 .. Len(o)
    BY LenProperties
  <1>2. Affinity!Fronted(o, to, front) = IF here = {} THEN o ELSE Affinity!InsertAt(q, at, to)
    BY DEF Affinity!Fronted
  <1>3. CASE here = {}
    <2>1. ASSUME ~front, NEW k \in 1 .. Len(o), o[k] = to PROVE o[1] = to
      <3>1. ~(k > 1)
        BY <1>1, <1>3, <2>1
      <3>. QED BY <1>1, <2>1, <3>1
    <2>. QED BY <1>2, <1>3, <2>1
  <1>4. CASE here # {}
    <2>1. i \in here
      BY <1>4
    <2>2. i \in 1 .. Len(o) /\ i > at /\ o[i] = to
      BY <1>1, <2>1
    <2>. HIDE DEF i
    <2>3. q \in Seq(S) /\ Len(q) = Len(o) - 1 /\ to \in S
      BY <2>2, Removed, ElementOfSeq
    <2>4. at \in 1 .. Len(q) + 1 /\ (at = 1 <=> ~front)
      BY <1>1, <2>2, <2>3
    <2>. HIDE DEF at, q, here
    <2>5. /\ Affinity!InsertAt(q, at, to) \in Seq(S)
          /\ Len(Affinity!InsertAt(q, at, to)) = Len(q) + 1
          /\ at = 1 => Affinity!InsertAt(q, at, to)[1] = to
      BY <2>3, <2>4, Inserted
    <2>. QED BY <1>1, <1>2, <1>4, <2>3, <2>4, <2>5
  <1>. QED BY <1>3, <1>4

LEMMA StickyIs ==
  ASSUME NEW S, NEW o \in Seq(S), NEW p, NEW s, NEW front \in BOOLEAN
  PROVE  /\ Affinity!Sticky(o, p, s, front) \in Seq(S)
         /\ o # <<>> => Affinity!Sticky(o, p, s, front) # <<>>
  <1>. DEFINE to == (CHOOSE q \in Affinity!Live(p, s) : TRUE).to
  <1>1. \/ Affinity!Sticky(o, p, s, front) = o
        \/ Affinity!Sticky(o, p, s, front) = Affinity!Fronted(o, to, front)
    BY DEF Affinity!Sticky
  <1>. HIDE DEF to
  <1>2. Affinity!Fronted(o, to, front) \in Seq(S) /\ Len(Affinity!Fronted(o, to, front)) = Len(o)
    BY FrontedIs
  <1>3. o # <<>> => Len(o) # 0
    BY EmptySeq
  <1>4. Len(<<>>) = 0
    OBVIOUS
  <1>. QED BY <1>1, <1>2, <1>3, <1>4

LEMMA StickyLeads ==
  ASSUME NEW T, NEW p, Dict(p, T), NEW s, s # None, NEW to, NEW left \in Nat, left > 0, NEW others,
         Bound(p, s, to, left, others), NEW S, NEW o \in Seq(S), \E i \in 1 .. Len(o) : o[i] = to
  PROVE  Affinity!Sticky(o, p, s, FALSE)[1] = to
  <1>1. Affinity!Live(p, s) # {} /\ \A q \in Affinity!Live(p, s) : q.to = to
    BY LiveIs
  <1>2. (CHOOSE q \in Affinity!Live(p, s) : TRUE).to = to
    BY <1>1
  <1>3. Affinity!Sticky(o, p, s, FALSE) = Affinity!Fronted(o, to, FALSE)
    BY <1>1, <1>2 DEF Affinity!Sticky
  <1>4. FALSE \in BOOLEAN /\ ~FALSE
    OBVIOUS
  <1>. QED BY <1>3, <1>4, FrontedIs, Zenon

-----------------------------------------------------------------------------
(* Requests and the rest of the gateway *)

\* A request under way knows the deployments that are left and keys of the first.
Work ==
    {q \in [session : Sessions \cup {None}, todo : Seq(Backends), keys : Seq(Keys)] :
        /\ q.todo # <<>> /\ q.keys # <<>>
        /\ \A i \in 1 .. Len(q.keys) : q.keys[i] \in Serves[q.todo[1]]}

Service == [dep : Backends \cup {None}, key : Keys \cup {None}, left : Nat,
            others : SUBSET Sessions, room : Nat]

SessionTypes ==
    /\ Affinity!Proper
    /\ setting \in Settings
    /\ Dict(keyPins, Keys) /\ Dict(depPins, Backends)
    /\ turn \in [Turns -> {Affinity!NoRequest} \cup Work]
    /\ served \in [Sessions -> Service]
    /\ \A s \in Sessions : IsFiniteSet(served[s].others)

\* A session that is due is bound to what served it last in both dictionaries.
DueAreBound ==
    \A s \in Sessions : Affinity!Due(s) =>
        /\ served[s].dep \in Backends /\ served[s].key \in Serves[served[s].dep]
        /\ Bound(keyPins, s, served[s].key, served[s].left, served[s].others)
        /\ Bound(depPins, s, served[s].dep, served[s].left, served[s].others)

\* A dictionary in which at most an expired binding is missing.
Lapsed(w, p) ==
    \E a \in 1 .. Len(p) + 1 : Shrunk(w, p, a) /\ (a <= Len(p) => p[a].left = 0)

\* The first of some places.
LEMMA FirstOf ==
  ASSUME NEW S \in SUBSET Nat, S # {}
  PROVE  (CHOOSE i \in S : \A j \in S : i <= j) \in S
  <1>1. \E i \in S : \A j \in S : ~ (<<j, i>> \in OpToRel(<, Nat))
    <2>. HIDE DEF OpToRel
    <2>. QED BY NatLessThanWellFounded, WFMin
  <1>2. PICK i \in S : \A j \in S : ~ (<<j, i>> \in OpToRel(<, Nat))
    BY <1>1
  <1>3. \A j \in S : ~ (j < i)
    BY <1>2 DEF OpToRel
  <1>4. \A j \in S : i <= j
    BY <1>3
  <1>. QED BY <1>4

\* What the loop over the deployments does until the next attempt.
LEMMA ContinueIs ==
  ASSUME SessionTypes, NEW r \in Turns, NEW s \in Sessions \cup {None},
         NEW todo \in Seq(Backends), Affinity!Continue(r, s, todo)
  PROVE  /\ turn' \in [Turns -> {Affinity!NoRequest} \cup Work]
         /\ Dict(keyPins', Keys) /\ Lapsed(keyPins', keyPins)
  <1>. DEFINE open == {i \in DOMAIN todo : todo[i] \notin down' /\ ~(Serves[todo[i]] \subseteq resting')}
              first == CHOOSE i \in open : \A j \in open : i <= j
              known == IF setting.on THEN s ELSE None
  <1>1. \/ open = {} /\ turn' = [turn EXCEPT ![r] = Affinity!NoRequest] /\ UNCHANGED keyPins
        \/ /\ open # {} /\ keyPins' = Affinity!Pruned(keyPins, known)
           /\ \E order \in Affinity!SetToSeqs(Serves[todo[first]] \ resting') :
                turn' = [turn EXCEPT ![r] =
                    [session |-> s, todo |-> SubSeq(todo, first, Len(todo)),
                     keys |-> Affinity!Sticky(order, keyPins, known, FALSE)]]
    BY DEF Affinity!Continue
  <1>2. Len(todo) \in Nat /\ DOMAIN todo = 1 .. Len(todo)
    BY LenProperties
  <1>3. Len(keyPins) \in Nat /\ Dict(keyPins, Keys)
    BY LenProperties DEF SessionTypes, Dict, Bindings
  <1>4. turn \in [Turns -> {Affinity!NoRequest} \cup Work]
    BY DEF SessionTypes
  <1>5. CASE open = {} /\ turn' = [turn EXCEPT ![r] = Affinity!NoRequest] /\ UNCHANGED keyPins
    <2>1. turn' \in [Turns -> {Affinity!NoRequest} \cup Work]
      BY <1>4, <1>5
    <2>2. Lapsed(keyPins, keyPins)
      BY <1>3, Untouched, Zenon DEF Lapsed
    <2>. QED BY <1>3, <1>5, <2>1, <2>2
  <1>6. ASSUME open # {}, keyPins' = Affinity!Pruned(keyPins, known),
               NEW order \in Affinity!SetToSeqs(Serves[todo[first]] \ resting'),
               turn' = [turn EXCEPT ![r] =
                    [session |-> s, todo |-> SubSeq(todo, first, Len(todo)),
                     keys |-> Affinity!Sticky(order, keyPins, known, FALSE)]]
        PROVE  /\ turn' \in [Turns -> {Affinity!NoRequest} \cup Work]
               /\ Dict(keyPins', Keys) /\ Lapsed(keyPins', keyPins)
    <2>1. first \in open
      <3>1. open \in SUBSET Nat
        BY <1>2
      <3>. HIDE DEF open
      <3>. QED BY <1>6, <3>1, FirstOf
    <2>2. first \in 1 .. Len(todo) /\ ~(Serves[todo[first]] \subseteq resting')
      BY <1>2, <2>1
    <2>. HIDE DEF open, first, known
    <2>. DEFINE K == Serves[todo[first]] \ resting'
                ks == Affinity!Sticky(order, keyPins, known, FALSE)
                td == SubSeq(todo, first, Len(todo))
    <2>3. Serves[todo[first]] \subseteq Keys /\ IsFiniteSet(Keys)
      <3>1. todo[first] \in Backends
        BY <2>2, ElementOfSeq
      <3>. QED BY <3>1, SameFiniteness DEF SessionTypes, Affinity!Proper
    <2>4. IsFiniteSet(K) /\ K # {} /\ K \subseteq Keys /\ K \subseteq Serves[todo[first]]
      BY <2>2, <2>3, FS_Subset
    <2>5. order \in Seq(K) /\ order # <<>>
      <3>. HIDE DEF K
      <3>1. order \in Affinity!SetToSeqs(K)
        BY DEF K
      <3>. QED BY <2>4, <3>1, OrderIs
    <2>6. ks \in Seq(K) /\ ks # <<>>
      <3>. HIDE DEF K
      <3>. QED BY <2>5, StickyIs
    <2>7. td \in Seq(Backends) /\ td # <<>> /\ td[1] = todo[first]
      <3>1. \A i \in first .. Len(todo) : todo[i] \in Backends
        BY <1>2, <2>2, ElementOfSeq
      <3>2. /\ td \in Seq(Backends)
            /\ Len(td) = IF first <= Len(todo) THEN Len(todo) - first + 1 ELSE 0
            /\ \A i \in 1 .. Len(todo) - first + 1 : td[i] = todo[first + i - 1]
        BY <1>2, <2>2, <3>1, SubSeqProperties
      <3>3. td # <<>> /\ 1 \in 1 .. Len(todo) - first + 1
        BY <1>2, <2>2, <3>2
      <3>4. first + 1 - 1 = first
        BY <2>2
      <3>. QED BY <3>2, <3>3, <3>4
    <2>. DEFINE q == [session |-> s, todo |-> td, keys |-> ks]
    <2>. HIDE DEF td, ks, K
    <2>8. ks \in Seq(Keys) /\ \A i \in 1 .. Len(ks) : ks[i] \in Serves[td[1]]
      BY <2>4, <2>6, <2>7, SeqMonotonic, ElementOfSeq
    <2>9. q \in Work
      BY <2>6, <2>7, <2>8 DEF Work
    <2>10. turn' = [turn EXCEPT ![r] = q]
      BY <1>6 DEF td, ks
    <2>. HIDE DEF q
    <2>11. turn' \in [Turns -> {Affinity!NoRequest} \cup Work]
      BY <1>4, <2>9, <2>10
    <2>12. Dict(Affinity!Pruned(keyPins, known), Keys) /\ Lapsed(Affinity!Pruned(keyPins, known), keyPins)
      BY <1>3, PrunedIs DEF Lapsed
    <2>. QED BY <1>6, <2>11, <2>12
  <1>. QED BY <1>1, <1>5, <1>6

-----------------------------------------------------------------------------
(* Each step keeps the bindings of the sessions that are due *)

SessionInv == SessionTypes /\ DueAreBound

\* What a setting is.
LEMMA SettingIs ==
  ASSUME SessionTypes
  PROVE  /\ setting.cap \in Nat /\ setting.ttl \in Nat /\ setting.on \in BOOLEAN
         /\ None \notin Sessions
         /\ \A d \in Backends : Serves[d] \subseteq Keys
  BY DEF SessionTypes, Affinity!Proper

\* The sessions that are due and what they are bound to, when nobody was served.
LEMMA DueStay ==
  ASSUME SessionInv, UNCHANGED served, NEW w, NEW v, Dict(w, Keys), Dict(v, Backends),
         Lapsed(w, keyPins), Lapsed(v, depPins), NEW s \in Sessions, Affinity!Due(s)
  PROVE  /\ Bound(w, s, served[s].key, served[s].left, served[s].others)
         /\ Bound(v, s, served[s].dep, served[s].left, served[s].others)
  <1>1. /\ Bound(keyPins, s, served[s].key, served[s].left, served[s].others)
        /\ Bound(depPins, s, served[s].dep, served[s].left, served[s].others)
        /\ Dict(keyPins, Keys) /\ Dict(depPins, Backends)
    BY DEF SessionInv, SessionTypes, DueAreBound
  <1>a. served[s].left \in Nat /\ served[s].left # 0
    <2>1. served[s] \in Service /\ served[s].left > 0
      BY DEF SessionInv, SessionTypes, Affinity!Due
    <2>. QED BY <2>1 DEF Service
  <1>2. Len(w) \in Nat /\ Len(v) \in Nat
    BY LenProperties DEF Dict, Bindings
  <1>3. Bound(w, s, served[s].key, served[s].left, served[s].others)
    <2>1. PICK a \in 1 .. Len(keyPins) + 1 : Shrunk(w, keyPins, a) /\ (a <= Len(keyPins) => keyPins[a].left = 0)
      BY DEF Lapsed
    <2>. QED BY <1>1, <1>2, <1>a, <2>1, BoundShrinks
  <1>4. Bound(v, s, served[s].dep, served[s].left, served[s].others)
    <2>1. PICK a \in 1 .. Len(depPins) + 1 : Shrunk(v, depPins, a) /\ (a <= Len(depPins) => depPins[a].left = 0)
      BY DEF Lapsed
    <2>. QED BY <1>1, <1>2, <1>a, <2>1, BoundShrinks
  <1>. QED BY <1>3, <1>4

LEMMA NothingLapsed ==
  ASSUME NEW T, NEW p, Dict(p, T) PROVE Lapsed(p, p)
  <1>1. Len(p) \in Nat
    BY LenProperties DEF Dict, Bindings
  <1>. QED BY <1>1, Untouched, Zenon DEF Lapsed

\* Nobody was served and nothing but time took from the dictionaries.
LEMMA Unserved ==
  ASSUME SessionInv, UNCHANGED served, setting' \in Settings,
         turn' \in [Turns -> {Affinity!NoRequest} \cup Work],
         Dict(keyPins', Keys), Dict(depPins', Backends),
         Lapsed(keyPins', keyPins), Lapsed(depPins', depPins)
  PROVE  SessionInv'
  <1>1. SessionTypes'
    BY DEF SessionInv, SessionTypes, Affinity!Proper, Dict, Bindings, OneEach, Work, Affinity!NoRequest
  <1>2. ASSUME NEW s \in Sessions, Affinity!Due(s)'
        PROVE  /\ served'[s].dep \in Backends /\ served'[s].key \in Serves[served'[s].dep]
               /\ Bound(keyPins', s, served'[s].key, served'[s].left, served'[s].others)
               /\ Bound(depPins', s, served'[s].dep, served'[s].left, served'[s].others)
    <2>1. Affinity!Due(s)
      BY <1>2 DEF Affinity!Due
    <2>2. served[s].dep \in Backends /\ served[s].key \in Serves[served[s].dep]
      BY <2>1 DEF SessionInv, DueAreBound
    <2>3. /\ Bound(keyPins', s, served[s].key, served[s].left, served[s].others)
          /\ Bound(depPins', s, served[s].dep, served[s].left, served[s].others)
      BY <2>1, DueStay
    <2>. QED BY <2>2, <2>3
  <1>3. DueAreBound'
    BY <1>2 DEF DueAreBound, Bound
  <1>. QED BY <1>1, <1>3 DEF SessionInv

\* A request is planned.
LEMMA SessionBegin ==
  ASSUME SessionInv, NEW r \in Turns, NEW s \in Sessions, NEW front \in BOOLEAN,
         Affinity!Begin(r, s, front)
  PROVE  SessionInv' /\ Lapsed(keyPins', keyPins) /\ Lapsed(depPins', depPins)
  <1>. DEFINE known == IF setting.on THEN s ELSE None
  <1>1. /\ UNCHANGED <<setting, served>> /\ depPins' = Affinity!Pruned(depPins, known)
        /\ \E order \in Affinity!SetToSeqs(Backends) :
            Affinity!Continue(r, known, IF \E p \in Affinity!Live(depPins, known) : p.to \in down THEN order
                               ELSE Affinity!Sticky(order, depPins, known, front))
    BY DEF Affinity!Begin
  <1>2. known \in Sessions \cup {None}
    OBVIOUS
  <1>. HIDE DEF known
  <1>3. SessionTypes /\ IsFiniteSet(Backends) /\ Dict(depPins, Backends) /\ setting \in Settings
    BY SameFiniteness DEF SessionInv, SessionTypes, Affinity!Proper
  <1>4. PICK order \in Affinity!SetToSeqs(Backends) :
            Affinity!Continue(r, known, IF \E p \in Affinity!Live(depPins, known) : p.to \in down THEN order
                               ELSE Affinity!Sticky(order, depPins, known, front))
    BY <1>1
  <1>. DEFINE todo == IF \E p \in Affinity!Live(depPins, known) : p.to \in down THEN order
                      ELSE Affinity!Sticky(order, depPins, known, front)
  <1>5. todo \in Seq(Backends)
    <2>1. order \in Seq(Backends)
      BY <1>3, OrderIs
    <2>2. Affinity!Sticky(order, depPins, known, front) \in Seq(Backends)
      BY <2>1, StickyIs
    <2>. QED BY <2>1, <2>2
  <1>6. Affinity!Continue(r, known, todo)
    BY <1>4
  <1>. HIDE DEF todo
  <1>7. /\ turn' \in [Turns -> {Affinity!NoRequest} \cup Work]
        /\ Dict(keyPins', Keys) /\ Lapsed(keyPins', keyPins)
    BY <1>2, <1>3, <1>5, <1>6, ContinueIs
  <1>8. Dict(depPins', Backends) /\ Lapsed(depPins', depPins)
    <2>1. Dict(Affinity!Pruned(depPins, known), Backends) /\ Lapsed(Affinity!Pruned(depPins, known), depPins)
      BY <1>3, PrunedIs DEF Lapsed
    <2>. QED BY <1>1, <2>1
  <1>9. UNCHANGED served /\ setting' \in Settings
    BY <1>1, <1>3
  <1>. QED BY <1>7, <1>8, <1>9, Unserved

LEMMA TailIs ==
  ASSUME NEW S, NEW q \in Seq(S), Len(q) > 1
  PROVE  /\ Tail(q) \in Seq(S) /\ Tail(q) # <<>>
         /\ \A i \in 1 .. Len(Tail(q)) : i + 1 \in 1 .. Len(q) /\ Tail(q)[i] = q[i + 1]
  <1>. DEFINE t == Tail(q)
              n == Len(q)
  <1>1. n \in Nat /\ q # <<>>
    BY EmptySeq, LenProperties
  <1>2. t \in Seq(S) /\ Len(t) = n - 1 /\ \A i \in 1 .. Len(t) : t[i] = q[i + 1]
    BY <1>1, HeadTailProperties
  <1>. HIDE DEF t, n
  <1>3. Len(t) # 0
    BY <1>1, <1>2 DEF n
  <1>4. t # <<>>
    BY <1>3, Len(<<>>) = 0
  <1>5. \A i \in 1 .. Len(t) : i + 1 \in 1 .. n
    BY <1>1, <1>2
  <1>. QED BY <1>2, <1>4, <1>5 DEF t, n

\* An attempt fails.
LEMMA SessionFails ==
  ASSUME SessionInv, NEW r \in Turns, Affinity!AttemptFails(r)
  PROVE  SessionInv' /\ Lapsed(keyPins', keyPins) /\ Lapsed(depPins', depPins)
  <1>1. /\ turn[r] # Affinity!NoRequest /\ UNCHANGED <<depPins, setting, served>>
        /\ \/ /\ Len(turn[r].keys) > 1
              /\ turn' = [turn EXCEPT ![r].keys = Tail(@)] /\ UNCHANGED keyPins
           \/ Affinity!Continue(r, turn[r].session, Tail(turn[r].todo))
    BY DEF Affinity!AttemptFails
  <1>2. /\ SessionTypes /\ turn \in [Turns -> {Affinity!NoRequest} \cup Work] /\ setting \in Settings
        /\ Dict(keyPins, Keys) /\ Dict(depPins, Backends)
    BY DEF SessionInv, SessionTypes
  <1>3. turn[r] \in Work
    BY <1>1, <1>2
  <1>4. Lapsed(depPins', depPins) /\ Dict(depPins', Backends) /\ UNCHANGED served /\ setting' \in Settings
    BY <1>1, <1>2, NothingLapsed
  <1>5. CASE /\ Len(turn[r].keys) > 1
             /\ turn' = [turn EXCEPT ![r].keys = Tail(@)] /\ UNCHANGED keyPins
    <2>. DEFINE q == [turn[r] EXCEPT !.keys = Tail(@)]
    <2>1. turn[r].keys \in Seq(Keys) /\ turn[r].keys # <<>> /\ Len(turn[r].keys) \in Nat
      BY <1>3, LenProperties DEF Work
    <2>a. Len(turn[r].keys) > 1
      BY <1>5
    <2>2. /\ Tail(turn[r].keys) \in Seq(Keys) /\ Tail(turn[r].keys) # <<>>
          /\ \A i \in 1 .. Len(Tail(turn[r].keys)) :
                i + 1 \in 1 .. Len(turn[r].keys) /\ Tail(turn[r].keys)[i] = turn[r].keys[i + 1]
      BY <2>1, <2>a, TailIs
    <2>4. \A i \in 1 .. Len(Tail(turn[r].keys)) : Tail(turn[r].keys)[i] \in Serves[turn[r].todo[1]]
      <3>1. ASSUME NEW i \in 1 .. Len(Tail(turn[r].keys))
            PROVE  turn[r].keys[i + 1] \in Serves[turn[r].todo[1]]
        <4>1. i + 1 \in 1 .. Len(turn[r].keys)
          BY <2>2
        <4>. QED BY <1>3, <4>1 DEF Work
      <3>. QED BY <2>2, <3>1
    <2>5. q \in Work
      BY <1>3, <2>2, <2>4 DEF Work
    <2>6. turn' = [turn EXCEPT ![r] = q]
      BY <1>5
    <2>. HIDE DEF q
    <2>7. turn' \in [Turns -> {Affinity!NoRequest} \cup Work]
      BY <1>2, <2>5, <2>6
    <2>8. Lapsed(keyPins', keyPins) /\ Dict(keyPins', Keys)
      BY <1>2, <1>5, NothingLapsed
    <2>. QED BY <1>4, <2>7, <2>8, Unserved
  <1>6. CASE Affinity!Continue(r, turn[r].session, Tail(turn[r].todo))
    <2>1. turn[r].session \in Sessions \cup {None} /\ Tail(turn[r].todo) \in Seq(Backends)
      BY <1>3, HeadTailProperties DEF Work
    <2>2. /\ turn' \in [Turns -> {Affinity!NoRequest} \cup Work]
          /\ Dict(keyPins', Keys) /\ Lapsed(keyPins', keyPins)
      BY <1>2, <1>6, <2>1, ContinueIs
    <2>. QED BY <1>4, <2>2, Unserved
  <1>. QED BY <1>1, <1>5, <1>6

\* The settings are reloaded.
LEMMA SessionReload == ASSUME SessionInv, Affinity!Reload PROVE SessionInv'
  <1>1. UNCHANGED <<keyPins, depPins, turn, served>> /\ setting' \in Settings
    BY DEF Affinity!Reload, Affinity!pinVars
  <1>2. /\ Dict(keyPins, Keys) /\ Dict(depPins, Backends)
        /\ turn \in [Turns -> {Affinity!NoRequest} \cup Work]
    BY DEF SessionInv, SessionTypes
  <1>. QED BY <1>1, <1>2, NothingLapsed, Unserved

LEMMA BoundFirst ==
  ASSUME NEW T, NEW p, Dict(p, T), NEW s \in Sessions, NEW to \in T,
         setting.cap \in Nat, setting.ttl \in Nat, 0 < setting.cap
  PROVE  Bound(Affinity!Noted(p, s, to), s, to, setting.ttl, {})
  <1>. DEFINE n == Affinity!Noted(p, s, to)
              w == Affinity!Without(p, s)
  <1>1. /\ Len(n) = IF Len(w) + 1 > setting.cap THEN setting.cap ELSE Len(w) + 1
        /\ \A j \in 1 .. Len(n) : n[j] = IF j = 1 THEN Affinity!Pin(s, to) ELSE w[j - 1]
    BY NotedIs
  <1>2. Len(w) \in Nat
    BY WithoutIs, LenProperties DEF Dict, Bindings
  <1>. HIDE DEF n, w
  <1>3. 1 \in 1 .. Len(n) /\ n[1] = [session |-> s, to |-> to, left |-> setting.ttl]
    BY <1>1, <1>2 DEF Affinity!Pin
  <1>4. \A j \in 1 .. 1 - 1 : n[j].session \in {}
    OBVIOUS
  <1>5. Bound(n, s, to, setting.ttl, {})
    BY <1>3, <1>4 DEF Bound
  <1>. QED BY <1>5 DEF n

\* What a request under way is tried with.
LEMMA WorkIs ==
  ASSUME SessionTypes, NEW r \in Turns, turn[r] # Affinity!NoRequest
  PROVE  /\ turn[r].session \in Sessions \cup {None} /\ Head(turn[r].todo) \in Backends
         /\ Head(turn[r].keys) \in Serves[Head(turn[r].todo)] /\ Head(turn[r].keys) \in Keys
  <1>1. turn[r] \in Work
    BY DEF SessionTypes
  <1>2. /\ turn[r].session \in Sessions \cup {None} /\ turn[r].todo \in Seq(Backends) /\ turn[r].todo # <<>>
        /\ turn[r].keys \in Seq(Keys) /\ turn[r].keys # <<>>
        /\ \A i \in 1 .. Len(turn[r].keys) : turn[r].keys[i] \in Serves[turn[r].todo[1]]
    BY <1>1 DEF Work
  <1>3. /\ Head(turn[r].todo) \in Backends /\ Head(turn[r].todo) = turn[r].todo[1]
        /\ Head(turn[r].keys) \in Keys /\ Head(turn[r].keys) = turn[r].keys[1]
    BY <1>2, HeadTailProperties
  <1>4. 1 \in 1 .. Len(turn[r].keys)
    BY <1>2, EmptySeq
  <1>. QED BY <1>2, <1>3, <1>4

\* A turn is served.
LEMMA SessionSucceed ==
  ASSUME SessionInv, NEW r \in Turns, Affinity!Succeed(r) PROVE SessionInv'
  <1>. DEFINE s == turn[r].session
              d == Head(turn[r].todo)
              k == Head(turn[r].keys)
  <1>1. /\ turn[r] # Affinity!NoRequest /\ UNCHANGED setting
        /\ keyPins' = IF s # None /\ setting.on THEN Affinity!Noted(keyPins, s, k) ELSE keyPins
        /\ depPins' = IF s # None THEN Affinity!Noted(depPins, s, d) ELSE depPins
        /\ served' = IF s = None THEN served
                     ELSE IF setting.on THEN Affinity!Served(s, d, k)
                     ELSE [x \in Sessions |-> Affinity!Unserved]
        /\ turn' = [turn EXCEPT ![r] = Affinity!NoRequest]
    BY DEF Affinity!Succeed
  <1>2. /\ SessionTypes /\ turn \in [Turns -> {Affinity!NoRequest} \cup Work] /\ setting \in Settings
        /\ Dict(keyPins, Keys) /\ Dict(depPins, Backends)
        /\ setting.cap \in Nat /\ setting.ttl \in Nat /\ None \notin Sessions
    BY SettingIs DEF SessionInv, SessionTypes
  <1>4. s \in Sessions \cup {None} /\ d \in Backends /\ k \in Serves[d] /\ k \in Keys
    BY <1>1, <1>2, WorkIs
  <1>. HIDE DEF s, d, k
  <1>5. turn' \in [Turns -> {Affinity!NoRequest} \cup Work]
    BY <1>1, <1>2
  <1>6. CASE s = None
    BY <1>1, <1>2, <1>5, <1>6, NothingLapsed, Unserved
  <1>7. CASE s # None /\ ~setting.on
    <2>1. s \in Sessions
      BY <1>4, <1>7
    <2>2. Dict(depPins', Backends) /\ Dict(keyPins', Keys)
      BY <1>1, <1>2, <1>4, <1>7, <2>1, NotedIs
    <2>3. served' = [x \in Sessions |-> Affinity!Unserved]
      BY <1>1, <1>7
    <2>4. Affinity!Unserved \in Service /\ Affinity!Unserved.left = 0 /\ IsFiniteSet(Affinity!Unserved.others)
      BY FS_EmptySet DEF Affinity!Unserved, Service
    <2>5. SessionTypes'
      BY <1>1, <1>2, <1>5, <2>2, <2>3, <2>4
         DEF SessionTypes, Affinity!Proper, Dict, Bindings, OneEach, Work, Affinity!NoRequest
    <2>6. DueAreBound'
      BY <2>3, <2>4 DEF DueAreBound, Affinity!Due
    <2>. QED BY <2>5, <2>6 DEF SessionInv
  <1>8. CASE s # None /\ setting.on
    <2>1. s \in Sessions
      BY <1>4, <1>8
    <2>2. keyPins' = Affinity!Noted(keyPins, s, k) /\ depPins' = Affinity!Noted(depPins, s, d)
      BY <1>1, <1>8
    <2>3. Dict(depPins', Backends) /\ Dict(keyPins', Keys)
      BY <1>2, <1>4, <2>1, <2>2, NotedIs
    <2>4. \A x \in Sessions : served[x] \in Service /\ IsFiniteSet(served[x].others)
      BY <1>2 DEF SessionTypes
    <2>5. \A x \in Sessions : served'[x] =
            IF x = s THEN [dep |-> d, key |-> k, left |-> setting.ttl, others |-> {}, room |-> setting.cap]
            ELSE [served[x] EXCEPT !.others = @ \cup {s},
                                   !.room = IF setting.cap < @ THEN setting.cap ELSE @]
      BY <1>1, <1>8 DEF Affinity!Served
    <2>6. ASSUME NEW x \in Sessions, x # s
          PROVE  /\ served'[x].dep = served[x].dep /\ served'[x].key = served[x].key
                 /\ served'[x].left = served[x].left /\ served'[x].others = served[x].others \cup {s}
                 /\ served'[x].room \in Nat /\ served'[x].room <= setting.cap /\ served'[x].room <= served[x].room
                 /\ served'[x] \in Service /\ IsFiniteSet(served'[x].others)
      <3>1. served'[x] = [served[x] EXCEPT !.others = @ \cup {s},
                                   !.room = IF setting.cap < @ THEN setting.cap ELSE @]
        BY <2>5, <2>6
      <3>2. IsFiniteSet(served[x].others \cup {s})
        BY <2>4, FS_AddElement
      <3>3. /\ served[x] \in Service /\ served[x].room \in Nat /\ served[x].others \subseteq Sessions
        BY <2>4 DEF Service
      <3>4. /\ served'[x].dep = served[x].dep /\ served'[x].key = served[x].key
            /\ served'[x].left = served[x].left /\ served'[x].others = served[x].others \cup {s}
            /\ served'[x].room = IF setting.cap < served[x].room THEN setting.cap ELSE served[x].room
        BY <3>1, <3>3 DEF Service
      <3>5. (IF setting.cap < served[x].room THEN setting.cap ELSE served[x].room) \in Nat
        BY <1>2, <3>3
      <3>6. served'[x] \in Service
        <4>. DEFINE m == IF setting.cap < served[x].room THEN setting.cap ELSE served[x].room
                    o == served[x].others \cup {s}
        <4>1. m \in Nat /\ o \in SUBSET Sessions
          BY <2>1, <3>3, <3>5
        <4>2. served'[x] = [served[x] EXCEPT !.others = o, !.room = m]
          BY <3>1
        <4>. HIDE DEF m, o
        <4>. QED BY <3>3, <4>1, <4>2 DEF Service
      <3>. QED BY <1>2, <3>2, <3>3, <3>4, <3>6
    <2>7. served'[s] = [dep |-> d, key |-> k, left |-> setting.ttl, others |-> {}, room |-> setting.cap]
      BY <2>1, <2>5
    <2>8. served'[s] \in Service /\ IsFiniteSet(served'[s].others)
      BY <1>2, <1>4, <2>7, FS_EmptySet DEF Service
    <2>9. SessionTypes'
      <3>1. served' \in [Sessions -> Service] /\ \A x \in Sessions : IsFiniteSet(served'[x].others)
        <4>1. \A x \in Sessions : served'[x] \in Service /\ IsFiniteSet(served'[x].others)
          BY <2>6, <2>8
        <4>2. served' = [x \in Sessions |-> served'[x]]
          BY <1>1, <1>8 DEF Affinity!Served
        <4>. HIDE DEF Service
        <4>. QED BY <4>1, <4>2
      <3>. QED BY <1>1, <1>2, <1>5, <2>3, <3>1
           DEF SessionTypes, Affinity!Proper, Dict, Bindings, OneEach, Work, Affinity!NoRequest, Service
    <2>10. ASSUME NEW x \in Sessions, Affinity!Due(x)'
           PROVE  /\ served'[x].dep \in Backends /\ served'[x].key \in Serves[served'[x].dep]
                  /\ Bound(keyPins', x, served'[x].key, served'[x].left, served'[x].others)
                  /\ Bound(depPins', x, served'[x].dep, served'[x].left, served'[x].others)
      <3>1. served'[x].left > 0 /\ Cardinality(served'[x].others) < served'[x].room
        BY <2>10, SameCardinality DEF Affinity!Due
      <3>2. CASE x = s
        <4>1. 0 < setting.cap
          BY <1>2, <2>7, <3>1, <3>2, FS_EmptySet
        <4>2. Bound(keyPins', s, k, setting.ttl, {})
          BY <1>2, <1>4, <2>1, <2>2, <4>1, BoundFirst
        <4>3. Bound(depPins', s, d, setting.ttl, {})
          BY <1>2, <1>4, <2>1, <2>2, <4>1, BoundFirst
        <4>. QED BY <1>4, <2>7, <3>2, <4>2, <4>3
      <3>3. CASE x # s
        <4>1. /\ Cardinality(served[x].others) <= Cardinality(served[x].others \cup {s})
              /\ Cardinality(served[x].others) \in Nat /\ Cardinality(served[x].others \cup {s}) \in Nat
              /\ IsFiniteSet(served[x].others \cup {s})
          BY <2>4, FS_AddElement, FS_CardinalityType, FS_Subset
        <4>2. Cardinality(served[x].others \cup {s}) < setting.cap /\ Cardinality(served[x].others) < served[x].room
          <5>1. served[x].room \in Nat
            BY <2>4 DEF Service
          <5>2. /\ Cardinality(served[x].others \cup {s}) < served'[x].room
                /\ served'[x].room \in Nat /\ served'[x].room <= setting.cap
                /\ served'[x].room <= served[x].room
            BY <2>6, <3>1, <3>3
          <5>. QED BY <1>2, <4>1, <5>1, <5>2
        <4>3. Affinity!Due(x)
          BY <1>2, <2>6, <3>1, <3>3, <4>2, SameCardinality DEF Affinity!Due
        <4>4. /\ served[x].dep \in Backends /\ served[x].key \in Serves[served[x].dep]
              /\ Bound(keyPins, x, served[x].key, served[x].left, served[x].others)
              /\ Bound(depPins, x, served[x].dep, served[x].left, served[x].others)
          BY <4>3 DEF SessionInv, DueAreBound
        <4>5. Bound(keyPins', x, served[x].key, served[x].left, served[x].others \cup {s})
          BY <1>2, <1>4, <2>1, <2>2, <3>3, <4>1, <4>2, <4>4, BoundNoted
        <4>6. Bound(depPins', x, served[x].dep, served[x].left, served[x].others \cup {s})
          BY <1>2, <1>4, <2>1, <2>2, <3>3, <4>1, <4>2, <4>4, BoundNoted
        <4>. QED BY <2>6, <3>3, <4>4, <4>5, <4>6
      <3>. QED BY <3>2, <3>3
    <2>11. DueAreBound'
      BY <2>10 DEF DueAreBound, Bound
    <2>. QED BY <2>9, <2>11 DEF SessionInv
  <1>. QED BY <1>6, <1>7, <1>8

\* Bindings grow older.
LEMMA OlderIs ==
  ASSUME NEW T, NEW p, Dict(p, T)
  PROVE  /\ Dict(Affinity!Older(p), T) /\ Len(Affinity!Older(p)) = Len(p)
         /\ \A i \in 1 .. Len(p) :
              /\ Affinity!Older(p)[i].session = p[i].session /\ Affinity!Older(p)[i].to = p[i].to
              /\ Affinity!Older(p)[i].left = IF p[i].left = 0 THEN 0 ELSE p[i].left - 1
              /\ Affinity!Older(p)[i] \in [session : Sessions, to : T, left : Nat]
  <1>. DEFINE q == Affinity!Older(p)
              B == [session : Sessions, to : T, left : Nat]
  <1>1. Len(p) \in Nat /\ DOMAIN p = 1 .. Len(p) /\ \A i \in 1 .. Len(p) : p[i] \in B
    BY LenProperties, ElementOfSeq DEF Dict, Bindings
  <1>2. q = [i \in 1 .. Len(p) |-> [p[i] EXCEPT !.left = IF @ = 0 THEN 0 ELSE @ - 1]]
    BY <1>1 DEF Affinity!Older
  <1>. HIDE DEF q
  <1>3. \A i \in 1 .. Len(p) :
              /\ q[i].session = p[i].session /\ q[i].to = p[i].to
              /\ q[i].left = IF p[i].left = 0 THEN 0 ELSE p[i].left - 1
              /\ q[i] \in B
    BY <1>1, <1>2
  <1>. HIDE DEF B
  <1>4. q \in Seq(B) /\ Len(q) = Len(p)
    <2>1. q \in [1 .. Len(p) -> B]
      BY <1>2, <1>3
    <2>. QED BY <1>1, <2>1
  <1>5. OneEach(q)
    BY <1>1, <1>3, <1>4 DEF Dict, OneEach
  <1>. QED BY <1>3, <1>4, <1>5 DEF Dict, Bindings, B, q

LEMMA BoundOlder ==
  ASSUME NEW T, NEW p, Dict(p, T), NEW s, NEW to, NEW left \in Nat \ {0}, NEW others,
         Bound(p, s, to, left, others)
  PROVE  Bound(Affinity!Older(p), s, to, left - 1, others)
  <1>1. PICK i \in 1 .. Len(p) :
        /\ p[i] = [session |-> s, to |-> to, left |-> left]
        /\ \A j \in 1 .. i - 1 : p[j].session \in others
    BY DEF Bound
  <1>2. Len(p) \in Nat
    BY LenProperties DEF Dict, Bindings
  <1>a. /\ Len(Affinity!Older(p)) = Len(p)
        /\ \A j \in 1 .. Len(p) :
              /\ Affinity!Older(p)[j].session = p[j].session /\ Affinity!Older(p)[j].to = p[j].to
              /\ Affinity!Older(p)[j].left = IF p[j].left = 0 THEN 0 ELSE p[j].left - 1
              /\ Affinity!Older(p)[j] \in [session : Sessions, to : T, left : Nat]
    BY OlderIs
  <1>3. /\ Len(Affinity!Older(p)) = Len(p)
        /\ \A j \in 1 .. Len(p) : Affinity!Older(p)[j].session = p[j].session
        /\ Affinity!Older(p)[i].to = to /\ Affinity!Older(p)[i].left = left - 1
        /\ Affinity!Older(p)[i] \in [session : Sessions, to : T, left : Nat]
    BY <1>1, <1>a
  <1>4. Affinity!Older(p)[i] = [session |-> s, to |-> to, left |-> left - 1]
    BY <1>1, <1>3
  <1>5. \A j \in 1 .. i - 1 : Affinity!Older(p)[j].session \in others
    <2>1. \A j \in 1 .. i - 1 : j \in 1 .. Len(p)
      BY <1>2
    <2>. QED BY <1>1, <1>3, <2>1
  <1>6. i \in 1 .. Len(Affinity!Older(p))
    BY <1>3
  <1>. QED BY <1>4, <1>5, <1>6 DEF Bound

\* Time passes.
LEMMA SessionTick == ASSUME SessionInv, Affinity!Tick PROVE SessionInv'
  <1>1. /\ keyPins' = Affinity!Older(keyPins) /\ depPins' = Affinity!Older(depPins)
        /\ served' = [s \in Sessions |-> [served[s] EXCEPT !.left = IF @ = 0 THEN 0 ELSE @ - 1]]
        /\ UNCHANGED <<setting, turn>>
    BY DEF Affinity!Tick
  <1>2. /\ SessionTypes /\ Dict(keyPins, Keys) /\ Dict(depPins, Backends)
        /\ \A s \in Sessions : served[s] \in Service /\ IsFiniteSet(served[s].others)
    BY DEF SessionInv, SessionTypes
  <1>3. Dict(keyPins', Keys) /\ Dict(depPins', Backends)
    BY <1>1, <1>2, OlderIs
  <1>4. ASSUME NEW s \in Sessions
        PROVE  /\ served'[s].dep = served[s].dep /\ served'[s].key = served[s].key
               /\ served'[s].others = served[s].others /\ served'[s].room = served[s].room
               /\ served'[s].left = IF served[s].left = 0 THEN 0 ELSE served[s].left - 1
               /\ served'[s] \in Service /\ served[s].left \in Nat
    BY <1>1, <1>2 DEF Service
  <1>5. served' \in [Sessions -> Service] /\ \A s \in Sessions : IsFiniteSet(served'[s].others)
    BY <1>1, <1>2, <1>4
  <1>6. SessionTypes'
    BY <1>1, <1>2, <1>3, <1>5
       DEF SessionTypes, Affinity!Proper, Dict, Bindings, OneEach, Work, Affinity!NoRequest, Service
  <1>7. ASSUME NEW s \in Sessions, Affinity!Due(s)'
        PROVE  /\ served'[s].dep \in Backends /\ served'[s].key \in Serves[served'[s].dep]
               /\ Bound(keyPins', s, served'[s].key, served'[s].left, served'[s].others)
               /\ Bound(depPins', s, served'[s].dep, served'[s].left, served'[s].others)
    <2>1. /\ served[s].left \in Nat \ {0} /\ served'[s].left = served[s].left - 1
      BY <1>4, <1>7 DEF Affinity!Due
    <2>2. Affinity!Due(s)
      BY <1>4, <1>7, <2>1 DEF Affinity!Due
    <2>3. /\ served[s].dep \in Backends /\ served[s].key \in Serves[served[s].dep]
          /\ Bound(keyPins, s, served[s].key, served[s].left, served[s].others)
          /\ Bound(depPins, s, served[s].dep, served[s].left, served[s].others)
      BY <2>2 DEF SessionInv, DueAreBound
    <2>4. /\ Bound(keyPins', s, served[s].key, served[s].left - 1, served[s].others)
          /\ Bound(depPins', s, served[s].dep, served[s].left - 1, served[s].others)
      BY <1>1, <1>2, <2>1, <2>3, BoundOlder
    <2>. QED BY <1>4, <2>1, <2>3, <2>4
  <1>8. DueAreBound'
    BY <1>7 DEF DueAreBound, Bound
  <1>. QED BY <1>6, <1>8 DEF SessionInv

LEMMA SessionInitial == Affinity!Proper /\ Affinity!Init => SessionInv
  <1>. SUFFICES ASSUME Affinity!Proper, Affinity!Init PROVE SessionInv
    OBVIOUS
  <1>1. \A T : Dict(<<>>, T)
    BY EmptySeq DEF Dict, Bindings, OneEach
  <1>2. Affinity!Unserved \in Service /\ Affinity!Unserved.left = 0 /\ IsFiniteSet(Affinity!Unserved.others)
    BY FS_EmptySet DEF Affinity!Unserved, Service
  <1>3. SessionTypes
    BY <1>1, <1>2 DEF SessionTypes, Affinity!Init, Affinity!Proper
  <1>4. DueAreBound
    BY <1>2 DEF DueAreBound, Affinity!Due, Affinity!Init
  <1>. QED BY <1>3, <1>4 DEF SessionInv

LEMMA SessionStutter == ASSUME SessionInv, UNCHANGED Affinity!vars PROVE SessionInv'
  <1>1. UNCHANGED <<keyPins, depPins, setting, turn, served>>
    BY DEF Affinity!vars, Affinity!pinVars
  <1>2. /\ Dict(keyPins, Keys) /\ Dict(depPins, Backends) /\ setting \in Settings
        /\ turn \in [Turns -> {Affinity!NoRequest} \cup Work]
    BY DEF SessionInv, SessionTypes
  <1>. QED BY <1>1, <1>2, NothingLapsed, Unserved

LEMMA SessionNext == SessionInv /\ [Affinity!Next]_Affinity!vars => SessionInv'
  BY SessionBegin, SessionFails, SessionSucceed, SessionReload, SessionTick, SessionStutter
     DEF Affinity!Next

\* Where it is tried first what served it last: the action of TurnsStay.
LEMMA TurnStays ==
  ASSUME SessionInv, NEW r \in Turns, NEW s \in Sessions,
         turn'[r].session = s, setting.on, Affinity!Due(s),
         served[s].dep \notin down, served[s].key \notin resting, Affinity!Begin(r, s, FALSE)
  PROVE  Head(turn'[r].todo) = served[s].dep /\ Head(turn'[r].keys) = served[s].key
  <1>. DEFINE d == served[s].dep
              k == served[s].key
  <1>1. /\ SessionTypes /\ s # None /\ Dict(keyPins, Keys) /\ Dict(depPins, Backends)
        /\ turn \in [Turns -> {Affinity!NoRequest} \cup Work]
    BY SettingIs DEF SessionInv, SessionTypes
  <1>2. /\ d \in Backends /\ k \in Serves[d]
        /\ Bound(keyPins, s, k, served[s].left, served[s].others)
        /\ Bound(depPins, s, d, served[s].left, served[s].others)
    BY DEF SessionInv, DueAreBound
  <1>3. served[s].left \in Nat /\ served[s].left > 0
    BY <1>1 DEF SessionTypes, Service, Affinity!Due
  <1>4. IsFiniteSet(Backends) /\ IsFiniteSet(Serves[d])
    <2>1. IsFiniteSet(Backends) /\ IsFiniteSet(Keys) /\ Serves[d] \subseteq Keys
      BY <1>1, <1>2, SameFiniteness DEF SessionTypes, Affinity!Proper
    <2>. QED BY <2>1, FS_Subset
  <1>5. PICK order \in Affinity!SetToSeqs(Backends) :
          Affinity!Continue(r, s, IF \E p \in Affinity!Live(depPins, s) : p.to \in down THEN order
                                  ELSE Affinity!Sticky(order, depPins, s, FALSE))
    BY DEF Affinity!Begin
  <1>6. down' = down /\ resting' = resting
    BY DEF Affinity!Begin
  <1>7. ~ \E p \in Affinity!Live(depPins, s) : p.to \in down
    BY <1>1, <1>2, <1>3, LiveIs
  <1>. DEFINE todo == Affinity!Sticky(order, depPins, s, FALSE)
  <1>8. Affinity!Continue(r, s, todo)
    BY <1>5, <1>7
  <1>9. todo \in Seq(Backends) /\ todo # <<>> /\ todo[1] = d
    <2>1. order \in Seq(Backends) /\ order # <<>> /\ \E i \in 1 .. Len(order) : order[i] = d
      BY <1>2, <1>4, <1>5, OrderIs
    <2>2. FALSE \in BOOLEAN
      OBVIOUS
    <2>3. todo \in Seq(Backends) /\ todo # <<>>
      BY <2>1, <2>2, StickyIs, Zenon
    <2>4. todo[1] = d
      <3>1. /\ Dict(depPins, Backends) /\ s # None
            /\ Bound(depPins, s, d, served[s].left, served[s].others)
        BY <1>1, <1>2
      <3>. HIDE DEF d
      <3>. QED BY <1>3, <2>1, <3>1, StickyLeads
    <2>. QED BY <2>3, <2>4
  <1>. HIDE DEF todo, d, k
  <1>10. Len(todo) \in Nat /\ DOMAIN todo = 1 .. Len(todo) /\ Len(todo) # 0
    BY <1>9, LenProperties, EmptySeq
  <1>. DEFINE open == {i \in DOMAIN todo : todo[i] \notin down' /\ ~(Serves[todo[i]] \subseteq resting')}
              first == CHOOSE i \in open : \A j \in open : i <= j
  <1>11. 1 \in open /\ open \subseteq 1 .. Len(todo)
    BY <1>2, <1>6, <1>9, <1>10 DEF d, k
  <1>12. first = 1
    <2>. HIDE DEF open
    <2>1. \A j \in open : 1 <= j
      BY <1>10, <1>11
    <2>2. first \in open /\ \A j \in open : first <= j
      BY <1>11, <2>1
    <2>3. first <= 1 /\ first \in 1 .. Len(todo)
      BY <1>11, <2>2
    <2>. QED BY <1>10, <2>3
  <1>13. turn' # [turn EXCEPT ![r] = Affinity!NoRequest]
    <2>1. Affinity!NoRequest.session = None
      BY DEF Affinity!NoRequest
    <2>2. turn'[r].session # None
      BY <1>1
    <2>3. turn' = [turn EXCEPT ![r] = Affinity!NoRequest] => turn'[r] = Affinity!NoRequest
      BY <1>1
    <2>. QED BY <2>1, <2>2, <2>3
  <1>14. PICK o \in Affinity!SetToSeqs(Serves[todo[first]] \ resting') :
            turn' = [turn EXCEPT ![r] =
                [session |-> s, todo |-> SubSeq(todo, first, Len(todo)),
                 keys |-> Affinity!Sticky(o, keyPins, IF setting.on THEN s ELSE None, FALSE)]]
    BY <1>8, <1>13 DEF Affinity!Continue
  <1>. HIDE DEF open, first
  <1>15. /\ turn'[r].todo = SubSeq(todo, 1, Len(todo))
         /\ turn'[r].keys = Affinity!Sticky(o, keyPins, s, FALSE)
    BY <1>1, <1>12, <1>14
  <1>16. Head(SubSeq(todo, 1, Len(todo))) = d
    <2>1. \A i \in 1 .. Len(todo) : todo[i] \in Backends
      BY <1>9, ElementOfSeq
    <2>2. /\ SubSeq(todo, 1, Len(todo)) \in Seq(Backends)
          /\ Len(SubSeq(todo, 1, Len(todo))) = IF 1 <= Len(todo) THEN Len(todo) - 1 + 1 ELSE 0
          /\ \A i \in 1 .. Len(todo) - 1 + 1 : SubSeq(todo, 1, Len(todo))[i] = todo[1 + i - 1]
      BY <1>10, <2>1, SubSeqProperties
    <2>3. SubSeq(todo, 1, Len(todo))[1] = todo[1] /\ Len(SubSeq(todo, 1, Len(todo))) # 0
      BY <1>10, <2>2
    <2>4. SubSeq(todo, 1, Len(todo)) # <<>>
      BY <2>3, EmptySeq
    <2>. QED BY <1>9, <2>2, <2>3, <2>4, HeadTailProperties
  <1>17. Head(Affinity!Sticky(o, keyPins, s, FALSE)) = k
    <2>. DEFINE S == Serves[d] \ resting
    <2>1. IsFiniteSet(S) /\ k \in S
      BY <1>2, <1>4, FS_Subset DEF k
    <2>2. o \in Affinity!SetToSeqs(S)
      BY <1>6, <1>9, <1>12, <1>14
    <2>. HIDE DEF S
    <2>3. o \in Seq(S) /\ o # <<>> /\ \E i \in 1 .. Len(o) : o[i] = k
      BY <2>1, <2>2, OrderIs
    <2>4. Affinity!Sticky(o, keyPins, s, FALSE)[1] = k
      BY <1>1, <1>2, <1>3, <2>3, StickyLeads
    <2>5. FALSE \in BOOLEAN
      OBVIOUS
    <2>6. Affinity!Sticky(o, keyPins, s, FALSE) \in Seq(S) /\ Affinity!Sticky(o, keyPins, s, FALSE) # <<>>
      BY <2>3, <2>5, StickyIs, Zenon
    <2>. DEFINE ks == Affinity!Sticky(o, keyPins, s, FALSE)
    <2>7. ks \in Seq(S) /\ ks # <<>> /\ ks[1] = k
      BY <2>4, <2>6
    <2>. HIDE DEF ks
    <2>8. Head(ks) = k
      BY <2>7
    <2>. QED BY <2>8 DEF ks
  <1>. QED BY <1>15, <1>16, <1>17 DEF d, k

-----------------------------------------------------------------------------
(* The two dictionaries side by side                                        *)

\* Affinity is on throughout, and sessions are bound for the same time throughout.
Steady == \A t, u \in Settings : t.on /\ t.ttl = u.ttl

\* The younger part of both dictionaries is the same, binding for binding; all else has expired.
Abreast(p, q, n) ==
    /\ n <= Len(p) /\ n <= Len(q)
    /\ \A i \in 1 .. n : /\ p[i].session = q[i].session /\ p[i].left = q[i].left
                         /\ p[i].to \in Serves[q[i].to]
    /\ \A i \in n + 1 .. Len(p) : p[i].left = 0
    /\ \A i \in n + 1 .. Len(q) : q[i].left = 0
Aligned(p, q) == \E n \in Nat : Abreast(p, q, n)

\* The older a binding is, the sooner it expires.
Aging(p) ==
    /\ \A i, j \in 1 .. Len(p) : i <= j => p[j].left <= p[i].left
    /\ \A i \in 1 .. Len(p) : p[i].left <= setting.ttl

SideBySide == Steady => Aligned(keyPins, depPins) /\ Aging(keyPins) /\ Aging(depPins)

\* What a dictionary holds.
LEMMA DictIs ==
  ASSUME NEW T, NEW p, Dict(p, T)
  PROVE  /\ Len(p) \in Nat /\ DOMAIN p = 1 .. Len(p)
         /\ \A i \in 1 .. Len(p) : p[i].session \in Sessions /\ p[i].to \in T /\ p[i].left \in Nat
  <1>1. p \in Seq([session : Sessions, to : T, left : Nat])
    BY DEF Dict, Bindings
  <1>2. \A i \in 1 .. Len(p) : p[i] \in [session : Sessions, to : T, left : Nat]
    BY <1>1, ElementOfSeq
  <1>. QED BY <1>1, <1>2, LenProperties

LEMMA AgingShrinks ==
  ASSUME NEW T, NEW p, Dict(p, T), NEW w, Dict(w, T), NEW a \in 1 .. Len(p) + 1, Shrunk(w, p, a), Aging(p)
  PROVE  Aging(w)
  <1>1. /\ Len(p) \in Nat /\ Len(w) \in Nat
        /\ \A i \in 1 .. Len(p) : p[i].left \in Nat
    BY DictIs
  <1>. DEFINE at(i) == IF i < a THEN i ELSE i + 1
  <1>2. \A i \in 1 .. Len(w) : at(i) \in 1 .. Len(p) /\ w[i] = p[at(i)]
    BY <1>1 DEF Shrunk
  <1>3. \A i, j \in 1 .. Len(w) : i <= j => at(i) <= at(j)
    BY <1>1
  <1>. HIDE DEF at
  <1>4. \A i, j \in 1 .. Len(w) : i <= j => w[j].left <= w[i].left
    BY <1>2, <1>3 DEF Aging
  <1>5. \A i \in 1 .. Len(w) : w[i].left <= setting.ttl
    BY <1>2 DEF Aging
  <1>. QED BY <1>4, <1>5 DEF Aging

\* What expired may go from either side.
LEMMA AlignedShrinks ==
  ASSUME NEW p, Dict(p, Keys), Aging(p), NEW q, Dict(q, Backends), Aging(q), Aligned(p, q),
         NEW w, Dict(w, Keys), NEW v, Dict(v, Backends), Lapsed(w, p), Lapsed(v, q)
  PROVE  Aligned(w, v) /\ Aging(w) /\ Aging(v)
  <1>1. /\ Len(p) \in Nat /\ Len(w) \in Nat /\ Len(q) \in Nat /\ Len(v) \in Nat
        /\ \A i \in 1 .. Len(p) : p[i].left \in Nat
        /\ \A i \in 1 .. Len(q) : q[i].left \in Nat
    BY DictIs
  <1>2. PICK a \in 1 .. Len(p) + 1 : Shrunk(w, p, a) /\ (a <= Len(p) => p[a].left = 0)
    BY DEF Lapsed
  <1>3. PICK b \in 1 .. Len(q) + 1 : Shrunk(v, q, b) /\ (b <= Len(q) => q[b].left = 0)
    BY DEF Lapsed
  <1>4. PICK n \in Nat : Abreast(p, q, n)
    BY DEF Aligned
  <1>. DEFINE c == IF a < b THEN a ELSE b
              m == IF n < c THEN n ELSE c - 1
  <1>5. /\ m \in Nat /\ m <= n /\ m < a /\ m < b /\ m <= Len(w) /\ m <= Len(v)
    BY <1>1, <1>2, <1>3, <1>4 DEF Shrunk, Abreast
  <1>6. \A i \in 1 .. Len(p) : m < i /\ i # a => p[i].left = 0
    <2>1. SUFFICES ASSUME NEW i \in 1 .. Len(p), m < i, i # a PROVE p[i].left = 0
      OBVIOUS
    <2>2. CASE n < i
      BY <1>1, <1>4, <2>2 DEF Abreast
    <2>3. CASE i <= n
      <3>1. c \in 1 .. Len(p) /\ c \in 1 .. Len(q) /\ c <= i /\ c <= n
        BY <1>1, <1>4, <2>1, <2>3 DEF Abreast
      <3>2. p[c].left = 0
        BY <1>1, <1>2, <1>3, <1>4, <3>1 DEF Abreast
      <3>3. p[i].left <= p[c].left
        BY <3>1 DEF Aging
      <3>. QED BY <1>1, <3>2, <3>3
    <2>. QED BY <1>1, <2>2, <2>3
  <1>7. \A i \in 1 .. Len(q) : m < i /\ i # b => q[i].left = 0
    <2>1. SUFFICES ASSUME NEW i \in 1 .. Len(q), m < i, i # b PROVE q[i].left = 0
      OBVIOUS
    <2>2. CASE n < i
      BY <1>1, <1>4, <2>2 DEF Abreast
    <2>3. CASE i <= n
      <3>1. c \in 1 .. Len(p) /\ c \in 1 .. Len(q) /\ c <= i /\ c <= n
        BY <1>1, <1>4, <2>1, <2>3 DEF Abreast
      <3>2. q[c].left = 0
        BY <1>1, <1>2, <1>3, <1>4, <3>1 DEF Abreast
      <3>3. q[i].left <= q[c].left
        BY <3>1 DEF Aging
      <3>. QED BY <1>1, <3>2, <3>3
    <2>. QED BY <1>1, <2>2, <2>3
  <1>. HIDE DEF c, m
  <1>8. \A i \in 1 .. m : w[i] = p[i] /\ v[i] = q[i] /\ i \in 1 .. n
    <2>1. SUFFICES ASSUME NEW i \in 1 .. m PROVE w[i] = p[i] /\ v[i] = q[i] /\ i \in 1 .. n
      OBVIOUS
    <2>2. i \in 1 .. Len(w) /\ i \in 1 .. Len(v) /\ i < a /\ i < b /\ i \in 1 .. n
      BY <1>1, <1>5
    <2>. QED BY <1>2, <1>3, <2>2 DEF Shrunk
  <1>9. \A i \in m + 1 .. Len(w) : w[i].left = 0
    <2>1. SUFFICES ASSUME NEW i \in m + 1 .. Len(w) PROVE w[i].left = 0
      OBVIOUS
    <2>2. i \in 1 .. Len(w) /\ m < i
      BY <1>1, <1>5
    <2>3. w[i] = IF i < a THEN p[i] ELSE p[i + 1]
      BY <1>2, <2>2 DEF Shrunk
    <2>4. CASE i < a
      <3>1. i \in 1 .. Len(p)
        BY <1>1, <1>2, <2>2, <2>4
      <3>. QED BY <1>1, <1>6, <2>2, <2>3, <2>4, <3>1
    <2>5. CASE ~(i < a)
      <3>1. i + 1 \in 1 .. Len(p) /\ m < i + 1 /\ i + 1 # a
        BY <1>1, <1>2, <1>5, <2>2, <2>5 DEF Shrunk
      <3>. QED BY <1>6, <2>3, <2>5, <3>1
    <2>. QED BY <2>4, <2>5
  <1>10. \A i \in m + 1 .. Len(v) : v[i].left = 0
    <2>1. SUFFICES ASSUME NEW i \in m + 1 .. Len(v) PROVE v[i].left = 0
      OBVIOUS
    <2>2. i \in 1 .. Len(v) /\ m < i
      BY <1>1, <1>5
    <2>3. v[i] = IF i < b THEN q[i] ELSE q[i + 1]
      BY <1>3, <2>2 DEF Shrunk
    <2>4. CASE i < b
      <3>1. i \in 1 .. Len(q)
        BY <1>1, <1>3, <2>2, <2>4
      <3>. QED BY <1>1, <1>7, <2>2, <2>3, <2>4, <3>1
    <2>5. CASE ~(i < b)
      <3>1. i + 1 \in 1 .. Len(q) /\ m < i + 1 /\ i + 1 # b
        BY <1>1, <1>3, <1>5, <2>2, <2>5 DEF Shrunk
      <3>. QED BY <1>7, <2>3, <2>5, <3>1
    <2>. QED BY <2>4, <2>5
  <1>11. Abreast(w, v, m)
    BY <1>4, <1>5, <1>8, <1>9, <1>10 DEF Abreast
  <1>12. Aligned(w, v)
    BY <1>5, <1>11 DEF Aligned
  <1>13. Aging(w) /\ Aging(v)
    BY <1>2, <1>3, AgingShrinks
  <1>. QED BY <1>12, <1>13


\* A session is taken out of both.
LEMMA AlignedWithout ==
  ASSUME NEW p, Dict(p, Keys), NEW q, Dict(q, Backends), Aligned(p, q), NEW s
  PROVE  Aligned(Affinity!Without(p, s), Affinity!Without(q, s))
  <1>. DEFINE w == Affinity!Without(p, s)
              v == Affinity!Without(q, s)
  <1>1. Dict(w, Keys) /\ Dict(v, Backends)
    BY WithoutIs
  <1>2. PICK a \in 1 .. Len(p) + 1 :
              /\ Shrunk(w, p, a) /\ (a <= Len(p) => p[a].session = s)
              /\ a = Len(p) + 1 => \A j \in 1 .. Len(p) : p[j].session # s
    BY WithoutIs
  <1>3. PICK b \in 1 .. Len(q) + 1 :
              /\ Shrunk(v, q, b) /\ (b <= Len(q) => q[b].session = s)
              /\ b = Len(q) + 1 => \A j \in 1 .. Len(q) : q[j].session # s
    BY WithoutIs
  <1>. HIDE DEF w, v
  <1>4. Len(p) \in Nat /\ Len(w) \in Nat /\ Len(q) \in Nat /\ Len(v) \in Nat
    BY <1>1, DictIs
  <1>5. PICK n \in Nat : Abreast(p, q, n)
    BY DEF Aligned
  <1>6. \A i \in 1 .. n : i = a <=> i = b
    <2>1. SUFFICES ASSUME NEW i \in 1 .. n PROVE i = a <=> i = b
      OBVIOUS
    <2>2. i \in 1 .. Len(p) /\ i \in 1 .. Len(q) /\ p[i].session = q[i].session
      BY <1>4, <1>5 DEF Abreast
    <2>3. ASSUME i = a PROVE i = b
      <3>1. q[i].session = s /\ b # Len(q) + 1
        BY <1>2, <1>3, <1>4, <2>2, <2>3
      <3>2. b \in 1 .. Len(q) /\ q[b].session = s
        BY <1>3, <1>4, <3>1
      <3>. QED BY <2>2, <3>1, <3>2 DEF Dict, OneEach
    <2>4. ASSUME i = b PROVE i = a
      <3>1. p[i].session = s /\ a # Len(p) + 1
        BY <1>2, <1>3, <1>4, <2>2, <2>4
      <3>2. a \in 1 .. Len(p) /\ p[a].session = s
        BY <1>2, <1>4, <3>1
      <3>. QED BY <2>2, <3>1, <3>2 DEF Dict, OneEach
    <2>. QED BY <2>3, <2>4
  <1>. DEFINE m == IF a <= n THEN n - 1 ELSE n
  <1>7. n <= Len(p) /\ n <= Len(q)
    BY <1>5 DEF Abreast
  <1>8. (a <= n => b = a) /\ (a > n => b > n)
    <2>1. a \in 1 .. n => a = b
      BY <1>6
    <2>2. b \in 1 .. n => b = a
      BY <1>6
    <2>3. a \in Nat /\ b \in Nat /\ a >= 1 /\ b >= 1
      BY <1>4
    <2>. QED BY <2>1, <2>2, <2>3
  <1>9. m \in Nat /\ m <= Len(w) /\ m <= Len(v)
    BY <1>2, <1>3, <1>4, <1>7, <1>8 DEF Shrunk
  <1>. DEFINE at(i, c) == IF i < c THEN i ELSE i + 1
  <1>10. ASSUME NEW i \in 1 .. m
         PROVE  at(i, a) = at(i, b) /\ at(i, a) \in 1 .. n /\ w[i] = p[at(i, a)] /\ v[i] = q[at(i, b)]
    <2>1. i \in 1 .. Len(w) /\ i \in 1 .. Len(v)
      BY <1>4, <1>9
    <2>2. at(i, a) = at(i, b) /\ at(i, a) \in 1 .. n
      BY <1>8, <1>9
    <2>. QED BY <1>2, <1>3, <2>1, <2>2 DEF Shrunk
  <1>11. ASSUME NEW i \in m + 1 .. Len(w) PROVE w[i].left = 0
    <2>0. Len(w) = IF a <= Len(p) THEN Len(p) - 1 ELSE Len(p)
      BY <1>2 DEF Shrunk
    <2>1. i \in 1 .. Len(w) /\ at(i, a) \in n + 1 .. Len(p)
      <3>1. i \in 1 .. Len(w) /\ m < i
        BY <1>4, <1>9
      <3>2. CASE i < a
        BY <1>4, <1>8, <2>0, <3>1, <3>2
      <3>3. CASE ~(i < a)
        BY <1>4, <1>8, <2>0, <3>1, <3>3
      <3>. QED BY <3>1, <3>2, <3>3
    <2>2. w[i] = p[at(i, a)]
      BY <1>2, <2>1 DEF Shrunk
    <2>. QED BY <1>5, <2>1, <2>2 DEF Abreast
  <1>12. ASSUME NEW i \in m + 1 .. Len(v) PROVE v[i].left = 0
    <2>0. Len(v) = IF b <= Len(q) THEN Len(q) - 1 ELSE Len(q)
      BY <1>3 DEF Shrunk
    <2>1. i \in 1 .. Len(v) /\ at(i, b) \in n + 1 .. Len(q)
      <3>1. i \in 1 .. Len(v) /\ m < i
        BY <1>4, <1>9
      <3>2. CASE i < b
        BY <1>4, <1>8, <2>0, <3>1, <3>2
      <3>3. CASE ~(i < b)
        BY <1>4, <1>8, <2>0, <3>1, <3>3
      <3>. QED BY <3>1, <3>2, <3>3
    <2>2. v[i] = q[at(i, b)]
      BY <1>3, <2>1 DEF Shrunk
    <2>. QED BY <1>5, <2>1, <2>2 DEF Abreast
  <1>. HIDE DEF m, at
  <1>13. Abreast(w, v, m)
    <2>1. \A i \in 1 .. m : /\ w[i].session = v[i].session /\ w[i].left = v[i].left
                           /\ w[i].to \in Serves[v[i].to]
      BY <1>5, <1>10 DEF Abreast
    <2>. QED BY <1>9, <1>11, <1>12, <2>1 DEF Abreast
  <1>. QED BY <1>9, <1>13 DEF Aligned, w, v

\* Both are told of a success.
LEMMA AlignedNoted ==
  ASSUME NEW p, Dict(p, Keys), NEW q, Dict(q, Backends), Aligned(p, q),
         setting.cap \in Nat, setting.ttl \in Nat,
         NEW s \in Sessions, NEW d \in Backends, NEW k \in Keys, k \in Serves[d]
  PROVE  Aligned(Affinity!Noted(p, s, k), Affinity!Noted(q, s, d))
  <1>. DEFINE w == Affinity!Without(p, s)
              v == Affinity!Without(q, s)
              x == Affinity!Noted(p, s, k)
              y == Affinity!Noted(q, s, d)
  <1>1. /\ Len(x) = IF Len(w) + 1 > setting.cap THEN setting.cap ELSE Len(w) + 1
        /\ \A j \in 1 .. Len(x) : x[j] = IF j = 1 THEN Affinity!Pin(s, k) ELSE w[j - 1]
    BY NotedIs
  <1>2. /\ Len(y) = IF Len(v) + 1 > setting.cap THEN setting.cap ELSE Len(v) + 1
        /\ \A j \in 1 .. Len(y) : y[j] = IF j = 1 THEN Affinity!Pin(s, d) ELSE v[j - 1]
    BY NotedIs
  <1>3. Len(w) \in Nat /\ Len(v) \in Nat
    BY WithoutIs, DictIs
  <1>4. PICK n \in Nat : Abreast(w, v, n)
    BY AlignedWithout DEF Aligned
  <1>. HIDE DEF w, v, x, y
  <1>. DEFINE m == IF n + 1 > setting.cap THEN setting.cap ELSE n + 1
  <1>5. m \in Nat /\ m <= Len(x) /\ m <= Len(y) /\ m <= n + 1
    BY <1>1, <1>2, <1>3, <1>4 DEF Abreast
  <1>6. ASSUME NEW i \in 1 .. m
        PROVE  x[i].session = y[i].session /\ x[i].left = y[i].left /\ x[i].to \in Serves[y[i].to]
    <2>1. i \in 1 .. Len(x) /\ i \in 1 .. Len(y)
      BY <1>1, <1>2, <1>3, <1>5
    <2>2. CASE i = 1
      BY <1>1, <1>2, <2>1, <2>2 DEF Affinity!Pin
    <2>3. CASE i # 1
      <3>1. i - 1 \in 1 .. n
        BY <1>5, <2>3
      <3>2. x[i] = w[i - 1] /\ y[i] = v[i - 1]
        BY <1>1, <1>2, <2>1, <2>3
      <3>. QED BY <1>4, <3>1, <3>2 DEF Abreast
    <2>. QED BY <2>2, <2>3
  <1>7. ASSUME NEW i \in m + 1 .. Len(x) PROVE x[i].left = 0
    <2>1. i - 1 \in n + 1 .. Len(w) /\ i \in 1 .. Len(x) /\ i # 1
      BY <1>1, <1>3, <1>5
    <2>2. x[i] = w[i - 1]
      BY <1>1, <2>1
    <2>. QED BY <1>4, <2>1, <2>2 DEF Abreast
  <1>8. ASSUME NEW i \in m + 1 .. Len(y) PROVE y[i].left = 0
    <2>1. i - 1 \in n + 1 .. Len(v) /\ i \in 1 .. Len(y) /\ i # 1
      BY <1>2, <1>3, <1>5
    <2>2. y[i] = v[i - 1]
      BY <1>2, <2>1
    <2>. QED BY <1>4, <2>1, <2>2 DEF Abreast
  <1>. HIDE DEF m
  <1>9. Abreast(x, y, m)
    BY <1>5, <1>6, <1>7, <1>8 DEF Abreast
  <1>. QED BY <1>5, <1>9 DEF Aligned, x, y

LEMMA AgingNoted ==
  ASSUME NEW T, NEW p, Dict(p, T), Aging(p), setting.cap \in Nat, setting.ttl \in Nat,
         NEW s \in Sessions, NEW to \in T
  PROVE  Aging(Affinity!Noted(p, s, to))
  <1>. DEFINE w == Affinity!Without(p, s)
              x == Affinity!Noted(p, s, to)
  <1>1. /\ Len(x) = IF Len(w) + 1 > setting.cap THEN setting.cap ELSE Len(w) + 1
        /\ \A j \in 1 .. Len(x) : x[j] = IF j = 1 THEN Affinity!Pin(s, to) ELSE w[j - 1]
    BY NotedIs
  <1>2. Dict(w, T) /\ Aging(w)
    BY WithoutIs, AgingShrinks
  <1>3. Len(w) \in Nat /\ \A i \in 1 .. Len(w) : w[i].left \in Nat
    BY <1>2, DictIs
  <1>. HIDE DEF w, x
  <1>4. ASSUME NEW i \in 1 .. Len(x)
        PROVE  /\ i = 1 => x[i].left = setting.ttl
               /\ i # 1 => i - 1 \in 1 .. Len(w) /\ x[i] = w[i - 1]
    BY <1>1, <1>3 DEF Affinity!Pin
  <1>5. \A i \in 1 .. Len(x) : x[i].left <= setting.ttl
    BY <1>2, <1>4 DEF Aging
  <1>6. ASSUME NEW i \in 1 .. Len(x), NEW j \in 1 .. Len(x), i <= j PROVE x[j].left <= x[i].left
    <2>1. CASE i = 1
      BY <1>4, <1>5, <2>1
    <2>2. CASE i # 1
      <3>1. j # 1 /\ i - 1 <= j - 1
        BY <1>6, <2>2
      <3>2. /\ i - 1 \in 1 .. Len(w) /\ x[i] = w[i - 1]
            /\ j - 1 \in 1 .. Len(w) /\ x[j] = w[j - 1]
        BY <1>4, <2>2, <3>1
      <3>. QED BY <1>2, <3>1, <3>2 DEF Aging
    <2>. QED BY <2>1, <2>2
  <1>. QED BY <1>5, <1>6 DEF Aging, x

\* All bindings grow older together.
LEMMA AlignedOlder ==
  ASSUME NEW p, Dict(p, Keys), NEW q, Dict(q, Backends), Aligned(p, q), Aging(p), Aging(q),
         setting.ttl \in Nat
  PROVE  /\ Aligned(Affinity!Older(p), Affinity!Older(q))
         /\ Aging(Affinity!Older(p)) /\ Aging(Affinity!Older(q))
  <1>. DEFINE w == Affinity!Older(p)
              v == Affinity!Older(q)
  <1>1. /\ Len(w) = Len(p)
        /\ \A i \in 1 .. Len(p) :
              /\ w[i].session = p[i].session /\ w[i].to = p[i].to
              /\ w[i].left = IF p[i].left = 0 THEN 0 ELSE p[i].left - 1
              /\ w[i] \in [session : Sessions, to : Keys, left : Nat]
    BY OlderIs
  <1>2. /\ Len(v) = Len(q)
        /\ \A i \in 1 .. Len(q) :
              /\ v[i].session = q[i].session /\ v[i].to = q[i].to
              /\ v[i].left = IF q[i].left = 0 THEN 0 ELSE q[i].left - 1
              /\ v[i] \in [session : Sessions, to : Backends, left : Nat]
    BY OlderIs
  <1>3. /\ Len(p) \in Nat /\ \A i \in 1 .. Len(p) : p[i].left \in Nat
        /\ Len(q) \in Nat /\ \A i \in 1 .. Len(q) : q[i].left \in Nat
    BY DictIs
  <1>. HIDE DEF w, v
  <1>4. PICK n \in Nat : Abreast(p, q, n)
    BY DEF Aligned
  <1>5. Abreast(w, v, n)
    <2>1. n <= Len(w) /\ n <= Len(v)
      BY <1>1, <1>2, <1>4 DEF Abreast
    <2>2. ASSUME NEW i \in 1 .. n
          PROVE  w[i].session = v[i].session /\ w[i].left = v[i].left /\ w[i].to \in Serves[v[i].to]
      <3>1. i \in 1 .. Len(p) /\ i \in 1 .. Len(q)
        BY <1>1, <1>2, <1>3, <2>1
      <3>2. p[i].session = q[i].session /\ p[i].left = q[i].left /\ p[i].to \in Serves[q[i].to]
        BY <1>4 DEF Abreast
      <3>3. /\ w[i].session = p[i].session /\ w[i].to = p[i].to
            /\ w[i].left = IF p[i].left = 0 THEN 0 ELSE p[i].left - 1
        BY <1>1, <3>1
      <3>4. /\ v[i].session = q[i].session /\ v[i].to = q[i].to
            /\ v[i].left = IF q[i].left = 0 THEN 0 ELSE q[i].left - 1
        BY <1>2, <3>1
      <3>. QED BY <3>2, <3>3, <3>4
    <2>3. ASSUME NEW i \in n + 1 .. Len(w) PROVE w[i].left = 0
      <3>1. i \in 1 .. Len(p) /\ i \in n + 1 .. Len(p)
        BY <1>1, <1>3
      <3>. QED BY <1>1, <1>4, <3>1 DEF Abreast
    <2>4. ASSUME NEW i \in n + 1 .. Len(v) PROVE v[i].left = 0
      <3>1. i \in 1 .. Len(q) /\ i \in n + 1 .. Len(q)
        BY <1>2, <1>3
      <3>. QED BY <1>2, <1>4, <3>1 DEF Abreast
    <2>. QED BY <2>1, <2>2, <2>3, <2>4 DEF Abreast
  <1>6. Aging(w)
    <2>1. ASSUME NEW i \in 1 .. Len(w), NEW j \in 1 .. Len(w), i <= j PROVE w[j].left <= w[i].left
      <3>1. p[j].left <= p[i].left /\ p[i].left \in Nat /\ p[j].left \in Nat
        BY <1>1, <1>3, <2>1 DEF Aging
      <3>2. /\ w[i].left = IF p[i].left = 0 THEN 0 ELSE p[i].left - 1
            /\ w[j].left = IF p[j].left = 0 THEN 0 ELSE p[j].left - 1
        BY <1>1
      <3>. QED BY <3>1, <3>2
    <2>2. ASSUME NEW i \in 1 .. Len(w) PROVE w[i].left <= setting.ttl
      <3>1. p[i].left <= setting.ttl /\ p[i].left \in Nat
        BY <1>1, <1>3 DEF Aging
      <3>2. w[i].left = IF p[i].left = 0 THEN 0 ELSE p[i].left - 1
        BY <1>1
      <3>. QED BY <3>1, <3>2
    <2>. QED BY <2>1, <2>2 DEF Aging
  <1>7. Aging(v)
    <2>1. ASSUME NEW i \in 1 .. Len(v), NEW j \in 1 .. Len(v), i <= j PROVE v[j].left <= v[i].left
      <3>1. q[j].left <= q[i].left /\ q[i].left \in Nat /\ q[j].left \in Nat
        BY <1>2, <1>3, <2>1 DEF Aging
      <3>2. /\ v[i].left = IF q[i].left = 0 THEN 0 ELSE q[i].left - 1
            /\ v[j].left = IF q[j].left = 0 THEN 0 ELSE q[j].left - 1
        BY <1>2
      <3>. QED BY <3>1, <3>2
    <2>2. ASSUME NEW i \in 1 .. Len(v) PROVE v[i].left <= setting.ttl
      <3>1. q[i].left <= setting.ttl /\ q[i].left \in Nat
        BY <1>2, <1>3 DEF Aging
      <3>2. v[i].left = IF q[i].left = 0 THEN 0 ELSE q[i].left - 1
        BY <1>2
      <3>. QED BY <3>1, <3>2
    <2>. QED BY <2>1, <2>2 DEF Aging
  <1>. QED BY <1>5, <1>6, <1>7 DEF Aligned, w, v


\* Each step keeps the dictionaries side by side.
LEMMA SideBySideStays ==
  ASSUME SessionInv, SideBySide, Lapsed(keyPins', keyPins), Lapsed(depPins', depPins), SessionInv'
  PROVE  SideBySide'
  <1>. SUFFICES ASSUME Steady
                PROVE  Aligned(keyPins', depPins') /\ Aging(keyPins)' /\ Aging(depPins)'
    BY DEF SideBySide, Steady, Aligned, Abreast
  <1>1. /\ Dict(keyPins, Keys) /\ Dict(depPins, Backends) /\ Dict(keyPins', Keys) /\ Dict(depPins', Backends)
        /\ setting \in Settings /\ setting' \in Settings
    BY DEF SessionInv, SessionTypes, Dict, Bindings, OneEach
  <1>2. Aligned(keyPins, depPins) /\ Aging(keyPins) /\ Aging(depPins)
    BY DEF SideBySide
  <1>3. Aligned(keyPins', depPins') /\ Aging(keyPins') /\ Aging(depPins')
    BY <1>1, <1>2, AlignedShrinks
  <1>4. setting'.ttl = setting.ttl
    BY <1>1 DEF Steady
  <1>. QED BY <1>3, <1>4 DEF Aging

LEMMA SideBySideSucceed ==
  ASSUME SessionInv, SideBySide, NEW r \in Turns, Affinity!Succeed(r), SessionInv'
  PROVE  SideBySide'
  <1>. DEFINE s == turn[r].session
              d == Head(turn[r].todo)
              k == Head(turn[r].keys)
  <1>1. /\ turn[r] # Affinity!NoRequest /\ UNCHANGED setting
        /\ keyPins' = IF s # None /\ setting.on THEN Affinity!Noted(keyPins, s, k) ELSE keyPins
        /\ depPins' = IF s # None THEN Affinity!Noted(depPins, s, d) ELSE depPins
    BY DEF Affinity!Succeed
  <1>2. /\ SessionTypes /\ setting \in Settings /\ Dict(keyPins, Keys) /\ Dict(depPins, Backends)
        /\ setting.cap \in Nat /\ setting.ttl \in Nat
    BY SettingIs DEF SessionInv, SessionTypes
  <1>3. s \in Sessions \cup {None} /\ d \in Backends /\ k \in Serves[d] /\ k \in Keys
    BY <1>1, <1>2, WorkIs
  <1>. HIDE DEF s, d, k
  <1>4. CASE s = None
    <2>1. Lapsed(keyPins', keyPins) /\ Lapsed(depPins', depPins)
      BY <1>1, <1>2, <1>4, NothingLapsed
    <2>. QED BY <2>1, SideBySideStays
  <1>5. CASE s # None
    <2>. SUFFICES ASSUME Steady
                  PROVE  Aligned(keyPins', depPins') /\ Aging(keyPins)' /\ Aging(depPins)'
      BY DEF SideBySide, Steady, Aligned, Abreast
    <2>1. setting.on /\ s \in Sessions
      BY <1>2, <1>3, <1>5 DEF Steady
    <2>2. Aligned(keyPins, depPins) /\ Aging(keyPins) /\ Aging(depPins)
      BY DEF SideBySide
    <2>3. keyPins' = Affinity!Noted(keyPins, s, k) /\ depPins' = Affinity!Noted(depPins, s, d)
      BY <1>1, <1>5, <2>1
    <2>4. Aligned(keyPins', depPins')
      BY <1>2, <1>3, <2>1, <2>2, <2>3, AlignedNoted
    <2>5. Aging(keyPins') /\ Aging(depPins')
      BY <1>2, <1>3, <2>1, <2>2, <2>3, AgingNoted
    <2>. QED BY <1>1, <2>4, <2>5 DEF Aging
  <1>. QED BY <1>4, <1>5

LEMMA SideBySideTick ==
  ASSUME SessionInv, SideBySide, Affinity!Tick PROVE SideBySide'
  <1>. SUFFICES ASSUME Steady
                PROVE  Aligned(keyPins', depPins') /\ Aging(keyPins)' /\ Aging(depPins)'
    BY DEF SideBySide, Steady, Aligned, Abreast
  <1>1. keyPins' = Affinity!Older(keyPins) /\ depPins' = Affinity!Older(depPins) /\ UNCHANGED setting
    BY DEF Affinity!Tick
  <1>2. /\ Dict(keyPins, Keys) /\ Dict(depPins, Backends) /\ setting.ttl \in Nat
        /\ Aligned(keyPins, depPins) /\ Aging(keyPins) /\ Aging(depPins)
    BY SettingIs DEF SessionInv, SessionTypes, SideBySide
  <1>3. Aligned(keyPins', depPins') /\ Aging(keyPins') /\ Aging(depPins')
    BY <1>1, <1>2, AlignedOlder
  <1>. QED BY <1>1, <1>3 DEF Aging

LEMMA SideBySideNext ==
  ASSUME SessionInv, SideBySide, [Affinity!Next]_Affinity!vars PROVE SideBySide'
  <1>1. SessionInv'
    BY SessionNext
  <1>2. ASSUME NEW r \in Turns, NEW s \in Sessions, NEW front \in BOOLEAN, Affinity!Begin(r, s, front)
        PROVE  SideBySide'
    BY <1>1, <1>2, SessionBegin, SideBySideStays
  <1>3. ASSUME NEW r \in Turns, Affinity!AttemptFails(r) PROVE SideBySide'
    BY <1>1, <1>3, SessionFails, SideBySideStays
  <1>4. ASSUME NEW r \in Turns, Affinity!Succeed(r) PROVE SideBySide'
    BY <1>1, <1>4, SideBySideSucceed
  <1>5. CASE Affinity!Reload \/ UNCHANGED Affinity!vars
    <2>1. UNCHANGED <<keyPins, depPins>>
      BY <1>5 DEF Affinity!Reload, Affinity!vars, Affinity!pinVars
    <2>2. Dict(keyPins, Keys) /\ Dict(depPins, Backends)
      BY DEF SessionInv, SessionTypes
    <2>3. Lapsed(keyPins', keyPins) /\ Lapsed(depPins', depPins)
      BY <2>1, <2>2, NothingLapsed
    <2>. QED BY <1>1, <2>3, SideBySideStays
  <1>6. CASE Affinity!Tick
    BY <1>6, SideBySideTick
  <1>. QED BY <1>2, <1>3, <1>4, <1>5, <1>6 DEF Affinity!Next

\* What is bound in one dictionary is bound in the other, and to what belongs to it.
LEMMA SideBySideAgree ==
  ASSUME SessionInv, SideBySide PROVE Affinity!PinsAgree
  <1>. SUFFICES ASSUME Steady, NEW s \in Sessions
                PROVE  /\ Affinity!Live(keyPins, s) # {} <=> Affinity!Live(depPins, s) # {}
                       /\ \A p \in Affinity!Live(keyPins, s), q \in Affinity!Live(depPins, s) : p.to \in Serves[q.to]
    BY DEF Affinity!PinsAgree, Steady
  <1>1. /\ Dict(keyPins, Keys) /\ Dict(depPins, Backends)
        /\ Aligned(keyPins, depPins)
    BY DEF SessionInv, SessionTypes, SideBySide
  <1>2. /\ Len(keyPins) \in Nat /\ DOMAIN keyPins = 1 .. Len(keyPins)
        /\ \A i \in 1 .. Len(keyPins) : keyPins[i].left \in Nat
        /\ Len(depPins) \in Nat /\ DOMAIN depPins = 1 .. Len(depPins)
        /\ \A i \in 1 .. Len(depPins) : depPins[i].left \in Nat
    BY <1>1, DictIs
  <1>3. PICK n \in Nat : Abreast(keyPins, depPins, n)
    BY <1>1 DEF Aligned
  <1>4. n <= Len(keyPins) /\ n <= Len(depPins)
    BY <1>3 DEF Abreast
  <1>5. ASSUME NEW p \in Affinity!Live(keyPins, s)
        PROVE  \E i \in 1 .. n : p = keyPins[i] /\ keyPins[i].session = s /\ keyPins[i].left > 0
    <2>1. p \in Affinity!Range(keyPins) /\ p.session = s /\ p.left > 0
      BY DEF Affinity!Live
    <2>2. PICK i \in 1 .. Len(keyPins) : p = keyPins[i]
      BY <1>2, <2>1 DEF Affinity!Range
    <2>3. i \in 1 .. n
      BY <1>2, <1>3, <2>1, <2>2 DEF Abreast
    <2>. QED BY <2>1, <2>2, <2>3
  <1>6. ASSUME NEW q \in Affinity!Live(depPins, s)
        PROVE  \E i \in 1 .. n : q = depPins[i] /\ depPins[i].session = s /\ depPins[i].left > 0
    <2>1. q \in Affinity!Range(depPins) /\ q.session = s /\ q.left > 0
      BY DEF Affinity!Live
    <2>2. PICK i \in 1 .. Len(depPins) : q = depPins[i]
      BY <1>2, <2>1 DEF Affinity!Range
    <2>3. i \in 1 .. n
      BY <1>2, <1>3, <2>1, <2>2 DEF Abreast
    <2>. QED BY <2>1, <2>2, <2>3
  <1>7. \A i \in 1 .. n : /\ keyPins[i].session = s /\ keyPins[i].left > 0 <=> depPins[i].session = s /\ depPins[i].left > 0
                         /\ keyPins[i] \in Affinity!Range(keyPins) /\ depPins[i] \in Affinity!Range(depPins)
                         /\ keyPins[i].to \in Serves[depPins[i].to]
    <2>1. SUFFICES ASSUME NEW i \in 1 .. n
                   PROVE  /\ keyPins[i].session = depPins[i].session /\ keyPins[i].left = depPins[i].left
                          /\ keyPins[i] \in Affinity!Range(keyPins) /\ depPins[i] \in Affinity!Range(depPins)
                          /\ keyPins[i].to \in Serves[depPins[i].to]
      OBVIOUS
    <2>2. i \in DOMAIN keyPins /\ i \in DOMAIN depPins
      BY <1>2, <1>4
    <2>. QED BY <1>3, <2>2 DEF Abreast, Affinity!Range
  <1>8. Affinity!Live(keyPins, s) # {} <=> Affinity!Live(depPins, s) # {}
    BY <1>5, <1>6, <1>7 DEF Affinity!Live
  <1>9. ASSUME NEW p \in Affinity!Live(keyPins, s), NEW q \in Affinity!Live(depPins, s)
        PROVE  p.to \in Serves[q.to]
    <2>1. PICK i \in 1 .. n : p = keyPins[i] /\ keyPins[i].session = s /\ keyPins[i].left > 0
      BY <1>5
    <2>2. PICK j \in 1 .. n : q = depPins[j] /\ depPins[j].session = s
      BY <1>6
    <2>3. depPins[i].session = s /\ i \in 1 .. Len(depPins) /\ j \in 1 .. Len(depPins)
      BY <1>2, <1>4, <1>7, <2>1
    <2>4. i = j
      BY <1>1, <2>2, <2>3 DEF Dict, OneEach
    <2>. QED BY <1>7, <2>1, <2>2, <2>4
  <1>. QED BY <1>8, <1>9

LEMMA SideBySideInitial == ASSUME Affinity!Init PROVE SideBySide
  <1>1. keyPins = <<>> /\ depPins = <<>> /\ Len(<<>>) = 0
    BY DEF Affinity!Init
  <1>2. Abreast(<<>>, <<>>, 0)
    BY <1>1 DEF Abreast
  <1>3. Aging(<<>>)
    BY <1>1 DEF Aging
  <1>. QED BY <1>1, <1>2, <1>3 DEF SideBySide, Aligned

\* Whatever requests, failures, reloads and time come in between: a session that is due goes
\* back to the deployment and the key that served it last, and under steady settings the
\* dictionaries of pool and scheduler never disagree.
THEOREM TurnsAlwaysStay == MCSpec => TurnsStay
  <1>1. MCInit => SessionInv /\ SideBySide
    BY AffinityAssumption, SessionInitial, SideBySideInitial DEF MCInit
  <1>2. [MCNext]_both => [Affinity!Next]_Affinity!vars
    BY DEF MCNext, both, sessionVars, Affinity!vars, Affinity!pinVars
  <1>3. (SessionInv /\ SideBySide) /\ [Affinity!Next]_Affinity!vars => (SessionInv /\ SideBySide)'
    BY SessionNext, SideBySideNext
  <1>4. SessionInv /\ SideBySide => Affinity!PinsAgree
    BY SideBySideAgree
  <1>5. SessionInv => [\A r \in Turns, s \in Sessions :
        (/\ turn[r] = Affinity!NoRequest /\ turn'[r].session = s /\ setting.on /\ Affinity!Due(s)
         /\ served[s].dep \notin down /\ served[s].key \notin resting
         /\ Affinity!Begin(r, s, FALSE))
            => /\ Head(turn'[r].todo) = served[s].dep
               /\ Head(turn'[r].keys) = served[s].key]_Affinity!vars
    BY TurnStays
  <1>. QED BY <1>1, <1>2, <1>3, <1>4, <1>5, PTL DEF MCSpec, TurnsStay, Affinity!TurnsStay

=============================================================================
