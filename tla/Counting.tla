-------------------------------- MODULE Counting --------------------------------
(***************************************************************************)
(* Facts about numbers, sequences and sums that the proofs of several      *)
(* components rest on: the place of a number among the others, least and   *)
(* greatest ones, sequences behind one another and sums over sets.  That   *)
(* each set of naturals has a least one is what the proofs use in the      *)
(* place of induction: were there a counterexample, there would be a least *)
(* one.                                                                    *)
(***************************************************************************)
EXTENDS Integers, SequencesExt, FiniteSetTheorems, SequenceTheorems, WellFoundedInduction, TLAPS

\* The elements of B up to i, whose number is the place of i among them.
UpTo(B, i) == {j \in B : j <= i}

\* Of two numbers of a set the smaller has fewer up to itself.
LEMMA UpToSmaller ==
    ASSUME NEW B, B \subseteq Int, IsFiniteSet(B), NEW i \in B, NEW j \in B, i < j
    PROVE  Cardinality(UpTo(B, i)) < Cardinality(UpTo(B, j))
  <1>1. IsFiniteSet(UpTo(B, j)) /\ IsFiniteSet(UpTo(B, i))
    BY FS_Subset DEF UpTo
  <1>2. UpTo(B, i) \subseteq UpTo(B, j) /\ j \in UpTo(B, j) /\ j \notin UpTo(B, i)
    <2>1. i \in Int /\ j \in Int
      OBVIOUS
    <2>2. \A k \in B : k <= i => k <= j
      <3> SUFFICES ASSUME NEW k \in B, k <= i PROVE k <= j
        OBVIOUS
      <3>1. k \in Int
        OBVIOUS
      <3> QED BY <2>1, <3>1
    <2>3. j <= j /\ ~(j <= i)
      BY <2>1
    <2> QED BY <2>2, <2>3 DEF UpTo
  <1>3. UpTo(B, i) # UpTo(B, j)
    BY <1>2
  <1>4. Cardinality(UpTo(B, i)) \in Nat /\ Cardinality(UpTo(B, j)) \in Nat
    BY <1>1, FS_CardinalityType
  <1>5. /\ Cardinality(UpTo(B, i)) <= Cardinality(UpTo(B, j))
        /\ Cardinality(UpTo(B, i)) # Cardinality(UpTo(B, j))
    BY <1>1, <1>2, <1>3, FS_Subset
  <1> QED BY <1>4, <1>5

\* Every number up to that of the elements is the place of one.
LEMMA PlacesTaken ==
    ASSUME NEW B, B \subseteq Int, IsFiniteSet(B)
    PROVE  /\ Cardinality(B) \in Nat
           /\ \A i \in B : Cardinality(UpTo(B, i)) \in 1 .. Cardinality(B)
           /\ \A k \in 1 .. Cardinality(B) : \E i \in B : Cardinality(UpTo(B, i)) = k
  <1> DEFINE n == Cardinality(B)
             place == [i \in B |-> Cardinality(UpTo(B, i))]
  <1>1. n \in Nat
    BY FS_CardinalityType
  <1>2. ASSUME NEW i \in B PROVE Cardinality(UpTo(B, i)) \in 1 .. n
    <2>1. UpTo(B, i) \in SUBSET B /\ i \in UpTo(B, i)
      BY DEF UpTo
    <2>2. IsFiniteSet(UpTo(B, i)) /\ Cardinality(UpTo(B, i)) <= n
      BY <2>1, FS_Subset
    <2>3. Cardinality(UpTo(B, i)) \in Nat /\ Cardinality(UpTo(B, i)) # 0
      BY <2>1, <2>2, FS_CardinalityType, FS_EmptySet
    <2> QED BY <1>1, <2>2, <2>3
  <1>3. place \in [B -> 1 .. n]
    BY <1>2
  <1>4. ASSUME NEW i \in B, NEW j \in B, place[i] = place[j] PROVE i = j
    <2>0. i \in Int /\ j \in Int /\ Cardinality(UpTo(B, i)) = Cardinality(UpTo(B, j))
      BY <1>4
    <2>1. Cardinality(UpTo(B, i)) \in Int
      BY <1>2
    <2>2. ASSUME i < j PROVE FALSE
      <3>1. Cardinality(UpTo(B, i)) < Cardinality(UpTo(B, j))
        BY <2>2, UpToSmaller
      <3> QED BY <2>0, <2>1, <3>1
    <2>3. ASSUME j < i PROVE FALSE
      <3>1. Cardinality(UpTo(B, j)) < Cardinality(UpTo(B, i))
        BY <2>3, UpToSmaller
      <3> QED BY <2>0, <2>1, <3>1
    <2> QED BY <2>0, <2>2, <2>3
  <1> HIDE DEF place, n
  <1>5. place \in Injection(B, 1 .. n)
    BY <1>3, <1>4 DEF Injection, IsInjective
  <1>6. IsFiniteSet(1 .. n) /\ Cardinality(1 .. n) = n
    BY <1>1, FS_Interval
  <1>7. place \in Surjection(B, 1 .. n)
    BY <1>5, <1>6, FS_Injection DEF n
  <1>8. \A k \in 1 .. n : \E i \in B : place[i] = k
    BY <1>7 DEF Surjection
  <1> QED BY <1>1, <1>2, <1>8 DEF n, place

--------------------------------------------------------------------------------
(* The least and the greatest of some numbers. *)

\* The order of the naturals.
Less == {ss \in Nat \X Nat : ss[1] < ss[2]}

\* The order of the naturals, as a relation, is well founded.
LEMMA LessWF == IsWellFoundedOn(Less, Nat)
  BY NatLessThanWellFounded DEF OpToRel, Less

\* A set of naturals has a least one: the induction the proofs rest on.
LEMMA LeastNatural ==
    ASSUME NEW S, S \subseteq Nat, S # {}
    PROVE  \E m \in S : \A k \in S : m <= k
  <1>1. \E m \in S : \A k \in S : ~(<<k, m>> \in Less)
    BY LessWF, WFMin
  <1>2. \A k, m \in S : k < m => <<k, m>> \in Less
    BY DEF Less
  <1>3. PICK m \in S : \A k \in S : ~(<<k, m>> \in Less)
    BY <1>1
  <1>4. ASSUME NEW k \in S PROVE m <= k
    <2>1. ~(k < m)
      BY <1>3, <1>2
    <2>2. k \in Nat /\ m \in Nat
      OBVIOUS
    <2> QED BY <2>1, <2>2
  <1> QED BY <1>4

\* The least and the greatest of some numbers are among them.
LEMMA LeastAndGreatest ==
    ASSUME NEW n \in Nat, NEW S, S \subseteq 1 .. n, S # {}
    PROVE  /\ Min(S) \in S /\ \A k \in S : Min(S) <= k
           /\ Max(S) \in S /\ \A k \in S : k <= Max(S)
  <1>1. S \subseteq Nat
    OBVIOUS
  <1>2. \E m \in S : \A k \in S : m <= k
    BY <1>1, LeastNatural
  <1>3. \E m \in S : \A k \in S : k <= m
    <2> DEFINE T == {k \in Nat : k <= n /\ n - k \in S}
    <2>1. \A k \in S : n - k \in T /\ n - (n - k) = k
      OBVIOUS
    <2>2. T \subseteq Nat /\ T # {}
      BY <2>1
    <2>3. PICK t \in T : \A k \in T : t <= k
      BY <2>2, LeastNatural
    <2>4. n - t \in S /\ t \in Nat
      OBVIOUS
    <2>5. ASSUME NEW k \in S PROVE k <= n - t
      <3>1. t <= n - k
        BY <2>1, <2>3
      <3> QED BY <2>4, <3>1, <1>1
    <2> QED BY <2>4, <2>5
  <1> QED BY <1>2, <1>3 DEF Min, Max

--------------------------------------------------------------------------------
(* Sequences of sequences, behind one another. *)

\* The places in the first n of a sequence of sequences.
PlacesUpTo(q, n) == UNION {{c} \X DOMAIN q[c] : c \in 1 .. n}

\* There are finitely many.
LEMMA PlacesFinite ==
    ASSUME NEW S, NEW q \in Seq(Seq(S)), NEW n \in 0 .. Len(q)
    PROVE  IsFiniteSet(PlacesUpTo(q, n)) /\ Cardinality(PlacesUpTo(q, n)) \in Nat
  <1> DEFINE Sets == {{c} \X DOMAIN q[c] : c \in 1 .. n}
  <1>1. IsFiniteSet(1 .. n)
    BY FS_Interval, 1 \in Int, n \in Int
  <1>2. IsFiniteSet(Sets)
    <2> DEFINE f == [c \in 1 .. n |-> {c} \X DOMAIN q[c]]
    <2>1. f \in Surjection(1 .. n, Sets)
      BY DEF Surjection
    <2> HIDE DEF f, Sets
    <2> QED BY <1>1, <2>1, FS_Surjection
  <1>3. ASSUME NEW T \in Sets PROVE IsFiniteSet(T)
    <2>1. PICK c \in 1 .. n : T = {c} \X DOMAIN q[c]
      OBVIOUS
    <2>2. q[c] \in Seq(S)
      <3>1. c \in 1 .. Len(q)
        OBVIOUS
      <3> QED BY <3>1
    <2>3. DOMAIN q[c] = 1 .. Len(q[c]) /\ Len(q[c]) \in Nat
      BY <2>2
    <2>4. PICK l \in Nat : DOMAIN q[c] = 1 .. l
      BY <2>3
    <2>5. IsFiniteSet(1 .. l)
      BY FS_Interval, 1 \in Int, l \in Int
    <2>6. IsFiniteSet({c})
      BY FS_Singleton
    <2> QED BY <2>1, <2>4, <2>5, <2>6, FS_Product
  <1> HIDE DEF Sets
  <1>4. IsFiniteSet(UNION Sets)
    BY <1>2, <1>3, FS_UNION
  <1> QED BY <1>4, FS_CardinalityType DEF PlacesUpTo, Sets

\* One sequence more adds as many places as it has.
LEMMA PlacesOneMore ==
    ASSUME NEW S, NEW q \in Seq(Seq(S)), NEW n \in Nat, n + 1 <= Len(q)
    PROVE  Cardinality(PlacesUpTo(q, n + 1)) = Cardinality(PlacesUpTo(q, n)) + Len(q[n + 1])
  <1> DEFINE P == PlacesUpTo(q, n)
             N == {n + 1} \X DOMAIN q[n + 1]
  <1>1. n \in 0 .. Len(q) /\ n + 1 \in 1 .. Len(q)
    OBVIOUS
  <1>2. q[n + 1] \in Seq(S)
    BY <1>1
  <1>3. DOMAIN q[n + 1] = 1 .. Len(q[n + 1]) /\ Len(q[n + 1]) \in Nat
    BY <1>2
  <1>4. 1 .. n + 1 = 1 .. n \cup {n + 1}
    OBVIOUS
  <1>5. PlacesUpTo(q, n + 1) = P \cup N
    BY <1>4 DEF PlacesUpTo
  <1>6. P \cap N = {}
    BY DEF PlacesUpTo
  <1>7. IsFiniteSet(P) /\ Cardinality(P) \in Nat
    BY <1>1, PlacesFinite
  <1>8. IsFiniteSet(N) /\ Cardinality(N) = Len(q[n + 1])
    <2>1. IsFiniteSet({n + 1}) /\ Cardinality({n + 1}) = 1
      BY FS_Singleton
    <2>2. IsFiniteSet(DOMAIN q[n + 1]) /\ Cardinality(DOMAIN q[n + 1]) = Len(q[n + 1])
      BY <1>3, FS_Interval, 1 \in Int, Len(q[n + 1]) \in Int
    <2>3. IsFiniteSet(N) /\ Cardinality(N) = 1 * Len(q[n + 1])
      BY <2>1, <2>2, FS_Product
    <2> QED BY <1>3, <2>3
  <1> HIDE DEF P, N
  <1>9. Cardinality(P \cup N) = Cardinality(P) + Cardinality(N) - Cardinality(P \cap N)
    BY <1>7, <1>8, FS_Union
  <1>10. Cardinality(P \cap N) = 0
    BY <1>6, FS_EmptySet
  <1>11. Cardinality(PlacesUpTo(q, n + 1)) = Cardinality(P) + Len(q[n + 1]) - 0
    BY <1>5, <1>8, <1>9, <1>10
  <1>12. PICK l \in Nat, k \in Nat : l = Len(q[n + 1]) /\ k = Cardinality(P)
    BY <1>3, <1>7
  <1> QED BY <1>11, <1>12 DEF P

\* What FlattenSeq computes is what its recursion says.
LEMMA FlattenRecursion ==
    ASSUME NEW S, NEW q \in Seq(Seq(S)), Len(q) # 0
    PROVE  \E f \in [1 .. Len(q) -> Seq(S)] :
              /\ f[1] = q[1]
              /\ \A i \in 2 .. Len(q) : f[i] = f[i - 1] \o q[i]
              /\ FlattenSeq(q) = f[Len(q)]
  <1> DEFINE Step(g, i) == IF i = 1 THEN q[i] ELSE g[i - 1] \o q[i]
             Good(n, g) == g \in [1 .. n -> Seq(S)] /\ \A i \in 1 .. n : g[i] = Step(g, i)
  <1>1. PICK N \in Nat : N = Len(q) /\ N >= 1
    OBVIOUS
  <1>2. \A i \in 1 .. N : q[i] \in Seq(S)
    BY <1>1
  <1>3. \E g : Good(N, g)
    <2> DEFINE Bad == {n \in Nat : n \in 1 .. N /\ \A g : ~Good(n, g)}
    <2> SUFFICES ASSUME Bad # {} PROVE FALSE
      <3> HIDE DEF Good
      <3>1. N \in 1 .. N /\ N \in Nat
        BY <1>1
      <3> QED BY <3>1
    <2>1. PICK m \in Bad : \A k \in Bad : m <= k
      <3>1. Bad \subseteq Nat
        OBVIOUS
      <3> HIDE DEF Bad
      <3> QED BY <3>1, LeastNatural
    <2>2. CASE m = 1
      <3> DEFINE g == [i \in 1 .. 1 |-> q[1]]
      <3>1. Good(1, g)
        BY <1>1, <1>2
      <3> QED BY <2>2, <3>1
    <2>3. CASE m # 1
      <3>1. m - 1 \in 1 .. N /\ m \in 1 .. N /\ m \in Nat
        BY <2>3
      <3>2. m - 1 \in Nat /\ ~(m <= m - 1)
        BY <3>1
      <3>3. \E g : Good(m - 1, g)
        <4> HIDE DEF Good
        <4>1. m - 1 \notin Bad
          <5> HIDE DEF Bad
          <5> QED BY <2>1, <3>2
        <4> QED BY <3>1, <3>2, <4>1
      <3>30. PICK g : Good(m - 1, g)
        BY <3>3
      <3> DEFINE h == [i \in 1 .. m |-> IF i = m THEN g[m - 1] \o q[m] ELSE g[i]]
      <3>4. g[m - 1] \o q[m] \in Seq(S)
        <4>1. g[m - 1] \in Seq(S) /\ q[m] \in Seq(S)
          BY <1>2, <3>1, <3>30
        <4> QED BY <4>1, ConcatProperties
      <3>5. h \in [1 .. m -> Seq(S)]
        BY <3>1, <3>30, <3>4
      <3>6. ASSUME NEW i \in 1 .. m PROVE h[i] = Step(h, i)
        <4>1. CASE i = m
          <5>1. m - 1 \in 1 .. m /\ m - 1 # m /\ m \in 1 .. m
            BY <3>1
          <5>2. h[m - 1] = g[m - 1] /\ h[m] = g[m - 1] \o q[m]
            BY <5>1
          <5> QED BY <2>3, <4>1, <5>2
        <4>2. CASE i # m
          <5>1. i \in 1 .. m - 1 /\ h[i] = g[i]
            BY <3>1, <4>2
          <5>2. g[i] = Step(g, i)
            BY <3>30, <5>1
          <5>3. i # 1 => h[i - 1] = g[i - 1]
            BY <3>1, <5>1
          <5> QED BY <5>1, <5>2, <5>3
        <4> QED BY <4>1, <4>2
      <3>7. Good(m, h)
        BY <3>5, <3>6
      <3> QED BY <3>7
    <2> QED BY <2>2, <2>3
  <1>4. PICK g : Good(N, g)
    BY <1>3
  <1>5. g = [i \in 1 .. N |-> IF i = 1 THEN q[i] ELSE g[i - 1] \o q[i]]
    BY <1>4
  <1> DEFINE f == CHOOSE f : f = [i \in 1 .. N |-> IF i = 1 THEN q[i] ELSE f[i - 1] \o q[i]]
  <1>6. f = [i \in 1 .. N |-> IF i = 1 THEN q[i] ELSE f[i - 1] \o q[i]]
    BY <1>5
  <1>7. FlattenSeq(q) = f[N]
    BY <1>1 DEF FlattenSeq
  <1> HIDE DEF f
  <1>8. \A i \in 1 .. N : f[i] \in Seq(S)
    <2> DEFINE Bad == {n \in Nat : n \in 1 .. N /\ f[n] \notin Seq(S)}
    <2> SUFFICES ASSUME Bad # {} PROVE FALSE
      OBVIOUS
    <2>1. PICK m \in Bad : \A k \in Bad : m <= k
      <3>1. Bad \subseteq Nat
        OBVIOUS
      <3> HIDE DEF Bad
      <3> QED BY <3>1, LeastNatural
    <2>2. m \in 1 .. N /\ f[m] \notin Seq(S) /\ q[m] \in Seq(S)
      BY <1>2
    <2>3. m # 1
      BY <1>6, <2>2
    <2>4. m - 1 \in 1 .. N /\ m - 1 \in Nat
      BY <2>2, <2>3
    <2>5. f[m - 1] \in Seq(S)
      BY <2>1, <2>4
    <2>6. f[m] = f[m - 1] \o q[m]
      BY <1>6, <2>2, <2>3
    <2> QED BY <2>2, <2>5, <2>6, ConcatProperties
  <1>9. f \in [1 .. N -> Seq(S)]
    <2>1. DOMAIN f = 1 .. N /\ f = [i \in 1 .. N |-> f[i]]
      BY <1>6
    <2> QED BY <1>8, <2>1
  <1>10. f[1] = q[1] /\ \A i \in 2 .. N : f[i] = f[i - 1] \o q[i]
    <2>1. 1 \in 1 .. N /\ \A i \in 2 .. N : i \in 1 .. N /\ i # 1
      BY <1>1
    <2> QED BY <1>6, <2>1
  <1> QED BY <1>1, <1>7, <1>9, <1>10

\* The place of place i of sequence b when all are behind one another.
PlaceOf(q, b, i) == Cardinality(PlacesUpTo(q, b - 1)) + i

\* Up to a sequence there are as many places as up to the one before and its own.
LEMMA PlaceCounts ==
    ASSUME NEW S, NEW q \in Seq(Seq(S)), NEW b \in 1 .. Len(q)
    PROVE  /\ b \in Nat /\ q[b] \in Seq(S) /\ Len(q[b]) \in Nat /\ DOMAIN q[b] = 1 .. Len(q[b])
           /\ Cardinality(PlacesUpTo(q, b - 1)) \in Nat
           /\ Cardinality(PlacesUpTo(q, b)) = Cardinality(PlacesUpTo(q, b - 1)) + Len(q[b])
  <1>1. PICK n \in Nat : n = b - 1 /\ n + 1 = b /\ n + 1 <= Len(q) /\ n \in 0 .. Len(q)
    OBVIOUS
  <1>2. Cardinality(PlacesUpTo(q, n + 1)) = Cardinality(PlacesUpTo(q, n)) + Len(q[n + 1])
    BY <1>1, PlacesOneMore
  <1>3. Cardinality(PlacesUpTo(q, n)) \in Nat
    BY <1>1, PlacesFinite
  <1>4. q[b] \in Seq(S)
    OBVIOUS
  <1> QED BY <1>1, <1>2, <1>3, <1>4

\* Different places stay different, and in order.
LEMMA PlacesInOrder ==
    ASSUME NEW S, NEW q \in Seq(Seq(S)),
           NEW b \in 1 .. Len(q), NEW i \in DOMAIN q[b],
           NEW c \in 1 .. Len(q), NEW j \in DOMAIN q[c],
           PlaceOf(q, b, i) = PlaceOf(q, c, j)
    PROVE  b = c /\ i = j
  <1>1. ASSUME NEW x \in 1 .. Len(q), NEW u \in DOMAIN q[x],
               NEW y \in 1 .. Len(q), NEW v \in DOMAIN q[y], x < y
        PROVE  PlaceOf(q, x, u) < PlaceOf(q, y, v)
    <2>1. PICK n \in 0 .. Len(q) : n = y - 1 /\ x <= n /\ x \in 0 .. Len(q)
      BY <1>1
    <2>2. PlacesUpTo(q, x) \subseteq PlacesUpTo(q, n)
      BY <2>1 DEF PlacesUpTo
    <2>3. /\ IsFiniteSet(PlacesUpTo(q, n)) /\ Cardinality(PlacesUpTo(q, n)) \in Nat
          /\ Cardinality(PlacesUpTo(q, x)) \in Nat
      BY <2>1, PlacesFinite
    <2>4. Cardinality(PlacesUpTo(q, x)) <= Cardinality(PlacesUpTo(q, n))
      BY <2>2, <2>3, FS_Subset
    <2>5. /\ Cardinality(PlacesUpTo(q, x)) = Cardinality(PlacesUpTo(q, x - 1)) + Len(q[x])
          /\ Cardinality(PlacesUpTo(q, x - 1)) \in Nat
          /\ u \in 1 .. Len(q[x]) /\ Len(q[x]) \in Nat /\ v \in 1 .. Len(q[y]) /\ Len(q[y]) \in Nat
      BY PlaceCounts
    <2>6. PlaceOf(q, y, v) = Cardinality(PlacesUpTo(q, n)) + v
      BY <2>1 DEF PlaceOf
    <2>7. PlaceOf(q, x, u) = Cardinality(PlacesUpTo(q, x - 1)) + u
      BY DEF PlaceOf
    <2>8. PICK k \in Nat, l \in Nat, m \in Nat :
              /\ k = Cardinality(PlacesUpTo(q, x - 1)) /\ l = Len(q[x])
              /\ m = Cardinality(PlacesUpTo(q, n))
      BY <2>3, <2>5
    <2>9. k + l <= m /\ u \in 1 .. l /\ v >= 1 /\ v \in Int
      BY <2>4, <2>5, <2>8
    <2>10. PICK g \in Int, h \in Int : g = u /\ h = v /\ g <= l /\ h >= 1
      BY <2>9
    <2>11. PlaceOf(q, x, u) = k + g /\ PlaceOf(q, y, v) = m + h
      BY <2>6, <2>7, <2>8, <2>10
    <2>12. k + g < m + h
      BY <2>9, <2>10
    <2> QED BY <2>11, <2>12
  <1>2. ASSUME NEW x \in 1 .. Len(q), NEW u \in DOMAIN q[x] PROVE PlaceOf(q, x, u) \in Int
    <2>1. /\ Cardinality(PlacesUpTo(q, x - 1)) \in Nat
          /\ u \in 1 .. Len(q[x]) /\ Len(q[x]) \in Nat
      BY PlaceCounts
    <2> QED BY <2>1 DEF PlaceOf
  <1>3. b = c
    <2>1. ~(b < c) /\ ~(c < b)
      BY <1>1, <1>2
    <2>2. b \in Int /\ c \in Int
      OBVIOUS
    <2> QED BY <2>1, <2>2
  <1>4. /\ Cardinality(PlacesUpTo(q, b - 1)) \in Nat
        /\ i \in 1 .. Len(q[b]) /\ Len(q[b]) \in Nat /\ j \in 1 .. Len(q[c]) /\ Len(q[c]) \in Nat
    BY PlaceCounts
  <1> QED BY <1>3, <1>4 DEF PlaceOf

\* FlattenSeq puts each element at its place and nothing else anywhere.
LEMMA Flattened ==
    ASSUME NEW S, NEW q \in Seq(Seq(S))
    PROVE  /\ FlattenSeq(q) \in Seq(S)
           /\ Len(FlattenSeq(q)) = Cardinality(PlacesUpTo(q, Len(q)))
           /\ \A b \in 1 .. Len(q) : \A i \in DOMAIN q[b] :
                 /\ PlaceOf(q, b, i) \in 1 .. Len(FlattenSeq(q))
                 /\ FlattenSeq(q)[PlaceOf(q, b, i)] = q[b][i]
           /\ \A k \in 1 .. Len(FlattenSeq(q)) :
                 \E b \in 1 .. Len(q) : \E i \in DOMAIN q[b] : k = PlaceOf(q, b, i)
  <1>0. Cardinality(PlacesUpTo(q, 0)) = 0
    <2>1. PlacesUpTo(q, 0) = {}
      BY DEF PlacesUpTo
    <2> QED BY <2>1, FS_EmptySet
  <1>1. CASE Len(q) = 0
    <2>1. FlattenSeq(q) = q /\ q = <<>>
      BY <1>1, EmptySeq DEF FlattenSeq
    <2>2. FlattenSeq(q) \in Seq(S) /\ Len(FlattenSeq(q)) = 0
      BY <1>1, <2>1, EmptySeq
    <2> QED BY <1>0, <1>1, <2>2
  <1>2. CASE Len(q) # 0
    <2>1. PICK N \in Nat : N = Len(q) /\ N >= 1
      BY <1>2
    <2>2. PICK f \in [1 .. N -> Seq(S)] :
              /\ f[1] = q[1]
              /\ \A i \in 2 .. N : f[i] = f[i - 1] \o q[i]
              /\ FlattenSeq(q) = f[N]
      BY <1>2, <2>1, FlattenRecursion
    <2> DEFINE Good(n) ==
                 /\ Len(f[n]) = Cardinality(PlacesUpTo(q, n))
                 /\ \A b \in 1 .. n : \A i \in DOMAIN q[b] :
                       PlaceOf(q, b, i) \in 1 .. Len(f[n]) /\ f[n][PlaceOf(q, b, i)] = q[b][i]
                 /\ \A k \in 1 .. Len(f[n]) :
                       \E b \in 1 .. n : \E i \in DOMAIN q[b] : k = PlaceOf(q, b, i)
    <2>3. Good(1)
      <3>1. 1 \in 1 .. Len(q) /\ 1 - 1 = 0
        BY <2>1
      <3>2. /\ Cardinality(PlacesUpTo(q, 1)) = Len(q[1]) /\ Len(q[1]) \in Nat
            /\ DOMAIN q[1] = 1 .. Len(q[1])
        <4>1. /\ Cardinality(PlacesUpTo(q, 1)) = Cardinality(PlacesUpTo(q, 1 - 1)) + Len(q[1])
              /\ Len(q[1]) \in Nat /\ DOMAIN q[1] = 1 .. Len(q[1])
          BY <3>1, PlaceCounts
        <4> QED BY <1>0, <3>1, <4>1
      <3>3. \A i \in 1 .. Len(q[1]) : PlaceOf(q, 1, i) = i
        BY <1>0, <3>1, <3>2 DEF PlaceOf
      <3>4. \A b \in 1 .. 1 : b = 1
        OBVIOUS
      <3>5. 1 \in 1 .. 1 /\ \A k \in 1 .. Len(q[1]) : k = PlaceOf(q, 1, k)
        BY <3>3
      <3> QED BY <2>2, <3>2, <3>3, <3>4, <3>5
    <2>4. ASSUME NEW n \in 1 .. N, n + 1 \in 1 .. N, Good(n) PROVE Good(n + 1)
      <3>1. n + 1 \in 1 .. Len(q) /\ n + 1 \in 2 .. N /\ n + 1 - 1 = n /\ n \in Nat
        BY <2>1, <2>4
      <3>2. PICK t \in Seq(S), u \in Seq(S) : t = f[n] /\ u = q[n + 1]
        BY <2>2, <2>4, <3>1
      <3>3. f[n + 1] = t \o u
        <4>1. \A i \in 2 .. N : f[i] = f[i - 1] \o q[i]
          BY <2>2
        <4>2. PICK i \in 2 .. N : i = n + 1 /\ i - 1 = n
          BY <3>1
        <4> QED BY <3>2, <4>1, <4>2
      <3>4. PICK l \in Nat, m \in Nat : l = Len(t) /\ m = Len(u)
        OBVIOUS
      <3>5. /\ Len(f[n + 1]) = l + m
            /\ \A i \in 1 .. l : f[n + 1][i] = t[i]
            /\ \A i \in 1 .. m : f[n + 1][l + i] = u[i]
        BY <3>3, <3>4
      <3>6. DOMAIN u = 1 .. m
        BY <3>4
      <3>7. l = Cardinality(PlacesUpTo(q, n)) /\ \A i \in 1 .. m : PlaceOf(q, n + 1, i) = l + i
        BY <2>4, <3>1, <3>2, <3>4 DEF PlaceOf
      <3>8. Len(f[n + 1]) = Cardinality(PlacesUpTo(q, n + 1))
        <4>1. Cardinality(PlacesUpTo(q, n + 1)) =
                  Cardinality(PlacesUpTo(q, n + 1 - 1)) + Len(q[n + 1])
          BY <3>1, PlaceCounts
        <4> QED BY <3>1, <3>2, <3>4, <3>5, <3>7, <4>1
      <3>9. ASSUME NEW b \in 1 .. n + 1, NEW i \in DOMAIN q[b]
            PROVE  /\ PlaceOf(q, b, i) \in 1 .. l + m
                   /\ f[n + 1][PlaceOf(q, b, i)] = q[b][i]
        <4>1. CASE b = n + 1
          <5>1. i \in 1 .. m
            BY <3>2, <3>6, <4>1
          <5>2. PlaceOf(q, b, i) = l + i /\ q[b][i] = u[i]
            BY <3>2, <3>7, <4>1, <5>1
          <5>3. l + i \in 1 .. l + m /\ f[n + 1][l + i] = u[i]
            BY <3>5, <5>1
          <5> QED BY <5>2, <5>3
        <4>2. CASE b # n + 1
          <5>1. b \in 1 .. n
            BY <3>1, <4>2
          <5>2. PlaceOf(q, b, i) \in 1 .. l /\ t[PlaceOf(q, b, i)] = q[b][i]
            BY <2>4, <3>2, <3>4, <5>1
          <5> QED BY <3>5, <5>2
        <4> QED BY <4>1, <4>2
      <3>10. ASSUME NEW k \in 1 .. l + m
             PROVE  \E b \in 1 .. n + 1 : \E i \in DOMAIN q[b] : k = PlaceOf(q, b, i)
        <4>1. CASE k <= l
          <5>1. k \in 1 .. Len(f[n])
            BY <3>2, <3>4, <4>1
          <5>2. PICK b \in 1 .. n : \E i \in DOMAIN q[b] : k = PlaceOf(q, b, i)
            BY <2>4, <5>1
          <5>3. b \in 1 .. n + 1
            BY <3>1
          <5> QED BY <5>2, <5>3
        <4>2. CASE k > l
          <5>1. k - l \in 1 .. m /\ k = l + (k - l) /\ n + 1 \in 1 .. n + 1
            BY <3>1, <4>2
          <5>2. k - l \in DOMAIN q[n + 1]
            BY <3>2, <3>6, <5>1
          <5>3. k = PlaceOf(q, n + 1, k - l)
            BY <3>7, <5>1
          <5> QED BY <5>1, <5>2, <5>3
        <4> QED BY <4>1, <4>2
      <3> QED BY <3>5, <3>8, <3>9, <3>10
    <2>5. Good(N)
      <3> HIDE DEF Good
      <3> DEFINE Bad == {n \in Nat : n \in 1 .. N /\ ~Good(n)}
      <3> SUFFICES ASSUME Bad # {} PROVE FALSE
        BY <2>1
      <3>1. PICK m \in Bad : \A k \in Bad : m <= k
        <4>1. Bad \subseteq Nat
          OBVIOUS
        <4> HIDE DEF Bad
        <4> QED BY <4>1, LeastNatural
      <3>2. m \in 1 .. N /\ ~Good(m) /\ m # 1
        BY <2>3
      <3>3. PICK n \in 1 .. N : m = n + 1
        BY <3>2
      <3>4. n \notin Bad
        <4>1. n \in Nat /\ ~(m <= n)
          BY <3>3
        <4> HIDE DEF Bad
        <4> QED BY <3>1, <4>1
      <3>5. Good(n)
        BY <3>4
      <3> QED BY <2>4, <3>2, <3>3, <3>5
    <2>6. FlattenSeq(q) \in Seq(S)
      BY <2>1, <2>2
    <2> QED BY <2>1, <2>2, <2>5, <2>6
  <1> QED BY <1>1, <1>2

--------------------------------------------------------------------------------
(* Folds over finite sets: sums and products.  The order in which a fold takes the *)
(* elements is its own.                                                            *)

\* What holds of a set whenever it holds of those with one element less, holds of all:
\* the induction over finite sets, with the set of those it holds of in the place of a
\* predicate.
LEMMA SetInduction ==
    ASSUME NEW S, IsFiniteSet(S), NEW G,
           \A T \in SUBSET S : (\A x \in T : T \ {x} \in G) => T \in G
    PROVE  \A T \in SUBSET S : T \in G
  <1> DEFINE Bad == {n \in Nat : \E T \in SUBSET S : Cardinality(T) = n /\ T \notin G}
  <1>1. \A T \in SUBSET S : IsFiniteSet(T) /\ Cardinality(T) \in Nat
    BY FS_Subset, FS_CardinalityType
  <1> SUFFICES ASSUME Bad # {} PROVE FALSE
    BY <1>1
  <1>2. PICK m \in Bad : \A k \in Bad : m <= k
    <2>1. Bad \subseteq Nat
      OBVIOUS
    <2> HIDE DEF Bad
    <2> QED BY <2>1, LeastNatural
  <1>3. PICK T \in SUBSET S : Cardinality(T) = m /\ T \notin G
    OBVIOUS
  <1>4. PICK x \in T : T \ {x} \notin G
    BY <1>3
  <1>5. Cardinality(T \ {x}) = m - 1 /\ T \ {x} \in SUBSET S
    BY <1>1, <1>3, FS_RemoveElement
  <1>6. m - 1 \in Nat /\ ~(m <= m - 1)
    BY <1>1, <1>5
  <1>7. m - 1 \in Bad
    BY <1>4, <1>5, <1>6
  <1> HIDE DEF Bad
  <1> QED BY <1>2, <1>6, <1>7

\* pick names an element of each subset of S that has one.
Picks(pick, S) == \A T \in SUBSET S : T # {} => pick[T] \in T

\* g is a fold: what a set gives is what it gives without the element picked, and one
\* step more.
IsFold(g, S, V, base, pick, step) ==
    /\ g \in [SUBSET S -> V]
    /\ \A T \in SUBSET S : g[T] = IF T = {} THEN base ELSE step[<<pick[T], g[T \ {pick[T]}]>>]

\* There is such a function, so that a recursion over finite sets has a value.
LEMMA FoldExists ==
    ASSUME NEW S, IsFiniteSet(S), NEW V, NEW base \in V,
           NEW pick, Picks(pick, S), NEW step \in [S \X V -> V]
    PROVE  \E g : IsFold(g, S, V, base, pick, step)
  <1> DEFINE Step(g, T) == IF T = {} THEN base ELSE step[<<pick[T], g[T \ {pick[T]}]>>]
             UpToSize(n) == {T \in SUBSET S : Cardinality(T) <= n}
             Good(n, g) == g \in [UpToSize(n) -> V] /\ \A T \in UpToSize(n) : g[T] = Step(g, T)
  <1>1. \A T \in SUBSET S : IsFiniteSet(T) /\ Cardinality(T) \in Nat
    BY FS_Subset, FS_CardinalityType
  <1>2. \A T \in SUBSET S : T # {} =>
            pick[T] \in T /\ T \ {pick[T]} \in SUBSET S /\ Cardinality(T \ {pick[T]}) = Cardinality(T) - 1
    BY <1>1, FS_RemoveElement DEF Picks
  <1>3. PICK N \in Nat : N = Cardinality(S)
    BY FS_CardinalityType
  <1>4. \E g : Good(N, g)
    <2> DEFINE Bad == {n \in Nat : \A g : ~Good(n, g)}
    <2> SUFFICES ASSUME Bad # {} PROVE FALSE
      <3> HIDE DEF Good
      <3> QED OBVIOUS
    <2>1. PICK m \in Bad : \A k \in Bad : m <= k
      <3>1. Bad \subseteq Nat
        OBVIOUS
      <3> HIDE DEF Bad
      <3> QED BY <3>1, LeastNatural
    <2>2. m \in Nat /\ \A g : ~Good(m, g)
      <3> HIDE DEF Good
      <3> QED OBVIOUS
    <2>3. CASE m = 0
      <3> DEFINE g == [T \in UpToSize(0) |-> base]
      <3>1. \A T \in UpToSize(0) : T = {}
        <4> SUFFICES ASSUME NEW T \in UpToSize(0) PROVE T = {}
          OBVIOUS
        <4>1. Cardinality(T) = 0 /\ IsFiniteSet(T)
          BY <1>1
        <4> QED BY <4>1, FS_EmptySet
      <3>2. Good(0, g)
        BY <3>1
      <3> QED BY <2>2, <2>3, <3>2
    <2>4. CASE m # 0
      <3>1. m - 1 \in Nat /\ ~(m <= m - 1)
        BY <2>2, <2>4
      <3>2. \E g : Good(m - 1, g)
        <4> HIDE DEF Good
        <4>1. m - 1 \notin Bad
          <5> HIDE DEF Bad
          <5> QED BY <2>1, <3>1
        <4> QED BY <3>1, <4>1
      <3>3. PICK g : Good(m - 1, g)
        BY <3>2
      <3> DEFINE h == [T \in UpToSize(m) |-> Step(g, T)]
      <3>4. \A T \in UpToSize(m) : T # {} => T \ {pick[T]} \in UpToSize(m - 1)
        BY <1>1, <1>2, <2>2
      <3>5. h \in [UpToSize(m) -> V]
        <4> SUFFICES ASSUME NEW T \in UpToSize(m) PROVE Step(g, T) \in V
          OBVIOUS
        <4>1. T # {} => pick[T] \in S /\ g[T \ {pick[T]}] \in V
          BY <1>2, <3>3, <3>4
        <4> QED BY <4>1
      <3>6. \A T \in UpToSize(m - 1) : T \in UpToSize(m) /\ h[T] = g[T]
        <4> SUFFICES ASSUME NEW T \in UpToSize(m - 1) PROVE T \in UpToSize(m) /\ h[T] = g[T]
          OBVIOUS
        <4>1. T \in UpToSize(m)
          BY <1>1, <2>2
        <4>2. h[T] = Step(g, T)
          BY <4>1
        <4>3. g[T] = Step(g, T)
          BY <3>3
        <4> HIDE DEF h, Step, UpToSize
        <4> QED BY <4>1, <4>2, <4>3
      <3>7. ASSUME NEW T \in UpToSize(m) PROVE h[T] = Step(h, T)
        <4>1. T # {} => h[T \ {pick[T]}] = g[T \ {pick[T]}]
          BY <3>4, <3>6
        <4>2. h[T] = Step(g, T)
          OBVIOUS
        <4> HIDE DEF h
        <4> QED BY <4>1, <4>2
      <3>8. Good(m, h)
        BY <3>5, <3>7
      <3> QED BY <2>2, <3>8
    <2> QED BY <2>3, <2>4
  <1>5. PICK g : Good(N, g)
    BY <1>4
  <1>6. UpToSize(N) = SUBSET S
    <2> SUFFICES ASSUME NEW T \in SUBSET S PROVE Cardinality(T) <= N
      OBVIOUS
    <2> QED BY <1>3, FS_Subset
  <1> QED BY <1>5, <1>6 DEF IsFold

\* Two steps may be taken in either order.
Commutes(step, S, V) ==
    \A x, y \in S : \A v \in V : step[<<x, step[<<y, v>>]>>] = step[<<y, step[<<x, v>>]>>]

\* The last step of a fold may be that of any element.
EndsAnywhere(g, S, step) == \A T \in SUBSET S : \A x \in T : g[T] = step[<<x, g[T \ {x}]>>]

\* If steps may be taken in any order, the last one may be that of any element.
LEMMA FoldInAnyOrder ==
    ASSUME NEW S, IsFiniteSet(S), NEW V, NEW base \in V, NEW pick, Picks(pick, S),
           NEW step \in [S \X V -> V], NEW g, IsFold(g, S, V, base, pick, step),
           Commutes(step, S, V)
    PROVE  EndsAnywhere(g, S, step)
  <1> DEFINE G == {T \in SUBSET S : \A x \in T : g[T] = step[<<x, g[T \ {x}]>>]}
  <1>1. ASSUME NEW T \in SUBSET S, \A x \in T : T \ {x} \in G, NEW x \in T
        PROVE  g[T] = step[<<x, g[T \ {x}]>>]
    <2>1. PICK y \in T : g[T] = step[<<y, g[T \ {y}]>>]
      BY DEF IsFold, Picks
    <2>2. CASE x # y
      <3>1. x \in T \ {y} /\ y \in T \ {x} /\ (T \ {y}) \ {x} = (T \ {x}) \ {y}
        BY <2>2
      <3>2. PICK v \in V : v = g[(T \ {x}) \ {y}]
        BY DEF IsFold
      <3>3. g[T \ {y}] = step[<<x, v>>] /\ g[T \ {x}] = step[<<y, v>>]
        <4>1. T \ {y} \in G /\ T \ {x} \in G
          BY <1>1
        <4>2. g[T \ {y}] = step[<<x, g[(T \ {y}) \ {x}]>>]
          BY <3>1, <4>1
        <4>3. g[T \ {x}] = step[<<y, g[(T \ {x}) \ {y}]>>]
          BY <3>1, <4>1
        <4> QED BY <3>1, <3>2, <4>2, <4>3
      <3>4. x \in S /\ y \in S
        OBVIOUS
      <3>5. step[<<x, step[<<y, v>>]>>] = step[<<y, step[<<x, v>>]>>]
        BY <3>2, <3>4 DEF Commutes
      <3>6. g[T] = step[<<y, step[<<x, v>>]>>] /\ step[<<x, g[T \ {x}]>>] = step[<<x, step[<<y, v>>]>>]
        BY ONLY <2>1, <3>3
      <3> QED BY ONLY <3>5, <3>6
    <2> QED BY <2>1, <2>2
  <1>2. \A T \in SUBSET S : (\A x \in T : T \ {x} \in G) => T \in G
    BY <1>1
  <1>3. \A T \in SUBSET S : T \in G
    <2> HIDE DEF G
    <2> QED BY <1>2, SetInduction
  <1> QED BY <1>3 DEF EndsAnywhere

\* A sum over the subsets of S: whichever element is taken first.
IsSum(it, fun, S) ==
    /\ it \in [SUBSET S -> Int] /\ it[{}] = 0
    /\ \A T \in SUBSET S : \A x \in T : it[T] = fun[x] + it[T \ {x}]

\* What SumFunctionOnSet computes is the sum, in any order.
LEMMA SumRecursion ==
    ASSUME NEW S, IsFiniteSet(S), NEW fun, \A x \in S : fun[x] \in Int
    PROVE  \E it : IsSum(it, fun, S) /\ SumFunctionOnSet(fun, S) = it[S]
  <1> DEFINE pick == [T \in SUBSET S |-> CHOOSE x \in T : TRUE]
             step == [xv \in S \X Int |-> fun[xv[1]] + xv[2]]
             it == CHOOSE it : it = [T \in SUBSET S |->
                      IF T = {} THEN 0 ELSE fun[CHOOSE x \in T : TRUE] + it[T \ {CHOOSE x \in T : TRUE}]]
  <1>1. Picks(pick, S) /\ 0 \in Int
    BY DEF Picks
  <1>2. \A x \in S : \A v \in Int : step[<<x, v>>] = fun[x] + v /\ fun[x] + v \in Int
    OBVIOUS
  <1>3. step \in [S \X Int -> Int]
    OBVIOUS
  <1>4. Commutes(step, S, Int)
    <2> SUFFICES ASSUME NEW x \in S, NEW y \in S, NEW v \in Int
                 PROVE  step[<<x, step[<<y, v>>]>>] = step[<<y, step[<<x, v>>]>>]
      BY DEF Commutes
    <2>1. PICK a, b \in Int : a = fun[x] /\ b = fun[y]
      OBVIOUS
    <2> HIDE DEF step
    <2>2. step[<<x, step[<<y, v>>]>>] = a + (b + v) /\ step[<<y, step[<<x, v>>]>>] = b + (a + v)
      BY <1>2, <2>1
    <2>3. a + (b + v) = b + (a + v)
      OBVIOUS
    <2> QED BY <2>2, <2>3
  <1>5. PICK g : IsFold(g, S, Int, 0, pick, step)
    <2> HIDE DEF pick, step
    <2> QED BY <1>1, <1>3, FoldExists
  <1>6. \A T \in SUBSET S : g[T] = IF T = {} THEN 0 ELSE fun[pick[T]] + g[T \ {pick[T]}]
    <2> HIDE DEF pick, step
    <2> QED BY <1>1, <1>2, <1>5 DEF IsFold, Picks
  <1>7. \A T \in SUBSET S : pick[T] = CHOOSE x \in T : TRUE
    OBVIOUS
  <1>8. g = [T \in SUBSET S |->
                IF T = {} THEN 0 ELSE fun[CHOOSE x \in T : TRUE] + g[T \ {CHOOSE x \in T : TRUE}]]
    <2> HIDE DEF pick, step
    <2> QED BY <1>5, <1>6, <1>7 DEF IsFold
  <1>9. it = [T \in SUBSET S |-> IF T = {} THEN 0 ELSE fun[pick[T]] + it[T \ {pick[T]}]]
    <2>1. it = [T \in SUBSET S |->
                   IF T = {} THEN 0 ELSE fun[CHOOSE x \in T : TRUE] + it[T \ {CHOOSE x \in T : TRUE}]]
      BY <1>8
    <2> HIDE DEF it, pick
    <2> QED BY <1>7, <2>1
  <1>10. SumFunctionOnSet(fun, S) = it[S]
    BY DEF SumFunctionOnSet, FoldFunctionOnSet, MapThenFoldSet
  <1> HIDE DEF it, pick, step
  <1>11. it = g
    <2> DEFINE G == {T \in SUBSET S : it[T] = g[T]}
    <2>1. ASSUME NEW T \in SUBSET S, \A x \in T : T \ {x} \in G PROVE it[T] = g[T]
      <3>1. T # {} => it[T \ {pick[T]}] = g[T \ {pick[T]}]
        BY <1>1, <2>1 DEF Picks
      <3>2. it[T] = IF T = {} THEN 0 ELSE fun[pick[T]] + it[T \ {pick[T]}]
        BY <1>9
      <3> QED BY <1>6, <3>1, <3>2
    <2>2. \A T \in SUBSET S : T \in G
      <3>1. \A T \in SUBSET S : (\A x \in T : T \ {x} \in G) => T \in G
        BY <2>1
      <3> HIDE DEF G
      <3> QED BY <3>1, SetInduction
    <2> QED BY <1>5, <1>9, <2>2 DEF IsFold
  <1>12. EndsAnywhere(g, S, step)
    BY <1>1, <1>3, <1>4, <1>5, FoldInAnyOrder
  <1>13. ASSUME NEW T \in SUBSET S, NEW x \in T PROVE g[T] = fun[x] + g[T \ {x}]
    <2>1. g[T \ {x}] \in Int /\ x \in S
      BY <1>5 DEF IsFold
    <2>2. g[T] = step[<<x, g[T \ {x}]>>]
      BY <1>12 DEF EndsAnywhere
    <2> QED BY <1>2, <2>1, <2>2
  <1>14. g[{}] = 0
    BY <1>6
  <1> QED BY <1>5, <1>10, <1>11, <1>13, <1>14 DEF IsFold, IsSum

\* A product over the subsets of S, likewise.
IsProduct(it, fun, S) ==
    /\ it \in [SUBSET S -> Int] /\ it[{}] = 1
    /\ \A T \in SUBSET S : \A x \in T : it[T] = fun[x] * it[T \ {x}]

\* What a fold over a sequence of factors computes is the product, in any order.
LEMMA ProductRecursion ==
    ASSUME NEW fun, IsFiniteSet(DOMAIN fun), \A x \in DOMAIN fun : fun[x] \in Int
    PROVE  \E it : IsProduct(it, fun, DOMAIN fun) /\ FoldSeq(LAMBDA x, y : x * y, 1, fun) = it[DOMAIN fun]
  <1> DEFINE S == DOMAIN fun
             pick == [T \in SUBSET S |-> CHOOSE x \in T : TRUE]
             step == [xv \in S \X Int |-> fun[xv[1]] * xv[2]]
             it == CHOOSE it : it = [T \in SUBSET S |->
                      IF T = {} THEN 1 ELSE fun[CHOOSE x \in T : TRUE] * it[T \ {CHOOSE x \in T : TRUE}]]
  <1>1. Picks(pick, S) /\ 1 \in Int
    BY DEF Picks
  <1>2. \A x \in S : \A v \in Int : step[<<x, v>>] = fun[x] * v /\ fun[x] * v \in Int
    OBVIOUS
  <1>3. step \in [S \X Int -> Int]
    OBVIOUS
  <1>4. Commutes(step, S, Int)
    <2> SUFFICES ASSUME NEW x \in S, NEW y \in S, NEW v \in Int
                 PROVE  step[<<x, step[<<y, v>>]>>] = step[<<y, step[<<x, v>>]>>]
      BY DEF Commutes
    <2>1. PICK a, b \in Int : a = fun[x] /\ b = fun[y]
      OBVIOUS
    <2> HIDE DEF step
    <2>2. step[<<x, step[<<y, v>>]>>] = a * (b * v) /\ step[<<y, step[<<x, v>>]>>] = b * (a * v)
      BY <1>2, <2>1
    <2>3. a * (b * v) = b * (a * v)
      OBVIOUS
    <2> QED BY <2>2, <2>3
  <1>5. PICK g : IsFold(g, S, Int, 1, pick, step)
    <2> HIDE DEF pick, step
    <2> QED BY <1>1, <1>3, FoldExists
  <1>6. \A T \in SUBSET S : g[T] = IF T = {} THEN 1 ELSE fun[pick[T]] * g[T \ {pick[T]}]
    <2> HIDE DEF pick, step
    <2> QED BY <1>1, <1>2, <1>5 DEF IsFold, Picks
  <1>7. \A T \in SUBSET S : pick[T] = CHOOSE x \in T : TRUE
    OBVIOUS
  <1>8. g = [T \in SUBSET S |->
                IF T = {} THEN 1 ELSE fun[CHOOSE x \in T : TRUE] * g[T \ {CHOOSE x \in T : TRUE}]]
    <2> HIDE DEF pick, step
    <2> QED BY <1>5, <1>6, <1>7 DEF IsFold
  <1>9. it = [T \in SUBSET S |-> IF T = {} THEN 1 ELSE fun[pick[T]] * it[T \ {pick[T]}]]
    <2>1. it = [T \in SUBSET S |->
                   IF T = {} THEN 1 ELSE fun[CHOOSE x \in T : TRUE] * it[T \ {CHOOSE x \in T : TRUE}]]
      BY <1>8
    <2> HIDE DEF it, pick
    <2> QED BY <1>7, <2>1
  <1>10. FoldSeq(LAMBDA x, y : x * y, 1, fun) = it[S]
    BY DEF FoldSeq, FoldFunction, FoldFunctionOnSet, MapThenFoldSet
  <1> HIDE DEF it, pick, step
  <1>11. it = g
    <2> DEFINE G == {T \in SUBSET S : it[T] = g[T]}
    <2>1. ASSUME NEW T \in SUBSET S, \A x \in T : T \ {x} \in G PROVE it[T] = g[T]
      <3>1. T # {} => it[T \ {pick[T]}] = g[T \ {pick[T]}]
        BY <1>1, <2>1 DEF Picks
      <3>2. it[T] = IF T = {} THEN 1 ELSE fun[pick[T]] * it[T \ {pick[T]}]
        BY <1>9
      <3> QED BY <1>6, <3>1, <3>2
    <2>2. \A T \in SUBSET S : T \in G
      <3>1. \A T \in SUBSET S : (\A x \in T : T \ {x} \in G) => T \in G
        BY <2>1
      <3> HIDE DEF G
      <3> QED BY <3>1, SetInduction
    <2> QED BY <1>5, <1>9, <2>2 DEF IsFold
  <1>12. EndsAnywhere(g, S, step)
    BY <1>1, <1>3, <1>4, <1>5, FoldInAnyOrder
  <1>13. ASSUME NEW T \in SUBSET S, NEW x \in T PROVE g[T] = fun[x] * g[T \ {x}]
    <2>1. g[T \ {x}] \in Int /\ x \in S
      BY <1>5 DEF IsFold
    <2>2. g[T] = step[<<x, g[T \ {x}]>>]
      BY <1>12 DEF EndsAnywhere
    <2> QED BY <1>2, <2>1, <2>2
  <1>14. g[{}] = 1
    BY <1>6
  <1> QED BY <1>5, <1>10, <1>11, <1>13, <1>14 DEF IsFold, IsProduct

\* A product has one value only.
LEMMA ProductUnique ==
    ASSUME NEW S, IsFiniteSet(S), NEW fun, NEW it, IsProduct(it, fun, S), NEW jt, IsProduct(jt, fun, S)
    PROVE  it[S] = jt[S]
  <1> DEFINE G == {T \in SUBSET S : it[T] = jt[T]}
  <1>1. ASSUME NEW T \in SUBSET S, \A x \in T : T \ {x} \in G PROVE it[T] = jt[T]
    <2>1. CASE T = {}
      BY <2>1 DEF IsProduct
    <2>2. CASE T # {}
      <3>1. PICK x \in T : TRUE
        BY <2>2
      <3>2. it[T] = fun[x] * it[T \ {x}] /\ jt[T] = fun[x] * jt[T \ {x}] /\ it[T \ {x}] = jt[T \ {x}]
        BY <1>1 DEF IsProduct
      <3> QED BY <3>2
    <2> QED BY <2>1, <2>2
  <1>2. \A T \in SUBSET S : T \in G
    <2>1. \A T \in SUBSET S : (\A x \in T : T \ {x} \in G) => T \in G
      BY <1>1
    <2> HIDE DEF G
    <2> QED BY <2>1, SetInduction
  <1> QED BY <1>2

\* A sum over T is that over S, if a bijection takes the terms of the one to those of the
\* other.
LEMMA SumAlong ==
    ASSUME NEW S, NEW T, IsFiniteSet(S), NEW f \in Bijection(S, T), NEW fun, NEW other,
           \A x \in T : other[x] \in Int, \A x \in S : fun[x] = other[f[x]]
    PROVE  SumFunctionOnSet(fun, S) = SumFunctionOnSet(other, T)
  <1>1. f \in [S -> T] /\ (\A x, y \in S : f[x] = f[y] => x = y) /\ (\A t \in T : \E x \in S : f[x] = t)
    BY DEF Bijection, Injection, Surjection, IsInjective
  <1>2. IsFiniteSet(T)
    BY FS_Bijection DEF ExistsBijection
  <1>3. \A x \in S : fun[x] \in Int
    BY <1>1
  <1>4. PICK it : IsSum(it, fun, S) /\ SumFunctionOnSet(fun, S) = it[S]
    BY <1>3, SumRecursion
  <1>5. PICK jt : IsSum(jt, other, T) /\ SumFunctionOnSet(other, T) = jt[T]
    BY <1>2, SumRecursion
  <1> DEFINE Image(U) == {f[x] : x \in U}
             G == {U \in SUBSET S : it[U] = jt[Image(U)]}
  <1>6. ASSUME NEW U \in SUBSET S, \A x \in U : U \ {x} \in G PROVE it[U] = jt[Image(U)]
    <2>1. CASE U = {}
      <3>1. Image(U) = {}
        BY <2>1
      <3> QED BY <1>4, <1>5, <2>1, <3>1 DEF IsSum
    <2>2. CASE U # {}
      <3>1. PICK x \in U : TRUE
        BY <2>2
      <3>2. Image(U) \in SUBSET T /\ f[x] \in Image(U) /\ Image(U \ {x}) = Image(U) \ {f[x]}
        BY <1>1
      <3>3. it[U] = fun[x] + it[U \ {x}]
        BY <1>4 DEF IsSum
      <3>4. jt[Image(U)] = other[f[x]] + jt[Image(U) \ {f[x]}]
        <4> HIDE DEF Image
        <4> QED BY <1>5, <3>2 DEF IsSum
      <3>5. it[U \ {x}] = jt[Image(U \ {x})] /\ fun[x] = other[f[x]]
        BY <1>6
      <3> HIDE DEF Image
      <3> QED BY <3>2, <3>3, <3>4, <3>5
    <2> QED BY <2>1, <2>2
  <1>7. \A U \in SUBSET S : (\A x \in U : U \ {x} \in G) => U \in G
    BY <1>6
  <1>8. S \in G
    <2>1. \A U \in SUBSET S : U \in G
      <3> HIDE DEF G
      <3> QED BY <1>7, SetInduction
    <2> HIDE DEF G
    <2> QED BY <2>1
  <1>9. Image(S) = T
    BY <1>1
  <1> HIDE DEF Image
  <1> QED BY <1>4, <1>5, <1>8, <1>9

\* Equal terms have one sum.
LEMMA SumSame ==
    ASSUME NEW S, IsFiniteSet(S), NEW fun, NEW other,
           \A x \in S : other[x] \in Int, \A x \in S : fun[x] = other[x]
    PROVE  SumFunctionOnSet(fun, S) = SumFunctionOnSet(other, S)
  <1> DEFINE f == [x \in S |-> x]
  <1>1. f \in Bijection(S, S)
    BY DEF Bijection, Injection, Surjection, IsInjective
  <1>2. \A x \in S : fun[x] = other[f[x]]
    OBVIOUS
  <1> HIDE DEF f
  <1> QED BY <1>1, <1>2, SumAlong

\* A sum over the numbers up to one more has a term more.
LEMMA SumOneMore ==
    ASSUME NEW n \in Nat, NEW fun, \A x \in 1 .. n + 1 : fun[x] \in Int
    PROVE  /\ SumFunctionOnSet(fun, 1 .. n + 1) = fun[n + 1] + SumFunctionOnSet(fun, 1 .. n)
           /\ SumFunctionOnSet(fun, 1 .. n) \in Int
  <1> DEFINE S == 1 .. n + 1
             T == 1 .. n
  <1>1. IsFiniteSet(S) /\ IsFiniteSet(T) /\ T \subseteq S /\ n + 1 \in S /\ S \ {n + 1} = T
    BY FS_Interval
  <1>2. PICK it : IsSum(it, fun, S) /\ SumFunctionOnSet(fun, S) = it[S]
    <2> HIDE DEF S
    <2> QED BY <1>1, SumRecursion
  <1>3. PICK jt : IsSum(jt, fun, T) /\ SumFunctionOnSet(fun, T) = jt[T]
    BY <1>1, SumRecursion
  <1> DEFINE G == {U \in SUBSET T : it[U] = jt[U]}
  <1> HIDE DEF S, T
  <1>4. ASSUME NEW U \in SUBSET T, \A x \in U : U \ {x} \in G PROVE it[U] = jt[U]
    <2>1. CASE U = {}
      BY <1>2, <1>3, <2>1 DEF IsSum
    <2>2. CASE U # {}
      <3>1. PICK x \in U : TRUE
        BY <2>2
      <3>2. it[U] = fun[x] + it[U \ {x}] /\ jt[U] = fun[x] + jt[U \ {x}] /\ it[U \ {x}] = jt[U \ {x}]
        BY <1>1, <1>2, <1>3, <1>4 DEF IsSum
      <3> QED BY <3>2
    <2> QED BY <2>1, <2>2
  <1>5. T \in G
    <2>1. \A U \in SUBSET T : (\A x \in U : U \ {x} \in G) => U \in G
      BY <1>4
    <2> HIDE DEF G
    <2>2. \A U \in SUBSET T : U \in G
      BY <1>1, <2>1, SetInduction
    <2> QED BY <2>2
  <1>6. it[S] = fun[n + 1] + it[T]
    BY <1>1, <1>2 DEF IsSum
  <1>7. jt[T] \in Int
    BY <1>3 DEF IsSum
  <1> QED BY <1>2, <1>3, <1>5, <1>6, <1>7 DEF S, T

\* A sum without terms is nothing.
LEMMA SumOfNone == \A fun : SumFunctionOnSet(fun, {}) = 0
  <1> TAKE fun
  <1>1. IsFiniteSet({})
    BY FS_EmptySet
  <1>2. PICK it : IsSum(it, fun, {}) /\ SumFunctionOnSet(fun, {}) = it[{}]
    BY <1>1, SumRecursion
  <1> QED BY <1>2 DEF IsSum

================================================================================
