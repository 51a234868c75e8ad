---------------------------- MODULE GpscatScoreProofs ----------------------------
(***************************************************************************)
(* Proofs about GpscatScore, for every function and every input: the       *)
(* bounds that are recorded token by token are those the input gives when  *)
(* it is read as a whole, each interval goes to its own parameter, and the *)
(* mean that is printed is the mean.                                       *)
(***************************************************************************)
EXTENDS GpscatScore, Counting

\* The input is one whose bounds BoundsAsGiven speaks of.
Readable == boundsFile \/ WellFormed

\* What the first n - 1 tokens give.
GivenBefore(p, n) == {k \in Given(p) : k < n}

IsLast(k, S) == k \in S /\ \A j \in S : j <= k

BoundsAt(k) == <<input[k + 1].value, input[k + 2].value>>

RecordedUpTo(n) ==
    /\ bounds = [p \in DOMAIN bounds |-> bounds[p]]
    /\ DOMAIN bounds = {p \in paramsSet : GivenBefore(p, n) # {}}
    /\ \A p \in DOMAIN bounds :
          \E k \in Nat : IsLast(k, GivenBefore(p, n)) /\ bounds[p] = BoundsAt(k)

Stream == [next : Nat, failed : BOOLEAN]

Typing ==
    /\ func \in Functions
    /\ input \in Seq(Token)
    /\ boundsFile \in BOOLEAN
    /\ stream \in Stream
    /\ DOMAIN bounds \subseteq paramsSet

\* Nothing is read yet.
Untouched == pc = "function" => /\ stream.next = 1 /\ ~stream.failed
                                /\ bounds = [p \in {} |-> <<0, 0>>]

\* Between two records the stream stands at the beginning of one.
AtRecord ==
    /\ stream.next % 3 = 1 /\ stream.next <= Len(input) + 1
    /\ ~stream.failed
    /\ \A k \in 1 .. stream.next - 1 : k % 3 = 1 => IsRecord(k)

Reading == pc = "bounds" /\ Readable => AtRecord /\ RecordedUpTo(stream.next)

HasRead ==
    pc \notin {"function", "bounds"} /\ func.kind = "finite" /\ Readable =>
        RecordedUpTo(Len(input) + 1)

\* Every parameter has bounds, and nothing else has.
Matched == pc \in {"integrate", "wait", "mean"} => DOMAIN bounds = paramsSet

Finite == pc \in {"bounds", "check", "integrate", "wait", "mean"} => func.kind = "finite"

ScoreInv == Typing /\ Untouched /\ Reading /\ HasRead /\ Matched /\ Finite

--------------------------------------------------------------------------------
(* The order of parameters. *)

\* The names of a set, in the order of a container that sorts them, are a list of it
\* without repetition (gpscat-score.cpp:162-171).
LEMMA OrderedIsBijection ==
    ASSUME NEW S, S \subseteq ToSet(Names)
    PROVE  /\ IsFiniteSet(S)
           /\ Ordered(S) \in Seq(S)
           /\ Ordered(S) \in Bijection(1 .. Cardinality(S), S)
  <1> DEFINE D == DOMAIN Names
             N == Len(Names)
             V == Seq(ToSet(Names))
             pick == [T \in SUBSET D |-> Max(T)]
             step == [xv \in D \X V |-> IF Names[xv[1]] \in S THEN Append(xv[2], Names[xv[1]]) ELSE xv[2]]
             it == CHOOSE it : it = [T \in SUBSET D |->
                      IF T = {} THEN <<>>
                      ELSE IF Names[Max(T)] \in S THEN Append(it[T \ {Max(T)}], Names[Max(T)])
                                                  ELSE it[T \ {Max(T)}]]
  <1>1. N \in Nat /\ D = 1 .. N /\ \A x \in D : Names[x] \in ToSet(Names)
    BY ScoreAssumption DEF ToSet
  <1>2. IsFiniteSet(D) /\ \A T \in SUBSET D : IsFiniteSet(T)
    <2>1. IsFiniteSet(1 .. N)
      <3> HIDE DEF N
      <3>1. N \in Nat /\ N \in Int /\ 1 \in Int
        BY <1>1
      <3> QED BY ONLY <3>1, FS_Interval
    <2>2. IsFiniteSet(D)
      BY <1>1, <2>1
    <2> QED BY <2>2, FS_Subset
  <1>3. Picks(pick, D) /\ <<>> \in V
    <2>1. \A T \in SUBSET D : T # {} => Max(T) \in T
      BY <1>1, LeastAndGreatest
    <2> QED BY <2>1 DEF Picks
  <1>4. \A x \in D : \A v \in V :
            /\ step[<<x, v>>] = IF Names[x] \in S THEN Append(v, Names[x]) ELSE v
            /\ step[<<x, v>>] \in V
    <2> SUFFICES ASSUME NEW x \in D, NEW v \in V
                 PROVE  /\ step[<<x, v>>] = IF Names[x] \in S THEN Append(v, Names[x]) ELSE v
                        /\ step[<<x, v>>] \in V
      OBVIOUS
    <2>1. Append(v, Names[x]) \in V
      BY <1>1
    <2>2. <<x, v>> \in D \X V
      OBVIOUS
    <2>3. step[<<x, v>>] = IF Names[x] \in S THEN Append(v, Names[x]) ELSE v
      BY <2>2
    <2> QED BY <2>1, <2>3
  <1>5. step \in [D \X V -> V]
    <2> SUFFICES ASSUME NEW xv \in D \X V PROVE step[xv] \in V
      OBVIOUS
    <2>1. PICK x \in D, v \in V : xv = <<x, v>>
      OBVIOUS
    <2> HIDE DEF step
    <2> QED BY <1>4, <2>1
  <1> HIDE DEF step
  <1>6. PICK g : IsFold(g, D, V, <<>>, pick, step)
    <2> HIDE DEF pick, D, V
    <2> QED BY <1>2, <1>3, <1>5, FoldExists
  <1>7. \A T \in SUBSET D : pick[T] = Max(T)
    OBVIOUS
  <1> HIDE DEF pick
  <1>8. ASSUME NEW T \in SUBSET D
        PROVE  g[T] = IF T = {} THEN <<>>
                      ELSE IF Names[Max(T)] \in S THEN Append(g[T \ {Max(T)}], Names[Max(T)])
                                                  ELSE g[T \ {Max(T)}]
    <2>1. CASE T = {}
      BY <1>6, <2>1 DEF IsFold
    <2>2. CASE T # {}
      <3>1. Max(T) \in D /\ g[T \ {Max(T)}] \in V
        BY <1>3, <1>6, <1>7, <2>2 DEF IsFold, Picks
      <3>2. g[T] = step[<<Max(T), g[T \ {Max(T)}]>>]
        BY <1>6, <1>7, <2>2 DEF IsFold
      <3> QED BY <1>4, <2>2, <3>1, <3>2
    <2> QED BY <2>1, <2>2
  <1>9. g = [T \in SUBSET D |->
                IF T = {} THEN <<>>
                ELSE IF Names[Max(T)] \in S THEN Append(g[T \ {Max(T)}], Names[Max(T)])
                                            ELSE g[T \ {Max(T)}]]
    BY <1>6, <1>8 DEF IsFold
  <1>10. it = [T \in SUBSET D |->
                IF T = {} THEN <<>>
                ELSE IF Names[Max(T)] \in S THEN Append(it[T \ {Max(T)}], Names[Max(T)])
                                            ELSE it[T \ {Max(T)}]]
    BY <1>9
  <1>11. Ordered(S) = it[D]
    BY DEF Ordered, FoldLeft, MapThenFoldSet
  <1> HIDE DEF it
  <1> DEFINE Part(T) == {Names[x] : x \in T} \cap S
             Lists(s, U) == s \in Seq(S) /\ IsInjective(s) /\ ToSet(s) = U
             G == {T \in SUBSET D : Lists(it[T], Part(T))}
  <1>12. ASSUME NEW T \in SUBSET D, \A x \in T : T \ {x} \in G PROVE Lists(it[T], Part(T))
    <2>1. CASE T = {}
      <3>1. it[T] = <<>> /\ Part(T) = {}
        BY <1>10, <2>1
      <3>2. <<>> \in Seq(S) /\ DOMAIN <<>> = {}
        OBVIOUS
      <3> QED BY <3>1, <3>2 DEF IsInjective, ToSet
    <2>2. CASE T # {}
      <3>1. PICK m \in T : m = Max(T)
        BY <1>3, <1>7, <2>2 DEF Picks
      <3>2. PICK s \in Seq(S) : s = it[T \ {m}] /\ IsInjective(s) /\ ToSet(s) = Part(T \ {m})
        BY <1>12
      <3>3. it[T] = IF Names[m] \in S THEN Append(s, Names[m]) ELSE s
        BY <1>10, <2>2, <3>1, <3>2
      <3>4. \A x \in T \ {m} : Names[x] # Names[m]
        BY ScoreAssumption DEF IsInjective
      <3>5. CASE Names[m] \notin S
        <4>1. Part(T) = Part(T \ {m})
          BY <3>5
        <4> QED BY <3>2, <3>3, <3>5, <4>1
      <3>6. CASE Names[m] \in S
        <4>1. Part(T) = Part(T \ {m}) \cup {Names[m]} /\ Names[m] \notin Part(T \ {m})
          BY <3>4, <3>6
        <4> DEFINE r == Append(s, Names[m])
        <4>2. r \in Seq(S) /\ Len(s) \in Nat /\ DOMAIN r = 1 .. Len(s) + 1 /\ DOMAIN s = 1 .. Len(s)
          BY <3>6
        <4>3. r[Len(s) + 1] = Names[m] /\ \A i \in 1 .. Len(s) : r[i] = s[i]
          BY <3>6
        <4> HIDE DEF r, Part
        <4>4. \A i \in 1 .. Len(s) : s[i] # Names[m]
          BY <3>2, <4>1, <4>2 DEF ToSet
        <4>5. IsInjective(r)
          <5> SUFFICES ASSUME NEW i \in 1 .. Len(s) + 1, NEW j \in 1 .. Len(s) + 1, r[i] = r[j]
                       PROVE  i = j
            BY <4>2 DEF IsInjective
          <5>1. CASE i = Len(s) + 1
            BY <4>2, <4>3, <4>4, <5>1
          <5>2. CASE j = Len(s) + 1
            BY <4>2, <4>3, <4>4, <5>2
          <5>3. CASE i # Len(s) + 1 /\ j # Len(s) + 1
            <6>1. i \in 1 .. Len(s) /\ j \in 1 .. Len(s)
              BY <4>2, <5>3
            <6> QED BY <3>2, <4>2, <4>3, <6>1 DEF IsInjective
          <5> QED BY <5>1, <5>2, <5>3
        <4>6. ToSet(r) = ToSet(s) \cup {Names[m]}
          <5>1. ASSUME NEW i \in 1 .. Len(s) + 1 PROVE r[i] \in ToSet(s) \cup {Names[m]}
            <6>1. CASE i = Len(s) + 1
              BY <4>3, <6>1
            <6>2. CASE i # Len(s) + 1
              <7>1. i \in 1 .. Len(s)
                BY <4>2, <6>2
              <7> QED BY <4>2, <4>3, <7>1 DEF ToSet
            <6> QED BY <6>1, <6>2
          <5>2. ASSUME NEW i \in 1 .. Len(s) PROVE s[i] \in ToSet(r)
            <6>1. i \in 1 .. Len(s) + 1 /\ r[i] = s[i]
              BY <4>2, <4>3
            <6> QED BY <4>2, <6>1 DEF ToSet
          <5>3. Names[m] \in ToSet(r)
            <6>1. Len(s) + 1 \in 1 .. Len(s) + 1
              BY <4>2
            <6> QED BY <4>2, <4>3, <6>1 DEF ToSet
          <5> QED BY <4>2, <5>1, <5>2, <5>3 DEF ToSet
        <4> QED BY <3>2, <3>3, <3>6, <4>1, <4>2, <4>5, <4>6 DEF r
      <3> QED BY <3>5, <3>6
    <2> QED BY <2>1, <2>2
  <1>13. D \in G
    <2>1. \A T \in SUBSET D : (\A x \in T : T \ {x} \in G) => T \in G
      BY <1>12
    <2>2. \A T \in SUBSET D : T \in G
      <3> HIDE DEF G, D
      <3> QED BY <1>2, <2>1, SetInduction
    <2> HIDE DEF G
    <2> QED BY <2>2
  <1>14. Part(D) = S
    BY DEF ToSet
  <1>15. PICK s \in Seq(S) : s = Ordered(S) /\ IsInjective(s) /\ ToSet(s) = S
    BY <1>11, <1>13, <1>14
  <1>16. PICK n \in Nat : n = Len(s) /\ DOMAIN s = 1 .. n
    OBVIOUS
  <1>17. s \in Bijection(1 .. n, S)
    <2>1. s \in [1 .. n -> S]
      BY <1>16
    <2> QED BY <1>15, <1>16, <2>1 DEF Bijection, Injection, Surjection, IsInjective, ToSet
  <1>18. IsFiniteSet(S) /\ Cardinality(S) = n
    <2>1. IsFiniteSet(1 .. n) /\ Cardinality(1 .. n) = n
      <3>1. n \in Int /\ 1 \in Int
        OBVIOUS
      <3> QED BY ONLY n \in Nat, <3>1, FS_Interval
    <2> QED BY <1>17, <2>1, FS_Bijection DEF ExistsBijection
  <1> QED BY <1>15, <1>17, <1>18

--------------------------------------------------------------------------------
(* Records. *)

LEMMA Types ==
    ASSUME Typing
    PROVE  /\ stream \in Stream /\ stream.next \in Nat
           /\ Len(input) \in Nat /\ DOMAIN input = 1 .. Len(input)
           /\ \A k \in 1 .. Len(input) : input[k].value \in Int
  <1>1. IntTy \subseteq Int
    BY ScoreAssumption DEF IntTy
  <1>2. \A k \in 1 .. Len(input) : input[k] \in Token
    BY DEF Typing
  <1>3. \A k \in 1 .. Len(input) : input[k].value \in Int
    BY <1>1, <1>2 DEF Token
  <1> QED BY <1>3 DEF Typing, Stream

LEMMA NextThird ==
    ASSUME NEW k \in Nat, NEW n \in Nat, k % 3 = 1, n % 3 = 1, k < n + 3
    PROVE  k <= n
  OBVIOUS

\* What comes before a record are records.
LEMMA RecordsBefore ==
    ASSUME Typing, NEW j \in Nat, NEW k \in Nat, k >= 1, k <= j, k % 3 = 1, IsRecord(j)
    PROVE  IsRecord(k)
  <1>1. \A i \in 1 .. k : i \in 1 .. j
    OBVIOUS
  <1>2. Len(input) \in Nat /\ k + 2 <= Len(input)
    BY DEF IsRecord, Typing
  <1> QED BY <1>1, <1>2 DEF IsRecord

\* Every third number up to 3 * k is one of k numbers.
LEMMA ThirdsCounted ==
    ASSUME NEW n \in Nat, n % 3 = 1
    PROVE  3 * Cardinality({j \in 1 .. n - 1 : j % 3 = 1}) = n - 1
  <1> DEFINE k == (n - 1) \div 3
             S == {j \in 1 .. n - 1 : j % 3 = 1}
             f == [i \in 1 .. k |-> 3 * i - 2]
  <1>1. k \in Nat /\ 3 * k = n - 1
    OBVIOUS
  <1>2. f \in Bijection(1 .. k, S)
    <2>1. \A i \in 1 .. k : f[i] \in S
      BY <1>1
    <2>2. \A a, b \in 1 .. k : f[a] = f[b] => a = b
      BY <1>1
    <2>3. \A j \in S : \E i \in 1 .. k : f[i] = j
      <3> SUFFICES ASSUME NEW j \in S PROVE \E i \in 1 .. k : f[i] = j
        OBVIOUS
      <3>1. ((j + 2) \div 3) \in 1 .. k /\ 3 * ((j + 2) \div 3) - 2 = j
        BY <1>1
      <3> QED BY <3>1
    <2>4. f \in [1 .. k -> S]
      BY <2>1
    <2> HIDE DEF f, k, S
    <2> QED BY <2>2, <2>3, <2>4 DEF Bijection, Injection, Surjection, IsInjective
  <1>3. IsFiniteSet(1 .. k) /\ Cardinality(1 .. k) = k
    BY <1>1, FS_Interval
  <1>4. Cardinality(S) = k
    BY <1>2, <1>3, FS_Bijection DEF ExistsBijection
  <1> QED BY <1>1, <1>4

\* On a well formed stdin, what is neither at its end nor "end" begins a record.
LEMMA WellFormedGoesOn ==
    ASSUME Typing, WellFormed, AtRecord, ~boundsFile, stream.next <= Len(input),
           input[stream.next].word # "end"
    PROVE  IsRecord(stream.next)
  <1> DEFINE n == stream.next
  <1> SUFFICES ASSUME ~IsRecord(n) PROVE FALSE
    OBVIOUS
  <1>0. n \in Nat /\ n % 3 = 1 /\ n >= 1 /\ Len(input) \in Nat
    BY Types DEF AtRecord
  <1>1. RecordStarts = {j \in 1 .. n - 1 : j % 3 = 1}
    <2>1. ASSUME NEW j \in RecordStarts PROVE j \in 1 .. n - 1 /\ j % 3 = 1
      <3>1. j \in Nat /\ j >= 1 /\ IsRecord(j)
        BY Types DEF RecordStarts
      <3>2. ~(n <= j)
        BY <1>0, <3>1, RecordsBefore
      <3>3. j % 3 = 1
        BY <3>1 DEF IsRecord
      <3> QED BY <1>0, <3>1, <3>2, <3>3
    <2>2. ASSUME NEW j \in 1 .. n - 1, j % 3 = 1 PROVE j \in RecordStarts
      <3>1. j \in DOMAIN input
        BY <1>0, Types
      <3> QED BY <2>2, <3>1 DEF AtRecord, RecordStarts
    <2> QED BY <2>1, <2>2
  <1>2. 3 * Cardinality(RecordStarts) = n - 1
    BY <1>0, <1>1, ThirdsCounted
  <1>3. n - 1 = Len(input) \/ input[n].word = "end"
    <2>1. 3 * Cardinality(RecordStarts) + 1 = n
      BY <1>0, <1>2
    <2> QED BY <1>2, <2>1 DEF WellFormed
  <1> QED BY <1>0, <1>3

--------------------------------------------------------------------------------
(* Recording. *)

\* A record in front of the stream adds its bounds to what the ones before it gave.
LEMMA RecordOne ==
    ASSUME Typing, AtRecord, UNCHANGED options,
           NEW n \in Nat, n = stream.next, RecordedUpTo(n), IsRecord(n),
           bounds' = Recorded(input[n].word, BoundsAt(n))
    PROVE  RecordedUpTo(n + 3)'
  <1> DEFINE name == input[n].word
             counts == name \in paramsSet /\ input[n + 1].value <= input[n + 2].value
  <1>0. n \in Nat /\ n >= 1 /\ n % 3 = 1 /\ n + 2 <= Len(input)
    BY Types DEF AtRecord, IsRecord
  <1>1. n \in RecordStarts /\ input[n + 1].value \in Int /\ input[n + 2].value \in Int
    BY <1>0, Types DEF RecordStarts
  <1>2. ASSUME NEW p
        PROVE  GivenBefore(p, n + 3) =
                   IF p = name /\ input[n + 1].value <= input[n + 2].value
                   THEN GivenBefore(p, n) \cup {n} ELSE GivenBefore(p, n)
    <2>1. ASSUME NEW k \in RecordStarts, k < n + 3 PROVE k < n \/ k = n
      <3>1. k \in Nat /\ k % 3 = 1
        BY Types DEF RecordStarts, IsRecord
      <3>2. k <= n
        BY <1>0, <2>1, <3>1, NextThird
      <3> QED BY <3>1, <3>2
    <2>2. \A k \in RecordStarts : k \in Nat
      BY Types DEF RecordStarts
    <2>3. n \in Given(p) <=> p = name /\ input[n + 1].value <= input[n + 2].value
      BY <1>1 DEF Given
    <2>4. Given(p) \subseteq RecordStarts
      BY DEF Given
    <2>5. ASSUME NEW k
          PROVE  k \in GivenBefore(p, n + 3) <=>
                     k \in GivenBefore(p, n) \/ (k = n /\ n \in Given(p))
      BY <2>1, <2>2, <2>4 DEF GivenBefore
    <2> QED BY <2>3, <2>5
  <1>3. \A p : \A k \in GivenBefore(p, n) : k \in Nat /\ k < n
    BY Types DEF GivenBefore, Given, RecordStarts
  <1>4. ASSUME NEW p, NEW m PROVE GivenBefore(p, m)' = GivenBefore(p, m)
    BY DEF GivenBefore, Given, RecordStarts, IsRecord, options
  <1>5. \A k : BoundsAt(k)' = BoundsAt(k)
    BY DEF BoundsAt, options
  <1>6. paramsSet' = paramsSet
    BY DEF paramsSet, options
  <1>7. CASE counts
    <2>1. bounds' = [p \in DOMAIN bounds \cup {name} |->
                        IF p = name THEN BoundsAt(n) ELSE bounds[p]]
      BY <1>1, <1>7 DEF Recorded, BoundsAt
    <2> HIDE DEF name
    <2>2. DOMAIN bounds' = {p \in paramsSet : GivenBefore(p, n + 3) # {}}
      BY <1>2, <1>7, <2>1 DEF RecordedUpTo
    <2>3. IsLast(n, GivenBefore(name, n + 3))
      <3>1. GivenBefore(name, n + 3) = GivenBefore(name, n) \cup {n}
        BY <1>2, <1>7
      <3>2. \A k \in GivenBefore(name, n) : k <= n
        BY <1>0, <1>3
      <3> QED BY <1>0, <3>1, <3>2 DEF IsLast
    <2>4. ASSUME NEW p \in DOMAIN bounds'
          PROVE  \E k \in Nat : IsLast(k, GivenBefore(p, n + 3)) /\ bounds'[p] = BoundsAt(k)
      <3>1. CASE p = name
        BY <1>0, <2>1, <2>3, <3>1
      <3>2. CASE p # name
        BY <1>2, <2>1, <2>4, <3>2 DEF RecordedUpTo
      <3> QED BY <3>1, <3>2
    <2> QED BY <1>4, <1>5, <1>6, <2>1, <2>2, <2>4 DEF RecordedUpTo, IsLast
  <1>8. CASE ~counts
    <2>1. bounds' = bounds
      BY <1>1, <1>8 DEF Recorded, BoundsAt
    <2>2. \A p \in paramsSet : GivenBefore(p, n + 3) = GivenBefore(p, n)
      BY <1>2, <1>8
    <2>3. DOMAIN bounds \subseteq paramsSet
      BY DEF Typing
    <2> QED BY <1>4, <1>5, <1>6, <2>1, <2>2, <2>3 DEF RecordedUpTo, IsLast
  <1> QED BY <1>7, <1>8

\* Where no record begins, nothing more is given.
LEMMA NothingMore ==
    ASSUME Typing, AtRecord, RecordedUpTo(stream.next), ~IsRecord(stream.next)
    PROVE  RecordedUpTo(Len(input) + 1)
  <1>1. ASSUME NEW j \in RecordStarts PROVE j < stream.next
    <2>1. j \in Nat /\ IsRecord(j)
      BY Types DEF RecordStarts
    <2>2. ~(stream.next <= j)
      BY <2>1, Types, RecordsBefore DEF AtRecord
    <2> QED BY <2>1, <2>2, Types
  <1>2. ASSUME NEW p PROVE GivenBefore(p, Len(input) + 1) = GivenBefore(p, stream.next)
    <2>1. \A j \in RecordStarts : j < Len(input) + 1
      BY Types DEF RecordStarts
    <2> QED BY <1>1, <2>1 DEF GivenBefore, Given
  <1> QED BY <1>2 DEF RecordedUpTo

LEMMA Advances ==
    ASSUME NEW s \in Stream
    PROVE  /\ Advance(s) \in Stream /\ Advance(s).next = s.next + 1
           /\ Advance(s).failed = s.failed
  BY DEF Advance, Stream

LEMMA FailsThere ==
    ASSUME NEW s \in Stream
    PROVE  Failed(s) \in Stream /\ Failed(s).failed
  <1>1. Failed(s) \in Stream
    BY DEF Failed, Stream
  <1>2. Failed(s).failed = TRUE
    BY DEF Failed, Stream
  <1> QED BY <1>1, <1>2

\* An extraction fails at the end, and where it did before; otherwise it takes a token.
LEMMA WordRead ==
    ASSUME NEW s \in Stream, Len(input) \in Nat
    PROVE  /\ AfterWord(s) \in Stream
           /\ AtEnd(s) => AfterWord(s).failed
           /\ ~AtEnd(s) => AfterWord(s).next = s.next + 1 /\ ~AfterWord(s).failed
  <1>1. CASE AtEnd(s)
    BY <1>1, FailsThere DEF AfterWord
  <1>2. CASE ~AtEnd(s)
    BY <1>2, Advances DEF AfterWord, AtEnd
  <1> QED BY <1>1, <1>2

\* So does the one of an int where there is no number.
LEMMA IntIsRead ==
    ASSUME NEW s \in Stream, Len(input) \in Nat
    PROVE  /\ AfterInt(s) \in Stream
           /\ AtEnd(s) \/ input[s.next].kind # "number" => AfterInt(s).failed
           /\ ~AtEnd(s) /\ input[s.next].kind = "number" =>
                 AfterInt(s).next = s.next + 1 /\ ~AfterInt(s).failed
  <1>1. CASE AtEnd(s) \/ input[s.next].kind # "number"
    BY <1>1, FailsThere DEF AfterInt
  <1>2. CASE ~(AtEnd(s) \/ input[s.next].kind # "number")
    BY <1>2, Advances DEF AfterInt, AtEnd
  <1> QED BY <1>1, <1>2

\* A record in front of the stream is read without a failure.
LEMMA ReadRecord ==
    ASSUME Typing, AtRecord, IsRecord(stream.next), ReadBounds
    PROVE  /\ stream' \in Stream /\ stream'.next = stream.next + 3 /\ ~stream'.failed
           /\ bounds' = Recorded(input[stream.next].word, BoundsAt(stream.next))
  <1> DEFINE n == stream.next
             afterName == AfterWord(stream)
             afterLower == AfterInt(afterName)
  <1>a. n \in Nat /\ n % 3 = 1 /\ Len(input) \in Nat /\ stream \in Stream
    BY Types DEF AtRecord
  <1>b. n + 2 <= Len(input) /\ n \in {i \in 1 .. n : i % 3 = 1}
    BY <1>a DEF IsRecord
  <1>0. n \in Nat /\ n >= 1 /\ n + 2 <= Len(input) /\ Len(input) \in Nat /\ stream \in Stream
    BY <1>a, <1>b
  <1>1. input[n + 1].kind = "number" /\ input[n + 2].kind = "number"
    BY <1>b DEF IsRecord
  <1>2. afterName \in Stream /\ afterName.next = n + 1 /\ ~afterName.failed
    BY <1>0, WordRead DEF AtEnd, AtRecord
  <1>3. /\ afterLower \in Stream /\ afterLower.next = n + 2 /\ ~afterLower.failed
        /\ IntRead(afterName, lowerBound) = input[n + 1].value
    BY <1>0, <1>1, <1>2, IntIsRead DEF AtEnd, IntRead
  <1>4. /\ AfterInt(afterLower) \in Stream
        /\ AfterInt(afterLower).next = n + 3 /\ ~AfterInt(afterLower).failed
        /\ IntRead(afterLower, upperBound) = input[n + 2].value
    BY <1>0, <1>1, <1>3, IntIsRead DEF AtEnd, IntRead
  <1> QED BY <1>3, <1>4 DEF ReadBounds, BoundsAt

\* On a file, what is no record fails and is not recorded.
LEMMA FailsWithoutRecord ==
    ASSUME Typing, AtRecord, boundsFile, ReadBounds, ~IsRecord(stream.next)
    PROVE  stream'.failed /\ bounds' = bounds
  <1> DEFINE n == stream.next
             afterName == AfterWord(stream)
             afterLower == AfterInt(afterName)
  <1>0. n \in Nat /\ n >= 1 /\ n % 3 = 1 /\ Len(input) \in Nat /\ stream \in Stream
    BY Types DEF AtRecord
  <1>1. n + 2 > Len(input) \/ input[n + 1].kind # "number" \/ input[n + 2].kind # "number"
    <2> SUFFICES ASSUME n + 2 <= Len(input),
                        input[n + 1].kind = "number", input[n + 2].kind = "number"
                 PROVE  IsRecord(n)
      BY <1>0
    <2>1. ASSUME NEW j \in {i \in 1 .. n : i % 3 = 1}
          PROVE  input[j + 1].kind = "number" /\ input[j + 2].kind = "number"
      <3>1. CASE j = n
        BY <3>1
      <3>2. CASE j < n
        <4>1. IsRecord(j) /\ j \in {i \in 1 .. j : i % 3 = 1}
          BY <1>0, <3>2 DEF AtRecord
        <4> QED BY <4>1 DEF IsRecord
      <3> QED BY <1>0, <3>1, <3>2
    <2> QED BY <1>0, <2>1 DEF IsRecord
  <1>2. afterName \in Stream /\ afterLower \in Stream
    BY <1>0, WordRead, IntIsRead
  <1>3. AfterInt(afterLower).failed
    <2>1. CASE n > Len(input)
      <3>1. afterName.failed
        BY <1>0, <2>1, WordRead DEF AtEnd
      <3>2. afterLower.failed
        BY <1>0, <1>2, <3>1, IntIsRead DEF AtEnd
      <3> QED BY <1>0, <1>2, <3>2, IntIsRead DEF AtEnd
    <2>2. CASE n <= Len(input)
      <3>1. afterName.next = n + 1
        BY <1>0, <2>2, WordRead DEF AtEnd, AtRecord
      <3>2. CASE n + 1 > Len(input) \/ input[n + 1].kind # "number"
        <4>1. afterLower.failed
          BY <1>0, <1>2, <3>1, <3>2, IntIsRead DEF AtEnd
        <4> QED BY <1>0, <1>2, <4>1, IntIsRead DEF AtEnd
      <3>3. CASE n + 1 <= Len(input) /\ input[n + 1].kind = "number"
        <4>1. afterLower.failed \/ afterLower.next = n + 2
          BY <1>0, <1>2, <3>1, <3>3, IntIsRead DEF AtEnd
        <4> QED BY <1>0, <1>1, <1>2, <3>3, <4>1, IntIsRead DEF AtEnd
      <3> QED BY <1>0, <2>2, <3>2, <3>3
    <2> QED BY <1>0, <2>1, <2>2
  <1> QED BY <1>3 DEF ReadBounds

--------------------------------------------------------------------------------
(* The steps. *)

\* What is said of the input does not change with the state.
LEMMA SameInput ==
    ASSUME UNCHANGED options
    PROVE  /\ Readable' <=> Readable
           /\ paramsSet' = paramsSet
           /\ \A k : IsRecord(k)' <=> IsRecord(k)
  <1>1. \A k : IsRecord(k)' <=> IsRecord(k)
    BY DEF IsRecord, options
  <1>2. RecordStarts' = RecordStarts
    BY <1>1 DEF RecordStarts, options
  <1>3. WellFormed' <=> WellFormed
    BY <1>2 DEF WellFormed, options
  <1> QED BY <1>1, <1>3 DEF Readable, paramsSet, options

LEMMA SameRecorded ==
    ASSUME UNCHANGED <<options, bounds>>, NEW n, RecordedUpTo(n)
    PROVE  RecordedUpTo(n)'
  <1>1. ASSUME NEW p PROVE GivenBefore(p, n)' = GivenBefore(p, n)
    BY DEF GivenBefore, Given, RecordStarts, IsRecord, options
  <1>2. \A k : BoundsAt(k)' = BoundsAt(k)
    BY DEF BoundsAt, options
  <1>3. paramsSet' = paramsSet
    BY DEF paramsSet, options
  <1> QED BY <1>1, <1>2, <1>3 DEF RecordedUpTo, IsLast

LEMMA Initially == ScoreInit => ScoreInv
  <1> SUFFICES ASSUME ScoreInit PROVE ScoreInv
    OBVIOUS
  <1>1. Typing
    BY InputAssumption DEF ScoreInit, Typing, Stream
  <1> QED BY <1>1 DEF ScoreInit, ScoreInv, Untouched, Reading, HasRead, Matched, Finite

\* Steps after the bounds are read, and those of the clock and the task.
LEMMA Kept ==
    ASSUME ScoreInv, UNCHANGED <<options, stream, bounds>>,
           \/ pc' = pc
           \/ pc = "check" /\ pc' = "exited"
           \/ pc \in {"integrate", "wait", "mean"} /\ pc' \in {"wait", "mean", "exited"}
    PROVE  ScoreInv'
  <1>1. Typing'
    BY DEF ScoreInv, Typing, paramsSet, options
  <1>2. Untouched' /\ Finite' /\ Matched'
    BY DEF ScoreInv, Untouched, Finite, Matched, paramsSet, options
  <1>3. Reading'
    <2> SUFFICES ASSUME pc' = "bounds", Readable' PROVE AtRecord' /\ RecordedUpTo(stream.next)'
      BY DEF Reading
    <2>1. AtRecord /\ RecordedUpTo(stream.next)
      BY SameInput DEF ScoreInv, Reading
    <2>2. AtRecord'
      BY <2>1, SameInput DEF AtRecord, options
    <2>3. PICK n : n = stream.next
      OBVIOUS
    <2>4. RecordedUpTo(n)'
      BY <2>1, <2>3, SameRecorded
    <2> QED BY <2>2, <2>3, <2>4
  <1>4. HasRead'
    <2> SUFFICES ASSUME pc' \notin {"function", "bounds"}, func'.kind = "finite", Readable'
                 PROVE  RecordedUpTo(Len(input) + 1)'
      BY DEF HasRead
    <2>1. RecordedUpTo(Len(input) + 1)
      BY SameInput DEF ScoreInv, HasRead, options
    <2>2. PICK n : n = Len(input) + 1
      OBVIOUS
    <2>3. RecordedUpTo(n)' /\ input' = input
      BY <2>1, <2>2, SameRecorded DEF options
    <2> QED BY <2>2, <2>3
  <1> QED BY <1>1, <1>2, <1>3, <1>4 DEF ScoreInv

\* Nothing is read of a function that is none.
LEMMA NoFunction ==
    ASSUME ScoreInv, FunctionThrows \/ PrintInfinity
    PROVE  ScoreInv'
  <1>1. /\ UNCHANGED <<options, stream, bounds>>
        /\ pc' = "exited" /\ func'.kind # "finite"
    BY DEF FunctionThrows, PrintInfinity, Exit, options, reading
  <1> QED BY <1>1 DEF ScoreInv, Typing, Untouched, Reading, HasRead, Matched, Finite, paramsSet,
                      options

LEMMA FunctionKnown ==
    ASSUME ScoreInv, FunctionRead
    PROVE  ScoreInv'
  <1>1. /\ UNCHANGED <<options, stream, bounds>>
        /\ pc = "function" /\ pc' = "bounds" /\ func'.kind = "finite"
    BY DEF FunctionRead, options, reading
  <1>2. Typing' /\ Untouched' /\ HasRead' /\ Matched' /\ Finite'
    BY <1>1 DEF ScoreInv, Typing, Untouched, HasRead, Matched, Finite, paramsSet, options
  <1>3. stream.next = 1 /\ ~stream.failed /\ bounds = [p \in {} |-> <<0, 0>>] /\ Len(input) \in Nat
    BY <1>1, Types DEF ScoreInv, Untouched
  <1>4. AtRecord'
    BY <1>1, <1>3 DEF AtRecord, options
  <1>5. RecordedUpTo(1)
    <2>1. \A p : GivenBefore(p, 1) = {}
      BY Types DEF ScoreInv, GivenBefore, Given, RecordStarts
    <2> QED BY <1>3, <2>1 DEF RecordedUpTo
  <1>6. RecordedUpTo(1)'
    BY <1>1, <1>5, SameRecorded
  <1>7. RecordedUpTo(stream.next)'
    BY <1>1, <1>3, <1>6
  <1> QED BY <1>2, <1>4, <1>7 DEF ScoreInv, Reading

\* Whatever is read, the types stay and no other names get bounds.
LEMMA ReadTyped ==
    ASSUME Typing, UNCHANGED options, ReadBounds
    PROVE  Typing'
  <1> DEFINE afterName == AfterWord(stream)
             afterLower == AfterInt(afterName)
  <1>1. stream \in Stream /\ Len(input) \in Nat
    BY Types
  <1>2. afterName \in Stream
    BY <1>1, WordRead
  <1>3. afterLower \in Stream
    BY <1>1, <1>2, IntIsRead
  <1>4. AfterInt(afterLower) \in Stream
    BY <1>1, <1>3, IntIsRead
  <1>5. stream' \in Stream
    BY <1>4 DEF ReadBounds
  <1>6. DOMAIN bounds' \subseteq paramsSet
    <2>1. ASSUME NEW name, NEW bnds PROVE DOMAIN Recorded(name, bnds) \subseteq paramsSet
      BY DEF Recorded, Typing
    <2>2. bounds' = bounds \/ \E name, bnds : bounds' = Recorded(name, bnds)
      BY DEF ReadBounds
    <2> QED BY <2>1, <2>2 DEF Typing
  <1> QED BY <1>5, <1>6 DEF Typing, options, paramsSet

\* After a record that is read, the stream stands at the next.
LEMMA RecordRead ==
    ASSUME Typing, AtRecord, RecordedUpTo(stream.next), UNCHANGED options, ReadBounds,
           IsRecord(stream.next)
    PROVE  AtRecord' /\ RecordedUpTo(stream.next)'
  <1>1. PICK n \in Nat : n = stream.next
    BY Types
  <1>2. stream'.next = n + 3 /\ ~stream'.failed /\ bounds' = Recorded(input[n].word, BoundsAt(n))
    BY <1>1, ReadRecord
  <1>3. RecordedUpTo(n + 3)'
    BY <1>1, <1>2, RecordOne
  <1>4. AtRecord'
    <2>1. n % 3 = 1 /\ n + 2 <= Len(input) /\ IsRecord(n) /\ Len(input) \in Nat
      BY <1>1, Types DEF AtRecord, IsRecord
    <2>2. (n + 3) % 3 = 1 /\ n + 3 <= Len(input) + 1
      BY <2>1
    <2>3. ASSUME NEW k \in 1 .. n + 2, k % 3 = 1 PROVE IsRecord(k)
      <3>1. k \in Nat /\ k <= n
        BY <2>1, <2>3, NextThird
      <3>2. CASE k = n
        BY <2>1, <3>2
      <3>3. CASE k < n
        BY <1>1, <2>3, <3>1, <3>3 DEF AtRecord
      <3> QED BY <3>1, <3>2, <3>3
    <2>4. \A k \in 1 .. n + 3 - 1 : k % 3 = 1 => IsRecord(k)'
      BY <2>3, SameInput
    <2> QED BY <1>2, <2>2, <2>4 DEF AtRecord, options
  <1> QED BY <1>2, <1>3, <1>4

LEMMA FromFile ==
    ASSUME ScoreInv, ReadFromFile
    PROVE  ScoreInv'
  <1>1. /\ UNCHANGED options /\ pc = "bounds" /\ boundsFile /\ ReadBounds
        /\ pc' = IF stream'.failed THEN "check" ELSE "bounds"
    BY DEF ReadFromFile
  <1>2. Typing /\ Typing'
    BY <1>1, ReadTyped DEF ScoreInv
  <1>3. Untouched' /\ Finite' /\ Matched'
    BY <1>1 DEF ScoreInv, Untouched, Finite, Matched, options
  <1>4. AtRecord /\ RecordedUpTo(stream.next)
    BY <1>1 DEF ScoreInv, Reading, Readable
  <1>5. CASE IsRecord(stream.next)
    <2>1. ~stream'.failed
      BY <1>1, <1>2, <1>4, <1>5, ReadRecord
    <2>2. AtRecord' /\ RecordedUpTo(stream.next)'
      BY <1>1, <1>2, <1>4, <1>5, RecordRead
    <2> QED BY <1>1, <1>2, <1>3, <2>1, <2>2 DEF ScoreInv, Reading, HasRead
  <1>6. CASE ~IsRecord(stream.next)
    <2>1. stream'.failed /\ bounds' = bounds
      BY <1>1, <1>2, <1>4, <1>6, FailsWithoutRecord
    <2>2. PICK n : n = Len(input) + 1
      OBVIOUS
    <2>3. RecordedUpTo(n)
      BY <1>2, <1>4, <1>6, <2>2, NothingMore
    <2>4. RecordedUpTo(n)'
      BY <1>1, <2>1, <2>3, SameRecorded
    <2>5. RecordedUpTo(Len(input) + 1)'
      BY <1>1, <2>2, <2>4 DEF options
    <2> QED BY <1>1, <1>2, <1>3, <2>1, <2>5 DEF ScoreInv, Reading, HasRead
  <1> QED BY <1>5, <1>6

LEMMA FromStdin ==
    ASSUME ScoreInv, ReadFromStdin
    PROVE  ScoreInv'
  <1>1. /\ UNCHANGED options /\ pc = "bounds" /\ pc' = "bounds"
        /\ ~boundsFile /\ ~StdinEnds /\ ReadBounds
    BY DEF ReadFromStdin
  <1>2. Typing /\ Typing'
    BY <1>1, ReadTyped DEF ScoreInv
  <1>3. Untouched' /\ Finite' /\ Matched' /\ HasRead'
    BY <1>1 DEF ScoreInv, Untouched, Finite, Matched, HasRead, options
  <1>4. Reading'
    <2> SUFFICES ASSUME Readable PROVE AtRecord' /\ RecordedUpTo(stream.next)'
      BY <1>1, SameInput DEF Reading
    <2>1. AtRecord /\ RecordedUpTo(stream.next) /\ WellFormed
      BY <1>1 DEF ScoreInv, Reading, Readable
    <2>2. stream.next <= Len(input) /\ input[stream.next].word # "end"
      BY <1>1, <1>2, Types DEF StdinEnds, AtEnd
    <2>3. IsRecord(stream.next)
      BY <1>1, <1>2, <2>1, <2>2, WellFormedGoesOn
    <2> QED BY <1>1, <1>2, <2>1, <2>3, RecordRead
  <1> QED BY <1>2, <1>3, <1>4 DEF ScoreInv

LEMMA AtStdinsEnd ==
    ASSUME ScoreInv, EndOfStdin
    PROVE  ScoreInv'
  <1>1. /\ UNCHANGED <<options, bounds>> /\ pc = "bounds" /\ pc' = "check" /\ ~boundsFile
        /\ StdinEnds /\ stream' = AfterWord(stream)
    BY DEF EndOfStdin
  <1>2. Typing /\ stream' \in Stream
    BY <1>1, Types, WordRead DEF ScoreInv
  <1>3. Typing' /\ Untouched' /\ Finite' /\ Matched' /\ Reading'
    BY <1>1, <1>2 DEF ScoreInv, Typing, Untouched, Finite, Matched, Reading, paramsSet, options
  <1>4. HasRead'
    <2> SUFFICES ASSUME Readable PROVE RecordedUpTo(Len(input) + 1)'
      BY <1>1, SameInput DEF HasRead
    <2>1. AtRecord /\ RecordedUpTo(stream.next)
      BY <1>1 DEF ScoreInv, Reading
    <2>2. PICK n \in Nat : n = stream.next
      BY <1>2, Types
    <2>3. ~IsRecord(n)
      <3>1. n > Len(input) \/ input[n].word = "end"
        BY <1>1, <2>1, <2>2 DEF StdinEnds, AtEnd, AtRecord
      <3>2. n % 3 = 1 /\ Len(input) \in Nat /\ n \in {i \in 1 .. n : i % 3 = 1}
        BY <1>2, <2>1, <2>2, Types DEF AtRecord
      <3>3. CASE n > Len(input)
        BY <3>2, <3>3 DEF IsRecord
      <3>4. CASE input[n].word = "end"
        BY <1>1, <3>2, <3>4 DEF IsRecord
      <3> QED BY <3>1, <3>3, <3>4
    <2>4. PICK m : m = Len(input) + 1
      OBVIOUS
    <2>5. RecordedUpTo(m)
      BY <1>2, <2>1, <2>2, <2>3, <2>4, NothingMore
    <2>6. RecordedUpTo(m)'
      BY <1>1, <2>5, SameRecorded
    <2> QED BY <1>1, <2>4, <2>6 DEF options
  <1> QED BY <1>3, <1>4 DEF ScoreInv

\* As many bounds as parameters: all parameters have theirs.
LEMMA AllBounded ==
    ASSUME ScoreInv, Bounded
    PROVE  ScoreInv'
  <1>1. /\ UNCHANGED <<options, stream, bounds>> /\ pc = "check" /\ pc' = "integrate"
        /\ Cardinality(DOMAIN bounds) = Cardinality(paramsSet)
    BY DEF Bounded, reading
  <1>2. IsFiniteSet(paramsSet) /\ DOMAIN bounds \in SUBSET paramsSet
    <2>1. paramsSet \subseteq ToSet(Names)
      BY InputAssumption DEF ScoreInv, Typing, paramsSet
    <2> QED BY <2>1, OrderedIsBijection DEF ScoreInv, Typing
  <1>3. DOMAIN bounds = paramsSet
    BY <1>1, <1>2, FS_Subset
  <1>4. Typing' /\ Untouched' /\ Reading' /\ Matched' /\ Finite'
    BY <1>1, <1>3 DEF ScoreInv, Typing, Untouched, Reading, Matched, Finite, paramsSet, options
  <1>5. HasRead'
    <2> SUFFICES ASSUME func.kind = "finite", Readable PROVE RecordedUpTo(Len(input) + 1)'
      BY <1>1, SameInput DEF HasRead, options
    <2>1. RecordedUpTo(Len(input) + 1)
      BY <1>1 DEF ScoreInv, HasRead
    <2>2. PICK n : n = Len(input) + 1
      OBVIOUS
    <2>3. RecordedUpTo(n)'
      BY <1>1, <2>1, <2>2, SameRecorded
    <2> QED BY <1>1, <2>2, <2>3 DEF options
  <1> QED BY <1>4, <1>5 DEF ScoreInv

LEMMA Step == ScoreInv /\ [ScoreNext]_scoreVars => ScoreInv'
  <1> SUFFICES ASSUME ScoreInv, [ScoreNext]_scoreVars PROVE ScoreInv'
    OBVIOUS
  <1>1. CASE FunctionThrows \/ PrintInfinity
    BY <1>1, NoFunction
  <1>2. CASE FunctionRead
    BY <1>2, FunctionKnown
  <1>3. CASE ReadFromFile
    BY <1>3, FromFile
  <1>4. CASE ReadFromStdin
    BY <1>4, FromStdin
  <1>5. CASE EndOfStdin
    BY <1>5, AtStdinsEnd
  <1>6. CASE Bounded
    BY <1>6, AllBounded
  <1>7. CASE Unbounded
    BY <1>7, Kept DEF Unbounded, Exit, reading
  <1>8. CASE IntegrateConstant \/ GaussKronrodIntegration \/ Unsupported
    BY <1>8, Kept DEF IntegrateConstant, GaussKronrodIntegration, Unsupported, reading
  <1>9. CASE MonteCarloIntegration \/ BoundsThrow
    BY <1>9, Kept DEF MonteCarloIntegration, BoundsThrow, Exit, reading
  <1>10. CASE WaitOneSecond \/ GetResult \/ TaskEnds
    BY <1>10, Kept DEF WaitOneSecond, GetResult, TaskEnds, reading
  <1>11. CASE DivideByWidth \/ PrintResult
    BY <1>11, Kept DEF DivideByWidth, PrintResult, Exit, reading
  <1>12. CASE UNCHANGED scoreVars
    BY <1>12, Kept DEF scoreVars, reading
  <1> QED BY <1>1, <1>2, <1>3, <1>4, <1>5, <1>6, <1>7, <1>8, <1>9, <1>10, <1>11, <1>12
          DEF ScoreNext, ScoreStep

LEMMA ScoreInvariant == ScoreSpec => []ScoreInv
  <1> QED BY Initially, Step, PTL DEF ScoreSpec

--------------------------------------------------------------------------------
(* The theorems. *)

\* The last of the records that give a parameter proper bounds is the one GivenBounds
\* speaks of.
LEMMA LastIsMax ==
    ASSUME Typing, NEW p, NEW k, IsLast(k, GivenBefore(p, Len(input) + 1))
    PROVE  GivenBounds(p) = BoundsAt(k) /\ Given(p) # {}
  <1>1. GivenBefore(p, Len(input) + 1) = Given(p) /\ \A j \in Given(p) : j \in Int
    BY Types DEF GivenBefore, Given, RecordStarts
  <1>2. k \in Given(p) /\ \A j \in Given(p) : j <= k
    BY <1>1 DEF IsLast
  <1>3. Max(Given(p)) = k
    <2>1. \A x \in Given(p) : (\A y \in Given(p) : x >= y) <=> x = k
      BY <1>1, <1>2
    <2> QED BY <1>2, <2>1 DEF Max
  <1> QED BY <1>2, <1>3 DEF GivenBounds, BoundsAt

\* Whatever the function, and whatever a file or a well formed stdin holds: token by
\* token, the program records for each parameter the last proper bounds the input as
\* a whole gives it, and nothing else (gpscat-score.cpp:175-193).
THEOREM BoundsRecordedAsGiven == ScoreSpec => []BoundsAsGiven
  <1>1. ScoreInv => BoundsAsGiven
    <2> SUFFICES ASSUME ScoreInv, pc \notin {"function", "bounds"}, func.kind = "finite", Readable
                 PROVE  bounds = [p \in {q \in paramsSet : Given(q) # {}} |-> GivenBounds(p)]
      BY DEF BoundsAsGiven, Readable
    <2>1. RecordedUpTo(Len(input) + 1) /\ Typing
      BY DEF ScoreInv, HasRead
    <2>2. \A p : GivenBefore(p, Len(input) + 1) = Given(p)
      BY <2>1, Types DEF GivenBefore, Given, RecordStarts
    <2>3. DOMAIN bounds = {q \in paramsSet : Given(q) # {}}
      BY <2>1, <2>2 DEF RecordedUpTo
    <2>4. \A p \in DOMAIN bounds : bounds[p] = GivenBounds(p)
      BY <2>1, LastIsMax DEF RecordedUpTo
    <2> QED BY <2>1, <2>3, <2>4 DEF RecordedUpTo
  <1> QED BY <1>1, ScoreInvariant, PTL

\* Once the integration begins, the interval at each position is that of the
\* parameter there, although names and intervals come from two different containers
\* and only their numbers were compared (gpscat-score.cpp:107-114, 195).
THEOREM IntervalsOfTheirParameters ==
    ScoreSpec => [](pc \in {"integrate", "wait", "mean"} =>
                       boundsVector = [i \in 1 .. Cardinality(paramsSet) |-> bounds[params[i]]])
  <1>1. ScoreInv => (pc \in {"integrate", "wait", "mean"} =>
                       boundsVector = [i \in 1 .. Cardinality(paramsSet) |-> bounds[params[i]]])
    <2> SUFFICES ASSUME ScoreInv, pc \in {"integrate", "wait", "mean"}
                 PROVE  boundsVector = [i \in 1 .. Cardinality(paramsSet) |-> bounds[params[i]]]
      OBVIOUS
    <2>1. DOMAIN bounds = paramsSet
      BY DEF ScoreInv, Matched
    <2> QED BY <2>1 DEF boundsVector, params
  <1> QED BY <1>1, ScoreInvariant, PTL

\* Exit code 0 is that of a program that had all bounds, if it had a function.
BoundedAtExit == exitCode = 0 /\ func.kind = "finite" => pc = "exited" /\ DOMAIN bounds = paramsSet

LEMMA ExitStep ==
    ASSUME ScoreInv, BoundedAtExit, [ScoreNext]_scoreVars
    PROVE  BoundedAtExit'
  <1>1. CASE FunctionThrows \/ PrintInfinity
    BY <1>1 DEF FunctionThrows, PrintInfinity, Exit, BoundedAtExit, options
  <1>2. CASE FunctionRead \/ EndOfStdin \/ Bounded
    BY <1>2 DEF FunctionRead, EndOfStdin, Bounded, BoundedAtExit, options
  <1>3. CASE ReadFromFile \/ ReadFromStdin
    BY <1>3 DEF ReadFromFile, ReadFromStdin, BoundedAtExit, options
  <1>4. CASE Unbounded \/ BoundsThrow
    BY <1>4 DEF Unbounded, BoundsThrow, Exit, BoundedAtExit
  <1>5. CASE IntegrateConstant \/ GaussKronrodIntegration \/ Unsupported \/ MonteCarloIntegration
    BY <1>5 DEF IntegrateConstant, GaussKronrodIntegration, Unsupported, MonteCarloIntegration,
                BoundedAtExit, options
  <1>6. CASE WaitOneSecond \/ GetResult \/ DivideByWidth
    BY <1>6 DEF WaitOneSecond, GetResult, DivideByWidth, BoundedAtExit, options
  <1>7. CASE TaskEnds \/ UNCHANGED scoreVars
    BY <1>7 DEF TaskEnds, BoundedAtExit, scoreVars, options, reading, paramsSet
  <1>8. CASE PrintResult
    BY <1>8 DEF PrintResult, Exit, BoundedAtExit, ScoreInv, Matched, options, reading, paramsSet
  <1> QED BY <1>1, <1>2, <1>3, <1>4, <1>5, <1>6, <1>7, <1>8 DEF ScoreNext, ScoreStep

\* A file, or a well formed stdin, that leaves a parameter without bounds gets no
\* result: only a stdin that is not well formed makes UnboundedIsReported fail
\* (gpscat-score.cpp:195-199).
THEOREM UnboundedReported == ScoreSpec => [](Readable => UnboundedIsReported)
  <1>1. ScoreInit => BoundedAtExit
    BY DEF ScoreInit, BoundedAtExit
  <1>2. ScoreInv /\ BoundedAtExit /\ [ScoreNext]_scoreVars => BoundedAtExit'
    BY ExitStep
  <1>3. ScoreInv /\ BoundedAtExit => (Readable => UnboundedIsReported)
    <2> SUFFICES ASSUME ScoreInv, BoundedAtExit, Readable, func.kind = "finite", exitCode = 0
                 PROVE  BoundedByInput
      BY DEF UnboundedIsReported
    <2>1. RecordedUpTo(Len(input) + 1) /\ Typing /\ DOMAIN bounds = paramsSet
      BY DEF ScoreInv, HasRead, BoundedAtExit
    <2>2. \A p : GivenBefore(p, Len(input) + 1) \subseteq Given(p)
      BY DEF GivenBefore
    <2> QED BY <2>1, <2>2 DEF RecordedUpTo, BoundedByInput
  <1> QED BY <1>1, <1>2, <1>3, ScoreInvariant, PTL DEF ScoreSpec


--------------------------------------------------------------------------------
(* Types. *)

\* Until the integration ends there is no result.
NoResultYet ==
    pc \in {"function", "bounds", "check", "integrate", "wait"} => result = NoResult /\ divided = 0

TypeInv == ScoreTypeOK /\ NoResultYet

\* The build's subtraction gives an int, and that of two ints whose difference is one.
LEMMA Wrapped ==
    ASSUME NEW n \in Int
    PROVE  WrapInt(n) \in Int /\ (n \in IntTy => WrapInt(n) = n)
  <1>1. PICK w \in Nat : w = MaxInt
    BY ScoreAssumption
  <1>2. CASE n \in IntTy
    <2>1. n + w + 1 \in 0 .. 2 * (w + 1) - 1
      BY <1>1, <1>2 DEF IntTy
    <2>2. (n + w + 1) % (2 * (w + 1)) = n + w + 1
      BY <2>1
    <2> QED BY <1>1, <2>2 DEF WrapInt
  <1>3. ((n + w + 1) % (2 * (w + 1))) \in Int
    OBVIOUS
  <1> QED BY <1>1, <1>2, <1>3 DEF WrapInt

\* The parameters with bounds are finitely many, and are listed once each.
LEMMA Listed ==
    ASSUME ScoreInv, ScoreTypeOK
    PROVE  /\ IsFiniteSet(paramsSet) /\ IsFiniteSet(DOMAIN bounds)
           /\ Cardinality(DOMAIN bounds) \in Nat
           /\ Ordered(DOMAIN bounds) \in Bijection(1 .. Cardinality(DOMAIN bounds), DOMAIN bounds)
           /\ Ordered(paramsSet) \in Seq(paramsSet)
           /\ Ordered(paramsSet) \in Bijection(1 .. Cardinality(paramsSet), paramsSet)
  <1>1. paramsSet \subseteq ToSet(Names) /\ DOMAIN bounds \subseteq ToSet(Names)
    BY InputAssumption DEF ScoreInv, Typing, paramsSet
  <1>2. IsFiniteSet(paramsSet) /\ IsFiniteSet(DOMAIN bounds)
    BY <1>1, OrderedIsBijection
  <1> QED BY <1>1, <1>2, OrderedIsBijection, FS_CardinalityType

\* The vector has an interval of ints for each of them.
LEMMA Vector ==
    ASSUME ScoreInv, ScoreTypeOK
    PROVE  /\ Len(boundsVector) = Cardinality(DOMAIN bounds)
           /\ \A i \in 1 .. Cardinality(DOMAIN bounds) :
                 /\ Ordered(DOMAIN bounds)[i] \in DOMAIN bounds
                 /\ boundsVector[i] = bounds[Ordered(DOMAIN bounds)[i]]
                 /\ boundsVector[i][1] \in IntTy /\ boundsVector[i][2] \in IntTy
                 /\ boundsVector[i][1] \in Int /\ boundsVector[i][2] \in Int
  <1>1. PICK n \in Nat : n = Cardinality(DOMAIN bounds)
    BY Listed
  <1>2. \A i \in 1 .. n : Ordered(DOMAIN bounds)[i] \in DOMAIN bounds
    BY <1>1, Listed DEF Bijection, Injection
  <1>3. \A i \in 1 .. n : bounds[Ordered(DOMAIN bounds)[i]] \in IntTy \X IntTy
    BY <1>2 DEF ScoreTypeOK
  <1>4. boundsVector = [i \in 1 .. n |-> bounds[Ordered(DOMAIN bounds)[i]]]
    BY <1>1 DEF boundsVector
  <1>5. Len(boundsVector) = n
    BY <1>3, <1>4
  <1>6. IntTy \subseteq Int
    BY ScoreAssumption DEF IntTy
  <1>7. \A i \in 1 .. n : boundsVector[i][1] \in IntTy /\ boundsVector[i][2] \in IntTy
    BY <1>3, <1>4
  <1> QED BY <1>1, <1>2, <1>4, <1>5, <1>6, <1>7

\* The widths of the intervals, and what the integral over a box of width 1 would be.
Widths == [i \in DOMAIN params |-> boundsVector[i][2] - boundsVector[i][1]]

Terms == [i \in DOMAIN params |-> func.coef[params[i]] * (boundsVector[i][1] + boundsVector[i][2])]

Weighted == 2 * func.const + SumFunction(Terms)

\* What is integrated are ints, position by position.
LEMMA Integrand ==
    ASSUME ScoreInv, ScoreTypeOK, DOMAIN bounds = paramsSet
    PROVE  /\ DOMAIN params = 1 .. Cardinality(paramsSet) /\ Len(params) = Cardinality(paramsSet)
           /\ Cardinality(paramsSet) \in Nat
           /\ \A i \in DOMAIN params : Widths[i] \in Int /\ Terms[i] \in Int
           /\ func.const \in Int
           /\ TwiceIntegral = FoldSeq(LAMBDA x, y : x * y, 1, Widths) * Weighted
  <1>1. params \in Seq(paramsSet) /\ params \in Bijection(1 .. Cardinality(paramsSet), paramsSet)
    BY Listed DEF params
  <1>2. PICK n \in Nat : n = Cardinality(paramsSet)
    BY Listed, FS_CardinalityType
  <1>3. DOMAIN params = 1 .. n
    BY <1>1, <1>2 DEF Bijection, Injection
  <1>4. Len(params) = n
    <2>1. PICK k \in Nat : k = Len(params)
      BY <1>1
    <2>2. DOMAIN params = 1 .. k
      BY <1>1, <2>1
    <2>3. 1 .. k = 1 .. n
      BY <1>3, <2>2
    <2> QED BY <2>1, <2>3
  <1>5. \A i \in 1 .. n : boundsVector[i][1] \in Int /\ boundsVector[i][2] \in Int
    BY <1>2, Vector
  <1>6. func.const \in Int /\ \A p \in paramsSet : func.coef[p] \in Int
    BY InputAssumption DEF ScoreInv, Typing, paramsSet
  <1>7. \A i \in 1 .. n : func.coef[params[i]] \in Int
    BY <1>1, <1>2, <1>6 DEF Bijection, Injection
  <1>8. \A i \in 1 .. n : Widths[i] \in Int /\ Terms[i] \in Int
    BY <1>3, <1>5, <1>7 DEF Widths, Terms
  <1>9. TwiceIntegral = FoldSeq(LAMBDA x, y : x * y, 1, Widths) * Weighted
    BY DEF TwiceIntegral, Product, Widths, Terms, Weighted
  <1> QED BY <1>2, <1>3, <1>4, <1>6, <1>8, <1>9

\* The product of the widths, as the fold computes it.
LEMMA BoxVolume ==
    ASSUME ScoreInv, ScoreTypeOK, DOMAIN bounds = paramsSet
    PROVE  /\ IsFiniteSet(DOMAIN params)
           /\ Weighted \in Int
           /\ \E it : /\ IsProduct(it, Widths, DOMAIN params)
                      /\ TwiceIntegral = it[DOMAIN params] * Weighted
           /\ TwiceIntegral \in Int
           /\ Len(params) = 0 => TwiceIntegral = 2 * func.const
  <1>1. /\ DOMAIN params = 1 .. Cardinality(paramsSet) /\ Len(params) = Cardinality(paramsSet)
        /\ Cardinality(paramsSet) \in Nat
        /\ \A i \in DOMAIN params : Widths[i] \in Int /\ Terms[i] \in Int
        /\ func.const \in Int
        /\ TwiceIntegral = FoldSeq(LAMBDA x, y : x * y, 1, Widths) * Weighted
    BY Integrand
  <1>2. PICK n \in Nat : n = Cardinality(paramsSet)
    BY <1>1
  <1>3. IsFiniteSet(DOMAIN params)
    <2>1. IsFiniteSet(1 .. n)
      <3>1. n \in Int /\ 1 \in Int
        OBVIOUS
      <3> QED BY ONLY <3>1, FS_Interval
    <2> QED BY <1>1, <1>2, <2>1
  <1>4. DOMAIN Widths = DOMAIN params /\ DOMAIN Terms = DOMAIN params
    BY DEF Widths, Terms
  <1>5. PICK jt : IsSum(jt, Terms, DOMAIN params) /\ SumFunctionOnSet(Terms, DOMAIN params) = jt[DOMAIN params]
    BY <1>1, <1>3, SumRecursion
  <1>6. SumFunction(Terms) = jt[DOMAIN params]
    BY <1>4, <1>5 DEF SumFunction
  <1>7. jt[DOMAIN params] \in Int /\ jt[{}] = 0
    BY <1>5 DEF IsSum
  <1>8. Weighted \in Int
    <2>1. PICK c, j \in Int : c = func.const /\ j = SumFunction(Terms)
      BY <1>1, <1>6, <1>7
    <2>2. 2 * c + j \in Int
      OBVIOUS
    <2> QED BY <2>1, <2>2 DEF Weighted
  <1>9. \E it : /\ IsProduct(it, Widths, DOMAIN Widths)
                /\ FoldSeq(LAMBDA x, y : x * y, 1, Widths) = it[DOMAIN Widths]
    BY <1>1, <1>3, <1>4, ProductRecursion
  <1>10. PICK it : /\ IsProduct(it, Widths, DOMAIN params)
                   /\ FoldSeq(LAMBDA x, y : x * y, 1, Widths) = it[DOMAIN params]
    BY <1>4, <1>9
  <1>11. TwiceIntegral = it[DOMAIN params] * Weighted /\ it[DOMAIN params] \in Int /\ it[{}] = 1
    BY <1>1, <1>10 DEF IsProduct
  <1>12. TwiceIntegral \in Int
    BY <1>8, <1>11
  <1>13. ASSUME Len(params) = 0 PROVE TwiceIntegral = 2 * func.const
    <2>1. DOMAIN params = {}
      <3>1. DOMAIN params = 1 .. 0
        BY ONLY <1>1, <1>13
      <3> QED BY ONLY <3>1
    <2>2. PICK c \in Int : c = func.const
      BY <1>1
    <2>3. Weighted = 2 * c + 0
      BY ONLY <1>6, <1>7, <2>1, <2>2 DEF Weighted
    <2>4. TwiceIntegral = 1 * (2 * c + 0)
      BY ONLY <1>11, <2>1, <2>3
    <2> QED BY ONLY <2>2, <2>4
  <1> QED BY <1>3, <1>8, <1>10, <1>11, <1>12, <1>13

\* The stream, and what is read from it (gpscat-score.cpp:175-193).
LEMMA ReadTypes ==
    ASSUME ScoreInv, TypeInv, ReadBounds, UNCHANGED options
    PROVE  /\ stream' \in [next : 1 .. Len(input)' + 1, failed : BOOLEAN]
           /\ lowerBound' \in IntTy /\ upperBound' \in IntTy
           /\ DOMAIN bounds' \subseteq paramsSet'
           /\ \A p \in DOMAIN bounds' : bounds'[p] \in IntTy \X IntTy
  <1> DEFINE Positions == [next : 1 .. Len(input) + 1, failed : BOOLEAN]
             afterName == AfterWord(stream)
             afterLower == AfterInt(afterName)
             lower == IntRead(afterName, lowerBound)
             upper == IntRead(afterLower, upperBound)
  <1>1. Len(input) \in Nat /\ stream \in Positions
    BY Types DEF ScoreInv, TypeInv, ScoreTypeOK
  <1>2. \A k \in 1 .. Len(input) : input[k].value \in IntTy
    <2>1. \A k \in 1 .. Len(input) : input[k] \in Token
      BY DEF ScoreInv, Typing
    <2> QED BY <2>1 DEF Token
  <1>3. ASSUME NEW s \in Positions PROVE AfterWord(s) \in Positions /\ AfterInt(s) \in Positions
    <2>1. Failed(s) \in Positions
      BY DEF Failed
    <2>2. ~AtEnd(s) => Advance(s) \in Positions
      BY <1>1 DEF AtEnd, Advance
    <2> HIDE DEF Positions
    <2> QED BY <2>1, <2>2 DEF AfterWord, AfterInt
  <1>4. ASSUME NEW s \in Positions, NEW old \in IntTy PROVE IntRead(s, old) \in IntTy
    <2>1. ~AtEnd(s) => s.next \in 1 .. Len(input)
      BY <1>1 DEF AtEnd
    <2> QED BY <1>2, <1>4, <2>1 DEF IntRead
  <1>5. afterName \in Positions /\ afterLower \in Positions /\ AfterInt(afterLower) \in Positions
    <2> HIDE DEF Positions
    <2> QED BY <1>1, <1>3
  <1>6. lower \in IntTy /\ upper \in IntTy
    <2>1. lowerBound \in IntTy /\ upperBound \in IntTy
      BY DEF TypeInv, ScoreTypeOK
    <2> HIDE DEF Positions, afterName, afterLower
    <2> QED BY <1>4, <1>5, <2>1
  <1>7. /\ stream' = AfterInt(afterLower) /\ lowerBound' = lower /\ upperBound' = upper
        /\ \/ bounds' = bounds
           \/ bounds' = Recorded(input[stream.next].word, <<lower, upper>>)
    BY DEF ReadBounds
  <1>8. stream' \in [next : 1 .. Len(input)' + 1, failed : BOOLEAN]
    BY <1>5, <1>7 DEF options
  <1>9. DOMAIN bounds \subseteq paramsSet /\ \A p \in DOMAIN bounds : bounds[p] \in IntTy \X IntTy
    BY DEF TypeInv, ScoreTypeOK
  <1>10. ASSUME NEW name, NEW pair \in IntTy \X IntTy
         PROVE  /\ DOMAIN Recorded(name, pair) \subseteq paramsSet
                /\ \A p \in DOMAIN Recorded(name, pair) : Recorded(name, pair)[p] \in IntTy \X IntTy
    <2>1. CASE pair[1] > pair[2] \/ name \notin paramsSet
      BY <1>9, <2>1 DEF Recorded
    <2>2. CASE ~(pair[1] > pair[2] \/ name \notin paramsSet)
      <3>1. Recorded(name, pair) = [p \in DOMAIN bounds \cup {name} |-> IF p = name THEN pair ELSE bounds[p]]
        BY <2>2 DEF Recorded
      <3> QED BY <1>9, <2>2, <3>1
    <2> QED BY <2>1, <2>2
  <1>11. <<lower, upper>> \in IntTy \X IntTy
    BY <1>6
  <1>12. paramsSet' = paramsSet
    BY DEF paramsSet, options
  <1>13. DOMAIN bounds' \subseteq paramsSet /\ \A p \in DOMAIN bounds' : bounds'[p] \in IntTy \X IntTy
    <2>1. CASE bounds' = bounds
      BY <1>9, <2>1
    <2>2. CASE bounds' = Recorded(input[stream.next].word, <<lower, upper>>)
      <3> HIDE DEF lower, upper
      <3> QED BY <1>10, <1>11, <2>2
    <2> QED BY <1>7, <2>1, <2>2
  <1> HIDE DEF lower, upper, afterName, afterLower
  <1> QED BY <1>6, <1>7, <1>8, <1>12, <1>13

\* The other steps leave alone what was read.
LEMMA ReadKept ==
    ASSUME ScoreTypeOK, UNCHANGED <<options, reading>>
    PROVE  /\ stream' \in [next : 1 .. Len(input)' + 1, failed : BOOLEAN]
           /\ lowerBound' \in IntTy /\ upperBound' \in IntTy
           /\ DOMAIN bounds' \subseteq paramsSet'
           /\ \A p \in DOMAIN bounds' : bounds'[p] \in IntTy \X IntTy
  BY DEF ScoreTypeOK, options, reading, paramsSet

\* A step before the integration ends leaves the result alone.
LEMMA WithoutResult ==
    ASSUME TypeInv, UNCHANGED <<result, divided>>,
           stream' \in [next : 1 .. Len(input)' + 1, failed : BOOLEAN],
           lowerBound' \in IntTy, upperBound' \in IntTy,
           DOMAIN bounds' \subseteq paramsSet',
           \A p \in DOMAIN bounds' : bounds'[p] \in IntTy \X IntTy,
           task' \in {"none", "running", "ready"}, secondCount' \in 0 .. maxtime, cancelled' \in BOOLEAN,
           exitCode' \in {-1, 0, 1, 6},
           pc' \in {"function", "bounds", "check", "integrate", "wait", "mean", "exited"},
           pc' \in {"function", "bounds", "check", "integrate", "wait"} =>
               pc \in {"function", "bounds", "check", "integrate", "wait"},
           \/ bounds' = bounds
           \/ pc = "bounds" /\ Cardinality(DOMAIN bounds') \in Nat
    PROVE  TypeInv'
  <1>1. result' \in [kind : {"none", "exact", "estimate", "nan"}, num : Int, den : Int \ {0}]
    BY DEF TypeInv, ScoreTypeOK
  <1>2. divided' \in 0 .. Cardinality(DOMAIN bounds)'
    <2>1. CASE bounds' = bounds
      BY <2>1 DEF TypeInv, ScoreTypeOK
    <2>2. CASE pc = "bounds" /\ Cardinality(DOMAIN bounds') \in Nat
      <3>1. divided' = 0
        BY <2>2 DEF TypeInv, NoResultYet
      <3> QED BY <2>2, <3>1
    <2> QED BY <2>1, <2>2
  <1>3. NoResultYet'
    BY DEF TypeInv, NoResultYet, NoResult
  <1> QED BY <1>1, <1>2, <1>3 DEF TypeInv, ScoreTypeOK

\* What is recorded has finitely many parameters.
LEMMA RecordedFinite ==
    ASSUME ScoreInv, UNCHANGED options, DOMAIN bounds' \subseteq paramsSet'
    PROVE  Cardinality(DOMAIN bounds') \in Nat
  <1>1. paramsSet' = paramsSet /\ paramsSet \subseteq ToSet(Names)
    BY InputAssumption DEF ScoreInv, Typing, paramsSet, options
  <1>2. IsFiniteSet(paramsSet)
    BY <1>1, OrderedIsBijection
  <1> QED BY <1>1, <1>2, FS_Subset, FS_CardinalityType

LEMMA TypesStart == ScoreInit => TypeInv
  <1> SUFFICES ASSUME ScoreInit PROVE TypeInv
    OBVIOUS
  <1>1. Len(input) \in Nat
    BY InputAssumption DEF ScoreInit
  <1>2. stream \in [next : 1 .. Len(input) + 1, failed : BOOLEAN]
    BY <1>1 DEF ScoreInit
  <1>3. lowerBound \in IntTy /\ upperBound \in IntTy /\ secondCount \in 0 .. maxtime
    BY ScoreAssumption DEF ScoreInit, IntTy
  <1>4. DOMAIN bounds = {} /\ Cardinality({}) = 0
    BY FS_EmptySet DEF ScoreInit
  <1>5. divided \in 0 .. Cardinality(DOMAIN bounds)
    BY <1>4 DEF ScoreInit
  <1>6. result \in [kind : {"none", "exact", "estimate", "nan"}, num : Int, den : Int \ {0}]
    BY DEF ScoreInit, NoResult
  <1> QED BY <1>2, <1>3, <1>4, <1>5, <1>6 DEF ScoreInit, TypeInv, ScoreTypeOK, NoResultYet

\* Reading the function and the bounds, and the check of them.
LEMMA ReadingTyped ==
    ASSUME ScoreInv, TypeInv,
           \/ FunctionThrows \/ PrintInfinity \/ FunctionRead
           \/ ReadFromFile \/ ReadFromStdin \/ EndOfStdin \/ Unbounded \/ Bounded
    PROVE  TypeInv'
  <1>0. /\ task \in {"none", "running", "ready"} /\ secondCount \in 0 .. maxtime /\ cancelled \in BOOLEAN
        /\ exitCode \in {-1, 0, 1, 6}
    BY DEF TypeInv, ScoreTypeOK
  <1>1. CASE FunctionThrows \/ PrintInfinity \/ FunctionRead \/ Unbounded \/ Bounded
    <2>1. UNCHANGED <<options, reading, waiting, result, divided>>
      BY <1>1 DEF FunctionThrows, PrintInfinity, FunctionRead, Unbounded, Bounded
    <2>2. /\ pc' \in {"bounds", "integrate", "exited"}
          /\ pc \in {"function", "check"}
          /\ exitCode' \in {exitCode, 0, 1, 6}
      BY <1>1 DEF FunctionThrows, PrintInfinity, FunctionRead, Unbounded, Bounded, Exit
    <2> QED BY <1>0, <2>1, <2>2, ReadKept, WithoutResult DEF TypeInv, waiting, reading
  <1>2. CASE ReadFromFile \/ ReadFromStdin
    <2>1. /\ ReadBounds /\ UNCHANGED <<options, waiting, result, divided, exitCode>>
          /\ pc = "bounds" /\ pc' \in {"bounds", "check"}
      BY <1>2 DEF ReadFromFile, ReadFromStdin
    <2>2. Cardinality(DOMAIN bounds') \in Nat
      BY <2>1, ReadTypes, RecordedFinite
    <2> QED BY <1>0, <2>1, <2>2, ReadTypes, WithoutResult DEF waiting
  <1>3. CASE EndOfStdin
    <2>1. /\ stream' = AfterWord(stream) /\ pc = "bounds" /\ pc' = "check"
          /\ UNCHANGED <<options, lowerBound, upperBound, bounds, waiting, result, divided, exitCode>>
      BY <1>3 DEF EndOfStdin
    <2>2. stream' \in [next : 1 .. Len(input)' + 1, failed : BOOLEAN]
      <3>1. Len(input) \in Nat /\ input' = input /\ stream \in [next : 1 .. Len(input) + 1, failed : BOOLEAN]
        BY <2>1, Types DEF ScoreInv, TypeInv, ScoreTypeOK, options
      <3>2. Failed(stream) \in [next : 1 .. Len(input) + 1, failed : BOOLEAN]
        BY <3>1 DEF Failed
      <3>3. ~AtEnd(stream) => Advance(stream) \in [next : 1 .. Len(input) + 1, failed : BOOLEAN]
        BY <3>1 DEF AtEnd, Advance
      <3> QED BY <2>1, <3>1, <3>2, <3>3 DEF AfterWord
    <2>3. /\ lowerBound' \in IntTy /\ upperBound' \in IntTy
          /\ DOMAIN bounds' \subseteq paramsSet'
          /\ \A p \in DOMAIN bounds' : bounds'[p] \in IntTy \X IntTy
      BY <2>1 DEF TypeInv, ScoreTypeOK, paramsSet, options
    <2> QED BY <1>0, <2>1, <2>2, <2>3, WithoutResult DEF waiting
  <1> QED BY <1>1, <1>2, <1>3

\* The clock, the task, and the start of it.
LEMMA WaitingTyped ==
    ASSUME ScoreInv, TypeInv,
           \/ MonteCarloIntegration \/ BoundsThrow \/ WaitOneSecond \/ TaskEnds \/ PrintResult
           \/ UNCHANGED scoreVars
    PROVE  TypeInv'
  <1>1. /\ task \in {"none", "running", "ready"} /\ secondCount \in 0 .. maxtime /\ cancelled \in BOOLEAN
        /\ exitCode \in {-1, 0, 1, 6}
        /\ pc \in {"function", "bounds", "check", "integrate", "wait", "mean", "exited"}
    BY DEF TypeInv, ScoreTypeOK
  <1>2. UNCHANGED <<options, reading, result, divided>>
    BY DEF MonteCarloIntegration, BoundsThrow, WaitOneSecond, TaskEnds, PrintResult, scoreVars
  <1>3. /\ exitCode' \in {exitCode, 0, 6}
        /\ pc' \in {pc, "exited"} \/ (pc = "integrate" /\ pc' = "wait")
    <2>1. CASE MonteCarloIntegration
      BY <2>1 DEF MonteCarloIntegration
    <2>2. CASE BoundsThrow \/ PrintResult
      BY <2>2 DEF BoundsThrow, PrintResult, Exit
    <2>3. CASE WaitOneSecond \/ TaskEnds \/ UNCHANGED scoreVars
      BY <2>3 DEF WaitOneSecond, TaskEnds, scoreVars
    <2> QED BY <2>1, <2>2, <2>3
  <1>4. task' \in {"none", "running", "ready"}
    BY <1>1 DEF MonteCarloIntegration, BoundsThrow, WaitOneSecond, TaskEnds, PrintResult, scoreVars, waiting
  <1>5. secondCount' \in 0 .. maxtime /\ cancelled' \in BOOLEAN
    <2>1. CASE WaitOneSecond
      BY <1>1, <2>1, ScoreAssumption DEF WaitOneSecond
    <2>2. CASE ~WaitOneSecond
      BY <1>1, <2>2 DEF MonteCarloIntegration, BoundsThrow, TaskEnds, PrintResult, scoreVars, waiting
    <2> QED BY <2>1, <2>2
  <1> QED BY <1>1, <1>2, <1>3, <1>4, <1>5, ReadKept, WithoutResult DEF TypeInv, reading

\* A result, and the division of it.
LEMMA ResultTyped ==
    ASSUME ScoreInv, TypeInv,
           \/ IntegrateConstant \/ GaussKronrodIntegration \/ Unsupported \/ GetResult \/ DivideByWidth
    PROVE  TypeInv'
  <1>1. /\ UNCHANGED <<options, reading, waiting, exitCode>>
        /\ pc \in {"integrate", "wait", "mean"} /\ pc' = "mean"
    BY DEF IntegrateConstant, GaussKronrodIntegration, Unsupported, GetResult, DivideByWidth
  <1>2. DOMAIN bounds = paramsSet /\ ScoreTypeOK
    BY <1>1 DEF ScoreInv, Matched, TypeInv
  <1> DEFINE Results == [kind : {"none", "exact", "estimate", "nan"}, num : Int, den : Int \ {0}]
  <1>3. result' \in Results /\ divided' \in 0 .. Cardinality(DOMAIN bounds)
    <2>1. CASE IntegrateConstant \/ GaussKronrodIntegration
      <3>1. TwiceIntegral \in Int /\ 2 * func.const \in Int
        <4>1. TwiceIntegral \in Int
          BY <1>2, BoxVolume
        <4>2. PICK c \in Int : c = func.const
          BY <1>2, Integrand
        <4> QED BY <4>1, <4>2
      <3>2. result' \in {Exactly(TwiceIntegral), Exactly(2 * func.const)} /\ divided' = divided
        BY <2>1 DEF IntegrateConstant, GaussKronrodIntegration
      <3>3. result' \in Results
        BY <3>1, <3>2 DEF Exactly
      <3> QED BY <3>2, <3>3 DEF TypeInv, ScoreTypeOK
    <2>2. CASE Unsupported
      BY <2>2 DEF Unsupported, NoResult, TypeInv, ScoreTypeOK
    <2>3. CASE GetResult
      BY <2>3 DEF GetResult, Estimate, TypeInv, ScoreTypeOK
    <2>4. CASE DivideByWidth
      <3>1. PICK n \in Nat : n = Cardinality(DOMAIN bounds)
        BY <1>2, Listed
      <3>2. divided \in 0 .. n /\ divided < n /\ divided' = divided + 1
        BY <1>2, <2>4, <3>1, Vector DEF DivideByWidth, ScoreTypeOK
      <3>3. divided + 1 \in 1 .. n
        BY <3>2
      <3> DEFINE k == divided + 1
                 w == boundsVector[k][2] - boundsVector[k][1]
      <3>4. w \in Int
        <4> HIDE DEF k
        <4>1. boundsVector[k][2] \in Int /\ boundsVector[k][1] \in Int
          BY <1>2, <3>1, <3>3, Vector DEF k
        <4> QED BY <4>1
      <3>5. result' = IF WrapInt(w) = 0 THEN result ELSE [result EXCEPT !.den = @ * WrapInt(w)]
        BY <2>4 DEF DivideByWidth
      <3> HIDE DEF w
      <3>6. WrapInt(w) \in Int
        BY <3>4, Wrapped
      <3>7. result \in Results /\ result.den \in Int /\ result.den # 0
        BY <1>2 DEF ScoreTypeOK
      <3>8. \A a, b \in Int : a # 0 /\ b # 0 => a * b \in Int /\ a * b # 0
        OBVIOUS
      <3>9. WrapInt(w) # 0 => result.den * WrapInt(w) \in Int \ {0}
        BY <3>6, <3>7, <3>8
      <3>10. result' \in Results
        BY <3>5, <3>7, <3>9
      <3> QED BY <3>1, <3>2, <3>3, <3>10
    <2> QED BY <2>1, <2>2, <2>3, <2>4
  <1>4. divided' \in 0 .. Cardinality(DOMAIN bounds)'
    BY <1>1, <1>3 DEF reading
  <1>5. NoResultYet'
    BY <1>1 DEF NoResultYet
  <1>6. /\ task' \in {"none", "running", "ready"} /\ secondCount' \in 0 .. maxtime /\ cancelled' \in BOOLEAN
        /\ exitCode' \in {-1, 0, 1, 6}
    BY <1>1 DEF TypeInv, ScoreTypeOK, waiting
  <1> QED BY <1>1, <1>2, <1>3, <1>4, <1>5, <1>6, ReadKept DEF TypeInv, ScoreTypeOK

LEMMA TypesKept == ScoreInv /\ TypeInv /\ [ScoreNext]_scoreVars => TypeInv'
  BY ReadingTyped, WaitingTyped, ResultTyped DEF ScoreNext, ScoreStep

LEMMA TypeInvariant == ScoreSpec => []TypeInv
  <1> QED BY TypesStart, TypesKept, ScoreInvariant, PTL DEF ScoreSpec

\* Every variable stays in its type, for every function, input and choice of what
\* uninitialized ints hold; the denominator is never 0.
THEOREM ScoreTypeCorrect == ScoreSpec => []ScoreTypeOK
  <1>1. TypeInv => ScoreTypeOK
    BY DEF TypeInv
  <1> QED BY <1>1, TypeInvariant, PTL

--------------------------------------------------------------------------------
(* The mean. *)

\* All widths are positive ints.
Positive == \A i \in DOMAIN params : Widths[i] \in 1 .. MaxInt

\* While the result is divided, its denominator is the product of the widths of the
\* first intervals; when it is printed, of all.
Dividing ==
    pc = "mean" /\ result.kind = "exact" =>
        /\ result.num = TwiceIntegral
        /\ Positive => \E it : IsProduct(it, Widths, DOMAIN params) /\ result.den = it[1 .. divided]

Printed ==
    /\ exitCode = 0 => pc = "exited"
    /\ PrintsExact =>
          /\ func.kind = "finite" /\ DOMAIN bounds = paramsSet
          /\ Positive => result.num = result.den * Weighted

MeanInv == Dividing /\ Printed

\* What the invariant speaks of depends on the options and the bounds only.
LEMMA SameBox ==
    ASSUME UNCHANGED <<func, bounds>>
    PROVE  /\ paramsSet' = paramsSet /\ params' = params /\ boundsVector' = boundsVector
           /\ Widths' = Widths /\ Weighted' = Weighted /\ TwiceIntegral' = TwiceIntegral
           /\ Positive' <=> Positive
  BY DEF paramsSet, params, boundsVector, Widths, Terms, Weighted, TwiceIntegral, Positive

\* Before there is a result, nothing is to be shown of one.
LEMMA BeforeTheMean ==
    ASSUME ScoreInv, TypeInv, MeanInv,
           \/ FunctionThrows \/ PrintInfinity \/ FunctionRead
           \/ ReadFromFile \/ ReadFromStdin \/ EndOfStdin \/ Unbounded \/ Bounded
           \/ MonteCarloIntegration \/ BoundsThrow \/ WaitOneSecond
    PROVE  MeanInv'
  <1>1. result' = NoResult /\ result.kind # "exact"
    <2>1. pc \in {"function", "bounds", "check", "integrate", "wait"} /\ result' = result
      BY DEF FunctionThrows, PrintInfinity, FunctionRead, ReadFromFile, ReadFromStdin, EndOfStdin,
             Unbounded, Bounded, MonteCarloIntegration, BoundsThrow, WaitOneSecond
    <2>2. NoResult.kind # "exact"
      BY DEF NoResult
    <2> QED BY <2>1, <2>2 DEF TypeInv, NoResultYet
  <1>2. result'.kind # "exact"
    BY <1>1 DEF NoResult
  <1>3. exitCode' = 0 => pc' = "exited"
    <2>1. CASE FunctionThrows \/ PrintInfinity \/ Unbounded \/ BoundsThrow
      BY <2>1 DEF FunctionThrows, PrintInfinity, Unbounded, BoundsThrow, Exit
    <2>2. CASE \/ FunctionRead \/ ReadFromFile \/ ReadFromStdin \/ EndOfStdin \/ Bounded
               \/ MonteCarloIntegration \/ WaitOneSecond
      <3>1. exitCode' = exitCode /\ pc # "exited"
        BY <2>2 DEF FunctionRead, ReadFromFile, ReadFromStdin, EndOfStdin, Bounded,
                    MonteCarloIntegration, WaitOneSecond
      <3> QED BY <3>1 DEF MeanInv, Printed
    <2> QED BY <2>1, <2>2
  <1> QED BY <1>2, <1>3 DEF MeanInv, Dividing, Printed, PrintsExact

\* Twice the integral over a box is undivided; any other result is not exact.
LEMMA Integrated ==
    ASSUME ScoreInv, TypeInv, MeanInv,
           \/ IntegrateConstant \/ GaussKronrodIntegration \/ Unsupported \/ GetResult
    PROVE  MeanInv'
  <1>1. /\ UNCHANGED <<options, reading, divided, exitCode>>
        /\ pc \in {"integrate", "wait"} /\ pc' = "mean"
    BY DEF IntegrateConstant, GaussKronrodIntegration, Unsupported, GetResult
  <1>2. exitCode' # 0 /\ divided' = 0
    BY <1>1 DEF MeanInv, Printed, TypeInv, NoResultYet
  <1>3. Printed'
    BY <1>2 DEF Printed, PrintsExact
  <1>4. Dividing'
    <2> SUFFICES ASSUME result'.kind = "exact"
                 PROVE  /\ result'.num = TwiceIntegral'
                        /\ \E it : IsProduct(it, Widths, DOMAIN params)' /\ result'.den = it[1 .. divided']
      BY DEF Dividing
    <2>1. DOMAIN bounds = paramsSet /\ ScoreTypeOK
      BY <1>1 DEF ScoreInv, Matched, TypeInv
    <2>2. IntegrateConstant \/ GaussKronrodIntegration
      BY DEF Unsupported, GetResult, NoResult, Estimate
    <2>3. result' = Exactly(TwiceIntegral)
      <3>1. CASE IntegrateConstant
        BY <2>1, <3>1, BoxVolume DEF IntegrateConstant
      <3>2. CASE GaussKronrodIntegration
        BY <3>2 DEF GaussKronrodIntegration
      <3> QED BY <2>2, <3>1, <3>2
    <2>4. Widths' = Widths /\ params' = params /\ TwiceIntegral' = TwiceIntegral
      BY <1>1, SameBox DEF options, reading
    <2>5. PICK it : IsProduct(it, Widths, DOMAIN params)
      BY <2>1, BoxVolume
    <2>6. it[1 .. divided'] = 1
      <3>1. 1 .. divided' = {}
        BY <1>2
      <3> QED BY <2>5, <3>1 DEF IsProduct
    <2>7. IsProduct(it, Widths, DOMAIN params)'
      BY <2>4, <2>5 DEF IsProduct
    <2> QED BY <2>3, <2>4, <2>6, <2>7 DEF Exactly
  <1> QED BY <1>3, <1>4 DEF MeanInv

\* One more width (gpscat-score.cpp:202-206).
LEMMA DividedOnce ==
    ASSUME ScoreInv, TypeInv, MeanInv, DivideByWidth
    PROVE  MeanInv'
  <1>1. /\ UNCHANGED <<options, reading, exitCode>> /\ pc = "mean" /\ pc' = "mean"
        /\ divided < Len(boundsVector) /\ divided' = divided + 1
    BY DEF DivideByWidth
  <1>2. Printed'
    BY <1>1 DEF MeanInv, Printed, PrintsExact
  <1>3. DOMAIN bounds = paramsSet /\ ScoreTypeOK
    BY <1>1 DEF ScoreInv, Matched, TypeInv
  <1>4. /\ Widths' = Widths /\ params' = params /\ TwiceIntegral' = TwiceIntegral
        /\ Positive' <=> Positive
    BY <1>1, SameBox DEF options, reading
  <1> DEFINE k == divided + 1
             w == boundsVector[k][2] - boundsVector[k][1]
  <1>5. result' = IF WrapInt(w) = 0 THEN result ELSE [result EXCEPT !.den = @ * WrapInt(w)]
    BY DEF DivideByWidth
  <1>6. result \in [kind : {"none", "exact", "estimate", "nan"}, num : Int, den : Int \ {0}]
    BY <1>3 DEF ScoreTypeOK
  <1> HIDE DEF w
  <1>7. /\ result'.kind = result.kind /\ result'.num = result.num
        /\ WrapInt(w) # 0 => result'.den = result.den * WrapInt(w)
    BY <1>5, <1>6
  <1>8. ASSUME result.kind = "exact", Positive
        PROVE  \E it : IsProduct(it, Widths, DOMAIN params) /\ result'.den = it[1 .. divided']
    <2>1. PICK it : IsProduct(it, Widths, DOMAIN params) /\ result.den = it[1 .. divided]
      BY <1>1, <1>8 DEF MeanInv, Dividing
    <2>2. PICK n \in Nat : n = Cardinality(paramsSet) /\ DOMAIN params = 1 .. n
      BY <1>3, Integrand
    <2>3. divided \in Nat /\ divided < n
      BY <1>1, <1>3, <2>2, Vector DEF ScoreTypeOK
    <2>4. k \in DOMAIN params
      BY <2>2, <2>3
    <2>5. Widths[k] \in 1 .. MaxInt
      BY <1>8, <2>4 DEF Positive
    <2>6. w = Widths[k]
      BY <2>4 DEF Widths, w
    <2>7. WrapInt(w) = w /\ w # 0
      <3>1. PICK m \in Nat : m = MaxInt
        BY ScoreAssumption
      <3>2. w \in 1 .. m
        BY <2>5, <2>6, <3>1
      <3>3. w \in Int /\ w \in -(m + 1) .. m /\ w # 0
        BY <3>2
      <3> QED BY <3>1, <3>3, Wrapped DEF IntTy
    <2>8. 1 .. k \subseteq DOMAIN params /\ k \in 1 .. k /\ (1 .. k) \ {k} = 1 .. divided
      BY <2>2, <2>3
    <2>9. it[1 .. k] = Widths[k] * it[1 .. divided]
      <3> HIDE DEF k
      <3> QED BY <2>1, <2>8 DEF IsProduct
    <2>10. it[1 .. divided] \in Int /\ Widths[k] \in Int
      <3>1. 1 .. divided \in SUBSET (DOMAIN params)
        BY <2>8
      <3> QED BY <2>1, <2>4, <3>1, <1>3, Integrand DEF IsProduct
    <2>11. PICK a, b \in Int : a = it[1 .. divided] /\ b = Widths[k]
      BY <2>10
    <2>12. result'.den = a * b /\ it[1 .. k] = b * a
      <3> HIDE DEF k
      <3> QED BY <1>7, <2>1, <2>6, <2>7, <2>9, <2>11
    <2>13. a * b = b * a
      OBVIOUS
    <2>14. divided' = k
      BY <1>1
    <2> HIDE DEF k
    <2> QED BY <2>1, <2>12, <2>13, <2>14
  <1>9. Dividing'
    <2> SUFFICES ASSUME result'.kind = "exact"
                 PROVE  /\ result'.num = TwiceIntegral'
                        /\ Positive' => \E it : IsProduct(it, Widths, DOMAIN params)'
                                                /\ result'.den = it[1 .. divided']
      BY DEF Dividing
    <2>1. result'.num = TwiceIntegral'
      BY <1>1, <1>4, <1>7 DEF MeanInv, Dividing
    <2>2. ASSUME Positive'
          PROVE  \E it : IsProduct(it, Widths, DOMAIN params)' /\ result'.den = it[1 .. divided']
      <3>1. PICK it : IsProduct(it, Widths, DOMAIN params) /\ result'.den = it[1 .. divided']
        BY <1>4, <1>7, <1>8, <2>2
      <3>2. IsProduct(it, Widths, DOMAIN params)'
        BY <1>4, <3>1 DEF IsProduct
      <3> QED BY <3>1, <3>2
    <2> QED BY <2>1, <2>2
  <1> QED BY <1>2, <1>9 DEF MeanInv

\* All widths have divided the result: it is the sum over the intervals' ends.
LEMMA PrintedMean ==
    ASSUME ScoreInv, TypeInv, MeanInv, PrintResult
    PROVE  MeanInv'
  <1>1. /\ UNCHANGED <<options, reading, result, divided>> /\ pc = "mean" /\ pc' = "exited"
        /\ divided = Len(boundsVector)
    BY DEF PrintResult, Exit
  <1>2. DOMAIN bounds = paramsSet /\ ScoreTypeOK /\ func.kind = "finite"
    BY <1>1 DEF ScoreInv, Matched, Finite, TypeInv
  <1>3. /\ paramsSet' = paramsSet /\ Weighted' = Weighted /\ (Positive' <=> Positive)
    BY <1>1, SameBox DEF options, reading
  <1>4. ASSUME result.kind = "exact", Positive PROVE result.num = result.den * Weighted
    <2>1. PICK it : IsProduct(it, Widths, DOMAIN params) /\ result.den = it[1 .. divided]
      BY <1>1, <1>4 DEF MeanInv, Dividing
    <2>2. PICK jt : IsProduct(jt, Widths, DOMAIN params) /\ TwiceIntegral = jt[DOMAIN params] * Weighted
      BY <1>2, BoxVolume
    <2>3. DOMAIN params = 1 .. divided /\ IsFiniteSet(DOMAIN params)
      BY <1>1, <1>2, Vector, Integrand, BoxVolume
    <2>4. it[DOMAIN params] = jt[DOMAIN params]
      BY <2>1, <2>2, <2>3, ProductUnique
    <2>5. result.num = TwiceIntegral
      BY <1>1, <1>4 DEF MeanInv, Dividing
    <2> QED BY <2>1, <2>2, <2>3, <2>4, <2>5
  <1>5. Dividing'
    BY <1>1 DEF Dividing
  <1>6. Printed'
    BY <1>1, <1>2, <1>3, <1>4 DEF Printed, PrintsExact, options, reading
  <1> QED BY <1>5, <1>6 DEF MeanInv

LEMMA MeanKept == ScoreInv /\ TypeInv /\ MeanInv /\ [ScoreNext]_scoreVars => MeanInv'
  <1> SUFFICES ASSUME ScoreInv, TypeInv, MeanInv, [ScoreNext]_scoreVars PROVE MeanInv'
    OBVIOUS
  <1>1. CASE TaskEnds \/ UNCHANGED scoreVars
    <2>1. UNCHANGED <<func, bounds, result, divided, exitCode, pc>>
      BY <1>1 DEF TaskEnds, scoreVars, options, reading
    <2>2. Printed'
      BY <2>1, SameBox DEF MeanInv, Printed, PrintsExact
    <2>3. Dividing'
      <3> SUFFICES ASSUME pc' = "mean", result'.kind = "exact"
                   PROVE  /\ result'.num = TwiceIntegral'
                          /\ Positive' => \E it : IsProduct(it, Widths, DOMAIN params)'
                                                  /\ result'.den = it[1 .. divided']
        BY DEF Dividing
      <3>1. /\ Widths' = Widths /\ params' = params /\ TwiceIntegral' = TwiceIntegral
            /\ Positive' <=> Positive
        BY <2>1, SameBox
      <3>2. ASSUME Positive'
            PROVE  \E it : IsProduct(it, Widths, DOMAIN params)' /\ result'.den = it[1 .. divided']
        <4>1. PICK it : IsProduct(it, Widths, DOMAIN params) /\ result.den = it[1 .. divided]
          BY <2>1, <3>1, <3>2 DEF MeanInv, Dividing
        <4>2. IsProduct(it, Widths, DOMAIN params)'
          BY <3>1, <4>1 DEF IsProduct
        <4> QED BY <2>1, <4>1, <4>2
      <3> QED BY <2>1, <3>1, <3>2 DEF MeanInv, Dividing
    <2> QED BY <2>2, <2>3 DEF MeanInv
  <1> QED BY <1>1, BeforeTheMean, Integrated, DividedOnce, PrintedMean DEF ScoreNext, ScoreStep

LEMMA MeanStarts == ScoreInit => MeanInv
  BY DEF ScoreInit, MeanInv, Dividing, Printed, PrintsExact

LEMMA MeanInvariant == ScoreSpec => []MeanInv
  <1> QED BY MeanStarts, MeanKept, ScoreInvariant, TypeInvariant, PTL DEF ScoreSpec

\* The sum over positions is that over the parameters, as each position has its own.
LEMMA SumOverParameters ==
    ASSUME ScoreInv, ScoreTypeOK, DOMAIN bounds = paramsSet, \A p \in paramsSet : bounds[p] = GivenBounds(p)
    PROVE  /\ \A i \in DOMAIN params : /\ params[i] \in paramsSet
                                       /\ boundsVector[i] = GivenBounds(params[i])
           /\ SumFunction(Terms)
                = SumFunction([p \in paramsSet |-> func.coef[p] * (GivenBounds(p)[1] + GivenBounds(p)[2])])
  <1> DEFINE other == [p \in paramsSet |-> func.coef[p] * (GivenBounds(p)[1] + GivenBounds(p)[2])]
             n == Cardinality(paramsSet)
  <1>1. params \in Bijection(DOMAIN params, paramsSet) /\ DOMAIN params = 1 .. n /\ IsFiniteSet(DOMAIN params)
    BY Listed, Integrand, BoxVolume DEF params
  <1>2. \A i \in DOMAIN params : params[i] \in paramsSet /\ boundsVector[i] = GivenBounds(params[i])
    <2>1. \A i \in 1 .. n : Ordered(DOMAIN bounds)[i] \in DOMAIN bounds
                            /\ boundsVector[i] = bounds[Ordered(DOMAIN bounds)[i]]
      BY Vector
    <2> QED BY <1>1, <2>1 DEF params
  <1>3. \A i \in DOMAIN params : Terms[i] = other[params[i]] /\ Terms[i] \in Int
    BY <1>2, Integrand DEF Terms
  <1>4. \A p \in paramsSet : other[p] \in Int
    <2> SUFFICES ASSUME NEW p \in paramsSet PROVE other[p] \in Int
      OBVIOUS
    <2>1. PICK i \in DOMAIN params : params[i] = p
      BY <1>1 DEF Bijection, Surjection
    <2> HIDE DEF other
    <2> QED BY <1>3, <2>1
  <1>5. DOMAIN other = paramsSet /\ DOMAIN Terms = DOMAIN params
    BY DEF Terms
  <1> HIDE DEF other
  <1>6. SumFunctionOnSet(Terms, DOMAIN params) = SumFunctionOnSet(other, paramsSet)
    <2>1. PICK D, q : D = DOMAIN params /\ q = params
      OBVIOUS
    <2>2. q \in Bijection(D, paramsSet) /\ IsFiniteSet(D)
      BY <1>1, <2>1
    <2>3. (\A p \in paramsSet : other[p] \in Int) /\ (\A i \in D : Terms[i] = other[q[i]])
      BY <1>3, <1>4, <2>1
    <2>4. SumFunctionOnSet(Terms, D) = SumFunctionOnSet(other, paramsSet)
      BY ONLY <2>2, <2>3, SumAlong
    <2> QED BY <2>1, <2>4
  <1>7. SumFunction(Terms) = SumFunction(other)
    BY <1>5, <1>6 DEF SumFunction
  <1> QED BY <1>2, <1>7 DEF other

\* What is printed for an affine function is its mean over the box the input gives, for
\* every number of parameters, if all widths are positive ints: intervals and parameters
\* are not mixed up, and each width divides the integral once (gpscat-score.cpp:107-114,
\* 195-209).
THEOREM MeanPrinted == ScoreSpec => []MeanIsExact
  <1>1. ScoreInv /\ TypeInv /\ MeanInv /\ BoundsAsGiven => MeanIsExact
    <2> SUFFICES ASSUME ScoreInv, TypeInv, MeanInv, BoundsAsGiven, PrintsExact, boundsFile \/ WellFormed,
                        \A p \in paramsSet : GivenBounds(p)[2] - GivenBounds(p)[1] \in 1 .. MaxInt
                 PROVE  IsMean
      BY DEF MeanIsExact
    <2>1. /\ pc = "exited" /\ func.kind = "finite" /\ DOMAIN bounds = paramsSet
          /\ Positive => result.num = result.den * Weighted
      BY DEF MeanInv, Printed, PrintsExact
    <2>2. \A p \in paramsSet : bounds[p] = GivenBounds(p)
      BY <2>1 DEF BoundsAsGiven
    <2>3. /\ \A i \in DOMAIN params : params[i] \in paramsSet /\ boundsVector[i] = GivenBounds(params[i])
          /\ SumFunction(Terms)
               = SumFunction([p \in paramsSet |-> func.coef[p] * (GivenBounds(p)[1] + GivenBounds(p)[2])])
      BY <2>1, <2>2, SumOverParameters DEF TypeInv
    <2>4. Positive
      BY <2>3 DEF Positive, Widths
    <2>5. Weighted = 2 * func.const
                     + SumFunction([p \in paramsSet |-> func.coef[p] * (GivenBounds(p)[1] + GivenBounds(p)[2])])
      BY <2>3 DEF Weighted
    <2> QED BY <2>1, <2>4, <2>5 DEF IsMean
  <1> QED BY <1>1, ScoreInvariant, TypeInvariant, MeanInvariant, BoundsRecordedAsGiven, PTL

================================================================================
