---------------------------- MODULE IRLocatorProofs ----------------------------
(***************************************************************************)
(* Proofs about IRLocator, for every module: debugify leaves the program   *)
(* itself alone and the module usable between any two steps, describes     *)
(* each value once, and the lines IRLocator leaves behind count the        *)
(* instructions in program order.                                          *)
(*                                                                         *)
(* The passes edit the list they walk.  The proof keeps apart what they    *)
(* change and what they do not: the body of a block is what is left of it  *)
(* without debug intrinsics, and it is the body that the lines number.     *)
(***************************************************************************)
EXTENDS IRLocator, Counting, SequenceTheorems

--------------------------------------------------------------------------------
(* Sequences with an entry more. *)

\* t is s with an entry put in at place at.
Widened(s, t, at) ==
    /\ Len(t) = Len(s) + 1 /\ at \in 1 .. Len(t)
    /\ \A i \in 1 .. Len(s) : i < at => t[i] = s[i]
    /\ \A i \in 1 .. Len(s) : i >= at => t[i + 1] = s[i]

\* Inserting an entry moves those from its place on by one, and changes none
\* (SequencesExt, InsertAt).
LEMMA Inserted ==
    ASSUME NEW S, NEW s \in Seq(S), NEW e \in S, NEW at \in 1 .. Len(s) + 1
    PROVE  /\ InsertAt(s, at, e) \in Seq(S)
           /\ Widened(s, InsertAt(s, at, e), at)
           /\ InsertAt(s, at, e)[at] = e
  <1> DEFINE front == SubSeq(s, 1, at - 1)
             back == SubSeq(s, at, Len(s))
  <1>0. Len(s) \in Nat /\ \A i \in 1 .. Len(s) : s[i] \in S
    BY LenProperties, ElementOfSeq
  <1>1. /\ front \in Seq(S) /\ Len(front) = at - 1
        /\ \A i \in 1 .. at - 1 : front[i] = s[i]
    BY <1>0, SubSeqProperties, 1 \in Int, at - 1 \in Int
  <1>2. /\ back \in Seq(S) /\ Len(back) = Len(s) - at + 1
        /\ \A i \in 1 .. Len(s) - at + 1 : back[i] = s[at + i - 1]
    BY <1>0, SubSeqProperties
  <1>3. <<e>> \in Seq(S) /\ Len(<<e>>) = 1 /\ <<e>>[1] = e
    OBVIOUS
  <1> HIDE DEF front, back
  <1>4. /\ front \o <<e>> \in Seq(S) /\ Len(front \o <<e>>) = at
        /\ \A i \in 1 .. at : (front \o <<e>>)[i] = IF i < at THEN s[i] ELSE e
    BY <1>1, <1>3, ConcatProperties
  <1> DEFINE head == front \o <<e>>
             t == InsertAt(s, at, e)
  <1>5. t = head \o back
    BY DEF InsertAt, front, back
  <1>4a. /\ head \in Seq(S) /\ Len(head) = at
         /\ \A i \in 1 .. at : head[i] = IF i < at THEN s[i] ELSE e
    BY <1>4
  <1> HIDE DEF head, t
  <1>6. /\ t \in Seq(S) /\ Len(t) = Len(head) + Len(back)
        /\ \A i \in 1 .. Len(head) + Len(back) :
              t[i] = IF i <= Len(head) THEN head[i] ELSE back[i - Len(head)]
    BY <1>2, <1>4a, <1>5, ConcatProperties
  <1>8. Len(t) = Len(s) + 1
    BY <1>0, <1>2, <1>4a, <1>6
  <1>7. ASSUME NEW i \in 1 .. Len(s) + 1
        PROVE  t[i] = IF i < at THEN s[i] ELSE IF i = at THEN e ELSE s[i - 1]
    <2>1. CASE i <= at
      BY <1>0, <1>2, <1>4a, <1>6, <2>1
    <2>2. CASE i > at
      <3>1. i - at \in 1 .. Len(s) - at + 1 /\ at + (i - at) - 1 = i - 1
        BY <1>0, <2>2
      <3>2. back[i - at] = s[i - 1]
        BY <1>2, <3>1
      <3> QED BY <1>0, <1>2, <1>4a, <1>6, <2>2, <3>2
    <2> QED BY <1>0, <2>1, <2>2
  <1> QED BY <1>0, <1>6, <1>7, <1>8 DEF Widened, t

\* Removing an entry leaves a sequence the old one has an entry more than
\* (SequencesExt, RemoveAt).
LEMMA Removed ==
    ASSUME NEW S, NEW s \in Seq(S), NEW at \in 1 .. Len(s)
    PROVE  RemoveAt(s, at) \in Seq(S) /\ Widened(RemoveAt(s, at), s, at)
  <1> DEFINE front == SubSeq(s, 1, at - 1)
             back == SubSeq(s, at + 1, Len(s))
  <1>0. Len(s) \in Nat /\ \A i \in 1 .. Len(s) : s[i] \in S
    BY LenProperties, ElementOfSeq
  <1>1. /\ front \in Seq(S) /\ Len(front) = at - 1
        /\ \A i \in 1 .. at - 1 : front[i] = s[i]
    BY <1>0, SubSeqProperties, 1 \in Int, at - 1 \in Int
  <1>2. /\ back \in Seq(S) /\ Len(back) = Len(s) - at
        /\ \A i \in 1 .. Len(s) - at : back[i] = s[at + i]
    BY <1>0, SubSeqProperties, at + 1 \in Int
  <1> HIDE DEF front, back
  <1> DEFINE t == RemoveAt(s, at)
  <1>3. t = front \o back
    BY DEF RemoveAt, front, back
  <1> HIDE DEF t
  <1>4. /\ t \in Seq(S) /\ Len(t) = Len(front) + Len(back)
        /\ \A i \in 1 .. Len(front) + Len(back) :
              t[i] = IF i <= Len(front) THEN front[i] ELSE back[i - Len(front)]
    BY <1>1, <1>2, <1>3, ConcatProperties
  <1>5. Len(t) = Len(s) - 1
    BY <1>0, <1>1, <1>2, <1>4
  <1>6. ASSUME NEW i \in 1 .. Len(t) PROVE t[i] = IF i < at THEN s[i] ELSE s[i + 1]
    <2>1. CASE i < at
      BY <1>0, <1>1, <1>2, <1>4, <1>5, <2>1
    <2>2. CASE i >= at
      <3>1. i - (at - 1) \in 1 .. Len(s) - at /\ at + (i - (at - 1)) = i + 1
        BY <1>0, <1>5, <2>2
      <3>2. back[i - (at - 1)] = s[i + 1]
        BY <1>2, <3>1
      <3> QED BY <1>0, <1>1, <1>2, <1>4, <1>5, <2>2, <3>2
    <2> QED BY <1>0, <2>1, <2>2
  <1> QED BY <1>0, <1>4, <1>5, <1>6 DEF Widened, t

--------------------------------------------------------------------------------
(* The body of a block. *)
\* The places of a block and of its body are finitely many numbers.
LEMMA BodyFinite ==
    ASSUME NEW S, NEW s \in Seq(S)
    PROVE  /\ BodyOf(s) \subseteq 1 .. Len(s) /\ BodyOf(s) \subseteq Int /\ Len(s) \in Nat
           /\ IsFiniteSet(BodyOf(s)) /\ DOMAIN s = 1 .. Len(s)
  <1>1. DOMAIN s = 1 .. Len(s) /\ Len(s) \in Nat
    BY LenProperties
  <1>2. BodyOf(s) \in SUBSET (1 .. Len(s))
    BY <1>1 DEF BodyOf
  <1>3. IsFiniteSet(1 .. Len(s))
    BY <1>1, FS_Interval
  <1> QED BY <1>1, <1>2, <1>3, FS_Subset

\* A body keeps the instructions of a block in their order.
LEMMA BodyInOrder ==
    ASSUME NEW S, NEW s \in Seq(S)
    PROVE  /\ WithoutDbg(s) \in Seq(S) /\ Len(WithoutDbg(s)) \in Nat
           /\ Len(WithoutDbg(s)) = Cardinality(BodyOf(s))
           /\ DOMAIN WithoutDbg(s) = 1 .. Len(WithoutDbg(s))
           /\ \A i \in BodyOf(s) : /\ PlaceInBody(s, i) \in 1 .. Len(WithoutDbg(s))
                                   /\ WithoutDbg(s)[PlaceInBody(s, i)] = s[i]
           /\ \A i, j \in BodyOf(s) : i < j <=> PlaceInBody(s, i) < PlaceInBody(s, j)
           /\ \A k \in 1 .. Len(WithoutDbg(s)) : \E i \in BodyOf(s) : PlaceInBody(s, i) = k
  <1> DEFINE B == BodyOf(s)
             n == Cardinality(B)
             w == WithoutDbg(s)
  <1>0. B \subseteq 1 .. Len(s) /\ B \subseteq Int /\ IsFiniteSet(B) /\ DOMAIN s = 1 .. Len(s)
    BY BodyFinite
  <1>1. ASSUME NEW i PROVE PlaceInBody(s, i) = Cardinality(UpTo(B, i))
    BY DEF PlaceInBody, UpTo
  <1>2. /\ n \in Nat
        /\ \A i \in B : PlaceInBody(s, i) \in 1 .. n
        /\ \A k \in 1 .. n : \E i \in B : PlaceInBody(s, i) = k
    BY <1>0, <1>1, PlacesTaken
  <1>3. \A i, j \in B : i < j => PlaceInBody(s, i) < PlaceInBody(s, j)
    BY <1>0, <1>1, UpToSmaller
  <1>4. \A i, j \in B : PlaceInBody(s, i) = PlaceInBody(s, j) => i = j
    <2> SUFFICES ASSUME NEW i \in B, NEW j \in B, PlaceInBody(s, i) = PlaceInBody(s, j)
                 PROVE  i = j
      OBVIOUS
    <2>1. i \in Int /\ j \in Int /\ PlaceInBody(s, i) \in Int
      BY <1>0, <1>2
    <2>2. ~(i < j) /\ ~(j < i)
      BY <1>3, <2>1
    <2> QED BY <2>1, <2>2
  <1>5. w = [k \in 1 .. n |-> s[CHOOSE i \in B : PlaceInBody(s, i) = k]]
    BY DEF WithoutDbg
  <1>6. ASSUME NEW k \in 1 .. n
        PROVE  /\ (CHOOSE i \in B : PlaceInBody(s, i) = k) \in B
               /\ PlaceInBody(s, CHOOSE i \in B : PlaceInBody(s, i) = k) = k
    BY <1>2
  <1>7. \A i \in B : (CHOOSE j \in B : PlaceInBody(s, j) = PlaceInBody(s, i)) = i
    BY <1>4
  <1>8. \A i \in B : s[i] \in S
    BY <1>0, ElementOfSeq
  <1> HIDE DEF B, w, n
  <1>9. w \in [1 .. n -> S]
    BY <1>5, <1>6, <1>8
  <1>10. w \in Seq(S) /\ Len(w) = n /\ DOMAIN w = 1 .. n
    BY <1>2, <1>9, SeqDef
  <1>11. \A i \in B : w[PlaceInBody(s, i)] = s[i]
    BY <1>2, <1>5, <1>7
  <1>12. \A i, j \in B : i < j <=> PlaceInBody(s, i) < PlaceInBody(s, j)
    <2> SUFFICES ASSUME NEW i \in B, NEW j \in B, PlaceInBody(s, i) < PlaceInBody(s, j)
                 PROVE  i < j
      BY <1>3
    <2>1. i \in Int /\ j \in Int /\ PlaceInBody(s, i) \in Int /\ PlaceInBody(s, j) \in Int
      BY <1>0, <1>2
    <2>2. ~(j < i) /\ ~(i = j)
      BY <1>3, <2>1
    <2> QED BY <2>1, <2>2
  <1> QED BY <1>2, <1>10, <1>11, <1>12 DEF B, n, w

Past(at, i) == IF i < at THEN i ELSE i + 1

\* A debug intrinsic more or less leaves the body of a block as it is.
LEMMA BodyWidened ==
    ASSUME NEW S, NEW s \in Seq(S), NEW t \in Seq(S), NEW at \in Nat,
           Widened(s, t, at), t[at].kind = "dbg"
    PROVE  /\ \A i \in 1 .. Len(s) : Past(at, i) \in 1 .. Len(t) /\ t[Past(at, i)] = s[i]
           /\ \A j \in 1 .. Len(t) : j # at => \E i \in 1 .. Len(s) : j = Past(at, i)
           /\ \A i \in 1 .. Len(s) : i \in BodyOf(s) <=> Past(at, i) \in BodyOf(t)
           /\ at \notin BodyOf(t)
           /\ WithoutDbg(t) = WithoutDbg(s)
  <1> DEFINE B == BodyOf(s)
             C == BodyOf(t)
  <1>0. /\ B \subseteq 1 .. Len(s) /\ C \subseteq 1 .. Len(t) /\ Len(s) \in Nat
        /\ DOMAIN s = 1 .. Len(s) /\ DOMAIN t = 1 .. Len(t)
        /\ IsFiniteSet(B) /\ IsFiniteSet(C)
    BY BodyFinite
  <1>1. \A i \in 1 .. Len(s) : Past(at, i) \in 1 .. Len(t) /\ t[Past(at, i)] = s[i]
    BY <1>0 DEF Widened, Past
  <1>2. ASSUME NEW j \in 1 .. Len(t), j # at PROVE \E i \in 1 .. Len(s) : j = Past(at, i)
    <2>1. CASE j < at
      BY <1>0, <2>1 DEF Widened, Past
    <2>2. CASE j > at
      <3>1. j - 1 \in 1 .. Len(s) /\ j = Past(at, j - 1)
        BY <1>0, <2>2 DEF Widened, Past
      <3> QED BY <3>1
    <2> QED BY <1>0, <1>2, <2>1, <2>2 DEF Widened
  <1>3. at \notin C
    BY <1>0 DEF BodyOf
  <1>4. \A i \in 1 .. Len(s) : i \in B <=> Past(at, i) \in C
    BY <1>0, <1>1 DEF BodyOf
  <1>5. \A i, j \in 1 .. Len(s) : i <= j <=> Past(at, i) <= Past(at, j)
    BY <1>0 DEF Past
  <1>6. \A i \in B : i \in Int /\ i \in 1 .. Len(s)
    BY <1>0
  <1>7. ASSUME NEW D, D \subseteq 1 .. Len(s), NEW E, E \subseteq 1 .. Len(t), IsFiniteSet(D),
               \A i \in 1 .. Len(s) : i \in D <=> Past(at, i) \in E, at \notin E
        PROVE  Cardinality(D) = Cardinality(E)
    <2> DEFINE f == [i \in D |-> Past(at, i)]
    <2>1. f \in [D -> E]
      BY <1>7
    <2>2. \A i, j \in D : f[i] = f[j] => i = j
      BY <1>0, <1>7 DEF Past
    <2>3. \A j \in E : \E i \in D : f[i] = j
      BY <1>2, <1>7
    <2> HIDE DEF f
    <2>4. f \in Bijection(D, E)
      BY <2>1, <2>2, <2>3 DEF Bijection, Injection, Surjection, IsInjective
    <2> QED BY <1>7, <2>4, FS_Bijection DEF ExistsBijection
  <1>8. ASSUME NEW i \in 1 .. Len(s) PROVE PlaceInBody(s, i) = PlaceInBody(t, Past(at, i))
    <2> DEFINE D == {j \in B : j <= i}
               E == {j \in C : j <= Past(at, i)}
    <2>1. D \subseteq 1 .. Len(s) /\ E \subseteq 1 .. Len(t) /\ at \notin E
      BY <1>0, <1>3
    <2>2. IsFiniteSet(D)
      BY <1>0, FS_Subset
    <2>3. \A j \in 1 .. Len(s) : j \in D <=> Past(at, j) \in E
      BY <1>4, <1>5
    <2> HIDE DEF D, E
    <2>4. Cardinality(D) = Cardinality(E)
      BY <1>7, <2>1, <2>2, <2>3
    <2> QED BY <2>4 DEF PlaceInBody, D, E
  <1>9. Cardinality(B) = Cardinality(C)
    BY <1>0, <1>3, <1>4, <1>7
  <1>10. WithoutDbg(t) = WithoutDbg(s)
    <2> DEFINE v == WithoutDbg(s)
               w == WithoutDbg(t)
    <2>1. v \in Seq(S) /\ w \in Seq(S) /\ Len(v) \in Nat
      BY BodyInOrder
    <2>2. Len(v) = Len(w)
      BY <1>9, BodyInOrder
    <2>3. ASSUME NEW k \in 1 .. Len(v) PROVE v[k] = w[k]
      <3>1. PICK i \in B : PlaceInBody(s, i) = k
        BY BodyInOrder
      <3>2. Past(at, i) \in C /\ PlaceInBody(t, Past(at, i)) = k
        BY <1>4, <1>6, <1>8, <3>1
      <3>3. v[k] = s[i]
        BY <3>1, BodyInOrder
      <3>4. w[k] = t[Past(at, i)]
        BY <3>2, BodyInOrder
      <3> QED BY <1>1, <1>6, <3>3, <3>4
    <2> HIDE DEF v, w
    <2>4. v = w
      BY <2>1, <2>2, <2>3, SeqEqual
    <2> QED BY <2>4 DEF v, w
  <1> QED BY <1>1, <1>2, <1>3, <1>4, <1>10


\* A block without intrinsics is its body.
LEMMA AllBody ==
    ASSUME NEW S, NEW s \in Seq(S), \A i \in DOMAIN s : s[i].kind # "dbg"
    PROVE  WithoutDbg(s) = s
  <1>0. Len(s) \in Nat
    BY BodyFinite
  <1>1. BodyOf(s) = 1 .. Len(s)
    BY BodyFinite DEF BodyOf
  <1>2. ASSUME NEW i \in 1 .. Len(s) PROVE PlaceInBody(s, i) = i
    <2>1. {j \in BodyOf(s) : j <= i} = 1 .. i
      BY <1>0, <1>1
    <2>2. Cardinality(1 .. i) = i
      BY FS_Interval, 1 \in Int, i \in Int, <1>0
    <2> QED BY <2>1, <2>2 DEF PlaceInBody
  <1>3. Cardinality(BodyOf(s)) = Len(s)
    <2>1. Cardinality(1 .. Len(s)) = Len(s)
      BY <1>0, FS_Interval, 1 \in Int, Len(s) \in Int
    <2> QED BY <1>1, <2>1
  <1>4. Len(WithoutDbg(s)) = Len(s) /\ WithoutDbg(s) \in Seq(S)
    BY <1>3, BodyInOrder
  <1>5. \A i \in 1 .. Len(s) : WithoutDbg(s)[i] = s[i]
    BY <1>1, <1>2, BodyInOrder
  <1> QED BY <1>4, <1>5, SeqEqual

--------------------------------------------------------------------------------
(* What a block is made of. *)
\* FindTerminatingInstruction finds a terminator or a musttail call, behind the phis
\* (Debugify.cpp:51-61).
LEMMA Terminating ==
    ASSUME NEW S, NEW s \in Seq(S), WellFormed(s)
    PROVE  /\ Len(s) \in Nat /\ Len(s) >= 1 /\ DOMAIN s = 1 .. Len(s)
           /\ FindTerminatingInstruction(s) \in 1 .. Len(s)
           /\ FindTerminatingInstruction(s) >= Len(s) - 1
           /\ s[FindTerminatingInstruction(s)].kind \in {"term", "musttail"}
           /\ \A i \in 1 .. Len(s) : i < FindTerminatingInstruction(s) =>
                 s[i].kind \notin {"term", "musttail"}
           /\ \A i \in 1 .. Len(s) : s[i].kind = "phi" => i < FindTerminatingInstruction(s)
  <1>1. Len(s) \in Nat
    BY BodyFinite
  <1>7. DOMAIN s = 1 .. Len(s)
    BY BodyFinite
  <1>2. Len(s) # 0
    BY EmptySeq DEF WellFormed
  <1>3. Len(s) >= 1
    BY <1>1, <1>2
  <1>4. /\ \A i \in 1 .. Len(s) : s[i].kind = "phi" => \A j \in 1 .. i : s[j].kind = "phi"
        /\ \A i \in 1 .. Len(s) : s[i].kind = "musttail" => i + 1 = Len(s)
        /\ \A i \in 1 .. Len(s) : s[i].kind = "term" <=> i = Len(s)
    BY <1>7 DEF WellFormed
  <1> DEFINE l == FindTerminatingInstruction(s)
  <1>5. CASE Len(s) > 1 /\ s[Len(s) - 1].kind = "musttail"
    <2>1. l = Len(s) - 1
      BY <1>5 DEF FindTerminatingInstruction
    <2> HIDE DEF l
    <2>2. l \in 1 .. Len(s) /\ s[l].kind = "musttail"
      BY <1>1, <1>5, <2>1
    <2>3. \A i \in 1 .. Len(s) : i < l => s[i].kind \notin {"term", "musttail"}
      BY <1>1, <1>4, <2>1
    <2>4. ASSUME NEW i \in 1 .. Len(s), s[i].kind = "phi", ~(i < l) PROVE FALSE
      <3>1. l \in 1 .. i
        BY <1>1, <2>2, <2>4
      <3> QED BY <1>4, <2>2, <2>4, <3>1
    <2> QED BY <1>1, <1>3, <2>1, <2>2, <2>3, <2>4, <1>7 DEF l
  <1>6. CASE ~(Len(s) > 1 /\ s[Len(s) - 1].kind = "musttail")
    <2>1. l = Len(s)
      BY <1>6 DEF FindTerminatingInstruction
    <2> HIDE DEF l
    <2>2. l \in 1 .. Len(s) /\ s[l].kind = "term"
      BY <1>1, <1>3, <1>4, <2>1
    <2>3. ASSUME NEW i \in 1 .. Len(s), i < l, s[i].kind \in {"term", "musttail"} PROVE FALSE
      <3>1. s[i].kind = "musttail"
        BY <1>1, <1>4, <2>1, <2>3
      <3>2. i + 1 = Len(s)
        BY <1>4, <3>1
      <3>3. i = Len(s) - 1 /\ Len(s) > 1
        BY <1>1, <3>2
      <3> QED BY <1>6, <3>1, <3>3
    <2>4. ASSUME NEW i \in 1 .. Len(s), s[i].kind = "phi", ~(i < l) PROVE FALSE
      <3>1. i = Len(s)
        BY <1>1, <2>1, <2>4
      <3> QED BY <2>1, <2>2, <2>4, <3>1
    <2> QED BY <1>1, <1>3, <2>1, <2>2, <2>3, <2>4, <1>7 DEF l
  <1> QED BY <1>5, <1>6

\* A debug value between the phis and the terminating instruction breaks nothing.
LEMMA WellFormedInserted ==
    ASSUME NEW S, NEW s \in Seq(S), NEW t \in Seq(S), NEW at \in Nat,
           Widened(s, t, at), t[at].kind = "dbg", WellFormed(s),
           at <= FindTerminatingInstruction(s),
           \A i \in DOMAIN s : s[i].kind = "phi" => i < at
    PROVE  /\ WellFormed(t)
           /\ FindTerminatingInstruction(t) = FindTerminatingInstruction(s) + 1
           /\ IsEHPad(t) <=> IsEHPad(s)
  <1>dom. DOMAIN s = 1 .. Len(s) /\ DOMAIN t = 1 .. Len(t)
    BY BodyFinite
  <1>0. /\ Len(s) \in Nat /\ Len(s) >= 1
        /\ FindTerminatingInstruction(s) \in 1 .. Len(s)
        /\ FindTerminatingInstruction(s) >= Len(s) - 1
    BY Terminating
  <1>1. Len(t) = Len(s) + 1 /\ at \in 1 .. Len(t)
    BY BodyFinite DEF Widened
  <1>2. /\ \A i \in 1 .. Len(s) : Past(at, i) \in 1 .. Len(t) /\ t[Past(at, i)] = s[i]
        /\ \A j \in 1 .. Len(t) : j # at => \E i \in 1 .. Len(s) : j = Past(at, i)
    BY BodyWidened
  <1>3. /\ \A i \in 1 .. Len(s) : s[i].kind = "phi" => \A j \in 1 .. i : s[j].kind = "phi"
        /\ \A i \in 1 .. Len(s) : s[i].kind = "musttail" => i + 1 = Len(s)
        /\ \A i \in 1 .. Len(s) : s[i].kind = "term" <=> i = Len(s)
        /\ \A i, j \in 1 .. Len(s) :
              s[i].kind # "dbg" /\ s[j].kind # "dbg" /\ s[i].id = s[j].id => i = j
    BY <1>dom DEF WellFormed
  <1>4. ASSUME NEW k \in 1 .. Len(t), t[k].kind = "phi" PROVE \A j \in 1 .. k : t[j].kind = "phi"
    <2>1. PICK i \in 1 .. Len(s) : k = Past(at, i)
      BY <1>2, <1>4
    <2>2. s[i].kind = "phi" /\ i < at
      BY <1>0, <1>2, <1>4, <2>1
    <2>3. k = i
      BY <2>1, <2>2 DEF Past
    <2>4. ASSUME NEW j \in 1 .. k PROVE t[j] = s[j] /\ s[j].kind = "phi"
      <3>1. j \in 1 .. Len(s) /\ Past(at, j) = j /\ j \in 1 .. i
        BY <1>0, <2>2, <2>3 DEF Past
      <3>2. t[j] = s[j]
        BY <1>2, <3>1
      <3> QED BY <1>3, <2>2, <3>1, <3>2
    <2> QED BY <2>4
  <1>5. \A k \in 1 .. Len(t) : t[k].kind = "musttail" => k + 1 = Len(t)
    <2> SUFFICES ASSUME NEW k \in 1 .. Len(t), t[k].kind = "musttail" PROVE k + 1 = Len(t)
      OBVIOUS
    <2>1. PICK i \in 1 .. Len(s) : k = Past(at, i)
      BY <1>2
    <2>2. s[i].kind = "musttail" /\ i + 1 = Len(s)
      BY <1>2, <1>3, <2>1
    <2>3. i = Len(s) - 1 /\ Len(s) > 1
      BY <1>0, <2>2
    <2>4. FindTerminatingInstruction(s) = i
      BY <2>2, <2>3 DEF FindTerminatingInstruction
    <2> QED BY <1>0, <1>1, <2>1, <2>3, <2>4 DEF Past
  <1>6. \A k \in 1 .. Len(t) : t[k].kind = "term" <=> k = Len(t)
    <2> SUFFICES ASSUME NEW k \in 1 .. Len(t) PROVE t[k].kind = "term" <=> k = Len(t)
      OBVIOUS
    <2>1. CASE k = at
      BY <1>0, <1>1, <2>1
    <2>2. CASE k # at
      <3>1. PICK i \in 1 .. Len(s) : k = Past(at, i)
        BY <1>2, <2>2
      <3>2. t[k].kind = "term" <=> i = Len(s)
        BY <1>2, <1>3, <3>1
      <3> QED BY <1>0, <1>1, <3>1, <3>2 DEF Past
    <2> QED BY <2>1, <2>2
  <1>7. \A k, j \in 1 .. Len(t) :
            t[k].kind # "dbg" /\ t[j].kind # "dbg" /\ t[k].id = t[j].id => k = j
    <2> SUFFICES ASSUME NEW k \in 1 .. Len(t), NEW j \in 1 .. Len(t),
                        t[k].kind # "dbg", t[j].kind # "dbg", t[k].id = t[j].id
                 PROVE  k = j
      OBVIOUS
    <2>1. PICK i \in 1 .. Len(s) : k = Past(at, i)
      BY <1>2
    <2>2. PICK h \in 1 .. Len(s) : j = Past(at, h)
      BY <1>2
    <2>3. i = h
      BY <1>2, <1>3, <2>1, <2>2
    <2> QED BY <2>1, <2>2, <2>3
  <1>8. t # <<>>
    BY <1>0, <1>1, EmptySeq
  <1>9. WellFormed(t)
    BY <1>dom, <1>4, <1>5, <1>6, <1>7, <1>8 DEF WellFormed
  <1>10. FindTerminatingInstruction(t) = FindTerminatingInstruction(s) + 1
    <2>1. CASE Len(s) > 1 /\ s[Len(s) - 1].kind = "musttail"
      <3>1. FindTerminatingInstruction(s) = Len(s) - 1
        BY <2>1 DEF FindTerminatingInstruction
      <3>2. Past(at, Len(s) - 1) = Len(s) /\ Len(s) - 1 \in 1 .. Len(s)
        BY <1>0, <1>1, <2>1, <3>1 DEF Past
      <3>3. t[Len(t) - 1].kind = "musttail" /\ Len(t) > 1
        BY <1>0, <1>1, <1>2, <2>1, <3>2
      <3> QED BY <1>0, <1>1, <3>1, <3>3 DEF FindTerminatingInstruction
    <2>2. CASE ~(Len(s) > 1 /\ s[Len(s) - 1].kind = "musttail")
      <3>1. FindTerminatingInstruction(s) = Len(s)
        BY <2>2 DEF FindTerminatingInstruction
      <3>2. ASSUME Len(t) > 1, t[Len(t) - 1].kind = "musttail" PROVE FALSE
        <4>1. Len(t) - 1 # at /\ Len(t) - 1 \in 1 .. Len(t)
          BY <1>1, <3>2
        <4>2. PICK i \in 1 .. Len(s) : Len(t) - 1 = Past(at, i)
          BY <1>2, <4>1
        <4>3. s[i].kind = "musttail" /\ i + 1 = Len(s)
          BY <1>2, <1>3, <3>2, <4>2
        <4>4. i = Len(s) - 1 /\ Len(s) > 1
          BY <1>0, <4>3
        <4> QED BY <2>2, <4>3, <4>4
      <3> QED BY <1>0, <1>1, <3>1, <3>2 DEF FindTerminatingInstruction
    <2> QED BY <2>1, <2>2
  <1>11. IsEHPad(t) <=> IsEHPad(s)
    <2>1. ASSUME NEW i \in 1 .. Len(s), s[i].kind = "pad"
          PROVE  \E j \in 1 .. Len(t) : t[j].kind = "pad"
      BY <1>2, <2>1
    <2>2. ASSUME NEW j \in 1 .. Len(t), t[j].kind = "pad"
          PROVE  \E i \in 1 .. Len(s) : s[i].kind = "pad"
      <3>1. PICK i \in 1 .. Len(s) : j = Past(at, i)
        BY <1>2, <2>2
      <3> QED BY <1>2, <2>2, <3>1
    <2> QED BY <1>dom, <2>1, <2>2 DEF IsEHPad
  <1> QED BY <1>9, <1>10, <1>11

\* Without one of its debug values a block is as well formed as with it.
LEMMA WellFormedRemoved ==
    ASSUME NEW S, NEW s \in Seq(S), NEW t \in Seq(S), NEW at \in Nat,
           Widened(s, t, at), t[at].kind = "dbg", WellFormed(t)
    PROVE  WellFormed(s) /\ (IsEHPad(t) <=> IsEHPad(s))
  <1>dom. DOMAIN s = 1 .. Len(s) /\ DOMAIN t = 1 .. Len(t)
    BY BodyFinite
  <1>0. Len(s) \in Nat
    BY BodyFinite
  <1>1. Len(t) = Len(s) + 1 /\ at \in 1 .. Len(t)
    BY BodyFinite DEF Widened
  <1>2. /\ \A i \in 1 .. Len(s) : Past(at, i) \in 1 .. Len(t) /\ t[Past(at, i)] = s[i]
        /\ \A j \in 1 .. Len(t) : j # at => \E i \in 1 .. Len(s) : j = Past(at, i)
    BY BodyWidened
  <1>3. /\ \A i \in 1 .. Len(t) : t[i].kind = "phi" => \A j \in 1 .. i : t[j].kind = "phi"
        /\ \A i \in 1 .. Len(t) : t[i].kind = "musttail" => i + 1 = Len(t)
        /\ \A i \in 1 .. Len(t) : t[i].kind = "term" <=> i = Len(t)
        /\ \A i, j \in 1 .. Len(t) :
              t[i].kind # "dbg" /\ t[j].kind # "dbg" /\ t[i].id = t[j].id => i = j
    BY <1>dom DEF WellFormed
  <1>4. at # Len(t) /\ Len(s) >= 1
    BY <1>0, <1>1, <1>3
  <1>5. ASSUME NEW i \in 1 .. Len(s), s[i].kind = "phi" PROVE \A j \in 1 .. i : s[j].kind = "phi"
    <2>1. t[Past(at, i)].kind = "phi" /\ Past(at, i) \in 1 .. Len(t)
      BY <1>2, <1>5
    <2>2. ASSUME NEW j \in 1 .. i PROVE s[j].kind = "phi"
      <3>1. j \in 1 .. Len(s) /\ Past(at, j) \in 1 .. Past(at, i)
        BY <1>0, <1>1 DEF Past
      <3>2. t[Past(at, j)].kind = "phi"
        BY <1>3, <2>1, <3>1
      <3> QED BY <1>2, <3>1, <3>2
    <2> QED BY <2>2
  <1>6. \A i \in 1 .. Len(s) : s[i].kind = "musttail" => i + 1 = Len(s)
    <2> SUFFICES ASSUME NEW i \in 1 .. Len(s), s[i].kind = "musttail" PROVE i + 1 = Len(s)
      OBVIOUS
    <2>1. Past(at, i) + 1 = Len(t)
      BY <1>2, <1>3
    <2> QED BY <1>0, <1>1, <1>4, <2>1 DEF Past
  <1>7. \A i \in 1 .. Len(s) : s[i].kind = "term" <=> i = Len(s)
    <2> SUFFICES ASSUME NEW i \in 1 .. Len(s) PROVE s[i].kind = "term" <=> i = Len(s)
      OBVIOUS
    <2>1. s[i].kind = "term" <=> Past(at, i) = Len(t)
      BY <1>2, <1>3
    <2> QED BY <1>0, <1>1, <1>4, <2>1 DEF Past
  <1>8. \A i, j \in 1 .. Len(s) :
            s[i].kind # "dbg" /\ s[j].kind # "dbg" /\ s[i].id = s[j].id => i = j
    <2> SUFFICES ASSUME NEW i \in 1 .. Len(s), NEW j \in 1 .. Len(s),
                        s[i].kind # "dbg", s[j].kind # "dbg", s[i].id = s[j].id
                 PROVE  i = j
      OBVIOUS
    <2>1. Past(at, i) = Past(at, j)
      <3>1. /\ Past(at, i) \in 1 .. Len(t) /\ t[Past(at, i)] = s[i]
            /\ Past(at, j) \in 1 .. Len(t) /\ t[Past(at, j)] = s[j]
        BY <1>2
      <3> QED BY <1>3, <3>1
    <2> QED BY <1>0, <1>1, <2>1 DEF Past
  <1>9. s # <<>>
    BY <1>4, EmptySeq
  <1>10. IsEHPad(t) <=> IsEHPad(s)
    <2>1. ASSUME NEW i \in 1 .. Len(s), s[i].kind = "pad"
          PROVE  \E j \in 1 .. Len(t) : t[j].kind = "pad"
      BY <1>2, <2>1
    <2>2. ASSUME NEW j \in 1 .. Len(t), t[j].kind = "pad"
          PROVE  \E i \in 1 .. Len(s) : s[i].kind = "pad"
      <3>1. PICK i \in 1 .. Len(s) : j = Past(at, i)
        BY <1>2, <2>2
      <3> QED BY <1>2, <2>2, <3>1
    <2> QED BY <1>dom, <2>1, <2>2 DEF IsEHPad
  <1> QED BY <1>dom, <1>5, <1>6, <1>7, <1>8, <1>9, <1>10 DEF WellFormed

--------------------------------------------------------------------------------
(* The inductive invariant.  first is the first function the pass was given. *)

Body(b) == WithoutDbg(code[b])

NoDbg(b) == \A i \in DOMAIN code[b] : code[b][i].kind # "dbg"

Clean(b) == NoDbg(b) /\ \A i \in DOMAIN code[b] : code[b][i].line = 0

\* The functions that get locations.
Locates(first, f) == f \in first .. LastF /\ exact[f]

LocTyping ==
    /\ code \in Seq(Seq(Instruction \cup SyntheticValue))
    /\ exact \in Seq(BOOLEAN)
    /\ functionOf \in Seq(Functions) /\ Len(functionOf) = Len(code)
    /\ dbgCU \in BOOLEAN /\ debugifyMD \in Seq(Nat)
    /\ subprogram \in [Functions -> Nat]
    /\ NextLine \in Nat \ {0} /\ NextVar \in Nat \ {0}
    /\ F \in 0 .. Len(exact) + 1 /\ LastF \in 0 .. Len(exact) /\ BB \in 0 .. Len(code) + 1
    /\ I \in Nat /\ InsertBefore \in Nat
    /\ locPc \in {"strip", "debugify", "functions", "blocks", "values", "erase", "aborted", "done",
                  "check", "checked"}

Ordered ==
    /\ \A b, c \in DOMAIN code : b <= c => functionOf[b] <= functionOf[c]
    /\ \A f \in Functions : exact[f] => \E b \in DOMAIN code : functionOf[b] = f

Blocks == \A b \in DOMAIN code : WellFormed(code[b])

Applying == {"functions", "blocks", "values"}

Applied == {"erase", "aborted", "done"}

\* Where the loops over functions and blocks stand.
Position(first) ==
    /\ locPc \in Applying =>
          /\ first \in 1 .. LastF + 1 /\ F \in first .. LastF + 1 /\ BB >= 1
          /\ \A b \in DOMAIN code : functionOf[b] < F => b < BB
          /\ \A b \in DOMAIN code : b < BB =>
                IF locPc = "functions" THEN functionOf[b] < F ELSE functionOf[b] <= F
    /\ locPc \in {"blocks", "values"} => F <= LastF /\ exact[F]
    /\ locPc = "values" => AtBlock
    /\ locPc \in {"strip", "debugify"} => NextLine = 1 /\ NextVar = 1
    /\ locPc = "debugify" => ~dbgCU
    /\ locPc \in Applied => F = LastF + 1 /\ first \in 1 .. LastF + 1

\* The loop over a block's values, and where it inserts those of the phis.
InBlock ==
    locPc = "values" =>
        /\ ~IsEHPad(code[BB])
        /\ I \in 1 .. LastInst /\ InsertBefore \in 1 .. LastInst
        /\ code[BB][I].kind = "phi" =>
              \A j \in DOMAIN code[BB] : code[BB][j].kind = "phi" => j < InsertBefore

HasLines(first, b) ==
    /\ Locates(first, functionOf[b])
    /\ locPc \in {"functions", "blocks"} => b < BB
    /\ locPc = "values" => b <= BB

PlacesBefore(first, n) ==
    UNION {{c} \X (1 .. Len(Body(c))) :
              c \in {d \in DOMAIN code : d < n /\ Locates(first, functionOf[d])}}

Before(first, n) == Cardinality(PlacesBefore(first, n))

\* The first block without lines.
Ahead ==
    IF locPc \in {"functions", "blocks"} THEN BB
    ELSE IF locPc = "values" THEN BB + 1 ELSE Len(code) + 1

\* The lines number the bodies of the blocks the pass has been over.
Numbering(first) ==
    /\ locPc = "debugify" => \A b \in DOMAIN code : Clean(b)
    /\ locPc \in Applying \cup Applied =>
          /\ NextLine = 1 + Before(first, Ahead)
          /\ \A b \in DOMAIN code :
                IF HasLines(first, b)
                THEN \A k \in 1 .. Len(Body(b)) : Body(b)[k].line = Before(first, b) + k
                ELSE Clean(b)

Begun(f) == f < F \/ (f = F /\ locPc \in {"blocks", "values"})

FirstBlock(b) == \A c \in DOMAIN code : c < b => functionOf[c] # functionOf[b]

Subprograms(first) ==
    locPc # "strip" =>
        \A f \in Functions :
            IF locPc # "debugify" /\ Locates(first, f) /\ Begun(f)
            THEN \A b \in DOMAIN code :
                    functionOf[b] = f /\ FirstBlock(b) => subprogram[f] = Before(first, b) + 1
            ELSE subprogram[f] = 0

\* A debug value stands behind what it describes.
Placed ==
    locPc # "strip" =>
        \A b \in DOMAIN code : \A i \in DOMAIN code[b] :
            code[b][i].kind = "dbg" =>
                \E j \in 1 .. i - 1 : /\ code[b][j].kind # "dbg"
                                      /\ code[b][j].id = code[b][i].id
                                      /\ code[b][j].line = code[b][i].line

\* The values the pass has described.
Seen(first, b, i) ==
    /\ Locates(first, functionOf[b]) /\ ~IsEHPad(code[b])
    /\ code[b][i].kind \in ValueKind /\ i < FindTerminatingInstruction(code[b])
    /\ locPc \in Applying => (b < BB \/ (locPc = "values" /\ b = BB /\ i < I))

DbgPlacesOf(b) == {i \in DOMAIN code[b] : code[b][i].kind = "dbg"}

AllDbgPlaces == UNION {{b} \X DbgPlacesOf(b) : b \in DOMAIN code}

Describing(first) ==
    locPc \in Applying \/ (locPc \in Applied /\ BB = 1 /\ I = 1) =>
        /\ \A b \in DOMAIN code : \A i \in BodyOf(code[b]) :
              IF Seen(first, b, i) THEN \E j \in DOMAIN code[b] : DescribedAt(b, i) = {j} ELSE DescribedAt(b, i) = {}
        /\ NextVar = 1 + Cardinality(AllDbgPlaces)
        /\ locPc \in Applied => debugifyMD # <<>> /\ Last(debugifyMD) = NextVar - 1

Erasing ==
    /\ locPc = "erase" => /\ BB >= 1 /\ I >= 1
                          /\ \A b \in DOMAIN code : b < BB => NoDbg(b)
                          /\ BB \in DOMAIN code =>
                                \A i \in DOMAIN code[BB] : i < I => code[BB][i].kind # "dbg"
    /\ locPc = "done" => \A b \in DOMAIN code : NoDbg(b)

LocInv(first) ==
    /\ LocTyping /\ Ordered /\ Blocks
    /\ Position(first) /\ InBlock /\ Numbering(first) /\ Subprograms(first)
    /\ Placed /\ Describing(first) /\ Erasing

--------------------------------------------------------------------------------
(* What the invariant says of a block. *)
\* The types of what the invariant speaks of, one by one.
LEMMA Typed ==
    ASSUME LocTyping
    PROVE  /\ DOMAIN code = 1 .. Len(code) /\ Len(code) \in Nat /\ Len(exact) \in Nat
           /\ DOMAIN functionOf = DOMAIN code
           /\ \A b \in DOMAIN code : functionOf[b] \in 1 .. Len(exact) /\ functionOf[b] \in Nat
           /\ \A f \in Functions : exact[f] \in BOOLEAN
           /\ \A b \in DOMAIN code :
                 /\ code[b] \in Seq(Instruction \cup SyntheticValue)
                 /\ DOMAIN code[b] = 1 .. Len(code[b]) /\ Len(code[b]) \in Nat
  <1>1. code \in Seq(Seq(Instruction \cup SyntheticValue)) /\ Len(exact) \in Nat
    BY DEF LocTyping
  <1>2. DOMAIN code = 1 .. Len(code) /\ Len(code) \in Nat
    BY <1>1
  <1>3. \A b \in DOMAIN code : code[b] \in Seq(Instruction \cup SyntheticValue)
    BY <1>1
  <1>4. \A b \in DOMAIN code : DOMAIN code[b] = 1 .. Len(code[b]) /\ Len(code[b]) \in Nat
    BY <1>3
  <1>5. functionOf \in Seq(Functions) /\ Len(functionOf) = Len(code)
    BY DEF LocTyping
  <1>6. DOMAIN functionOf = DOMAIN code
    BY <1>2, <1>5
  <1>7. \A b \in DOMAIN code : functionOf[b] \in 1 .. Len(exact)
    BY <1>2, <1>5 DEF Functions
  <1>8. \A f \in Functions : exact[f] \in BOOLEAN
    BY DEF LocTyping, Functions
  <1> QED BY <1>1, <1>2, <1>3, <1>4, <1>6, <1>7, <1>8

\* What a step that changes no block leaves as it is.
LEMMA CodeKept ==
    ASSUME NEW first, code' = code, functionOf' = functionOf, exact' = exact
    PROVE  /\ Ordered => Ordered'
           /\ Blocks => Blocks'
           /\ Placed /\ locPc # "strip" => Placed'
           /\ Functions' = Functions
           /\ \A b : Body(b)' = Body(b)
           /\ \A b : Clean(b)' <=> Clean(b)
           /\ \A b : NoDbg(b)' <=> NoDbg(b)
           /\ \A b : FirstBlock(b)' <=> FirstBlock(b)
           /\ \A b, i : DescribedAt(b, i)' = DescribedAt(b, i)
           /\ AllDbgPlaces' = AllDbgPlaces
           /\ LastF' = LastF => /\ \A f : Locates(first, f)' <=> Locates(first, f)
                                /\ \A n : Before(first, n)' = Before(first, n)
  <1>1. (Ordered => Ordered') /\ Functions' = Functions
    BY DEF Ordered, Functions
  <1>2. Blocks => Blocks'
    BY DEF Blocks
  <1>3. Placed /\ locPc # "strip" => Placed'
    BY DEF Placed
  <1>4. \A b : Body(b)' = Body(b)
    BY DEF Body
  <1>5. (\A b : NoDbg(b)' <=> NoDbg(b)) /\ (\A b : Clean(b)' <=> Clean(b))
    BY DEF NoDbg, Clean
  <1>6. \A b : FirstBlock(b)' <=> FirstBlock(b)
    BY DEF FirstBlock
  <1>7. \A b, i : DescribedAt(b, i)' = DescribedAt(b, i)
    BY DEF DescribedAt
  <1>8. AllDbgPlaces' = AllDbgPlaces
    BY DEF AllDbgPlaces, DbgPlacesOf
  <1>9. ASSUME LastF' = LastF
        PROVE  /\ \A f : Locates(first, f)' <=> Locates(first, f)
               /\ \A n : Before(first, n)' = Before(first, n)
    BY <1>9 DEF Locates, Before, PlacesBefore, Body
  <1> QED BY <1>1, <1>2, <1>3, <1>4, <1>5, <1>6, <1>7, <1>8, <1>9

\* The loop goes past what has no value (Debugify.cpp:128-129).
LEMMA SkipVoidKeeps ==
    ASSUME NEW first \in Nat, LocInv(first), SkipVoid
    PROVE  LocInv(first)'
  <1> USE DEF LocInv
  <1>0. /\ locPc = "values" /\ locPc' = locPc /\ code' = code /\ functionOf' = functionOf
        /\ exact' = exact /\ dbgCU' = dbgCU /\ debugifyMD' = debugifyMD
        /\ subprogram' = subprogram /\ NextLine' = NextLine /\ NextVar' = NextVar
        /\ F' = F /\ LastF' = LastF /\ BB' = BB /\ InsertBefore' = InsertBefore
        /\ I # LastInst /\ code[BB][I].kind \notin ValueKind /\ I' = I + 1
    BY DEF SkipVoid, program, debugInfo, counters
  <1>1. BB \in DOMAIN code /\ AtBlock
    BY <1>0 DEF Position, AtBlock
  <1>2. /\ I \in 1 .. LastInst /\ InsertBefore \in 1 .. LastInst /\ ~IsEHPad(code[BB])
        /\ LastInst \in 1 .. Len(code[BB]) /\ Len(code[BB]) \in Nat
    <2>1. code[BB] \in Seq(Instruction \cup SyntheticValue) /\ WellFormed(code[BB])
      BY <1>1, Typed DEF Blocks
    <2> QED BY <1>0, <2>1, Terminating DEF InBlock, LastInst
  <1>3. I' \in 1 .. LastInst /\ I \in 1 .. Len(code[BB]) /\ I + 1 \in 1 .. Len(code[BB])
    BY <1>0, <1>2
  <1>4. code[BB][I + 1].kind # "phi"
    <2>1. DOMAIN code[BB] = 1 .. Len(code[BB])
      BY <1>1, Typed
    <2>2. code[BB][I + 1].kind = "phi" => code[BB][I].kind = "phi"
      BY <1>1, <1>3, <2>1 DEF Blocks, WellFormed
    <2> QED BY <1>0, <2>2 DEF ValueKind
  <1>5. LocTyping'
    BY <1>0, <1>3 DEF LocTyping, Instruction, SyntheticValue, Functions
  <1>6. Position(first)'
    BY <1>0 DEF Position, AtBlock, Applying, Applied
  <1>7. InBlock'
    BY <1>0, <1>2, <1>3, <1>4 DEF InBlock, LastInst
  <1>8. Ordered' /\ Blocks' /\ Placed'
    BY <1>0, CodeKept
  <1>9. Numbering(first)'
    <2>1. Ahead' = Ahead
      BY <1>0 DEF Ahead
    <2>2. \A b : HasLines(first, b)' <=> HasLines(first, b)
      BY <1>0, CodeKept DEF HasLines
    <2> QED BY <1>0, <2>1, <2>2, CodeKept DEF Numbering, Applying, Applied
  <1>10. Subprograms(first)'
    BY <1>0, CodeKept DEF Subprograms, Begun
  <1>11. Describing(first)'
    <2>1. ASSUME NEW b \in DOMAIN code, NEW i \in BodyOf(code[b])
          PROVE  Seen(first, b, i)' <=> Seen(first, b, i)
      <3>1. i \in Int /\ I \in Int
        BY <1>3, Typed, BodyFinite
      <3>2. b = BB /\ i = I => code[b][i].kind \notin ValueKind
        BY <1>0
      <3> QED BY <1>0, <3>1, <3>2, CodeKept DEF Seen
    <2> QED BY <1>0, <2>1, CodeKept DEF Describing, Applying, Applied
  <1>12. Erasing'
    BY <1>0 DEF Erasing
  <1> QED BY <1>5, <1>6, <1>7, <1>8, <1>9, <1>10, <1>11, <1>12

\* The last block of a function, found as SkipFunction does.
LEMMA LastBlockOf ==
    ASSUME LocTyping, NEW f \in Nat, \E b \in DOMAIN code : functionOf[b] = f
    PROVE  LET l == SelectLastInSeq(functionOf, LAMBDA g : g = f)
           IN  /\ l \in DOMAIN code /\ functionOf[l] = f
               /\ \A b \in DOMAIN code : functionOf[b] = f => b <= l
  <1> DEFINE Of == {b \in 1 .. Len(functionOf) : functionOf[b] = f}
  <1>1. Len(functionOf) \in Nat /\ DOMAIN code = 1 .. Len(functionOf)
    BY Typed DEF LocTyping
  <1>2. Of \subseteq 1 .. Len(functionOf) /\ Of # {}
    BY <1>1
  <1>3. SelectLastInSeq(functionOf, LAMBDA g : g = f) = Max(Of)
    BY <1>2 DEF SelectLastInSeq
  <1>4. Max(Of) \in Of /\ \A k \in Of : k <= Max(Of)
    BY <1>1, <1>2, LeastAndGreatest
  <1> QED BY <1>1, <1>3, <1>4

\* The blocks of the functions before one are the first ones.
LEMMA BlocksBefore ==
    ASSUME LocTyping, Ordered, NEW f \in Nat
    PROVE  LET l == SelectLastInSeq(functionOf, LAMBDA g : g < f)
           IN  l \in 0 .. Len(code) /\ \A b \in DOMAIN code : b <= l <=> functionOf[b] < f
  <1> DEFINE Of == {b \in 1 .. Len(functionOf) : functionOf[b] < f}
             l == SelectLastInSeq(functionOf, LAMBDA g : g < f)
  <1> SUFFICES l \in 0 .. Len(code) /\ \A b \in DOMAIN code : b <= l <=> functionOf[b] < f
    OBVIOUS
  <1>1. Len(functionOf) \in Nat /\ DOMAIN code = 1 .. Len(functionOf) /\ Len(functionOf) = Len(code)
    BY Typed DEF LocTyping
  <1>2. l = IF Of # {} THEN Max(Of) ELSE 0
    BY DEF SelectLastInSeq
  <1> HIDE DEF l
  <1>3. CASE Of = {}
    <2>1. l = 0
      BY <1>2, <1>3
    <2>2. \A b \in DOMAIN code : ~(functionOf[b] < f) /\ b \in 1 .. Len(code)
      BY <1>1, <1>3
    <2> QED BY <1>1, <2>1, <2>2
  <1>4. CASE Of # {}
    <2>1. l \in Of /\ \A k \in Of : k <= l
      BY <1>1, <1>2, <1>4, LeastAndGreatest
    <2>2. l \in 1 .. Len(code) /\ l \in DOMAIN code /\ functionOf[l] < f
      BY <1>1, <2>1
    <2>3. ASSUME NEW b \in DOMAIN code PROVE b <= l <=> functionOf[b] < f
      <3>1. b <= l => functionOf[b] <= functionOf[l]
        BY <2>2 DEF Ordered
      <3>2. functionOf[b] \in Nat /\ functionOf[l] \in Nat
        BY <2>2, Typed
      <3>3. functionOf[b] < f => b \in Of
        BY <1>1
      <3> QED BY <2>1, <2>2, <3>1, <3>2, <3>3
    <2> QED BY <2>2, <2>3
  <1> QED BY <1>3, <1>4

--------------------------------------------------------------------------------
(* The walk over functions, blocks and instructions, as long as it changes none. *)
\* The loop over a block ends at its terminating instruction (Debugify.cpp:127).
LEMMA EndBlockKeeps ==
    ASSUME NEW first \in Nat, LocInv(first), EndBlock
    PROVE  LocInv(first)'
  <1> USE DEF LocInv
  <1>0. /\ locPc = "values" /\ locPc' = "blocks" /\ code' = code /\ functionOf' = functionOf
        /\ exact' = exact /\ dbgCU' = dbgCU /\ debugifyMD' = debugifyMD
        /\ subprogram' = subprogram /\ NextLine' = NextLine /\ NextVar' = NextVar
        /\ F' = F /\ LastF' = LastF /\ BB' = BB + 1 /\ InsertBefore' = InsertBefore
        /\ I' = I /\ I = LastInst
    BY DEF EndBlock, program, debugInfo, counters
  <1>1. BB \in DOMAIN code /\ functionOf[BB] = F
    BY <1>0 DEF Position, AtBlock
  <1>2. /\ BB \in 1 .. Len(code) /\ DOMAIN code = 1 .. Len(code) /\ Len(code) \in Nat
        /\ F \in Nat /\ LastF \in Nat
    BY <1>1, Typed DEF LocTyping
  <1>5. LocTyping'
    BY <1>0, <1>2 DEF LocTyping, Instruction, SyntheticValue, Functions
  <1>6. Position(first)'
    <2>1. \A b \in DOMAIN code : functionOf[b] < F => b < BB + 1
      BY <1>0, <1>2 DEF Position, Applying
    <2>2. ASSUME NEW b \in DOMAIN code, b < BB + 1 PROVE functionOf[b] <= F
      <3>1. b <= BB
        BY <1>2, <2>2
      <3> QED BY <1>1, <3>1 DEF Ordered
    <2> QED BY <1>0, <1>2, <2>1, <2>2 DEF Position, Applying, Applied
  <1>7. InBlock'
    BY <1>0 DEF InBlock
  <1>8. Ordered' /\ Blocks' /\ Placed'
    BY <1>0, CodeKept
  <1>9. Numbering(first)'
    <2>1. Ahead' = Ahead
      BY <1>0 DEF Ahead
    <2>2. \A b \in DOMAIN code : HasLines(first, b)' <=> HasLines(first, b)
      <3> SUFFICES ASSUME NEW b \in DOMAIN code PROVE HasLines(first, b)' <=> HasLines(first, b)
        OBVIOUS
      <3>1. b < BB + 1 <=> b <= BB
        BY <1>2
      <3> QED BY <1>0, <3>1, CodeKept DEF HasLines
    <2> QED BY <1>0, <2>1, <2>2, CodeKept DEF Numbering, Applying, Applied
  <1>10. Subprograms(first)'
    BY <1>0, CodeKept DEF Subprograms, Begun
  <1>11. Describing(first)'
    <2>1. ASSUME NEW b \in DOMAIN code, NEW i \in BodyOf(code[b])
          PROVE  Seen(first, b, i)' <=> Seen(first, b, i)
      <3>1. b < BB + 1 <=> b < BB \/ b = BB
        BY <1>2
      <3>2. b = BB /\ i < FindTerminatingInstruction(code[b]) => i < I
        BY <1>0 DEF LastInst
      <3> QED BY <1>0, <3>1, <3>2, CodeKept DEF Seen, Applying
    <2> QED BY <1>0, <2>1, CodeKept DEF Describing, Applying, Applied
  <1>12. Erasing'
    BY <1>0 DEF Erasing
  <1> QED BY <1>5, <1>6, <1>7, <1>8, <1>9, <1>10, <1>11, <1>12

\* The loop over the blocks ends behind the last one of the function (Debugify.cpp:102).
LEMMA EndFunctionKeeps ==
    ASSUME NEW first \in Nat, LocInv(first), EndFunction
    PROVE  LocInv(first)'
  <1> USE DEF LocInv
  <1>0. /\ locPc = "blocks" /\ locPc' = "functions" /\ code' = code /\ functionOf' = functionOf
        /\ exact' = exact /\ dbgCU' = dbgCU /\ debugifyMD' = debugifyMD
        /\ subprogram' = subprogram /\ NextLine' = NextLine /\ NextVar' = NextVar
        /\ F' = F + 1 /\ LastF' = LastF /\ BB' = BB /\ InsertBefore' = InsertBefore
        /\ I' = I /\ ~AtBlock
    BY DEF EndFunction, program, debugInfo, counters
  <1>2. /\ DOMAIN code = 1 .. Len(code) /\ Len(code) \in Nat /\ Len(exact) \in Nat
        /\ F \in Nat /\ LastF \in 0 .. Len(exact) /\ F <= LastF /\ BB \in Nat /\ BB >= 1
        /\ \A b \in DOMAIN code : functionOf[b] \in Nat
    BY <1>0, Typed DEF LocTyping, Position, Applying
  <1>5. LocTyping'
    BY <1>0, <1>2 DEF LocTyping, Instruction, SyntheticValue, Functions
  <1>6. Position(first)'
    <2>1. ASSUME NEW b \in DOMAIN code, functionOf[b] < F + 1 PROVE b < BB
      <3> SUFFICES ASSUME BB <= b PROVE FALSE
        BY <1>2
      <3>1. BB \in DOMAIN code
        BY <1>2
      <3>2. functionOf[BB] <= functionOf[b] /\ functionOf[BB] \in Nat /\ functionOf[b] \in Nat
        BY <1>2, <3>1 DEF Ordered
      <3>3. functionOf[BB] # F
        BY <1>0, <3>1 DEF AtBlock
      <3>4. functionOf[BB] < F
        BY <1>2, <2>1, <3>2, <3>3
      <3>5. BB < BB
        BY <1>0, <3>1, <3>4 DEF Position, Applying
      <3> QED BY <1>2, <3>5
    <2>2. ASSUME NEW b \in DOMAIN code, b < BB PROVE functionOf[b] < F + 1
      <3>1. functionOf[b] <= F
        BY <1>0, <2>2 DEF Position, Applying
      <3> QED BY <1>2, <3>1
    <2>3. first \in 1 .. LastF + 1 /\ F + 1 \in first .. LastF + 1
      BY <1>0, <1>2 DEF Position, Applying
    <2> QED BY <1>0, <1>2, <2>1, <2>2, <2>3 DEF Position, Applying, Applied
  <1>7. InBlock'
    BY <1>0 DEF InBlock
  <1>8. Ordered' /\ Blocks' /\ Placed'
    BY <1>0, CodeKept
  <1>9. Numbering(first)'
    <2>1. Ahead' = Ahead
      BY <1>0 DEF Ahead
    <2>2. \A b \in DOMAIN code : HasLines(first, b)' <=> HasLines(first, b)
      BY <1>0, CodeKept DEF HasLines
    <2> QED BY <1>0, <2>1, <2>2, CodeKept DEF Numbering, Applying, Applied
  <1>10. Subprograms(first)'
    <2>1. \A f \in Functions : Begun(f)' <=> Begun(f)
      <3> SUFFICES ASSUME NEW f \in Functions PROVE f < F + 1 <=> f < F \/ f = F
        BY <1>0, CodeKept DEF Begun
      <3> QED BY <1>2 DEF Functions
    <2> QED BY <1>0, <2>1, CodeKept DEF Subprograms
  <1>11. Describing(first)'
    <2>1. ASSUME NEW b \in DOMAIN code, NEW i \in BodyOf(code[b])
          PROVE  Seen(first, b, i)' <=> Seen(first, b, i)
      BY <1>0, CodeKept DEF Seen, Applying
    <2> QED BY <1>0, <2>1, CodeKept DEF Describing, Applying, Applied
  <1>12. Erasing'
    BY <1>0 DEF Erasing
  <1> QED BY <1>5, <1>6, <1>7, <1>8, <1>9, <1>10, <1>11, <1>12

\* The instructions before a block are finitely many.
LEMMA BeforeCounts ==
    ASSUME LocTyping, NEW first \in Nat, NEW n
    PROVE  IsFiniteSet(PlacesBefore(first, n)) /\ Before(first, n) \in Nat
  <1> DEFINE Bs == {d \in DOMAIN code : d < n /\ Locates(first, functionOf[d])}
             Sets == {{c} \X (1 .. Len(Body(c))) : c \in Bs}
  <1>1. IsFiniteSet(DOMAIN code) /\ Bs \in SUBSET DOMAIN code
    BY Typed, FS_Interval, 1 \in Int
  <1>2. IsFiniteSet(Bs)
    BY <1>1, FS_Subset
  <1>3. IsFiniteSet(Sets)
    <2> DEFINE f == [c \in Bs |-> {c} \X (1 .. Len(Body(c)))]
    <2>1. f \in Surjection(Bs, Sets)
      BY DEF Surjection
    <2> HIDE DEF f, Bs, Sets
    <2> QED BY <1>2, <2>1, FS_Surjection
  <1>4. ASSUME NEW T \in Sets PROVE IsFiniteSet(T)
    <2>1. PICK c \in Bs : T = {c} \X (1 .. Len(Body(c)))
      OBVIOUS
    <2>2. Len(Body(c)) \in Nat
      BY Typed, BodyInOrder DEF Body
    <2>3. IsFiniteSet({c}) /\ IsFiniteSet(1 .. Len(Body(c)))
      BY <2>2, FS_Singleton, FS_Interval, 1 \in Int, Len(Body(c)) \in Int
    <2> QED BY <2>1, <2>3, FS_Product
  <1> HIDE DEF Sets
  <1>5. IsFiniteSet(UNION Sets)
    BY <1>3, <1>4, FS_UNION
  <1> QED BY <1>5, FS_CardinalityType DEF Before, PlacesBefore, Sets

\* Blocks that get no lines do not count.
LEMMA NothingBetween ==
    ASSUME NEW first, NEW n, NEW m,
           \A d \in DOMAIN code : Locates(first, functionOf[d]) => (d < n <=> d < m)
    PROVE  Before(first, n) = Before(first, m)
  <1>1. {d \in DOMAIN code : d < n /\ Locates(first, functionOf[d])} =
        {d \in DOMAIN code : d < m /\ Locates(first, functionOf[d])}
    OBVIOUS
  <1> QED BY <1>1 DEF Before, PlacesBefore

\* A function starts at the line of its first instruction (Debugify.cpp:94-101).
LEMMA BeginFunctionKeeps ==
    ASSUME NEW first \in Nat, LocInv(first), BeginFunction
    PROVE  LocInv(first)'
  <1> USE DEF LocInv
  <1>0. /\ locPc = "functions" /\ locPc' = "blocks" /\ code' = code /\ functionOf' = functionOf
        /\ exact' = exact /\ dbgCU' = dbgCU /\ debugifyMD' = debugifyMD
        /\ subprogram' = [subprogram EXCEPT ![F] = NextLine]
        /\ NextLine' = NextLine /\ NextVar' = NextVar
        /\ F' = F /\ LastF' = LastF /\ BB' = BB /\ InsertBefore' = InsertBefore
        /\ I' = I /\ F <= LastF /\ exact[F]
    BY DEF BeginFunction, program, counters, cursors, IsFunctionSkipped
  <1>2. /\ DOMAIN code = 1 .. Len(code) /\ Len(code) \in Nat /\ Len(exact) \in Nat
        /\ F \in Nat /\ LastF \in 0 .. Len(exact) /\ BB \in Nat /\ BB >= 1
        /\ first \in 1 .. LastF + 1 /\ F \in first .. LastF + 1
    BY <1>0, Typed DEF LocTyping, Position, Applying
  <1>3. F \in Functions /\ F \in first .. LastF
    BY <1>0, <1>2 DEF Functions
  <1>4. ASSUME NEW b \in DOMAIN code, functionOf[b] = F, FirstBlock(b)
        PROVE  b = BB
    <2>1. ~(b < BB)
      BY <1>0, <1>2, <1>4 DEF Position, Applying
    <2>2. b \in Nat /\ BB \in DOMAIN code
      BY <1>2, <2>1
    <2>3. functionOf[BB] <= F /\ functionOf[BB] \in Nat
      BY <1>2, <1>4, <2>1, <2>2, Typed DEF Ordered
    <2>4. ~(functionOf[BB] < F)
      BY <1>0, <1>2, <2>2 DEF Position, Applying
    <2>5. functionOf[BB] = F
      BY <1>2, <2>3, <2>4
    <2>6. ~(BB < b)
      BY <1>4, <2>2, <2>5 DEF FirstBlock
    <2> QED BY <1>2, <2>1, <2>2, <2>6
  <1>5. LocTyping'
    <2>1. subprogram' \in [Functions -> Nat]
      BY <1>0, <1>3 DEF LocTyping
    <2> QED BY <1>0, <2>1 DEF LocTyping, Instruction, SyntheticValue, Functions
  <1>6. Position(first)'
    <2>1. \A b \in DOMAIN code : functionOf[b] < F => functionOf[b] <= F
      BY <1>2, Typed
    <2> QED BY <1>0, <1>2, <2>1 DEF Position, Applying, Applied
  <1>7. InBlock'
    BY <1>0 DEF InBlock
  <1>8. Ordered' /\ Blocks' /\ Placed'
    BY <1>0, CodeKept
  <1>9. Numbering(first)'
    <2>1. Ahead' = Ahead
      BY <1>0 DEF Ahead
    <2>2. \A b \in DOMAIN code : HasLines(first, b)' <=> HasLines(first, b)
      BY <1>0, CodeKept DEF HasLines
    <2> QED BY <1>0, <2>1, <2>2, CodeKept DEF Numbering, Applying, Applied
  <1>10. Subprograms(first)'
    <2>1. \A f \in Functions : Begun(f)' <=> Begun(f) \/ f = F
      BY <1>0, CodeKept DEF Begun
    <2>2. Locates(first, F)
      BY <1>0, <1>3 DEF Locates
    <2>3. NextLine = Before(first, BB) + 1
      <3>1. NextLine = 1 + Before(first, BB)
        BY <1>0 DEF Numbering, Applying, Ahead
      <3> QED BY <3>1, BeforeCounts
    <2>4. subprogram'[F] = NextLine /\ \A f \in Functions : f # F => subprogram'[f] = subprogram[f]
      BY <1>0, <1>3 DEF LocTyping
    <2>5. ASSUME NEW f \in Functions
          PROVE  IF Locates(first, f) /\ (Begun(f) \/ f = F)
                 THEN \A b \in DOMAIN code :
                         functionOf[b] = f /\ FirstBlock(b) => subprogram'[f] = Before(first, b) + 1
                 ELSE subprogram'[f] = 0
      <3>1. CASE f = F
        BY <1>4, <2>2, <2>3, <2>4, <3>1
      <3>2. CASE f # F
        BY <1>0, <2>4, <3>2 DEF Subprograms
      <3> QED BY <3>1, <3>2
    <2> QED BY <1>0, <2>1, <2>5, CodeKept DEF Subprograms
  <1>11. Describing(first)'
    <2>1. ASSUME NEW b \in DOMAIN code, NEW i \in BodyOf(code[b])
          PROVE  Seen(first, b, i)' <=> Seen(first, b, i)
      BY <1>0, CodeKept DEF Seen, Applying
    <2> QED BY <1>0, <2>1, CodeKept DEF Describing, Applying, Applied
  <1>12. Erasing'
    BY <1>0 DEF Erasing
  <1> QED BY <1>5, <1>6, <1>7, <1>8, <1>9, <1>10, <1>11, <1>12

\* A function that is skipped changes nothing (Debugify.cpp:90-91).
LEMMA SkipFunctionKeeps ==
    ASSUME NEW first \in Nat, LocInv(first), SkipFunction
    PROVE  LocInv(first)'
  <1> USE DEF LocInv
  <1>0. /\ locPc = "functions" /\ locPc' = "functions" /\ code' = code
        /\ functionOf' = functionOf /\ exact' = exact /\ dbgCU' = dbgCU
        /\ debugifyMD' = debugifyMD /\ subprogram' = subprogram
        /\ NextLine' = NextLine /\ NextVar' = NextVar
        /\ F' = F + 1 /\ LastF' = LastF /\ InsertBefore' = InsertBefore
        /\ I' = I /\ F <= LastF /\ ~exact[F]
    BY DEF SkipFunction, program, debugInfo, counters, IsFunctionSkipped
  <1>2. /\ DOMAIN code = 1 .. Len(code) /\ Len(code) \in Nat /\ Len(exact) \in Nat
        /\ F \in Nat /\ LastF \in 0 .. Len(exact) /\ BB \in Nat /\ BB >= 1
        /\ first \in 1 .. LastF + 1 /\ F \in first .. LastF + 1
        /\ BB \in 0 .. Len(code) + 1
        /\ \A b \in DOMAIN code : functionOf[b] \in Nat
    BY <1>0, Typed DEF LocTyping, Position, Applying
  <1>3. \A b \in DOMAIN code : b < BB <=> functionOf[b] < F
    BY <1>0 DEF Position, Applying
  <1>4. /\ BB' \in 1 .. Len(code) + 1
        /\ \A b \in DOMAIN code : b < BB' <=> functionOf[b] < F + 1
    <2>1. CASE \E b \in DOMAIN code : functionOf[b] = F
      <3> DEFINE l == SelectLastInSeq(functionOf, LAMBDA f : f = F)
      <3>1. PICK k \in Nat : k = F
        BY <1>2
      <3>2. l \in DOMAIN code /\ functionOf[l] = F /\ \A b \in DOMAIN code : functionOf[b] = F => b <= l
        BY <1>2, <2>1, LastBlockOf
      <3>3. BB' = 1 + l
        BY <2>1 DEF SkipFunction
      <3> HIDE DEF l
      <3>4. ASSUME NEW b \in DOMAIN code PROVE b < 1 + l <=> functionOf[b] < F + 1
        <4>1. b < 1 + l <=> b <= l
          BY <1>2, <3>2
        <4>2. b <= l => functionOf[b] <= F
          BY <3>2 DEF Ordered
        <4>3. l <= b => F <= functionOf[b]
          BY <3>2 DEF Ordered
        <4>4. functionOf[b] = F => b <= l
          BY <3>2
        <4> QED BY <1>2, <3>2, <4>1, <4>2, <4>3, <4>4
      <3> QED BY <1>2, <3>2, <3>3, <3>4
    <2>2. CASE ~(\E b \in DOMAIN code : functionOf[b] = F)
      <3>1. BB' = BB
        BY <2>2 DEF SkipFunction
      <3>2. \A b \in DOMAIN code : functionOf[b] < F + 1 <=> functionOf[b] < F
        BY <1>2, <2>2
      <3> QED BY <1>2, <1>3, <3>1, <3>2
    <2> QED BY <2>1, <2>2
  <1>5. LocTyping'
    <2>1. BB' \in 0 .. Len(code) + 1 /\ F' \in 0 .. Len(exact) + 1
      BY <1>0, <1>2, <1>4
    <2> QED BY <1>0, <2>1 DEF LocTyping, Instruction, SyntheticValue, Functions
  <1>6. Position(first)'
    <2>1. F + 1 \in first .. LastF + 1 /\ BB' >= 1
      BY <1>0, <1>2, <1>4
    <2> QED BY <1>0, <1>2, <1>4, <2>1 DEF Position, Applying, Applied
  <1>7. InBlock'
    BY <1>0 DEF InBlock
  <1>8. Ordered' /\ Blocks' /\ Placed'
    BY <1>0, CodeKept
  <1>14. ASSUME NEW b \in DOMAIN code, Locates(first, functionOf[b]) PROVE b < BB' <=> b < BB
    <2>1. functionOf[b] # F
      BY <1>0, <1>14 DEF Locates
    <2>2. functionOf[b] < F + 1 <=> functionOf[b] < F
      BY <1>2, <2>1
    <2> QED BY <1>3, <1>4, <2>2
  <1>9. Numbering(first)'
    <2>1. PICK n : n = BB'
      OBVIOUS
    <2>2. Ahead' = n /\ Ahead = BB
      BY <1>0, <2>1 DEF Ahead
    <2>3. Before(first, n) = Before(first, BB)
      <3>1. PICK m : m = BB
        OBVIOUS
      <3>2. Before(first, n) = Before(first, m)
        BY <1>14, <2>1, <3>1, NothingBetween
      <3> QED BY <3>1, <3>2
    <2>4. \A b \in DOMAIN code : HasLines(first, b)' <=> HasLines(first, b)
      BY <1>0, <1>14, CodeKept DEF HasLines
    <2>5. NextLine' = 1 + Before(first, n)'
      BY <1>0, <2>2, <2>3, CodeKept DEF Numbering, Applying
    <2> QED BY <1>0, <2>2, <2>4, <2>5, CodeKept DEF Numbering, Applying, Applied
  <1>10. Subprograms(first)'
    <2>1. \A f \in Functions : Locates(first, f) => (Begun(f)' <=> Begun(f))
      <3> SUFFICES ASSUME NEW f \in Functions, Locates(first, f) PROVE f < F + 1 <=> f < F
        BY <1>0, CodeKept DEF Begun
      <3>1. f # F
        BY <1>0 DEF Locates
      <3> QED BY <1>2, <3>1 DEF Functions
    <2> QED BY <1>0, <2>1, CodeKept DEF Subprograms
  <1>11. Describing(first)'
    <2>1. ASSUME NEW b \in DOMAIN code, NEW i \in BodyOf(code[b])
          PROVE  Seen(first, b, i)' <=> Seen(first, b, i)
      BY <1>0, <1>14, CodeKept DEF Seen, Applying
    <2> QED BY <1>0, <2>1, CodeKept DEF Describing, Applying, Applied
  <1>12. Erasing'
    BY <1>0 DEF Erasing
  <1> QED BY <1>5, <1>6, <1>7, <1>8, <1>9, <1>10, <1>11, <1>12

\* The counts are recorded when the last function is over (Debugify.cpp:157-164).
LEMMA TrackCountsKeeps ==
    ASSUME NEW first \in Nat, LocInv(first), TrackCounts
    PROVE  LocInv(first)'
  <1> USE DEF LocInv
  <1>0. /\ locPc = "functions" /\ locPc' \in {"aborted", "erase"} /\ code' = code
        /\ functionOf' = functionOf /\ exact' = exact /\ dbgCU' = dbgCU
        /\ debugifyMD' = debugifyMD \o <<NextLine - 1, NextVar - 1>> /\ subprogram' = subprogram
        /\ NextLine' = NextLine /\ NextVar' = NextVar
        /\ F' = F /\ LastF' = LastF /\ InsertBefore' = InsertBefore
        /\ locPc' = "aborted" => BB' = BB /\ I' = I
        /\ locPc' = "erase" => BB' = 1 /\ I' = 1
        /\ F > LastF
    BY DEF TrackCounts, program, counters
  <1>14. BB >= 1 /\ first \in 1 .. LastF + 1 /\ F \in first .. LastF + 1
    BY <1>0 DEF Position, Applying
  <1>15. F \in 0 .. Len(exact) + 1 /\ LastF \in 0 .. Len(exact) /\ BB \in 0 .. Len(code) + 1
    BY DEF LocTyping
  <1>2. /\ DOMAIN code = 1 .. Len(code) /\ Len(code) \in Nat /\ Len(exact) \in Nat
        /\ F \in Nat /\ LastF \in 0 .. Len(exact) /\ BB \in Nat /\ BB >= 1 /\ BB \in 0 .. Len(code) + 1
        /\ first \in 1 .. LastF + 1 /\ F \in first .. LastF + 1
        /\ \A b \in DOMAIN code : functionOf[b] \in Nat
    BY <1>14, <1>15, Typed
  <1>13. /\ debugifyMD \in Seq(Nat) /\ NextVar \in Nat /\ NextLine \in Nat
         /\ NextLine - 1 \in Nat /\ NextVar - 1 \in Nat
    BY DEF LocTyping
  <1>3. \A b \in DOMAIN code : Locates(first, functionOf[b]) => b < BB
    <2> SUFFICES ASSUME NEW b \in DOMAIN code, Locates(first, functionOf[b]) PROVE b < BB
      OBVIOUS
    <2>1. functionOf[b] < F
      BY <1>0, <1>2 DEF Locates
    <2> QED BY <1>0, <2>1 DEF Position, Applying
  <1>4. /\ debugifyMD' \in Seq(Nat) /\ debugifyMD' # <<>> /\ Last(debugifyMD') = NextVar - 1
    <2> DEFINE added == <<NextLine - 1, NextVar - 1>>
    <2>1. added \in Seq(Nat) /\ Len(added) = 2 /\ added[2] = NextVar - 1
      BY <1>13
    <2>2. debugifyMD' = debugifyMD \o added
      BY <1>0
    <2> HIDE DEF added
    <2>8. PICK md \in Seq(Nat) : md = debugifyMD
      BY <1>13
    <2>9. /\ md \o added \in Seq(Nat) /\ Len(md \o added) = Len(md) + Len(added)
          /\ \A i \in 1 .. Len(md) + Len(added) :
                (md \o added)[i] = IF i <= Len(md) THEN md[i] ELSE added[i - Len(md)]
      BY <2>1, ConcatProperties
    <2>3. /\ debugifyMD' \in Seq(Nat) /\ Len(debugifyMD') = Len(debugifyMD) + 2
          /\ Len(debugifyMD) \in Nat
          /\ \A i \in 1 .. Len(debugifyMD) + Len(added) :
                debugifyMD'[i] = IF i <= Len(debugifyMD) THEN debugifyMD[i]
                                 ELSE added[i - Len(debugifyMD)]
      BY <2>1, <2>2, <2>8, <2>9
    <2>10. PICK n \in Nat : n = Len(debugifyMD)
      BY <2>3
    <2>11. PICK k : k = n + 2
      OBVIOUS
    <2>4. k \in 1 .. Len(debugifyMD) + Len(added) /\ ~(k <= Len(debugifyMD)) /\ k - Len(debugifyMD) = 2
      BY <2>1, <2>10, <2>11
    <2>5. debugifyMD'[k] = added[k - Len(debugifyMD)]
      BY <2>3, <2>4
    <2>6. debugifyMD'[Len(debugifyMD')] = NextVar - 1
      BY <2>1, <2>3, <2>4, <2>5, <2>10, <2>11
    <2>7. debugifyMD' # <<>>
      BY <2>3, EmptySeq
    <2> QED BY <2>3, <2>6, <2>7 DEF Last
  <1>5. LocTyping'
    <2>1. BB' \in 0 .. Len(code) + 1 /\ I' \in Nat
      BY <1>0, <1>2 DEF LocTyping
    <2> QED BY <1>0, <1>4, <2>1 DEF LocTyping, Instruction, SyntheticValue, Functions
  <1>6. Position(first)'
    BY <1>0, <1>2 DEF Position, Applying, Applied
  <1>7. InBlock'
    BY <1>0 DEF InBlock
  <1>8. Ordered' /\ Blocks' /\ Placed'
    BY <1>0, CodeKept
  <1>9. Numbering(first)'
    <2>1. Ahead' = Len(code) + 1 /\ Ahead = BB
      BY <1>0 DEF Ahead
    <2>2. Before(first, Len(code) + 1) = Before(first, BB)
      <3>1. PICK m : m = BB
        OBVIOUS
      <3>2. PICK n : n = Len(code) + 1
        OBVIOUS
      <3>3. \A d \in DOMAIN code : d < n
        BY <1>2, <3>2
      <3>4. Before(first, n) = Before(first, m)
        BY <1>3, <3>1, <3>3, NothingBetween
      <3> QED BY <3>1, <3>2, <3>4
    <2>3. PICK n : n = Len(code) + 1
      OBVIOUS
    <2>4. NextLine = 1 + Before(first, n) /\ Ahead' = n
      BY <1>0, <2>1, <2>2, <2>3 DEF Numbering, Applying
    <2>5. NextLine' = 1 + Before(first, n)'
      BY <1>0, <2>4, CodeKept
    <2>6. \A b \in DOMAIN code : HasLines(first, b)' <=> HasLines(first, b)
      BY <1>0, <1>3, CodeKept DEF HasLines
    <2> QED BY <1>0, <2>4, <2>5, <2>6, CodeKept DEF Numbering, Applying, Applied
  <1>10. Subprograms(first)'
    BY <1>0, CodeKept DEF Subprograms, Begun
  <1>11. Describing(first)'
    <2>1. ASSUME NEW b \in DOMAIN code, NEW i \in BodyOf(code[b])
          PROVE  Seen(first, b, i)' <=> Seen(first, b, i)
      BY <1>0, <1>3, CodeKept DEF Seen, Applying
    <2>2. /\ \A b \in DOMAIN code : \A i \in BodyOf(code[b]) :
                IF Seen(first, b, i)' THEN \E j \in DOMAIN code[b] : DescribedAt(b, i) = {j}
                                     ELSE DescribedAt(b, i) = {}
          /\ NextVar = 1 + Cardinality(AllDbgPlaces)
      BY <1>0, <2>1 DEF Describing, Applying
    <2>3. debugifyMD' # <<>> /\ Last(debugifyMD)' = NextVar' - 1
      BY <1>0, <1>4 DEF Last
    <2> QED BY <1>0, <2>2, <2>3, CodeKept DEF Describing
  <1>12. Erasing'
    <2>1. ASSUME locPc' = "erase"
          PROVE  /\ \A b \in DOMAIN code : ~(b < 1)
                 /\ \A i \in DOMAIN code[1] : 1 \in DOMAIN code => ~(i < 1)
      BY <1>2, Typed
    <2> QED BY <1>0, <2>1, CodeKept DEF Erasing
  <1> QED BY <1>5, <1>6, <1>7, <1>8, <1>9, <1>10, <1>11, <1>12

\* debugify starts on some functions that are behind each other (Debugify.cpp:63-91).
LEMMA ApplyKeeps ==
    ASSUME NEW first \in Nat, NEW g \in Nat, NEW last \in 0 .. Len(exact),
           first \in 1 .. last + 1, LocInv(g), ApplyDebugifyMetadata(first, last)
    PROVE  LocInv(first)'
  <1> USE DEF LocInv
  <1>0. /\ locPc = "debugify" /\ locPc' = "functions" /\ code' = code
        /\ functionOf' = functionOf /\ exact' = exact /\ dbgCU' = TRUE
        /\ debugifyMD' = debugifyMD /\ subprogram' = subprogram
        /\ NextLine' = NextLine /\ NextVar' = NextVar /\ NextLine = 1 /\ NextVar = 1
        /\ F' = first /\ LastF' = last /\ InsertBefore' = InsertBefore /\ I' = I
        /\ BB' = 1 + SelectLastInSeq(functionOf, LAMBDA f : f < first)
    BY DEF ApplyDebugifyMetadata, Position, program, counters
  <1>2. /\ DOMAIN code = 1 .. Len(code) /\ Len(code) \in Nat /\ Len(exact) \in Nat
        /\ \A b \in DOMAIN code : functionOf[b] \in Nat
    BY Typed
  <1>3. /\ BB' \in 1 .. Len(code) + 1
        /\ \A b \in DOMAIN code : b < BB' <=> functionOf[b] < first
    <2> DEFINE l == SelectLastInSeq(functionOf, LAMBDA f : f < first)
    <2>1. l \in 0 .. Len(code) /\ \A b \in DOMAIN code : b <= l <=> functionOf[b] < first
      BY BlocksBefore
    <2>2. BB' = 1 + l
      BY <1>0
    <2> HIDE DEF l
    <2> QED BY <1>2, <2>1, <2>2
  <1>4. ASSUME NEW b \in DOMAIN code, Locates(first, functionOf[b])' PROVE ~(b < BB')
    <2>1. ~(functionOf[b] < first)
      BY <1>0, <1>2, <1>4 DEF Locates
    <2> QED BY <1>3, <2>1
  <1>5. LocTyping'
    BY <1>0, <1>2, <1>3 DEF LocTyping, Instruction, SyntheticValue, Functions
  <1>6. Position(first)'
    <2>1. first \in first .. last + 1 /\ BB' >= 1
      BY <1>2, <1>3
    <2> QED BY <1>0, <1>3, <2>1 DEF Position, Applying, Applied
  <1>7. InBlock'
    BY <1>0 DEF InBlock
  <1>8. Ordered' /\ Blocks' /\ Placed'
    BY <1>0, CodeKept
  <1>9. Numbering(first)'
    <2>1. PICK n : n = BB'
      OBVIOUS
    <2>2. PlacesBefore(first, n)' = {}
      BY <1>0, <1>4, <2>1 DEF PlacesBefore
    <2>3. Before(first, n)' = 0
      BY <2>2, FS_EmptySet DEF Before
    <2>4. Ahead' = n
      BY <1>0, <2>1 DEF Ahead
    <2>5. \A b \in DOMAIN code : ~HasLines(first, b)'
      BY <1>0, <1>4 DEF HasLines
    <2>6. \A b \in DOMAIN code : Clean(b)'
      BY <1>0, CodeKept DEF Numbering
    <2> QED BY <1>0, <2>3, <2>4, <2>5, <2>6 DEF Numbering
  <1>10. Subprograms(first)'
    <2>1. \A f \in Functions : ~(Locates(first, f)' /\ Begun(f)')
      <3> SUFFICES ASSUME NEW f \in Functions, Locates(first, f)', f < first PROVE FALSE
        BY <1>0 DEF Begun
      <3>1. f \in Nat /\ f >= first
        BY <1>0, <1>2 DEF Locates, Functions
      <3> QED BY <3>1
    <2> QED BY <1>0, <2>1, CodeKept DEF Subprograms
  <1>11. Describing(first)'
    <2>1. ASSUME NEW b \in DOMAIN code PROVE DbgPlacesOf(b) = {} /\ \A i : DescribedAt(b, i) = {}
      <3>1. NoDbg(b)
        BY <1>0 DEF Numbering, Clean
      <3> QED BY <3>1 DEF DbgPlacesOf, DescribedAt, NoDbg
    <2>2. AllDbgPlaces = {}
      BY <2>1 DEF AllDbgPlaces
    <2>3. Cardinality(AllDbgPlaces) = 0
      BY <2>2, FS_EmptySet
    <2>4. ASSUME NEW b \in DOMAIN code, NEW i PROVE ~Seen(first, b, i)'
      <3> SUFFICES ASSUME Seen(first, b, i)' PROVE FALSE
        OBVIOUS
      <3>1. Locates(first, functionOf[b])' /\ b < BB'
        BY <1>0 DEF Seen, Applying
      <3> QED BY <1>4, <3>1
    <2>5. NextVar' = 1 + Cardinality(AllDbgPlaces)'
      BY <1>0, <2>3, CodeKept
    <2>6. \A b \in DOMAIN code : \A i : DescribedAt(b, i)' = {}
      BY <1>0, <2>1, CodeKept
    <2> QED BY <1>0, <2>4, <2>5, <2>6 DEF Describing, Applied
  <1>12. Erasing'
    BY <1>0 DEF Erasing
  <1> QED BY <1>5, <1>6, <1>7, <1>8, <1>9, <1>10, <1>11, <1>12

\* A block has been erased when the loop is behind its last place (IRLocator.cpp:20-30).
LEMMA EraseInNextBlockKeeps ==
    ASSUME NEW first \in Nat, LocInv(first), EraseInNextBlock
    PROVE  LocInv(first)'
  <1> USE DEF LocInv
  <1>0. /\ locPc = "erase" /\ locPc' = "erase" /\ code' = code /\ functionOf' = functionOf
        /\ exact' = exact /\ dbgCU' = dbgCU /\ debugifyMD' = debugifyMD
        /\ subprogram' = subprogram /\ NextLine' = NextLine /\ NextVar' = NextVar
        /\ F' = F /\ LastF' = LastF /\ BB' = BB + 1 /\ InsertBefore' = InsertBefore
        /\ I' = 1 /\ BB \in DOMAIN code /\ I \notin DOMAIN code[BB]
    BY DEF EraseInNextBlock, program, debugInfo, counters
  <1>2. /\ DOMAIN code = 1 .. Len(code) /\ Len(code) \in Nat /\ BB \in 1 .. Len(code)
        /\ I \in Nat /\ I >= 1
    BY <1>0, Typed DEF LocTyping, Erasing
  <1>5. LocTyping'
    BY <1>0, <1>2 DEF LocTyping, Instruction, SyntheticValue, Functions
  <1>6. Position(first)'
    BY <1>0 DEF Position, Applying, Applied
  <1>7. InBlock'
    BY <1>0 DEF InBlock
  <1>8. Ordered' /\ Blocks' /\ Placed'
    BY <1>0, CodeKept
  <1>9. Numbering(first)'
    <2>1. Ahead' = Ahead
      BY <1>0 DEF Ahead
    <2>2. \A b \in DOMAIN code : HasLines(first, b)' <=> HasLines(first, b)
      BY <1>0, CodeKept DEF HasLines
    <2> QED BY <1>0, <2>1, <2>2, CodeKept DEF Numbering, Applying, Applied
  <1>10. Subprograms(first)'
    BY <1>0, CodeKept DEF Subprograms, Begun
  <1>11. Describing(first)'
    BY <1>0, <1>2 DEF Describing, Applying, Applied
  <1>12. Erasing'
    <2>1. NoDbg(BB)
      <3>1. \A i \in DOMAIN code[BB] : i < I
        <4>1. code[BB] # <<>> /\ Len(code[BB]) \in Nat /\ DOMAIN code[BB] = 1 .. Len(code[BB])
          BY <1>0, Typed DEF Blocks, WellFormed
        <4> QED BY <1>0, <1>2, <4>1
      <3> QED BY <1>0, <3>1 DEF Erasing, NoDbg
    <2>2. ASSUME NEW b \in DOMAIN code, b < BB + 1 PROVE NoDbg(b)
      <3>1. b < BB \/ b = BB
        BY <1>2, <2>2
      <3> QED BY <1>0, <2>1, <3>1 DEF Erasing
    <2>3. \A b \in DOMAIN code : \A i \in DOMAIN code[b] : ~(i < 1)
      BY Typed
    <2> QED BY <1>0, <1>2, <2>2, <2>3, CodeKept DEF Erasing
  <1> QED BY <1>5, <1>6, <1>7, <1>8, <1>9, <1>10, <1>11, <1>12

\* IRLocator::run returns (IRLocator.cpp:31-32).
LEMMA LocatedKeeps ==
    ASSUME NEW first \in Nat, LocInv(first), Located
    PROVE  LocInv(first)'
  <1> USE DEF LocInv
  <1>0. /\ locPc = "erase" /\ locPc' = "done" /\ code' = code /\ functionOf' = functionOf
        /\ exact' = exact /\ dbgCU' = dbgCU /\ debugifyMD' = debugifyMD
        /\ subprogram' = subprogram /\ NextLine' = NextLine /\ NextVar' = NextVar
        /\ F' = F /\ LastF' = LastF /\ BB' = BB /\ InsertBefore' = InsertBefore
        /\ I' = I /\ BB \notin DOMAIN code
    BY DEF Located, program, debugInfo, counters, cursors
  <1>2. /\ DOMAIN code = 1 .. Len(code) /\ Len(code) \in Nat /\ BB = Len(code) + 1
    BY <1>0, Typed DEF LocTyping, Erasing
  <1>5. LocTyping'
    BY <1>0 DEF LocTyping, Instruction, SyntheticValue, Functions
  <1>6. Position(first)'
    BY <1>0 DEF Position, Applying, Applied
  <1>7. InBlock'
    BY <1>0 DEF InBlock
  <1>8. Ordered' /\ Blocks' /\ Placed'
    BY <1>0, CodeKept
  <1>9. Numbering(first)'
    <2>1. Ahead' = Ahead
      BY <1>0 DEF Ahead
    <2>2. \A b \in DOMAIN code : HasLines(first, b)' <=> HasLines(first, b)
      BY <1>0, CodeKept DEF HasLines
    <2> QED BY <1>0, <2>1, <2>2, CodeKept DEF Numbering, Applying, Applied
  <1>10. Subprograms(first)'
    BY <1>0, CodeKept DEF Subprograms, Begun
  <1>11. Describing(first)'
    <2>1. \A b, i : Seen(first, b, i)' <=> Seen(first, b, i)
      BY <1>0, CodeKept DEF Seen, Applying
    <2> QED BY <1>0, <2>1, CodeKept DEF Describing, Applying, Applied
  <1>12. Erasing'
    <2>1. \A b \in DOMAIN code : b < BB
      BY <1>2
    <2> QED BY <1>0, <2>1, CodeKept DEF Erasing
  <1> QED BY <1>5, <1>6, <1>7, <1>8, <1>9, <1>10, <1>11, <1>12

--------------------------------------------------------------------------------
(* The steps that change a block. *)
\* What is among the places of the debug intrinsics.
LEMMA DbgPlacesMember ==
    \A b, i : <<b, i>> \in AllDbgPlaces <=> b \in DOMAIN code /\ i \in DbgPlacesOf(b)
  <1>1. ASSUME NEW b, NEW i, <<b, i>> \in AllDbgPlaces PROVE b \in DOMAIN code /\ i \in DbgPlacesOf(b)
    <2>1. PICK c \in DOMAIN code : <<b, i>> \in {c} \X DbgPlacesOf(c)
      BY <1>1 DEF AllDbgPlaces
    <2> QED BY <2>1
  <1>2. ASSUME NEW b \in DOMAIN code, NEW i \in DbgPlacesOf(b) PROVE <<b, i>> \in AllDbgPlaces
    BY DEF AllDbgPlaces
  <1> QED BY <1>1, <1>2

\* A place is a block and a place in it.
LEMMA DbgPlacesPairs ==
    \A p \in AllDbgPlaces : /\ p = <<p[1], p[2]>>
                            /\ p[1] \in DOMAIN code /\ p[2] \in DbgPlacesOf(p[1])
  <1> SUFFICES ASSUME NEW p \in AllDbgPlaces
               PROVE  p = <<p[1], p[2]>> /\ p[1] \in DOMAIN code /\ p[2] \in DbgPlacesOf(p[1])
    OBVIOUS
  <1>1. PICK c \in DOMAIN code : p \in {c} \X DbgPlacesOf(c)
    BY DEF AllDbgPlaces
  <1> QED BY <1>1

\* There are finitely many debug intrinsics.
LEMMA DbgPlacesFinite ==
    ASSUME LocTyping
    PROVE  IsFiniteSet(AllDbgPlaces) /\ Cardinality(AllDbgPlaces) \in Nat
  <1> DEFINE Sets == {{c} \X DbgPlacesOf(c) : c \in DOMAIN code}
  <1>1. IsFiniteSet(DOMAIN code)
    BY Typed, FS_Interval, 1 \in Int
  <1>3. IsFiniteSet(Sets)
    <2> DEFINE f == [c \in DOMAIN code |-> {c} \X DbgPlacesOf(c)]
    <2>1. f \in Surjection(DOMAIN code, Sets)
      BY DEF Surjection
    <2> HIDE DEF f, Sets
    <2> QED BY <1>1, <2>1, FS_Surjection
  <1>4. ASSUME NEW T \in Sets PROVE IsFiniteSet(T)
    <2>1. PICK c \in DOMAIN code : T = {c} \X DbgPlacesOf(c)
      OBVIOUS
    <2>2. DOMAIN code[c] = 1 .. Len(code[c]) /\ Len(code[c]) \in Nat
      BY Typed
    <2>3. IsFiniteSet(DOMAIN code[c]) /\ DbgPlacesOf(c) \in SUBSET DOMAIN code[c]
      BY <2>2, FS_Interval, 1 \in Int, Len(code[c]) \in Int DEF DbgPlacesOf
    <2>4. IsFiniteSet({c}) /\ IsFiniteSet(DbgPlacesOf(c))
      BY <2>3, FS_Singleton, FS_Subset
    <2> QED BY <2>1, <2>4, FS_Product
  <1> HIDE DEF Sets
  <1>5. IsFiniteSet(UNION Sets)
    BY <1>3, <1>4, FS_UNION
  <1> QED BY <1>5, FS_CardinalityType DEF AllDbgPlaces, Sets

\* What stays when one block is changed, as long as its body keeps its length.
LEMMA BlockChanged ==
    ASSUME NEW first \in Nat, LocTyping, NEW B \in DOMAIN code,
           NEW t \in Seq(Instruction \cup SyntheticValue),
           code' = [code EXCEPT ![B] = t], functionOf' = functionOf, exact' = exact,
           LastF' = LastF, Len(WithoutDbg(t)) = Len(WithoutDbg(code[B]))
    PROVE  /\ DOMAIN code' = DOMAIN code /\ Len(code') = Len(code)
           /\ code'[B] = t /\ \A b \in DOMAIN code : b # B => code'[b] = code[b]
           /\ code' \in Seq(Seq(Instruction \cup SyntheticValue))
           /\ Instruction' = Instruction /\ SyntheticValue' = SyntheticValue
           /\ Functions' = Functions
           /\ Ordered => Ordered'
           /\ \A b \in DOMAIN code : FirstBlock(b)' <=> FirstBlock(b)
           /\ \A f : Locates(first, f)' <=> Locates(first, f)
           /\ \A n : Before(first, n)' = Before(first, n)
  <1>1. code \in Seq(Seq(Instruction \cup SyntheticValue)) /\ DOMAIN code = 1 .. Len(code)
    BY Typed DEF LocTyping
  <1>2. /\ DOMAIN code' = DOMAIN code /\ Len(code') = Len(code)
        /\ code'[B] = t /\ \A b \in DOMAIN code : b # B => code'[b] = code[b]
        /\ code' \in Seq(Seq(Instruction \cup SyntheticValue))
    BY <1>1
  <1>3. Instruction' = Instruction /\ SyntheticValue' = SyntheticValue
    BY <1>2 DEF Instruction, SyntheticValue
  <1>4. (Ordered => Ordered') /\ Functions' = Functions
    BY <1>2 DEF Ordered, Functions
  <1>5. \A b \in DOMAIN code : FirstBlock(b)' <=> FirstBlock(b)
    BY <1>2 DEF FirstBlock
  <1>6. \A f : Locates(first, f)' <=> Locates(first, f)
    BY DEF Locates
  <1>7. \A b \in DOMAIN code : Len(Body(b))' = Len(Body(b))
    BY <1>2 DEF Body
  <1>8. \A n : Before(first, n)' = Before(first, n)
    <2> SUFFICES ASSUME NEW n PROVE PlacesBefore(first, n)' = PlacesBefore(first, n)
      BY DEF Before
    <2>1. {d \in DOMAIN code : d < n /\ Locates(first, functionOf[d])}' =
          {d \in DOMAIN code : d < n /\ Locates(first, functionOf[d])}
      BY <1>2, <1>6
    <2> QED BY <1>7, <2>1 DEF PlacesBefore
  <1> QED BY <1>2, <1>3, <1>4, <1>5, <1>6, <1>8

\* A debug intrinsic more is one place more.
LEMMA DbgPlacesWidened ==
    ASSUME LocTyping, NEW B \in DOMAIN code,
           NEW t \in Seq(Instruction \cup SyntheticValue), NEW at \in Nat,
           Widened(code[B], t, at), t[at].kind = "dbg", code' = [code EXCEPT ![B] = t]
    PROVE  Cardinality(AllDbgPlaces') = Cardinality(AllDbgPlaces) + 1
  <1> DEFINE s == code[B]
             P == AllDbgPlaces
             Q == AllDbgPlaces'
             moved(p) == <<p[1], IF p[1] = B THEN Past(at, p[2]) ELSE p[2]>>
             f == [p \in P |-> moved(p)]
  <1>0. /\ s \in Seq(Instruction \cup SyntheticValue) /\ DOMAIN s = 1 .. Len(s)
        /\ DOMAIN t = 1 .. Len(t) /\ at \in 1 .. Len(t)
    BY Typed, BodyFinite DEF Widened
  <1>1. /\ DOMAIN code' = DOMAIN code /\ code'[B] = t
        /\ \A b \in DOMAIN code : b # B => code'[b] = code[b]
    BY Typed DEF LocTyping
  <1>2. /\ \A i \in 1 .. Len(s) : Past(at, i) \in 1 .. Len(t) /\ t[Past(at, i)] = s[i]
        /\ \A j \in 1 .. Len(t) : j # at => \E i \in 1 .. Len(s) : j = Past(at, i)
    BY <1>0, BodyWidened
  <1>3. /\ \A b, i : <<b, i>> \in P <=> b \in DOMAIN code /\ i \in DOMAIN code[b] /\ code[b][i].kind = "dbg"
        /\ \A b, i : <<b, i>> \in Q <=> b \in DOMAIN code' /\ i \in DOMAIN code'[b] /\ code'[b][i].kind = "dbg"
    <2>1. \A b, i : <<b, i>> \in P <=> b \in DOMAIN code /\ i \in DbgPlacesOf(b)
      BY DbgPlacesMember
    <2>2. (\A b, i : <<b, i>> \in P <=> b \in DOMAIN code /\ i \in DbgPlacesOf(b))'
      BY DbgPlacesMember, PTL
    <2> QED BY <2>1, <2>2 DEF DbgPlacesOf
  <1>4. \A p \in P : p = <<p[1], p[2]>>
    BY DbgPlacesPairs
  <1>5. \A p \in Q : p = <<p[1], p[2]>>
    <2>1. (\A p \in AllDbgPlaces : /\ p = <<p[1], p[2]>>
                                   /\ p[1] \in DOMAIN code /\ p[2] \in DbgPlacesOf(p[1]))'
      BY DbgPlacesPairs, PTL
    <2> QED BY <2>1
  <1>6. <<B, at>> \in Q
    BY <1>0, <1>1, <1>3
  <1> HIDE DEF P, Q
  <1>7. ASSUME NEW p \in P PROVE moved(p) \in Q \ {<<B, at>>}
    <2>1. PICK b, i : p = <<b, i>> /\ b \in DOMAIN code /\ i \in DOMAIN code[b] /\ code[b][i].kind = "dbg"
      BY <1>3, <1>4
    <2>2. CASE b = B
      <3>1. i \in 1 .. Len(s) /\ Past(at, i) # at
        BY <1>0, <2>1, <2>2 DEF Past
      <3>2. <<B, Past(at, i)>> \in Q
        BY <1>0, <1>1, <1>2, <1>3, <2>1, <2>2, <3>1
      <3> QED BY <2>1, <2>2, <3>1, <3>2
    <2>3. CASE b # B
      BY <1>1, <1>3, <2>1, <2>3
    <2> QED BY <2>2, <2>3
  <1>8. ASSUME NEW p \in P, NEW q \in P, moved(p) = moved(q) PROVE p = q
    <2>1. PICK b, i : p = <<b, i>> /\ b \in DOMAIN code /\ i \in DOMAIN code[b]
      BY <1>3, <1>4
    <2>2. PICK c, j : q = <<c, j>> /\ c \in DOMAIN code /\ j \in DOMAIN code[c]
      BY <1>3, <1>4
    <2>3. b = c
      BY <1>8, <2>1, <2>2
    <2>4. CASE b = B
      <3>1. i \in Int /\ j \in Int /\ Past(at, i) = Past(at, j)
        BY <1>0, <1>8, <2>1, <2>2, <2>3, <2>4
      <3> QED BY <2>1, <2>2, <2>3, <3>1 DEF Past
    <2>5. CASE b # B
      BY <1>8, <2>1, <2>2, <2>3, <2>5
    <2> QED BY <2>4, <2>5
  <1>9. ASSUME NEW q \in Q \ {<<B, at>>} PROVE \E p \in P : moved(p) = q
    <2>1. PICK b, j : q = <<b, j>> /\ b \in DOMAIN code /\ j \in DOMAIN code'[b] /\ code'[b][j].kind = "dbg"
      BY <1>1, <1>3, <1>5
    <2>2. CASE b = B
      <3>1. j \in 1 .. Len(t) /\ j # at
        BY <1>0, <1>1, <2>1, <2>2
      <3>2. PICK i \in 1 .. Len(s) : j = Past(at, i)
        BY <1>2, <3>1
      <3>3. s[i].kind = "dbg"
        BY <1>1, <1>2, <2>1, <2>2, <3>2
      <3>4. <<B, i>> \in P
        BY <1>0, <1>3, <3>3
      <3>5. moved(<<B, i>>) = q
        BY <2>1, <2>2, <3>2
      <3> QED BY <3>4, <3>5
    <2>3. CASE b # B
      <3>1. <<b, j>> \in P
        BY <1>1, <1>3, <2>1, <2>3
      <3>2. moved(<<b, j>>) = q
        BY <2>1, <2>3
      <3> QED BY <3>1, <3>2
    <2> QED BY <2>2, <2>3
  <1> HIDE DEF moved
  <1>10. f \in Bijection(P, Q \ {<<B, at>>})
    <2>1. f \in [P -> Q \ {<<B, at>>}]
      BY <1>7
    <2>2. \A p, q \in P : f[p] = f[q] => p = q
      BY <1>8
    <2>3. \A q \in Q \ {<<B, at>>} : \E p \in P : f[p] = q
      BY <1>9
    <2> QED BY <2>1, <2>2, <2>3 DEF Bijection, Injection, Surjection, IsInjective
  <1> HIDE DEF f
  <1>11. IsFiniteSet(P) /\ Cardinality(P) \in Nat
    BY DbgPlacesFinite DEF P
  <1>12. /\ IsFiniteSet(Q \ {<<B, at>>})
         /\ Cardinality(Q \ {<<B, at>>}) = Cardinality(P)
    BY <1>10, <1>11, FS_Bijection DEF ExistsBijection
  <1> DEFINE R == Q \ {<<B, at>>}
  <1>13. Q = R \cup {<<B, at>>} /\ <<B, at>> \notin R
    BY <1>6
  <1>14. IsFiniteSet(R) /\ Cardinality(R) = Cardinality(P)
    BY <1>12
  <1> HIDE DEF R
  <1>15. Cardinality(R \cup {<<B, at>>}) = Cardinality(R) + 1
    BY <1>13, <1>14, FS_AddElement
  <1> QED BY <1>13, <1>14, <1>15 DEF P, Q

\* What an instruction has, what is made of it and what of its line.
LEMMA Fields ==
    ASSUME NEW e \in Instruction \cup SyntheticValue
    PROVE  /\ e.id \in (DOMAIN code) \X Nat /\ e.kind \in Kind /\ e.line \in Line
           /\ NextVar \in Nat => /\ DbgValue(e) \in SyntheticValue
                                 /\ DbgValue(e).kind = "dbg" /\ DbgValue(e).id = e.id
                                 /\ DbgValue(e).line = e.line
           /\ e.kind # "dbg" => \A n \in Line : /\ [e EXCEPT !.line = n] \in Instruction
                                                /\ [e EXCEPT !.line = n].id = e.id
                                                /\ [e EXCEPT !.line = n].kind = e.kind
                                                /\ [e EXCEPT !.line = n].line = n
  <1>1. e.id \in (DOMAIN code) \X Nat /\ e.kind \in Kind /\ e.line \in Line
    BY DEF Instruction, SyntheticValue, Kind, ValueKind
  <1>2. NextVar \in Nat => /\ DbgValue(e) \in SyntheticValue
                           /\ DbgValue(e).kind = "dbg" /\ DbgValue(e).id = e.id
                           /\ DbgValue(e).line = e.line
    BY <1>1 DEF SyntheticValue, DbgValue
  <1>3. ASSUME e.kind # "dbg", NEW n \in Line
        PROVE  /\ [e EXCEPT !.line = n] \in Instruction
               /\ [e EXCEPT !.line = n].id = e.id
               /\ [e EXCEPT !.line = n].kind = e.kind
               /\ [e EXCEPT !.line = n].line = n
    <2>1. e \in Instruction
      BY <1>3 DEF SyntheticValue
    <2> QED BY <2>1 DEF Instruction
  <1> QED BY <1>1, <1>2, <1>3

\* The pass is in front of a value: where it stands, and where the debug value goes
\* (Debugify.cpp:122-143).
LEMMA InsertionPoint ==
    ASSUME NEW first \in Nat, LocInv(first), locPc = "values", I # LastInst,
           code[BB][I].kind \in ValueKind,
           NEW at, at = IF code[BB][I].kind \in {"phi", "pad"} THEN InsertBefore ELSE I + 1
    PROVE  /\ BB \in DOMAIN code /\ functionOf[BB] = F /\ code[BB] \in Seq(Instruction \cup SyntheticValue)
           /\ WellFormed(code[BB]) /\ LastInst = FindTerminatingInstruction(code[BB])
           /\ DOMAIN code[BB] = 1 .. Len(code[BB]) /\ Len(code[BB]) \in Nat
           /\ LastInst \in 1 .. Len(code[BB]) /\ I \in 1 .. LastInst /\ I < LastInst
           /\ at \in 1 .. LastInst /\ I < at
           /\ \A i \in DOMAIN code[BB] : code[BB][i].kind = "phi" => i < at
           /\ ~IsEHPad(code[BB])
  <1> USE DEF LocInv
  <1> DEFINE s == code[BB]
             l == FindTerminatingInstruction(s)
  <1>1. BB \in DOMAIN code /\ functionOf[BB] = F
    BY DEF Position, AtBlock
  <1>2. s \in Seq(Instruction \cup SyntheticValue) /\ WellFormed(s) /\ LastInst = l
    BY <1>1, Typed DEF Blocks, LastInst
  <1>3. DOMAIN s = 1 .. Len(s)
    BY <1>1, Typed
  <1>4. Len(s) \in Nat /\ l \in 1 .. Len(s)
    BY <1>2, Terminating
  <1>5. I \in 1 .. l /\ InsertBefore \in 1 .. l /\ ~IsEHPad(s)
    BY <1>2 DEF InBlock
  <1>6. I < l
    BY <1>2, <1>4, <1>5
  <1>7. I \in DOMAIN s
    BY <1>3, <1>4, <1>5
  <1>8. s[I].kind # "pad"
    BY <1>5, <1>7 DEF IsEHPad
  <1>9. CASE s[I].kind = "phi"
    <2>1. at = InsertBefore /\ \A i \in DOMAIN s : s[i].kind = "phi" => i < at
      BY <1>9 DEF InBlock
    <2> QED BY <1>1, <1>2, <1>3, <1>4, <1>5, <1>6, <1>7, <1>9, <2>1
  <1>10. CASE s[I].kind # "phi"
    <2>1. at = I + 1
      BY <1>8, <1>10
    <2>2. at \in 1 .. l /\ I < at
      BY <1>4, <1>5, <1>6, <2>1
    <2>3. ASSUME NEW i \in DOMAIN s, s[i].kind = "phi" PROVE i < at
      <3>1. ASSUME ~(i < at) PROVE FALSE
        <4>1. i \in 1 .. Len(s)
          BY <1>3
        <4>2. I \in 1 .. i
          BY <1>4, <1>5, <2>1, <3>1, <4>1
        <4> QED BY <1>2, <1>10, <2>3, <4>2 DEF WellFormed
      <3> QED BY <3>1
    <2> QED BY <1>1, <1>2, <1>3, <1>4, <1>5, <1>6, <2>2, <2>3
  <1> QED BY <1>9, <1>10

\* A value is described behind it, and behind all phis if it is one; the pass stands
\* right then (Debugify.cpp:127-143).
LEMMA InsertDbgValueKeeps ==
    ASSUME NEW first \in Nat, LocInv(first), InsertDbgValue
    PROVE  LocInv(first)' /\ \A b \in DOMAIN code : Body(b)' = Body(b)
  <1> USE DEF LocInv
  <1>0. /\ locPc = "values" /\ locPc' = "values" /\ functionOf' = functionOf
        /\ exact' = exact /\ dbgCU' = dbgCU /\ debugifyMD' = debugifyMD
        /\ subprogram' = subprogram /\ NextLine' = NextLine /\ NextVar' = NextVar + 1
        /\ F' = F /\ LastF' = LastF /\ BB' = BB /\ I' = I + 1
        /\ I # LastInst /\ code[BB][I].kind \in ValueKind
    BY DEF InsertDbgValue, program, debugInfo
  <1>n. NextVar \in Nat
    BY DEF LocTyping
  <1> DEFINE at0 == IF code[BB][I].kind \in {"phi", "pad"} THEN InsertBefore ELSE I + 1
  <1>p. PICK at : at = at0
    OBVIOUS
  <1> HIDE DEF at0
  <1>1. /\ BB \in DOMAIN code /\ functionOf[BB] = F /\ code[BB] \in Seq(Instruction \cup SyntheticValue)
        /\ WellFormed(code[BB]) /\ LastInst = FindTerminatingInstruction(code[BB])
        /\ DOMAIN code[BB] = 1 .. Len(code[BB]) /\ Len(code[BB]) \in Nat
        /\ LastInst \in 1 .. Len(code[BB]) /\ I \in 1 .. LastInst /\ I < LastInst
        /\ at \in 1 .. LastInst /\ I < at
        /\ \A i \in DOMAIN code[BB] : code[BB][i].kind = "phi" => i < at
        /\ ~IsEHPad(code[BB])
    BY <1>0, <1>p, InsertionPoint DEF at0
  <1>q. PICK B \in DOMAIN code : B = BB
    BY <1>1
  <1>s. PICK s \in Seq(Instruction \cup SyntheticValue) : s = code[B]
    BY <1>1, <1>q
  <1>t. PICK t : t = InsertAt(s, at, DbgValue(s[I]))
    OBVIOUS
  <1>2. code' = [code EXCEPT ![B] = t] /\ InsertBefore' = at + 1
    BY <1>p, <1>q, <1>s, <1>t DEF InsertDbgValue, at0
  <1>k. PICK k : k = I
    OBVIOUS
  <1>l. PICK l : l = LastInst
    OBVIOUS
  <1>3. /\ WellFormed(s) /\ l = FindTerminatingInstruction(s) /\ s[k].kind \in ValueKind
        /\ Len(s) \in Nat /\ l \in 1 .. Len(s) /\ k \in 1 .. l /\ k < l
        /\ at \in 1 .. l /\ k < at /\ ~IsEHPad(s)
    BY <1>0, <1>1, <1>q, <1>s, <1>k, <1>l
  <1>d. DOMAIN s = 1 .. Len(s) /\ \A i \in DOMAIN s : s[i].kind = "phi" => i < at
    BY <1>1, <1>q, <1>s
  <1>4. k \in 1 .. Len(s) /\ at \in 1 .. Len(s) + 1 /\ at \in Nat /\ k \in Nat /\ k + 1 \in Nat
    BY <1>3
  <1>5. s[k] \in Instruction \cup SyntheticValue
    BY <1>4, ElementOfSeq
  <1>6. /\ DbgValue(s[k]) \in Instruction \cup SyntheticValue /\ DbgValue(s[k]).kind = "dbg"
        /\ DbgValue(s[k]).id = s[k].id /\ DbgValue(s[k]).line = s[k].line
    BY <1>n, <1>5, Fields
  <1>7. t \in Seq(Instruction \cup SyntheticValue) /\ Widened(s, t, at) /\ t[at] = DbgValue(s[k])
    <2>1. PICK e : e = DbgValue(s[k])
      OBVIOUS
    <2>2. PICK T : T = Instruction \cup SyntheticValue
      OBVIOUS
    <2>3. s \in Seq(T) /\ e \in T /\ at \in 1 .. Len(s) + 1
      BY <1>4, <1>6, <2>1, <2>2
    <2>4. /\ InsertAt(s, at, e) \in Seq(T) /\ Widened(s, InsertAt(s, at, e), at)
          /\ InsertAt(s, at, e)[at] = e
      BY <2>3, Inserted
    <2>5. t = InsertAt(s, at, e)
      BY <1>t, <1>k, <2>1
    <2> QED BY <2>1, <2>2, <2>4, <2>5
  <1>8. /\ t[at].kind = "dbg" /\ t[at].id = s[k].id /\ t[at].line = s[k].line
    BY <1>6, <1>7
  <1>9. /\ \A i \in 1 .. Len(s) : Past(at, i) \in 1 .. Len(t) /\ t[Past(at, i)] = s[i]
        /\ \A j \in 1 .. Len(t) : j # at => \E i \in 1 .. Len(s) : j = Past(at, i)
        /\ \A i \in 1 .. Len(s) : i \in BodyOf(s) <=> Past(at, i) \in BodyOf(t)
        /\ at \notin BodyOf(t)
        /\ WithoutDbg(t) = WithoutDbg(s)
    BY <1>4, <1>7, <1>8, BodyWidened
  <1>10. WellFormed(t) /\ FindTerminatingInstruction(t) = l + 1 /\ ~IsEHPad(t)
    <2>1. at <= FindTerminatingInstruction(s)
      BY <1>3
    <2>2. /\ WellFormed(t)
          /\ FindTerminatingInstruction(t) = FindTerminatingInstruction(s) + 1
          /\ IsEHPad(t) <=> IsEHPad(s)
      BY <1>3, <1>4, <1>d, <1>7, <1>8, <2>1, WellFormedInserted
    <2> QED BY <1>3, <2>2
  <1>t1. Len(t) = Len(s) + 1 /\ at \in 1 .. Len(t)
    BY <1>7 DEF Widened
  <1>t2. DOMAIN t = 1 .. Len(t)
    BY <1>7
  <1>11. /\ DOMAIN code' = DOMAIN code /\ Len(code') = Len(code)
         /\ code'[B] = t /\ \A b \in DOMAIN code : b # B => code'[b] = code[b]
         /\ code' \in Seq(Seq(Instruction \cup SyntheticValue))
         /\ Instruction' = Instruction /\ SyntheticValue' = SyntheticValue
         /\ Functions' = Functions
         /\ Ordered => Ordered'
         /\ \A b \in DOMAIN code : FirstBlock(b)' <=> FirstBlock(b)
         /\ \A f : Locates(first, f)' <=> Locates(first, f)
         /\ \A n : Before(first, n)' = Before(first, n)
    BY <1>0, <1>2, <1>7, <1>9, <1>s, BlockChanged
  <1>12. \A b \in DOMAIN code : Body(b)' = Body(b)
    BY <1>9, <1>11, <1>s DEF Body
  <1>13. LocTyping'
    <2>1. I' \in Nat /\ InsertBefore' \in Nat /\ NextVar' \in Nat \ {0}
      BY <1>0, <1>n, <1>2, <1>4, <1>k
    <2>2. /\ Len(functionOf') = Len(code') /\ functionOf' \in Seq(Functions')
          /\ exact' \in Seq(BOOLEAN) /\ BB' \in 0 .. Len(code') + 1
          /\ code' \in Seq(Seq(Instruction' \cup SyntheticValue'))
          /\ subprogram' \in [Functions' -> Nat]
      BY <1>0, <1>11 DEF LocTyping
    <2> QED BY <1>0, <2>1, <2>2 DEF LocTyping
  <1>14. Position(first)'
    BY <1>0, <1>11 DEF Position, AtBlock, Applying, Applied
  <1>15. InBlock'
    <2>1. LastInst' = l + 1
      BY <1>0, <1>10, <1>11, <1>q DEF LastInst
    <2>2. I' \in 1 .. l + 1 /\ InsertBefore' \in 1 .. l + 1
      BY <1>0, <1>2, <1>3, <1>k
    <2>3. ASSUME NEW j \in 1 .. Len(t), t[j].kind = "phi" PROVE j < at + 1
      <3>1. PICK i \in 1 .. Len(s) : j = Past(at, i)
        BY <1>8, <1>9, <2>3
      <3>2. i < at
        BY <1>9, <1>d, <2>3, <3>1
      <3> QED BY <1>4, <3>1, <3>2 DEF Past
    <2> QED BY <1>0, <1>2, <1>10, <1>11, <1>q, <1>t2, <2>1, <2>2, <2>3 DEF InBlock
  <1>16. Blocks'
    BY <1>10, <1>11 DEF Blocks
  <1>17. Numbering(first)'
    <2>1. \A b \in DOMAIN code : HasLines(first, b)' <=> HasLines(first, b)
      BY <1>0, <1>11 DEF HasLines
    <2>2. HasLines(first, B)
      <3>1. F \in first .. LastF /\ exact[F] /\ BB \in Nat
        BY <1>0, <1>1, Typed DEF Position, Applying, LocTyping
      <3> QED BY <1>0, <1>1, <1>q, <3>1 DEF HasLines, Locates
    <2>3. \A b \in DOMAIN code : b # B => (Clean(b)' <=> Clean(b))
      BY <1>11 DEF Clean, NoDbg
    <2>4. Ahead = BB + 1 /\ Ahead' = BB + 1
      BY <1>0 DEF Ahead
    <2>5. PICK n : n = BB + 1
      OBVIOUS
    <2>6. NextLine = 1 + Before(first, n)
      BY <1>0, <2>4, <2>5 DEF Numbering, Applying
    <2>7. NextLine' = 1 + Before(first, n)' /\ Ahead' = n
      BY <1>0, <1>11, <2>4, <2>5, <2>6
    <2>8. \A b \in DOMAIN code :
              IF HasLines(first, b)
              THEN \A i \in 1 .. Len(Body(b)) : Body(b)[i].line = Before(first, b) + i
              ELSE Clean(b)
      BY <1>0 DEF Numbering, Applying
    <2>9. \A b \in DOMAIN code :
              IF HasLines(first, b)'
              THEN \A i \in 1 .. Len(Body(b)') : Body(b)'[i].line = Before(first, b)' + i
              ELSE Clean(b)'
      BY <1>11, <1>12, <2>1, <2>2, <2>3, <2>8
    <2> QED BY <1>0, <1>11, <2>7, <2>9 DEF Numbering
  <1>18. Subprograms(first)'
    BY <1>0, <1>11 DEF Subprograms, Begun
  <1>19. Placed'
    <2>1. ASSUME NEW j \in 1 .. Len(t), t[j].kind = "dbg"
          PROVE  \E h \in 1 .. j - 1 : t[h].kind # "dbg" /\ t[h].id = t[j].id /\ t[h].line = t[j].line
      <3>1. CASE j = at
        <4>1. Past(at, k) = k /\ k \in 1 .. j - 1
          BY <1>3, <1>4, <3>1 DEF Past
        <4>2. t[k] = s[k] /\ s[k].kind # "dbg"
          BY <1>3, <1>4, <1>9, <4>1 DEF ValueKind
        <4> QED BY <1>8, <3>1, <4>1, <4>2
      <3>2. CASE j # at
        <4>1. PICK i \in 1 .. Len(s) : j = Past(at, i)
          BY <1>9, <3>2
        <4>2. t[j] = s[i] /\ s[i].kind = "dbg"
          BY <1>9, <2>1, <4>1
        <4>3. PICK h \in 1 .. i - 1 : s[h].kind # "dbg" /\ s[h].id = s[i].id /\ s[h].line = s[i].line
          BY <1>0, <1>s, <1>d, <4>2 DEF Placed
        <4>4. h \in 1 .. Len(s) /\ Past(at, h) \in 1 .. j - 1
          BY <1>3, <1>4, <4>1, <4>3 DEF Past
        <4>5. t[Past(at, h)] = s[h]
          BY <1>9, <4>4
        <4> QED BY <4>2, <4>3, <4>4, <4>5
      <3> QED BY <3>1, <3>2
    <2>2. \A b \in DOMAIN code : \A i \in DOMAIN code'[b] :
              code'[b][i].kind = "dbg" =>
                  \E j \in 1 .. i - 1 : /\ code'[b][j].kind # "dbg"
                                        /\ code'[b][j].id = code'[b][i].id
                                        /\ code'[b][j].line = code'[b][i].line
      <3> SUFFICES ASSUME NEW b \in DOMAIN code, NEW i \in DOMAIN code'[b], code'[b][i].kind = "dbg"
                   PROVE  \E j \in 1 .. i - 1 : /\ code'[b][j].kind # "dbg"
                                                /\ code'[b][j].id = code'[b][i].id
                                                /\ code'[b][j].line = code'[b][i].line
        OBVIOUS
      <3>1. CASE b = B
        BY <1>11, <1>t2, <2>1, <3>1
      <3>2. CASE b # B
        <4>1. code'[b] = code[b]
          BY <1>11, <3>2
        <4> QED BY <1>0, <4>1 DEF Placed
      <3> QED BY <3>1, <3>2
    <2> QED BY <1>11, <2>2 DEF Placed
  <1>21. Erasing'
    BY <1>0 DEF Erasing
  <1>20. Describing(first)'
    <2>1. /\ \A b \in DOMAIN code : \A i \in BodyOf(code[b]) :
                IF Seen(first, b, i) THEN \E j \in DOMAIN code[b] : DescribedAt(b, i) = {j}
                                     ELSE DescribedAt(b, i) = {}
          /\ NextVar = 1 + Cardinality(AllDbgPlaces)
      BY <1>0 DEF Describing, Applying
    <2>2. Cardinality(AllDbgPlaces') = Cardinality(AllDbgPlaces) + 1
      BY <1>2, <1>4, <1>7, <1>8, <1>s, DbgPlacesWidened
    <2>3. NextVar' = 1 + Cardinality(AllDbgPlaces')
      BY <1>0, <2>1, <2>2, DbgPlacesFinite
    <2>4. Locates(first, functionOf[B])
      <3>1. F \in first .. LastF /\ exact[F]
        BY <1>0, Typed DEF Position, Applying, LocTyping
      <3> QED BY <1>1, <1>q, <3>1 DEF Locates
    <2>5. /\ \A i : Seen(first, B, i) <=> s[i].kind \in ValueKind /\ i < l /\ i < k
          /\ \A i : Seen(first, B, i)' <=> t[i].kind \in ValueKind /\ i < l + 1 /\ i < k + 1
      <3>1. ~(B < BB)
        BY <1>q, Typed
      <3> QED BY <1>0, <1>3, <1>10, <1>11, <1>q, <1>s, <1>k, <2>4, <3>1 DEF Seen, Applying
    <2>6. /\ \A i : DescribedAt(B, i) = {j \in 1 .. Len(s) : s[j].kind = "dbg" /\ s[j].id = s[i].id}
          /\ \A i : DescribedAt(B, i)' = {j \in 1 .. Len(t) : t[j].kind = "dbg" /\ t[j].id = t[i].id}
      BY <1>11, <1>s, <1>d, <1>t2 DEF DescribedAt
    <2>7. \A i, j \in 1 .. Len(s) :
              s[i].kind # "dbg" /\ s[j].kind # "dbg" /\ s[i].id = s[j].id => i = j
      BY <1>3, <1>d DEF WellFormed
    <2>8. ASSUME NEW i \in BodyOf(t)
          PROVE  IF Seen(first, B, i)' THEN \E j \in DOMAIN t : DescribedAt(B, i)' = {j}
                                       ELSE DescribedAt(B, i)' = {}
      <3>1. i \in 1 .. Len(t) /\ i # at
        BY <1>9, <1>t2 DEF BodyOf
      <3>2. PICK g \in 1 .. Len(s) : i = Past(at, g)
        BY <1>9, <3>1
      <3>3. t[i] = s[g] /\ g \in BodyOf(s) /\ s[g].kind # "dbg"
        BY <1>9, <3>2 DEF BodyOf
      <3>4. IF Seen(first, B, g) THEN \E j \in DOMAIN s : DescribedAt(B, g) = {j}
                                 ELSE DescribedAt(B, g) = {}
        BY <1>s, <2>1, <3>3
      <3>5. CASE g = k
        <4>1. DescribedAt(B, k) = {}
          BY <1>4, <2>5, <3>4, <3>5
        <4>2. ASSUME NEW j \in 1 .. Len(t), t[j].kind = "dbg", t[j].id = s[k].id, j # at PROVE FALSE
          <5>1. PICK x \in 1 .. Len(s) : j = Past(at, x)
            BY <1>9, <4>2
          <5>2. x \in DescribedAt(B, k)
            BY <1>9, <2>6, <4>2, <5>1
          <5> QED BY <4>1, <5>2
        <4>3. DescribedAt(B, i)' = {at}
          BY <1>8, <1>t1, <2>6, <3>3, <3>5, <4>2
        <4>4. Seen(first, B, i)'
          <5>1. i = k
            BY <1>3, <1>4, <3>2, <3>5 DEF Past
          <5>2. k < l + 1 /\ k < k + 1
            BY <1>3, <1>4
          <5> QED BY <1>3, <2>5, <3>3, <3>5, <5>1, <5>2
        <4> QED BY <1>t1, <1>t2, <4>3, <4>4
      <3>6. CASE g # k
        <4>1. s[k].id # s[g].id
          BY <1>3, <1>4, <2>7, <3>3, <3>6 DEF ValueKind
        <4>2. Seen(first, B, i)' <=> Seen(first, B, g)
          <5>1. i < l + 1 <=> g < l
            BY <1>3, <1>4, <3>2 DEF Past
          <5>2. i < k + 1 <=> g < k
            BY <1>3, <1>4, <3>2, <3>6 DEF Past
          <5> QED BY <2>5, <3>3, <5>1, <5>2
        <4>3. ASSUME NEW x \in DescribedAt(B, g) PROVE Past(at, x) \in DescribedAt(B, i)'
          <5>1. x \in 1 .. Len(s) /\ s[x].kind = "dbg" /\ s[x].id = s[g].id
            BY <2>6
          <5> QED BY <1>9, <2>6, <3>3, <5>1
        <4>4. ASSUME NEW j \in DescribedAt(B, i)'
              PROVE  \E x \in DescribedAt(B, g) : j = Past(at, x)
          <5>1. j \in 1 .. Len(t) /\ t[j].kind = "dbg" /\ t[j].id = s[g].id
            BY <2>6, <3>3
          <5>2. j # at
            BY <1>8, <4>1, <5>1
          <5>3. PICK x \in 1 .. Len(s) : j = Past(at, x)
            BY <1>9, <5>1, <5>2
          <5> QED BY <1>9, <2>6, <5>1, <5>3
        <4>5. CASE Seen(first, B, g)
          <5>1. PICK x \in DOMAIN s : DescribedAt(B, g) = {x}
            BY <3>4, <4>5
          <5>2. DescribedAt(B, i)' = {Past(at, x)}
            BY <4>3, <4>4, <5>1
          <5>3. Past(at, x) \in DOMAIN t
            BY <1>9, <1>d, <1>t2, <5>1
          <5> QED BY <4>2, <4>5, <5>2, <5>3
        <4>6. CASE ~Seen(first, B, g)
          <5>1. DescribedAt(B, i)' = {}
            BY <3>4, <4>4, <4>6
          <5> QED BY <4>2, <4>6, <5>1
        <4> QED BY <4>5, <4>6
      <3> QED BY <3>5, <3>6
    <2>9. \A b \in DOMAIN code : \A i \in BodyOf(code'[b]) :
              IF Seen(first, b, i)' THEN \E j \in DOMAIN code'[b] : DescribedAt(b, i)' = {j}
                                    ELSE DescribedAt(b, i)' = {}
      <3> SUFFICES ASSUME NEW b \in DOMAIN code, NEW i \in BodyOf(code'[b])
                   PROVE  IF Seen(first, b, i)' THEN \E j \in DOMAIN code'[b] : DescribedAt(b, i)' = {j}
                                                ELSE DescribedAt(b, i)' = {}
        OBVIOUS
      <3>1. CASE b = B
        BY <1>11, <2>8, <3>1
      <3>2. CASE b # B
        <4>1. code'[b] = code[b]
          BY <1>11, <3>2
        <4>2. DescribedAt(b, i)' = DescribedAt(b, i)
          BY <4>1 DEF DescribedAt
        <4>3. Seen(first, b, i)' <=> Seen(first, b, i)
          BY <1>0, <1>11, <1>q, <3>2, <4>1 DEF Seen, Applying
        <4> QED BY <2>1, <4>1, <4>2, <4>3
      <3> QED BY <3>1, <3>2
    <2> QED BY <1>0, <1>11, <2>3, <2>9 DEF Describing, Applied
  <1> QED BY <1>11, <1>12, <1>13, <1>14, <1>15, <1>16, <1>17, <1>18, <1>19, <1>20, <1>21

\* The count goes on with the length of the body.
LEMMA BeforeNext ==
    ASSUME LocTyping, NEW first \in Nat, NEW B \in DOMAIN code, Locates(first, functionOf[B])
    PROVE  Before(first, B + 1) = Before(first, B) + Len(Body(B))
  <1> DEFINE P == PlacesBefore(first, B)
             N == {B} \X (1 .. Len(Body(B)))
  <1>1. B \in Nat /\ Len(Body(B)) \in Nat /\ \A d \in DOMAIN code : d \in Nat
    BY Typed, BodyInOrder DEF Body
  <1>2. {d \in DOMAIN code : d < B + 1 /\ Locates(first, functionOf[d])} =
        {d \in DOMAIN code : d < B /\ Locates(first, functionOf[d])} \cup {B}
    <2>1. \A d \in DOMAIN code : d < B + 1 <=> d < B \/ d = B
      BY <1>1
    <2> QED BY <2>1
  <1>3. PlacesBefore(first, B + 1) = P \cup N
    BY <1>2 DEF PlacesBefore
  <1>4. P \cap N = {}
    <2> SUFFICES ASSUME NEW p, p \in P, p \in N PROVE FALSE
      OBVIOUS
    <2>1. PICK c \in DOMAIN code : c < B /\ p \in {c} \X (1 .. Len(Body(c)))
      BY DEF PlacesBefore
    <2>2. p[1] = c /\ p[1] = B
      BY <2>1
    <2> QED BY <1>1, <2>1, <2>2
  <1>5. IsFiniteSet(P) /\ Cardinality(P) \in Nat
    BY BeforeCounts DEF Before
  <1>6. IsFiniteSet(N) /\ Cardinality(N) = Len(Body(B))
    <2>1. IsFiniteSet({B}) /\ Cardinality({B}) = 1
      BY FS_Singleton
    <2>2. IsFiniteSet(1 .. Len(Body(B))) /\ Cardinality(1 .. Len(Body(B))) = Len(Body(B))
      <3>1. PICK n \in Nat : n = Len(Body(B))
        BY <1>1
      <3>2. IsFiniteSet(1 .. n) /\ Cardinality(1 .. n) = IF 1 > n THEN 0 ELSE n - 1 + 1
        BY FS_Interval, 1 \in Int, n \in Int
      <3>3. Cardinality(1 .. n) = n
        BY <3>2
      <3> QED BY <3>1, <3>2, <3>3
    <2>3. IsFiniteSet(N) /\ Cardinality(N) = Cardinality({B}) * Cardinality(1 .. Len(Body(B)))
      BY <2>1, <2>2, FS_Product
    <2> HIDE DEF N
    <2> QED BY <1>1, <2>1, <2>2, <2>3
  <1> HIDE DEF P, N
  <1>7. Cardinality(P \cup N) = Cardinality(P) + Cardinality(N) - Cardinality(P \cap N)
    BY <1>5, <1>6, FS_Union
  <1>8. Cardinality(P \cap N) = 0
    BY <1>4, FS_EmptySet
  <1>9. Cardinality(P \cup N) = Cardinality(P) + Len(Body(B))
    BY <1>1, <1>5, <1>6, <1>7, <1>8
  <1> QED BY <1>3, <1>9 DEF Before, P

\* The lines of a block are past those of the blocks before it.
LEMMA BlocksApart ==
    ASSUME LocTyping, NEW first \in Nat, NEW b \in DOMAIN code, Locates(first, functionOf[b]),
           NEW c \in DOMAIN code \cup {Len(code) + 1}, b < c
    PROVE  Before(first, b) + Len(Body(b)) <= Before(first, c)
  <1>1. Before(first, b + 1) = Before(first, b) + Len(Body(b))
    BY BeforeNext
  <1>2. PlacesBefore(first, b + 1) \subseteq PlacesBefore(first, c)
    <2>1. b \in Nat /\ c \in Nat /\ \A d \in DOMAIN code : d \in Nat
      BY Typed
    <2>2. \A d \in DOMAIN code : d < b + 1 => d < c
      BY <2>1
    <2> QED BY <2>2 DEF PlacesBefore
  <1>3. IsFiniteSet(PlacesBefore(first, c))
    BY BeforeCounts
  <1>4. Before(first, b + 1) <= Before(first, c)
    BY <1>2, <1>3, FS_Subset DEF Before
  <1> QED BY <1>1, <1>4

\* Other lines, and nothing else, leave a block well formed.
LEMMA Relined ==
    ASSUME NEW S, NEW s \in Seq(S), NEW t \in Seq(S), Len(t) = Len(s), WellFormed(s),
           \A i \in 1 .. Len(s) : t[i].kind = s[i].kind /\ t[i].id = s[i].id
    PROVE  /\ WellFormed(t) /\ (IsEHPad(t) <=> IsEHPad(s))
           /\ FindTerminatingInstruction(t) = FindTerminatingInstruction(s)
  <1>1. DOMAIN s = 1 .. Len(s) /\ DOMAIN t = 1 .. Len(s)
    BY BodyFinite
  <1>2. IsEHPad(t) <=> IsEHPad(s)
    BY <1>1 DEF IsEHPad
  <1>3. Len(s) \in Nat /\ Len(s) >= 1
    BY Terminating
  <1>4. FindTerminatingInstruction(t) = FindTerminatingInstruction(s)
    <2>1. Len(s) > 1 => Len(s) - 1 \in 1 .. Len(s)
      BY <1>3
    <2>2. Len(s) > 1 => t[Len(s) - 1].kind = s[Len(s) - 1].kind
      BY <2>1
    <2> QED BY <2>2 DEF FindTerminatingInstruction
  <1>5. t # <<>>
    BY <1>3, EmptySeq
  <1>6. ASSUME NEW i \in 1 .. Len(s)
        PROVE  /\ t[i].kind = "phi" => \A j \in 1 .. i : t[j].kind = "phi"
               /\ t[i].kind = "musttail" => i + 1 = Len(t)
               /\ t[i].kind = "term" <=> i = Len(t)
    <2>1. /\ s[i].kind = "phi" => \A j \in 1 .. i : s[j].kind = "phi"
          /\ s[i].kind = "musttail" => i + 1 = Len(s)
          /\ s[i].kind = "term" <=> i = Len(s)
      BY <1>1 DEF WellFormed
    <2>2. \A j \in 1 .. i : j \in 1 .. Len(s)
      BY <1>3
    <2> QED BY <2>1, <2>2
  <1>7. \A i, j \in 1 .. Len(s) :
            t[i].kind # "dbg" /\ t[j].kind # "dbg" /\ t[i].id = t[j].id => i = j
    <2>1. \A i, j \in 1 .. Len(s) :
              s[i].kind # "dbg" /\ s[j].kind # "dbg" /\ s[i].id = s[j].id => i = j
      BY <1>1 DEF WellFormed
    <2> QED BY <2>1
  <1>8. WellFormed(t)
    BY <1>1, <1>5, <1>6, <1>7 DEF WellFormed
  <1> QED BY <1>2, <1>4, <1>8

\* The insertion point of a block is behind its phis (Debugify.cpp:122-124).
LEMMA InsertionStarts ==
    ASSUME NEW S, NEW s \in Seq(S), WellFormed(s), ~IsEHPad(s)
    PROVE  /\ FirstInsertionPt(s) \in 1 .. FindTerminatingInstruction(s)
           /\ \A j \in 1 .. Len(s) : s[j].kind = "phi" => j < FirstInsertionPt(s)
  <1> DEFINE l == FindTerminatingInstruction(s)
             O == {i \in 1 .. Len(s) : s[i].kind \notin {"phi", "pad"}}
  <1>1. /\ Len(s) \in Nat /\ l \in 1 .. Len(s) /\ s[l].kind \in {"term", "musttail"}
    BY Terminating
  <1>2. l \in O /\ O \subseteq 1 .. Len(s)
    BY <1>1
  <1>3. FirstInsertionPt(s) = Min(O)
    BY <1>2 DEF FirstInsertionPt, SelectInSeq
  <1>4. Min(O) \in O /\ \A k \in O : Min(O) <= k
    BY <1>1, <1>2, LeastAndGreatest
  <1>5. PICK p \in 1 .. Len(s) : p = Min(O) /\ p <= l /\ s[p].kind # "phi"
    BY <1>2, <1>4
  <1>6. ASSUME NEW j \in 1 .. Len(s), s[j].kind = "phi", ~(j < p) PROVE FALSE
    <2>1. p \in 1 .. j
      BY <1>1, <1>6
    <2>2. DOMAIN s = 1 .. Len(s)
      BY BodyFinite
    <2> QED BY <1>5, <1>6, <2>1, <2>2 DEF WellFormed
  <1>7. p \in 1 .. l
    BY <1>1, <1>5
  <1> QED BY <1>3, <1>5, <1>6, <1>7

\* A block gets the next lines, one for each of its instructions (Debugify.cpp:102-110).
LEMMA AttachLocationsKeeps ==
    ASSUME NEW first \in Nat, LocInv(first), AttachLocations
    PROVE  /\ LocInv(first)'
           /\ \A b \in DOMAIN code :
                 /\ Len(Body(b)') = Len(Body(b))
                 /\ \A i \in DOMAIN Body(b) : /\ Body(b)'[i].id = Body(b)[i].id
                                              /\ Body(b)'[i].kind = Body(b)[i].kind
  <1> USE DEF LocInv
  <1>0. /\ locPc = "blocks" /\ functionOf' = functionOf
        /\ exact' = exact /\ dbgCU' = dbgCU /\ debugifyMD' = debugifyMD
        /\ subprogram' = subprogram /\ NextLine' = NextLine + Len(code[BB]) /\ NextVar' = NextVar
        /\ F' = F /\ LastF' = LastF /\ BB \in DOMAIN code /\ functionOf[BB] = F
        /\ IsEHPad(code[BB]) => /\ locPc' = "blocks" /\ BB' = BB + 1
                                /\ I' = I /\ InsertBefore' = InsertBefore
        /\ ~IsEHPad(code[BB]) => /\ locPc' = "values" /\ BB' = BB
                                 /\ I' = 1 /\ InsertBefore' = FirstInsertionPt(code[BB])
    BY DEF AttachLocations, AtBlock, program, debugInfo
  <1>1. NextLine \in Nat /\ NextLine >= 1
    BY DEF LocTyping
  <1>q. PICK B \in DOMAIN code : B = BB
    BY <1>0
  <1>s. PICK s \in Seq(Instruction \cup SyntheticValue) : s = code[B]
    BY Typed
  <1>2. /\ B \in Nat /\ B \in 1 .. Len(code) /\ DOMAIN code = 1 .. Len(code) /\ Len(code) \in Nat
        /\ \A b \in DOMAIN code : b \in Nat
    BY Typed
  <1>d. DOMAIN s = 1 .. Len(s)
    BY BodyFinite
  <1>3. /\ WellFormed(s) /\ Len(s) \in Nat /\ Len(s) >= 1
        /\ FindTerminatingInstruction(s) \in 1 .. Len(s)
    <2>1. WellFormed(s)
      BY <1>s DEF Blocks
    <2> QED BY <2>1, Terminating
  <1>4. \A i \in 1 .. Len(s) : s[i].kind # "dbg" /\ s[i] \in Instruction \cup SyntheticValue
    <2>1. Clean(B)
      <3>1. ~HasLines(first, B)
        BY <1>0, <1>2, <1>q DEF HasLines
      <3> QED BY <1>0, <3>1 DEF Numbering, Applying
    <2> QED BY <1>s, <1>d, <2>1, ElementOfSeq DEF Clean, NoDbg
  <1>t. PICK t : t = [i \in 1 .. Len(s) |-> [s[i] EXCEPT !.line = NextLine + i - 1]]
    OBVIOUS
  <1>5. code' = [code EXCEPT ![B] = t]
    BY <1>q, <1>s, <1>t, <1>d DEF AttachLocations
  <1>6. \A i \in 1 .. Len(s) : /\ t[i] \in Instruction /\ t[i].kind = s[i].kind
                               /\ t[i].id = s[i].id /\ t[i].line = NextLine + i - 1
    <2> SUFFICES ASSUME NEW i \in 1 .. Len(s)
                 PROVE  /\ t[i] \in Instruction /\ t[i].kind = s[i].kind
                        /\ t[i].id = s[i].id /\ t[i].line = NextLine + i - 1
      OBVIOUS
    <2>1. NextLine + i - 1 \in Nat
      BY <1>1, <1>3
    <2>2. PICK e \in Instruction \cup SyntheticValue : e = s[i] /\ e.kind # "dbg"
      BY <1>4
    <2>3. PICK n \in Nat : n = NextLine + i - 1
      BY <2>1
    <2>4. /\ [e EXCEPT !.line = n] \in Instruction
          /\ [e EXCEPT !.line = n].id = e.id
          /\ [e EXCEPT !.line = n].kind = e.kind
          /\ [e EXCEPT !.line = n].line = n
      BY <2>2, Fields, n \in Line DEF Line
    <2>5. t[i] = [e EXCEPT !.line = n]
      BY <1>t, <2>2, <2>3
    <2> QED BY <2>2, <2>3, <2>4, <2>5
  <1>7. t \in Seq(Instruction \cup SyntheticValue) /\ Len(t) = Len(s)
    <2>1. t \in [1 .. Len(s) -> Instruction \cup SyntheticValue]
      BY <1>6, <1>t
    <2> QED BY <1>3, <2>1, SeqDef
  <1>d2. DOMAIN t = 1 .. Len(s)
    BY <1>t
  <1>8. WithoutDbg(s) = s /\ WithoutDbg(t) = t
    BY <1>4, <1>6, <1>7, <1>d, <1>d2, AllBody
  <1>9. /\ WellFormed(t) /\ (IsEHPad(t) <=> IsEHPad(s))
        /\ FindTerminatingInstruction(t) = FindTerminatingInstruction(s)
    BY <1>3, <1>6, <1>7, Relined
  <1>10. Len(WithoutDbg(t)) = Len(WithoutDbg(code[B]))
    BY <1>7, <1>8, <1>s
  <1>11. /\ DOMAIN code' = DOMAIN code /\ Len(code') = Len(code)
         /\ code'[B] = t /\ \A b \in DOMAIN code : b # B => code'[b] = code[b]
         /\ code' \in Seq(Seq(Instruction \cup SyntheticValue))
         /\ Instruction' = Instruction /\ SyntheticValue' = SyntheticValue
         /\ Functions' = Functions
         /\ Ordered => Ordered'
         /\ \A b \in DOMAIN code : FirstBlock(b)' <=> FirstBlock(b)
         /\ \A f : Locates(first, f)' <=> Locates(first, f)
         /\ \A n : Before(first, n)' = Before(first, n)
    BY <1>0, <1>5, <1>7, <1>10, BlockChanged
  <1>12. /\ Body(B) = s /\ Body(B)' = t
         /\ \A b \in DOMAIN code : b # B => Body(b)' = Body(b)
    BY <1>8, <1>11, <1>s DEF Body
  <1>13. \A b \in DOMAIN code :
            /\ Len(Body(b)') = Len(Body(b))
            /\ \A i \in DOMAIN Body(b) : /\ Body(b)'[i].id = Body(b)[i].id
                                         /\ Body(b)'[i].kind = Body(b)[i].kind
    BY <1>6, <1>7, <1>12, <1>d
  <1>e. IsEHPad(code[BB]) <=> IsEHPad(s)
    BY <1>q, <1>s
  <1>14. /\ IsEHPad(s) => locPc' = "blocks" /\ BB' = B + 1
         /\ ~IsEHPad(s) => locPc' = "values" /\ BB' = B /\ I' = 1 /\ InsertBefore' = FirstInsertionPt(s)
         /\ I' \in Nat /\ InsertBefore' \in Nat /\ BB' \in 1 .. Len(code) + 1
    <2>1. /\ IsEHPad(s) => locPc' = "blocks" /\ BB' = B + 1 /\ I' = I /\ InsertBefore' = InsertBefore
          /\ ~IsEHPad(s) => locPc' = "values" /\ BB' = B /\ I' = 1 /\ InsertBefore' = FirstInsertionPt(s)
      BY <1>0, <1>e, <1>q, <1>s
    <2>2. I \in Nat /\ InsertBefore \in Nat
      BY DEF LocTyping
    <2>3. ~IsEHPad(s) => FirstInsertionPt(s) \in Nat
      BY <1>3, InsertionStarts
    <2> QED BY <1>2, <2>1, <2>2, <2>3
  <1>15. LocTyping'
    <2>1. NextLine' \in Nat \ {0}
      BY <1>0, <1>1, <1>3, <1>q, <1>s
    <2>2. BB' \in 0 .. Len(code') + 1
      BY <1>2, <1>11, <1>14
    <2>3. locPc' \in {"blocks", "values"}
      BY <1>14
    <2> QED BY <1>0, <1>11, <1>14, <2>1, <2>2, <2>3 DEF LocTyping
  <1>16. Position(first)'
    <2>1. ASSUME NEW b \in DOMAIN code, b < B + 1 PROVE functionOf[b] <= F
      <3>1. b <= B
        BY <1>2, <2>1
      <3> QED BY <1>0, <1>q, <3>1 DEF Ordered
    <2>2. \A b \in DOMAIN code : functionOf[b] < F => b < B /\ b < B + 1
      <3>1. \A b \in DOMAIN code : b < B => b < B + 1
        BY <1>2
      <3> QED BY <1>0, <1>q, <3>1 DEF Position, Applying
    <2>3. \A b \in DOMAIN code : b < B => functionOf[b] <= F
      BY <1>0, <1>q DEF Position, Applying
    <2>4. first \in 1 .. LastF + 1 /\ F \in first .. LastF + 1 /\ F <= LastF /\ exact[F] /\ BB' >= 1
      BY <1>0, <1>2, <1>14 DEF Position, Applying
    <2> QED BY <1>0, <1>11, <1>14, <1>q, <2>1, <2>2, <2>3, <2>4 DEF Position, AtBlock, Applying, Applied
  <1>17. InBlock'
    <2> SUFFICES ASSUME ~IsEHPad(s) PROVE InBlock'
      BY <1>14 DEF InBlock
    <2>1. LastInst' = FindTerminatingInstruction(s)
      BY <1>9, <1>11, <1>14 DEF LastInst
    <2>2. /\ FirstInsertionPt(s) \in 1 .. FindTerminatingInstruction(s)
          /\ \A j \in 1 .. Len(s) : s[j].kind = "phi" => j < FirstInsertionPt(s)
      BY <1>3, InsertionStarts
    <2>3. 1 \in 1 .. FindTerminatingInstruction(s)
      BY <1>3
    <2> QED BY <1>6, <1>9, <1>11, <1>14, <1>d2, <2>1, <2>2, <2>3 DEF InBlock
  <1>18. Ordered' /\ Blocks'
    BY <1>9, <1>11 DEF Blocks
  <1>19. Locates(first, functionOf[B])
    <2>1. F \in first .. LastF /\ exact[F]
      BY <1>0, Typed DEF Position, Applying, LocTyping
    <2> QED BY <1>0, <1>q, <2>1 DEF Locates
  <1>20. Numbering(first)'
    <2>1. NextLine = 1 + Before(first, B)
      BY <1>0, <1>q DEF Numbering, Applying, Ahead
    <2>2. Before(first, B + 1) = Before(first, B) + Len(s) /\ Before(first, B) \in Nat
      BY <1>12, <1>19, BeforeNext, BeforeCounts
    <2>3. NextLine' = 1 + Before(first, B + 1)
      BY <1>0, <1>3, <1>q, <1>s, <2>1, <2>2
    <2>4. PICK n : n = B + 1
      OBVIOUS
    <2>5. Ahead' = n /\ NextLine' = 1 + Before(first, n)'
      BY <1>11, <1>14, <2>3, <2>4 DEF Ahead
    <2>6. \A b \in DOMAIN code : HasLines(first, b)' <=> HasLines(first, b) \/ b = B
      <3> SUFFICES ASSUME NEW b \in DOMAIN code
                   PROVE  HasLines(first, b)' <=> HasLines(first, b) \/ b = B
        OBVIOUS
      <3>1. (b < B + 1 <=> b < B \/ b = B) /\ (b <= B <=> b < B \/ b = B)
        BY <1>2
      <3>2. HasLines(first, b) <=> Locates(first, functionOf[b]) /\ b < B
        BY <1>0, <1>q DEF HasLines
      <3>3. HasLines(first, b)' <=> Locates(first, functionOf[b]) /\ (b < B \/ b = B)
        BY <1>0, <1>11, <1>14, <3>1 DEF HasLines
      <3> QED BY <1>19, <3>2, <3>3
    <2>7. \A b \in DOMAIN code : b # B => (Clean(b)' <=> Clean(b))
      BY <1>11 DEF Clean, NoDbg
    <2>8. \A i \in 1 .. Len(t) : t[i].line = Before(first, B) + i
      <3> SUFFICES ASSUME NEW i \in 1 .. Len(s) PROVE t[i].line = Before(first, B) + i
        BY <1>7
      <3>1. t[i].line = NextLine + i - 1
        BY <1>6
      <3> QED BY <1>3, <2>1, <2>2, <3>1
    <2>9. \A b \in DOMAIN code :
              IF HasLines(first, b)
              THEN \A i \in 1 .. Len(Body(b)) : Body(b)[i].line = Before(first, b) + i
              ELSE Clean(b)
      BY <1>0 DEF Numbering, Applying
    <2>10. \A b \in DOMAIN code :
              IF HasLines(first, b)'
              THEN \A i \in 1 .. Len(Body(b)') : Body(b)'[i].line = Before(first, b)' + i
              ELSE Clean(b)'
      BY <1>11, <1>12, <2>6, <2>7, <2>8, <2>9
    <2> QED BY <1>11, <1>14, <2>5, <2>10 DEF Numbering
  <1>21. Subprograms(first)'
    <2>1. \A f : Begun(f)' <=> Begun(f)
      BY <1>0, <1>14 DEF Begun
    <2> QED BY <1>0, <1>11, <1>14, <2>1 DEF Subprograms
  <1>22. Placed'
    <2>1. \A b \in DOMAIN code : b # B => code'[b] = code[b]
      BY <1>11
    <2>2. \A i \in 1 .. Len(s) : t[i].kind # "dbg"
      BY <1>4, <1>6
    <2>3. \A b \in DOMAIN code : \A i \in DOMAIN code'[b] :
              code'[b][i].kind = "dbg" =>
                  \E j \in 1 .. i - 1 : /\ code'[b][j].kind # "dbg"
                                        /\ code'[b][j].id = code'[b][i].id
                                        /\ code'[b][j].line = code'[b][i].line
      <3> SUFFICES ASSUME NEW b \in DOMAIN code, NEW i \in DOMAIN code'[b], code'[b][i].kind = "dbg"
                   PROVE  \E j \in 1 .. i - 1 : /\ code'[b][j].kind # "dbg"
                                                /\ code'[b][j].id = code'[b][i].id
                                                /\ code'[b][j].line = code'[b][i].line
        OBVIOUS
      <3>1. b # B
        BY <1>11, <1>d2, <2>2
      <3> QED BY <1>0, <2>1, <3>1 DEF Placed
    <2> QED BY <1>11, <2>3 DEF Placed
  <1>23. Describing(first)'
    <2>1. /\ \A b \in DOMAIN code : \A i \in BodyOf(code[b]) :
                IF Seen(first, b, i) THEN \E j \in DOMAIN code[b] : DescribedAt(b, i) = {j}
                                     ELSE DescribedAt(b, i) = {}
          /\ NextVar = 1 + Cardinality(AllDbgPlaces)
      BY <1>0 DEF Describing, Applying
    <2>2. \A i \in 1 .. Len(s) : t[i].kind # "dbg"
      BY <1>4, <1>6
    <2>3. \A b \in DOMAIN code : DbgPlacesOf(b)' = DbgPlacesOf(b)
      <3>1. DbgPlacesOf(B) = {} /\ DbgPlacesOf(B)' = {}
        BY <1>4, <1>11, <1>d, <1>d2, <1>s, <2>2 DEF DbgPlacesOf
      <3> QED BY <1>11, <3>1 DEF DbgPlacesOf
    <2>4. AllDbgPlaces' = AllDbgPlaces
      BY <1>11, <2>3 DEF AllDbgPlaces
    <2>5. \A i \in 1 .. Len(s) : DescribedAt(B, i)' = {} /\ ~Seen(first, B, i)'
      <3>1. \A i : DescribedAt(B, i)' = {}
        BY <1>11, <1>d2, <2>2 DEF DescribedAt
      <3>2. ASSUME NEW i \in 1 .. Len(s), Seen(first, B, i)' PROVE FALSE
        <4>1. ~IsEHPad(s)
          BY <1>9, <1>11, <3>2 DEF Seen
        <4>2. ~(B < B)
          BY <1>2
        <4>3. i < 1
          BY <1>14, <3>2, <4>1, <4>2 DEF Seen, Applying
        <4> QED BY <1>3, <4>3
      <3> QED BY <3>1, <3>2
    <2>6. ASSUME NEW b \in DOMAIN code, b # B, NEW i \in BodyOf(code[b])
          PROVE  /\ Seen(first, b, i)' <=> Seen(first, b, i)
                 /\ DescribedAt(b, i)' = DescribedAt(b, i)
      <3>1. b < B + 1 <=> b < B
        BY <1>2, <2>6
      <3>2. code'[b] = code[b]
        BY <1>11, <2>6
      <3>3. Seen(first, b, i)' <=> Seen(first, b, i)
        BY <1>0, <1>11, <1>14, <1>q, <2>6, <3>1, <3>2 DEF Seen, Applying
      <3> QED BY <3>2, <3>3 DEF DescribedAt
    <2>7. ASSUME NEW b \in DOMAIN code, NEW i \in BodyOf(code'[b])
          PROVE  IF Seen(first, b, i)' THEN \E j \in DOMAIN code'[b] : DescribedAt(b, i)' = {j}
                                       ELSE DescribedAt(b, i)' = {}
      <3>1. CASE b = B
        <4>1. i \in 1 .. Len(s)
          BY <1>11, <1>d2, <3>1 DEF BodyOf
        <4> QED BY <2>5, <3>1, <4>1
      <3>2. CASE b # B
        <4>1. code'[b] = code[b]
          BY <1>11, <3>2
        <4> QED BY <2>1, <2>6, <3>2, <4>1
      <3> QED BY <3>1, <3>2
    <2>8. NextVar' = 1 + Cardinality(AllDbgPlaces')
      BY <1>0, <2>1, <2>4
    <2> QED BY <1>11, <1>14, <2>7, <2>8 DEF Describing, Applied
  <1>24. Erasing'
    BY <1>14 DEF Erasing
  <1> QED BY <1>13, <1>15, <1>16, <1>17, <1>18, <1>20, <1>21, <1>22, <1>23, <1>24

\* A debug intrinsic is removed, anything else is gone past (IRLocator.cpp:25-30).
LEMMA EraseIntrinsicKeeps ==
    ASSUME NEW first \in Nat, LocInv(first), EraseIntrinsic
    PROVE  LocInv(first)' /\ \A b \in DOMAIN code : Body(b)' = Body(b)
  <1> USE DEF LocInv
  <1>0. /\ locPc = "erase" /\ locPc' = "erase" /\ functionOf' = functionOf
        /\ exact' = exact /\ dbgCU' = dbgCU /\ debugifyMD' = debugifyMD
        /\ subprogram' = subprogram /\ NextLine' = NextLine /\ NextVar' = NextVar
        /\ F' = F /\ LastF' = LastF /\ BB' = BB /\ InsertBefore' = InsertBefore
        /\ BB \in DOMAIN code /\ I \in DOMAIN code[BB]
        /\ code[BB][I].kind = "dbg" => code' = [code EXCEPT ![BB] = RemoveAt(code[BB], I)] /\ I' = I
        /\ code[BB][I].kind # "dbg" => I' = I + 1 /\ code' = code
    BY DEF EraseIntrinsic, program, debugInfo, counters
  <1>q. PICK B \in DOMAIN code : B = BB
    BY <1>0
  <1>t. PICK t \in Seq(Instruction \cup SyntheticValue) : t = code[B]
    BY Typed
  <1>d. DOMAIN t = 1 .. Len(t)
    BY BodyFinite
  <1>1. I \in Nat /\ I >= 1 /\ I \in 1 .. Len(t) /\ B \in Nat
    BY <1>0, <1>q, <1>t, <1>d, Typed DEF LocTyping, Erasing
  <1>2. CASE t[I].kind # "dbg"
    <2>0. I' = I + 1 /\ code' = code
      BY <1>0, <1>2, <1>q, <1>t
    <2>5. LocTyping'
      <3>1. I' \in Nat
        BY <1>1, <2>0
      <3> QED BY <1>0, <2>0, <3>1 DEF LocTyping, Instruction, SyntheticValue, Functions
    <2>6. Position(first)'
      BY <1>0, <2>0 DEF Position, Applying, Applied
    <2>7. InBlock'
      BY <1>0 DEF InBlock
    <2>8. Ordered' /\ Blocks' /\ Placed'
      BY <1>0, <2>0, CodeKept
    <2>9. Numbering(first)'
      <3>1. Ahead' = Ahead
        BY <1>0, <2>0 DEF Ahead
      <3>2. \A b \in DOMAIN code : HasLines(first, b)' <=> HasLines(first, b)
        BY <1>0, <2>0, CodeKept DEF HasLines
      <3> QED BY <1>0, <2>0, <3>1, <3>2, CodeKept DEF Numbering, Applying, Applied
    <2>10. Subprograms(first)'
      BY <1>0, <2>0, CodeKept DEF Subprograms, Begun
    <2>11. Describing(first)'
      <3>1. I' # 1
        BY <1>1, <2>0
      <3> QED BY <1>0, <3>1 DEF Describing, Applying, Applied
    <2>12. Erasing'
      <3>1. ASSUME NEW i \in DOMAIN code[BB], i < I + 1 PROVE code[BB][i].kind # "dbg"
        <4>1. i < I \/ i = I
          BY <1>1, <1>d, <1>q, <1>t, <3>1
        <4> QED BY <1>0, <1>2, <1>q, <1>t, <4>1 DEF Erasing
      <3> QED BY <1>0, <1>1, <2>0, <3>1, CodeKept DEF Erasing
    <2>13. \A b \in DOMAIN code : Body(b)' = Body(b)
      BY <2>0 DEF Body
    <2> QED BY <2>5, <2>6, <2>7, <2>8, <2>9, <2>10, <2>11, <2>12, <2>13
  <1>3. CASE t[I].kind = "dbg"
    <2>s. PICK s : s = RemoveAt(t, I)
      OBVIOUS
    <2>0. I' = I /\ code' = [code EXCEPT ![B] = s]
      BY <1>0, <1>3, <1>q, <1>t, <2>s
    <2>1. s \in Seq(Instruction \cup SyntheticValue) /\ Widened(s, t, I)
      <3>1. PICK T : T = Instruction \cup SyntheticValue
        OBVIOUS
      <3>2. t \in Seq(T)
        BY <3>1
      <3>3. RemoveAt(t, I) \in Seq(T) /\ Widened(RemoveAt(t, I), t, I)
        BY <1>1, <3>2, Removed
      <3> QED BY <2>s, <3>1, <3>3
    <2>2. /\ \A i \in 1 .. Len(s) : Past(I, i) \in 1 .. Len(t) /\ t[Past(I, i)] = s[i]
          /\ \A j \in 1 .. Len(t) : j # I => \E i \in 1 .. Len(s) : j = Past(I, i)
          /\ WithoutDbg(t) = WithoutDbg(s)
      BY <1>1, <1>3, <2>1, BodyWidened
    <2>d. DOMAIN s = 1 .. Len(s)
      BY <2>1, BodyFinite
    <2>3. WellFormed(s) /\ (IsEHPad(t) <=> IsEHPad(s))
      <3>1. WellFormed(t)
        BY <1>t DEF Blocks
      <3> QED BY <1>1, <1>3, <2>1, <3>1, WellFormedRemoved
    <2>4. /\ DOMAIN code' = DOMAIN code /\ Len(code') = Len(code)
          /\ code'[B] = s /\ \A b \in DOMAIN code : b # B => code'[b] = code[b]
          /\ code' \in Seq(Seq(Instruction \cup SyntheticValue))
          /\ Instruction' = Instruction /\ SyntheticValue' = SyntheticValue
          /\ Functions' = Functions
          /\ Ordered => Ordered'
          /\ \A b \in DOMAIN code : FirstBlock(b)' <=> FirstBlock(b)
          /\ \A f : Locates(first, f)' <=> Locates(first, f)
          /\ \A n : Before(first, n)' = Before(first, n)
      BY <1>0, <1>t, <2>0, <2>1, <2>2, BlockChanged
    <2>5. \A b \in DOMAIN code : Body(b)' = Body(b)
      BY <1>t, <2>2, <2>4 DEF Body
    <2>6. LocTyping'
      BY <1>0, <1>1, <2>0, <2>4 DEF LocTyping
    <2>7. Position(first)'
      BY <1>0, <2>4 DEF Position, Applying, Applied
    <2>8. InBlock' /\ Ordered' /\ Blocks'
      BY <1>0, <2>3, <2>4 DEF InBlock, Blocks
    <2>9. Numbering(first)'
      <3>1. \A b \in DOMAIN code : HasLines(first, b)' <=> HasLines(first, b)
        BY <1>0, <2>4 DEF HasLines
      <3>2. PICK n : n = Len(code) + 1
        OBVIOUS
      <3>3. Ahead = n /\ Ahead' = n /\ NextLine = 1 + Before(first, n)
        BY <1>0, <2>4, <3>2 DEF Ahead, Numbering, Applied
      <3>4. NextLine' = 1 + Before(first, n)'
        BY <1>0, <2>4, <3>3
      <3>5. \A b \in DOMAIN code :
                IF HasLines(first, b)
                THEN \A i \in 1 .. Len(Body(b)) : Body(b)[i].line = Before(first, b) + i
                ELSE Clean(b)
        BY <1>0 DEF Numbering, Applied
      <3>6. HasLines(first, B)
        <4>1. ~Clean(B)
          BY <1>1, <1>3, <1>t, <1>d DEF Clean, NoDbg
        <4> QED BY <3>5, <4>1
      <3>7. \A b \in DOMAIN code : b # B => (Clean(b)' <=> Clean(b))
        BY <2>4 DEF Clean, NoDbg
      <3>8. \A b \in DOMAIN code :
                IF HasLines(first, b)'
                THEN \A i \in 1 .. Len(Body(b)') : Body(b)'[i].line = Before(first, b)' + i
                ELSE Clean(b)'
        BY <2>4, <2>5, <3>1, <3>5, <3>6, <3>7
      <3> QED BY <1>0, <2>4, <3>3, <3>4, <3>8 DEF Numbering
    <2>10. Subprograms(first)'
      BY <1>0, <2>4 DEF Subprograms, Begun
    <2>p. \A i \in 1 .. Len(t) : t[i].kind = "dbg" =>
              \E h \in 1 .. i - 1 : t[h].kind # "dbg" /\ t[h].id = t[i].id /\ t[h].line = t[i].line
      BY <1>0, <1>t, <1>d DEF Placed
    <2>11. Placed'
      <3>1. ASSUME NEW i \in 1 .. Len(s), s[i].kind = "dbg"
            PROVE  \E h \in 1 .. i - 1 : s[h].kind # "dbg" /\ s[h].id = s[i].id /\ s[h].line = s[i].line
        <4>1. Past(I, i) \in 1 .. Len(t) /\ t[Past(I, i)] = s[i]
          BY <2>2
        <4>2. PICK h \in 1 .. Past(I, i) - 1 :
                  t[h].kind # "dbg" /\ t[h].id = s[i].id /\ t[h].line = s[i].line
          BY <2>p, <3>1, <4>1
        <4>3. h \in 1 .. Len(t) /\ h # I /\ Len(t) \in Nat
          BY <1>3, <4>1, <4>2, BodyFinite
        <4>4. PICK g \in 1 .. Len(s) : h = Past(I, g)
          BY <2>2, <4>3
        <4>5. g \in 1 .. i - 1
          BY <1>1, <4>2, <4>4 DEF Past
        <4>6. t[h] = s[g]
          BY <2>2, <4>4
        <4> QED BY <4>2, <4>5, <4>6
      <3>2. \A b \in DOMAIN code : \A i \in DOMAIN code'[b] :
                code'[b][i].kind = "dbg" =>
                    \E j \in 1 .. i - 1 : /\ code'[b][j].kind # "dbg"
                                          /\ code'[b][j].id = code'[b][i].id
                                          /\ code'[b][j].line = code'[b][i].line
        <4> SUFFICES ASSUME NEW b \in DOMAIN code, NEW i \in DOMAIN code'[b], code'[b][i].kind = "dbg"
                     PROVE  \E j \in 1 .. i - 1 : /\ code'[b][j].kind # "dbg"
                                                  /\ code'[b][j].id = code'[b][i].id
                                                  /\ code'[b][j].line = code'[b][i].line
          OBVIOUS
        <4>1. CASE b = B
          BY <2>4, <2>d, <3>1, <4>1
        <4>2. CASE b # B
          <5>1. code'[b] = code[b]
            BY <2>4, <4>2
          <5> QED BY <1>0, <5>1 DEF Placed
        <4> QED BY <4>1, <4>2
      <3> QED BY <2>4, <3>2 DEF Placed
    <2>12. Describing(first)'
      <3>1. I # 1
        <4> SUFFICES ASSUME I = 1 PROVE FALSE
          OBVIOUS
        <4>1. \E h \in 1 .. I - 1 : t[h].kind # "dbg"
          BY <1>1, <1>3, <2>p
        <4> QED BY <4>1
      <3> QED BY <1>0, <2>0, <3>1 DEF Describing, Applying, Applied
    <2>13. Erasing'
      <3>1. ASSUME NEW b \in DOMAIN code, b < B PROVE NoDbg(b)'
        <4>1. code'[b] = code[b] /\ NoDbg(b)
          BY <1>0, <1>1, <1>q, <2>4, <3>1 DEF Erasing
        <4> QED BY <4>1 DEF NoDbg
      <3>2. ASSUME NEW i \in 1 .. Len(s), i < I PROVE s[i].kind # "dbg"
        <4>1. s[i] = t[i] /\ i \in 1 .. Len(t)
          BY <2>2, <3>2 DEF Past
        <4> QED BY <1>0, <1>q, <1>t, <1>d, <3>2, <4>1 DEF Erasing
      <3> QED BY <1>0, <1>1, <1>q, <2>0, <2>4, <2>d, <3>1, <3>2 DEF Erasing
    <2> QED BY <2>5, <2>6, <2>7, <2>8, <2>9, <2>10, <2>11, <2>12, <2>13
  <1> QED BY <1>2, <1>3

\* The body of a block is a block.
LEMMA WellFormedBody ==
    ASSUME NEW S, NEW s \in Seq(S), WellFormed(s)
    PROVE  WellFormed(WithoutDbg(s)) /\ \A k \in 1 .. Len(WithoutDbg(s)) : WithoutDbg(s)[k].kind # "dbg"
  <1> DEFINE w == WithoutDbg(s)
             B == BodyOf(s)
             place(i) == PlaceInBody(s, i)
  <1>1. /\ w \in Seq(S) /\ Len(w) \in Nat
        /\ \A i \in B : place(i) \in 1 .. Len(w) /\ w[place(i)] = s[i]
        /\ \A i, j \in B : i < j <=> place(i) < place(j)
        /\ \A k \in 1 .. Len(w) : \E i \in B : place(i) = k
    BY BodyInOrder
  <1>2. DOMAIN w = 1 .. Len(w)
    BY BodyInOrder
  <1>3. DOMAIN s = 1 .. Len(s)
    BY BodyFinite
  <1>4. Len(s) \in Nat /\ Len(s) >= 1
    BY Terminating
  <1>5. /\ \A i \in 1 .. Len(s) : s[i].kind = "phi" => \A j \in 1 .. i : s[j].kind = "phi"
        /\ \A i \in 1 .. Len(s) : s[i].kind = "musttail" => i + 1 = Len(s)
        /\ \A i \in 1 .. Len(s) : s[i].kind = "term" <=> i = Len(s)
        /\ \A i, j \in 1 .. Len(s) :
              s[i].kind # "dbg" /\ s[j].kind # "dbg" /\ s[i].id = s[j].id => i = j
    BY <1>3 DEF WellFormed
  <1>6. \A i : i \in B <=> i \in 1 .. Len(s) /\ s[i].kind # "dbg"
    BY <1>3 DEF BodyOf
  <1> HIDE DEF w, B, place
  <1>7. Len(s) \in B /\ Len(s) \in 1 .. Len(s)
    <2>1. Len(s) \in 1 .. Len(s)
      BY <1>4
    <2> QED BY <1>5, <1>6, <2>1
  <1>8. place(Len(s)) = Len(w)
    <2>1. place(Len(s)) \in 1 .. Len(w)
      BY <1>1, <1>7
    <2>2. Len(w) \in 1 .. Len(w)
      BY <1>1, <2>1
    <2>3. PICK i \in B : place(i) = Len(w)
      BY <1>1, <2>2
    <2>4. ~(Len(s) < i)
      BY <1>4, <1>6
    <2>5. ~(place(Len(s)) < place(i))
      BY <1>1, <1>7, <2>4
    <2> QED BY <1>1, <2>1, <2>3, <2>5
  <1>9. ASSUME NEW k \in 1 .. Len(w), w[k].kind = "phi", NEW j \in 1 .. k PROVE w[j].kind = "phi"
    <2>1. j \in 1 .. Len(w) /\ j \in Int /\ k \in Int /\ j <= k
      BY <1>1
    <2>2. PICK h \in B : place(h) = k
      BY <1>1
    <2>3. PICK i \in B : place(i) = j
      BY <1>1, <2>1
    <2>4. h \in 1 .. Len(s) /\ i \in 1 .. Len(s) /\ s[h] = w[k] /\ s[i] = w[j]
      BY <1>1, <1>6, <2>2, <2>3
    <2>5. ~(h < i)
      BY <1>1, <2>1, <2>2, <2>3
    <2>6. i \in 1 .. h
      BY <1>4, <2>4, <2>5
    <2> QED BY <1>5, <1>9, <2>4, <2>6
  <1>10. ASSUME NEW k \in 1 .. Len(w), w[k].kind = "musttail" PROVE k + 1 = Len(w)
    <2>1. PICK h \in B : place(h) = k
      BY <1>1
    <2>2. h \in 1 .. Len(s) /\ s[h].kind = "musttail"
      BY <1>1, <1>6, <1>10, <2>1
    <2>3. h + 1 = Len(s)
      BY <1>5, <2>2
    <2>4. k < Len(w)
      <3>1. h < Len(s)
        BY <1>4, <2>2, <2>3
      <3> QED BY <1>1, <1>7, <1>8, <2>1, <3>1
    <2>5. ASSUME k + 1 < Len(w) PROVE FALSE
      <3>1. k + 1 \in 1 .. Len(w)
        BY <1>1, <2>5
      <3>2. PICK i \in B : place(i) = k + 1
        BY <1>1, <3>1
      <3>3. place(h) < place(i) /\ place(i) < place(Len(s))
        BY <1>1, <1>8, <2>1, <2>5, <3>2
      <3>4. h < i /\ i < Len(s) /\ i \in 1 .. Len(s)
        BY <1>1, <1>6, <1>7, <3>3
      <3> QED BY <1>4, <2>2, <2>3, <3>4
    <2> QED BY <1>1, <2>4, <2>5
  <1>11. ASSUME NEW k \in 1 .. Len(w) PROVE w[k].kind = "term" <=> k = Len(w)
    <2>1. PICK h \in B : place(h) = k
      BY <1>1
    <2>2. h \in 1 .. Len(s) /\ s[h] = w[k]
      BY <1>1, <1>6, <2>1
    <2>3. k = Len(w) <=> h = Len(s)
      <3>1. h < Len(s) <=> place(h) < place(Len(s))
        BY <1>1, <1>7
      <3> QED BY <1>1, <1>4, <1>8, <2>1, <2>2, <3>1
    <2> QED BY <1>5, <2>2, <2>3
  <1>12. ASSUME NEW k \in 1 .. Len(w), NEW j \in 1 .. Len(w), w[k].id = w[j].id PROVE k = j
    <2>1. PICK h \in B : place(h) = k
      BY <1>1
    <2>2. PICK i \in B : place(i) = j
      BY <1>1
    <2>3. s[h] = w[k] /\ s[i] = w[j]
      BY <1>1, <2>1, <2>2
    <2>4. h = i
      BY <1>5, <1>6, <1>12, <2>3
    <2> QED BY <2>1, <2>2, <2>4
  <1>13. \A k \in 1 .. Len(w) : w[k].kind # "dbg"
    <2> SUFFICES ASSUME NEW k \in 1 .. Len(w) PROVE w[k].kind # "dbg"
      OBVIOUS
    <2>1. PICK h \in B : place(h) = k
      BY <1>1
    <2> QED BY <1>1, <1>6, <2>1
  <1>14. w # <<>>
    <2>1. Len(w) # 0
      BY <1>1, <1>7
    <2> QED BY <2>1, EmptySeq
  <1>15. WellFormed(w)
    BY <1>2, <1>9, <1>10, <1>11, <1>12, <1>14 DEF WellFormed
  <1> QED BY <1>13, <1>15 DEF w

StrippedBlock(s) == [i \in DOMAIN WithoutDbg(s) |-> [WithoutDbg(s)[i] EXCEPT !.line = 0]]

\* A block without debug information is a block, and its own body.
LEMMA Stripped ==
    ASSUME NEW s \in Seq(Instruction \cup SyntheticValue), WellFormed(s)
    PROVE  /\ StrippedBlock(s) \in Seq(Instruction \cup SyntheticValue)
           /\ WellFormed(StrippedBlock(s))
           /\ Len(StrippedBlock(s)) = Len(WithoutDbg(s))
           /\ DOMAIN StrippedBlock(s) = 1 .. Len(WithoutDbg(s))
           /\ \A i \in 1 .. Len(WithoutDbg(s)) : /\ StrippedBlock(s)[i].kind # "dbg"
                                                 /\ StrippedBlock(s)[i].line = 0
                                                 /\ StrippedBlock(s)[i].kind = WithoutDbg(s)[i].kind
                                                 /\ StrippedBlock(s)[i].id = WithoutDbg(s)[i].id
           /\ WithoutDbg(StrippedBlock(s)) = StrippedBlock(s)
  <1>s. PICK S : S = Instruction \cup SyntheticValue
    OBVIOUS
  <1>0. s \in Seq(S)
    BY <1>s
  <1>w. PICK w : w = WithoutDbg(s)
    OBVIOUS
  <1>t. PICK t : t = StrippedBlock(s)
    OBVIOUS
  <1>1. w \in Seq(S) /\ Len(w) \in Nat /\ DOMAIN w = 1 .. Len(w)
    BY <1>0, <1>w, BodyInOrder
  <1>2. WellFormed(w) /\ \A i \in 1 .. Len(w) : w[i].kind # "dbg"
    BY <1>0, <1>w, WellFormedBody
  <1>3. t = [i \in 1 .. Len(w) |-> [w[i] EXCEPT !.line = 0]]
    BY <1>t, <1>w, <1>1 DEF StrippedBlock
  <1>4. \A i \in 1 .. Len(w) : /\ t[i] \in S /\ t[i].kind = w[i].kind
                               /\ t[i].id = w[i].id /\ t[i].line = 0
    <2> SUFFICES ASSUME NEW i \in 1 .. Len(w)
                 PROVE  t[i] \in S /\ t[i].kind = w[i].kind /\ t[i].id = w[i].id /\ t[i].line = 0
      OBVIOUS
    <2>1. w[i] \in S
      BY <1>1, ElementOfSeq
    <2>2. PICK e \in Instruction \cup SyntheticValue : e = w[i] /\ e.kind # "dbg"
      BY <1>s, <1>2, <2>1
    <2>3. /\ [e EXCEPT !.line = 0] \in Instruction
          /\ [e EXCEPT !.line = 0].id = e.id
          /\ [e EXCEPT !.line = 0].kind = e.kind
          /\ [e EXCEPT !.line = 0].line = 0
      <3>1. 0 \in Line
        BY DEF Line
      <3> QED BY <2>2, <3>1, Fields
    <2>4. t[i] = [e EXCEPT !.line = 0]
      BY <1>3, <2>2
    <2> QED BY <1>s, <2>2, <2>3, <2>4
  <1>5. t \in Seq(S) /\ Len(t) = Len(w)
    <2>1. t \in [1 .. Len(w) -> S]
      BY <1>3, <1>4
    <2> QED BY <1>1, <2>1, SeqDef
  <1>6. DOMAIN t = 1 .. Len(w)
    BY <1>3
  <1>7. WellFormed(t)
    BY <1>1, <1>2, <1>4, <1>5, Relined
  <1>8. WithoutDbg(t) = t
    BY <1>2, <1>4, <1>5, <1>6, AllBody
  <1> QED BY <1>s, <1>w, <1>t, <1>2, <1>4, <1>5, <1>6, <1>7, <1>8

\* The debug information is taken off a module that can then be debugified.
Strips ==
    /\ code' = [b \in DOMAIN code |-> StrippedBlock(code[b])] /\ dbgCU' = FALSE
    /\ debugifyMD' \in Seq(Nat) /\ subprogram' = [f \in Functions |-> 0]
    /\ NextLine' = 1 /\ NextVar' = 1 /\ locPc' = "debugify" /\ UNCHANGED <<program, cursors>>

\* Whatever was made of a module, without its debug information it can be debugified
\* (IRLocator.cpp:17, Debugify.cpp:288-289).
LEMMA StripKeeps ==
    ASSUME NEW first \in Nat, LocTyping, Ordered, Blocks, Strips
    PROVE  /\ LocInv(first)'
           /\ \A b \in DOMAIN code :
                 /\ Len(Body(b)') = Len(Body(b))
                 /\ \A i \in DOMAIN Body(b) : /\ Body(b)'[i].id = Body(b)[i].id
                                              /\ Body(b)'[i].kind = Body(b)[i].kind
  <1> USE DEF LocInv
  <1>0. /\ locPc' = "debugify" /\ functionOf' = functionOf
        /\ exact' = exact /\ dbgCU' = FALSE /\ debugifyMD' \in Seq(Nat)
        /\ subprogram' = [f \in Functions |-> 0] /\ NextLine' = 1 /\ NextVar' = 1
        /\ F' = F /\ LastF' = LastF /\ BB' = BB /\ I' = I /\ InsertBefore' = InsertBefore
        /\ code' = [b \in DOMAIN code |-> StrippedBlock(code[b])]
    BY DEF Strips, program, cursors
  <1>1. ASSUME NEW b \in DOMAIN code
        PROVE  /\ code'[b] \in Seq(Instruction \cup SyntheticValue)
               /\ WellFormed(code'[b])
               /\ DOMAIN code'[b] = 1 .. Len(Body(b))
               /\ \A i \in 1 .. Len(Body(b)) : /\ code'[b][i].kind # "dbg"
                                               /\ code'[b][i].line = 0
                                               /\ code'[b][i].kind = Body(b)[i].kind
                                               /\ code'[b][i].id = Body(b)[i].id
               /\ Body(b)' = code'[b] /\ Len(code'[b]) = Len(Body(b))
               /\ DOMAIN Body(b) = 1 .. Len(Body(b))
    <2>1. code'[b] = StrippedBlock(code[b])
      BY <1>0
    <2>2. code[b] \in Seq(Instruction \cup SyntheticValue) /\ WellFormed(code[b])
      BY Typed DEF Blocks
    <2>3. DOMAIN Body(b) = 1 .. Len(Body(b))
      BY <2>2, BodyInOrder DEF Body
    <2> QED BY <2>1, <2>2, <2>3, Stripped DEF Body
  <1>2. DOMAIN code' = DOMAIN code /\ Len(code') = Len(code)
    <2>1. DOMAIN code' = 1 .. Len(code) /\ Len(code) \in Nat
      BY <1>0, Typed
    <2>2. code' \in [1 .. Len(code) -> Seq(Instruction \cup SyntheticValue)]
      BY <1>0, <1>1, <2>1
    <2> QED BY <2>1, <2>2, Typed
  <1>3. code' \in Seq(Seq(Instruction \cup SyntheticValue))
    <2>1. code' \in [1 .. Len(code) -> Seq(Instruction \cup SyntheticValue)]
      BY <1>0, <1>1, Typed
    <2> QED BY <2>1, Typed
  <1>4. Instruction' = Instruction /\ SyntheticValue' = SyntheticValue /\ Functions' = Functions
    BY <1>0, <1>2 DEF Instruction, SyntheticValue, Functions
  <1>5. LocTyping'
    <2>1. subprogram' \in [Functions' -> Nat]
      BY <1>0, <1>4
    <2>2. NextLine' \in Nat \ {0} /\ NextVar' \in Nat \ {0}
      BY <1>0
    <2> QED BY <1>0, <1>2, <1>3, <1>4, <2>1, <2>2 DEF LocTyping
  <1>6. Position(first)'
    BY <1>0 DEF Position, Applying, Applied
  <1>7. InBlock'
    BY <1>0 DEF InBlock
  <1>8. Ordered' /\ Blocks'
    BY <1>0, <1>1, <1>2, <1>4 DEF Ordered, Blocks
  <1>9. Numbering(first)'
    <2>1. \A b \in DOMAIN code' : Clean(b)'
      BY <1>1, <1>2 DEF Clean, NoDbg
    <2> QED BY <1>0, <2>1 DEF Numbering, Applying, Applied
  <1>10. Subprograms(first)'
    BY <1>0, <1>4 DEF Subprograms
  <1>11. Placed'
    BY <1>1, <1>2 DEF Placed
  <1>12. Describing(first)' /\ Erasing'
    BY <1>0 DEF Describing, Erasing, Applying, Applied
  <1> QED BY <1>1, <1>5, <1>6, <1>7, <1>8, <1>9, <1>10, <1>11, <1>12

\* The debug information of the input is gone (IRLocator.cpp:17).
LEMMA StripSymbolsKeeps ==
    ASSUME NEW first \in Nat, LocInv(first), StripSymbols
    PROVE  /\ LocInv(first)'
           /\ \A b \in DOMAIN code :
                 /\ Len(Body(b)') = Len(Body(b))
                 /\ \A i \in DOMAIN Body(b) : /\ Body(b)'[i].id = Body(b)[i].id
                                              /\ Body(b)'[i].kind = Body(b)[i].kind
  <1>1. /\ LocTyping /\ Ordered /\ Blocks /\ NextLine = 1 /\ NextVar = 1
        /\ debugifyMD \in Seq(Nat)
    BY DEF LocInv, Position, StripSymbols, LocTyping
  <1>2. Strips
    BY <1>1 DEF Strips, StripSymbols, StrippedBlock, counters
  <1> QED BY <1>1, <1>2, StripKeeps

--------------------------------------------------------------------------------
(* The locator: debugify of the whole module. *)

WholeModule == locPc \in Applying \cup Applied => LastF = Len(exact)

LocateInv == LocInv(1) /\ WholeModule

BodiesKept ==
    \A b \in DOMAIN code :
        /\ Len(Body(b)') = Len(Body(b))
        /\ \A i \in DOMAIN Body(b) : /\ Body(b)'[i].id = Body(b)[i].id
                                     /\ Body(b)'[i].kind = Body(b)[i].kind

\* The passes start at any module, with nothing done.
LEMMA LocateStarts == LocateInit => LocateInv
  <1> SUFFICES ASSUME LocateInit PROVE LocateInv
    OBVIOUS
  <1>1. PICK P \in Programs : /\ code = P.code /\ functionOf = P.functionOf /\ exact = P.exact
                              /\ dbgCU = P.dbgCU /\ debugifyMD = P.debugifyMD
                              /\ subprogram = P.subprogram
    BY DEF LocateInit
  <1>2. /\ NextLine = 1 /\ NextVar = 1 /\ F = 0 /\ LastF = 0 /\ BB = 0 /\ I = 0
        /\ InsertBefore = 0 /\ locPc = "strip"
    BY DEF LocateInit
  <1>3. /\ code \in Seq(Seq(Instruction))
        /\ \A b \in DOMAIN code : WellFormed(code[b])
        /\ exact \in Seq(BOOLEAN)
        /\ functionOf \in Seq(DOMAIN exact) /\ Len(functionOf) = Len(code)
        /\ \A b, c \in DOMAIN code : b <= c => functionOf[b] <= functionOf[c]
        /\ \A f \in DOMAIN exact : exact[f] => \E b \in DOMAIN code : functionOf[b] = f
        /\ dbgCU \in BOOLEAN /\ debugifyMD \in Seq(Nat)
        /\ subprogram \in [DOMAIN exact -> Nat]
    BY <1>1, ProgramAssumption DEF IsProgram, Instruction
  <1>4. DOMAIN exact = Functions /\ Len(exact) \in Nat /\ Len(code) \in Nat
    BY <1>3 DEF Functions
  <1>5. code \in Seq(Seq(Instruction \cup SyntheticValue))
    <2>1. \A b \in 1 .. Len(code) : code[b] \in Seq(Instruction \cup SyntheticValue)
      <3> SUFFICES ASSUME NEW b \in 1 .. Len(code) PROVE code[b] \in Seq(Instruction \cup SyntheticValue)
        OBVIOUS
      <3>1. PICK s \in Seq(Instruction) : s = code[b]
        BY <1>3, ElementOfSeq
      <3>2. s \in [1 .. Len(s) -> Instruction \cup SyntheticValue] /\ Len(s) \in Nat
        OBVIOUS
      <3>3. s \in Seq(Instruction \cup SyntheticValue)
        BY <3>2, SeqDef
      <3> QED BY <3>1, <3>3
    <2>2. code \in [1 .. Len(code) -> Seq(Instruction \cup SyntheticValue)]
      BY <1>3, <2>1
    <2> QED BY <1>4, <2>2, SeqDef
  <1>6. LocTyping
    BY <1>2, <1>3, <1>4, <1>5 DEF LocTyping
  <1>7. Ordered /\ Blocks
    BY <1>3, <1>4 DEF Ordered, Blocks
  <1>8. /\ Position(1) /\ InBlock /\ Numbering(1) /\ Subprograms(1)
        /\ Placed /\ Describing(1) /\ Erasing /\ WholeModule
    BY <1>2 DEF Position, InBlock, Numbering, Subprograms, Placed, Describing, Erasing,
                WholeModule, Applying, Applied
  <1> QED BY <1>6, <1>7, <1>8 DEF LocateInv, LocInv

\* A step that changes no block keeps the bodies.
LEMMA BodiesOfKeptCode == code' = code => BodiesKept
  BY DEF BodiesKept, Body

\* Each step but the first of debugify keeps the invariant and the bodies, and goes on
\* with the functions it was given.
LEMMA AnyStep ==
    ASSUME NEW first \in Nat, LocInv(first), LocateNext, ~EnterDebugify
    PROVE  LocInv(first)' /\ BodiesKept /\ LastF' = LastF /\ UNCHANGED program
  <1>1. CASE StripSymbols
    BY <1>1, StripSymbolsKeeps DEF BodiesKept, StripSymbols, cursors
  <1>3. CASE \/ SkipFunction \/ BeginFunction \/ SkipVoid \/ EndBlock \/ EndFunction
             \/ TrackCounts \/ EraseInNextBlock \/ Located
    <2>1. LocInv(first)'
      BY <1>3, SkipFunctionKeeps, BeginFunctionKeeps, SkipVoidKeeps, EndBlockKeeps,
         EndFunctionKeeps, TrackCountsKeeps, EraseInNextBlockKeeps, LocatedKeeps
    <2>2. code' = code /\ LastF' = LastF /\ UNCHANGED program
      BY <1>3 DEF SkipFunction, BeginFunction, SkipVoid, EndBlock, EndFunction, TrackCounts,
                  EraseInNextBlock, Located, cursors
    <2> QED BY <2>1, <2>2, BodiesOfKeptCode
  <1>4. CASE InsertDbgValue
    BY <1>4, InsertDbgValueKeeps DEF BodiesKept, InsertDbgValue
  <1>5. CASE EraseIntrinsic
    BY <1>5, EraseIntrinsicKeeps DEF BodiesKept, EraseIntrinsic
  <1>6. CASE AttachLocations
    BY <1>6, AttachLocationsKeeps DEF BodiesKept, AttachLocations
  <1> QED BY <1>1, <1>3, <1>4, <1>5, <1>6 DEF LocateNext

\* Each step keeps the invariant and the bodies.
LEMMA LocateStep == LocateInv /\ LocateNext => LocateInv' /\ BodiesKept
  <1> SUFFICES ASSUME LocateInv, LocateNext PROVE LocateInv' /\ BodiesKept
    OBVIOUS
  <1>0. LocInv(1) /\ WholeModule /\ 1 \in Nat
    BY DEF LocateInv
  <1>1. CASE EnterDebugify
    <2>0. locPc = "debugify" /\ code' = code /\ exact' = exact /\ LastF' = Len(exact)
      BY <1>1 DEF EnterDebugify, ApplyDebugifyMetadata, program
    <2>1. LocInv(1)'
      <3>1. Len(exact) \in 0 .. Len(exact) /\ 1 \in 1 .. Len(exact) + 1
        BY <1>0, Typed DEF LocInv
      <3>2. PICK n \in 0 .. Len(exact) : n = Len(exact) /\ 1 \in 1 .. n + 1
        BY <3>1
      <3>3. ApplyDebugifyMetadata(1, n)
        BY <1>1, <3>2 DEF EnterDebugify
      <3> QED BY <1>0, <3>2, <3>3, ApplyKeeps
    <2> QED BY <2>0, <2>1, BodiesOfKeptCode DEF LocateInv, WholeModule
  <1>2. CASE ~EnterDebugify
    <2>1. LocInv(1)' /\ BodiesKept /\ LastF' = LastF /\ exact' = exact
      BY <1>0, <1>2, AnyStep DEF program
    <2>2. locPc' \in Applying \cup Applied => locPc \in Applying \cup Applied
      BY <1>2 DEF LocateNext, StripSymbols, SkipFunction, BeginFunction, AttachLocations, SkipVoid,
                  InsertDbgValue, EndBlock, EndFunction, TrackCounts, EraseIntrinsic,
                  EraseInNextBlock, Located, Applying, Applied
    <2> QED BY <1>0, <2>1, <2>2 DEF LocateInv, WholeModule
  <1> QED BY <1>1, <1>2

\* Nothing happens to the invariant when nothing happens.
LEMMA AnyStutter ==
    ASSUME NEW first \in Nat, LocInv(first), UNCHANGED locVars
    PROVE  LocInv(first)'
  <1>0. /\ code' = code /\ functionOf' = functionOf /\ exact' = exact /\ dbgCU' = dbgCU
        /\ debugifyMD' = debugifyMD /\ subprogram' = subprogram /\ NextLine' = NextLine
        /\ NextVar' = NextVar /\ F' = F /\ LastF' = LastF /\ BB' = BB /\ I' = I
        /\ InsertBefore' = InsertBefore /\ locPc' = locPc
    BY DEF locVars
  <1>1. LocTyping' /\ Ordered' /\ Blocks'
    BY <1>0 DEF LocInv, LocTyping, Ordered, Blocks, Instruction, SyntheticValue, Functions
  <1>2. Position(first)' /\ InBlock' /\ Placed' /\ Erasing'
    BY <1>0 DEF LocInv, Position, InBlock, Placed, Erasing, AtBlock, LastInst, NoDbg
  <1>3. Numbering(first)' /\ Subprograms(first)'
    <2>1. Ahead' = Ahead /\ (\A b : HasLines(first, b)' <=> HasLines(first, b)) /\ (\A f : Begun(f)' <=> Begun(f))
      BY <1>0 DEF Ahead, HasLines, Begun, Locates
    <2> QED BY <1>0, <2>1, CodeKept DEF LocInv, Numbering, Subprograms
  <1>4. Describing(first)'
    <2>1. \A b, i : Seen(first, b, i)' <=> Seen(first, b, i)
      BY <1>0 DEF Seen, Locates
    <2> QED BY <1>0, <2>1, CodeKept DEF LocInv, Describing
  <1> QED BY <1>1, <1>2, <1>3, <1>4 DEF LocInv

\* Nor to that of the whole module.
LEMMA LocateStutters == LocateInv /\ UNCHANGED locVars => LocateInv'
  <1> SUFFICES ASSUME LocateInv, UNCHANGED locVars PROVE LocateInv'
    OBVIOUS
  <1>1. LocInv(1)'
    BY AnyStutter, 1 \in Nat DEF LocateInv
  <1> QED BY <1>1 DEF LocateInv, WholeModule, locVars

\* The invariant holds of every state of the passes.
LEMMA LocateInvariant == LocateSpec => []LocateInv
  <1>1. LocateInv /\ [LocateNext]_locVars => LocateInv'
    BY LocateStep, LocateStutters
  <1> QED BY <1>1, LocateStarts, PTL DEF LocateSpec

\* The types of the variables, one by one, and the cursors within their block.
LEMMA TypesFollow ==
    ASSUME NEW first \in Nat, LocTyping, Blocks, locPc = "values" => InBlock /\ Position(first)
    PROVE  LocateTypeOK
  <1>2. \A b \in DOMAIN code : code[b] \in Seq(Instruction \cup SyntheticValue) /\ code[b] # <<>>
    BY Typed DEF Blocks, WellFormed
  <1>3. functionOf \in [DOMAIN code -> Functions] /\ exact \in [Functions -> BOOLEAN]
    <2>1. \A b \in DOMAIN code : functionOf[b] \in Functions
      BY Typed DEF Functions
    <2>2. DOMAIN functionOf = DOMAIN code
      BY Typed
    <2>3. functionOf \in Seq(Functions)
      BY DEF LocTyping
    <2> QED BY <2>1, <2>2, <2>3 DEF LocTyping, Functions
  <1>4. locPc = "values" => I \in 1 .. LastInst /\ InsertBefore \in 1 .. Len(code[BB])
    <2> SUFFICES ASSUME locPc = "values"
                 PROVE  I \in 1 .. LastInst /\ InsertBefore \in 1 .. Len(code[BB])
      OBVIOUS
    <2>1. BB \in DOMAIN code
      BY DEF Position, AtBlock
    <2>2. LastInst \in 1 .. Len(code[BB]) /\ Len(code[BB]) \in Nat
      BY <1>2, <2>1, Terminating DEF Blocks, LastInst
    <2> QED BY <2>2 DEF InBlock
  <1> QED BY <1>2, <1>3, <1>4 DEF LocateTypeOK, LocTyping

\* Every cursor stays within what it points into, though the loops edit the lists
\* they walk (Debugify.cpp:63-165, IRLocator.cpp:16-33).
THEOREM LocateTypeCorrect == LocateSpec => []LocateTypeOK
  <1>1. LocateInv => LocateTypeOK
    BY TypesFollow, 1 \in Nat DEF LocateInv, LocInv
  <1> QED BY <1>1, LocateInvariant, PTL

\* What stands where in a block, and what describes what.
LEMMA PlacesFollow ==
    ASSUME LocTyping, Blocks, locPc \notin {"check", "checked"} => Placed
    PROVE  DebugValuesPlaced
  <1> SUFFICES ASSUME locPc \notin {"strip", "check", "checked"},
                      NEW b \in DOMAIN code, NEW i \in DOMAIN code[b]
               PROVE  CASE code[b][i].kind = "phi" ->
                              \A j \in 1 .. i : code[b][j].kind = "phi"
                        [] code[b][i].kind = "musttail" ->
                              i + 1 = Len(code[b]) /\ code[b][i + 1].kind = "term"
                        [] code[b][i].kind = "dbg" ->
                              \E j \in 1 .. i - 1 :
                                  /\ code[b][j].kind # "dbg"
                                  /\ code[b][j].id = code[b][i].id
                                  /\ code[b][j].line = code[b][i].line
                        [] OTHER -> TRUE
    BY DEF DebugValuesPlaced
  <1>1. WellFormed(code[b])
    BY DEF Blocks
  <1>2. i \in 1 .. Len(code[b]) /\ Len(code[b]) \in Nat /\ DOMAIN code[b] = 1 .. Len(code[b])
    BY Typed
  <1>3. code[b][i].kind = "phi" => \A j \in 1 .. i : code[b][j].kind = "phi"
    BY <1>1 DEF WellFormed
  <1>4. code[b][i].kind = "musttail" => i + 1 = Len(code[b]) /\ code[b][i + 1].kind = "term"
    <2> SUFFICES ASSUME code[b][i].kind = "musttail"
                 PROVE  i + 1 = Len(code[b]) /\ code[b][i + 1].kind = "term"
      OBVIOUS
    <2>1. i + 1 = Len(code[b])
      BY <1>1 DEF WellFormed
    <2>2. i + 1 \in DOMAIN code[b]
      BY <1>2, <2>1
    <2> QED BY <1>1, <2>1, <2>2 DEF WellFormed
  <1>5. code[b][i].kind = "dbg" =>
            \E j \in 1 .. i - 1 : /\ code[b][j].kind # "dbg"
                                  /\ code[b][j].id = code[b][i].id
                                  /\ code[b][j].line = code[b][i].line
    BY DEF Placed
  <1> QED BY <1>3, <1>4, <1>5

\* Whatever the module, it is usable between any two steps: the phis stay grouped at the
\* head, nothing comes between a musttail call and its return, and a debug value stands
\* behind what it describes, on its line (Debugify.cpp:51-61, 122-143).
THEOREM ValuesArePlaced == LocateSpec => []DebugValuesPlaced
  <1>1. LocateInv => DebugValuesPlaced
    BY PlacesFollow DEF LocateInv, LocInv
  <1> QED BY <1>1, LocateInvariant, PTL

\* The first block of a function, found as LinesNumberProgram does.
LEMMA FirstBlockOf ==
    ASSUME LocTyping, NEW f \in Functions, \E b \in DOMAIN code : functionOf[b] = f
    PROVE  LET l == SelectInSeq(functionOf, LAMBDA g : g = f)
           IN  l \in DOMAIN code /\ functionOf[l] = f /\ FirstBlock(l)
  <1> DEFINE Of == {b \in 1 .. Len(functionOf) : functionOf[b] = f}
  <1>1. Len(functionOf) \in Nat /\ DOMAIN code = 1 .. Len(functionOf)
    BY Typed DEF LocTyping
  <1>2. Of \subseteq 1 .. Len(functionOf) /\ Of # {}
    BY <1>1
  <1>3. SelectInSeq(functionOf, LAMBDA g : g = f) = Min(Of)
    BY <1>2 DEF SelectInSeq
  <1>4. Min(Of) \in Of /\ \A k \in Of : Min(Of) <= k
    BY <1>1, <1>2, LeastAndGreatest
  <1>5. PICK l \in Of : l = Min(Of) /\ \A k \in Of : l <= k
    BY <1>4
  <1>6. ASSUME NEW c \in DOMAIN code, c < l, functionOf[c] = f PROVE FALSE
    <2>1. c \in Of /\ c \in Int /\ l \in Int
      BY <1>1, <1>6
    <2> QED BY <1>5, <1>6, <2>1
  <1> QED BY <1>1, <1>3, <1>5, <1>6 DEF FirstBlock

\* When debugify is over, each described value is described once, and counted.
LEMMA CompletionFollows ==
    ASSUME NEW first \in Nat, LocInv(first)
    PROVE  DebugifyComplete
  <1> SUFFICES ASSUME locPc = "erase", BB = 1, I = 1, F > LastF
               PROVE  /\ \A b \in DOMAIN code : \A i \in DOMAIN code[b] :
                            code[b][i].kind # "dbg" =>
                                Cardinality(DescribedAt(b, i)) =
                                    IF IsDescribed(b, i) /\ subprogram[functionOf[b]] # 0 THEN 1 ELSE 0
                      /\ Last(debugifyMD) =
                             Cardinality(UNION {{b} \X {i \in DOMAIN code[b] : code[b][i].kind = "dbg"} :
                                                   b \in DOMAIN code})
    BY DEF DebugifyComplete
  <1>1. /\ LocTyping /\ Ordered /\ Subprograms(first) /\ Describing(first) /\ F = LastF + 1
    BY DEF LocInv, Position, Applied
  <1>2. /\ \A b \in DOMAIN code : \A i \in BodyOf(code[b]) :
              IF Seen(first, b, i) THEN \E j \in DOMAIN code[b] : DescribedAt(b, i) = {j}
                               ELSE DescribedAt(b, i) = {}
        /\ NextVar = 1 + Cardinality(AllDbgPlaces) /\ Last(debugifyMD) = NextVar - 1
    BY <1>1 DEF Describing, Applied
  <1>3. Last(debugifyMD) = Cardinality(AllDbgPlaces)
    BY <1>1, <1>2, DbgPlacesFinite
  <1>4. ASSUME NEW f \in Functions, exact[f] PROVE subprogram[f] # 0 <=> Locates(first, f)
    <2>1. CASE Locates(first, f)
      <3>0. LastF \in Nat
        BY <1>1 DEF LocTyping
      <3>1. f \in first .. LastF /\ f <= LastF /\ LastF \in Nat /\ f \in Int
        BY <2>1, <3>0 DEF Locates
      <3>2. Begun(f)
        BY <1>1, <3>1 DEF Begun
      <3>3. \E b \in DOMAIN code : functionOf[b] = f
        BY <1>1, <1>4 DEF Ordered
      <3>4. PICK l \in DOMAIN code : functionOf[l] = f /\ FirstBlock(l)
        BY <1>1, <3>3, FirstBlockOf
      <3>5. subprogram[f] = Before(first, l) + 1
        BY <1>1, <2>1, <3>2, <3>4 DEF Subprograms
      <3>6. Before(first, l) \in Nat
        BY <1>1, BeforeCounts
      <3> QED BY <2>1, <3>5, <3>6
    <2>2. CASE ~Locates(first, f)
      BY <1>1, <2>2 DEF Subprograms
    <2> QED BY <2>1, <2>2
  <1>5. ASSUME NEW b \in DOMAIN code, NEW i \in DOMAIN code[b], code[b][i].kind # "dbg"
        PROVE  Cardinality(DescribedAt(b, i)) =
                   IF IsDescribed(b, i) /\ subprogram[functionOf[b]] # 0 THEN 1 ELSE 0
    <2>1. functionOf[b] \in Functions
      BY <1>1, Typed DEF Functions
    <2>2. Seen(first, b, i) <=> IsDescribed(b, i) /\ subprogram[functionOf[b]] # 0
      <3>1. Seen(first, b, i) <=> Locates(first, functionOf[b]) /\ IsDescribed(b, i)
        BY DEF Seen, IsDescribed, Locates, Applying
      <3>2. IsDescribed(b, i) => exact[functionOf[b]]
        BY DEF IsDescribed
      <3> QED BY <1>4, <2>1, <3>1, <3>2
    <2>3. i \in BodyOf(code[b])
      BY <1>5 DEF BodyOf
    <2>4. CASE Seen(first, b, i)
      <3>1. PICK j \in DOMAIN code[b] : DescribedAt(b, i) = {j}
        BY <1>2, <2>3, <2>4
      <3>2. Cardinality({j}) = 1
        BY FS_Singleton
      <3> QED BY <2>2, <2>4, <3>1, <3>2
    <2>5. CASE ~Seen(first, b, i)
      <3>1. DescribedAt(b, i) = {}
        BY <1>2, <2>3, <2>5
      <3> QED BY <2>2, <2>5, <3>1, FS_EmptySet
    <2> QED BY <2>4, <2>5
  <1> QED BY <1>3, <1>5 DEF AllDbgPlaces, DbgPlacesOf

\* Whatever the module, when debugify is over each value that should be described is
\* described once and no other is, and the recorded count of variables is the number of
\* descriptions (Debugify.cpp:111-144, 158).
THEOREM DebugifyIsComplete == LocateSpec => []DebugifyComplete
  <1>1. LocateInv => DebugifyComplete
    BY CompletionFollows, 1 \in Nat DEF LocateInv
  <1> QED BY <1>1, LocateInvariant, PTL

\* When the passes are over each block is its body, and its lines follow those of the
\* located blocks before it (Debugify.cpp:94-109, IRLocator.cpp:17-32).
LEMMA LinesWhenDone ==
    ASSUME LocateInv, locPc = "done"
    PROVE  \A b \in DOMAIN code :
              /\ Body(b) = code[b] /\ DOMAIN code[b] = 1 .. Len(code[b]) /\ NoDbg(b)
              /\ functionOf[b] \in Functions
              /\ Locates(1, functionOf[b]) <=> exact[functionOf[b]]
              /\ exact[functionOf[b]] => \A i \in DOMAIN code[b] : code[b][i].line = Before(1, b) + i
              /\ ~exact[functionOf[b]] => \A i \in DOMAIN code[b] : code[b][i].line = 0
  <1>1. /\ LocTyping /\ Ordered /\ Subprograms(1) /\ Numbering(1) /\ F = LastF + 1
        /\ LastF = Len(exact) /\ Blocks /\ \A b \in DOMAIN code : NoDbg(b)
    BY DEF LocateInv, LocInv, WholeModule, Position, Applied, Erasing
  <1>2. ASSUME NEW b \in DOMAIN code
        PROVE  /\ Body(b) = code[b] /\ DOMAIN code[b] = 1 .. Len(code[b])
               /\ functionOf[b] \in Functions
               /\ Locates(1, functionOf[b]) <=> exact[functionOf[b]]
               /\ HasLines(1, b) <=> exact[functionOf[b]]
    <2>1. Body(b) = code[b]
      BY <1>1, Typed, AllBody DEF Body, NoDbg
    <2>2. functionOf[b] \in Functions /\ functionOf[b] \in 1 .. LastF
      BY <1>1, Typed DEF Functions
    <2> QED BY <1>1, <2>1, <2>2, Typed DEF HasLines, Locates
  <1>3. ASSUME NEW b \in DOMAIN code
        PROVE  /\ exact[functionOf[b]] =>
                      \A i \in DOMAIN code[b] : code[b][i].line = Before(1, b) + i
               /\ ~exact[functionOf[b]] => \A i \in DOMAIN code[b] : code[b][i].line = 0
    BY <1>1, <1>2 DEF Numbering, Applied, Clean
  <1> QED BY <1>1, <1>2, <1>3

\* When the passes are over, the lines count the instructions of the located functions
\* (Debugify.cpp:94-109, IRLocator.cpp:17-32).
LEMMA NumbersFollow == LocateInv => LinesNumberProgram
  <1> SUFFICES ASSUME LocateInv, locPc = "done"
               PROVE  /\ \A b \in DOMAIN code : \A i \in DOMAIN code[b] :
                            /\ code[b][i].kind # "dbg"
                            /\ code[b][i].line = IF exact[functionOf[b]] THEN CountedUpTo(b, i) ELSE 0
                      /\ \A f \in Functions :
                            IF exact[f]
                            THEN subprogram[f] = code[SelectInSeq(functionOf, LAMBDA g : g = f)][1].line
                            ELSE subprogram[f] = 0
    BY DEF LinesNumberProgram
  <1>1. /\ LocTyping /\ Ordered /\ Subprograms(1) /\ Numbering(1) /\ F = LastF + 1
        /\ LastF = Len(exact) /\ Blocks /\ \A b \in DOMAIN code : NoDbg(b)
    BY DEF LocateInv, LocInv, WholeModule, Position, Applied, Erasing
  <1>2. ASSUME NEW b \in DOMAIN code
        PROVE  /\ Body(b) = code[b] /\ DOMAIN code[b] = 1 .. Len(code[b])
               /\ functionOf[b] \in Functions
               /\ Locates(1, functionOf[b]) <=> exact[functionOf[b]]
    BY LinesWhenDone
  <1>3. ASSUME NEW b \in DOMAIN code
        PROVE  /\ exact[functionOf[b]] =>
                      \A i \in DOMAIN code[b] : code[b][i].line = Before(1, b) + i
               /\ ~exact[functionOf[b]] => \A i \in DOMAIN code[b] : code[b][i].line = 0
    BY LinesWhenDone
  <1>4. ASSUME NEW b \in DOMAIN code, NEW i \in DOMAIN code[b]
        PROVE  CountedUpTo(b, i) = Before(1, b) + i
    <2> DEFINE Ds == {d \in 1 .. b - 1 : exact[functionOf[d]]}
               Es == {d \in DOMAIN code : d < b /\ Locates(1, functionOf[d])}
    <2>1. Ds = Es
      <3>1. b \in Nat /\ b <= Len(code) /\ Len(code) \in Nat /\ DOMAIN code = 1 .. Len(code)
        BY <1>1, Typed
      <3>2. \A d : d \in 1 .. b - 1 <=> d \in DOMAIN code /\ d < b
        BY <3>1
      <3> QED BY <1>2, <3>2
    <2>2. \A c \in Es : {c} \X DOMAIN code[c] = {c} \X (1 .. Len(Body(c)))
      BY <1>2
    <2>3. UNION {{c} \X DOMAIN code[c] : c \in Ds} = PlacesBefore(1, b)
      BY <2>1, <2>2 DEF PlacesBefore
    <2>4. CountedUpTo(b, i) = i + Before(1, b)
      BY <2>3 DEF CountedUpTo, Before
    <2>5. Before(1, b) \in Nat /\ i \in Int
      BY <1>1, <1>2, BeforeCounts, 1 \in Nat
    <2> QED BY <2>4, <2>5
  <1>5. ASSUME NEW f \in Functions
        PROVE  IF exact[f]
               THEN subprogram[f] = code[SelectInSeq(functionOf, LAMBDA g : g = f)][1].line
               ELSE subprogram[f] = 0
    <2>1. f \in 1 .. LastF /\ f < F /\ LastF \in Nat
      BY <1>1, Typed DEF Functions
    <2>2. Begun(f) /\ (Locates(1, f) <=> exact[f])
      BY <2>1 DEF Locates, Begun
    <2>3. CASE exact[f]
      <3>1. \E b \in DOMAIN code : functionOf[b] = f
        BY <1>1, <2>3 DEF Ordered
      <3>2. PICK l : l = SelectInSeq(functionOf, LAMBDA g : g = f)
        OBVIOUS
      <3>3. l \in DOMAIN code /\ functionOf[l] = f /\ FirstBlock(l)
        BY <1>1, <3>1, <3>2, FirstBlockOf
      <3>4. subprogram[f] = Before(1, l) + 1
        BY <1>1, <2>2, <2>3, <3>3 DEF Subprograms
      <3>5. 1 \in DOMAIN code[l]
        BY <1>1, <3>3, Typed, Terminating DEF Blocks
      <3>6. code[l][1].line = Before(1, l) + 1
        BY <1>3, <2>3, <3>3, <3>5
      <3> QED BY <2>3, <3>2, <3>4, <3>6
    <2>4. CASE ~exact[f]
      BY <1>1, <2>2, <2>4 DEF Subprograms
    <2> QED BY <2>3, <2>4
  <1> QED BY <1>1, <1>3, <1>4, <1>5 DEF NoDbg

\* Whatever the module, IRLocator returns with no intrinsic left and with lines that
\* count the instructions of the located functions in program order, so that a line
\* names one instruction (Debugify.cpp:94-109, IRLocator.cpp:17-32).
THEOREM LinesAreNumbers == LocateSpec => []LinesNumberProgram
  BY LocateInvariant, NumbersFollow, PTL

\* Whatever the module, no step adds, removes or moves an instruction of the program
\* itself (Debugify.cpp:127-143, IRLocator.cpp:25-30).
THEOREM BodiesArePreserved == LocateSpec => BodyPreserved
  <1>1. LocateInv /\ [LocateNext]_locVars =>
            [\A b \in DOMAIN code :
                LET then == WithoutDbg(code[b])
                    now == WithoutDbg(code'[b])
                IN  /\ Len(now) = Len(then)
                    /\ \A i \in DOMAIN then : /\ now[i].id = then[i].id
                                              /\ now[i].kind = then[i].kind]_locVars
    BY LocateStep DEF BodiesKept, Body
  <1> QED BY <1>1, LocateInvariant, PTL DEF LocateSpec, BodyPreserved

================================================================================
