-------------------------- MODULE DebugifyCheckProofs --------------------------
(***************************************************************************)
(* Proofs about DebugifyCheck, for every module and however many passes    *)
(* are wrapped: the check reports what the pass lost and nothing else,     *)
(* and the statistics add it up.                                           *)
(*                                                                         *)
(* What debugify leaves behind is a numbering: each line up to the last    *)
(* one is that of one instruction, and each variable is that of one debug  *)
(* value.  A pass that loses one of them leaves all the others.            *)
(***************************************************************************)
EXTENDS DebugifyCheck, IRLocatorProofs

--------------------------------------------------------------------------------
(* What debugify leaves to the pass, and what the check looks for. *)

\* The first function debugify was given.
FirstF == IF wrapped = "module" THEN 1 ELSE LastF

Looked(b) == functionOf[b] \in Given /\ exact[functionOf[b]]

\* Each debug value has a number of its own.
VarsCount ==
    /\ \A b \in DOMAIN code : \A i \in DbgPlacesOf(b) :
          code[b][i] \in SyntheticValue /\ code[b][i].var \in 1 .. NextVar - 1 /\ code[b][i].sized
    /\ \A b, c \in DOMAIN code : \A i \in DbgPlacesOf(b), j \in DbgPlacesOf(c) :
          code[b][i].var = code[c][j].var => b = c /\ i = j

AtStart == locPc = "erase" /\ BB = 1 /\ I = 1

\* The bodies of some functions, and the values in them that are described.
BodyPlaces(fs) ==
    UNION {{b} \X (1 .. Len(Body(b))) :
              b \in {c \in DOMAIN code : functionOf[c] \in fs /\ exact[functionOf[c]]}}

DescribedPlaces(fs) ==
    {p \in BodyPlaces(fs) : /\ ~IsEHPad(Body(p[1]))
                            /\ Body(p[1])[p[2]].kind \in ValueKind
                            /\ p[2] < FindTerminatingInstruction(Body(p[1]))}

\* What the check sees of a line and of a variable.
HasLine(n) ==
    \E b \in DOMAIN code : Looked(b) /\ \E i \in BodyOf(code[b]) : code[b][i].line = n

HasVar(v) ==
    \E b \in DOMAIN code : Looked(b) /\
        \E i \in DbgPlacesOf(b) : code[b][i].sized /\ code[b][i].var = v

BadSize == \E b \in DOMAIN code : Looked(b) /\ \E i \in DbgPlacesOf(b) : ~code[b][i].sized

\* Where each kind of passes can be.
CheckTyping ==
    /\ wrapped \in Wrappings
    /\ locPc = "strip" => wrapped = "module" /\ losses = <<>>
    /\ wrapped = "module" /\ locPc \in Applying \cup Applied => LastF = Len(exact)
    /\ wrapped # "module" /\ locPc \in Applying \cup Applied => LastF # 0
    /\ wrapped # "module" => locPc # "done"
    /\ losses # <<>> => locPc # "aborted"
    /\ locPc = "check" => losses # <<>>
    /\ locPc \in Applying \cup Applied => dbgCU

\* The state a pass is given.
Ready == LocInv(FirstF) /\ CheckTyping /\ AtStart /\ VarsCount

\* llvm.debugify has the two counts, and nothing of an earlier run.
Counted == debugifyMD = <<NextLine - 1, NextVar - 1>>

--------------------------------------------------------------------------------
(* Lines and variables, once each. *)

\* Two instructions are not at one place of a body.
LEMMA OnePlaceEach ==
    ASSUME NEW S, NEW s \in Seq(S)
    PROVE  \A i, j \in BodyOf(s) : PlaceInBody(s, i) = PlaceInBody(s, j) => i = j
  <1> SUFFICES ASSUME NEW i \in BodyOf(s), NEW j \in BodyOf(s), PlaceInBody(s, i) = PlaceInBody(s, j)
               PROVE  i = j
    OBVIOUS
  <1>1. /\ PlaceInBody(s, i) \in 1 .. Len(WithoutDbg(s))
        /\ i < j <=> PlaceInBody(s, i) < PlaceInBody(s, j)
        /\ j < i <=> PlaceInBody(s, j) < PlaceInBody(s, i)
    BY BodyInOrder
  <1>2. PICK k \in 1 .. Len(WithoutDbg(s)) : k = PlaceInBody(s, i) /\ k = PlaceInBody(s, j)
    BY <1>1
  <1>3. ~(k < k)
    OBVIOUS
  <1>4. ~(i < j) /\ ~(j < i)
    BY ONLY <1>1, <1>2, <1>3
  <1>5. i \in Int /\ j \in Int
    BY BodyFinite
  <1> QED BY <1>4, <1>5

\* Each instruction of the located functions has a line of its own, and no line is left
\* out (Debugify.cpp:94-110).
LEMMA LinesTaken ==
    ASSUME NEW first \in Nat, LocInv(first), locPc = "erase"
    PROVE  /\ NextLine - 1 \in Nat
           /\ \A b \in DOMAIN code : ~Locates(first, functionOf[b]) => NoDbg(b)
           /\ \A b \in DOMAIN code : Locates(first, functionOf[b]) =>
                 \A i \in BodyOf(code[b]) : code[b][i].line \in 1 .. NextLine - 1
           /\ \A b, c \in DOMAIN code :
                 Locates(first, functionOf[b]) /\ Locates(first, functionOf[c]) =>
                     \A i \in BodyOf(code[b]), j \in BodyOf(code[c]) :
                         code[b][i].line = code[c][j].line => b = c /\ i = j
           /\ \A n \in 1 .. NextLine - 1 :
                 \E b \in DOMAIN code : Locates(first, functionOf[b]) /\
                     \E i \in BodyOf(code[b]) : code[b][i].line = n
           /\ NextLine - 1 = Before(first, Len(code) + 1)
  <1>1. LocTyping /\ Numbering(first)
    BY DEF LocInv
  <1>2. DOMAIN code = 1 .. Len(code) /\ Len(code) \in Nat
    BY <1>1, Typed
  <1> DEFINE L == {b \in DOMAIN code : Locates(first, functionOf[b])}
             P == PlacesBefore(first, Len(code) + 1)
             N == NextLine - 1
             f == [p \in P |-> Before(first, p[1]) + p[2]]
  <1>3. /\ N \in Nat /\ N = Cardinality(P) /\ IsFiniteSet(P) /\ N = Before(first, Len(code) + 1)
    <2>1. NextLine = 1 + Before(first, Len(code) + 1)
      BY <1>1 DEF Numbering, Applied, Ahead
    <2>2. IsFiniteSet(P) /\ Before(first, Len(code) + 1) \in Nat
      BY <1>1, BeforeCounts
    <2>3. PICK n \in Nat : n = Before(first, Len(code) + 1)
      BY <2>2
    <2>4. NextLine - 1 = n
      BY <2>1, <2>3
    <2> QED BY <2>2, <2>3, <2>4 DEF Before
  <1>4. \A b \in DOMAIN code : ~Locates(first, functionOf[b]) => NoDbg(b)
    BY <1>1 DEF Numbering, HasLines, Clean, Applied
  <1>5. \A b \in L : \A k \in 1 .. Len(Body(b)) : Body(b)[k].line = Before(first, b) + k
    BY <1>1 DEF Numbering, HasLines, Applied
  <1>6. \A b \in L : Before(first, b) \in Nat /\ Len(Body(b)) \in Nat
    BY <1>1, BeforeCounts, Typed, BodyInOrder DEF Body
  <1>7. ASSUME NEW b \in L
        PROVE  /\ \A i \in BodyOf(code[b]) : /\ PlaceInBody(code[b], i) \in 1 .. Len(Body(b))
                                             /\ code[b][i].line = Before(first, b) + PlaceInBody(code[b], i)
               /\ \A i, j \in BodyOf(code[b]) : PlaceInBody(code[b], i) = PlaceInBody(code[b], j) => i = j
               /\ \A k \in 1 .. Len(Body(b)) : \E i \in BodyOf(code[b]) : PlaceInBody(code[b], i) = k
    <2>1. PICK s \in Seq(Instruction \cup SyntheticValue) : s = code[b]
      BY <1>1, Typed
    <2>2. /\ \A i \in BodyOf(s) : /\ PlaceInBody(s, i) \in 1 .. Len(WithoutDbg(s))
                                  /\ WithoutDbg(s)[PlaceInBody(s, i)] = s[i]
          /\ \A i, j \in BodyOf(s) : i < j <=> PlaceInBody(s, i) < PlaceInBody(s, j)
          /\ \A k \in 1 .. Len(WithoutDbg(s)) : \E i \in BodyOf(s) : PlaceInBody(s, i) = k
      BY BodyInOrder
    <2>4. \A i, j \in BodyOf(s) : PlaceInBody(s, i) = PlaceInBody(s, j) => i = j
      BY OnePlaceEach
    <2> QED BY <1>5, <2>1, <2>2, <2>4 DEF Body
  <1>8. \A b, c \in L : b < c => Before(first, b) + Len(Body(b)) <= Before(first, c)
    BY <1>1, BlocksApart
  <1>9. \A b \in L : Before(first, b) + Len(Body(b)) <= N
    <2> SUFFICES ASSUME NEW b \in L PROVE Before(first, b) + Len(Body(b)) <= Before(first, Len(code) + 1)
      BY <1>3
    <2>1. b < Len(code) + 1 /\ Len(code) + 1 \in DOMAIN code \cup {Len(code) + 1}
      BY <1>2
    <2> QED BY <1>1, <2>1, BlocksApart
  <1>10. ASSUME NEW b \in L, NEW c \in L, NEW k \in 1 .. Len(Body(b)), NEW h \in 1 .. Len(Body(c)),
                Before(first, b) + k = Before(first, c) + h
         PROVE  b = c /\ k = h
    <2>1. PICK x \in Nat, y \in Nat, l \in Nat, m \in Nat :
              x = Before(first, b) /\ y = Before(first, c) /\ l = Len(Body(b)) /\ m = Len(Body(c))
      BY <1>6
    <2>2. b \in Nat /\ c \in Nat
      BY <1>2
    <2>3. ~(b < c)
      <3>1. b < c => x + l <= y
        BY <1>8, <2>1
      <3> QED BY <1>10, <2>1, <3>1
    <2>4. ~(c < b)
      <3>1. c < b => y + m <= x
        BY <1>8, <2>1
      <3> QED BY <1>10, <2>1, <3>1
    <2>5. b = c
      BY <2>2, <2>3, <2>4
    <2> QED BY <1>10, <2>1, <2>5
  <1>11. ASSUME NEW b \in L, NEW k \in 1 .. Len(Body(b)) PROVE Before(first, b) + k \in 1 .. N
    <2>1. PICK x \in Nat, l \in Nat : x = Before(first, b) /\ l = Len(Body(b)) /\ x + l <= N
      BY <1>6, <1>9
    <2> QED BY <1>3, <2>1
  <1>12. /\ \A b \in L : \A k \in 1 .. Len(Body(b)) : <<b, k>> \in P
         /\ \A p \in P : p = <<p[1], p[2]>> /\ p[1] \in L /\ p[2] \in 1 .. Len(Body(p[1]))
    <2>0. \A d \in DOMAIN code : d < Len(code) + 1
      BY <1>2
    <2>1. P = UNION {{c} \X (1 .. Len(Body(c))) : c \in L}
      BY <2>0 DEF PlacesBefore
    <2> HIDE DEF L, P
    <2>2. ASSUME NEW p \in P PROVE p = <<p[1], p[2]>> /\ p[1] \in L /\ p[2] \in 1 .. Len(Body(p[1]))
      <3>1. PICK c \in L : p \in {c} \X (1 .. Len(Body(c)))
        BY <2>1
      <3> QED BY <3>1
    <2> QED BY <2>1, <2>2
  <1> HIDE DEF L, P, N
  <1>13. f \in Injection(P, 1 .. N)
    <2>1. f \in [P -> 1 .. N]
      BY <1>11, <1>12
    <2>2. \A p, q \in P : f[p] = f[q] => p = q
      BY <1>10, <1>12
    <2> QED BY <2>1, <2>2 DEF Injection, IsInjective
  <1>14. \A n \in 1 .. N : \E p \in P : f[p] = n
    <2>1. IsFiniteSet(1 .. N) /\ Cardinality(1 .. N) = N
      BY <1>3, FS_Interval, 1 \in Int, N \in Int
    <2>2. f \in Surjection(P, 1 .. N)
      BY <1>3, <1>13, <2>1, FS_Injection
    <2> QED BY <2>2 DEF Surjection
  <1> USE DEF f
  <1>15. ASSUME NEW n \in 1 .. N
         PROVE  \E b \in L : \E i \in BodyOf(code[b]) : code[b][i].line = n
    <2>1. PICK p \in P : f[p] = n
      BY <1>14
    <2>2. p[1] \in L /\ p[2] \in 1 .. Len(Body(p[1])) /\ Before(first, p[1]) + p[2] = n
      BY <1>12, <2>1
    <2>3. PICK b \in L : b = p[1]
      BY <2>2
    <2>4. PICK i \in BodyOf(code[b]) : PlaceInBody(code[b], i) = p[2]
      BY <1>7, <2>2, <2>3
    <2>5. code[b][i].line = Before(first, b) + p[2]
      BY <1>7, <2>4
    <2> QED BY <2>2, <2>3, <2>5
  <1>16. ASSUME NEW b \in L, NEW c \in L, NEW i \in BodyOf(code[b]), NEW j \in BodyOf(code[c]),
                code[b][i].line = code[c][j].line
         PROVE  b = c /\ i = j
    <2>1. b = c /\ PlaceInBody(code[b], i) = PlaceInBody(code[c], j)
      BY <1>7, <1>10, <1>16
    <2> QED BY <1>7, <2>1
  <1>17. \A b \in L : \A i \in BodyOf(code[b]) : code[b][i].line \in 1 .. N
    BY <1>7, <1>11
  <1> QED BY <1>3, <1>4, <1>15, <1>16, <1>17 DEF L, N

\* Each variable up to the last is that of a debug value (Debugify.cpp:111-144, 158).
LEMMA VarsTaken ==
    ASSUME NEW first \in Nat, LocInv(first), VarsCount, AtStart
    PROVE  /\ NextVar - 1 \in Nat /\ NextVar - 1 = Cardinality(AllDbgPlaces)
           /\ \A v \in 1 .. NextVar - 1 :
                 \E b \in DOMAIN code : \E i \in DbgPlacesOf(b) : code[b][i].var = v
  <1> DEFINE P == AllDbgPlaces
             N == NextVar - 1
             f == [p \in P |-> code[p[1]][p[2]].var]
  <1>1. LocTyping /\ NextVar = 1 + Cardinality(P)
    BY DEF LocInv, Describing, AtStart, Applied
  <1>2. IsFiniteSet(P) /\ Cardinality(P) \in Nat
    BY <1>1, DbgPlacesFinite
  <1>3. N = Cardinality(P) /\ N \in Nat
    BY <1>1, <1>2
  <1>4. \A p \in P : p = <<p[1], p[2]>> /\ p[1] \in DOMAIN code /\ p[2] \in DbgPlacesOf(p[1])
    BY DbgPlacesPairs
  <1> HIDE DEF P, N
  <1>5. f \in Injection(P, 1 .. N)
    <2>1. f \in [P -> 1 .. N]
      BY <1>4 DEF VarsCount, N
    <2>2. \A p, q \in P : f[p] = f[q] => p = q
      BY <1>4 DEF VarsCount
    <2> QED BY <2>1, <2>2 DEF Injection, IsInjective
  <1>6. \A n \in 1 .. N : \E p \in P : f[p] = n
    <2>1. IsFiniteSet(1 .. N) /\ Cardinality(1 .. N) = N
      BY <1>3, FS_Interval, 1 \in Int, N \in Int
    <2>2. f \in Surjection(P, 1 .. N)
      BY <1>2, <1>3, <1>5, <2>1, FS_Injection
    <2> QED BY <2>2 DEF Surjection
  <1>7. ASSUME NEW v \in 1 .. N
        PROVE  \E b \in DOMAIN code : \E i \in DbgPlacesOf(b) : code[b][i].var = v
    <2>1. PICK p \in P : f[p] = v
      BY <1>6
    <2> QED BY <1>4, <2>1
  <1> QED BY <1>3, <1>7 DEF N, P

\* What the check looks at, block by block (Debugify.cpp:236-276).
LEMMA CheckFinds ==
    Checked = [lines |-> {n \in 1 .. OriginalNumLines : ~HasLine(n)},
               vars |-> {v \in 1 .. OriginalNumVars : ~HasVar(v)},
               HasErrors |-> HasLine(0) \/ BadSize]
  <1>1. \A b, i : <<b, i>> \in Places <=> b \in DOMAIN code /\ Looked(b) /\ i \in DOMAIN code[b]
    <2>1. Places = UNION {{b} \X DOMAIN code[b] : b \in {c \in DOMAIN code : Looked(c)}}
      BY DEF Places, PlacesOf, Looked, IsFunctionSkipped
    <2> QED BY <2>1
  <1>2. \A p \in Places : p = <<p[1], p[2]>> /\ p[1] \in DOMAIN code /\ Looked(p[1]) /\ p[2] \in DOMAIN code[p[1]]
    <2>1. Places = UNION {{b} \X DOMAIN code[b] : b \in {c \in DOMAIN code : Looked(c)}}
      BY DEF Places, PlacesOf, Looked, IsFunctionSkipped
    <2> SUFFICES ASSUME NEW p \in Places
                 PROVE  p = <<p[1], p[2]>> /\ p[1] \in DOMAIN code /\ Looked(p[1]) /\ p[2] \in DOMAIN code[p[1]]
      OBVIOUS
    <2>2. PICK b \in DOMAIN code : Looked(b) /\ p \in {b} \X DOMAIN code[b]
      BY <2>1
    <2> QED BY <2>2
  <1>3. \A b, i : <<b, i>> \in DbgPlaces <=> b \in DOMAIN code /\ Looked(b) /\ i \in DbgPlacesOf(b)
    BY <1>1 DEF DbgPlaces, DbgPlacesOf
  <1>4. \A b, i : <<b, i>> \in InstPlaces <=> b \in DOMAIN code /\ Looked(b) /\ i \in BodyOf(code[b])
    BY <1>1, <1>3 DEF InstPlaces, DbgPlacesOf, BodyOf
  <1>5. DbgPlaces \subseteq Places /\ InstPlaces \subseteq Places
    BY DEF DbgPlaces, InstPlaces
  <1>6. \A n : n \in {At(p).line : p \in InstPlaces} <=> HasLine(n)
    <2> SUFFICES ASSUME NEW n PROVE (\E p \in InstPlaces : At(p).line = n) <=> HasLine(n)
      OBVIOUS
    <2>1. ASSUME NEW p \in InstPlaces, At(p).line = n PROVE HasLine(n)
      <3>1. PICK b, i : p = <<b, i>>
        BY <1>2, <1>5
      <3> QED BY <1>4, <2>1, <3>1 DEF At, HasLine
    <2>2. ASSUME HasLine(n) PROVE \E p \in InstPlaces : At(p).line = n
      <3>1. PICK b \in DOMAIN code : Looked(b) /\ \E i \in BodyOf(code[b]) : code[b][i].line = n
        BY <2>2 DEF HasLine
      <3>2. PICK i \in BodyOf(code[b]) : code[b][i].line = n
        BY <3>1
      <3>3. <<b, i>> \in InstPlaces /\ At(<<b, i>>).line = n
        BY <1>4, <3>1, <3>2 DEF At
      <3> QED BY <3>3
    <2> QED BY <2>1, <2>2
  <1>7. \A v : v \in {At(p).var : p \in {q \in DbgPlaces : ~HasBadSize(At(q))}} <=> HasVar(v)
    <2> SUFFICES ASSUME NEW v PROVE (\E p \in DbgPlaces : At(p).sized /\ At(p).var = v) <=> HasVar(v)
      BY DEF HasBadSize
    <2>1. ASSUME NEW p \in DbgPlaces, At(p).sized, At(p).var = v PROVE HasVar(v)
      <3>1. PICK b, i : p = <<b, i>>
        BY <1>2, <1>5
      <3> QED BY <1>3, <2>1, <3>1 DEF At, HasVar
    <2>2. ASSUME HasVar(v) PROVE \E p \in DbgPlaces : At(p).sized /\ At(p).var = v
      <3>1. PICK b \in DOMAIN code : Looked(b) /\ \E i \in DbgPlacesOf(b) : code[b][i].sized /\ code[b][i].var = v
        BY <2>2 DEF HasVar
      <3>2. PICK i \in DbgPlacesOf(b) : code[b][i].sized /\ code[b][i].var = v
        BY <3>1
      <3>3. <<b, i>> \in DbgPlaces /\ At(<<b, i>>).sized /\ At(<<b, i>>).var = v
        BY <1>3, <3>1, <3>2 DEF At
      <3> QED BY <3>3
    <2> QED BY <2>1, <2>2
  <1>8. (\E p \in DbgPlaces : HasBadSize(At(p))) <=> BadSize
    <2>1. ASSUME NEW p \in DbgPlaces, HasBadSize(At(p)) PROVE BadSize
      <3>1. PICK b, i : p = <<b, i>>
        BY <1>2, <1>5
      <3> QED BY <1>3, <2>1, <3>1 DEF At, BadSize, HasBadSize
    <2>2. ASSUME BadSize PROVE \E p \in DbgPlaces : HasBadSize(At(p))
      <3>1. PICK b \in DOMAIN code : Looked(b) /\ \E i \in DbgPlacesOf(b) : ~code[b][i].sized
        BY <2>2 DEF BadSize
      <3>2. PICK i \in DbgPlacesOf(b) : ~code[b][i].sized
        BY <3>1
      <3>3. <<b, i>> \in DbgPlaces /\ HasBadSize(At(<<b, i>>))
        BY <1>3, <3>1, <3>2 DEF At, HasBadSize
      <3> QED BY <3>3
    <2> QED BY <2>1, <2>2
  <1>9. MissingLines = {n \in 1 .. OriginalNumLines : ~HasLine(n)}
    BY <1>6 DEF MissingLines
  <1>10. MissingVars = {v \in 1 .. OriginalNumVars : ~HasVar(v)}
    BY <1>7 DEF MissingVars
  <1>11. (\E p \in InstPlaces : At(p).line = 0) <=> HasLine(0)
    BY <1>6
  <1> QED BY <1>8, <1>9, <1>10, <1>11 DEF Checked

\* What is described, by the kinds of the instructions alone (Debugify.cpp:51-61, 122-129).
LEMMA DescribedKinds ==
    ASSUME NEW S, NEW s \in Seq(S), WellFormed(s), NEW i \in 1 .. Len(s)
    PROVE  s[i].kind \in ValueKind /\ i < FindTerminatingInstruction(s)
               <=> s[i].kind \in {"phi", "pad", "value"}
  <1>1. /\ Len(s) \in Nat /\ DOMAIN s = 1 .. Len(s)
        /\ FindTerminatingInstruction(s) \in 1 .. Len(s)
        /\ FindTerminatingInstruction(s) >= Len(s) - 1
        /\ s[FindTerminatingInstruction(s)].kind \in {"term", "musttail"}
        /\ \A j \in 1 .. Len(s) : j < FindTerminatingInstruction(s) => s[j].kind \notin {"term", "musttail"}
    BY Terminating
  <1>2. PICK m \in 1 .. Len(s) : m = FindTerminatingInstruction(s) /\ m >= Len(s) - 1
    BY <1>1
  <1>3. ASSUME s[i].kind \in {"phi", "pad", "value"} PROVE i < m
    <2>1. i # m
      BY <1>1, <1>2, <1>3
    <2>2. i # Len(s)
      BY <1>1, <1>3 DEF WellFormed
    <2>3. PICK n \in Nat : n = Len(s)
      BY <1>1
    <2>4. i \in 1 .. n /\ m \in 1 .. n /\ m >= n - 1 /\ i # m /\ i # n
      BY <1>2, <2>1, <2>2, <2>3
    <2> QED BY ONLY <2>4, n \in Nat
  <1>4. ASSUME s[i].kind \in ValueKind, i < m PROVE s[i].kind \in {"phi", "pad", "value"}
    BY <1>1, <1>2, <1>4 DEF ValueKind
  <1> QED BY <1>2, <1>3, <1>4 DEF ValueKind

\* A pad is no debug intrinsic.
LEMMA PadInBody ==
    ASSUME NEW S, NEW s \in Seq(S)
    PROVE  IsEHPad(WithoutDbg(s)) <=> IsEHPad(s)
  <1>1. /\ DOMAIN WithoutDbg(s) = 1 .. Len(WithoutDbg(s)) /\ BodyOf(s) \subseteq DOMAIN s
        /\ \A i \in BodyOf(s) : /\ PlaceInBody(s, i) \in 1 .. Len(WithoutDbg(s))
                                /\ WithoutDbg(s)[PlaceInBody(s, i)] = s[i]
        /\ \A k \in 1 .. Len(WithoutDbg(s)) : \E i \in BodyOf(s) : PlaceInBody(s, i) = k
    BY BodyInOrder DEF BodyOf
  <1>2. ASSUME IsEHPad(WithoutDbg(s)) PROVE IsEHPad(s)
    <2>1. PICK k \in 1 .. Len(WithoutDbg(s)) : WithoutDbg(s)[k].kind = "pad"
      BY <1>1, <1>2 DEF IsEHPad
    <2>2. PICK i \in BodyOf(s) : PlaceInBody(s, i) = k
      BY <1>1
    <2> QED BY <1>1, <2>1, <2>2 DEF IsEHPad
  <1>3. ASSUME IsEHPad(s) PROVE IsEHPad(WithoutDbg(s))
    <2>1. PICK i \in DOMAIN s : s[i].kind = "pad"
      BY <1>3 DEF IsEHPad
    <2>2. i \in BodyOf(s)
      BY <2>1 DEF BodyOf
    <2> QED BY <1>1, <2>1, <2>2 DEF IsEHPad
  <1> QED BY <1>2, <1>3

\* The places of bodies, one by one.
LEMMA BodyPlacesMember ==
    ASSUME NEW fs
    PROVE  /\ \A b, k : <<b, k>> \in BodyPlaces(fs) <=>
                  b \in DOMAIN code /\ functionOf[b] \in fs /\ exact[functionOf[b]] /\ k \in 1 .. Len(Body(b))
           /\ \A p \in BodyPlaces(fs) : p = <<p[1], p[2]>>
  <1> DEFINE L == {c \in DOMAIN code : functionOf[c] \in fs /\ exact[functionOf[c]]}
  <1>1. BodyPlaces(fs) = UNION {{b} \X (1 .. Len(Body(b))) : b \in L}
    BY DEF BodyPlaces
  <1>2. \A c : c \in L <=> c \in DOMAIN code /\ functionOf[c] \in fs /\ exact[functionOf[c]]
    OBVIOUS
  <1> HIDE DEF L
  <1>3. ASSUME NEW b, NEW k
        PROVE  <<b, k>> \in BodyPlaces(fs) <=> b \in L /\ k \in 1 .. Len(Body(b))
    BY <1>1
  <1>4. ASSUME NEW p \in BodyPlaces(fs) PROVE p = <<p[1], p[2]>>
    <2>1. PICK b \in L : p \in {b} \X (1 .. Len(Body(b)))
      BY <1>1
    <2> QED BY <2>1
  <1> QED BY <1>2, <1>3, <1>4

\* debugify describes as many values as there are to describe in the bodies: each debug
\* value is that of another one (Debugify.cpp:111-144, 158).
LEMMA AsManyDescribed ==
    ASSUME NEW first \in Nat, LocInv(first), AtStart, NEW fs,
           \A b \in DOMAIN code :
               functionOf[b] \in fs /\ exact[functionOf[b]] <=> Locates(first, functionOf[b])
    PROVE  /\ Cardinality(DescribedPlaces(fs)) = Cardinality(AllDbgPlaces)
           /\ Cardinality(BodyPlaces(fs)) = Before(first, Len(code) + 1)
           /\ IsFiniteSet(BodyPlaces(fs)) /\ Cardinality(BodyPlaces(fs)) \in Nat
  <1> DEFINE L == {b \in DOMAIN code : Locates(first, functionOf[b])}
             D == DescribedPlaces(fs)
             value(b, j) == CHOOSE i \in BodyOf(code[b]) : code[b][i].id = code[b][j].id
             f == [p \in AllDbgPlaces |-> <<p[1], PlaceInBody(code[p[1]], value(p[1], p[2]))>>]
  <1>1. LocTyping /\ Blocks /\ Placed /\ locPc = "erase"
    BY DEF LocInv, AtStart
  <1>2. DOMAIN code = 1 .. Len(code) /\ Len(code) \in Nat
    BY <1>1, Typed
  <1>3. BodyPlaces(fs) = PlacesBefore(first, Len(code) + 1)
    <2>1. {c \in DOMAIN code : functionOf[c] \in fs /\ exact[functionOf[c]]} = L
      OBVIOUS
    <2>2. \A d \in DOMAIN code : d < Len(code) + 1
      BY <1>2
    <2>3. {d \in DOMAIN code : d < Len(code) + 1 /\ Locates(first, functionOf[d])} = L
      BY <2>2
    <2> HIDE DEF L
    <2> QED BY <2>1, <2>3 DEF BodyPlaces, PlacesBefore
  <1>4. ASSUME NEW b \in DOMAIN code
        PROVE  /\ code[b] \in Seq(Instruction \cup SyntheticValue) /\ WellFormed(code[b])
               /\ \A i \in BodyOf(code[b]) : /\ PlaceInBody(code[b], i) \in 1 .. Len(Body(b))
                                             /\ Body(b)[PlaceInBody(code[b], i)] = code[b][i]
               /\ \A i, j \in BodyOf(code[b]) : PlaceInBody(code[b], i) = PlaceInBody(code[b], j) => i = j
               /\ \A k \in 1 .. Len(Body(b)) : \E i \in BodyOf(code[b]) : PlaceInBody(code[b], i) = k
               /\ \A i, j \in BodyOf(code[b]) : code[b][i].id = code[b][j].id => i = j
    <2>1. PICK s \in Seq(Instruction \cup SyntheticValue) : s = code[b]
      BY <1>1, Typed
    <2>2. WellFormed(code[b])
      BY <1>1 DEF Blocks
    <2>3. /\ \A i \in BodyOf(s) : /\ PlaceInBody(s, i) \in 1 .. Len(WithoutDbg(s))
                                  /\ WithoutDbg(s)[PlaceInBody(s, i)] = s[i]
          /\ \A i, j \in BodyOf(s) : i < j <=> PlaceInBody(s, i) < PlaceInBody(s, j)
          /\ \A k \in 1 .. Len(WithoutDbg(s)) : \E i \in BodyOf(s) : PlaceInBody(s, i) = k
      BY BodyInOrder
    <2>4. \A i, j \in BodyOf(s) : PlaceInBody(s, i) = PlaceInBody(s, j) => i = j
      BY OnePlaceEach
    <2>5. \A i, j \in BodyOf(code[b]) : code[b][i].id = code[b][j].id => i = j
      BY <2>2 DEF WellFormed, BodyOf
    <2> QED BY <2>1, <2>2, <2>3, <2>4, <2>5 DEF Body
  <1>5. ASSUME NEW b \in DOMAIN code, NEW i \in BodyOf(code[b])
        PROVE  Seen(first, b, i) <=> <<b, PlaceInBody(code[b], i)>> \in D
    <2> DEFINE s == code[b]
               k == PlaceInBody(code[b], i)
    <2>1. s \in Seq(Instruction \cup SyntheticValue) /\ WellFormed(s) /\ i \in 1 .. Len(s)
          /\ k \in 1 .. Len(Body(b)) /\ Body(b)[k] = s[i]
      BY <1>4, BodyFinite
    <2>2. Body(b) \in Seq(Instruction \cup SyntheticValue) /\ WellFormed(Body(b)) /\ (IsEHPad(Body(b)) <=> IsEHPad(s))
      BY <2>1, BodyInOrder, WellFormedBody, PadInBody DEF Body
    <2>3. Seen(first, b, i) <=> /\ Locates(first, functionOf[b]) /\ ~IsEHPad(s)
                                /\ s[i].kind \in {"phi", "pad", "value"}
      BY <1>1, <2>1, DescribedKinds DEF Seen, Applying
    <2>4. Body(b)[k].kind \in ValueKind /\ k < FindTerminatingInstruction(Body(b))
              <=> s[i].kind \in {"phi", "pad", "value"}
      BY <2>1, <2>2, DescribedKinds
    <2>5. <<b, k>> \in BodyPlaces(fs) <=> Locates(first, functionOf[b])
      BY <2>1, BodyPlacesMember
    <2>6. <<b, k>>[1] = b /\ <<b, k>>[2] = k
      OBVIOUS
    <2> HIDE DEF s, k
    <2>7. <<b, k>> \in DescribedPlaces(fs) <=>
              /\ <<b, k>> \in BodyPlaces(fs) /\ ~IsEHPad(Body(b))
              /\ Body(b)[k].kind \in ValueKind /\ k < FindTerminatingInstruction(Body(b))
      BY <2>6 DEF DescribedPlaces
    <2> QED BY <2>2, <2>3, <2>4, <2>5, <2>7 DEF k
  <1>6. ASSUME NEW b \in DOMAIN code, NEW i \in BodyOf(code[b])
        PROVE  IF Seen(first, b, i) THEN \E j \in DOMAIN code[b] : DescribedAt(b, i) = {j}
                                    ELSE DescribedAt(b, i) = {}
    BY DEF LocInv, Describing, AtStart, Applied
  <1>7. ASSUME NEW b \in DOMAIN code, NEW j \in DbgPlacesOf(b)
        PROVE  /\ value(b, j) \in BodyOf(code[b]) /\ code[b][value(b, j)].id = code[b][j].id
               /\ j \in DescribedAt(b, value(b, j)) /\ Seen(first, b, value(b, j))
    <2>1. \E i \in BodyOf(code[b]) : code[b][i].id = code[b][j].id
      <3>1. j \in DOMAIN code[b] /\ code[b][j].kind = "dbg" /\ DOMAIN code[b] = 1 .. Len(code[b])
            /\ Len(code[b]) \in Nat
        BY <1>1, Typed DEF DbgPlacesOf
      <3>2. PICK i \in 1 .. j - 1 : code[b][i].kind # "dbg" /\ code[b][i].id = code[b][j].id
        BY <1>1, <3>1 DEF Placed
      <3>3. i \in DOMAIN code[b]
        BY <3>1
      <3> QED BY <3>2, <3>3 DEF BodyOf
    <2>2. value(b, j) \in BodyOf(code[b]) /\ code[b][value(b, j)].id = code[b][j].id
      BY <2>1
    <2> HIDE DEF value
    <2>3. j \in DescribedAt(b, value(b, j))
      BY <2>2 DEF DescribedAt, DbgPlacesOf
    <2> QED BY <1>6, <2>2, <2>3
  <1>8. ASSUME NEW b \in DOMAIN code, NEW j \in DbgPlacesOf(b), NEW i \in BodyOf(code[b]), code[b][i].id = code[b][j].id
        PROVE  value(b, j) = i
    BY <1>4, <1>7, <1>8
  <1> HIDE DEF value, D, L
  <1>9. \A p \in AllDbgPlaces : p = <<p[1], p[2]>> /\ p[1] \in DOMAIN code /\ p[2] \in DbgPlacesOf(p[1])
    BY DbgPlacesPairs
  <1>10. f \in [AllDbgPlaces -> D]
    <2> SUFFICES ASSUME NEW p \in AllDbgPlaces PROVE <<p[1], PlaceInBody(code[p[1]], value(p[1], p[2]))>> \in D
      OBVIOUS
    <2> QED BY <1>5, <1>7, <1>9
  <1>11. ASSUME NEW p \in AllDbgPlaces, NEW q \in AllDbgPlaces, f[p] = f[q] PROVE p = q
    <2>1. PICK b, j : b \in DOMAIN code /\ j \in DbgPlacesOf(b) /\ p = <<b, j>>
      BY <1>9
    <2>2. PICK c, h : c \in DOMAIN code /\ h \in DbgPlacesOf(c) /\ q = <<c, h>>
      BY <1>9
    <2>3. b = c /\ PlaceInBody(code[b], value(b, j)) = PlaceInBody(code[b], value(b, h))
      BY <1>11, <2>1, <2>2
    <2>4. b \in DOMAIN code /\ j \in DbgPlacesOf(b) /\ h \in DbgPlacesOf(b)
      BY <2>1, <2>2, <2>3
    <2>5. value(b, j) = value(b, h)
      BY <1>4, <1>7, <2>3, <2>4
    <2>7. PICK l : DescribedAt(b, value(b, j)) = {l}
      BY <1>6, <1>7, <2>4
    <2>6. j = l /\ h = l
      BY <1>7, <2>4, <2>5, <2>7
    <2> QED BY <2>1, <2>2, <2>3, <2>6
  <1>12. ASSUME NEW q \in D PROVE \E p \in AllDbgPlaces : f[p] = q
    <2>1. PICK b, k : q = <<b, k>> /\ b \in DOMAIN code /\ k \in 1 .. Len(Body(b))
      BY BodyPlacesMember DEF D, DescribedPlaces
    <2>2. PICK i \in BodyOf(code[b]) : PlaceInBody(code[b], i) = k
      BY <1>4, <2>1
    <2>3. Seen(first, b, i)
      BY <1>5, <2>1, <2>2
    <2>4. PICK j \in DOMAIN code[b] : DescribedAt(b, i) = {j}
      BY <1>6, <2>1, <2>3
    <2>5. j \in DbgPlacesOf(b) /\ code[b][i].id = code[b][j].id
      BY <2>4 DEF DescribedAt, DbgPlacesOf
    <2>6. <<b, j>> \in AllDbgPlaces
      BY <2>1, <2>5, DbgPlacesMember
    <2>7. f[<<b, j>>] = <<b, PlaceInBody(code[b], value(b, j))>>
      BY <2>6
    <2> QED BY <1>8, <2>1, <2>2, <2>5, <2>6, <2>7
  <1>13. f \in Bijection(AllDbgPlaces, D)
    BY <1>10, <1>11, <1>12 DEF Bijection, Injection, Surjection, IsInjective
  <1>14. Cardinality(D) = Cardinality(AllDbgPlaces)
    BY <1>1, <1>13, DbgPlacesFinite, FS_Bijection DEF ExistsBijection
  <1>15. IsFiniteSet(PlacesBefore(first, Len(code) + 1)) /\ Before(first, Len(code) + 1) \in Nat
    BY <1>1, BeforeCounts
  <1> QED BY <1>3, <1>14, <1>15 DEF D, Before

\* The functions that are checked are those debugify was given (Debugify.cpp:238-240).
LEMMA GivenAreLocated ==
    ASSUME LocTyping, CheckTyping, locPc \in Applied
    PROVE  FirstF \in Nat /\ \A b \in DOMAIN code : Looked(b) <=> Locates(FirstF, functionOf[b])
  <1>1. Len(exact) \in Nat /\ LastF \in Nat /\ wrapped \in Wrappings
    BY Typed DEF LocTyping, CheckTyping
  <1>2. \A b \in DOMAIN code : functionOf[b] \in 1 .. Len(exact)
    BY Typed
  <1>3. CASE wrapped = "module"
    <2>1. LastF = Len(exact) /\ FirstF = 1 /\ Given = 1 .. Len(exact)
      BY <1>3 DEF CheckTyping, FirstF, Given, GivenToModulePass, Functions
    <2> QED BY <1>2, <2>1 DEF Looked, Locates
  <1>4. CASE wrapped # "module"
    <2>1. FirstF = LastF /\ Given = {LastF}
      BY <1>4 DEF FirstF, Given, GivenToFunctionPass
    <2>2. \A f : f \in LastF .. LastF <=> f = LastF
      BY <1>1
    <2> QED BY <1>1, <2>1, <2>2 DEF Looked, Locates
  <1> QED BY <1>3, <1>4

\* The numbering the pass is given: each line and each variable up to the last is found,
\* once, and so many there are to be kept (Debugify.cpp:94-144, 157-161).
LEMMA Numbered ==
    ASSUME Ready
    PROVE  /\ LocTyping /\ Ordered /\ Blocks /\ Placed
           /\ NextLine - 1 = Cardinality(BodyPlaces(Given))
           /\ NextVar - 1 = Cardinality(DescribedPlaces(Given))
           /\ \A b \in DOMAIN code : Looked(b) =>
                 \A i \in BodyOf(code[b]) : code[b][i].line \in 1 .. NextLine - 1
           /\ \A b, c \in DOMAIN code : Looked(b) /\ Looked(c) =>
                 \A i \in BodyOf(code[b]), j \in BodyOf(code[c]) :
                     code[b][i].line = code[c][j].line => b = c /\ i = j
           /\ \A n \in 1 .. NextLine - 1 : HasLine(n)
           /\ \A b \in DOMAIN code : \A i \in DbgPlacesOf(b) :
                 /\ Looked(b) /\ code[b][i] \in SyntheticValue /\ code[b][i].sized
                 /\ code[b][i].var \in 1 .. NextVar - 1
           /\ \A b, c \in DOMAIN code : \A i \in DbgPlacesOf(b), j \in DbgPlacesOf(c) :
                 code[b][i].var = code[c][j].var => b = c /\ i = j
           /\ \A v \in 1 .. NextVar - 1 : HasVar(v)
  <1>1. LocInv(FirstF) /\ CheckTyping /\ AtStart /\ VarsCount /\ locPc = "erase"
    BY DEF Ready, AtStart
  <1>2. LocTyping /\ Ordered /\ Blocks /\ Placed
    BY <1>1 DEF LocInv
  <1>4. FirstF \in Nat /\ \A b \in DOMAIN code : Looked(b) <=> Locates(FirstF, functionOf[b])
    BY <1>1, <1>2, GivenAreLocated DEF Applied
  <1>5. PICK first \in Nat : first = FirstF
    BY <1>4
  <1>6. LocInv(first)
    BY <1>1, <1>5
  <1>7. /\ \A b \in DOMAIN code : ~Locates(first, functionOf[b]) => NoDbg(b)
        /\ \A b \in DOMAIN code : Locates(first, functionOf[b]) =>
              \A i \in BodyOf(code[b]) : code[b][i].line \in 1 .. NextLine - 1
        /\ \A b, c \in DOMAIN code :
              Locates(first, functionOf[b]) /\ Locates(first, functionOf[c]) =>
                  \A i \in BodyOf(code[b]), j \in BodyOf(code[c]) :
                      code[b][i].line = code[c][j].line => b = c /\ i = j
        /\ \A n \in 1 .. NextLine - 1 :
              \E b \in DOMAIN code : Locates(first, functionOf[b]) /\
                  \E i \in BodyOf(code[b]) : code[b][i].line = n
        /\ NextLine - 1 = Before(first, Len(code) + 1)
    BY <1>1, <1>6, LinesTaken
  <1>8. /\ NextVar - 1 = Cardinality(AllDbgPlaces)
        /\ \A v \in 1 .. NextVar - 1 :
              \E b \in DOMAIN code : \E i \in DbgPlacesOf(b) : code[b][i].var = v
    BY <1>1, <1>6, VarsTaken
  <1>9. /\ Cardinality(DescribedPlaces(Given)) = Cardinality(AllDbgPlaces)
        /\ Cardinality(BodyPlaces(Given)) = Before(first, Len(code) + 1)
    <2>1. \A b \in DOMAIN code : functionOf[b] \in Given /\ exact[functionOf[b]] <=> Locates(first, functionOf[b])
      BY <1>4, <1>5 DEF Looked
    <2> QED BY <1>1, <1>6, <2>1, AsManyDescribed
  <1>10. \A b \in DOMAIN code : \A i \in DbgPlacesOf(b) :
             /\ Looked(b) /\ code[b][i] \in SyntheticValue /\ code[b][i].sized
             /\ code[b][i].var \in 1 .. NextVar - 1
    BY <1>1, <1>4, <1>5, <1>7 DEF VarsCount, NoDbg, DbgPlacesOf
  <1>11. \A n \in 1 .. NextLine - 1 : HasLine(n)
    BY <1>4, <1>5, <1>7 DEF HasLine
  <1>12. \A v \in 1 .. NextVar - 1 : HasVar(v)
    BY <1>8, <1>10 DEF HasVar
  <1> QED BY <1>1, <1>2, <1>4, <1>5, <1>7, <1>8, <1>9, <1>10, <1>11, <1>12 DEF VarsCount

--------------------------------------------------------------------------------
(* What the pass loses, and what is found then. *)

\* The numbers of llvm.debugify are the numbers of instructions and values; all the pass
\* does is to the blocks.
PassRuns ==
    /\ locPc' = "check"
    /\ UNCHANGED <<program, debugInfo, counters, cursors, wrapped>>

\* The counts are those of the lines and of the variables.
LEMMA CountsTaken ==
    ASSUME Counted
    PROVE  OriginalNumLines = NextLine - 1 /\ OriginalNumVars = NextVar - 1
  BY DEF Counted, OriginalNumLines, OriginalNumVars

\* Nothing is reported of a pass that loses nothing (Debugify.cpp:236-276).
LEMMA NothingLost ==
    ASSUME Ready, PassRuns, code' = code
    PROVE  Counted => Checked' = NothingMissing
  <1>1. /\ \A n : HasLine(n)' <=> HasLine(n)
        /\ \A v : HasVar(v)' <=> HasVar(v)
        /\ BadSize' <=> BadSize
        /\ OriginalNumLines' = OriginalNumLines /\ OriginalNumVars' = OriginalNumVars
    BY DEF PassRuns, HasLine, HasVar, BadSize, Looked, Given, GivenToModulePass, GivenToFunctionPass,
           Functions, DbgPlacesOf, OriginalNumLines, OriginalNumVars, program, debugInfo, cursors
  <1>2. (Checked = [lines |-> {n \in 1 .. OriginalNumLines : ~HasLine(n)},
                    vars |-> {v \in 1 .. OriginalNumVars : ~HasVar(v)},
                    HasErrors |-> HasLine(0) \/ BadSize])'
    BY CheckFinds, PTL
  <1>3. /\ \A n \in 1 .. NextLine - 1 : HasLine(n)
        /\ \A v \in 1 .. NextVar - 1 : HasVar(v)
        /\ ~HasLine(0) /\ ~BadSize
    BY Numbered DEF HasLine, BadSize
  <1> QED BY <1>1, <1>2, <1>3, CountsTaken DEF NothingMissing

\* What is lost, field by field.
LEMMA LossRecords ==
    ASSUME NEW l, NEW e
    PROVE  /\ [NothingMissing EXCEPT !.lines = l, !.HasErrors = e] = [lines |-> l, vars |-> {}, HasErrors |-> e]
           /\ [NothingMissing EXCEPT !.vars = l] = [lines |-> {}, vars |-> l, HasErrors |-> FALSE]
           /\ [NothingMissing EXCEPT !.vars = l, !.HasErrors = e] = [lines |-> {}, vars |-> l, HasErrors |-> e]
  <1>1. PICK a, c : a = {} /\ c = FALSE
    OBVIOUS
  <1>2. PICK r : r = [lines |-> a, vars |-> a, HasErrors |-> c]
    OBVIOUS
  <1>3. r = NothingMissing
    BY <1>1, <1>2 DEF NothingMissing
  <1>4. PICK q : q = [lines |-> l, vars |-> a, HasErrors |-> c]
    OBVIOUS
  <1>5. PICK s : s = [lines |-> a, vars |-> l, HasErrors |-> c]
    OBVIOUS
  <1>6. [r EXCEPT !.lines = l] = q
    BY <1>2, <1>4
  <1>7. [r EXCEPT !.vars = l] = s
    BY <1>2, <1>5
  <1>8. [q EXCEPT !.HasErrors = e] = [lines |-> l, vars |-> a, HasErrors |-> e]
    BY <1>4
  <1>9. [s EXCEPT !.HasErrors = e] = [lines |-> a, vars |-> l, HasErrors |-> e]
    BY <1>5
  <1>10. [r EXCEPT !.lines = l, !.HasErrors = e] = [[r EXCEPT !.lines = l] EXCEPT !.HasErrors = e]
    BY <1>2
  <1>11. [r EXCEPT !.vars = l, !.HasErrors = e] = [[r EXCEPT !.vars = l] EXCEPT !.HasErrors = e]
    BY <1>2
  <1>12. [r EXCEPT !.lines = l, !.HasErrors = e] = [lines |-> l, vars |-> a, HasErrors |-> e]
    BY <1>6, <1>8, <1>10
  <1>13. [r EXCEPT !.vars = l, !.HasErrors = e] = [lines |-> a, vars |-> l, HasErrors |-> e]
    BY <1>7, <1>9, <1>11
  <1> QED BY <1>1, <1>3, <1>5, <1>7, <1>12, <1>13

\* The pass changes nothing but a block, and leaves a block there.
LEMMA BlockLeft ==
    ASSUME LocTyping, Ordered, Blocks, PassRuns, NEW B \in DOMAIN code,
           NEW t \in Seq(Instruction \cup SyntheticValue), WellFormed(t),
           code' = [code EXCEPT ![B] = t], Len(WithoutDbg(t)) = Len(Body(B)),
           \A k \in 1 .. Len(Body(B)) : /\ WithoutDbg(t)[k].id = Body(B)[k].id
                                        /\ WithoutDbg(t)[k].kind = Body(B)[k].kind
    PROVE  /\ LocTyping' /\ Ordered' /\ Blocks' /\ BodiesKept
           /\ DOMAIN code' = DOMAIN code /\ code'[B] = t
           /\ \A b \in DOMAIN code : b # B => code'[b] = code[b]
           /\ \A b : Looked(b)' <=> Looked(b)
           /\ OriginalNumLines' = OriginalNumLines /\ OriginalNumVars' = OriginalNumVars
  <1>1. /\ functionOf' = functionOf /\ exact' = exact /\ dbgCU' = dbgCU /\ debugifyMD' = debugifyMD
        /\ subprogram' = subprogram /\ NextLine' = NextLine /\ NextVar' = NextVar /\ F' = F
        /\ LastF' = LastF /\ BB' = BB /\ I' = I /\ InsertBefore' = InsertBefore /\ locPc' = "check"
        /\ wrapped' = wrapped
    BY DEF PassRuns, program, debugInfo, counters, cursors
  <1>2. /\ DOMAIN code' = DOMAIN code /\ Len(code') = Len(code) /\ code'[B] = t
        /\ \A b \in DOMAIN code : b # B => code'[b] = code[b]
        /\ code' \in Seq(Seq(Instruction \cup SyntheticValue))
        /\ Instruction' = Instruction /\ SyntheticValue' = SyntheticValue
        /\ Functions' = Functions /\ Ordered'
    BY <1>1, BlockChanged, 0 \in Nat DEF Body
  <1>3. LocTyping'
    BY <1>1, <1>2 DEF LocTyping
  <1>4. Blocks'
    BY <1>2 DEF Blocks
  <1>5. BodiesKept
    <2>1. DOMAIN Body(B) = 1 .. Len(Body(B))
      BY BodyInOrder, Typed DEF Body
    <2>2. Body(B)' = WithoutDbg(t) /\ \A b \in DOMAIN code : b # B => Body(b)' = Body(b)
      BY <1>2 DEF Body
    <2> QED BY <2>1, <2>2 DEF BodiesKept
  <1>6. /\ \A b : Looked(b)' <=> Looked(b)
        /\ OriginalNumLines' = OriginalNumLines /\ OriginalNumVars' = OriginalNumVars
    BY <1>1, <1>2 DEF Looked, Given, GivenToModulePass, GivenToFunctionPass, Functions,
                      OriginalNumLines, OriginalNumVars
  <1> QED BY <1>2, <1>3, <1>4, <1>5, <1>6

\* Other lines and other sizes leave the body as it is.
LEMMA BodyRelined ==
    ASSUME NEW S, NEW s \in Seq(S), NEW t \in Seq(S), Len(t) = Len(s),
           \A i \in 1 .. Len(s) : t[i].kind = s[i].kind /\ t[i].id = s[i].id
    PROVE  /\ BodyOf(t) = BodyOf(s) /\ Len(WithoutDbg(t)) = Len(WithoutDbg(s))
           /\ \A k \in 1 .. Len(WithoutDbg(s)) : /\ WithoutDbg(t)[k].id = WithoutDbg(s)[k].id
                                                 /\ WithoutDbg(t)[k].kind = WithoutDbg(s)[k].kind
  <1>1. BodyOf(t) = BodyOf(s) /\ BodyOf(s) \subseteq 1 .. Len(s)
    BY BodyFinite DEF BodyOf
  <1>2. \A i : PlaceInBody(t, i) = PlaceInBody(s, i)
    BY <1>1 DEF PlaceInBody
  <1>3. /\ Len(WithoutDbg(s)) = Cardinality(BodyOf(s)) /\ Len(WithoutDbg(t)) = Cardinality(BodyOf(t))
        /\ \A i \in BodyOf(s) : WithoutDbg(s)[PlaceInBody(s, i)] = s[i]
        /\ \A i \in BodyOf(t) : WithoutDbg(t)[PlaceInBody(t, i)] = t[i]
        /\ \A k \in 1 .. Len(WithoutDbg(s)) : \E i \in BodyOf(s) : PlaceInBody(s, i) = k
    BY BodyInOrder
  <1>4. ASSUME NEW k \in 1 .. Len(WithoutDbg(s))
        PROVE  WithoutDbg(t)[k].id = WithoutDbg(s)[k].id /\ WithoutDbg(t)[k].kind = WithoutDbg(s)[k].kind
    <2>1. PICK i \in BodyOf(s) : PlaceInBody(s, i) = k
      BY <1>3
    <2>2. WithoutDbg(s)[k] = s[i] /\ WithoutDbg(t)[k] = t[i] /\ i \in 1 .. Len(s)
      BY <1>1, <1>2, <1>3, <2>1
    <2> QED BY <2>2
  <1> QED BY <1>1, <1>3, <1>4

\* The places the pass has to choose from.
LEMMA PlacesLooked ==
    /\ \A p \in InstPlaces : p[1] \in DOMAIN code /\ Looked(p[1]) /\ p[2] \in BodyOf(code[p[1]])
    /\ \A p \in DbgPlaces : p[1] \in DOMAIN code /\ Looked(p[1]) /\ p[2] \in DbgPlacesOf(p[1])
  <1>1. ASSUME NEW p \in Places
        PROVE  p[1] \in DOMAIN code /\ Looked(p[1]) /\ p[2] \in DOMAIN code[p[1]]
    <2>1. Places = UNION {{b} \X DOMAIN code[b] : b \in {c \in DOMAIN code : Looked(c)}}
      BY DEF Places, PlacesOf, Looked, IsFunctionSkipped
    <2>2. PICK b \in DOMAIN code : Looked(b) /\ p \in {b} \X DOMAIN code[b]
      BY <2>1
    <2> QED BY <2>2
  <1> QED BY <1>1 DEF InstPlaces, DbgPlaces, DbgPlacesOf, BodyOf

\* A location that is gone is found missing by its line, and is an error if no other has
\* taken its place (Debugify.cpp:242-260).
LEMMA LineLost ==
    ASSUME Ready, PassRuns, NEW p \in InstPlaces, NEW line \in {0, NoLine, 1}, line # At(p).line,
           code' = [code EXCEPT ![p[1]][p[2]].line = line]
    PROVE  /\ Counted => Checked' = [NothingMissing EXCEPT !.lines = {At(p).line}, !.HasErrors = (line = 0)]
           /\ LocTyping' /\ Ordered' /\ Blocks' /\ BodiesKept
  <1> DEFINE B == p[1]
             K == p[2]
             s == code[B]
             old == code[B][K].line
             t == [s EXCEPT ![K] = [s[K] EXCEPT !.line = line]]
  <1>0. LocTyping /\ Ordered /\ Blocks
    BY Numbered
  <1>1. B \in DOMAIN code /\ Looked(B) /\ K \in BodyOf(code[B]) /\ line # old /\ At(p).line = old
    BY PlacesLooked DEF At
  <1>2. s \in Seq(Instruction \cup SyntheticValue) /\ WellFormed(s) /\ DOMAIN s = 1 .. Len(s)
        /\ K \in 1 .. Len(s) /\ s[K].kind # "dbg"
    BY <1>0, <1>1, Typed DEF Blocks, BodyOf
  <1>3. /\ [s[K] EXCEPT !.line = line] \in Instruction
        /\ [s[K] EXCEPT !.line = line].id = s[K].id
        /\ [s[K] EXCEPT !.line = line].kind = s[K].kind
        /\ [s[K] EXCEPT !.line = line].line = line
    <2>1. s[K] \in Instruction \cup SyntheticValue
      BY <1>2
    <2>2. PICK e \in Instruction \cup SyntheticValue : e = s[K]
      BY <2>1
    <2> QED BY <1>2, <2>2, Fields, line \in Line DEF Line
  <1>4. code' = [code EXCEPT ![B] = t]
    OBVIOUS
  <1>5. /\ t \in Seq(Instruction \cup SyntheticValue) /\ Len(t) = Len(s)
        /\ t[K] = [s[K] EXCEPT !.line = line] /\ \A i \in 1 .. Len(s) : i # K => t[i] = s[i]
    BY <1>2, <1>3
  <1> HIDE DEF B, K, t
  <1>6. \A i \in 1 .. Len(s) : t[i].kind = s[i].kind /\ t[i].id = s[i].id
    BY <1>3, <1>5
  <1>7. WellFormed(t)
    BY <1>2, <1>5, <1>6, Relined
  <1>8. /\ BodyOf(t) = BodyOf(s) /\ Len(WithoutDbg(t)) = Len(Body(B))
        /\ \A k \in 1 .. Len(Body(B)) : /\ WithoutDbg(t)[k].id = Body(B)[k].id
                                        /\ WithoutDbg(t)[k].kind = Body(B)[k].kind
    <2>1. PICK S : S = Instruction \cup SyntheticValue
      OBVIOUS
    <2>2. s \in Seq(S) /\ t \in Seq(S) /\ Len(t) = Len(s)
          /\ \A i \in 1 .. Len(s) : t[i].kind = s[i].kind /\ t[i].id = s[i].id
      BY <1>2, <1>5, <1>6, <2>1
    <2>3. Body(B) = WithoutDbg(s)
      BY DEF Body
    <2> QED BY ONLY <2>2, <2>3, BodyRelined
  <1>9. /\ LocTyping' /\ Ordered' /\ Blocks' /\ BodiesKept
        /\ DOMAIN code' = DOMAIN code /\ code'[B] = t
        /\ \A b \in DOMAIN code : b # B => code'[b] = code[b]
        /\ \A b : Looked(b)' <=> Looked(b)
        /\ OriginalNumLines' = OriginalNumLines /\ OriginalNumVars' = OriginalNumVars
    BY <1>0, <1>1, <1>4, <1>5, <1>7, <1>8, BlockLeft
  <1>10. \A b \in DOMAIN code :
             /\ BodyOf(code'[b]) = BodyOf(code[b]) /\ DbgPlacesOf(b)' = DbgPlacesOf(b)
             /\ \A i \in DbgPlacesOf(b) : code'[b][i] = code[b][i]
             /\ \A i \in BodyOf(code[b]) :
                   code'[b][i].line = IF b = B /\ i = K THEN line ELSE code[b][i].line
    <2>1. DOMAIN t = 1 .. Len(s) /\ BodyOf(s) \subseteq 1 .. Len(s) /\ DbgPlacesOf(B) \subseteq 1 .. Len(s)
      BY <1>2, <1>5 DEF BodyOf, DbgPlacesOf
    <2>2. DbgPlacesOf(B)' = {i \in DOMAIN t : t[i].kind = "dbg"}
      BY <1>9 DEF DbgPlacesOf
    <2>3. DbgPlacesOf(B)' = DbgPlacesOf(B)
      BY <1>2, <1>6, <2>1, <2>2 DEF DbgPlacesOf
    <2>4. K \notin DbgPlacesOf(B)
      BY <1>2 DEF DbgPlacesOf
    <2>5. \A i \in DbgPlacesOf(B) : t[i] = s[i]
      BY <1>5, <2>1, <2>4
    <2>6. \A i \in BodyOf(s) : t[i].line = IF i = K THEN line ELSE s[i].line
      BY <1>3, <1>5, <2>1
    <2>7. ASSUME NEW b \in DOMAIN code, b # B
          PROVE  code'[b] = code[b] /\ DbgPlacesOf(b)' = DbgPlacesOf(b)
      BY <1>9, <2>7 DEF DbgPlacesOf
    <2>8. /\ BodyOf(code'[B]) = BodyOf(code[B])
          /\ \A i \in DbgPlacesOf(B) : code'[B][i] = code[B][i]
          /\ \A i \in BodyOf(code[B]) : code'[B][i].line = IF i = K THEN line ELSE code[B][i].line
      BY <1>8, <1>9, <2>5, <2>6
    <2> SUFFICES ASSUME NEW b \in DOMAIN code
                 PROVE  /\ BodyOf(code'[b]) = BodyOf(code[b]) /\ DbgPlacesOf(b)' = DbgPlacesOf(b)
                        /\ \A i \in DbgPlacesOf(b) : code'[b][i] = code[b][i]
                        /\ \A i \in BodyOf(code[b]) :
                              code'[b][i].line = IF b = B /\ i = K THEN line ELSE code[b][i].line
      OBVIOUS
    <2>9. CASE b = B
      BY <2>3, <2>8, <2>9
    <2>10. CASE b # B
      BY ONLY <2>7, <2>10, b \in DOMAIN code
    <2> QED BY <2>9, <2>10
  <1>11. (\A v : HasVar(v)' <=> HasVar(v)) /\ (BadSize' <=> BadSize)
    BY <1>9, <1>10 DEF HasVar, BadSize
  <1>12. /\ \A b \in DOMAIN code : Looked(b) =>
               \A i \in BodyOf(code[b]) : code[b][i].line \in 1 .. NextLine - 1
         /\ \A b, c \in DOMAIN code : Looked(b) /\ Looked(c) =>
               \A i \in BodyOf(code[b]), j \in BodyOf(code[c]) :
                   code[b][i].line = code[c][j].line => b = c /\ i = j
         /\ \A n \in 1 .. NextLine - 1 : HasLine(n)
         /\ \A v \in 1 .. NextVar - 1 : HasVar(v)
         /\ ~BadSize
    BY Numbered DEF BadSize
  <1>13. \A n \in 1 .. NextLine - 1 : HasLine(n)' <=> n # old
    <2>1. ASSUME NEW n \in 1 .. NextLine - 1, n # old PROVE HasLine(n)'
      <3>1. PICK b \in DOMAIN code : Looked(b) /\ \E i \in BodyOf(code[b]) : code[b][i].line = n
        BY <1>12 DEF HasLine
      <3>2. PICK i \in BodyOf(code[b]) : code[b][i].line = n
        BY <3>1
      <3>3. ~(b = B /\ i = K)
        BY <2>1, <3>2
      <3>4. i \in BodyOf(code'[b]) /\ code'[b][i].line = n /\ Looked(b)' /\ b \in DOMAIN code'
        BY <1>9, <1>10, <3>1, <3>2, <3>3
      <3> QED BY <3>4 DEF HasLine
    <2>2. ASSUME NEW n, n = old, HasLine(n)' PROVE FALSE
      <3>1. PICK b \in DOMAIN code : Looked(b) /\ \E i \in BodyOf(code[b]) : code'[b][i].line = n
        BY <1>9, <1>10, <2>2 DEF HasLine
      <3>2. PICK i \in BodyOf(code[b]) : code'[b][i].line = n
        BY <3>1
      <3>3. ~(b = B /\ i = K) /\ code[b][i].line = old
        BY <1>1, <1>10, <2>2, <3>2
      <3> QED BY <1>1, <1>12, <3>1, <3>3
    <2> QED BY <2>1, <2>2
  <1>14. HasLine(0)' <=> line = 0
    <2>1. ASSUME line = 0 PROVE HasLine(0)'
      <3>1. K \in BodyOf(code'[B]) /\ code'[B][K].line = 0 /\ Looked(B)' /\ B \in DOMAIN code'
        BY <1>1, <1>9, <1>10, <2>1
      <3> QED BY <3>1 DEF HasLine
    <2>2. ASSUME HasLine(0)' PROVE line = 0
      <3>1. PICK b \in DOMAIN code : Looked(b) /\ \E i \in BodyOf(code[b]) : code'[b][i].line = 0
        BY <1>9, <1>10, <2>2 DEF HasLine
      <3>2. PICK i \in BodyOf(code[b]) : code'[b][i].line = 0
        BY <3>1
      <3>3. code[b][i].line # 0
        BY <1>12, <3>1
      <3> QED BY <1>10, <3>2, <3>3
    <2> QED BY <2>1, <2>2
  <1>15. (Checked = [lines |-> {n \in 1 .. OriginalNumLines : ~HasLine(n)},
                     vars |-> {v \in 1 .. OriginalNumVars : ~HasVar(v)},
                     HasErrors |-> HasLine(0) \/ BadSize])'
    BY CheckFinds, PTL
  <1>16. old \in 1 .. NextLine - 1
    BY <1>1, <1>12
  <1> HIDE DEF s, old
  <1>17. ASSUME Counted PROVE Checked' = [lines |-> {old}, vars |-> {}, HasErrors |-> line = 0]
    <2>0. OriginalNumLines' = NextLine - 1 /\ OriginalNumVars' = NextVar - 1
      BY <1>9, <1>17, CountsTaken
    <2>1. {n \in 1 .. NextLine - 1 : ~HasLine(n)'} = {old}
      BY <1>13, <1>16
    <2>2. {v \in 1 .. NextVar - 1 : ~HasVar(v)'} = {}
      BY <1>11, <1>12
    <2>3. (HasLine(0)' \/ BadSize') = (line = 0)
      BY <1>11, <1>12, <1>14
    <2> QED BY <1>15, <2>0, <2>1, <2>2, <2>3
  <1>18. [NothingMissing EXCEPT !.lines = {At(p).line}, !.HasErrors = (line = 0)]
             = [lines |-> {old}, vars |-> {}, HasErrors |-> line = 0]
    <2>1. PICK e : e = (line = 0)
      OBVIOUS
    <2>2. PICK l : l = {old} /\ l = {At(p).line}
      BY <1>1
    <2>3. [NothingMissing EXCEPT !.lines = l, !.HasErrors = e] = [lines |-> l, vars |-> {}, HasErrors |-> e]
      BY LossRecords
    <2> QED BY <2>1, <2>2, <2>3, Zenon
  <1> QED BY <1>9, <1>17, <1>18

\* A debug value that is gone is found missing by its variable (Debugify.cpp:262-275).
LEMMA ValueLost ==
    ASSUME Ready, PassRuns, NEW p \in DbgPlaces,
           code' = [code EXCEPT ![p[1]] = RemoveAt(@, p[2])]
    PROVE  /\ Counted => Checked' = [NothingMissing EXCEPT !.vars = {At(p).var}]
           /\ LocTyping' /\ Ordered' /\ Blocks' /\ BodiesKept
  <1> DEFINE B == p[1]
             K == p[2]
             s == code[B]
             old == code[B][K].var
             t == RemoveAt(s, K)
  <1>0. LocTyping /\ Ordered /\ Blocks
    BY Numbered
  <1>1. B \in DOMAIN code /\ Looked(B) /\ K \in DbgPlacesOf(B) /\ At(p).var = old
    BY PlacesLooked DEF At
  <1>2. s \in Seq(Instruction \cup SyntheticValue) /\ WellFormed(s) /\ DOMAIN s = 1 .. Len(s)
        /\ Len(s) \in Nat /\ K \in 1 .. Len(s) /\ K \in Nat /\ s[K].kind = "dbg"
    BY <1>0, <1>1, Typed DEF Blocks, DbgPlacesOf
  <1>3. code' = [code EXCEPT ![B] = t]
    OBVIOUS
  <1>4. t \in Seq(Instruction \cup SyntheticValue) /\ Widened(t, s, K)
    BY <1>2, Removed
  <1> HIDE DEF B, K, t
  <1>5. /\ \A i \in 1 .. Len(t) : Past(K, i) \in 1 .. Len(s) /\ s[Past(K, i)] = t[i]
        /\ \A j \in 1 .. Len(s) : j # K => \E i \in 1 .. Len(t) : j = Past(K, i)
        /\ \A i \in 1 .. Len(t) : i \in BodyOf(t) <=> Past(K, i) \in BodyOf(s)
        /\ K \notin BodyOf(s)
        /\ WithoutDbg(s) = WithoutDbg(t)
    BY <1>2, <1>4, BodyWidened
  <1>6. WellFormed(t)
    BY <1>2, <1>4, WellFormedRemoved
  <1>7. /\ LocTyping' /\ Ordered' /\ Blocks' /\ BodiesKept
        /\ DOMAIN code' = DOMAIN code /\ code'[B] = t
        /\ \A b \in DOMAIN code : b # B => code'[b] = code[b]
        /\ \A b : Looked(b)' <=> Looked(b)
        /\ OriginalNumLines' = OriginalNumLines /\ OriginalNumVars' = OriginalNumVars
    <2>1. WithoutDbg(t) = Body(B)
      BY <1>5 DEF Body
    <2> QED BY <1>0, <1>1, <1>3, <1>4, <1>6, <2>1, BlockLeft
  <1>8. DOMAIN t = 1 .. Len(t) /\ Len(t) \in Nat
    BY <1>4
  <1>9. \A i \in 1 .. Len(t) : Past(K, i) # K
    BY <1>2, <1>8 DEF Past
  <1>10. /\ \A n : (\E i \in BodyOf(t) : t[i].line = n) <=> (\E i \in BodyOf(s) : s[i].line = n)
         /\ BodyOf(s) \subseteq 1 .. Len(s) /\ BodyOf(t) \subseteq 1 .. Len(t)
    <2>1. BodyOf(s) \subseteq 1 .. Len(s) /\ BodyOf(t) \subseteq 1 .. Len(t)
      BY <1>2, <1>8 DEF BodyOf
    <2>2. ASSUME NEW i \in BodyOf(t) PROVE \E j \in BodyOf(s) : s[j] = t[i]
      BY <1>5, <2>1
    <2>3. ASSUME NEW j \in BodyOf(s) PROVE \E i \in BodyOf(t) : t[i] = s[j]
      <3>1. PICK i \in 1 .. Len(t) : j = Past(K, i)
        BY <1>5, <2>1
      <3> QED BY <1>5, <3>1
    <2>4. ASSUME NEW n
          PROVE  (\E i \in BodyOf(t) : t[i].line = n) <=> (\E i \in BodyOf(s) : s[i].line = n)
      <3>1. ASSUME NEW i \in BodyOf(t), t[i].line = n PROVE \E j \in BodyOf(s) : s[j].line = n
        <4>1. PICK j \in BodyOf(s) : s[j] = t[i]
          BY <2>2
        <4>2. s[j].line = n
          BY <3>1, <4>1
        <4> QED BY <4>2
      <3>2. ASSUME NEW j \in BodyOf(s), s[j].line = n PROVE \E i \in BodyOf(t) : t[i].line = n
        <4>1. PICK i \in BodyOf(t) : t[i] = s[j]
          BY <2>3
        <4>2. t[i].line = n
          BY <3>2, <4>1
        <4> QED BY <4>2
      <3> QED BY <3>1, <3>2
    <2> QED BY <2>1, <2>4
  <1>11. DbgPlacesOf(B)' = {i \in DOMAIN t : t[i].kind = "dbg"} /\ DbgPlacesOf(B) = {i \in DOMAIN s : s[i].kind = "dbg"}
    BY <1>7 DEF DbgPlacesOf
  <1>12. \A b \in DOMAIN code : b # B => DbgPlacesOf(b)' = DbgPlacesOf(b)
    BY <1>7 DEF DbgPlacesOf
  <1>13. /\ \A i \in DbgPlacesOf(B)' : Past(K, i) \in DbgPlacesOf(B) /\ Past(K, i) # K /\ s[Past(K, i)] = t[i]
         /\ \A j \in DbgPlacesOf(B) : j # K => \E i \in DbgPlacesOf(B)' : t[i] = s[j]
    <2>1. \A i \in DbgPlacesOf(B)' : Past(K, i) \in DbgPlacesOf(B) /\ Past(K, i) # K /\ s[Past(K, i)] = t[i]
      BY <1>2, <1>5, <1>8, <1>9, <1>11
    <2>2. ASSUME NEW j \in DbgPlacesOf(B), j # K PROVE \E i \in DbgPlacesOf(B)' : t[i] = s[j]
      <3>1. j \in 1 .. Len(s) /\ s[j].kind = "dbg"
        BY <1>2, <1>11
      <3>2. PICK i \in 1 .. Len(t) : j = Past(K, i)
        BY <1>5, <2>2, <3>1
      <3>3. t[i] = s[j] /\ i \in DbgPlacesOf(B)'
        BY <1>5, <1>8, <1>11, <3>1, <3>2
      <3> QED BY <3>3
    <2> QED BY <2>1, <2>2
  <1>14. /\ \A b \in DOMAIN code : \A i \in DbgPlacesOf(b) :
               Looked(b) /\ code[b][i].sized /\ code[b][i].var \in 1 .. NextVar - 1
         /\ \A b, c \in DOMAIN code : \A i \in DbgPlacesOf(b), j \in DbgPlacesOf(c) :
               code[b][i].var = code[c][j].var => b = c /\ i = j
         /\ \A n \in 1 .. NextLine - 1 : HasLine(n)
         /\ \A v \in 1 .. NextVar - 1 : HasVar(v)
         /\ ~HasLine(0)
    BY Numbered DEF HasLine
  <1> HIDE DEF s
  <1>15. \A n : HasLine(n)' <=> HasLine(n)
    <2>1. \A n : \A b \in DOMAIN code :
              (\E i \in BodyOf(code'[b]) : code'[b][i].line = n) <=> (\E i \in BodyOf(code[b]) : code[b][i].line = n)
      <3> SUFFICES ASSUME NEW n, NEW b \in DOMAIN code
                   PROVE  (\E i \in BodyOf(code'[b]) : code'[b][i].line = n) <=> (\E i \in BodyOf(code[b]) : code[b][i].line = n)
        OBVIOUS
      <3>1. CASE b = B
        BY <1>7, <1>10, <3>1 DEF s
      <3>2. CASE b # B
        <4>1. code'[b] = code[b]
          BY <1>7, <3>2
        <4> QED BY ONLY <4>1
      <3> QED BY <3>1, <3>2
    <2> QED BY <1>7, <2>1 DEF HasLine
  <1>16. \A v \in 1 .. NextVar - 1 : HasVar(v)' <=> v # old
    <2>1. ASSUME NEW v \in 1 .. NextVar - 1, v # old PROVE HasVar(v)'
      <3>1. PICK b \in DOMAIN code : Looked(b) /\ \E i \in DbgPlacesOf(b) : code[b][i].sized /\ code[b][i].var = v
        BY <1>14 DEF HasVar
      <3>2. PICK i \in DbgPlacesOf(b) : code[b][i].sized /\ code[b][i].var = v
        BY <3>1
      <3>3. \E j \in DbgPlacesOf(b)' : code'[b][j] = code[b][i]
        <4>1. CASE b = B
          <5>1. i # K
            BY <2>1, <3>2, <4>1
          <5> QED BY <1>7, <1>13, <3>2, <4>1, <5>1 DEF s
        <4>2. CASE b # B
          BY <1>7, <1>12, <3>2, <4>2
        <4> QED BY <4>1, <4>2
      <3>4. PICK j \in DbgPlacesOf(b)' : code'[b][j] = code[b][i]
        BY <3>3
      <3>5. Looked(b)' /\ b \in DOMAIN code' /\ code'[b][j].sized /\ code'[b][j].var = v
        BY <1>7, <3>1, <3>2, <3>4
      <3> QED BY <3>5 DEF HasVar
    <2>2. ASSUME NEW v, v = old, HasVar(v)' PROVE FALSE
      <3>1. PICK b \in DOMAIN code : \E i \in DbgPlacesOf(b)' : code'[b][i].var = v
        BY <1>7, <2>2 DEF HasVar
      <3>2. PICK i \in DbgPlacesOf(b)' : code'[b][i].var = v
        BY <3>1
      <3>3. \E j \in DbgPlacesOf(b) : ~(b = B /\ j = K) /\ code[b][j] = code'[b][i]
        <4>1. CASE b = B
          BY <1>7, <1>13, <3>2, <4>1 DEF s
        <4>2. CASE b # B
          BY <1>7, <1>12, <3>2, <4>2
        <4> QED BY <4>1, <4>2
      <3>4. PICK j \in DbgPlacesOf(b) : ~(b = B /\ j = K) /\ code[b][j] = code'[b][i]
        BY <3>3
      <3>5. code[b][j].var = code[B][K].var
        BY <2>2, <3>2, <3>4
      <3> QED BY <1>1, <1>14, <3>4, <3>5
    <2> QED BY <2>1, <2>2
  <1>17. ~BadSize'
    <2> SUFFICES ASSUME BadSize' PROVE FALSE
      OBVIOUS
    <2>1. PICK b \in DOMAIN code : \E i \in DbgPlacesOf(b)' : ~code'[b][i].sized
      BY <1>7 DEF BadSize
    <2>2. PICK i \in DbgPlacesOf(b)' : ~code'[b][i].sized
      BY <2>1
    <2>3. \E j \in DbgPlacesOf(b) : code[b][j] = code'[b][i]
      <3>1. CASE b = B
        BY <1>7, <1>13, <2>2, <3>1 DEF s
      <3>2. CASE b # B
        BY <1>7, <1>12, <2>2, <3>2
      <3> QED BY <3>1, <3>2
    <2> QED BY <1>14, <2>2, <2>3
  <1>18. (Checked = [lines |-> {n \in 1 .. OriginalNumLines : ~HasLine(n)},
                     vars |-> {v \in 1 .. OriginalNumVars : ~HasVar(v)},
                     HasErrors |-> HasLine(0) \/ BadSize])'
    BY CheckFinds, PTL
  <1>19. old \in 1 .. NextVar - 1
    BY <1>1, <1>14
  <1> HIDE DEF old
  <1>20. ASSUME Counted PROVE Checked' = [lines |-> {}, vars |-> {old}, HasErrors |-> FALSE]
    <2>0. OriginalNumLines' = NextLine - 1 /\ OriginalNumVars' = NextVar - 1
      BY <1>7, <1>20, CountsTaken
    <2>1. {n \in 1 .. NextLine - 1 : ~HasLine(n)'} = {}
      BY <1>14, <1>15
    <2>2. {v \in 1 .. NextVar - 1 : ~HasVar(v)'} = {old}
      BY <1>16, <1>19
    <2>3. (HasLine(0)' \/ BadSize') = FALSE
      BY <1>14, <1>15, <1>17
    <2> QED BY <1>18, <2>0, <2>1, <2>2, <2>3
  <1>21. [NothingMissing EXCEPT !.vars = {At(p).var}] = [lines |-> {}, vars |-> {old}, HasErrors |-> FALSE]
    <2>1. PICK l : l = {old} /\ l = {At(p).var}
      BY <1>1
    <2> QED BY <2>1, LossRecords
  <1> QED BY <1>7, <1>20, <1>21

\* A debug value of the wrong size is an error and counts as missing
\* (Debugify.cpp:185-208, 262-275).
LEMMA SizeLost ==
    ASSUME Ready, PassRuns, NEW p \in DbgPlaces,
           code' = [code EXCEPT ![p[1]][p[2]].sized = FALSE]
    PROVE  /\ Counted => Checked' = [NothingMissing EXCEPT !.vars = {At(p).var}, !.HasErrors = TRUE]
           /\ LocTyping' /\ Ordered' /\ Blocks' /\ BodiesKept
  <1> DEFINE B == p[1]
             K == p[2]
             s == code[B]
             old == code[B][K].var
             t == [s EXCEPT ![K] = [s[K] EXCEPT !.sized = FALSE]]
  <1>0. LocTyping /\ Ordered /\ Blocks
    BY Numbered
  <1>1. B \in DOMAIN code /\ Looked(B) /\ K \in DbgPlacesOf(B) /\ At(p).var = old
    BY PlacesLooked DEF At
  <1>2. s \in Seq(Instruction \cup SyntheticValue) /\ WellFormed(s) /\ DOMAIN s = 1 .. Len(s)
        /\ K \in 1 .. Len(s) /\ s[K].kind = "dbg" /\ s[K] \in SyntheticValue
    <2>1. s[K] \in SyntheticValue
      BY <1>1, Numbered
    <2> QED BY <1>0, <1>1, <2>1, Typed DEF Blocks, DbgPlacesOf
  <1>3. /\ [s[K] EXCEPT !.sized = FALSE] \in SyntheticValue
        /\ [s[K] EXCEPT !.sized = FALSE].id = s[K].id
        /\ [s[K] EXCEPT !.sized = FALSE].kind = s[K].kind
        /\ [s[K] EXCEPT !.sized = FALSE].sized = FALSE
        /\ [s[K] EXCEPT !.sized = FALSE].var = s[K].var
    <2>1. PICK e \in SyntheticValue : e = s[K]
      BY <1>2
    <2>2. /\ [e EXCEPT !.sized = FALSE] \in SyntheticValue
          /\ [e EXCEPT !.sized = FALSE].id = e.id /\ [e EXCEPT !.sized = FALSE].kind = e.kind
          /\ [e EXCEPT !.sized = FALSE].sized = FALSE /\ [e EXCEPT !.sized = FALSE].var = e.var
      BY DEF SyntheticValue
    <2> QED BY <2>1, <2>2
  <1>4. code' = [code EXCEPT ![B] = t]
    OBVIOUS
  <1>5. /\ t \in Seq(Instruction \cup SyntheticValue) /\ Len(t) = Len(s)
        /\ t[K] = [s[K] EXCEPT !.sized = FALSE] /\ \A i \in 1 .. Len(s) : i # K => t[i] = s[i]
    BY <1>2, <1>3
  <1> HIDE DEF B, K, t
  <1>6. \A i \in 1 .. Len(s) : t[i].kind = s[i].kind /\ t[i].id = s[i].id
    BY <1>3, <1>5
  <1>7. WellFormed(t)
    BY <1>2, <1>5, <1>6, Relined
  <1>8. /\ BodyOf(t) = BodyOf(s) /\ Len(WithoutDbg(t)) = Len(Body(B))
        /\ \A k \in 1 .. Len(Body(B)) : /\ WithoutDbg(t)[k].id = Body(B)[k].id
                                        /\ WithoutDbg(t)[k].kind = Body(B)[k].kind
    <2>1. /\ BodyOf(t) = BodyOf(s) /\ Len(WithoutDbg(t)) = Len(WithoutDbg(s))
          /\ \A k \in 1 .. Len(WithoutDbg(s)) : /\ WithoutDbg(t)[k].id = WithoutDbg(s)[k].id
                                                /\ WithoutDbg(t)[k].kind = WithoutDbg(s)[k].kind
      <3> HIDE DEF s
      <3> QED BY <1>2, <1>5, <1>6, BodyRelined
    <2>2. Body(B) = WithoutDbg(s)
      BY DEF Body
    <2> HIDE DEF s
    <2> QED BY <2>1, <2>2
  <1>9. /\ LocTyping' /\ Ordered' /\ Blocks' /\ BodiesKept
        /\ DOMAIN code' = DOMAIN code /\ code'[B] = t
        /\ \A b \in DOMAIN code : b # B => code'[b] = code[b]
        /\ \A b : Looked(b)' <=> Looked(b)
        /\ OriginalNumLines' = OriginalNumLines /\ OriginalNumVars' = OriginalNumVars
    BY <1>0, <1>1, <1>4, <1>5, <1>7, <1>8, BlockLeft
  <1>10. \A b \in DOMAIN code :
             /\ BodyOf(code'[b]) = BodyOf(code[b]) /\ DbgPlacesOf(b)' = DbgPlacesOf(b)
             /\ \A i \in BodyOf(code[b]) : code'[b][i] = code[b][i]
             /\ \A i \in DbgPlacesOf(b) :
                   /\ code'[b][i].var = code[b][i].var
                   /\ code'[b][i].sized = IF b = B /\ i = K THEN FALSE ELSE code[b][i].sized
    <2>1. DOMAIN t = 1 .. Len(s) /\ BodyOf(s) \subseteq 1 .. Len(s) /\ DbgPlacesOf(B) \subseteq 1 .. Len(s)
      BY <1>2, <1>5 DEF BodyOf, DbgPlacesOf
    <2>2. DbgPlacesOf(B)' = {i \in DOMAIN t : t[i].kind = "dbg"}
      BY <1>9 DEF DbgPlacesOf
    <2>3. DbgPlacesOf(B)' = DbgPlacesOf(B)
      BY <1>2, <1>6, <2>1, <2>2 DEF DbgPlacesOf
    <2>4. K \notin BodyOf(s)
      BY <1>2 DEF BodyOf
    <2>5. \A i \in BodyOf(s) : t[i] = s[i]
      BY <1>5, <2>1, <2>4
    <2>6. \A i \in DbgPlacesOf(B) : /\ t[i].var = s[i].var
                                    /\ t[i].sized = IF i = K THEN FALSE ELSE s[i].sized
      BY <1>3, <1>5, <2>1
    <2>7. ASSUME NEW b \in DOMAIN code, b # B
          PROVE  code'[b] = code[b] /\ DbgPlacesOf(b)' = DbgPlacesOf(b)
      BY <1>9, <2>7 DEF DbgPlacesOf
    <2>8. /\ BodyOf(code'[B]) = BodyOf(code[B])
          /\ \A i \in BodyOf(code[B]) : code'[B][i] = code[B][i]
          /\ \A i \in DbgPlacesOf(B) :
                /\ code'[B][i].var = code[B][i].var
                /\ code'[B][i].sized = IF i = K THEN FALSE ELSE code[B][i].sized
      BY <1>8, <1>9, <2>5, <2>6
    <2> SUFFICES ASSUME NEW b \in DOMAIN code
                 PROVE  /\ BodyOf(code'[b]) = BodyOf(code[b]) /\ DbgPlacesOf(b)' = DbgPlacesOf(b)
                        /\ \A i \in BodyOf(code[b]) : code'[b][i] = code[b][i]
                        /\ \A i \in DbgPlacesOf(b) :
                              /\ code'[b][i].var = code[b][i].var
                              /\ code'[b][i].sized = IF b = B /\ i = K THEN FALSE ELSE code[b][i].sized
      OBVIOUS
    <2>9. CASE b = B
      BY <2>3, <2>8, <2>9
    <2>10. CASE b # B
      BY ONLY <2>7, <2>10, b \in DOMAIN code
    <2> QED BY <2>9, <2>10
  <1>11. \A n : HasLine(n)' <=> HasLine(n)
    <2>1. ASSUME NEW n, NEW b \in DOMAIN code
          PROVE  (\E i \in BodyOf(code'[b]) : code'[b][i].line = n) <=> (\E i \in BodyOf(code[b]) : code[b][i].line = n)
      <3>1. BodyOf(code'[b]) = BodyOf(code[b]) /\ \A i \in BodyOf(code[b]) : code'[b][i] = code[b][i]
        BY <1>10
      <3> QED BY ONLY <3>1
    <2> QED BY <1>9, <2>1 DEF HasLine
  <1>12. /\ \A b \in DOMAIN code : \A i \in DbgPlacesOf(b) :
               Looked(b) /\ code[b][i].sized /\ code[b][i].var \in 1 .. NextVar - 1
         /\ \A b, c \in DOMAIN code : \A i \in DbgPlacesOf(b), j \in DbgPlacesOf(c) :
               code[b][i].var = code[c][j].var => b = c /\ i = j
         /\ \A n \in 1 .. NextLine - 1 : HasLine(n)
         /\ \A v \in 1 .. NextVar - 1 : HasVar(v)
    BY Numbered
  <1> HIDE DEF s
  <1>13. \A v \in 1 .. NextVar - 1 : HasVar(v)' <=> v # old
    <2>1. ASSUME NEW v \in 1 .. NextVar - 1, v # old PROVE HasVar(v)'
      <3>1. PICK b \in DOMAIN code : Looked(b) /\ \E i \in DbgPlacesOf(b) : code[b][i].sized /\ code[b][i].var = v
        BY <1>12 DEF HasVar
      <3>2. PICK i \in DbgPlacesOf(b) : code[b][i].sized /\ code[b][i].var = v
        BY <3>1
      <3>3. ~(b = B /\ i = K)
        BY <2>1, <3>2
      <3>4. i \in DbgPlacesOf(b)' /\ code'[b][i].sized /\ code'[b][i].var = v
        BY ONLY <1>10, <3>2, <3>3, b \in DOMAIN code, i \in DbgPlacesOf(b)
      <3>5. Looked(b)' /\ b \in DOMAIN code'
        BY <1>9, <3>1
      <3> QED BY <3>4, <3>5 DEF HasVar
    <2>2. ASSUME NEW v, v = old, HasVar(v)' PROVE FALSE
      <3>1. PICK b \in DOMAIN code : \E i \in DbgPlacesOf(b) : code'[b][i].sized /\ code'[b][i].var = v
        BY <1>9, <1>10, <2>2 DEF HasVar
      <3>2. PICK i \in DbgPlacesOf(b) : code'[b][i].sized /\ code'[b][i].var = v
        BY <3>1
      <3>3. ~(b = B /\ i = K) /\ code[b][i].var = code[B][K].var
        BY <1>10, <2>2, <3>2
      <3> QED BY <1>1, <1>12, <3>3
    <2> QED BY <2>1, <2>2
  <1>14. BadSize'
    <2>1. K \in DbgPlacesOf(B)' /\ ~code'[B][K].sized /\ Looked(B)' /\ B \in DOMAIN code'
      BY <1>1, <1>9, <1>10
    <2> QED BY <2>1 DEF BadSize
  <1>15. (Checked = [lines |-> {n \in 1 .. OriginalNumLines : ~HasLine(n)},
                     vars |-> {v \in 1 .. OriginalNumVars : ~HasVar(v)},
                     HasErrors |-> HasLine(0) \/ BadSize])'
    BY CheckFinds, PTL
  <1>16. old \in 1 .. NextVar - 1
    BY <1>1, <1>12
  <1> HIDE DEF old
  <1>17. ASSUME Counted PROVE Checked' = [lines |-> {}, vars |-> {old}, HasErrors |-> TRUE]
    <2>0. OriginalNumLines' = NextLine - 1 /\ OriginalNumVars' = NextVar - 1
      BY <1>9, <1>17, CountsTaken
    <2>1. {n \in 1 .. NextLine - 1 : ~HasLine(n)'} = {}
      BY <1>11, <1>12
    <2>2. {v \in 1 .. NextVar - 1 : ~HasVar(v)'} = {old}
      BY <1>13, <1>16
    <2>3. (HasLine(0)' \/ BadSize') = TRUE
      BY <1>14
    <2> QED BY <1>15, <2>0, <2>1, <2>2, <2>3
  <1>18. [NothingMissing EXCEPT !.vars = {At(p).var}, !.HasErrors = TRUE]
             = [lines |-> {}, vars |-> {old}, HasErrors |-> TRUE]
    <2>1. PICK l : l = {old} /\ l = {At(p).var}
      BY <1>1
    <2>2. PICK e : e = TRUE
      OBVIOUS
    <2>3. [NothingMissing EXCEPT !.vars = l, !.HasErrors = e] = [lines |-> {}, vars |-> l, HasErrors |-> e]
      BY LossRecords
    <2> QED BY <2>1, <2>2, <2>3, Zenon
  <1> QED BY <1>9, <1>17, <1>18

--------------------------------------------------------------------------------
(* How debugify counts the variables. *)

\* A step that inserts nothing has nothing to count.
LEMMA CountKept ==
    ASSUME VarsCount, code' = code, NextVar' = NextVar
    PROVE  VarsCount'
  BY DEF VarsCount, DbgPlacesOf, SyntheticValue

\* Lines are attached to a block that has no debug values yet (Debugify.cpp:102-110).
LEMMA AttachLocationsCounts ==
    ASSUME NEW first \in Nat, LocInv(first), AttachLocations, VarsCount
    PROVE  VarsCount'
  <1>0. /\ locPc = "blocks" /\ NextVar' = NextVar /\ BB \in DOMAIN code
        /\ LocTyping /\ Numbering(first) /\ NextLine \in Nat \ {0}
    BY DEF AttachLocations, AtBlock, LocInv, LocTyping
  <1>1. PICK B \in DOMAIN code : B = BB
    BY <1>0
  <1>2. PICK s \in Seq(Instruction \cup SyntheticValue) : s = code[B] /\ DOMAIN s = 1 .. Len(s) /\ Len(s) \in Nat
    BY <1>0, Typed
  <1>3. \A i \in 1 .. Len(s) : s[i].kind # "dbg" /\ s[i] \in Instruction \cup SyntheticValue
    <2>1. Clean(B)
      <3>1. ~HasLines(first, B)
        BY <1>0, <1>1, Typed DEF HasLines
      <3> QED BY <1>0, <3>1 DEF Numbering, Applying
    <2> QED BY <1>2, <2>1, ElementOfSeq DEF Clean, NoDbg
  <1>4. PICK t : t = [i \in 1 .. Len(s) |-> [s[i] EXCEPT !.line = NextLine + i - 1]]
    OBVIOUS
  <1>5. code' = [code EXCEPT ![B] = t]
    BY <1>1, <1>2, <1>4 DEF AttachLocations
  <1>6. \A i \in 1 .. Len(s) : t[i].kind = s[i].kind
    <2> SUFFICES ASSUME NEW i \in 1 .. Len(s) PROVE t[i].kind = s[i].kind
      OBVIOUS
    <2>1. PICK e \in Instruction \cup SyntheticValue : e = s[i] /\ e.kind # "dbg"
      BY <1>3
    <2>2. NextLine + i - 1 \in Nat
      BY <1>0, <1>2
    <2>3. PICK n \in Nat : n = NextLine + i - 1
      BY <2>2
    <2>4. t[i] = [e EXCEPT !.line = n]
      BY <1>4, <2>1, <2>3
    <2> QED BY <2>1, <2>4, Fields
  <1>7. DOMAIN code' = DOMAIN code /\ code'[B] = t /\ \A b \in DOMAIN code : b # B => code'[b] = code[b]
    BY <1>5
  <1>8. DbgPlacesOf(B)' = {} /\ \A b \in DOMAIN code : b # B => DbgPlacesOf(b)' = DbgPlacesOf(b)
    <2>1. DbgPlacesOf(B)' = {i \in DOMAIN t : t[i].kind = "dbg"}
      BY <1>7 DEF DbgPlacesOf
    <2>2. DbgPlacesOf(B)' = {}
      BY <1>3, <1>4, <1>6, <2>1
    <2> QED BY <1>7, <2>2 DEF DbgPlacesOf
  <1>9. SyntheticValue' = SyntheticValue
    BY <1>7 DEF SyntheticValue
  <1>10. ASSUME NEW b \in DOMAIN code', NEW i \in DbgPlacesOf(b)'
         PROVE  b \in DOMAIN code /\ i \in DbgPlacesOf(b) /\ code'[b][i] = code[b][i]
    <2>1. b \in DOMAIN code /\ b # B
      BY <1>7, <1>8, <1>10
    <2> QED BY <1>7, <1>8, <1>10, <2>1
  <1>11. \A b \in DOMAIN code' : \A i \in DbgPlacesOf(b)' :
             code'[b][i] \in SyntheticValue' /\ code'[b][i].var \in 1 .. NextVar' - 1 /\ code'[b][i].sized
    BY <1>0, <1>9, <1>10 DEF VarsCount
  <1>12. \A b, c \in DOMAIN code' : \A i \in DbgPlacesOf(b)', j \in DbgPlacesOf(c)' :
             code'[b][i].var = code'[c][j].var => b = c /\ i = j
    BY <1>10 DEF VarsCount
  <1> QED BY <1>11, <1>12 DEF VarsCount

\* What InsertDbgValue does to the block.
LEMMA ValueInserted ==
    ASSUME NEW first \in Nat, LocInv(first), InsertDbgValue
    PROVE  \E B \in DOMAIN code, t \in Seq(Instruction \cup SyntheticValue), at \in Nat :
               /\ code' = [code EXCEPT ![B] = t] /\ Widened(code[B], t, at)
               /\ t[at] \in SyntheticValue /\ t[at].var = NextVar /\ t[at].sized
               /\ t[at].kind = "dbg"
  <1>0. locPc = "values" /\ I # LastInst /\ code[BB][I].kind \in ValueKind /\ NextVar \in Nat
    BY DEF InsertDbgValue, LocInv, LocTyping
  <1> DEFINE at0 == IF code[BB][I].kind \in {"phi", "pad"} THEN InsertBefore ELSE I + 1
  <1>1. PICK at : at = at0
    OBVIOUS
  <1> HIDE DEF at0
  <1>2. /\ BB \in DOMAIN code /\ code[BB] \in Seq(Instruction \cup SyntheticValue)
        /\ DOMAIN code[BB] = 1 .. Len(code[BB]) /\ Len(code[BB]) \in Nat
        /\ LastInst \in 1 .. Len(code[BB]) /\ I \in 1 .. LastInst /\ at \in 1 .. LastInst
    BY <1>0, <1>1, InsertionPoint DEF at0
  <1>3. PICK B \in DOMAIN code : B = BB
    BY <1>2
  <1>4. PICK s \in Seq(Instruction \cup SyntheticValue) : s = code[B]
    BY <1>2, <1>3
  <1>5. PICK t : t = InsertAt(s, at, DbgValue(s[I]))
    OBVIOUS
  <1>6. code' = [code EXCEPT ![B] = t]
    BY <1>1, <1>3, <1>4, <1>5 DEF InsertDbgValue, at0
  <1>7. PICK l : l = LastInst
    OBVIOUS
  <1>8. Len(s) \in Nat /\ l \in 1 .. Len(s) /\ I \in 1 .. l /\ at \in 1 .. l
    BY <1>2, <1>3, <1>4, <1>7
  <1>9. I \in 1 .. Len(s) /\ at \in 1 .. Len(s) + 1 /\ at \in Nat
    BY <1>8
  <1>10. PICK e \in Instruction \cup SyntheticValue : e = s[I]
    BY <1>9, ElementOfSeq
  <1>11. PICK d : d = DbgValue(e)
    OBVIOUS
  <1>12. d \in SyntheticValue /\ d.var = NextVar /\ d.sized /\ d.kind = "dbg"
    BY <1>0, <1>10, <1>11, Fields DEF DbgValue
  <1>13. t \in Seq(Instruction \cup SyntheticValue) /\ Widened(s, t, at) /\ t[at] = d
    <2>1. PICK T : T = Instruction \cup SyntheticValue
      OBVIOUS
    <2>2. s \in Seq(T) /\ d \in T
      BY <1>12, <2>1
    <2>3. t = InsertAt(s, at, d)
      BY <1>5, <1>10, <1>11
    <2>4. /\ InsertAt(s, at, d) \in Seq(T) /\ Widened(s, InsertAt(s, at, d), at)
          /\ InsertAt(s, at, d)[at] = d
      BY <1>9, <2>2, Inserted
    <2> QED BY <2>1, <2>3, <2>4
  <1> QED BY <1>4, <1>6, <1>9, <1>12, <1>13

\* Each value gets the next variable (Debugify.cpp:111-144).
LEMMA InsertDbgValueCounts ==
    ASSUME NEW first \in Nat, LocInv(first), InsertDbgValue, VarsCount
    PROVE  VarsCount'
  <1>0. NextVar \in Nat \ {0} /\ NextVar' = NextVar + 1
    BY DEF InsertDbgValue, LocInv, LocTyping
  <1>1. PICK B \in DOMAIN code, t \in Seq(Instruction \cup SyntheticValue), at \in Nat :
            /\ code' = [code EXCEPT ![B] = t] /\ Widened(code[B], t, at)
            /\ t[at] \in SyntheticValue /\ t[at].var = NextVar /\ t[at].sized /\ t[at].kind = "dbg"
    BY ValueInserted
  <1>2. PICK s \in Seq(Instruction \cup SyntheticValue) : s = code[B] /\ DOMAIN s = 1 .. Len(s) /\ Len(s) \in Nat
    BY Typed DEF LocInv
  <1>3. /\ DOMAIN t = 1 .. Len(t)
        /\ \A i \in 1 .. Len(s) : Past(at, i) \in 1 .. Len(t) /\ t[Past(at, i)] = s[i]
        /\ \A j \in 1 .. Len(t) : j # at => \E i \in 1 .. Len(s) : j = Past(at, i)
    BY <1>1, <1>2, BodyWidened
  <1>4. DOMAIN code' = DOMAIN code /\ code'[B] = t /\ \A b \in DOMAIN code : b # B => code'[b] = code[b]
    BY <1>1
  <1>5. SyntheticValue' = SyntheticValue
    BY <1>4 DEF SyntheticValue
  \* The debug value is the new one, or has been at another place.
  <1> DEFINE New(b, i) == b = B /\ i = at
             Was(b, i) == IF b # B THEN i ELSE CHOOSE k \in 1 .. Len(s) : i = Past(at, k)
  <1>6. ASSUME NEW b \in DOMAIN code', NEW i \in DbgPlacesOf(b)'
        PROVE  /\ b \in DOMAIN code
               /\ New(b, i) => code'[b][i] = t[at]
               /\ ~New(b, i) => /\ Was(b, i) \in DbgPlacesOf(b) /\ code'[b][i] = code[b][Was(b, i)]
                                /\ b = B => i = Past(at, Was(b, i))
    <2>1. b \in DOMAIN code
      BY <1>4
    <2>2. CASE b # B
      BY <1>4, <1>6, <2>1, <2>2 DEF DbgPlacesOf
    <2>3. CASE b = B /\ i # at
      <3>1. i \in 1 .. Len(t) /\ t[i].kind = "dbg" /\ code'[b] = t
        BY <1>3, <1>4, <1>6, <2>3 DEF DbgPlacesOf
      <3>2. PICK k \in 1 .. Len(s) : k = Was(b, i) /\ i = Past(at, k)
        BY <1>3, <2>3, <3>1
      <3>3. t[i] = s[k] /\ s[k].kind = "dbg" /\ k \in DOMAIN s
        BY <1>2, <1>3, <3>1, <3>2
      <3>4. k \in DbgPlacesOf(b)
        BY <1>2, <2>3, <3>3 DEF DbgPlacesOf
      <3> HIDE DEF Was
      <3> QED BY <1>2, <2>1, <2>3, <3>1, <3>2, <3>3, <3>4
    <2>4. CASE New(b, i)
      BY <1>4, <2>1, <2>4
    <2> QED BY <2>2, <2>3, <2>4
  <1> HIDE DEF New, Was
  <1>7. PICK n \in Nat : n = NextVar /\ n # 0
    BY <1>0
  <1>8. ASSUME NEW b \in DOMAIN code', NEW i \in DbgPlacesOf(b)'
        PROVE  /\ code'[b][i] \in SyntheticValue' /\ code'[b][i].sized
               /\ New(b, i) => code'[b][i].var = n
               /\ ~New(b, i) => code'[b][i].var \in 1 .. n - 1
    BY <1>1, <1>5, <1>6, <1>7 DEF VarsCount
  <1>9. \A b \in DOMAIN code' : \A i \in DbgPlacesOf(b)' :
            code'[b][i] \in SyntheticValue' /\ code'[b][i].var \in 1 .. NextVar' - 1 /\ code'[b][i].sized
    <2>1. NextVar' - 1 = n /\ n \in 1 .. n /\ 1 .. n - 1 \subseteq 1 .. n
      BY <1>0, <1>7
    <2> QED BY <1>8, <2>1
  <1>10. ASSUME NEW b \in DOMAIN code', NEW c \in DOMAIN code',
                NEW i \in DbgPlacesOf(b)', NEW j \in DbgPlacesOf(c)', code'[b][i].var = code'[c][j].var
         PROVE  b = c /\ i = j
    <2>1. n \notin 1 .. n - 1
      BY <1>7
    <2>2. New(b, i) <=> New(c, j)
      BY <1>8, <1>10, <2>1
    <2>3. CASE New(b, i)
      BY <2>2, <2>3 DEF New
    <2>4. CASE ~New(b, i)
      <3>1. b = c /\ Was(b, i) = Was(c, j)
        BY <1>6, <1>10, <2>2, <2>4 DEF VarsCount
      <3>2. CASE b = B
        BY <1>6, <2>2, <2>4, <3>1, <3>2
      <3>3. CASE b # B
        BY <3>1, <3>3 DEF Was
      <3> QED BY <3>1, <3>2, <3>3
    <2> QED BY <2>3, <2>4
  <1> QED BY <1>9, <1>10 DEF VarsCount

\* The loop that erases does not come back to where it starts.
LEMMA EraseGoesOn ==
    ASSUME NEW first \in Nat, LocInv(first), EraseIntrinsic \/ EraseInNextBlock \/ Located
    PROVE  ~AtStart'
  <1>1. locPc = "erase" /\ BB \in Nat /\ I \in Nat /\ BB >= 1 /\ I >= 1 /\ Placed
    BY DEF LocInv, LocTyping, Erasing, EraseIntrinsic, EraseInNextBlock, Located
  <1>2. CASE EraseIntrinsic
    <2>1. BB' = BB /\ BB \in DOMAIN code /\ I \in DOMAIN code[BB]
      BY <1>2 DEF EraseIntrinsic
    <2>2. code[BB][I].kind = "dbg" => I # 1
      <3>1. code[BB][I].kind = "dbg" => \E j \in 1 .. I - 1 : TRUE
        BY <1>1, <2>1 DEF Placed
      <3> QED BY <1>1, <3>1
    <2>3. I' = 1 => code[BB][I].kind = "dbg" /\ I = 1
      BY <1>1, <1>2 DEF EraseIntrinsic
    <2> QED BY <2>2, <2>3 DEF AtStart
  <1>3. CASE EraseInNextBlock
    BY <1>1, <1>3 DEF EraseInNextBlock, AtStart
  <1>4. CASE Located
    BY <1>4 DEF Located, AtStart
  <1> QED BY <1>2, <1>3, <1>4

--------------------------------------------------------------------------------
(* The invariant of the passes and the checks between them. *)

\* A module that is debugified starts its operands, or the assertion stops it.
Fresh == Asserts \/ \A P \in Programs : P.debugifyMD = <<>>

\* debugify goes on to the next function, and finds the module debugified.
Stale == wrapped = "function" /\ losses # <<>>

StaleState ==
    Stale => /\ locPc \in {"debugify", "erase", "check", "checked"} /\ dbgCU /\ Placed
             /\ F <= LastF + 1 /\ (locPc = "erase" => F <= LastF)

\* What llvm.debugify has.
Operands ==
    /\ losses # <<>> /\ locPc \in {"debugify"} \cup Applying /\ ~Stale => debugifyMD = <<>>
    /\ Fresh /\ ~Asserts /\ locPc \in {"strip", "debugify"} \cup Applying /\ ~Stale => debugifyMD = <<>>
    /\ Fresh /\ locPc = "erase" /\ ~Stale => Counted

Missing == [lines : SUBSET Line, vars : SUBSET Nat, HasErrors : BOOLEAN]

Statistics == [{"NumDbgValuesMissing", "NumDbgValuesExpected",
                "NumDbgLocsMissing", "NumDbgLocsExpected"} -> Nat]

LossesTyping ==
    /\ losses \in Seq([of : SUBSET Nat, missing : Missing])
    /\ \A l \in DOMAIN losses : /\ IsFiniteSet(losses[l].missing.lines)
                                /\ IsFiniteSet(losses[l].missing.vars)

StatsTyping == Stats \in Statistics /\ LossesTyping

\* The state of the module, wherever the passes are.
Passes ==
    /\ LocTyping /\ Ordered /\ Blocks /\ CheckTyping
    /\ locPc \notin {"check", "checked"} /\ ~Stale => LocInv(FirstF)
    /\ StaleState
    /\ (locPc \in Applying \/ AtStart) /\ ~Stale => VarsCount
    /\ Operands

\* The check is about to report, or has reported, what the last pass lost.
Reports ==
    losses # <<>> /\ (wrapped = "function" => Len(losses) = 1) =>
        IF locPc = "check"
        THEN /\ Checked = Last(losses).missing /\ Last(losses).of = Given
             /\ debugifyMD # <<>>
             /\ OriginalNumLines = Cardinality(BodyPlaces(Given))
             /\ OriginalNumVars = Cardinality(DescribedPlaces(Given))
        ELSE report = Last(losses).missing

\* The passes that have been checked.
CheckedPasses == 1 .. (IF locPc = "check" THEN Len(losses) - 1 ELSE Len(losses))

LinesLost == [l \in DOMAIN losses |-> Cardinality(losses[l].missing.lines)]
ValuesLost == [l \in DOMAIN losses |-> Cardinality(losses[l].missing.vars)]
LinesExpected == [l \in DOMAIN losses |-> Cardinality(BodyPlaces(losses[l].of))]
ValuesExpected == [l \in DOMAIN losses |-> Cardinality(DescribedPlaces(losses[l].of))]

\* The statistics have those of the checked passes.
Adding ==
    (wrapped # "function" \/ losses = <<>>) /\ locPc # "checked" =>
        /\ Stats.NumDbgLocsMissing = SumFunctionOnSet(LinesLost, CheckedPasses)
        /\ Stats.NumDbgValuesMissing = SumFunctionOnSet(ValuesLost, CheckedPasses)
        /\ Stats.NumDbgLocsExpected = SumFunctionOnSet(LinesExpected, CheckedPasses)
        /\ Stats.NumDbgValuesExpected = SumFunctionOnSet(ValuesExpected, CheckedPasses)
        /\ Stats.NumDbgValuesExpected <= Stats.NumDbgLocsExpected

PassesInv == Passes /\ LossesTyping /\ (Fresh => StatsTyping /\ Reports /\ Adding)

\* What there is to keep is finitely many, and values are instructions.
LEMMA PlacesCounted ==
    ASSUME LocTyping, NEW fs
    PROVE  /\ IsFiniteSet(BodyPlaces(fs)) /\ Cardinality(BodyPlaces(fs)) \in Nat
           /\ Cardinality(DescribedPlaces(fs)) \in Nat
           /\ Cardinality(DescribedPlaces(fs)) <= Cardinality(BodyPlaces(fs))
  <1> DEFINE Bs == {c \in DOMAIN code : functionOf[c] \in fs /\ exact[functionOf[c]]}
             Sets == {{c} \X (1 .. Len(Body(c))) : c \in Bs}
  <1>1. IsFiniteSet(DOMAIN code) /\ Bs \in SUBSET DOMAIN code
    BY Typed, FS_Interval, 1 \in Int
  <1>2. IsFiniteSet(Bs)
    BY <1>1, FS_Subset
  <1>3. IsFiniteSet(Sets)
    <2> DEFINE f == [c \in Bs |-> {c} \X (1 .. Len(Body(c)))]
    <2>1. f \in Surjection(Bs, Sets)
      BY DEF Surjection
    <2> HIDE DEF f, Bs, Sets
    <2> QED BY <1>2, <2>1, FS_Surjection
  <1>4. ASSUME NEW T \in Sets PROVE IsFiniteSet(T)
    <2>1. PICK c \in Bs : T = {c} \X (1 .. Len(Body(c)))
      OBVIOUS
    <2>2. Len(Body(c)) \in Nat
      BY Typed, BodyInOrder DEF Body
    <2>3. IsFiniteSet({c}) /\ IsFiniteSet(1 .. Len(Body(c)))
      BY <2>2, FS_Singleton, FS_Interval, 1 \in Int, Len(Body(c)) \in Int
    <2> QED BY <2>1, <2>3, FS_Product
  <1>5. IsFiniteSet(UNION Sets)
    <2> HIDE DEF Sets
    <2> QED BY <1>3, <1>4, FS_UNION
  <1>6. BodyPlaces(fs) = UNION Sets
    BY DEF BodyPlaces
  <1>7. DescribedPlaces(fs) \in SUBSET BodyPlaces(fs)
    BY DEF DescribedPlaces
  <1> HIDE DEF Sets
  <1> QED BY <1>5, <1>6, <1>7, FS_Subset, FS_CardinalityType

\* Bodies are sequences.
BodiesTyping == \A b \in DOMAIN code : Len(Body(b)) \in Nat /\ DOMAIN Body(b) = 1 .. Len(Body(b))

LEMMA BodiesTyped == LocTyping => BodiesTyping
  BY Typed, BodyInOrder DEF Body, BodiesTyping

\* As long as the bodies are kept, so is what there is to keep.
LEMMA PlacesKept ==
    ASSUME LocTyping, LocTyping', BodiesKept, UNCHANGED program
    PROVE  \A fs : BodyPlaces(fs)' = BodyPlaces(fs) /\ DescribedPlaces(fs)' = DescribedPlaces(fs)
  <1>1. functionOf' = functionOf /\ exact' = exact
    BY DEF program
  <1>2. DOMAIN code' = DOMAIN code
    <2>1. Len(code') = Len(code)
      BY <1>1 DEF LocTyping
    <2>2. DOMAIN code = 1 .. Len(code)
      BY Typed
    <2>3. DOMAIN code' = 1 .. Len(code')
      BY DEF LocTyping
    <2> QED BY <2>1, <2>2, <2>3
  <1>3. ASSUME NEW b \in DOMAIN code
        PROVE  /\ Len(Body(b)') = Len(Body(b)) /\ Len(Body(b)) \in Nat
               /\ DOMAIN Body(b) = 1 .. Len(Body(b)) /\ DOMAIN Body(b)' = 1 .. Len(Body(b))
               /\ \A k \in 1 .. Len(Body(b)) : Body(b)'[k].kind = Body(b)[k].kind
    <2>1. Len(Body(b)) \in Nat /\ DOMAIN Body(b) = 1 .. Len(Body(b))
      BY Typed, BodyInOrder DEF Body
    <2>2. Len(Body(b)') = Len(Body(b))
      BY DEF BodiesKept
    <2>3. DOMAIN Body(b)' = 1 .. Len(Body(b)')
      <3>1. BodiesTyping'
        BY BodiesTyped, PTL
      <3> QED BY <1>2, <3>1 DEF BodiesTyping
    <2> QED BY <2>1, <2>2, <2>3 DEF BodiesKept
  <1>4. \A fs : BodyPlaces(fs)' = BodyPlaces(fs)
    BY <1>1, <1>2, <1>3 DEF BodyPlaces
  <1>5. ASSUME NEW b \in DOMAIN code
        PROVE  /\ IsEHPad(Body(b)') <=> IsEHPad(Body(b))
               /\ FindTerminatingInstruction(Body(b)') = FindTerminatingInstruction(Body(b))
    <2>1. PICK n \in Nat : n = Len(Body(b)) /\ n = Len(Body(b)')
      BY <1>3
    <2>2. n > 1 => n - 1 \in 1 .. n
      OBVIOUS
    <2>3. n > 1 => Body(b)'[n - 1].kind = Body(b)[n - 1].kind
      BY <1>3, <2>1, <2>2
    <2> QED BY <1>3, <2>1, <2>3 DEF IsEHPad, FindTerminatingInstruction
  <1>6. ASSUME NEW fs, NEW p \in BodyPlaces(fs)
        PROVE  /\ IsEHPad(Body(p[1])') <=> IsEHPad(Body(p[1]))
               /\ Body(p[1])'[p[2]].kind = Body(p[1])[p[2]].kind
               /\ FindTerminatingInstruction(Body(p[1])') = FindTerminatingInstruction(Body(p[1]))
    <2>1. PICK b, k : p = <<b, k>>
      BY BodyPlacesMember
    <2>2. b \in DOMAIN code /\ k \in 1 .. Len(Body(b))
      BY <2>1, BodyPlacesMember
    <2> QED BY <1>3, <1>5, <2>1, <2>2
  <1>7. \A fs : DescribedPlaces(fs)' = DescribedPlaces(fs)
    BY <1>4, <1>6 DEF DescribedPlaces
  <1> QED BY <1>4, <1>7

--------------------------------------------------------------------------------
(* What the statistics add up. *)

\* The passes are told apart by their number, and so is what they lose.
LEMMA LossesTyped ==
    ASSUME LocTyping, StatsTyping
    PROVE  /\ Len(losses) \in Nat /\ DOMAIN losses = 1 .. Len(losses)
           /\ \A l \in DOMAIN losses :
                 /\ LinesLost[l] \in Nat /\ ValuesLost[l] \in Nat
                 /\ LinesExpected[l] \in Nat /\ ValuesExpected[l] \in Nat
                 /\ ValuesExpected[l] <= LinesExpected[l]
  <1>1. Len(losses) \in Nat /\ DOMAIN losses = 1 .. Len(losses)
    BY DEF StatsTyping, LossesTyping
  <1>2. ASSUME NEW l \in DOMAIN losses
        PROVE  /\ LinesLost[l] \in Nat /\ ValuesLost[l] \in Nat
               /\ LinesExpected[l] \in Nat /\ ValuesExpected[l] \in Nat
               /\ ValuesExpected[l] <= LinesExpected[l]
    <2>1. LinesLost[l] \in Nat /\ ValuesLost[l] \in Nat
      BY FS_CardinalityType DEF StatsTyping, LossesTyping, LinesLost, ValuesLost
    <2>2. PICK fs : fs = losses[l].of
      OBVIOUS
    <2>3. LinesExpected[l] = Cardinality(BodyPlaces(fs)) /\ ValuesExpected[l] = Cardinality(DescribedPlaces(fs))
      BY <2>2 DEF LinesExpected, ValuesExpected
    <2> QED BY <2>1, <2>3, PlacesCounted
  <1> QED BY <1>1, <1>2

\* As long as the program is kept, the weights of the passes are.
LEMMA WeightsKept ==
    ASSUME LocTyping, LocTyping', BodiesKept, UNCHANGED program, DOMAIN losses \subseteq DOMAIN losses',
           \A l \in DOMAIN losses : losses'[l] = losses[l]
    PROVE  /\ \A l \in DOMAIN losses :
                 /\ LinesLost'[l] = LinesLost[l] /\ ValuesLost'[l] = ValuesLost[l]
                 /\ LinesExpected'[l] = LinesExpected[l] /\ ValuesExpected'[l] = ValuesExpected[l]
  <1> SUFFICES ASSUME NEW l \in DOMAIN losses
               PROVE  /\ LinesLost'[l] = LinesLost[l] /\ ValuesLost'[l] = ValuesLost[l]
                      /\ LinesExpected'[l] = LinesExpected[l] /\ ValuesExpected'[l] = ValuesExpected[l]
    OBVIOUS
  <1>1. LinesLost'[l] = LinesLost[l] /\ ValuesLost'[l] = ValuesLost[l]
    BY DEF LinesLost, ValuesLost
  <1>2. /\ BodyPlaces(losses[l].of)' = BodyPlaces(losses[l].of)
        /\ DescribedPlaces(losses[l].of)' = DescribedPlaces(losses[l].of)
    BY PlacesKept
  <1>3. LinesExpected'[l] = LinesExpected[l] /\ ValuesExpected'[l] = ValuesExpected[l]
    BY <1>2 DEF LinesExpected, ValuesExpected
  <1> QED BY <1>1, <1>3

\* And so are their sums.
LEMMA SumsKept ==
    ASSUME StatsTyping, LocTyping, LocTyping', BodiesKept, UNCHANGED program,
           DOMAIN losses \subseteq DOMAIN losses', \A l \in DOMAIN losses : losses'[l] = losses[l],
           NEW n \in 0 .. Len(losses)
    PROVE  /\ SumFunctionOnSet(LinesLost', 1 .. n) = SumFunctionOnSet(LinesLost, 1 .. n)
           /\ SumFunctionOnSet(ValuesLost', 1 .. n) = SumFunctionOnSet(ValuesLost, 1 .. n)
           /\ SumFunctionOnSet(LinesExpected', 1 .. n) = SumFunctionOnSet(LinesExpected, 1 .. n)
           /\ SumFunctionOnSet(ValuesExpected', 1 .. n) = SumFunctionOnSet(ValuesExpected, 1 .. n)
  <1> DEFINE S == 1 .. n
  <1>1. /\ Len(losses) \in Nat /\ DOMAIN losses = 1 .. Len(losses)
        /\ \A l \in DOMAIN losses :
                 /\ LinesLost[l] \in Nat /\ ValuesLost[l] \in Nat
                 /\ LinesExpected[l] \in Nat /\ ValuesExpected[l] \in Nat
    BY LossesTyped
  <1>2. S \subseteq DOMAIN losses /\ IsFiniteSet(S)
    BY <1>1, FS_Interval, 1 \in Int, n \in Int
  <1>3. \A l \in DOMAIN losses :
            /\ LinesLost'[l] = LinesLost[l] /\ ValuesLost'[l] = ValuesLost[l]
            /\ LinesExpected'[l] = LinesExpected[l] /\ ValuesExpected'[l] = ValuesExpected[l]
    BY WeightsKept
  <1> HIDE DEF S
  <1>4. SumFunctionOnSet(LinesLost', S) = SumFunctionOnSet(LinesLost, S)
    <2>1. \A x \in S : LinesLost[x] \in Int /\ LinesLost'[x] = LinesLost[x]
      BY <1>1, <1>2, <1>3
    <2> QED BY <1>2, <2>1, SumSame
  <1>5. SumFunctionOnSet(ValuesLost', S) = SumFunctionOnSet(ValuesLost, S)
    <2>1. \A x \in S : ValuesLost[x] \in Int /\ ValuesLost'[x] = ValuesLost[x]
      BY <1>1, <1>2, <1>3
    <2> QED BY <1>2, <2>1, SumSame
  <1>6. SumFunctionOnSet(LinesExpected', S) = SumFunctionOnSet(LinesExpected, S)
    <2>1. \A x \in S : LinesExpected[x] \in Int /\ LinesExpected'[x] = LinesExpected[x]
      BY <1>1, <1>2, <1>3
    <2> QED BY <1>2, <2>1, SumSame
  <1>7. SumFunctionOnSet(ValuesExpected', S) = SumFunctionOnSet(ValuesExpected, S)
    <2>1. \A x \in S : ValuesExpected[x] \in Int /\ ValuesExpected'[x] = ValuesExpected[x]
      BY <1>1, <1>2, <1>3
    <2> QED BY <1>2, <2>1, SumSame
  <1> QED BY <1>4, <1>5, <1>6, <1>7 DEF S

\* One more pass has been checked.
LEMMA SumsOneMore ==
    ASSUME StatsTyping, LocTyping, NEW n \in Nat, n + 1 = Len(losses)
    PROVE  /\ SumFunctionOnSet(LinesLost, 1 .. n + 1) = LinesLost[n + 1] + SumFunctionOnSet(LinesLost, 1 .. n)
           /\ SumFunctionOnSet(ValuesLost, 1 .. n + 1) = ValuesLost[n + 1] + SumFunctionOnSet(ValuesLost, 1 .. n)
           /\ SumFunctionOnSet(LinesExpected, 1 .. n + 1)
                  = LinesExpected[n + 1] + SumFunctionOnSet(LinesExpected, 1 .. n)
           /\ SumFunctionOnSet(ValuesExpected, 1 .. n + 1)
                  = ValuesExpected[n + 1] + SumFunctionOnSet(ValuesExpected, 1 .. n)
  <1>1. /\ DOMAIN losses = 1 .. n + 1
        /\ \A l \in DOMAIN losses :
                 /\ LinesLost[l] \in Nat /\ ValuesLost[l] \in Nat
                 /\ LinesExpected[l] \in Nat /\ ValuesExpected[l] \in Nat
    BY LossesTyped
  <1>2. /\ \A x \in 1 .. n + 1 : LinesLost[x] \in Int
        /\ \A x \in 1 .. n + 1 : ValuesLost[x] \in Int
        /\ \A x \in 1 .. n + 1 : LinesExpected[x] \in Int
        /\ \A x \in 1 .. n + 1 : ValuesExpected[x] \in Int
    BY <1>1
  <1> QED BY <1>2, SumOneMore

\* A step that neither runs a pass nor checks it.
Quiet ==
    /\ UNCHANGED <<program, Stats, report, losses>> /\ (losses # <<>> => wrapped' = wrapped)
    /\ locPc # "check" /\ locPc' # "check" /\ (locPc = "checked" => locPc' = "checked")

\* Such a step leaves what has been reported, and what has been added up.
LEMMA QuietReports ==
    ASSUME StatsTyping, LocTyping, LocTyping', BodiesKept, Quiet
    PROVE  StatsTyping' /\ (Reports => Reports') /\ (Adding => Adding')
  <1>1. /\ UNCHANGED program /\ Stats' = Stats /\ report' = report /\ losses' = losses
        /\ (losses # <<>> => wrapped' = wrapped)
        /\ locPc # "check" /\ locPc' # "check" /\ (locPc = "checked" => locPc' = "checked")
    BY DEF Quiet
  <1>2. StatsTyping'
    BY <1>1 DEF StatsTyping, LossesTyping, Statistics, Missing
  <1>3. Reports => Reports'
    BY <1>1 DEF Reports
  <1>4. ASSUME Adding PROVE Adding'
    <2>1. PICK n : n = Len(losses)
      OBVIOUS
    <2>2. n \in 0 .. Len(losses) /\ CheckedPasses = 1 .. n /\ CheckedPasses' = 1 .. n
      BY <1>1, <2>1, LossesTyped DEF CheckedPasses
    <2>3. /\ SumFunctionOnSet(LinesLost', 1 .. n) = SumFunctionOnSet(LinesLost, 1 .. n)
          /\ SumFunctionOnSet(ValuesLost', 1 .. n) = SumFunctionOnSet(ValuesLost, 1 .. n)
          /\ SumFunctionOnSet(LinesExpected', 1 .. n) = SumFunctionOnSet(LinesExpected, 1 .. n)
          /\ SumFunctionOnSet(ValuesExpected', 1 .. n) = SumFunctionOnSet(ValuesExpected, 1 .. n)
      BY <1>1, <2>2, SumsKept
    <2>4. (wrapped' # "function" \/ losses' = <<>>) /\ locPc' # "checked" =>
              (wrapped # "function" \/ losses = <<>>) /\ locPc # "checked"
      BY <1>1
    <2> QED BY <1>1, <1>4, <2>2, <2>3, <2>4 DEF Adding
  <1> QED BY <1>2, <1>3, <1>4

--------------------------------------------------------------------------------
(* The steps, one after the other. *)

\* A pass is run on what debugify has left, or on a module left as it is.
LEMMA WrappedRuns ==
    ASSUME Passes, WrappedPass
    PROVE  /\ PassRuns /\ LocTyping /\ Ordered /\ Blocks /\ Given \in SUBSET Nat
           /\ Stale => wrapped = "function"
           /\ ~Stale => Ready /\ (Fresh => Counted)
  <1>1. PassRuns
    BY DEF WrappedPass, PassRuns
  <1>2. locPc = "erase" /\ AtStart
    BY DEF WrappedPass, AtStart
  <1>3. ~Stale => Ready /\ (Fresh => Counted)
    BY <1>2 DEF Passes, Ready, Operands
  <1>4. LocTyping /\ Ordered /\ Blocks
    BY DEF Passes
  <1>5. Given \in SUBSET Nat
    BY <1>4 DEF Given, GivenToModulePass, GivenToFunctionPass, Functions, LocTyping
  <1> QED BY <1>1, <1>3, <1>4, <1>5 DEF Stale

\* What may be lost has numbers.
LEMMA LossesTypable ==
    ASSUME LocTyping
    PROVE  /\ \A p \in InstPlaces : At(p).line \in Line
           /\ VarsCount => \A p \in DbgPlaces : At(p).var \in Nat
  <1>1. ASSUME NEW p \in InstPlaces PROVE At(p).line \in Line
    <2>1. p[1] \in DOMAIN code /\ p[2] \in DOMAIN code[p[1]]
      BY PlacesLooked DEF BodyOf
    <2>2. code[p[1]] \in Seq(Instruction \cup SyntheticValue)
      BY <2>1, Typed
    <2>3. code[p[1]][p[2]] \in Instruction \cup SyntheticValue
      BY <2>1, <2>2
    <2> QED BY <2>3 DEF At, Instruction, SyntheticValue
  <1>2. ASSUME VarsCount, NEW p \in DbgPlaces PROVE At(p).var \in Nat
    <2>1. code[p[1]][p[2]] \in SyntheticValue
      BY <1>2, PlacesLooked DEF VarsCount
    <2> QED BY <2>1 DEF At, SyntheticValue
  <1> QED BY <1>1, <1>2

\* The pass leaves a module that has lost what the check will miss.
PassLoses(m) ==
    /\ m \in Missing /\ IsFiniteSet(m.lines) /\ IsFiniteSet(m.vars)
    /\ losses' = Append(losses, [of |-> Given, missing |-> m])
    /\ Fresh /\ ~Stale => Checked' = m

\* A pass that does nothing.
LEMMA NothingIsLost ==
    ASSUME Passes, WrappedPass, code' = code, Losing(NothingMissing)
    PROVE  /\ PassLoses(NothingMissing)
           /\ LocTyping' /\ Ordered' /\ Blocks' /\ BodiesKept
  <1>1. /\ PassRuns /\ LocTyping /\ Ordered /\ Blocks /\ (~Stale => Ready /\ (Fresh => Counted))
    BY WrappedRuns
  <1>2. LocTyping' /\ Ordered' /\ Blocks'
    BY <1>1 DEF PassRuns, program, debugInfo, counters, cursors, LocTyping, Ordered, Blocks, Instruction,
                SyntheticValue, Functions
  <1>3. NothingMissing \in Missing /\ IsFiniteSet(NothingMissing.lines) /\ IsFiniteSet(NothingMissing.vars)
    BY FS_EmptySet DEF NothingMissing, Missing
  <1>4. Fresh /\ ~Stale => Checked' = NothingMissing
    BY <1>1, NothingLost
  <1> QED BY <1>2, <1>3, <1>4, BodiesOfKeptCode DEF PassLoses, Losing

\* A pass that loses a location.
LEMMA LineIsLost ==
    ASSUME Passes, WrappedPass, ~Stale, NEW p \in InstPlaces, NEW line \in {0, NoLine, 1}, line # At(p).line,
           code' = [code EXCEPT ![p[1]][p[2]].line = line],
           Losing([NothingMissing EXCEPT !.lines = {At(p).line}, !.HasErrors = (line = 0)])
    PROVE  /\ \E m : PassLoses(m)
           /\ LocTyping' /\ Ordered' /\ Blocks' /\ BodiesKept
  <1>1. PassRuns /\ LocTyping /\ Ready /\ (Fresh => Counted)
    BY WrappedRuns
  <1>2. PICK l : l = {At(p).line}
    OBVIOUS
  <1>3. PICK e : e = (line = 0)
    OBVIOUS
  <1>4. PICK m : m = [NothingMissing EXCEPT !.lines = l, !.HasErrors = e]
    OBVIOUS
  <1>5. m = [lines |-> l, vars |-> {}, HasErrors |-> e]
    BY <1>4, LossRecords
  <1>6. l \in SUBSET Line /\ IsFiniteSet(l) /\ e \in BOOLEAN
    BY <1>1, <1>2, <1>3, LossesTypable, FS_Singleton
  <1>7. m \in Missing /\ IsFiniteSet(m.lines) /\ IsFiniteSet(m.vars)
    BY <1>5, <1>6, FS_EmptySet DEF Missing
  <1>8. /\ Counted => Checked' = [NothingMissing EXCEPT !.lines = {At(p).line}, !.HasErrors = (line = 0)]
        /\ LocTyping' /\ Ordered' /\ Blocks' /\ BodiesKept
    BY <1>1, LineLost
  <1>9. [NothingMissing EXCEPT !.lines = {At(p).line}, !.HasErrors = (line = 0)] = m
    BY <1>2, <1>3, <1>4, Zenon
  <1>10. PassLoses(m)
    BY <1>1, <1>7, <1>8, <1>9 DEF PassLoses, Losing
  <1> QED BY <1>8, <1>10

\* A pass that loses a debug value.
LEMMA ValueIsLost ==
    ASSUME Passes, WrappedPass, ~Stale, NEW p \in DbgPlaces,
           code' = [code EXCEPT ![p[1]] = RemoveAt(@, p[2])],
           Losing([NothingMissing EXCEPT !.vars = {At(p).var}])
    PROVE  /\ \E m : PassLoses(m)
           /\ LocTyping' /\ Ordered' /\ Blocks' /\ BodiesKept
  <1>1. PassRuns /\ LocTyping /\ Ready /\ (Fresh => Counted) /\ VarsCount
    BY WrappedRuns DEF Ready
  <1>2. PICK l : l = {At(p).var}
    OBVIOUS
  <1>4. PICK m : m = [NothingMissing EXCEPT !.vars = l]
    OBVIOUS
  <1>5. m = [lines |-> {}, vars |-> l, HasErrors |-> FALSE]
    BY <1>4, LossRecords
  <1>6. l \in SUBSET Nat /\ IsFiniteSet(l)
    BY <1>1, <1>2, LossesTypable, FS_Singleton
  <1>7. m \in Missing /\ IsFiniteSet(m.lines) /\ IsFiniteSet(m.vars)
    BY <1>5, <1>6, FS_EmptySet DEF Missing
  <1>8. /\ Counted => Checked' = [NothingMissing EXCEPT !.vars = {At(p).var}]
        /\ LocTyping' /\ Ordered' /\ Blocks' /\ BodiesKept
    BY <1>1, ValueLost
  <1>9. [NothingMissing EXCEPT !.vars = {At(p).var}] = m
    BY <1>2, <1>4, Zenon
  <1>10. PassLoses(m)
    BY <1>1, <1>7, <1>8, <1>9 DEF PassLoses, Losing
  <1> QED BY <1>8, <1>10

\* A pass that leaves a debug value of the wrong size.
LEMMA SizeIsLost ==
    ASSUME Passes, WrappedPass, ~Stale, NEW p \in DbgPlaces,
           code' = [code EXCEPT ![p[1]][p[2]].sized = FALSE],
           Losing([NothingMissing EXCEPT !.vars = {At(p).var}, !.HasErrors = TRUE])
    PROVE  /\ \E m : PassLoses(m)
           /\ LocTyping' /\ Ordered' /\ Blocks' /\ BodiesKept
  <1>1. PassRuns /\ LocTyping /\ Ready /\ (Fresh => Counted) /\ VarsCount
    BY WrappedRuns DEF Ready
  <1>2. PICK l : l = {At(p).var}
    OBVIOUS
  <1>3. PICK e : e = TRUE
    OBVIOUS
  <1>4. PICK m : m = [NothingMissing EXCEPT !.vars = l, !.HasErrors = e]
    OBVIOUS
  <1>5. m = [lines |-> {}, vars |-> l, HasErrors |-> e]
    BY <1>4, LossRecords
  <1>6. l \in SUBSET Nat /\ IsFiniteSet(l) /\ e \in BOOLEAN
    BY <1>1, <1>2, <1>3, LossesTypable, FS_Singleton
  <1>7. m \in Missing /\ IsFiniteSet(m.lines) /\ IsFiniteSet(m.vars)
    BY <1>5, <1>6, FS_EmptySet DEF Missing
  <1>8. /\ Counted => Checked' = [NothingMissing EXCEPT !.vars = {At(p).var}, !.HasErrors = TRUE]
        /\ LocTyping' /\ Ordered' /\ Blocks' /\ BodiesKept
    BY <1>1, SizeLost
  <1>9. [NothingMissing EXCEPT !.vars = {At(p).var}, !.HasErrors = TRUE] = m
    BY <1>2, <1>3, <1>4, Zenon
  <1>10. PassLoses(m)
    BY <1>1, <1>7, <1>8, <1>9 DEF PassLoses, Losing
  <1> QED BY <1>8, <1>10

\* What a pass loses, if it does anything.
LEMMA AnyPassLoses ==
    ASSUME Passes, WrappedPass
    PROVE  /\ \E m : PassLoses(m)
           /\ LocTyping' /\ Ordered' /\ Blocks' /\ BodiesKept
           /\ wrapped = "function" => code' = code
  <1>1. CASE code' = code /\ Losing(NothingMissing)
    BY <1>1, NothingIsLost
  <1>2. CASE wrapped # "function" /\ \E p \in InstPlaces, line \in {0, NoLine, 1} :
                 /\ line # At(p).line
                 /\ code' = [code EXCEPT ![p[1]][p[2]].line = line]
                 /\ Losing([NothingMissing EXCEPT !.lines = {At(p).line}, !.HasErrors = (line = 0)])
    BY <1>2, LineIsLost DEF Stale
  <1>3. CASE wrapped # "function" /\ \E p \in DbgPlaces :
                 /\ code' = [code EXCEPT ![p[1]] = RemoveAt(@, p[2])]
                 /\ Losing([NothingMissing EXCEPT !.vars = {At(p).var}])
    BY <1>3, ValueIsLost DEF Stale
  <1>4. CASE wrapped # "function" /\ \E p \in DbgPlaces :
                 /\ code' = [code EXCEPT ![p[1]][p[2]].sized = FALSE]
                 /\ Losing([NothingMissing EXCEPT !.vars = {At(p).var}, !.HasErrors = TRUE])
    BY <1>4, SizeIsLost DEF Stale
  <1> QED BY <1>1, <1>2, <1>3, <1>4 DEF WrappedPass

\* The list of the passes is a pass longer.
LEMMA LossesLonger ==
    ASSUME LocTyping, LossesTyping, NEW m, PassLoses(m), Given \in SUBSET Nat
    PROVE  /\ LossesTyping' /\ losses' # <<>> /\ Len(losses') = Len(losses) + 1
           /\ Last(losses').missing = m /\ Last(losses').of = Given
           /\ DOMAIN losses \subseteq DOMAIN losses' /\ \A l \in DOMAIN losses : losses'[l] = losses[l]
           /\ Len(losses) = 0 <=> losses = <<>>
  <1>1. PICK S : S = [of : SUBSET Nat, missing : Missing]
    OBVIOUS
  <1>2. PICK new : new = [of |-> Given, missing |-> m]
    OBVIOUS
  <1>3. losses \in Seq(S) /\ new \in S /\ losses' = Append(losses, new) /\ Len(losses) \in Nat
    BY <1>1, <1>2 DEF StatsTyping, LossesTyping, PassLoses
  <1>4. /\ losses' \in Seq(S) /\ Len(losses') = Len(losses) + 1 /\ losses'[Len(losses) + 1] = new
        /\ \A l \in 1 .. Len(losses) : losses'[l] = losses[l]
        /\ DOMAIN losses = 1 .. Len(losses) /\ DOMAIN losses' = 1 .. Len(losses) + 1
    BY <1>3
  <1>5. DOMAIN losses \subseteq DOMAIN losses' /\ \A l \in DOMAIN losses : losses'[l] = losses[l]
    BY <1>3, <1>4
  <1>6. \A l \in DOMAIN losses' : IsFiniteSet(losses'[l].missing.lines) /\ IsFiniteSet(losses'[l].missing.vars)
    <2>1. new.missing = m
      BY <1>2
    <2>2. IsFiniteSet(m.lines) /\ IsFiniteSet(m.vars)
      BY DEF PassLoses
    <2>3. \A l \in DOMAIN losses' : l \in DOMAIN losses \/ l = Len(losses) + 1
      BY <1>3, <1>4
    <2>4. \A l \in DOMAIN losses : IsFiniteSet(losses[l].missing.lines) /\ IsFiniteSet(losses[l].missing.vars)
      BY DEF StatsTyping, LossesTyping
    <2> QED BY <1>4, <1>5, <2>1, <2>2, <2>3, <2>4
  <1>7. LossesTyping'
    BY <1>1, <1>4, <1>6 DEF LossesTyping, Missing
  <1>8. losses' # <<>> /\ Last(losses') = new
    BY <1>3, <1>4 DEF Last
  <1>9. Len(losses) = 0 <=> losses = <<>>
    BY <1>3
  <1> QED BY <1>2, <1>4, <1>5, <1>7, <1>8, <1>9

\* A pass leaves a module to check.
LEMMA WrappedPassKeeps ==
    ASSUME Passes, LossesTyping, WrappedPass
    PROVE  Passes' /\ LossesTyping' /\ BodiesKept
  <1>1. /\ PassRuns /\ LocTyping /\ Given \in SUBSET Nat /\ (~Stale => Ready)
    BY WrappedRuns
  <1>2. PICK m : PassLoses(m)
    BY AnyPassLoses
  <1>3. /\ LocTyping' /\ Ordered' /\ Blocks' /\ BodiesKept
        /\ wrapped = "function" => code' = code
    BY AnyPassLoses
  <1>4. /\ locPc' = "check" /\ wrapped' = wrapped /\ dbgCU' = dbgCU /\ F' = F /\ LastF' = LastF
        /\ exact' = exact /\ Stats' = Stats /\ locPc = "erase"
    BY <1>1 DEF PassRuns, WrappedPass, program, debugInfo, counters, cursors
  <1>5. LossesTyping' /\ losses' # <<>>
    BY <1>1, <1>2, LossesLonger
  <1>6. CheckTyping'
    BY <1>4, <1>5 DEF Passes, CheckTyping, Applying, Applied
  <1>7. dbgCU /\ Placed /\ F <= LastF + 1
    <2>1. CASE Stale
      BY <2>1 DEF Passes, StaleState
    <2>2. CASE ~Stale
      <3>1. Placed /\ F = LastF + 1 /\ LastF \in Int
        BY <1>1, <1>4, <2>2 DEF Ready, LocInv, Position, Applied, LocTyping
      <3>2. dbgCU
        BY <1>4 DEF Passes, CheckTyping, Applied
      <3> QED BY <3>1, <3>2
    <2> QED BY <2>1, <2>2
  <1>8. StaleState'
    <2>1. wrapped = "function" => Placed'
      BY <1>3, <1>4, <1>7 DEF Placed
    <2> QED BY <1>4, <1>7, <2>1 DEF StaleState, Stale
  <1>9. Operands'
    BY <1>4 DEF Operands, Applying
  <1> QED BY <1>3, <1>4, <1>5, <1>6, <1>8, <1>9 DEF Passes, Applying, AtStart

\* The check will find what the pass has lost (Debugify.cpp:210-303).
LEMMA WrappedPassReports ==
    ASSUME Passes, StatsTyping, Fresh, Reports, Adding, WrappedPass
    PROVE  StatsTyping' /\ Reports' /\ Adding'
  <1>1. /\ PassRuns /\ LocTyping /\ Given \in SUBSET Nat /\ (~Stale => Ready /\ Counted)
    BY WrappedRuns
  <1>2. PICK m : PassLoses(m)
    BY AnyPassLoses
  <1>3. LocTyping' /\ BodiesKept
    BY AnyPassLoses
  <1>4. /\ locPc' = "check" /\ wrapped' = wrapped /\ debugifyMD' = debugifyMD /\ LastF' = LastF
        /\ exact' = exact /\ functionOf' = functionOf /\ Stats' = Stats /\ locPc = "erase" /\ UNCHANGED program
    BY <1>1 DEF PassRuns, WrappedPass, program, debugInfo, counters, cursors
  <1>5. /\ losses' # <<>> /\ Len(losses') = Len(losses) + 1
        /\ Last(losses').missing = m /\ Last(losses').of = Given
        /\ DOMAIN losses \subseteq DOMAIN losses' /\ \A l \in DOMAIN losses : losses'[l] = losses[l]
        /\ Len(losses) = 0 <=> losses = <<>>
    BY <1>1, <1>2, LossesLonger DEF StatsTyping
  <1>6. Len(losses) \in Nat
    BY <1>1, LossesTyped
  <1>7. Given' = Given
    BY <1>4 DEF Given, GivenToModulePass, GivenToFunctionPass, Functions
  <1>8. ASSUME wrapped' = "function" => Len(losses') = 1
        PROVE  /\ Checked' = Last(losses').missing /\ Last(losses').of = Given' /\ debugifyMD' # <<>>
               /\ OriginalNumLines' = Cardinality(BodyPlaces(Given))'
               /\ OriginalNumVars' = Cardinality(DescribedPlaces(Given))'
    <2>1. ~Stale
      BY <1>4, <1>5, <1>6, <1>8 DEF Stale
    <2>2. Ready /\ Counted
      BY <1>1, <2>1
    <2>3. Checked' = m
      BY <1>2, <2>1 DEF PassLoses
    <2>4. /\ OriginalNumLines = NextLine - 1 /\ OriginalNumVars = NextVar - 1
          /\ NextLine - 1 = Cardinality(BodyPlaces(Given)) /\ NextVar - 1 = Cardinality(DescribedPlaces(Given))
      BY <2>2, CountsTaken, Numbered
    <2>5. OriginalNumLines' = OriginalNumLines /\ OriginalNumVars' = OriginalNumVars
      BY <1>4 DEF OriginalNumLines, OriginalNumVars
    <2>6. /\ BodyPlaces(Given)' = BodyPlaces(Given) /\ DescribedPlaces(Given)' = DescribedPlaces(Given)
      BY <1>1, <1>3, <1>4, <1>7, PlacesKept
    <2>7. debugifyMD' # <<>>
      BY <1>4, <2>2 DEF Counted
    <2> QED BY <1>5, <1>7, <2>3, <2>4, <2>5, <2>6, <2>7
  <1>9. Reports'
    BY <1>4, <1>5, <1>8 DEF Reports
  <1>10. Adding'
    <2>1. PICK n : n = Len(losses)
      OBVIOUS
    <2>2. n \in 0 .. Len(losses) /\ CheckedPasses = 1 .. n /\ CheckedPasses' = 1 .. n
      BY <1>4, <1>5, <1>6, <2>1 DEF CheckedPasses
    <2>3. /\ SumFunctionOnSet(LinesLost', 1 .. n) = SumFunctionOnSet(LinesLost, 1 .. n)
          /\ SumFunctionOnSet(ValuesLost', 1 .. n) = SumFunctionOnSet(ValuesLost, 1 .. n)
          /\ SumFunctionOnSet(LinesExpected', 1 .. n) = SumFunctionOnSet(LinesExpected, 1 .. n)
          /\ SumFunctionOnSet(ValuesExpected', 1 .. n) = SumFunctionOnSet(ValuesExpected, 1 .. n)
      BY <1>1, <1>3, <1>4, <1>5, <2>2, SumsKept
    <2> QED BY <1>4, <1>5, <2>2, <2>3 DEF Adding
  <1>11. StatsTyping'
    <2>1. LossesTyping'
      BY <1>1, <1>2, LossesLonger DEF StatsTyping
    <2> QED BY <1>4, <2>1 DEF StatsTyping, Statistics
  <1> QED BY <1>9, <1>10, <1>11

\* Where debugify starts, there is nothing to count.
LEMMA CountStarts ==
    ASSUME NEW first \in Nat, LocInv(first), locPc = "debugify", code' = code
    PROVE  VarsCount'
  <1>1. \A b \in DOMAIN code : DbgPlacesOf(b)' = {}
    BY DEF LocInv, Numbering, Clean, NoDbg, DbgPlacesOf
  <1> QED BY <1>1 DEF VarsCount

\* The function that is next is one of the module.
LEMMA NextDefinition ==
    ASSUME LocTyping, NEW f \in Definitions
    PROVE  f \in 1 .. Len(exact) /\ Len(exact) \in Nat /\ LastF \in Nat
  <1>1. functionOf \in Seq(Functions) /\ Len(exact) \in Nat /\ LastF \in Nat
    BY DEF LocTyping
  <1>2. f \in {functionOf[b] : b \in DOMAIN functionOf}
    BY DEF Definitions, ToSet
  <1>3. PICK b \in DOMAIN functionOf : f = functionOf[b]
    BY <1>2
  <1>4. \A c \in DOMAIN functionOf : functionOf[c] \in Functions
    BY <1>1
  <1> QED BY <1>1, <1>3, <1>4 DEF Functions

\* debugify of the next function: it goes on with it, or finds the module debugified
\* already and leaves it as it is (Debugify.cpp:63-91, 326-332).
LEMMA DebugifyFunctionKeeps ==
    ASSUME Passes, DebugifyFunction
    PROVE  Passes' /\ BodiesKept /\ Quiet
  <1>1. PICK f \in Definitions : LastF < f /\ ApplyDebugifyMetadata(f, f)
    BY DEF DebugifyFunction
  <1>2. /\ wrapped' \in FunctionPasses /\ (losses # <<>> => wrapped' = wrapped)
        /\ Stats' = Stats /\ report' = report /\ losses' = losses
    BY DEF DebugifyFunction
  <1>3. /\ locPc = "debugify" /\ LastF' = f /\ code' = code /\ functionOf' = functionOf /\ exact' = exact
        /\ debugifyMD' = debugifyMD /\ subprogram' = subprogram /\ NextLine' = NextLine /\ NextVar' = NextVar
        /\ InsertBefore' = InsertBefore /\ locPc' \in {"erase", "functions"}
        /\ dbgCU => locPc' = "erase" /\ BB' = 1 /\ I' = 1 /\ F' = F /\ dbgCU' = dbgCU
        /\ ~dbgCU => locPc' = "functions" /\ dbgCU' = TRUE
    BY <1>1 DEF ApplyDebugifyMetadata, program, counters
  <1>4. LocTyping /\ Ordered /\ Blocks /\ CheckTyping /\ StaleState /\ Operands
    BY DEF Passes
  <1>5. f \in 1 .. Len(exact) /\ Len(exact) \in Nat /\ LastF \in Nat
    BY <1>4, NextDefinition
  <1>6. wrapped' # "module" /\ wrapped' \in Wrappings
    BY <1>2 DEF FunctionPasses
  <1>7. BodiesKept /\ Quiet
    BY <1>2, <1>3, BodiesOfKeptCode DEF Quiet, program
  <1>8. CheckTyping'
    BY <1>2, <1>3, <1>4, <1>5, <1>6 DEF CheckTyping, Applying, Applied
  <1>9. CASE Stale
    <2>1. dbgCU /\ Placed /\ F <= LastF + 1
      BY <1>4, <1>9 DEF StaleState
    <2>2. locPc' = "erase" /\ BB' = 1 /\ I' = 1 /\ F' = F /\ dbgCU' = dbgCU
      BY <1>3, <2>1
    <2>3. Stale'
      BY <1>2, <1>9 DEF Stale
    <2>4. LocTyping' /\ Ordered' /\ Blocks'
      <3>1. LastF' \in 0 .. Len(exact) /\ BB' \in 0 .. Len(code) + 1
        BY <1>3, <1>4, <1>5, <2>2, Typed
      <3> QED BY <1>3, <1>4, <2>2, <3>1 DEF LocTyping, Ordered, Blocks, Instruction, SyntheticValue, Functions
    <2>5. Placed'
      BY <1>3, <2>1 DEF Placed
    <2>6. F' <= LastF'
      <3>1. F \in Int
        BY <1>4 DEF LocTyping
      <3> QED BY <1>1, <1>3, <1>5, <2>1, <2>2, <3>1
    <2>7. F' <= LastF' + 1
      <3>1. PICK a \in Int, c \in Int : a = F' /\ c = LastF'
        BY <1>3, <1>4, <1>5, <2>2 DEF LocTyping
      <3>2. a <= c
        BY <2>6, <3>1
      <3>3. a <= c + 1
        BY ONLY <3>2, a \in Int, c \in Int
      <3> QED BY <3>1, <3>3
    <2>8. StaleState'
      BY <2>1, <2>2, <2>5, <2>6, <2>7 DEF StaleState
    <2>9. Operands'
      BY <2>2, <2>3 DEF Operands, Applying
    <2> QED BY <1>7, <1>8, <2>3, <2>4, <2>8, <2>9 DEF Passes
  <1>10. CASE ~Stale
    <2>1. LocInv(FirstF)
      BY <1>3, <1>10 DEF Passes
    <2>2. PICK g \in Nat : g = FirstF
      BY <1>5 DEF FirstF
    <2>3. LocInv(g) /\ ~dbgCU
      BY <1>3, <2>1, <2>2 DEF LocInv, Position
    <2>4. LocInv(f)'
      <3>1. f \in Nat /\ f \in 0 .. Len(exact) /\ f \in 1 .. f + 1
        BY <1>5
      <3> QED BY <1>1, <2>3, <3>1, ApplyKeeps
    <2>5. FirstF' = f
      BY <1>3, <1>6 DEF FirstF
    <2>6. LocInv(FirstF)'
      BY <2>4, <2>5
    <2>7. ~Stale'
      BY <1>2, <1>10 DEF Stale
    <2>8. VarsCount'
      BY <1>3, <2>3, CountStarts
    <2>9. Operands'
      BY <1>2, <1>3, <1>4, <1>10, <2>3 DEF Operands, Applying
    <2>10. LocTyping' /\ Ordered' /\ Blocks'
      BY <2>4 DEF LocInv
    <2>11. StaleState'
      BY <2>7 DEF StaleState
    <2> QED BY <1>7, <1>8, <2>6, <2>8, <2>9, <2>10, <2>11 DEF Passes
  <1> QED BY <1>9, <1>10

\* The end: of the function passes, and of a check.
LEMMA EndKeeps ==
    ASSUME Passes, locPc' = "checked", UNCHANGED <<code, program, debugInfo, counters, cursors, wrapped, Stats, losses>>
    PROVE  Passes' /\ BodiesKept
  <1>1. /\ code' = code /\ functionOf' = functionOf /\ exact' = exact /\ dbgCU' = dbgCU
        /\ debugifyMD' = debugifyMD /\ subprogram' = subprogram /\ NextLine' = NextLine
        /\ NextVar' = NextVar /\ F' = F /\ LastF' = LastF /\ BB' = BB /\ I' = I
        /\ InsertBefore' = InsertBefore /\ wrapped' = wrapped /\ losses' = losses
    BY DEF program, debugInfo, counters, cursors
  <1>2. LocTyping' /\ Ordered' /\ Blocks'
    BY <1>1 DEF Passes, LocTyping, Ordered, Blocks, Instruction, SyntheticValue, Functions
  <1>3. CheckTyping'
    BY <1>1 DEF Passes, CheckTyping, Applying, Applied
  <1>4. StaleState'
    <2>1. Stale => dbgCU /\ Placed /\ F <= LastF + 1 /\ locPc # "strip"
      BY DEF Passes, StaleState
    <2>2. Stale => Placed'
      BY <1>1, <2>1 DEF Placed
    <2> QED BY <1>1, <2>1, <2>2 DEF StaleState, Stale
  <1> QED BY <1>1, <1>2, <1>3, <1>4, BodiesOfKeptCode DEF Passes, Operands, AtStart, Applying

\* Every function has been debugified.
LEMMA FunctionsDoneKeeps ==
    ASSUME Passes, FunctionsDone
    PROVE  Passes' /\ BodiesKept /\ Quiet
  <1>1. /\ locPc' = "checked" /\ locPc = "debugify"
        /\ UNCHANGED <<code, program, debugInfo, counters, cursors, checkVars>>
    BY DEF FunctionsDone
  <1>2. UNCHANGED <<wrapped, Stats, report, losses>>
    BY <1>1 DEF checkVars
  <1> QED BY <1>1, <1>2, EndKeeps DEF Quiet

\* The check returns early where there is nothing it could check (Debugify.cpp:214-219).
LEMMA CheckSkippedKeeps ==
    ASSUME Passes, CheckSkipped
    PROVE  /\ Passes' /\ BodiesKept
           /\ locPc = "debugify" => Quiet
           /\ StatsTyping => StatsTyping'
           /\ locPc = "check" /\ Reports /\ Adding => Reports' /\ Adding'
  <1>1. /\ locPc' = "checked" /\ locPc \in {"debugify", "check"} /\ wrapped = "module" /\ debugifyMD = <<>>
        /\ UNCHANGED <<code, program, debugInfo, counters, cursors, checkVars>>
    BY DEF CheckSkipped
  <1>2. UNCHANGED <<wrapped, Stats, report, losses>>
    BY <1>1 DEF checkVars
  <1>3. Passes' /\ BodiesKept
    BY <1>1, <1>2, EndKeeps
  <1>4. StatsTyping => StatsTyping'
    BY <1>1, <1>2 DEF StatsTyping, LossesTyping, Statistics, Missing
  <1>5. ASSUME locPc = "check", Reports PROVE Reports' /\ Adding'
    <2>1. losses # <<>>
      BY <1>5 DEF Passes, CheckTyping
    <2> QED BY <1>1, <1>2, <1>5, <2>1 DEF Reports, Adding
  <1> QED BY <1>1, <1>2, <1>3, <1>4, <1>5 DEF Quiet

\* The check reports what it finds, and leaves the module as it is (Debugify.cpp:210-306).
LEMMA CheckDebugifyKeeps ==
    ASSUME Passes, CheckDebugify
    PROVE  /\ Passes' /\ BodiesKept
           /\ StatsTyping => StatsTyping'
           /\ Reports /\ Adding => Reports' /\ Adding'
  <1>1. /\ locPc = "check" /\ wrapped # "each" /\ report' = Checked
        /\ locPc' = (IF wrapped = "module" THEN "checked" ELSE "debugify")
        /\ UNCHANGED <<code, program, debugInfo, counters, cursors, wrapped, Stats, losses>>
    BY DEF CheckDebugify
  <1>2. losses # <<>> /\ wrapped \in Wrappings
    BY <1>1 DEF Passes, CheckTyping
  <1>3. Passes' /\ BodiesKept
    <2>1. CASE wrapped = "module"
      BY <1>1, <2>1, EndKeeps
    <2>2. CASE wrapped # "module"
      <3>1. /\ code' = code /\ functionOf' = functionOf /\ exact' = exact /\ dbgCU' = dbgCU
            /\ debugifyMD' = debugifyMD /\ subprogram' = subprogram /\ NextLine' = NextLine
            /\ NextVar' = NextVar /\ F' = F /\ LastF' = LastF /\ BB' = BB /\ I' = I
            /\ InsertBefore' = InsertBefore /\ wrapped' = wrapped /\ losses' = losses
            /\ locPc' = "debugify" /\ wrapped = "function"
        BY <1>1, <1>2, <2>2 DEF program, debugInfo, counters, cursors, Wrappings
      <3>2. LocTyping' /\ Ordered' /\ Blocks'
        BY <3>1 DEF Passes, LocTyping, Ordered, Blocks, Instruction, SyntheticValue, Functions
      <3>3. CheckTyping'
        BY <1>1, <1>2, <3>1 DEF Passes, CheckTyping, Applying, Applied
      <3>4. Stale' /\ dbgCU /\ Placed /\ F <= LastF + 1
        BY <1>2, <3>1 DEF Passes, StaleState, Stale
      <3>5. Placed'
        BY <1>1, <3>1, <3>4 DEF Placed
      <3>6. StaleState'
        BY <3>1, <3>4, <3>5 DEF StaleState
      <3>7. Operands' /\ ~AtStart'
        BY <3>1, <3>4 DEF Operands, AtStart
      <3> QED BY <3>1, <3>2, <3>3, <3>4, <3>6, <3>7, BodiesOfKeptCode DEF Passes, Applying
    <2> QED BY <2>1, <2>2
  <1>4. StatsTyping => StatsTyping'
    BY <1>1 DEF StatsTyping, LossesTyping, Statistics, Missing
  <1>5. Reports => Reports'
    BY <1>1, <1>2 DEF Reports
  <1>6. Adding'
    BY <1>1, <1>2 DEF Adding, Wrappings
  <1> QED BY <1>3, <1>4, <1>5, <1>6

\* The check strips the module as if it had never been debugified (Debugify.cpp:298-303).
LEMMA CheckAndStripKeeps ==
    ASSUME Passes, CheckAndStrip
    PROVE  Passes' /\ BodiesKept
  <1>1. /\ locPc = "check" /\ wrapped # "function" /\ locPc' = "debugify" /\ debugifyMD' = <<>>
        /\ LastF' = LastF /\ wrapped' = wrapped /\ losses' = losses
    BY DEF CheckAndStrip, cursors
  <1>2. /\ LocTyping /\ Ordered /\ Blocks /\ losses # <<>> /\ wrapped \in Wrappings
    BY <1>1 DEF Passes, CheckTyping
  <1>3. Strips
    <2>1. debugifyMD' \in Seq(Nat)
      BY <1>1
    <2> QED BY <2>1 DEF CheckAndStrip, Strips, StrippedBlock
  <1>4. PICK first \in Nat : first = FirstF
    BY <1>2 DEF FirstF, LocTyping
  <1>5. LocInv(first)' /\ BodiesKept
    BY <1>2, <1>3, StripKeeps DEF BodiesKept
  <1>6. FirstF' = first
    BY <1>1, <1>4 DEF FirstF
  <1>7. LocInv(FirstF)'
    BY <1>5, <1>6
  <1>8. LocTyping' /\ Ordered' /\ Blocks'
    BY <1>5 DEF LocInv
  <1>9. CheckTyping' /\ ~Stale'
    BY <1>1, <1>2 DEF CheckTyping, Stale, Applying, Applied
  <1>10. StaleState' /\ Operands'
    BY <1>1, <1>9 DEF StaleState, Operands, Applying
  <1> QED BY <1>1, <1>5, <1>7, <1>8, <1>9, <1>10 DEF Passes, Applying, AtStart

\* The statistics get what the pass has lost and should have kept (Debugify.cpp:285-291).
LEMMA CheckAndStripReports ==
    ASSUME Passes, StatsTyping, Reports, Adding, CheckAndStrip
    PROVE  StatsTyping' /\ Reports' /\ Adding'
  <1>1. /\ locPc = "check" /\ wrapped # "function" /\ locPc' = "debugify" /\ report' = Checked
        /\ wrapped' = wrapped /\ losses' = losses /\ UNCHANGED program
        /\ Stats' = [NumDbgLocsExpected |-> Stats.NumDbgLocsExpected + OriginalNumLines,
                     NumDbgLocsMissing |-> Stats.NumDbgLocsMissing + Cardinality(MissingLines),
                     NumDbgValuesExpected |-> Stats.NumDbgValuesExpected + OriginalNumVars,
                     NumDbgValuesMissing |-> Stats.NumDbgValuesMissing + Cardinality(MissingVars)]
    BY DEF CheckAndStrip
  <1>2. losses # <<>> /\ LocTyping /\ LocTyping' /\ BodiesKept
    BY <1>1, CheckAndStripKeeps DEF Passes, CheckTyping
  <1>3. /\ Checked = Last(losses).missing /\ Last(losses).of = Given
        /\ OriginalNumLines = Cardinality(BodyPlaces(Given))
        /\ OriginalNumVars = Cardinality(DescribedPlaces(Given))
    BY <1>1, <1>2 DEF Reports
  <1>4. /\ Len(losses) \in Nat /\ DOMAIN losses = 1 .. Len(losses)
        /\ \A l \in DOMAIN losses :
                 /\ LinesLost[l] \in Nat /\ ValuesLost[l] \in Nat
                 /\ LinesExpected[l] \in Nat /\ ValuesExpected[l] \in Nat
                 /\ ValuesExpected[l] <= LinesExpected[l]
    BY <1>2, LossesTyped
  <1>5. PICK n \in Nat : n + 1 = Len(losses)
    <2>1. Len(losses) # 0
      BY <1>2 DEF StatsTyping, LossesTyping
    <2>2. PICK k \in Nat : k = Len(losses)
      BY <1>4
    <2>3. k - 1 \in Nat /\ (k - 1) + 1 = k
      BY <2>1, <2>2
    <2> QED BY <2>2, <2>3
  <1>6. Last(losses) = losses[n + 1] /\ n + 1 \in DOMAIN losses
    BY <1>4, <1>5 DEF Last
  <1>7. /\ Cardinality(MissingLines) = LinesLost[n + 1] /\ Cardinality(MissingVars) = ValuesLost[n + 1]
        /\ OriginalNumLines = LinesExpected[n + 1] /\ OriginalNumVars = ValuesExpected[n + 1]
    <2>1. Checked.lines = MissingLines /\ Checked.vars = MissingVars
      BY DEF Checked
    <2>2. losses[n + 1].missing.lines = MissingLines /\ losses[n + 1].missing.vars = MissingVars
      BY <1>3, <1>6, <2>1
    <2>3. losses[n + 1].of = Given
      BY <1>3, <1>6
    <2> QED BY <1>3, <1>6, <2>2, <2>3 DEF LinesLost, ValuesLost, LinesExpected, ValuesExpected
  <1>8. CheckedPasses = 1 .. n /\ CheckedPasses' = 1 .. n + 1
    BY <1>1, <1>5 DEF CheckedPasses
  <1>9. /\ Stats.NumDbgLocsMissing = SumFunctionOnSet(LinesLost, 1 .. n)
        /\ Stats.NumDbgValuesMissing = SumFunctionOnSet(ValuesLost, 1 .. n)
        /\ Stats.NumDbgLocsExpected = SumFunctionOnSet(LinesExpected, 1 .. n)
        /\ Stats.NumDbgValuesExpected = SumFunctionOnSet(ValuesExpected, 1 .. n)
        /\ Stats.NumDbgValuesExpected <= Stats.NumDbgLocsExpected
    BY <1>1, <1>8 DEF Adding
  <1>10. /\ SumFunctionOnSet(LinesLost', 1 .. n + 1) = LinesLost[n + 1] + SumFunctionOnSet(LinesLost, 1 .. n)
         /\ SumFunctionOnSet(ValuesLost', 1 .. n + 1) = ValuesLost[n + 1] + SumFunctionOnSet(ValuesLost, 1 .. n)
         /\ SumFunctionOnSet(LinesExpected', 1 .. n + 1)
                = LinesExpected[n + 1] + SumFunctionOnSet(LinesExpected, 1 .. n)
         /\ SumFunctionOnSet(ValuesExpected', 1 .. n + 1)
                = ValuesExpected[n + 1] + SumFunctionOnSet(ValuesExpected, 1 .. n)
    <2>1. PICK m : m = n + 1
      OBVIOUS
    <2>2. m \in 0 .. Len(losses)
      BY <1>4, <1>5, <2>1
    <2>3. /\ SumFunctionOnSet(LinesLost', 1 .. m) = SumFunctionOnSet(LinesLost, 1 .. m)
          /\ SumFunctionOnSet(ValuesLost', 1 .. m) = SumFunctionOnSet(ValuesLost, 1 .. m)
          /\ SumFunctionOnSet(LinesExpected', 1 .. m) = SumFunctionOnSet(LinesExpected, 1 .. m)
          /\ SumFunctionOnSet(ValuesExpected', 1 .. m) = SumFunctionOnSet(ValuesExpected, 1 .. m)
      BY <1>1, <1>2, <2>2, SumsKept
    <2> QED BY <1>2, <1>5, <2>1, <2>3, SumsOneMore
  \* The numbers themselves, from here on.
  <1>11. PICK a \in Nat, c \in Nat, d \in Nat, e \in Nat, r \in Nat, s \in Nat, u \in Nat, v \in Nat :
             /\ a = LinesLost[n + 1] /\ c = ValuesLost[n + 1]
             /\ d = LinesExpected[n + 1] /\ e = ValuesExpected[n + 1] /\ e <= d
             /\ r = Stats.NumDbgLocsMissing /\ s = Stats.NumDbgValuesMissing
             /\ u = Stats.NumDbgLocsExpected /\ v = Stats.NumDbgValuesExpected /\ v <= u
    BY <1>4, <1>6, <1>9 DEF StatsTyping, LossesTyping, Statistics
  <1>12. Stats' = [NumDbgLocsExpected |-> u + d, NumDbgLocsMissing |-> r + a,
                   NumDbgValuesExpected |-> v + e, NumDbgValuesMissing |-> s + c]
    BY <1>1, <1>7, <1>11
  <1>13. /\ Stats'.NumDbgLocsExpected = u + d /\ Stats'.NumDbgLocsMissing = r + a
         /\ Stats'.NumDbgValuesExpected = v + e /\ Stats'.NumDbgValuesMissing = s + c
         /\ v + e <= u + d /\ Stats' \in Statistics
    BY <1>11, <1>12 DEF Statistics
  <1>14. Adding'
    <2>1. /\ SumFunctionOnSet(LinesLost', CheckedPasses') = a + r
          /\ SumFunctionOnSet(ValuesLost', CheckedPasses') = c + s
          /\ SumFunctionOnSet(LinesExpected', CheckedPasses') = d + u
          /\ SumFunctionOnSet(ValuesExpected', CheckedPasses') = e + v
      BY ONLY <1>8, <1>9, <1>10, <1>11
    <2>2. a + r = r + a /\ c + s = s + c /\ d + u = u + d /\ e + v = v + e
      BY ONLY a \in Nat, c \in Nat, d \in Nat, e \in Nat, r \in Nat, s \in Nat, u \in Nat, v \in Nat
    <2>3. /\ Stats'.NumDbgLocsMissing = SumFunctionOnSet(LinesLost', CheckedPasses')
          /\ Stats'.NumDbgValuesMissing = SumFunctionOnSet(ValuesLost', CheckedPasses')
          /\ Stats'.NumDbgLocsExpected = SumFunctionOnSet(LinesExpected', CheckedPasses')
          /\ Stats'.NumDbgValuesExpected = SumFunctionOnSet(ValuesExpected', CheckedPasses')
          /\ Stats'.NumDbgValuesExpected <= Stats'.NumDbgLocsExpected
      BY ONLY <1>13, <2>1, <2>2
    <2> QED BY <2>3 DEF Adding
  <1>15. StatsTyping'
    BY <1>1, <1>13 DEF StatsTyping, LossesTyping, Missing, Statistics
  <1>16. Reports'
    BY <1>1, <1>3 DEF Reports
  <1> QED BY <1>14, <1>15, <1>16

--------------------------------------------------------------------------------
(* The steps of debugify and of the locator. *)

\* The passes that are run as module passes.
Locating ==
    /\ wrapped = "module" \/ locPc \notin {"debugify", "erase"}
    /\ LocateNext /\ UNCHANGED checkVars

\* Where a step of debugify or of the locator goes.
LEMMA LocateGoesTo ==
    ASSUME LocateNext, ~EnterDebugify
    PROVE  /\ locPc \in {"strip", "erase"} \cup Applying
           /\ locPc' \in {"debugify", "done", "aborted", "erase"} \cup Applying
           /\ locPc' \in Applying \cup Applied => locPc # "strip" /\ dbgCU' = dbgCU
           /\ locPc' = "debugify" => locPc = "strip"
           /\ locPc' = "done" => locPc = "erase"
           /\ locPc' = "aborted" => Len(debugifyMD \o <<NextLine - 1, NextVar - 1>>) # 2
           /\ locPc' \in Applying => locPc \in Applying
           /\ locPc' = "erase" => locPc = "erase" \/ TrackCounts
           /\ debugifyMD' = debugifyMD \/ TrackCounts
  BY DEF LocateNext, StripSymbols, SkipFunction, BeginFunction, AttachLocations, SkipVoid, InsertDbgValue,
         EndBlock, EndFunction, TrackCounts, EraseIntrinsic, EraseInNextBlock, Located, Applying, Applied,
         debugInfo

\* The passes stay where they can be: what the last check left aborts nothing.
LEMMA LocateTyped ==
    ASSUME CheckTyping, Operands, ~Stale, NextLine \in Nat, NextVar \in Nat, Locating, ~EnterDebugify,
           LastF' = LastF, exact' = exact
    PROVE  CheckTyping'
  <1>1. /\ locPc \in {"strip", "erase"} \cup Applying
        /\ locPc' \in {"debugify", "done", "aborted", "erase"} \cup Applying
        /\ locPc' \in Applying \cup Applied => locPc # "strip" /\ dbgCU' = dbgCU
        /\ locPc' = "done" => locPc = "erase"
        /\ locPc' = "aborted" => Len(debugifyMD \o <<NextLine - 1, NextVar - 1>>) # 2
    BY LocateGoesTo DEF Locating
  <1>2. /\ wrapped' = wrapped /\ losses' = losses /\ (wrapped = "module" \/ locPc # "erase")
    BY DEF Locating, checkVars
  <1>3. locPc' = "aborted" => losses = <<>>
    <2>1. locPc' = "aborted" => locPc \in Applying
      BY DEF Locating, LocateNext, StripSymbols, SkipFunction, BeginFunction, AttachLocations, SkipVoid,
             InsertDbgValue, EndBlock, EndFunction, TrackCounts, EraseIntrinsic, EraseInNextBlock, Located,
             EnterDebugify, Applying
    <2>2. ASSUME locPc' = "aborted", losses # <<>> PROVE FALSE
      <3>1. debugifyMD = <<>>
        BY <2>1, <2>2 DEF Operands
      <3>2. PICK n \in Int, m \in Int : n = NextLine - 1 /\ m = NextVar - 1
        OBVIOUS
      <3>3. <<>> \o <<n, m>> = <<n, m>>
        OBVIOUS
      <3>4. Len(<<n, m>>) = 2
        OBVIOUS
      <3> QED BY <1>1, <2>2, <3>1, <3>2, <3>3, <3>4
    <2> QED BY <2>2
  <1>4. locPc \in Applying \cup Applied \cup {"strip"}
    BY <1>1 DEF Applied
  <1> QED BY <1>1, <1>2, <1>3, <1>4 DEF CheckTyping, Applying, Applied

\* Each step of debugify counts its debug values.
LEMMA LocateCounts ==
    ASSUME NEW first \in Nat, LocInv(first), LocateNext, ~EnterDebugify,
           locPc \in Applying \/ AtStart => VarsCount
    PROVE  locPc' \in Applying \/ AtStart' => VarsCount'
  <1>1. CASE \/ SkipFunction \/ BeginFunction \/ SkipVoid \/ EndBlock \/ EndFunction \/ TrackCounts
    <2>1. code' = code /\ NextVar' = NextVar /\ locPc \in Applying
      BY <1>1 DEF SkipFunction, BeginFunction, SkipVoid, EndBlock, EndFunction, TrackCounts, Applying, counters
    <2> QED BY <2>1, CountKept
  <1>2. CASE AttachLocations
    <2>1. locPc \in Applying
      BY <1>2 DEF AttachLocations, Applying
    <2> QED BY <1>2, <2>1, AttachLocationsCounts
  <1>3. CASE InsertDbgValue
    <2>1. locPc \in Applying
      BY <1>3 DEF InsertDbgValue, Applying
    <2> QED BY <1>3, <2>1, InsertDbgValueCounts
  <1>4. CASE EraseIntrinsic \/ EraseInNextBlock \/ Located
    <2>1. locPc' \notin Applying
      BY <1>4 DEF EraseIntrinsic, EraseInNextBlock, Located, Applying
    <2> QED BY <1>4, <2>1, EraseGoesOn
  <1>5. CASE StripSymbols
    BY <1>5 DEF StripSymbols, Applying, AtStart
  <1> QED BY <1>1, <1>2, <1>3, <1>4, <1>5 DEF LocateNext

\* The counts are the operands of llvm.debugify, if it had none (Debugify.cpp:149-161).
LEMMA TrackCountsOperands ==
    ASSUME Operands, Fresh, ~Stale, NextLine \in Nat, NextVar \in Nat, debugifyMD \in Seq(Nat),
           TrackCounts, locPc' = "erase"
    PROVE  Counted'
  <1>1. /\ debugifyMD' = debugifyMD \o <<NextLine - 1, NextVar - 1>> /\ locPc \in Applying
        /\ Asserts => Len(debugifyMD \o <<NextLine - 1, NextVar - 1>>) = 2
        /\ NextLine' = NextLine /\ NextVar' = NextVar
    BY DEF TrackCounts, Applying, counters
  <1>2. PICK n \in Int, m \in Int : n = NextLine - 1 /\ m = NextVar - 1
    OBVIOUS
  <1>3. debugifyMD = <<>>
    <2>1. CASE Asserts
      <3>1. Len(debugifyMD \o <<n, m>>) = 2
        BY <1>1, <1>2, <2>1
      <3>2. Len(debugifyMD \o <<n, m>>) = Len(debugifyMD) + 2
        <4>1. debugifyMD \in Seq(Int) /\ <<n, m>> \in Seq(Int) /\ Len(<<n, m>>) = 2
          OBVIOUS
        <4> QED BY <4>1, ConcatProperties
      <3>3. Len(debugifyMD) = 0
        <4>1. PICK l \in Nat : l = Len(debugifyMD)
          OBVIOUS
        <4> QED BY <3>1, <3>2, <4>1
      <3> QED BY <3>3
    <2>2. CASE ~Asserts
      BY <1>1, <2>2 DEF Operands
    <2> QED BY <2>1, <2>2
  <1>4. debugifyMD' = <<n, m>>
    BY <1>1, <1>2, <1>3
  <1> QED BY <1>1, <1>2, <1>4 DEF Counted

\* What llvm.debugify has is what the counters say, once they are final.
LEMMA LocateOperands ==
    ASSUME Operands, ~Stale, CheckTyping, NextLine \in Nat, NextVar \in Nat, debugifyMD \in Seq(Nat),
           Locating, ~EnterDebugify
    PROVE  Operands'
  <1>1. /\ locPc' = "debugify" => locPc = "strip"
        /\ locPc' \in Applying => locPc \in Applying
        /\ locPc' \in {"debugify", "done", "aborted", "erase"} \cup Applying
        /\ locPc' = "erase" => locPc = "erase" \/ TrackCounts
        /\ debugifyMD' = debugifyMD \/ TrackCounts
    BY LocateGoesTo DEF Locating
  <1>2. wrapped' = wrapped /\ losses' = losses
    BY DEF Locating, checkVars
  <1>3. ~Stale'
    BY <1>2 DEF Stale
  <1>4. CASE TrackCounts
    <2>1. locPc' \in {"erase", "aborted"}
      BY <1>4 DEF TrackCounts
    <2>2. Fresh /\ locPc' = "erase" => Counted'
      BY <1>4, TrackCountsOperands
    <2> QED BY <2>1, <2>2 DEF Operands, Applying, Fresh
  <1>5. CASE ~TrackCounts
    <2>1. debugifyMD' = debugifyMD
      BY <1>1, <1>5
    <2>2. locPc' = "erase" => locPc = "erase" /\ NextLine' = NextLine /\ NextVar' = NextVar
      BY <1>5 DEF Locating, LocateNext, StripSymbols, SkipFunction, BeginFunction, AttachLocations, SkipVoid,
             InsertDbgValue, EndBlock, EndFunction, EraseIntrinsic, EraseInNextBlock, Located, counters
    <2>3. Counted /\ locPc' = "erase" => Counted'
      BY <2>1, <2>2 DEF Counted
    <2>4. losses # <<>> => locPc # "strip"
      BY DEF CheckTyping
    <2> QED BY <1>1, <1>2, <1>3, <2>1, <2>2, <2>3, <2>4 DEF Operands, Applying, Fresh
  <1> QED BY <1>4, <1>5

\* debugify of a module starts with it (Debugify.cpp:63-91).
LEMMA EnterDebugifyKeeps ==
    ASSUME Passes, Locating, EnterDebugify
    PROVE  Passes' /\ BodiesKept
  <1>1. /\ locPc = "debugify" /\ LastF' = Len(exact) /\ code' = code /\ functionOf' = functionOf
        /\ exact' = exact /\ debugifyMD' = debugifyMD
        /\ locPc' \in {"erase", "functions"} /\ (~dbgCU => locPc' = "functions" /\ dbgCU' = TRUE)
    BY DEF EnterDebugify, ApplyDebugifyMetadata, program
  <1>2. wrapped = "module" /\ wrapped' = wrapped /\ losses' = losses
    BY <1>1 DEF Locating, checkVars
  <1>3. CheckTyping /\ Operands /\ LocInv(1) /\ ~dbgCU /\ 1 \in Nat
    BY <1>1, <1>2 DEF Passes, Stale, FirstF, LocInv, Position
  <1>4. ~Stale /\ ~Stale' /\ FirstF' = 1
    BY <1>2 DEF Stale, FirstF
  <1>5. LocInv(1)'
    <2>1. Len(exact) \in 0 .. Len(exact) /\ 1 \in 1 .. Len(exact) + 1
      BY <1>3, Typed DEF LocInv
    <2>2. PICK n \in 0 .. Len(exact) : n = Len(exact) /\ 1 \in 1 .. n + 1
      BY <2>1
    <2>3. ApplyDebugifyMetadata(1, n)
      BY <2>2 DEF EnterDebugify
    <2> QED BY <1>3, <2>2, <2>3, ApplyKeeps
  <1>6. LocInv(FirstF)' /\ LocTyping' /\ Ordered' /\ Blocks'
    <2>1. LocInv(FirstF)'
      BY <1>4, <1>5
    <2> QED BY <1>5, <2>1 DEF LocInv
  <1>7. CheckTyping'
    BY <1>1, <1>2, <1>3 DEF CheckTyping, Applying, Applied
  <1>8. VarsCount'
    BY <1>1, <1>3, CountStarts
  <1>9. Operands'
    BY <1>1, <1>2, <1>3, <1>4 DEF Operands, Applying, Fresh
  <1>10. StaleState'
    BY <1>4 DEF StaleState
  <1> QED BY <1>1, <1>6, <1>7, <1>8, <1>9, <1>10, BodiesOfKeptCode DEF Passes

\* Each step of debugify and of the locator keeps the state of the module.
LEMMA LocatePasses ==
    ASSUME Passes, Locating
    PROVE  Passes' /\ BodiesKept /\ Quiet
  <1>1. UNCHANGED <<wrapped, Stats, report, losses>>
    BY DEF Locating, checkVars
  <1>2. /\ LocTyping /\ CheckTyping /\ StaleState /\ Operands
        /\ NextLine \in Nat /\ NextVar \in Nat /\ debugifyMD \in Seq(Nat) /\ LastF \in Nat
    BY DEF Passes, LocTyping
  <1>3. Quiet
    <2>1. UNCHANGED program
      BY DEF Locating, LocateNext, StripSymbols, EnterDebugify, ApplyDebugifyMetadata, SkipFunction,
             BeginFunction, AttachLocations, SkipVoid, InsertDbgValue, EndBlock, EndFunction, TrackCounts,
             EraseIntrinsic, EraseInNextBlock, Located
    <2>2. locPc \notin {"check", "checked"} /\ locPc' \notin {"check", "checked"}
      BY DEF Locating, LocateNext, StripSymbols, EnterDebugify, ApplyDebugifyMetadata, SkipFunction,
             BeginFunction, AttachLocations, SkipVoid, InsertDbgValue, EndBlock, EndFunction, TrackCounts,
             EraseIntrinsic, EraseInNextBlock, Located
    <2> QED BY <1>1, <2>1, <2>2 DEF Quiet
  <1>4. CASE EnterDebugify
    BY <1>3, <1>4, EnterDebugifyKeeps
  <1>5. CASE ~EnterDebugify
    <2>1. locPc \in {"strip", "erase"} \cup Applying
      BY <1>5, LocateGoesTo DEF Locating
    <2>2. ~Stale
      <3>1. ASSUME Stale PROVE FALSE
        <4>1. locPc \in {"debugify", "erase", "check", "checked"} /\ wrapped = "function"
          BY <1>2, <3>1 DEF StaleState, Stale
        <4> QED BY <2>1, <4>1 DEF Locating, Applying
      <3> QED BY <3>1
    <2>3. PICK first \in Nat : first = FirstF
      BY <1>2 DEF FirstF
    <2>4. LocInv(first)
      BY <2>1, <2>2, <2>3 DEF Passes, Applying
    <2>5. LocInv(first)' /\ BodiesKept /\ LastF' = LastF /\ UNCHANGED program
      BY <1>5, <2>4, AnyStep DEF Locating
    <2>6. FirstF' = first /\ ~Stale'
      BY <1>1, <2>2, <2>3, <2>5 DEF FirstF, Stale
    <2>7. LocInv(FirstF)' /\ LocTyping' /\ Ordered' /\ Blocks'
      <3>1. LocInv(FirstF)'
        BY <2>5, <2>6
      <3> QED BY <2>5, <3>1 DEF LocInv
    <2>8. CheckTyping'
      <3>1. exact' = exact
        BY <2>5 DEF program
      <3> QED BY <1>2, <1>5, <2>2, <2>5, <3>1, LocateTyped
    <2>9. locPc' \in Applying \/ AtStart' => VarsCount'
      <3>1. locPc \in Applying \/ AtStart => VarsCount
        BY <2>2 DEF Passes
      <3> QED BY <1>5, <2>4, <3>1, LocateCounts DEF Locating
    <2>10. Operands'
      BY <1>2, <1>5, <2>2, LocateOperands
    <2>11. StaleState'
      BY <2>6 DEF StaleState
    <2> QED BY <1>3, <2>5, <2>7, <2>8, <2>9, <2>10, <2>11 DEF Passes
  <1> QED BY <1>4, <1>5

--------------------------------------------------------------------------------
(* The invariant, of every state of the passes. *)

\* The module and the statistics are as they were.
Idle ==
    /\ UNCHANGED <<code, program, debugInfo, counters, cursors, wrapped, Stats, report, losses, locPc>>

\* What the check would report, is what it would have reported.
LEMMA IdleChecks ==
    ASSUME Idle
    PROVE  /\ Checked' = Checked /\ Given' = Given
           /\ OriginalNumLines' = OriginalNumLines /\ OriginalNumVars' = OriginalNumVars
  <1>1. /\ \A n : HasLine(n)' <=> HasLine(n)
        /\ \A v : HasVar(v)' <=> HasVar(v)
        /\ BadSize' <=> BadSize
        /\ OriginalNumLines' = OriginalNumLines /\ OriginalNumVars' = OriginalNumVars /\ Given' = Given
    BY DEF Idle, HasLine, HasVar, BadSize, Looked, Given, GivenToModulePass, GivenToFunctionPass,
           Functions, DbgPlacesOf, OriginalNumLines, OriginalNumVars, program, debugInfo, cursors
  <1>2. (Checked = [lines |-> {n \in 1 .. OriginalNumLines : ~HasLine(n)},
                    vars |-> {v \in 1 .. OriginalNumVars : ~HasVar(v)},
                    HasErrors |-> HasLine(0) \/ BadSize])'
    BY CheckFinds, PTL
  <1> QED BY <1>1, <1>2, CheckFinds

\* Nothing happens to the invariant when nothing happens.
LEMMA PassesStutter ==
    ASSUME PassesInv, Idle
    PROVE  PassesInv' /\ BodiesKept
  <1>1. /\ code' = code /\ functionOf' = functionOf /\ exact' = exact /\ dbgCU' = dbgCU
        /\ debugifyMD' = debugifyMD /\ subprogram' = subprogram /\ NextLine' = NextLine
        /\ NextVar' = NextVar /\ F' = F /\ LastF' = LastF /\ BB' = BB /\ I' = I
        /\ InsertBefore' = InsertBefore /\ locPc' = locPc
        /\ wrapped' = wrapped /\ Stats' = Stats /\ report' = report /\ losses' = losses
    BY DEF Idle, program, debugInfo, counters, cursors
  <1>2. LocTyping /\ Ordered /\ Blocks /\ CheckTyping /\ StaleState /\ Operands /\ LossesTyping
    BY DEF PassesInv, Passes
  <1>3. LocTyping' /\ Ordered' /\ Blocks' /\ BodiesKept
    BY <1>1, <1>2, BodiesOfKeptCode DEF LocTyping, Ordered, Blocks, Instruction, SyntheticValue, Functions
  <1>4. CheckTyping' /\ (Stale' <=> Stale) /\ FirstF' = FirstF
    BY <1>1, <1>2 DEF CheckTyping, Stale, FirstF
  <1>5. StaleState'
    <2>1. Placed => Placed'
      BY <1>1 DEF Placed
    <2> QED BY <1>1, <1>2, <1>4, <2>1 DEF StaleState
  <1>6. Operands'
    BY <1>1, <1>2, <1>4 DEF Operands, Counted, Fresh
  <1>7. ASSUME locPc \notin {"check", "checked"}, ~Stale PROVE LocInv(FirstF)'
    <2>1. PICK first \in Nat : first = FirstF
      BY <1>2 DEF FirstF, LocTyping
    <2>2. LocInv(first) /\ UNCHANGED locVars
      BY <1>1, <1>7, <2>1 DEF PassesInv, Passes, locVars
    <2>3. LocInv(first)'
      BY <2>2, AnyStutter
    <2> QED BY <1>4, <2>1, <2>3
  <1>8. (locPc' \in Applying \/ AtStart') /\ ~Stale' => VarsCount'
    BY <1>1, <1>4, CountKept DEF PassesInv, Passes, AtStart
  <1>9. Passes'
    BY <1>1, <1>3, <1>4, <1>5, <1>6, <1>7, <1>8 DEF Passes
  <1>10. LossesTyping' /\ (StatsTyping => StatsTyping')
    BY <1>1, <1>2 DEF StatsTyping, LossesTyping, Statistics, Missing
  <1>11. UNCHANGED program
    BY DEF Idle
  <1>12. ASSUME Reports PROVE Reports'
    <2>1. /\ Checked' = Checked /\ Given' = Given
          /\ OriginalNumLines' = OriginalNumLines /\ OriginalNumVars' = OriginalNumVars
      BY IdleChecks
    <2>2. \A fs : BodyPlaces(fs)' = BodyPlaces(fs) /\ DescribedPlaces(fs)' = DescribedPlaces(fs)
      BY <1>2, <1>3, <1>11, PlacesKept
    <2>3. BodyPlaces(Given)' = BodyPlaces(Given) /\ DescribedPlaces(Given)' = DescribedPlaces(Given)
      BY <2>1, <2>2
    <2> QED BY <1>1, <1>12, <2>1, <2>3 DEF Reports
  <1>13. ASSUME StatsTyping, Adding PROVE Adding'
    <2>1. PICK n \in 0 .. Len(losses) : CheckedPasses = 1 .. n /\ CheckedPasses' = 1 .. n
      <3>1. Len(losses) \in Nat
        BY <1>2, <1>13, LossesTyped
      <3>2. locPc = "check" => Len(losses) # 0
        BY <1>2 DEF CheckTyping, StatsTyping, LossesTyping
      <3>3. PICK m \in Nat : m = Len(losses)
        BY <3>1
      <3>4. (IF locPc = "check" THEN m - 1 ELSE m) \in 0 .. m
        BY <3>2, <3>3
      <3> QED BY <1>1, <3>3, <3>4 DEF CheckedPasses
    <2>2. DOMAIN losses \subseteq DOMAIN losses' /\ \A l \in DOMAIN losses : losses'[l] = losses[l]
      BY <1>1
    <2>3. /\ SumFunctionOnSet(LinesLost', 1 .. n) = SumFunctionOnSet(LinesLost, 1 .. n)
          /\ SumFunctionOnSet(ValuesLost', 1 .. n) = SumFunctionOnSet(ValuesLost, 1 .. n)
          /\ SumFunctionOnSet(LinesExpected', 1 .. n) = SumFunctionOnSet(LinesExpected, 1 .. n)
          /\ SumFunctionOnSet(ValuesExpected', 1 .. n) = SumFunctionOnSet(ValuesExpected, 1 .. n)
      BY <1>2, <1>3, <1>11, <1>13, <2>2, SumsKept
    <2> QED BY <1>1, <1>13, <2>1, <2>3 DEF Adding
  <1>14. Fresh' <=> Fresh
    BY DEF Fresh
  <1> QED BY <1>3, <1>9, <1>10, <1>12, <1>13, <1>14 DEF PassesInv


\* The passes start with a module, and nothing lost.
LEMMA CheckStarts == CheckInit => PassesInv
  <1> SUFFICES ASSUME CheckInit PROVE PassesInv
    OBVIOUS
  <1>1. /\ LocateInit /\ wrapped = "module" /\ losses = <<>> /\ locPc = "strip"
        /\ Stats = [NumDbgValuesMissing |-> 0, NumDbgValuesExpected |-> 0,
                    NumDbgLocsMissing |-> 0, NumDbgLocsExpected |-> 0]
    BY DEF CheckInit, LocateInit
  <1>2. LocInv(1)
    BY <1>1, LocateStarts DEF LocateInv
  <1>3. LocTyping /\ Ordered /\ Blocks
    BY <1>2 DEF LocInv
  <1>4. ~Stale /\ FirstF = 1
    BY <1>1 DEF Stale, FirstF
  <1>5. CheckTyping
    BY <1>1 DEF CheckTyping, Wrappings, Applying, Applied
  <1>6. Operands
    <2>1. PICK P \in Programs : debugifyMD = P.debugifyMD
      BY <1>1 DEF LocateInit
    <2> QED BY <1>1, <2>1 DEF Operands, Fresh, Applying
  <1>7. Passes
    BY <1>1, <1>2, <1>3, <1>4, <1>5, <1>6 DEF Passes, StaleState, AtStart, Applying
  <1>8. StatsTyping
    BY <1>1 DEF StatsTyping, LossesTyping, Statistics
  <1>9. Reports
    BY <1>1 DEF Reports
  <1>10. Adding
    <2>1. CheckedPasses = {}
      BY <1>1 DEF CheckedPasses
    <2>2. /\ SumFunctionOnSet(LinesLost, {}) = 0 /\ SumFunctionOnSet(ValuesLost, {}) = 0
          /\ SumFunctionOnSet(LinesExpected, {}) = 0 /\ SumFunctionOnSet(ValuesExpected, {}) = 0
      BY SumOfNone
    <2>3. /\ Stats.NumDbgLocsMissing = 0 /\ Stats.NumDbgValuesMissing = 0
          /\ Stats.NumDbgLocsExpected = 0 /\ Stats.NumDbgValuesExpected = 0
      BY <1>1
    <2> QED BY <2>1, <2>2, <2>3 DEF Adding
  <1> QED BY <1>7, <1>8, <1>9, <1>10 DEF PassesInv, StatsTyping

\* Each step keeps the invariant and the bodies.
LEMMA CheckStep == PassesInv /\ CheckNext => PassesInv' /\ BodiesKept
  <1> SUFFICES ASSUME PassesInv, CheckNext PROVE PassesInv' /\ BodiesKept
    OBVIOUS
  <1>1. Passes /\ LossesTyping /\ LocTyping /\ (Fresh => StatsTyping /\ Reports /\ Adding)
    BY DEF PassesInv, Passes
  <1>2. ASSUME Passes', BodiesKept, Quiet PROVE PassesInv'
    <2>1. LocTyping'
      BY <1>2 DEF Passes
    <2>2. StatsTyping => StatsTyping' /\ (Reports => Reports') /\ (Adding => Adding')
      BY <1>1, <1>2, <2>1, QuietReports
    <2>3. LossesTyping'
      BY <1>1, <1>2 DEF Quiet, LossesTyping, Missing
    <2> QED BY <1>1, <1>2, <2>2, <2>3 DEF PassesInv, Fresh
  <1>3. CASE Locating
    BY <1>1, <1>2, <1>3, LocatePasses
  <1>4. CASE DebugifyFunction
    BY <1>1, <1>2, <1>4, DebugifyFunctionKeeps
  <1>5. CASE FunctionsDone
    BY <1>1, <1>2, <1>5, FunctionsDoneKeeps
  <1>6. CASE WrappedPass
    <2>1. Passes' /\ LossesTyping' /\ BodiesKept
      BY <1>1, <1>6, WrappedPassKeeps
    <2>2. Fresh => StatsTyping' /\ Reports' /\ Adding'
      BY <1>1, <1>6, WrappedPassReports
    <2> QED BY <2>1, <2>2 DEF PassesInv, Fresh
  <1>7. CASE CheckSkipped
    <2>1. /\ Passes' /\ BodiesKept /\ (StatsTyping => StatsTyping')
          /\ locPc = "debugify" => Quiet
          /\ locPc = "check" /\ Reports /\ Adding => Reports' /\ Adding'
      BY <1>1, <1>7, CheckSkippedKeeps
    <2>2. locPc \in {"debugify", "check"} /\ losses' = losses
      BY <1>7 DEF CheckSkipped, checkVars
    <2>5. LossesTyping'
      BY <1>1, <2>2 DEF LossesTyping, Missing
    <2>3. CASE locPc = "debugify"
      BY <1>2, <2>1, <2>3
    <2>4. CASE locPc = "check"
      BY <1>1, <2>1, <2>4, <2>5 DEF PassesInv, Fresh
    <2> QED BY <2>2, <2>3, <2>4
  <1>8. CASE CheckDebugify
    <2>1. /\ Passes' /\ BodiesKept /\ (StatsTyping => StatsTyping')
          /\ Reports /\ Adding => Reports' /\ Adding'
      BY <1>1, <1>8, CheckDebugifyKeeps
    <2>2. LossesTyping'
      BY <1>1, <1>8 DEF CheckDebugify, LossesTyping, Missing
    <2> QED BY <1>1, <2>1, <2>2 DEF PassesInv, Fresh
  <1>9. CASE CheckAndStrip
    <2>1. Passes' /\ BodiesKept
      BY <1>1, <1>9, CheckAndStripKeeps
    <2>2. LossesTyping'
      BY <1>1, <1>9 DEF CheckAndStrip, LossesTyping, Missing
    <2>3. Fresh => StatsTyping' /\ Reports' /\ Adding'
      BY <1>1, <1>9, CheckAndStripReports
    <2> QED BY <2>1, <2>2, <2>3 DEF PassesInv, Fresh
  <1> QED BY <1>3, <1>4, <1>5, <1>6, <1>7, <1>8, <1>9 DEF CheckNext, Locating

\* The invariant holds of every state of the passes.
LEMMA CheckInvariant == CheckSpec => []PassesInv
  <1>1. PassesInv /\ UNCHANGED allVars => PassesInv'
    <2>1. UNCHANGED allVars => Idle
      BY DEF allVars, locVars, checkVars, Idle, program, debugInfo, counters, cursors
    <2> QED BY <2>1, PassesStutter
  <1>2. PassesInv /\ [CheckNext]_allVars => PassesInv'
    BY <1>1, CheckStep
  <1> QED BY <1>2, CheckStarts, PTL DEF CheckSpec

--------------------------------------------------------------------------------
(* What a reader of the check and of the statistics is told. *)

\* Whatever the module and the pass, the check reports exactly the locations and debug
\* values the pass lost (Debugify.cpp:236-283, 293-296).  In a build without assertions
\* a module that already has operands of llvm.debugify is checked by them, and not by
\* those of this run (Debugify.cpp:157-161, 221-228): Fresh.
THEOREM ReportsAreExact ==
    ASSUME Fresh
    PROVE  CheckSpec => []ReportIsExact
  <1>1. PassesInv => ReportIsExact
    BY DEF PassesInv, Reports, ReportIsExact
  <1> QED BY <1>1, CheckInvariant, PTL

\* The statistics of a pass, as StatisticsAddUp has them.
InstsOf(l) == {p \in PlacesOf(l.of) : At(p).kind # "dbg"}
ValuesOf(l) == {p \in InstsOf(l) : IsDescribed(p[1], p[2])}

InstsExpected == [l \in DOMAIN losses |-> Cardinality(InstsOf(losses[l]))]
DescribedExpected == [l \in DOMAIN losses |-> Cardinality(ValuesOf(losses[l]))]

\* Folding the list of the passes sums up what each of them lost.
LEMMA FoldsAreSums ==
    /\ FoldSeq(LAMBDA l, n : Cardinality(l.missing.lines) + n, 0, losses)
           = SumFunctionOnSet(LinesLost, DOMAIN losses)
    /\ FoldSeq(LAMBDA l, n : Cardinality(l.missing.vars) + n, 0, losses)
           = SumFunctionOnSet(ValuesLost, DOMAIN losses)
    /\ FoldSeq(LAMBDA l, n : Cardinality(InstsOf(l)) + n, 0, losses)
           = SumFunctionOnSet(InstsExpected, DOMAIN losses)
    /\ FoldSeq(LAMBDA l, n : Cardinality(ValuesOf(l)) + n, 0, losses)
           = SumFunctionOnSet(DescribedExpected, DOMAIN losses)
  <1>1. FoldSeq(LAMBDA l, n : Cardinality(l.missing.lines) + n, 0, losses)
            = SumFunctionOnSet(LinesLost, DOMAIN losses)
    BY DEF FoldSeq, FoldFunction, FoldFunctionOnSet, MapThenFoldSet, SumFunctionOnSet, LinesLost
  <1>2. FoldSeq(LAMBDA l, n : Cardinality(l.missing.vars) + n, 0, losses)
            = SumFunctionOnSet(ValuesLost, DOMAIN losses)
    BY DEF FoldSeq, FoldFunction, FoldFunctionOnSet, MapThenFoldSet, SumFunctionOnSet, ValuesLost
  <1>3. FoldSeq(LAMBDA l, n : Cardinality(InstsOf(l)) + n, 0, losses)
            = SumFunctionOnSet(InstsExpected, DOMAIN losses)
    BY DEF FoldSeq, FoldFunction, FoldFunctionOnSet, MapThenFoldSet, SumFunctionOnSet, InstsExpected
  <1>4. FoldSeq(LAMBDA l, n : Cardinality(ValuesOf(l)) + n, 0, losses)
            = SumFunctionOnSet(DescribedExpected, DOMAIN losses)
    BY DEF FoldSeq, FoldFunction, FoldFunctionOnSet, MapThenFoldSet, SumFunctionOnSet, DescribedExpected
  <1> QED BY <1>1, <1>2, <1>3, <1>4

\* Without debug values a block is its body.
LEMMA PlacesOfBodies ==
    ASSUME LocTyping, \A b \in DOMAIN code : NoDbg(b), NEW l
    PROVE  InstsOf(l) = BodyPlaces(l.of) /\ ValuesOf(l) = DescribedPlaces(l.of)
  <1> DEFINE Bs == {c \in DOMAIN code : functionOf[c] \in l.of /\ exact[functionOf[c]]}
  <1>1. \A b \in DOMAIN code : Body(b) = code[b] /\ DOMAIN code[b] = 1 .. Len(code[b])
    BY Typed, AllBody DEF Body, NoDbg
  <1>2. PlacesOf(l.of) = UNION {{b} \X DOMAIN code[b] : b \in Bs}
    BY DEF PlacesOf, IsFunctionSkipped
  <1>3. BodyPlaces(l.of) = UNION {{b} \X (1 .. Len(Body(b))) : b \in Bs}
    BY DEF BodyPlaces
  <1>4. PlacesOf(l.of) = BodyPlaces(l.of)
    <2>1. \A b \in Bs : {b} \X DOMAIN code[b] = {b} \X (1 .. Len(Body(b)))
      BY <1>1
    <2> QED BY <1>2, <1>3, <2>1
  <1>5. \A p \in BodyPlaces(l.of) : /\ p[1] \in DOMAIN code /\ exact[functionOf[p[1]]]
                                    /\ p[2] \in DOMAIN code[p[1]]
    <2> SUFFICES ASSUME NEW p \in BodyPlaces(l.of)
                 PROVE  /\ p[1] \in DOMAIN code /\ exact[functionOf[p[1]]]
                        /\ p[2] \in DOMAIN code[p[1]]
      OBVIOUS
    <2>1. p = <<p[1], p[2]>>
      BY BodyPlacesMember
    <2>2. /\ p[1] \in DOMAIN code /\ exact[functionOf[p[1]]]
          /\ p[2] \in 1 .. Len(Body(p[1]))
      BY <2>1, BodyPlacesMember
    <2> QED BY <1>1, <2>2
  <1>6. \A p \in BodyPlaces(l.of) : At(p).kind # "dbg"
    BY <1>5 DEF At, NoDbg
  <1>7. InstsOf(l) = BodyPlaces(l.of)
    BY <1>4, <1>6 DEF InstsOf
  <1>8. \A p \in BodyPlaces(l.of) :
            IsDescribed(p[1], p[2]) <=>
                /\ ~IsEHPad(Body(p[1])) /\ Body(p[1])[p[2]].kind \in ValueKind
                /\ p[2] < FindTerminatingInstruction(Body(p[1]))
    BY <1>1, <1>5 DEF IsDescribed
  <1> QED BY <1>7, <1>8 DEF ValuesOf, DescribedPlaces

\* Whatever the modules and however many passes, the exported statistics add up what
\* each pass lost and was expected to keep: nothing of a pass is left for the next, and
\* no later debugify finds the module unusable (Debugify.cpp:157-161, 285-291,
\* 298-303, Debugify.h:45).
THEOREM StatisticsAreSums ==
    ASSUME Fresh
    PROVE  CheckSpec => []StatisticsAddUp
  <1>1. PassesInv => StatisticsAddUp
    <2> SUFFICES ASSUME PassesInv, locPc \in {"debugify", "aborted"}, wrapped # "function"
                 PROVE  StatisticsAddUp
      BY DEF StatisticsAddUp
    <2>1. LocTyping /\ CheckTyping /\ StatsTyping /\ Adding /\ ~Stale
      BY DEF PassesInv, Passes, Stale
    <2>2. losses # <<>> => locPc = "debugify"
      BY <2>1 DEF CheckTyping
    <2>3. Len(losses) \in Nat /\ DOMAIN losses = 1 .. Len(losses) /\ CheckedPasses = DOMAIN losses
      BY <2>1, LossesTyped DEF CheckedPasses
    <2>4. InstsExpected = LinesExpected /\ DescribedExpected = ValuesExpected
      <3>1. CASE losses = <<>>
        BY <3>1 DEF InstsExpected, LinesExpected, DescribedExpected, ValuesExpected
      <3>2. CASE losses # <<>>
        <4>1. LocInv(FirstF) /\ locPc = "debugify"
          BY <2>1, <2>2, <3>2 DEF PassesInv, Passes
        <4>2. \A b \in DOMAIN code : NoDbg(b)
          BY <4>1 DEF LocInv, Numbering, Clean
        <4>3. \A l \in DOMAIN losses : /\ InstsOf(losses[l]) = BodyPlaces(losses[l].of)
                                       /\ ValuesOf(losses[l]) = DescribedPlaces(losses[l].of)
          BY <2>1, <4>2, PlacesOfBodies
        <4> QED BY <4>3 DEF InstsExpected, LinesExpected, DescribedExpected, ValuesExpected
      <3> QED BY <3>1, <3>2
    <2>5. /\ Stats.NumDbgLocsMissing = SumFunctionOnSet(LinesLost, DOMAIN losses)
          /\ Stats.NumDbgValuesMissing = SumFunctionOnSet(ValuesLost, DOMAIN losses)
          /\ Stats.NumDbgLocsExpected = SumFunctionOnSet(InstsExpected, DOMAIN losses)
          /\ Stats.NumDbgValuesExpected = SumFunctionOnSet(DescribedExpected, DOMAIN losses)
          /\ Stats.NumDbgValuesExpected <= Stats.NumDbgLocsExpected
      BY <2>1, <2>3, <2>4 DEF Adding
    <2>6. Stats.NumDbgLocsExpected >= Stats.NumDbgValuesExpected
      BY <2>1, <2>5 DEF StatsTyping, Statistics
    <2> QED BY <2>2, <2>5, <2>6, FoldsAreSums DEF StatisticsAddUp, InstsOf, ValuesOf, ExportDebugifyStats,
                GetMissingValueRatio, GetEmptyLocationRatio
  <1> QED BY <1>1, CheckInvariant, PTL


\* The passes keep every cursor within what it points into, wrapped or not
\* (Debugify.cpp:63-165, IRLocator.cpp:16-33).
THEOREM PassesTypeCorrect == CheckSpec => []LocateTypeOK
  <1>1. PassesInv => LocateTypeOK
    <2> SUFFICES ASSUME PassesInv PROVE LocateTypeOK
      OBVIOUS
    <2>1. LocTyping /\ Blocks /\ StaleState
      BY DEF PassesInv, Passes
    <2>2. PICK first \in Nat : first = FirstF
      BY <2>1 DEF FirstF, LocTyping
    <2>3. locPc = "values" => LocInv(first)
      BY <2>1, <2>2 DEF PassesInv, Passes, StaleState
    <2>4. locPc = "values" => InBlock /\ Position(first)
      BY <2>3 DEF LocInv
    <2> QED BY <2>1, <2>4, TypesFollow
  <1> QED BY <1>1, CheckInvariant, PTL

\* Whatever passes are wrapped, the module is usable between any two steps of debugify
\* (Debugify.cpp:51-61, 122-143).
THEOREM PassesPlaceValues == CheckSpec => []DebugValuesPlaced
  <1>1. PassesInv => DebugValuesPlaced
    <2> SUFFICES ASSUME PassesInv PROVE DebugValuesPlaced
      OBVIOUS
    <2>1. LocTyping /\ Blocks
      BY DEF PassesInv, Passes
    <2>2. locPc \notin {"check", "checked"} => Placed
      BY DEF PassesInv, Passes, StaleState, LocInv
    <2> QED BY <2>1, <2>2, PlacesFollow
  <1> QED BY <1>1, CheckInvariant, PTL

\* Each time debugify is over, of a module or of a function, each value that should be
\* described is described once and counted (Debugify.cpp:111-144, 158).
THEOREM PassesDescribeAll == CheckSpec => []DebugifyComplete
  <1>1. PassesInv => DebugifyComplete
    <2> SUFFICES ASSUME PassesInv, locPc = "erase", F > LastF PROVE DebugifyComplete
      BY DEF DebugifyComplete
    <2>1. LocTyping /\ StaleState
      BY DEF PassesInv, Passes
    <2>2. ~Stale
      <3>1. PICK a \in Int, c \in Int : a = F /\ c = LastF
        BY <2>1 DEF LocTyping
      <3>2. ~(a <= c)
        BY <3>1
      <3> QED BY <2>1, <3>1, <3>2 DEF StaleState
    <2>3. PICK first \in Nat : first = FirstF
      BY <2>1 DEF FirstF, LocTyping
    <2>4. LocInv(first)
      BY <2>2, <2>3 DEF PassesInv, Passes
    <2> QED BY <2>4, CompletionFollows
  <1> QED BY <1>1, CheckInvariant, PTL

\* A module that is located after passes were wrapped and checked has the lines of one
\* that was located at once (Debugify.cpp:298-303, IRLocator.cpp:17-32).
THEOREM PassesNumberLines == CheckSpec => []LinesNumberProgram
  <1>1. PassesInv => LinesNumberProgram
    <2> SUFFICES ASSUME PassesInv, locPc = "done" PROVE LinesNumberProgram
      BY DEF LinesNumberProgram
    <2>1. wrapped = "module" /\ LastF = Len(exact)
      BY DEF PassesInv, Passes, CheckTyping, Applied
    <2>2. LocInv(1)
      BY <2>1 DEF PassesInv, Passes, Stale, FirstF
    <2> QED BY <2>1, <2>2, NumbersFollow DEF LocateInv, WholeModule
  <1> QED BY <1>1, CheckInvariant, PTL

\* No step, of debugify, of a wrapped pass or of the check, adds, removes or moves an
\* instruction of the program itself (Debugify.cpp:127-143, 298-303, IRLocator.cpp:25-30).
THEOREM PassesPreserveBodies == CheckSpec => BodyPreserved
  <1>1. UNCHANGED allVars => UNCHANGED locVars
    BY DEF allVars
  <1>2. PassesInv /\ [CheckNext]_allVars =>
            [\A b \in DOMAIN code :
                LET then == WithoutDbg(code[b])
                    now == WithoutDbg(code'[b])
                IN  /\ Len(now) = Len(then)
                    /\ \A i \in DOMAIN then : /\ now[i].id = then[i].id
                                              /\ now[i].kind = then[i].kind]_locVars
    BY <1>1, CheckStep DEF BodiesKept, Body
  <1> QED BY <1>2, CheckInvariant, PTL DEF CheckSpec, BodyPreserved

================================================================================
