------------------------- MODULE CostAttributionProofs -------------------------
(***************************************************************************)
(* Proofs about CostAttribution, for every module, table of costs and      *)
(* order of llc's: each stage starts as its own proofs ask of it, and what *)
(* is billed for a block is what was emitted for it.                       *)
(***************************************************************************)
EXTENDS CostAttribution, IRLocatorProofs, MappingAndCostProofs

--------------------------------------------------------------------------------
(* The file llc writes, one line further. *)

\* What belongs to nobody has no line, and x otherwise one of the module's.
Belongs(m, x, l) ==
    IF l = 0 THEN x = Nobody
    ELSE \E k \in 1 .. Len(m) : m[k].id = x /\ m[k].line = l

\* The owners of a file's lines are those whom the last .loc before them names.
Filed(m, file, own, loc) ==
    /\ IsAsmFile(file)
    /\ own \in Seq(Inst \cup {Nobody}) /\ Len(own) = Len(file)
    /\ loc \in InstructionID /\ GovernedBy(file, Len(file), loc)
    /\ \A p \in 1 .. Len(file) :
          IF IsLocDirective(file[p]) THEN own[p] = Nobody
          ELSE \E l \in InstructionID : GovernedBy(file, p, l) /\ Belongs(m, own[p], l)

\* A line more is a file, if there is room.
LEMMA LineAppended ==
    ASSUME NEW file, IsAsmFile(file), Len(file) < MaxAsm, NEW l \in AsmLine
    PROVE  /\ IsAsmFile(Append(file, l)) /\ Len(file) \in Nat
           /\ Len(Append(file, l)) = Len(file) + 1
           /\ Append(file, l)[Len(file) + 1] = l
           /\ \A p \in 1 .. Len(file) : Append(file, l)[p] = file[p]
  <1>1. file \in Seq(AsmLine) /\ Len(file) \in Nat
    BY DEF IsAsmFile
  <1>2. Append(file, l) \in Seq(AsmLine) /\ Len(Append(file, l)) = Len(file) + 1
    BY <1>1, AppendProperties
  <1>3. /\ Append(file, l)[Len(file) + 1] = l
        /\ \A p \in 1 .. Len(file) : Append(file, l)[p] = file[p]
    BY <1>1, AppendProperties
  <1> QED BY <1>1, <1>2, <1>3, CostModelAssumption DEF IsAsmFile

\* What governs a line does not depend on the lines behind it.
LEMMA GovernedByPrefix ==
    ASSUME NEW file, NEW longer, NEW n \in Nat, \A q \in 1 .. n : longer[q] = file[q],
           NEW p \in 1 .. n, NEW i
    PROVE  GovernedBy(longer, p, i) <=> GovernedBy(file, p, i)
  <1>1. \A q \in 1 .. p : longer[q] = file[q]
    OBVIOUS
  <1>2. \A q \in 1 .. p : \A r \in (q + 1) .. p : r \in 1 .. p
    OBVIOUS
  <1> QED BY <1>1, <1>2 DEF GovernedBy

\* A .loc line goes to nobody and governs from there on (Llc: BeginEmission,
\* EmitLocated, EmitLineZero).
LEMMA LocFiled ==
    ASSUME NEW m, NEW file, NEW own, NEW loc, Filed(m, file, own, loc), Len(file) < MaxAsm,
           NEW l \in InstructionID
    PROVE  Filed(m, Append(file, LocLine(l)), Append(own, Nobody), l)
  <1> DEFINE new == Append(file, LocLine(l))
             owners == Append(own, Nobody)
  <1>1. LocLine(l) \in AsmLine
    BY AttributionAssumption DEF LocLine, AsmLine
  <1>2. IsLocDirective(LocLine(l)) /\ LocLine(l).operand = l
    BY LineAssumption DEF IsLocDirective, LocLine, NoOperand, InstructionID
  <1>3. IsAsmFile(file) /\ own \in Seq(Inst \cup {Nobody}) /\ Len(own) = Len(file)
    BY DEF Filed
  <1>4. PICK n \in Nat : n = Len(file)
    BY <1>3, LineAppended, <1>1
  <1>5. /\ IsAsmFile(new) /\ Len(new) = n + 1 /\ new[n + 1] = LocLine(l)
        /\ \A p \in 1 .. n : new[p] = file[p]
    BY <1>1, <1>3, <1>4, LineAppended
  <1>6. /\ owners \in Seq(Inst \cup {Nobody}) /\ Len(owners) = n + 1 /\ owners[n + 1] = Nobody
        /\ \A p \in 1 .. n : owners[p] = own[p]
    BY <1>3, <1>4, AppendProperties
  <1> HIDE DEF new, owners
  <1>7. GovernedBy(new, n + 1, l)
    <2>1. n + 1 \in 1 .. n + 1 /\ \A r \in (n + 1 + 1) .. (n + 1) : FALSE
      OBVIOUS
    <2> QED BY <1>2, <1>5, <2>1 DEF GovernedBy
  <1>8. ASSUME NEW p \in 1 .. n + 1
        PROVE  IF IsLocDirective(new[p]) THEN owners[p] = Nobody
               ELSE \E i \in InstructionID : GovernedBy(new, p, i) /\ Belongs(m, owners[p], i)
    <2>1. CASE p = n + 1
      BY <1>2, <1>5, <1>6, <2>1
    <2>2. CASE p # n + 1
      <3>1. p \in 1 .. n
        BY <2>2
      <3>2. \A i : GovernedBy(new, p, i) <=> GovernedBy(file, p, i)
        BY <1>5, <3>1, GovernedByPrefix
      <3> QED BY <1>4, <1>5, <1>6, <3>1, <3>2 DEF Filed
    <2> QED BY <2>1, <2>2
  <1> QED BY <1>5, <1>6, <1>7, <1>8 DEF Filed, new, owners

\* An instruction's line goes to whom the last .loc names (Llc: EmitLocated,
\* EmitUnlocated, EmitLineZero).
LEMMA OpFiled ==
    ASSUME NEW m, NEW file, NEW own, NEW loc, Filed(m, file, own, loc), Len(file) < MaxAsm,
           NEW op \in Token, op # ".loc", NEW x \in Inst \cup {Nobody}, Belongs(m, x, loc)
    PROVE  Filed(m, Append(file, OpLine(op)), Append(own, x), loc)
  <1> DEFINE new == Append(file, OpLine(op))
             owners == Append(own, x)
  <1>1. OpLine(op) \in AsmLine
    BY DEF OpLine, AsmLine
  <1>2. ~IsLocDirective(OpLine(op))
    BY DEF IsLocDirective, OpLine
  <1>3. IsAsmFile(file) /\ own \in Seq(Inst \cup {Nobody}) /\ Len(own) = Len(file)
        /\ loc \in InstructionID /\ GovernedBy(file, Len(file), loc)
    BY DEF Filed
  <1>4. PICK n \in Nat : n = Len(file)
    BY <1>3, LineAppended, <1>1
  <1>5. /\ IsAsmFile(new) /\ Len(new) = n + 1 /\ new[n + 1] = OpLine(op)
        /\ \A p \in 1 .. n : new[p] = file[p]
    BY <1>1, <1>3, <1>4, LineAppended
  <1>6. /\ owners \in Seq(Inst \cup {Nobody}) /\ Len(owners) = n + 1 /\ owners[n + 1] = x
        /\ \A p \in 1 .. n : owners[p] = own[p]
    BY <1>3, <1>4, AppendProperties
  <1> HIDE DEF new, owners
  <1>7. GovernedBy(new, n + 1, loc)
    <2>1. CASE n = 0
      <3>1. GovernedBy(file, 0, loc)
        BY <1>3, <1>4, <2>1
      <3>2. loc = 0
        BY <3>1 DEF GovernedBy
      <3>3. \A q \in 1 .. n + 1 : new[q] = OpLine(op)
        BY <1>5, <2>1
      <3> QED BY <1>2, <3>2, <3>3 DEF GovernedBy
    <2>2. CASE n # 0
      <3>1. n \in 1 .. n /\ n \in 0 .. Len(new) /\ n + 1 <= Len(new)
        BY <1>5, <2>2
      <3>2. GovernedBy(new, n, loc)
        BY <1>3, <1>4, <1>5, <3>1, GovernedByPrefix
      <3> QED BY <1>2, <1>5, <3>1, <3>2, GovernedByOther
    <2> QED BY <2>1, <2>2
  <1>8. ASSUME NEW p \in 1 .. n + 1
        PROVE  IF IsLocDirective(new[p]) THEN owners[p] = Nobody
               ELSE \E i \in InstructionID : GovernedBy(new, p, i) /\ Belongs(m, owners[p], i)
    <2>1. CASE p = n + 1
      BY <1>2, <1>3, <1>5, <1>6, <1>7, <2>1
    <2>2. CASE p # n + 1
      <3>1. p \in 1 .. n
        BY <2>2
      <3>2. \A i : GovernedBy(new, p, i) <=> GovernedBy(file, p, i)
        BY <1>5, <3>1, GovernedByPrefix
      <3> QED BY <1>4, <1>5, <1>6, <3>1, <3>2 DEF Filed
    <2> QED BY <2>1, <2>2
  <1> QED BY <1>3, <1>5, <1>6, <1>7, <1>8 DEF Filed, new, owners

--------------------------------------------------------------------------------
(* The located module. *)

\* The instructions of the module are those of its blocks, one block behind the other
\* (MappingExtractor.cpp:55, gpscat-cost.cpp:84).
LEMMA InstructionsPlaced ==
    ASSUME NEW S, NEW q \in Seq(Seq(S))
    PROVE  /\ Instructions(q) \in Seq({[id |-> e.id, line |-> e.line] : e \in S})
           /\ \A b \in 1 .. Len(q) : \A i \in DOMAIN q[b] :
                 /\ PlaceOf(q, b, i) \in 1 .. Len(Instructions(q))
                 /\ Instructions(q)[PlaceOf(q, b, i)] = [id |-> q[b][i].id, line |-> q[b][i].line]
           /\ \A k \in 1 .. Len(Instructions(q)) :
                 \E b \in 1 .. Len(q) : \E i \in DOMAIN q[b] : k = PlaceOf(q, b, i)
  <1> DEFINE View(e) == [id |-> e.id, line |-> e.line]
             T == {View(e) : e \in S}
             v == [b \in DOMAIN q |-> [i \in DOMAIN q[b] |-> View(q[b][i])]]
  <1>1. Instructions(q) = FlattenSeq(v)
    BY DEF Instructions
  <1>2. DOMAIN q = 1 .. Len(q) /\ Len(q) \in Nat
    BY LenProperties
  <1>3. ASSUME NEW b \in 1 .. Len(q)
        PROVE  [i \in DOMAIN q[b] |-> View(q[b][i])] \in Seq(T) /\ DOMAIN v[b] = DOMAIN q[b]
    <2>1. PICK s \in Seq(S) : s = q[b]
      BY <1>3
    <2>2. DOMAIN s = 1 .. Len(s) /\ Len(s) \in Nat /\ \A i \in 1 .. Len(s) : s[i] \in S
      BY LenProperties, ElementOfSeq
    <2>3. [i \in 1 .. Len(s) |-> View(s[i])] \in Seq(T)
      <3>1. \A i \in 1 .. Len(s) : View(s[i]) \in T
        BY <2>2
      <3> HIDE DEF T, View
      <3> QED BY <2>2, <3>1, IsASeq
    <2> QED BY <1>2, <2>1, <2>2, <2>3
  <1>4. v \in Seq(Seq(T)) /\ Len(v) = Len(q)
    <2>1. \A b \in 1 .. Len(q) : v[b] \in Seq(T)
      BY <1>2, <1>3
    <2>2. v = [b \in 1 .. Len(q) |-> v[b]]
      BY <1>2
    <2> HIDE DEF v, T
    <2>3. [b \in 1 .. Len(q) |-> v[b]] \in Seq(Seq(T))
      BY <1>2, <2>1, IsASeq
    <2>4. v \in Seq(Seq(T)) /\ DOMAIN v = 1 .. Len(q)
      BY <2>2, <2>3
    <2> QED BY <1>2, <2>4, LenProperties
  <1>5. \A n \in 0 .. Len(q) : PlacesUpTo(v, n) = PlacesUpTo(q, n)
    <2> SUFFICES ASSUME NEW n \in 0 .. Len(q) PROVE PlacesUpTo(v, n) = PlacesUpTo(q, n)
      OBVIOUS
    <2>1. \A c \in 1 .. n : c \in 1 .. Len(q)
      BY <1>2
    <2> HIDE DEF v
    <2>2. \A c \in 1 .. n : DOMAIN v[c] = DOMAIN q[c]
      BY <1>3, <2>1
    <2> QED BY <2>2 DEF PlacesUpTo
  <1>6. \A b \in 1 .. Len(q) : \A i : PlaceOf(v, b, i) = PlaceOf(q, b, i)
    <2>1. \A b \in 1 .. Len(q) : b - 1 \in 0 .. Len(q)
      BY <1>2
    <2> HIDE DEF v
    <2> QED BY <1>5, <2>1 DEF PlaceOf
  <1>7. \A b \in 1 .. Len(q) : \A i \in DOMAIN q[b] : v[b][i] = View(q[b][i])
    BY <1>2
  <1> HIDE DEF v, T
  <1>8. /\ FlattenSeq(v) \in Seq(T)
        /\ \A b \in 1 .. Len(v) : \A i \in DOMAIN v[b] :
              /\ PlaceOf(v, b, i) \in 1 .. Len(FlattenSeq(v))
              /\ FlattenSeq(v)[PlaceOf(v, b, i)] = v[b][i]
        /\ \A k \in 1 .. Len(FlattenSeq(v)) :
              \E b \in 1 .. Len(v) : \E i \in DOMAIN v[b] : k = PlaceOf(v, b, i)
    BY <1>4, Flattened
  <1>9. \A b \in 1 .. Len(q) : \A i \in DOMAIN q[b] :
            /\ PlaceOf(q, b, i) \in 1 .. Len(FlattenSeq(v))
            /\ FlattenSeq(v)[PlaceOf(q, b, i)] = View(q[b][i])
    <2> HIDE DEF View
    <2> SUFFICES ASSUME NEW b \in 1 .. Len(q), NEW i \in DOMAIN q[b]
                 PROVE  /\ PlaceOf(q, b, i) \in 1 .. Len(FlattenSeq(v))
                        /\ FlattenSeq(v)[PlaceOf(q, b, i)] = View(q[b][i])
      OBVIOUS
    <2>1. b \in 1 .. Len(v) /\ i \in DOMAIN v[b] /\ PlaceOf(v, b, i) = PlaceOf(q, b, i)
      BY <1>3, <1>4, <1>6
    <2>2. v[b][i] = View(q[b][i])
      BY <1>7
    <2> QED BY <1>8, <2>1, <2>2
  <1>10. \A k \in 1 .. Len(FlattenSeq(v)) :
            \E b \in 1 .. Len(q) : \E i \in DOMAIN q[b] : k = PlaceOf(q, b, i)
    <2> SUFFICES ASSUME NEW k \in 1 .. Len(FlattenSeq(v))
                 PROVE  \E b \in 1 .. Len(q) : \E i \in DOMAIN q[b] : k = PlaceOf(q, b, i)
      OBVIOUS
    <2>1. PICK b \in 1 .. Len(v) : \E i \in DOMAIN v[b] : k = PlaceOf(v, b, i)
      BY <1>8
    <2>2. b \in 1 .. Len(q) /\ DOMAIN v[b] = DOMAIN q[b]
      BY <1>3, <1>4
    <2> QED BY <1>6, <2>1, <2>2
  <1> QED BY <1>1, <1>8, <1>9, <1>10 DEF T

\* A block that has the ids and kinds of another.
SameBody(then, now) ==
    /\ Len(WithoutDbg(now)) = Len(WithoutDbg(then))
    /\ \A i \in 1 .. Len(WithoutDbg(then)) :
          /\ WithoutDbg(now)[i].id = WithoutDbg(then)[i].id
          /\ WithoutDbg(now)[i].kind = WithoutDbg(then)[i].kind

BodyFrom(P) == DOMAIN code = DOMAIN P.code /\ \A b \in DOMAIN code : SameBody(P.code[b], code[b])

\* The lines of a located block are past those of the blocks before it.
LEMMA LinesInOrder ==
    ASSUME LocateInv, locPc = "done",
           NEW b \in DOMAIN code, NEW i \in DOMAIN code[b], exact[functionOf[b]],
           NEW c \in DOMAIN code, NEW j \in DOMAIN code[c], exact[functionOf[c]], b < c
    PROVE  code[b][i].line < code[c][j].line
  <1>1. LocTyping
    BY DEF LocateInv, LocInv
  <1>2. PICK l \in Nat : /\ l = Len(code[b]) /\ i \in 1 .. l /\ Body(b) = code[b]
                         /\ Locates(1, functionOf[b])
    BY <1>1, Typed, LinesWhenDone
  <1>3. Before(1, b) + l <= Before(1, c)
    BY <1>1, <1>2, BlocksApart, 1 \in Nat
  <1>6. PICK x \in Nat, y \in Nat : x = Before(1, b) /\ y = Before(1, c)
    BY <1>1, BeforeCounts, 1 \in Nat
  <1>7. PICK k \in Nat : k = j /\ k >= 1
    BY <1>1, Typed
  <1>8. code[b][i].line = x + i /\ code[c][j].line = y + k
    BY <1>6, <1>7, LinesWhenDone
  <1> QED BY <1>2, <1>3, <1>6, <1>7, <1>8

\* What the located blocks hold when the passes are over: each instruction of the input
\* once, at lines the extractor's tables have.
LEMMA LocatedBlocks ==
    ASSUME LocateInv, locPc = "done", NEW P \in Programs, BodyFrom(P)
    PROVE  \A b \in DOMAIN code : \A i \in DOMAIN code[b] :
              /\ code[b][i].id \in Inst /\ code[b][i].id[1] = b /\ code[b][i].id[2] # 0
              /\ code[b][i].line \in InstructionID
  <1>1. LocTyping
    BY DEF LocateInv, LocInv
  <1> SUFFICES ASSUME NEW b \in DOMAIN code, NEW i \in DOMAIN code[b]
               PROVE  /\ code[b][i].id \in Inst /\ code[b][i].id[1] = b /\ code[b][i].id[2] # 0
                      /\ code[b][i].line \in InstructionID
    OBVIOUS
  <1>2. IsProgram(P) /\ DOMAIN code = DOMAIN P.code
    BY ProgramAssumption DEF BodyFrom
  <1>3. ASSUME NEW c \in DOMAIN code
        PROVE  /\ Len(WithoutDbg(P.code[c])) = Len(code[c])
               /\ DOMAIN WithoutDbg(P.code[c]) = DOMAIN code[c]
               /\ DOMAIN code[c] = 1 .. Len(code[c]) /\ Len(code[c]) \in Nat
               /\ P.code[c] \in Seq([id : (DOMAIN P.code) \X Nat, kind : Kind, line : Line])
    <2>1. P.code[c] \in Seq([id : (DOMAIN P.code) \X Nat, kind : Kind, line : Line])
      BY <1>2 DEF IsProgram
    <2>2. Body(c) = code[c] /\ DOMAIN code[c] = 1 .. Len(code[c]) /\ Len(code[c]) \in Nat
      BY <1>1, LinesWhenDone, Typed
    <2>3. Len(WithoutDbg(P.code[c])) = Len(code[c])
      BY <2>2 DEF BodyFrom, SameBody, Body
    <2>4. DOMAIN WithoutDbg(P.code[c]) = 1 .. Len(WithoutDbg(P.code[c]))
      BY <2>1, BodyInOrder
    <2> QED BY <2>1, <2>2, <2>3, <2>4
  <1>4. /\ code[b][i].id \in Inst /\ code[b][i].id[1] = b /\ code[b][i].id[2] # 0
    <2>1. PICK s \in Seq([id : (DOMAIN P.code) \X Nat, kind : Kind, line : Line]) : s = P.code[b]
      BY <1>3
    <2>2. i \in 1 .. Len(WithoutDbg(s))
      BY <1>3, <2>1
    <2>3. PICK j \in BodyOf(s) : PlaceInBody(s, j) = i
      BY <2>2, BodyInOrder
    <2>4. WithoutDbg(s)[i] = s[j]
      BY <2>3, BodyInOrder
    <2>5. code[b][i].id = WithoutDbg(s)[i].id
      <3>1. Body(b) = code[b]
        BY LinesWhenDone
      <3> QED BY <2>1, <2>2, <3>1 DEF BodyFrom, SameBody, Body
    <2>6. s[j].id \in Inst /\ s[j].id[1] = b /\ s[j].id[2] # 0
      <3>1. \A c \in DOMAIN P.code : \A k \in BodyOf(P.code[c]) :
                P.code[c][k].id \in Inst /\ P.code[c][k].id[1] = c /\ P.code[c][k].id[2] # 0
        BY AttributionAssumption
      <3> QED BY <1>2, <2>1, <2>3, <3>1
    <2> QED BY <2>4, <2>5, <2>6
  <1>5. code[b][i].line \in InstructionID
    <2>1. CASE ~exact[functionOf[b]]
      <3>1. code[b][i].line = 0
        BY <2>1, LinesWhenDone
      <3> QED BY <3>1, LineAssumption DEF InstructionID
    <2>2. CASE exact[functionOf[b]]
      <3> DEFINE All == UNION {{c} \X DOMAIN WithoutDbg(P.code[c]) : c \in DOMAIN P.code}
                 X == PlacesBefore(1, b)
                 Y == {b} \X (1 .. i)
      <3>1. Cardinality(All) <= MaxLine
        BY AttributionAssumption
      <3>2. All = PlacesUpTo(code, Len(code))
        <4>1. DOMAIN code = 1 .. Len(code)
          BY <1>1, Typed
        <4>2. \A c \in DOMAIN code : {c} \X DOMAIN WithoutDbg(P.code[c]) = {c} \X DOMAIN code[c]
          BY <1>3
        <4>3. All = UNION {{c} \X DOMAIN WithoutDbg(P.code[c]) : c \in DOMAIN code}
          BY <1>2
        <4> QED BY <4>1, <4>2, <4>3 DEF PlacesUpTo
      <3>3. IsFiniteSet(All) /\ Cardinality(All) \in Nat
        <4>1. code \in Seq(Seq(Instruction \cup SyntheticValue)) /\ Len(code) \in Nat
              /\ Len(code) \in 0 .. Len(code)
          BY <1>1, Typed DEF LocTyping
        <4> QED BY <3>2, <4>1, PlacesFinite
      <3>4. X \cup Y \subseteq All /\ X \cap Y = {}
        <4>1. \A c \in DOMAIN code : 1 .. Len(Body(c)) = DOMAIN code[c]
          BY LinesWhenDone
        <4>2. X \subseteq All
          BY <1>2, <1>3, <4>1 DEF PlacesBefore
        <4>3. 1 .. i \subseteq DOMAIN code[b]
          BY <1>3
        <4>4. Y \subseteq All
          BY <1>2, <1>3, <4>3
        <4>5. ~(b < b)
          BY <1>1, Typed
        <4>6. \A t \in X : t[1] < b
          BY DEF PlacesBefore
        <4> QED BY <4>2, <4>4, <4>5, <4>6
      <3>5. PICK j \in Nat : j = i
        BY <1>3
      <3>6. IsFiniteSet(Y) /\ Cardinality(Y) = j
        <4>1. IsFiniteSet({b}) /\ Cardinality({b}) = 1
          BY FS_Singleton
        <4>2. IsFiniteSet(1 .. j) /\ Cardinality(1 .. j) = j
          BY FS_Interval, 1 \in Int, j \in Int
        <4>3. IsFiniteSet({b} \X (1 .. j)) /\ Cardinality({b} \X (1 .. j)) = 1 * j
          BY <4>1, <4>2, FS_Product
        <4> QED BY <3>5, <4>3
      <3>7. IsFiniteSet(X) /\ Cardinality(X) \in Nat
        BY <1>1, BeforeCounts, 1 \in Nat DEF Before
      <3> HIDE DEF All, X, Y
      <3>8. Cardinality(X \cup Y) = Cardinality(X) + Cardinality(Y) - Cardinality(X \cap Y)
        BY <3>6, <3>7, FS_Union
      <3>9. Cardinality(X \cap Y) = 0
        BY <3>4, FS_EmptySet
      <3>10. Cardinality(X \cup Y) <= Cardinality(All) /\ Cardinality(X \cup Y) \in Nat
        BY <3>3, <3>4, FS_Subset, FS_CardinalityType
      <3>11. code[b][i].line = Before(1, b) + i
        BY <2>2, LinesWhenDone
      <3>12. code[b][i].line = Cardinality(X) + j
        BY <3>5, <3>11 DEF Before, X
      <3>13. Cardinality(X) + j <= MaxLine
        <4>1. PICK x \in Nat, y \in Nat, z \in Nat :
                  x = Cardinality(X) /\ y = Cardinality(All) /\ z = Cardinality(X \cup Y)
          BY <3>3, <3>7, <3>10
        <4>2. z = x + j - 0 /\ z <= y /\ y <= MaxLine
          BY <3>1, <3>6, <3>8, <3>9, <3>10, <4>1
        <4> QED BY <4>1, <4>2, LineAssumption
      <3> QED BY <3>7, <3>12, <3>13, LineAssumption DEF InstructionID
    <2> QED BY <2>1, <2>2
  <1> QED BY <1>4, <1>5

\* A line names one instruction.
DistinctLines(m) ==
    \A j, k \in 1 .. Len(m) : m[j].line = m[k].line /\ m[j].line # 0 => j = k

\* The located module is what the extractor asks of one; its lines name one instruction
\* each and, if every function was located, count them all (IRLocator.cpp:15,
\* MappingExtractor.cpp:55-58).
LEMMA LocatedModule ==
    ASSUME LocateInv, locPc = "done", NEW P \in Programs, BodyFrom(P),
           NEW m, m = Instructions(code)
    PROVE  /\ IsModule(m) /\ FitsTables(m) /\ DistinctLines(m)
           /\ \A b \in DOMAIN code : \A i \in DOMAIN code[b] :
                 \E k \in 1 .. Len(m) : m[k].id = code[b][i].id /\ m[k].line = code[b][i].line
           /\ (\A f \in DOMAIN exact : exact[f]) => \A k \in DOMAIN m : m[k].line = k
  <1>1. /\ LocTyping /\ code \in Seq(Seq(Instruction \cup SyntheticValue))
        /\ DOMAIN code = 1 .. Len(code)
    BY Typed DEF LocateInv, LocInv, LocTyping
  <1>2. PICK T : m \in Seq(T)
    BY <1>1, InstructionsPlaced
  <1>30. /\ \A b \in 1 .. Len(code) : \A i \in DOMAIN code[b] :
               /\ PlaceOf(code, b, i) \in 1 .. Len(Instructions(code))
               /\ Instructions(code)[PlaceOf(code, b, i)]
                     = [id |-> code[b][i].id, line |-> code[b][i].line]
         /\ \A k \in 1 .. Len(Instructions(code)) :
               \E b \in 1 .. Len(code) : \E i \in DOMAIN code[b] : k = PlaceOf(code, b, i)
    <2>1. code \in Seq(Seq(Instruction \cup SyntheticValue))
      BY <1>1
    <2> QED BY <2>1, InstructionsPlaced
  <1>31. /\ \A b \in DOMAIN code : \A i \in DOMAIN code[b] :
               /\ PlaceOf(code, b, i) \in 1 .. Len(Instructions(code))
               /\ Instructions(code)[PlaceOf(code, b, i)]
                     = [id |-> code[b][i].id, line |-> code[b][i].line]
         /\ \A k \in 1 .. Len(Instructions(code)) :
               \E b \in DOMAIN code : \E i \in DOMAIN code[b] : k = PlaceOf(code, b, i)
    <2>1. DOMAIN code = 1 .. Len(code)
      BY <1>1
    <2> QED BY ONLY <1>30, <2>1
  <1>3. \A b \in DOMAIN code : \A i \in DOMAIN code[b] :
            /\ PlaceOf(code, b, i) \in 1 .. Len(m)
            /\ m[PlaceOf(code, b, i)] = [id |-> code[b][i].id, line |-> code[b][i].line]
    BY <1>31
  <1>4. \A k \in 1 .. Len(m) : \E b \in DOMAIN code : \E i \in DOMAIN code[b] : k = PlaceOf(code, b, i)
    BY <1>31
  <1>5. ASSUME NEW k \in 1 .. Len(m)
        PROVE  \E b \in DOMAIN code : \E i \in DOMAIN code[b] :
                  /\ k = PlaceOf(code, b, i)
                  /\ m[k] = [id |-> code[b][i].id, line |-> code[b][i].line]
                  /\ m[k].id = code[b][i].id /\ m[k].line = code[b][i].line
                  /\ m[k] \in LocatedInst /\ m[k].line \in InstructionID
                  /\ code[b][i].id[1] = b /\ b \in Nat
    <2>10. PICK b \in DOMAIN code : \E i \in DOMAIN code[b] :
              k = PlaceOf(code, b, i)
      BY <1>4
    <2>1. PICK i \in DOMAIN code[b] :
              k = PlaceOf(code, b, i)
      BY <2>10
    <2>2. m[k] = [id |-> code[b][i].id, line |-> code[b][i].line]
      BY <1>3, <2>1
    <2>3. code[b][i].id \in Inst /\ code[b][i].line \in InstructionID /\ code[b][i].id[1] = b
      BY LocatedBlocks
    <2>4. m[k] \in LocatedInst /\ m[k].line \in InstructionID
      BY <2>2, <2>3, LineAssumption DEF LocatedInst, InstructionID
    <2>5. m[k].id = code[b][i].id /\ m[k].line = code[b][i].line /\ b \in Nat
      BY <1>1, <2>2
    <2> QED BY <2>1, <2>2, <2>3, <2>4, <2>5
  <1>6. Len(m) \in Nat /\ DOMAIN m = 1 .. Len(m) /\ m = [k \in 1 .. Len(m) |-> m[k]]
    BY <1>2
  <1>7. m \in Seq(LocatedInst)
    <2>1. \A k \in 1 .. Len(m) : m[k] \in LocatedInst
      BY <1>5
    <2>2. [k \in 1 .. Len(m) |-> m[k]] \in Seq(LocatedInst)
      BY <1>6, <2>1, IsASeq
    <2> QED BY <1>6, <2>2
  <1>8. FitsTables(m)
    BY <1>5, <1>6 DEF FitsTables
  <1>9. ASSUME NEW j \in 1 .. Len(m), NEW k \in 1 .. Len(m), m[j].id = m[k].id PROVE j = k
    <2>10. PICK b \in DOMAIN code : \E i \in DOMAIN code[b] :
              j = PlaceOf(code, b, i) /\ m[j].id = code[b][i].id /\ code[b][i].id[1] = b
      BY <1>5
    <2>1. PICK i \in DOMAIN code[b] :
              j = PlaceOf(code, b, i) /\ m[j].id = code[b][i].id /\ code[b][i].id[1] = b
      BY <2>10
    <2>20. PICK c \in DOMAIN code : \E h \in DOMAIN code[c] :
              k = PlaceOf(code, c, h) /\ m[k].id = code[c][h].id /\ code[c][h].id[1] = c
      BY <1>5
    <2>2. PICK h \in DOMAIN code[c] :
              k = PlaceOf(code, c, h) /\ m[k].id = code[c][h].id /\ code[c][h].id[1] = c
      BY <2>20
    <2>3. b = c
      BY <1>9, <2>1, <2>2
    <2>4. WellFormed(code[b]) /\ NoDbg(b)
      BY LinesWhenDone DEF LocateInv, LocInv, Blocks
    <2>5. i = h
      BY <1>9, <2>1, <2>2, <2>3, <2>4 DEF WellFormed, NoDbg
    <2> QED BY <2>1, <2>2, <2>3, <2>5
  <1>10. ASSUME NEW j \in 1 .. Len(m), NEW k \in 1 .. Len(m), m[j].line = m[k].line, m[j].line # 0
         PROVE  j = k
    <2>10. PICK b \in DOMAIN code : \E i \in DOMAIN code[b] :
              j = PlaceOf(code, b, i) /\ m[j].line = code[b][i].line /\ b \in Nat
      BY <1>5
    <2>1. PICK i \in DOMAIN code[b] :
              j = PlaceOf(code, b, i) /\ m[j].line = code[b][i].line /\ b \in Nat
      BY <2>10
    <2>20. PICK c \in DOMAIN code : \E h \in DOMAIN code[c] :
              k = PlaceOf(code, c, h) /\ m[k].line = code[c][h].line /\ c \in Nat
      BY <1>5
    <2>2. PICK h \in DOMAIN code[c] :
              k = PlaceOf(code, c, h) /\ m[k].line = code[c][h].line /\ c \in Nat
      BY <2>20
    <2>3. exact[functionOf[b]] /\ exact[functionOf[c]]
      BY <1>10, <2>1, <2>2, LinesWhenDone
    <2>4. code[b][i].line \in Nat
      BY LocatedBlocks, LineAssumption DEF InstructionID
    <2>5. ~(b < c) /\ ~(c < b)
      BY <1>10, <2>1, <2>2, <2>3, <2>4, LinesInOrder
    <2>6. b = c
      BY <2>1, <2>2, <2>5
    <2>11. i \in Nat /\ h \in Nat
      <3>1. i \in 1 .. Len(code[b]) /\ h \in 1 .. Len(code[b])
        <4>1. h \in DOMAIN code[b]
          BY <2>6
        <4> QED BY <1>1, <4>1, Typed
      <3> QED BY <3>1
    <2>12. Before(1, b) \in Nat
      BY <1>1, BeforeCounts, 1 \in Nat
    <2>7. PICK n \in Nat, x \in Nat, y \in Nat : n = Before(1, b) /\ x = i /\ y = h
      BY <2>11, <2>12
    <2>8. code[b][i].line = n + x /\ code[c][h].line = n + y
      BY <2>3, <2>6, <2>7, LinesWhenDone
    <2>9. x = y
      BY <1>10, <2>1, <2>2, <2>8
    <2> QED BY <2>1, <2>2, <2>6, <2>7, <2>9
  <1>11. ASSUME \A f \in DOMAIN exact : exact[f], NEW k \in 1 .. Len(m) PROVE m[k].line = k
    <2>10. PICK b \in DOMAIN code : \E i \in DOMAIN code[b] :
              k = PlaceOf(code, b, i) /\ m[k].line = code[b][i].line /\ b \in Nat
      BY <1>5
    <2>1. PICK i \in DOMAIN code[b] :
              k = PlaceOf(code, b, i) /\ m[k].line = code[b][i].line /\ b \in Nat
      BY <2>10
    <2>2. \A d \in DOMAIN code : /\ Locates(1, functionOf[d]) /\ exact[functionOf[d]]
                                 /\ 1 .. Len(Body(d)) = DOMAIN code[d]
      <3>1. DOMAIN exact = Functions
        BY <1>1, Typed DEF LocTyping, Functions
      <3> QED BY <1>11, <3>1, LinesWhenDone
    <2>3. {d \in DOMAIN code : d < b /\ Locates(1, functionOf[d])} = 1 .. b - 1
      <3>1. b <= Len(code) /\ Len(code) \in Nat
        BY <1>1, Typed
      <3> QED BY <1>1, <2>1, <2>2, <3>1
    <2>4. PlacesBefore(1, b) = PlacesUpTo(code, b - 1)
      <3>1. \A d \in 1 .. b - 1 : d \in DOMAIN code
        BY <2>3
      <3>2. \A d \in 1 .. b - 1 : {d} \X (1 .. Len(Body(d))) = {d} \X DOMAIN code[d]
        BY <2>2, <3>1
      <3> QED BY <2>3, <3>2 DEF PlacesBefore, PlacesUpTo
    <2>5. code[b][i].line = Before(1, b) + i
      BY <2>2, LinesWhenDone
    <2> QED BY <2>1, <2>4, <2>5 DEF PlaceOf, Before
  <1>12. \A b \in DOMAIN code : \A i \in DOMAIN code[b] :
             \E k \in 1 .. Len(m) : m[k].id = code[b][i].id /\ m[k].line = code[b][i].line
    <2> SUFFICES ASSUME NEW b \in DOMAIN code, NEW i \in DOMAIN code[b]
                 PROVE  \E k \in 1 .. Len(m) :
                           m[k].id = code[b][i].id /\ m[k].line = code[b][i].line
      OBVIOUS
    <2>1. PICK k \in 1 .. Len(m) : m[k] = [id |-> code[b][i].id, line |-> code[b][i].line]
      BY <1>3
    <2> QED BY <2>1
  <1>13. IsModule(m)
    BY <1>7, <1>9 DEF IsModule
  <1>14. DistinctLines(m)
    BY <1>10 DEF DistinctLines
  <1> QED BY <1>6, <1>8, <1>11, <1>12, <1>13, <1>14

--------------------------------------------------------------------------------
(* What llc writes. *)

AllSkippedFirst == \A P \in Programs : SkippedFirst(P)

\* The line a function starts at is that of the first of its instructions
\* (Debugify.cpp:94-101).
LEMMA FunctionLines ==
    ASSUME LocateInv, locPc = "done", NEW P \in Programs, BodyFrom(P)
    PROVE  /\ Len(subprogram) = Len(exact) /\ Len(exact) \in Nat
           /\ \A f \in 1 .. Len(exact) :
                 /\ subprogram[f] \in InstructionID
                 /\ exact[f] <=> subprogram[f] # 0
                 /\ exact[f] =>
                       LET b == SelectInSeq(functionOf, LAMBDA g : g = f)
                       IN  b \in DOMAIN code /\ 1 \in DOMAIN code[b] /\ code[b][1].line = subprogram[f]
  <1>1. LocTyping /\ Blocks /\ Ordered
    BY DEF LocateInv, LocInv
  <1>2. Len(exact) \in Nat /\ Functions = 1 .. Len(exact)
    BY <1>1, Typed DEF Functions
  <1>3. Len(subprogram) = Len(exact)
    <2>1. subprogram \in [1 .. Len(exact) -> Nat]
      BY <1>1, <1>2 DEF LocTyping
    <2>2. subprogram = [f \in 1 .. Len(exact) |-> subprogram[f]]
          /\ \A f \in 1 .. Len(exact) : subprogram[f] \in Nat
      BY <2>1
    <2>3. subprogram \in Seq(Nat)
      BY <1>2, <2>2, IsASeq
    <2>4. DOMAIN subprogram = 1 .. Len(exact) /\ DOMAIN subprogram = 1 .. Len(subprogram)
          /\ Len(subprogram) \in Nat
      BY <2>1, <2>3, LenProperties
    <2> QED BY <1>2, <2>4
  <1>4. ASSUME NEW f \in 1 .. Len(exact)
        PROVE  /\ subprogram[f] \in InstructionID
               /\ exact[f] <=> subprogram[f] # 0
               /\ exact[f] =>
                     LET b == SelectInSeq(functionOf, LAMBDA g : g = f)
                     IN  b \in DOMAIN code /\ 1 \in DOMAIN code[b] /\ code[b][1].line = subprogram[f]
    <2>1. f \in Functions
      BY <1>2
    <2>2. CASE ~exact[f]
      <3>1. subprogram[f] = 0
        BY <2>1, <2>2, NumbersFollow DEF LinesNumberProgram
      <3> QED BY <2>2, <3>1, LineAssumption DEF InstructionID
    <2>3. CASE exact[f]
      <3>1. PICK b : b = SelectInSeq(functionOf, LAMBDA g : g = f)
        OBVIOUS
      <3>2. subprogram[f] = code[b][1].line
        <4>1. subprogram[f] = code[SelectInSeq(functionOf, LAMBDA g : g = f)][1].line
          BY <2>1, <2>3, NumbersFollow DEF LinesNumberProgram
        <4> QED BY <3>1, <4>1
      <3>3. \E c \in DOMAIN code : functionOf[c] = f
        BY <1>1, <2>1, <2>3 DEF Ordered
      <3>4. b \in DOMAIN code /\ functionOf[b] = f
        BY <1>1, <2>1, <3>1, <3>3, FirstBlockOf
      <3>5. 1 \in DOMAIN code[b]
        BY <1>1, <3>4, Typed, Terminating DEF Blocks
      <3>6. code[b][1].line = Before(1, b) + 1
        BY <2>3, <3>4, <3>5, LinesWhenDone
      <3>7. Before(1, b) \in Nat
        BY <1>1, BeforeCounts, 1 \in Nat
      <3>8. code[b][1].line \in InstructionID
        BY <3>4, <3>5, LocatedBlocks
      <3> QED BY <2>3, <3>1, <3>2, <3>4, <3>5, <3>6, <3>7, <3>8
    <2> QED BY <2>2, <2>3
  <1> QED BY <1>2, <1>3, <1>4

\* The file is one at any time, and emission is within a function or between two.
Emitted ==
    /\ IsAsmFile(asm) /\ lastLoc \in InstructionID
    /\ emitFn \in 0 .. Len(exact) /\ (llcPc = "inside" => emitFn # 0)
    /\ llcPc \in {"between", "inside", "done"}

\* The lines of the file are owned by whom their .loc names.  Past the functions
\* without locations that have code, and only there, a .loc may be in force.
Owned ==
    /\ Filed(ir, asm, owner, lastLoc)
    /\ llcPc = "inside" => Belongs(ir, lastOwner, lastLoc)
    /\ lastLoc # 0 => \E f \in 1 .. emitFn : exact[f]

\* What the emission relies on: the located module.
Compiling(P) ==
    /\ LocateInv /\ locPc = "done" /\ BodyFrom(P)
    /\ functionOf = P.functionOf /\ exact = P.exact
    /\ ir = Instructions(code)

\* An empty file belongs to nobody.
LEMMA LlcStarts ==
    ASSUME LocTyping, LlcInit
    PROVE  Emitted /\ Owned
  <1>1. IsAsmFile(<<>>) /\ Len(<<>>) = 0 /\ 0 \in InstructionID
    BY LineAssumption, CostModelAssumption DEF IsAsmFile, InstructionID
  <1>2. <<>> \in Seq(Inst \cup {Nobody})
    OBVIOUS
  <1>3. GovernedBy(<<>>, 0, 0)
    BY DEF GovernedBy
  <1>4. 0 \in 0 .. Len(exact)
    BY Typed
  <1> QED BY <1>1, <1>2, <1>3, <1>4 DEF LlcInit, Emitted, Owned, Filed

\* A concatenation with one line is the file with the line behind it.
LEMMA OneMore ==
    ASSUME NEW S, NEW s \in Seq(S), NEW e \in S
    PROVE  /\ s \o <<e>> = Append(s, e)
           /\ s \o <<>> \o <<e>> = Append(s, e)
           /\ \A d \in S : s \o <<d>> \o <<e>> = Append(Append(s, d), e)
                           /\ s \o <<d, e>> = Append(Append(s, d), e)
  <1>1. \A d \in S : s \o <<d>> = Append(s, d) /\ Append(s, d) \in Seq(S)
    BY AppendIsConcat, AppendProperties
  <1>2. s \o <<>> = s
    BY ConcatEmptySeq
  <1>3. \A d \in S : <<d, e>> = <<d>> \o <<e>> /\ <<d>> \in Seq(S) /\ <<e>> \in Seq(S)
    OBVIOUS
  <1>4. \A d \in S : s \o (<<d>> \o <<e>>) = (s \o <<d>>) \o <<e>>
    BY <1>3, ConcatAssociative
  <1>5. \A d \in S : Append(s, d) \o <<e>> = Append(Append(s, d), e)
    BY <1>1, AppendIsConcat
  <1> QED BY <1>1, <1>2, <1>3, <1>4, <1>5

\* Every instruction of a block is one of the module's.
LEMMA InstructionKnown ==
    ASSUME NEW P \in Programs, Compiling(P), NEW b \in DOMAIN code, NEW i \in DOMAIN code[b]
    PROVE  /\ code[b][i].id \in Inst /\ code[b][i].line \in InstructionID
           /\ code[b][i].line # 0 => Belongs(ir, code[b][i].id, code[b][i].line)
  <1>1. code[b][i].id \in Inst /\ code[b][i].line \in InstructionID
    BY LocatedBlocks DEF Compiling
  <1>2. \E k \in 1 .. Len(ir) : ir[k].id = code[b][i].id /\ ir[k].line = code[b][i].line
    BY LocatedModule DEF Compiling
  <1> QED BY <1>1, <1>2 DEF Belongs

\* Whom the module's lines name is in the module.
LEMMA BelongsToSomebody ==
    ASSUME NEW m, IsModule(m), NEW x, NEW l, Belongs(m, x, l)
    PROVE  x \in Inst \cup {Nobody}
  <1>1. CASE l = 0
    BY <1>1 DEF Belongs
  <1>2. CASE l # 0
    <2>1. PICK k \in 1 .. Len(m) : m[k].id = x
      BY <1>2 DEF Belongs
    <2>2. m[k] \in LocatedInst
      BY <2>1, ElementOfSeq DEF IsModule
    <2> QED BY <2>1, <2>2 DEF LocatedInst
  <1> QED BY <1>1, <1>2

\* A function is begun with the .loc of its line, if it has one.  A function that has
\* none and has code comes before all that have (Llc: BeginEmission).
LEMMA BeginEmissionKeeps ==
    ASSUME NEW P \in Programs, Compiling(P), Emitted, BeginEmission, UNCHANGED <<ir, exact>>
    PROVE  Emitted' /\ (SkippedFirst(P) /\ Owned => Owned')
  <1>1. /\ Len(subprogram) = Len(exact)
        /\ \A f \in 1 .. Len(exact) :
              /\ subprogram[f] \in InstructionID
              /\ exact[f] <=> subprogram[f] # 0
              /\ exact[f] =>
                    LET b == SelectInSeq(functionOf, LAMBDA g : g = f)
                    IN  b \in DOMAIN code /\ 1 \in DOMAIN code[b] /\ code[b][1].line = subprogram[f]
    BY FunctionLines DEF Compiling
  <1>2. PICK n \in Nat : n = Len(exact)
    BY FunctionLines DEF Compiling
  <1>3. PICK f \in 1 .. n : f = emitFn + 1 /\ emitFn \in 0 .. n - 1 /\ emitFn' = f
    BY <1>1, <1>2 DEF BeginEmission, Emitted
  <1>4. llcPc' \in {"between", "inside"} /\ (llcPc' = "inside" => BlocksOf(f) # {})
    BY <1>3 DEF BeginEmission
  <1>5. emitFn' \in 0 .. Len(exact)' /\ emitFn' # 0 /\ \A g \in 1 .. emitFn : g \in 1 .. emitFn'
    BY <1>2, <1>3
  <1>6. CASE BlocksOf(f) = {} \/ subprogram[f] = 0
    <2>1. lastOwner' = Nobody /\ UNCHANGED <<asm, owner, lastLoc>>
      BY <1>3, <1>6 DEF BeginEmission
    <2>2. Emitted'
      BY <1>4, <1>5, <2>1 DEF Emitted
    <2>3. ASSUME SkippedFirst(P), Owned PROVE Owned'
      <3>1. Filed(ir, asm, owner, lastLoc)'
        BY <2>1, <2>3 DEF Owned
      <3>2. lastLoc' # 0 => \E g \in 1 .. emitFn' : exact'[g]
        BY <1>5, <2>1, <2>3 DEF Owned
      <3>3. ASSUME llcPc' = "inside", lastLoc # 0 PROVE FALSE
        <4>1. ~exact[f] /\ \E b \in DOMAIN code : functionOf[b] = f
          BY <1>1, <1>2, <1>4, <1>6, <3>3 DEF BlocksOf
        <4>2. PICK g \in 1 .. emitFn : exact[g]
          BY <2>3, <3>3 DEF Owned
        <4>3. DOMAIN exact = 1 .. n
          <5>1. exact \in Seq(BOOLEAN)
            BY DEF Compiling, LocateInv, LocInv, LocTyping
          <5> QED BY <1>2, <5>1
        <4>4. f \in DOMAIN exact /\ g \in DOMAIN exact /\ ~(f < g)
          BY <1>3, <4>3
        <4>5. DOMAIN code = DOMAIN P.code /\ functionOf = P.functionOf /\ exact = P.exact
          BY DEF Compiling, BodyFrom
        <4> QED BY <2>3, <4>1, <4>2, <4>4, <4>5 DEF SkippedFirst
      <3>4. llcPc' = "inside" => Belongs(ir, lastOwner, lastLoc)'
        BY <2>1, <3>3 DEF Belongs
      <3> QED BY <3>1, <3>2, <3>4 DEF Owned
    <2> QED BY <2>2, <2>3
  <1>7. CASE ~(BlocksOf(f) = {} \/ subprogram[f] = 0)
    <2>1. PICK l : l = subprogram[f]
      OBVIOUS
    <2>2. PICK b : b = SelectInSeq(functionOf, LAMBDA g : g = f)
      OBVIOUS
    <2>3. l \in InstructionID /\ l # 0 /\ exact[f]
      BY <1>1, <1>2, <1>7, <2>1
    <2>4. b \in DOMAIN code /\ 1 \in DOMAIN code[b] /\ code[b][1].line = l
      BY <1>1, <1>2, <2>1, <2>2, <2>3
    <2>5. /\ Len(asm) < MaxAsm /\ asm' = Append(asm, LocLine(l))
          /\ owner' = Append(owner, Nobody) /\ lastLoc' = l
      BY <1>3, <1>7, <2>1 DEF BeginEmission
    <2>6. lastOwner' = code[b][1].id
      BY <1>3, <1>7, <2>2 DEF BeginEmission
    <2>7. LocLine(l) \in AsmLine
      BY <2>3, AttributionAssumption DEF LocLine, AsmLine
    <2>8. Emitted'
      BY <1>4, <1>5, <2>3, <2>5, <2>7, LineAppended DEF Emitted
    <2>9. ASSUME Owned PROVE Owned'
      <3>1. Filed(ir, asm, owner, lastLoc)
        BY <2>9 DEF Owned
      <3>2. Filed(ir, Append(asm, LocLine(l)), Append(owner, Nobody), l)
        BY <2>3, <2>5, <3>1, LocFiled
      <3>3. Belongs(ir, code[b][1].id, l)
        BY <2>3, <2>4, InstructionKnown
      <3>4. f \in 1 .. emitFn' /\ exact'[f]
        BY <1>3, <2>3
      <3> QED BY <2>5, <2>6, <3>2, <3>3, <3>4 DEF Owned
    <2> QED BY <2>8, <2>9
  <1> QED BY <1>6, <1>7

\* What is emitted for an instruction of a located function goes under its own line
\* (Llc: EmitLocated).
LEMMA EmitLocatedKeeps ==
    ASSUME NEW P \in Programs, Compiling(P), Emitted, NEW op \in MachineOps,
           NEW b \in BlocksOf(emitFn), NEW i \in DOMAIN code[b],
           EmitLocated(code[b][i], op), UNCHANGED <<ir, exact>>
    PROVE  Emitted' /\ (Owned => Owned')
  <1>1. PICK l : l = code[b][i].line
    OBVIOUS
  <1>2. PICK x : x = code[b][i].id
    OBVIOUS
  <1>3. /\ llcPc = "inside" /\ Room /\ subprogram[emitFn] # 0
        /\ asm' = asm \o (IF l = lastLoc THEN <<>> ELSE <<LocLine(l)>>) \o <<OpLine(op)>>
        /\ owner' = owner \o [k \in DOMAIN (IF l = lastLoc THEN <<>> ELSE <<LocLine(l)>>) |-> Nobody]
                          \o <<x>>
        /\ lastLoc' = l /\ lastOwner' = x /\ UNCHANGED <<emitFn, llcPc>>
    BY <1>1, <1>2 DEF EmitLocated
  <1>4. emitFn \in 1 .. Len(exact) /\ exact[emitFn] /\ b \in DOMAIN code /\ functionOf[b] = emitFn
    <2>1. Len(exact) \in Nat /\ emitFn \in 0 .. Len(exact) /\ emitFn # 0
      BY <1>3, FunctionLines DEF Emitted, Compiling
    <2>2. emitFn \in 1 .. Len(exact)
      BY <2>1
    <2> QED BY <1>3, <2>2, FunctionLines DEF BlocksOf, Compiling
  <1>5. x \in Inst /\ l \in InstructionID /\ l # 0 /\ Belongs(ir, x, l)
    <2>1. x \in Inst /\ l \in InstructionID /\ (l # 0 => Belongs(ir, x, l))
      BY <1>1, <1>2, <1>4, InstructionKnown
    <2>2. l = Before(1, b) + i
      BY <1>1, <1>4, LinesWhenDone DEF Compiling
    <2>3. Before(1, b) \in Nat
      BY BeforeCounts, 1 \in Nat DEF Compiling, LocateInv, LocInv
    <2>4. i \in Nat /\ i >= 1
      <3>1. i \in 1 .. Len(code[b])
        BY <1>4, LinesWhenDone DEF Compiling
      <3> QED BY <3>1
    <2> QED BY <2>1, <2>2, <2>3, <2>4
  <1>6. LocLine(l) \in AsmLine /\ OpLine(op) \in AsmLine /\ op \in Token /\ op # ".loc"
    BY <1>5, AttributionAssumption DEF LocLine, OpLine, AsmLine
  <1>7. IsAsmFile(asm) /\ asm \in Seq(AsmLine) /\ Len(asm) \in Nat /\ Len(asm) + 2 <= MaxAsm /\ MaxAsm \in Nat
    BY <1>3, CostModelAssumption DEF Emitted, Room, IsAsmFile
  <1>8. CASE l = lastLoc
    <2>1. asm' = Append(asm, OpLine(op))
      <3>1. asm' = asm \o <<>> \o <<OpLine(op)>>
        BY <1>3, <1>8
      <3> QED BY <1>6, <1>7, <3>1, OneMore
    <2>2. Len(asm) < MaxAsm
      BY <1>7
    <2>3. Emitted'
      <3>1. IsAsmFile(asm')
        BY <1>6, <1>7, <2>1, <2>2, LineAppended
      <3> QED BY <1>3, <1>5, <3>1 DEF Emitted
    <2>4. ASSUME Owned PROVE Owned'
      <3>1. Filed(ir, asm, owner, l) /\ owner \in Seq(Inst \cup {Nobody})
        BY <1>8, <2>4 DEF Owned, Filed
      <3>2. owner' = Append(owner, x)
        <4>1. owner' = owner \o [k \in DOMAIN <<>> |-> Nobody] \o <<x>>
          BY <1>3, <1>8
        <4>2. [k \in DOMAIN <<>> |-> Nobody] = <<>>
          OBVIOUS
        <4>3. x \in Inst \cup {Nobody}
          BY <1>5
        <4> QED BY <3>1, <4>1, <4>2, <4>3, OneMore
      <3>3. Filed(ir, Append(asm, OpLine(op)), Append(owner, x), l)
        BY <1>5, <1>6, <2>2, <3>1, OpFiled
      <3>4. emitFn \in 1 .. emitFn' /\ exact'[emitFn]
        BY <1>3, <1>4
      <3> QED BY <1>3, <1>5, <2>1, <3>2, <3>3, <3>4 DEF Owned
    <2> QED BY <2>3, <2>4
  <1>9. CASE l # lastLoc
    <2>1. asm' = Append(Append(asm, LocLine(l)), OpLine(op))
      <3>1. asm' = asm \o <<LocLine(l)>> \o <<OpLine(op)>>
        BY <1>3, <1>9
      <3> QED BY <1>6, <1>7, <3>1, OneMore
    <2>2. Len(asm) < MaxAsm /\ Len(asm) + 1 < MaxAsm
      BY <1>7
    <2>3. /\ IsAsmFile(Append(asm, LocLine(l))) /\ Len(Append(asm, LocLine(l))) = Len(asm) + 1
          /\ Len(Append(asm, LocLine(l))) < MaxAsm
      BY <1>6, <1>7, <2>2, LineAppended
    <2>4. Emitted'
      <3>1. IsAsmFile(asm')
        BY <1>6, <2>1, <2>3, LineAppended
      <3> QED BY <1>3, <1>5, <3>1 DEF Emitted
    <2>5. ASSUME Owned PROVE Owned'
      <3>1. Filed(ir, asm, owner, lastLoc) /\ owner \in Seq(Inst \cup {Nobody})
        BY <2>5 DEF Owned, Filed
      <3>2. owner' = Append(Append(owner, Nobody), x)
        <4>1. owner' = owner \o [k \in DOMAIN <<LocLine(l)>> |-> Nobody] \o <<x>>
          BY <1>3, <1>9
        <4>2. [k \in DOMAIN <<LocLine(l)>> |-> Nobody] = <<Nobody>>
          OBVIOUS
        <4>3. x \in Inst \cup {Nobody} /\ Nobody \in Inst \cup {Nobody}
          BY <1>5
        <4> QED BY <3>1, <4>1, <4>2, <4>3, OneMore
      <3>3. Filed(ir, Append(asm, LocLine(l)), Append(owner, Nobody), l)
        BY <1>5, <2>2, <3>1, LocFiled
      <3>4. Filed(ir, Append(Append(asm, LocLine(l)), OpLine(op)), Append(Append(owner, Nobody), x), l)
        BY <1>5, <1>6, <2>3, <3>3, OpFiled
      <3>5. emitFn \in 1 .. emitFn' /\ exact'[emitFn]
        BY <1>3, <1>4
      <3> QED BY <1>3, <1>5, <2>1, <3>2, <3>4, <3>5 DEF Owned
    <2> QED BY <2>4, <2>5
  <1> QED BY <1>8, <1>9

\* What has no location extends the last .loc (Llc: EmitUnlocated).
LEMMA EmitUnlocatedKeeps ==
    ASSUME NEW P \in Programs, Compiling(P), Emitted, NEW op \in MachineOps,
           EmitUnlocated(op), UNCHANGED <<ir, exact>>
    PROVE  Emitted' /\ (Owned => Owned')
  <1>1. OpLine(op) \in AsmLine /\ op \in Token /\ op # ".loc"
    BY AttributionAssumption DEF OpLine, AsmLine
  <1>2. IsAsmFile(asm) /\ Len(asm) \in Nat /\ Len(asm) + 2 <= MaxAsm /\ MaxAsm \in Nat
    BY CostModelAssumption DEF Emitted, EmitUnlocated, Room, IsAsmFile
  <1>3. Len(asm) < MaxAsm
    BY <1>2
  <1>4. /\ asm' = Append(asm, OpLine(op)) /\ owner' = Append(owner, lastOwner) /\ llcPc = "inside"
        /\ UNCHANGED <<emitFn, lastLoc, lastOwner, llcPc>>
    BY DEF EmitUnlocated
  <1>5. Emitted'
    BY <1>1, <1>2, <1>3, <1>4, LineAppended DEF Emitted
  <1>6. ASSUME Owned PROVE Owned'
    <2>1. Filed(ir, asm, owner, lastLoc) /\ Belongs(ir, lastOwner, lastLoc)
      BY <1>4, <1>6 DEF Owned
    <2>2. lastOwner \in Inst \cup {Nobody}
      BY <2>1, LocatedModule, BelongsToSomebody DEF Compiling
    <2>3. Filed(ir, Append(asm, OpLine(op)), Append(owner, lastOwner), lastLoc)
      BY <1>1, <1>3, <2>1, <2>2, OpFiled
    <2> QED BY <1>4, <1>6, <2>1, <2>3 DEF Owned
  <1> QED BY <1>5, <1>6

\* What is said to have no location is nobody's (Llc: EmitLineZero).
LEMMA EmitLineZeroKeeps ==
    ASSUME NEW P \in Programs, Compiling(P), Emitted, NEW op \in MachineOps,
           EmitLineZero(op), UNCHANGED <<ir, exact>>
    PROVE  Emitted' /\ (Owned => Owned')
  <1>1. OpLine(op) \in AsmLine /\ op \in Token /\ op # ".loc" /\ LocLine(0) \in AsmLine /\ 0 \in InstructionID
    BY AttributionAssumption, LineAssumption DEF OpLine, LocLine, AsmLine, InstructionID
  <1>2. IsAsmFile(asm) /\ asm \in Seq(AsmLine) /\ Len(asm) \in Nat /\ Len(asm) + 2 <= MaxAsm /\ MaxAsm \in Nat
    BY CostModelAssumption DEF Emitted, EmitLineZero, Room, IsAsmFile
  <1>3. Len(asm) < MaxAsm /\ Len(asm) + 1 < MaxAsm
    BY <1>2
  <1>4. /\ IsAsmFile(Append(asm, LocLine(0))) /\ Len(Append(asm, LocLine(0))) = Len(asm) + 1
        /\ Len(Append(asm, LocLine(0))) < MaxAsm
    BY <1>1, <1>2, <1>3, LineAppended
  <1>5. /\ asm' = asm \o <<LocLine(0), OpLine(op)>> /\ owner' = owner \o <<Nobody, Nobody>>
        /\ lastLoc' = 0 /\ lastOwner' = Nobody /\ UNCHANGED <<emitFn, llcPc>>
    BY DEF EmitLineZero
  <1>6. asm' = Append(Append(asm, LocLine(0)), OpLine(op))
    BY <1>1, <1>2, <1>5, OneMore
  <1>7. Emitted'
    BY <1>1, <1>4, <1>5, <1>6, LineAppended DEF Emitted
  <1>8. ASSUME Owned PROVE Owned'
    <2>1. Filed(ir, asm, owner, lastLoc) /\ owner \in Seq(Inst \cup {Nobody})
      BY <1>8 DEF Owned, Filed
    <2>2. owner' = Append(Append(owner, Nobody), Nobody)
      BY <1>5, <2>1, OneMore
    <2>3. Filed(ir, Append(asm, LocLine(0)), Append(owner, Nobody), 0)
      BY <1>1, <1>3, <2>1, LocFiled
    <2>4. Belongs(ir, Nobody, 0) /\ Nobody \in Inst \cup {Nobody}
      BY DEF Belongs
    <2>5. Filed(ir, Append(Append(asm, LocLine(0)), OpLine(op)), Append(Append(owner, Nobody), Nobody), 0)
      BY <1>1, <1>4, <2>3, <2>4, OpFiled
    <2> QED BY <1>5, <1>6, <2>2, <2>4, <2>5 DEF Owned
  <1> QED BY <1>7, <1>8

\* Whatever llc does next, in whatever order.
LEMMA LlcStep ==
    ASSUME NEW P \in Programs, Compiling(P), Emitted, LlcNext, UNCHANGED <<ir, exact>>
    PROVE  Emitted' /\ (SkippedFirst(P) /\ Owned => Owned')
  <1>1. CASE BeginEmission
    BY <1>1, BeginEmissionKeeps
  <1>2. CASE \E op \in MachineOps : \E b \in BlocksOf(emitFn) : \E i \in DOMAIN code[b] :
                EmitLocated(code[b][i], op)
    BY <1>2, EmitLocatedKeeps
  <1>3. CASE \E op \in MachineOps : EmitUnlocated(op)
    BY <1>3, EmitUnlocatedKeeps
  <1>4. CASE \E op \in MachineOps : EmitLineZero(op)
    BY <1>4, EmitLineZeroKeeps
  <1>5. CASE EndEmission
    BY <1>5 DEF EndEmission, Emitted, Owned
  <1>6. CASE LlcExit
    BY <1>6 DEF LlcExit, Emitted, Owned
  <1> QED BY <1>1, <1>2, <1>3, <1>4, <1>5, <1>6 DEF LlcNext

--------------------------------------------------------------------------------
(* What the mapping makes of the file. *)

\* An instruction is mapped to the priced lines it owns: the line it holds is the one
\* that governs them (MappingExtractor.cpp:52-70).
LEMMA OwnersMatch ==
    ASSUME MapInv, mapPc = "done", NEW loc, Filed(ir, asm, owner, loc), DistinctLines(ir),
           NEW x \in Inst
    PROVE  IRAsmMap[x] = OwnAsm(x)
  <1>1. IsAsmFile(asm) /\ IsModule(ir) /\ IRAsmMap[x] \subseteq PricedInstruction
    BY MappedPriced DEF MapInv, MapTypeOK
  <1>2. PICK n \in Nat : n = Len(asm) /\ DOMAIN asm = 1 .. n
    BY <1>1 DEF IsAsmFile
  <1>3. \A p \in 1 .. n :
            IF IsLocDirective(asm[p]) THEN owner[p] = Nobody
            ELSE \E l \in InstructionID : GovernedBy(asm, p, l) /\ Belongs(ir, owner[p], l)
    BY <1>2 DEF Filed
  <1>4. \A a \in AssemblyInstruction :
            a \in IRAsmMap[x] <=>
                \E i \in InstructionID \ {0} :
                    HoldsLine(ir, Len(ir), x, i) /\ a \in GatheredBy(asm, n, i)
    BY <1>2, MappingFollows DEF MappingExact
  <1>5. ASSUME NEW a \in IRAsmMap[x] PROVE a \in OwnAsm(x)
    <2>1. a \in PricedInstruction /\ a \in AssemblyInstruction
      BY <1>1 DEF PricedInstruction
    <2>2. PICK i \in InstructionID \ {0} :
              HoldsLine(ir, Len(ir), x, i) /\ a \in GatheredBy(asm, n, i)
      BY <1>4, <2>1
    <2>3. /\ a.at \in 1 .. n /\ ~IsLocDirective(asm[a.at]) /\ a.name = asm[a.at].head
          /\ GovernedBy(asm, a.at, i)
      BY <2>2 DEF GatheredBy, IsKnownInstruction
    <2>4. PICK l \in InstructionID : GovernedBy(asm, a.at, l) /\ Belongs(ir, owner[a.at], l)
      BY <1>3, <2>3
    <2>5. l = i /\ l # 0
      <3>1. a.at \in 0 .. Len(asm)
        BY <1>2, <2>3
      <3> QED BY <1>1, <2>2, <2>3, <2>4, <3>1, GovernedByUnique
    <2>6. PICK k \in 1 .. Len(ir) : ir[k].id = owner[a.at] /\ ir[k].line = i
      BY <2>4, <2>5 DEF Belongs
    <2>7. PICK j \in 1 .. Len(ir) : ir[j].id = x /\ ir[j].line = i
      BY <2>2 DEF HoldsLine
    <2>8. j = k
      BY <2>5, <2>6, <2>7 DEF DistinctLines
    <2> QED BY <1>2, <2>1, <2>3, <2>6, <2>7, <2>8 DEF OwnAsm
  <1>6. ASSUME NEW a \in OwnAsm(x) PROVE a \in IRAsmMap[x]
    <2>1. a \in PricedInstruction /\ a \in AssemblyInstruction /\ HasInst(a.name)
      BY <1>6 DEF OwnAsm, PricedInstruction
    <2>2. a.at \in 1 .. n /\ a.name = asm[a.at].head /\ owner[a.at] = x
      BY <1>2, <1>6 DEF OwnAsm
    <2>3. ~IsLocDirective(asm[a.at])
      BY <1>3, <2>2, AttributionAssumption
    <2>4. PICK l \in InstructionID : GovernedBy(asm, a.at, l) /\ Belongs(ir, x, l)
      BY <1>3, <2>2, <2>3
    <2>5. l # 0
      BY <2>4, AttributionAssumption DEF Belongs
    <2>6. PICK k \in 1 .. Len(ir) : ir[k].id = x /\ ir[k].line = l
      BY <2>4, <2>5 DEF Belongs
    <2>7. \A j \in (k + 1) .. Len(ir) : ir[j].line # l
      <3> SUFFICES ASSUME NEW j \in (k + 1) .. Len(ir), ir[j].line = l PROVE FALSE
        OBVIOUS
      <3>1. Len(ir) \in Nat
        BY <1>1 DEF IsModule
      <3>2. j \in 1 .. Len(ir) /\ j # k
        BY <3>1
      <3> QED BY <2>5, <2>6, <3>2 DEF DistinctLines
    <2>8. HoldsLine(ir, Len(ir), x, l)
      BY <2>6, <2>7 DEF HoldsLine
    <2>9. a \in GatheredBy(asm, n, l)
      BY <2>1, <2>2, <2>3, <2>4 DEF GatheredBy, IsKnownInstruction
    <2> QED BY <1>4, <2>1, <2>4, <2>5, <2>8, <2>9
  <1> QED BY <1>5, <1>6

\* What is mapped to an instruction is finite, and nothing if the module has it not.
LEMMA MappedFinite ==
    ASSUME MapInv, mapPc = "done", NEW x \in Inst
    PROVE  /\ IsFiniteSet(IRAsmMap[x]) /\ IRAsmMap[x] \subseteq PricedInstruction
           /\ (\A k \in 1 .. Len(ir) : ir[k].id # x) => IRAsmMap[x] = {}
  <1>1. IsAsmFile(asm) /\ IRAsmMap[x] \subseteq PricedInstruction
    BY MappedPriced DEF MapInv, MapTypeOK
  <1>2. PICK n \in Nat : n = Len(asm)
    BY <1>1 DEF IsAsmFile
  <1>3. \A a \in AssemblyInstruction :
            a \in IRAsmMap[x] <=>
                \E i \in InstructionID \ {0} :
                    HoldsLine(ir, Len(ir), x, i) /\ a \in GatheredBy(asm, n, i)
    BY <1>2, MappingFollows DEF MappingExact
  <1>4. IRAsmMap[x] \subseteq AssemblyInstruction
    BY <1>1 DEF PricedInstruction
  <1> DEFINE Read == {[name |-> asm[p].head, at |-> p] : p \in 1 .. n}
  <1>5. IsFiniteSet(Read)
    <2>1. IsFiniteSet(1 .. n)
      BY FS_Interval, 1 \in Int, n \in Int
    <2> DEFINE read == [p \in 1 .. n |-> [name |-> asm[p].head, at |-> p]]
    <2>2. read \in Surjection(1 .. n, Read)
      BY DEF Surjection
    <2> HIDE DEF read, Read
    <2> QED BY <2>1, <2>2, FS_Surjection
  <1>6. IRAsmMap[x] \subseteq Read
    <2> SUFFICES ASSUME NEW a \in IRAsmMap[x] PROVE a \in Read
      OBVIOUS
    <2>1. a \in AssemblyInstruction /\ a.at \in 1 .. n /\ a.name = asm[a.at].head
      BY <1>3, <1>4 DEF GatheredBy
    <2>2. a = [name |-> asm[a.at].head, at |-> a.at]
      BY <2>1 DEF AssemblyInstruction
    <2> QED BY <2>1, <2>2
  <1>7. IsFiniteSet(IRAsmMap[x])
    BY <1>5, <1>6, FS_Subset
  <1>8. (\A k \in 1 .. Len(ir) : ir[k].id # x) => IRAsmMap[x] = {}
    BY <1>3, <1>4 DEF HoldsLine
  <1> QED BY <1>1, <1>7, <1>8

--------------------------------------------------------------------------------
(* Sums of costs. *)

\* The costs of two sets without a common instruction add up.
LEMMA CostsAddUp ==
    ASSUME NEW S, S \subseteq PricedInstruction,
           NEW T, T \subseteq PricedInstruction, IsFiniteSet(T), S \cap T = {}
    PROVE  /\ TotalCost(S) \in Int /\ TotalCost(T) \in Int
           /\ TotalCost(S \cup T) = TotalCost(S) + TotalCost(T)
  <1>1. \A X : X \subseteq PricedInstruction => TotalCost(X) \in Int
    BY TotalCostAssumption
  <1> DEFINE Off(U) == TotalCost(S \cup U) # TotalCost(S) + TotalCost(U)
             Bad == {n \in Nat : \E U \in SUBSET T : Cardinality(U) = n /\ Off(U)}
  <1>2. \A U \in SUBSET T : IsFiniteSet(U) /\ Cardinality(U) \in Nat
    BY FS_Subset, FS_CardinalityType
  <1>3. ASSUME Off(T) PROVE FALSE
    <2>1. Bad # {}
      <3>1. T \in SUBSET T /\ Cardinality(T) \in Nat
        BY <1>2
      <3> HIDE DEF Off
      <3> QED BY <1>3, <3>1
    <2>2. PICK m \in Bad : \A k \in Bad : m <= k
      <3>1. Bad \subseteq Nat
        OBVIOUS
      <3> HIDE DEF Bad
      <3> QED BY <2>1, <3>1, LeastNatural
    <2>3. PICK U \in SUBSET T : Cardinality(U) = m /\ Off(U)
      <3> HIDE DEF Off
      <3> QED BY <2>2
    <2>4. U # {}
      <3>1. TotalCost(S) + 0 = TotalCost(S)
        BY <1>1
      <3>2. U = {} => S \cup U = S
        OBVIOUS
      <3> QED BY <2>3, <3>1, <3>2, TotalCostAssumption
    <2>5. PICK a \in U : TRUE
      BY <2>4
    <2>6. PICK V : V = U \ {a}
      OBVIOUS
    <2>7. V \in SUBSET T /\ Cardinality(V) = m - 1 /\ m - 1 \in Nat /\ m \in Nat
      <3>1. IsFiniteSet(U) /\ Cardinality(V) = Cardinality(U) - 1
        BY <1>2, <2>5, <2>6, FS_RemoveElement
      <3>2. Cardinality(V) \in Nat /\ V \in SUBSET T
        BY <1>2, <2>6
      <3> QED BY <1>2, <2>3, <3>1, <3>2
    <2>8. ~Off(V)
      <3>1. m - 1 \notin Bad
        <4>1. ~(m <= m - 1)
          BY <2>7
        <4> HIDE DEF Bad
        <4> QED BY <2>2, <4>1
      <3> HIDE DEF Off
      <3> QED BY <2>7, <3>1
    <2>9. TotalCost(U) = TotalCost(V) + Get(a.name) /\ TotalCost(V) \in Int
      <3>1. U = V \cup {a} /\ V \in SUBSET PricedInstruction /\ a \in PricedInstruction \ V
        BY <2>5, <2>6
      <3> QED BY <3>1, TotalCostAssumption
    <2>10. TotalCost(S \cup U) = TotalCost(S \cup V) + Get(a.name) /\ TotalCost(S \cup V) \in Int
      <3>1. /\ S \cup U = (S \cup V) \cup {a} /\ S \cup V \in SUBSET PricedInstruction
            /\ a \in PricedInstruction \ (S \cup V)
        BY <2>5, <2>6
      <3> QED BY <3>1, TotalCostAssumption
    <2>11. Get(a.name) \in Int
      <3>1. a \in PricedInstruction
        BY <2>5
      <3>2. Get(a.name) \in CostTy
        BY <3>1, CostModelAssumption DEF PricedInstruction, HasInst, Get
      <3> QED BY <3>2, CostModelAssumption DEF CostTy
    <2>12. TotalCost(S) \in Int
      BY <1>1
    <2>13. TotalCost(S \cup V) = TotalCost(S) + TotalCost(V)
      BY <2>8
    <2>14. TotalCost(S \cup U) = TotalCost(S) + TotalCost(U)
      BY <2>9, <2>10, <2>11, <2>12, <2>13
    <2> QED BY <2>3, <2>14
  <1> QED BY <1>1, <1>3

\* So do those of any number of sets, none of which has an instruction of another.
LEMMA SumOfCosts ==
    ASSUME NEW R, IsFiniteSet(R), NEW sets, NEW fun,
           \A k \in R : /\ sets[k] \subseteq PricedInstruction /\ IsFiniteSet(sets[k])
                        /\ fun[k] = TotalCost(sets[k]),
           \A j, k \in R : j # k => sets[j] \cap sets[k] = {}
    PROVE  SumFunctionOnSet(fun, R) = TotalCost(UNION {sets[k] : k \in R})
  <1>1. \A k \in R : fun[k] \in Int
    BY TotalCostAssumption
  <1>2. PICK it \in [SUBSET R -> Int] :
            /\ it[{}] = 0
            /\ \A T \in SUBSET R : T # {} => \E x \in T : it[T] = fun[x] + it[T \ {x}]
            /\ SumFunctionOnSet(fun, R) = it[R]
    <2>1. PICK it : IsSum(it, fun, R) /\ SumFunctionOnSet(fun, R) = it[R]
      BY <1>1, SumRecursion
    <2> QED BY <2>1 DEF IsSum
  <1> DEFINE All(T) == UNION {sets[k] : k \in T}
             Off(T) == it[T] # TotalCost(All(T))
             Bad == {n \in Nat : \E T \in SUBSET R : Cardinality(T) = n /\ Off(T)}
  <1>3. \A T \in SUBSET R : IsFiniteSet(T) /\ Cardinality(T) \in Nat
    BY FS_Subset, FS_CardinalityType
  <1>4. ASSUME Off(R) PROVE FALSE
    <2>1. Bad # {}
      <3>1. R \in SUBSET R /\ Cardinality(R) \in Nat
        BY <1>3
      <3> HIDE DEF Off
      <3> QED BY <1>4, <3>1
    <2>2. PICK m \in Bad : \A k \in Bad : m <= k
      <3>1. Bad \subseteq Nat
        OBVIOUS
      <3> HIDE DEF Bad
      <3> QED BY <2>1, <3>1, LeastNatural
    <2>3. PICK T \in SUBSET R : Cardinality(T) = m /\ Off(T)
      <3> HIDE DEF Off
      <3> QED BY <2>2
    <2>4. T # {}
      <3>1. All({}) = {}
        OBVIOUS
      <3> QED BY <1>2, <2>3, <3>1, TotalCostAssumption
    <2>5. PICK x \in T : it[T] = fun[x] + it[T \ {x}]
      BY <1>2, <2>4
    <2>6. PICK V : V = T \ {x}
      OBVIOUS
    <2>7. V \in SUBSET R /\ Cardinality(V) = m - 1 /\ m - 1 \in Nat /\ m \in Nat
      <3>1. IsFiniteSet(T) /\ Cardinality(V) = Cardinality(T) - 1
        BY <1>3, <2>5, <2>6, FS_RemoveElement
      <3>2. Cardinality(V) \in Nat /\ V \in SUBSET R
        BY <1>3, <2>6
      <3> QED BY <1>3, <2>3, <3>1, <3>2
    <2>8. ~Off(V)
      <3>1. m - 1 \notin Bad
        <4>1. ~(m <= m - 1)
          BY <2>7
        <4> HIDE DEF Bad
        <4> QED BY <2>2, <4>1
      <3> HIDE DEF Off
      <3> QED BY <2>7, <3>1
    <2>9. TotalCost(All(V) \cup sets[x]) = TotalCost(All(V)) + TotalCost(sets[x])
          /\ TotalCost(All(V)) \in Int /\ TotalCost(sets[x]) \in Int
      <3>1. All(V) \subseteq PricedInstruction
        BY <2>7
      <3>2. All(V) \cap sets[x] = {}
        BY <2>5, <2>6, <2>7
      <3>3. sets[x] \subseteq PricedInstruction /\ IsFiniteSet(sets[x])
        BY <2>5
      <3> HIDE DEF All
      <3> QED BY <3>1, <3>2, <3>3, CostsAddUp
    <2>10. All(T) = All(V) \cup sets[x]
      BY <2>5, <2>6
    <2>11. it[V] = TotalCost(All(V)) /\ fun[x] = TotalCost(sets[x])
      BY <2>5, <2>8
    <2>12. it[T] = TotalCost(All(T))
      <3> HIDE DEF All
      <3> QED BY <2>5, <2>6, <2>9, <2>10, <2>11
    <2> QED BY <2>3, <2>12
  <1> QED BY <1>2, <1>4

--------------------------------------------------------------------------------
(* The ticks. *)

TickCalls == [id : (DOMAIN code) \X {0}, kind : {"tick"}, line : {0}]

\* The blocks that have their tick.
HasTick(b) == b <= tickBB /\ b \in DOMAIN blockCostMap

\* A block ends with its terminator, and a tick is right before that; it is the only
\* instruction whose id is none of the input.
Shaped ==
    /\ code \in Seq(Seq(Instruction \cup SyntheticValue \cup TickCalls))
    /\ \A b \in DOMAIN code :
          /\ code[b] # <<>> /\ code[b][Len(code[b])].kind = "term"
          /\ \A i \in DOMAIN code[b] :
                IF code[b][i].kind = "tick"
                THEN i + 1 = Len(code[b]) /\ code[b][i].id = <<b, 0>> /\ HasTick(b)
                ELSE code[b][i].id[2] # 0
          /\ HasTick(b) => \E i \in DOMAIN code[b] : code[b][i].kind = "tick"

\* Only the function inserted has the name, and only the ticks call it.
Billing ==
    /\ \E S : names \in Seq(S)
    /\ \A x \in DOMAIN calls : calls[x].callee \in DOMAIN names
    /\ tickPc \in {"rename", "create", "annotate", "done"}
    /\ tickPc \in {"rename", "create"} =>
          tickBB = 0 /\ \A x \in DOMAIN calls : x[2] # 0
    /\ tickPc = "create" => \A f \in DOMAIN names : names[f] # "tick"
    /\ tickPc \in {"annotate", "done"} =>
          /\ \A f \in DOMAIN names : names[f] = "tick" <=> f = tickFunc
          /\ tickFunc \in DOMAIN names
          /\ \A x \in DOMAIN calls : x[2] # 0 => calls[x].callee # tickFunc
          /\ \A b \in DOMAIN code : HasTick(b) =>
                /\ <<b, 0>> \in DOMAIN calls
                /\ calls[<<b, 0>>].callee = tickFunc /\ calls[<<b, 0>>].arg = blockCostMap[b]
    /\ tickBB \in 0 .. Len(code) /\ (tickPc = "done" => tickBB = Len(code))

\* Located blocks are blocks without a tick.
LEMMA ShapedAtFirst ==
    ASSUME LocateInv, locPc = "done", NEW P \in Programs, BodyFrom(P), tickBB = 0
    PROVE  Shaped
  <1>1. LocTyping /\ Blocks
    BY DEF LocateInv, LocInv
  <1>2. code \in Seq(Seq(Instruction \cup SyntheticValue \cup TickCalls))
    <2>1. DOMAIN code = 1 .. Len(code) /\ Len(code) \in Nat
          /\ \A b \in DOMAIN code : code[b] \in Seq(Instruction \cup SyntheticValue)
      BY <1>1, Typed
    <2>2. \A b \in 1 .. Len(code) : code[b] \in Seq(Instruction \cup SyntheticValue \cup TickCalls)
      <3> HIDE DEF Instruction, SyntheticValue, TickCalls
      <3>1. \A S, T : Seq(S) \subseteq Seq(S \cup T)
        OBVIOUS
      <3> QED BY <2>1, <3>1
    <2>3. code = [b \in 1 .. Len(code) |-> code[b]]
      BY <1>1, <2>1 DEF LocTyping
    <2> HIDE DEF Instruction, SyntheticValue, TickCalls
    <2>4. [b \in 1 .. Len(code) |-> code[b]] \in Seq(Seq(Instruction \cup SyntheticValue \cup TickCalls))
      BY <2>1, <2>2, IsASeq
    <2> QED BY <2>3, <2>4
  <1>3. ASSUME NEW b \in DOMAIN code
        PROVE  /\ code[b] # <<>> /\ code[b][Len(code[b])].kind = "term" /\ ~HasTick(b)
    <2>1. WellFormed(code[b]) /\ DOMAIN code[b] = 1 .. Len(code[b]) /\ Len(code[b]) \in Nat /\ b >= 1
      BY <1>1, Typed DEF Blocks
    <2>2. code[b] # <<>>
      BY <2>1 DEF WellFormed
    <2>3. Len(code[b]) >= 1
      BY <1>1, <2>1, Typed, Terminating
    <2>4. Len(code[b]) \in DOMAIN code[b]
      BY <2>1, <2>3
    <2>5. code[b][Len(code[b])].kind = "term"
      BY <2>1, <2>4 DEF WellFormed
    <2>6. b \in Nat /\ b >= 1
      BY <1>1, Typed
    <2> QED BY <2>2, <2>5, <2>6 DEF HasTick
  <1>4. ASSUME NEW b \in DOMAIN code, NEW i \in DOMAIN code[b]
        PROVE  code[b][i].kind # "tick" /\ code[b][i].id[2] # 0
    <2>1. code[b][i] \in Instruction \cup SyntheticValue
      <3>1. code[b] \in Seq(Instruction \cup SyntheticValue) /\ i \in 1 .. Len(code[b])
        BY <1>1, Typed
      <3> QED BY <3>1, ElementOfSeq
    <2>2. code[b][i].kind \in Kind
      BY <2>1, Fields
    <2>3. code[b][i].kind # "tick"
      BY <2>2 DEF Kind, ValueKind
    <2> QED BY <2>3, LocatedBlocks
  <1> QED BY <1>2, <1>3, <1>4 DEF Shaped

\* The name "tick" is given up by whoever had it (CoFloCoWrapper.cpp:30-33).
LEMMA RenameBills ==
    ASSUME Billing, RenameExistingTick
    PROVE  Billing'
  <1>1. PICK n \in Nat : n = Len(names) /\ DOMAIN names = 1 .. n
    BY DEF Billing
  <1>2. names' = [f \in 1 .. n |-> IF names[f] = "tick" THEN "__original_tick_function" ELSE names[f]]
    BY <1>1 DEF RenameExistingTick
  <1>3. \E S : names' \in Seq(S)
    <2> DEFINE S == {IF names[f] = "tick" THEN "__original_tick_function" ELSE names[f] : f \in 1 .. n}
    <2>1. \A f \in 1 .. n :
              (IF names[f] = "tick" THEN "__original_tick_function" ELSE names[f]) \in S
      OBVIOUS
    <2> HIDE DEF S
    <2>2. names' \in Seq(S)
      BY <1>2, <2>1, IsASeq
    <2> QED BY <2>2
  <1>4. DOMAIN names' = DOMAIN names /\ \A f \in DOMAIN names' : names'[f] # "tick"
    BY <1>1, <1>2
  <1> QED BY <1>3, <1>4 DEF RenameExistingTick, Billing

\* So the function inserted is the only one that has it (CoFloCoWrapper.cpp:34-36).
LEMMA CreateBills ==
    ASSUME Billing, CreateTick, DOMAIN code \subseteq Nat \ {0}, UNCHANGED blockCostMap
    PROVE  Billing'
  <1>1. /\ tickBB = 0
        /\ \A f \in DOMAIN names : names[f] # "tick"
        /\ \A x \in DOMAIN calls : x[2] # 0 /\ calls[x].callee \in DOMAIN names
    BY DEF Billing, CreateTick
  <1> PICK S : names \in Seq(S)
    BY DEF Billing
  <1>2. PICK n \in Nat : n = Len(names) /\ DOMAIN names = 1 .. n
    OBVIOUS
  <1>3. names' = Append(names, "tick")
    <2>1. ~Contains(names, "tick")
      BY <1>1, <1>2 DEF Contains
    <2> QED BY <2>1 DEF CreateTick
  <1>4. /\ \E T : names' \in Seq(T)
        /\ Len(names') = n + 1 /\ names'[n + 1] = "tick"
        /\ \A f \in 1 .. n : names'[f] = names[f]
    <2>1. names \in Seq(S \cup {"tick"}) /\ "tick" \in S \cup {"tick"}
      OBVIOUS
    <2>2. /\ names' \in Seq(S \cup {"tick"})
          /\ Len(names') = n + 1 /\ names'[n + 1] = "tick"
          /\ \A f \in 1 .. n : names'[f] = names[f]
      BY <1>2, <1>3, <2>1, AppendProperties
    <2> QED BY <2>2
  <1>5. DOMAIN names' = 1 .. n + 1
    BY <1>4
  <1>6. tickFunc' = n + 1
    <2> DEFINE Of == {f \in 1 .. Len(names') : names'[f] = "tick"}
    <2>1. Of = {n + 1}
      <3>1. \A f \in 1 .. n + 1 : f = n + 1 \/ f \in 1 .. n
        OBVIOUS
      <3>2. \A f \in 1 .. n : names'[f] # "tick"
        BY <1>1, <1>2, <1>4
      <3> QED BY <1>4, <3>1, <3>2
    <2>2. tickFunc' = Min(Of)
      <3>1. tickFunc' = SelectInSeq(names', LAMBDA m : m = "tick")
        BY DEF CreateTick
      <3>2. Of # {}
        BY <2>1
      <3> QED BY <3>1, <3>2 DEF SelectInSeq
    <2>3. Min({n + 1}) = n + 1
      BY DEF Min
    <2> QED BY <2>1, <2>2, <2>3
  <1>7. \A f \in DOMAIN names' : names'[f] = "tick" <=> f = tickFunc'
    <2>1. \A f \in 1 .. n + 1 : f = n + 1 \/ f \in 1 .. n
      OBVIOUS
    <2>2. \A f \in 1 .. n : names'[f] # "tick" /\ f # n + 1
      BY <1>1, <1>2, <1>4
    <2> QED BY <1>4, <1>5, <1>6, <2>1, <2>2
  <1>8. \A x \in DOMAIN calls : calls[x].callee \in DOMAIN names' /\ calls[x].callee # tickFunc'
    <2>1. \A f \in 1 .. n : f \in 1 .. n + 1 /\ f # n + 1
      OBVIOUS
    <2> QED BY <1>1, <1>2, <1>5, <1>6, <2>1
  <1>9. \A b \in DOMAIN code' : ~HasTick(b)'
    BY <1>1 DEF HasTick, CreateTick
  <1>10. tickFunc' \in DOMAIN names'
    BY <1>5, <1>6
  <1>11. /\ UNCHANGED <<code, calls, tickBB>> /\ tickPc' = "annotate" /\ tickBB \in 0 .. Len(code)
    BY DEF CreateTick, Billing
  <1> QED BY <1>4, <1>7, <1>8, <1>9, <1>10, <1>11 DEF Billing

\* A block that has a cost gets its tick before its terminator, any other is left alone
\* (CoFloCoWrapper.cpp:38-47).
LEMMA AnnotateKeeps ==
    ASSUME Shaped, Billing, AnnotateBlock, UNCHANGED blockCostMap
    PROVE  Shaped' /\ Billing'
  <1> DEFINE Insts == Instruction \cup SyntheticValue \cup TickCalls
  <1>1. PICK n \in Nat : n = Len(code) /\ DOMAIN code = 1 .. n /\ tickBB \in 0 .. n
    <2>1. code \in Seq(Seq(Insts)) /\ tickBB \in 0 .. Len(code)
      BY DEF Shaped, Billing
    <2> HIDE DEF Insts
    <2> QED BY <2>1
  <1>2. PICK b \in 1 .. n : b = tickBB + 1 /\ tickBB' = b
    BY <1>1 DEF AnnotateBlock
  <1>3. /\ tickPc = "annotate" /\ UNCHANGED <<names, tickFunc, tickPc>>
        /\ IF b \in DOMAIN blockCostMap
           THEN /\ code' = [code EXCEPT ![b] = InsertAt(@, Len(@), TickCall(b))]
                /\ calls' = [x \in DOMAIN calls \cup {<<b, 0>>} |->
                                IF x = <<b, 0>> THEN [callee |-> tickFunc, arg |-> blockCostMap[b]]
                                ELSE calls[x]]
           ELSE UNCHANGED <<code, calls>>
    BY <1>2 DEF AnnotateBlock
  <1>4. \A c \in 1 .. n : HasTick(c)' <=> HasTick(c) \/ (c = b /\ b \in DOMAIN blockCostMap)
    BY <1>1, <1>2 DEF HasTick
  <1>5. ~HasTick(b)
    BY <1>1, <1>2 DEF HasTick
  <1>6. \A c \in 1 .. n : \A i \in DOMAIN code[c] :
            IF code[c][i].kind = "tick"
            THEN i + 1 = Len(code[c]) /\ code[c][i].id = <<c, 0>> /\ HasTick(c)
            ELSE code[c][i].id[2] # 0
    BY <1>1 DEF Shaped
  <1>7. \A c \in 1 .. n :
            /\ code[c] \in Seq(Insts) /\ code[c] # <<>> /\ code[c][Len(code[c])].kind = "term"
            /\ HasTick(c) => \E i \in DOMAIN code[c] : code[c][i].kind = "tick"
    <2>1. \A c \in 1 .. n : code[c] \in Seq(Insts)
      <3>1. code \in Seq(Seq(Insts))
        BY DEF Shaped
      <3> HIDE DEF Insts
      <3> QED BY <1>1, <3>1, ElementOfSeq
    <2> QED BY <1>1, <2>1 DEF Shaped
  <1>8. /\ \A x \in DOMAIN calls : calls[x].callee \in DOMAIN names
        /\ \A f \in DOMAIN names : names[f] = "tick" <=> f = tickFunc
        /\ tickFunc \in DOMAIN names /\ \E S : names \in Seq(S)
        /\ \A x \in DOMAIN calls : x[2] # 0 => calls[x].callee # tickFunc
        /\ \A c \in 1 .. n : HasTick(c) =>
              /\ <<c, 0>> \in DOMAIN calls
              /\ calls[<<c, 0>>].callee = tickFunc /\ calls[<<c, 0>>].arg = blockCostMap[c]
    BY <1>1, <1>3 DEF Billing
  <1>9. CASE b \notin DOMAIN blockCostMap
    <2>1. UNCHANGED <<code, calls>> /\ \A c \in 1 .. n : HasTick(c)' <=> HasTick(c)
      BY <1>3, <1>4, <1>9
    <2>2. Shaped'
      <3>1. Insts' = Insts /\ code \in Seq(Seq(Insts))
        BY <2>1 DEF Instruction, SyntheticValue, TickCalls, Shaped
      <3> HIDE DEF Insts
      <3>2. code' \in Seq(Seq(Insts'))
        BY <2>1, <3>1
      <3> USE DEF Insts
      <3> QED BY <1>1, <1>6, <1>7, <2>1, <3>2 DEF Shaped
    <2>3. Billing'
      BY <1>1, <1>2, <1>3, <1>8, <2>1 DEF Billing
    <2> QED BY <2>2, <2>3
  <1>10. CASE b \in DOMAIN blockCostMap
    <2>1. PICK s \in Seq(Insts) : s = code[b]
      BY <1>7
    <2>2. PICK l \in Nat : l = Len(s) /\ l >= 1 /\ DOMAIN s = 1 .. l
      <3>1. s # <<>>
        BY <1>7, <2>1
      <3> HIDE DEF Insts
      <3>2. Len(s) # 0
        BY <3>1, EmptySeq
      <3> QED BY <3>2, LenProperties
    <2>3. TickCall(b) \in Insts
      BY <1>1 DEF TickCall, TickCalls
    <2>4. PICK t \in Seq(Insts) : /\ t = InsertAt(s, l, TickCall(b)) /\ Widened(s, t, l)
                                  /\ t[l] = TickCall(b)
      <3> HIDE DEF Insts
      <3>1. l \in 1 .. Len(s) + 1
        BY <2>2
      <3> QED BY <2>3, <3>1, Inserted
    <2>5. /\ Len(t) = l + 1 /\ t[l + 1] = s[l] /\ \A i \in 1 .. l : i < l => t[i] = s[i]
          /\ DOMAIN t = 1 .. l + 1
      <3>1. /\ Len(t) = l + 1 /\ \A i \in 1 .. l : i < l => t[i] = s[i]
            /\ \A i \in 1 .. l : i >= l => t[i + 1] = s[i]
        BY <2>2, <2>4 DEF Widened
      <3>2. l \in 1 .. l /\ l >= l
        BY <2>2
      <3> HIDE DEF Insts
      <3>3. DOMAIN t = 1 .. Len(t)
        BY LenProperties
      <3> QED BY <3>1, <3>2, <3>3
    <2>6. /\ code' = [code EXCEPT ![b] = t]
          /\ calls' = [x \in DOMAIN calls \cup {<<b, 0>>} |->
                          IF x = <<b, 0>> THEN [callee |-> tickFunc, arg |-> blockCostMap[b]]
                          ELSE calls[x]]
      BY <1>3, <1>10, <2>1, <2>2, <2>4
    <2>7. /\ DOMAIN code' = 1 .. n /\ code'[b] = t
          /\ \A c \in 1 .. n : c # b => code'[c] = code[c]
      BY <1>1, <2>6
    <2>8. code' \in Seq(Seq(Insts)) /\ Len(code') = n
      <3>1. code \in Seq(Seq(Insts))
        BY DEF Shaped
      <3> HIDE DEF Insts
      <3>2. code' \in Seq(Seq(Insts))
        BY <1>1, <2>6, <3>1
      <3>3. Len(code') = n
        BY <2>7, <3>2
      <3> QED BY <3>2, <3>3
    <2>9. Insts' = Insts
      BY <1>1, <2>7 DEF Instruction, SyntheticValue, TickCalls
    <2>10. ASSUME NEW i \in 1 .. l + 1
           PROVE  IF t[i].kind = "tick"
                  THEN i + 1 = l + 1 /\ t[i].id = <<b, 0>>
                  ELSE t[i].id[2] # 0
      <3>1. CASE i = l
        <4>1. t[i] = [id |-> <<b, 0>>, kind |-> "tick", line |-> 0]
          BY <2>4, <3>1 DEF TickCall
        <4> QED BY <3>1, <4>1
      <3>2. CASE i # l
        <4>1. PICK j \in 1 .. l : t[i] = s[j]
          BY <2>2, <2>5, <3>2
        <4>2. j \in DOMAIN code[b]
          BY <2>1, <2>2
        <4> QED BY <1>5, <1>6, <2>1, <4>1, <4>2
      <3> QED BY <3>1, <3>2
    <2>11. ASSUME NEW c \in 1 .. n
           PROVE  /\ code'[c] # <<>> /\ code'[c][Len(code'[c])].kind = "term"
                  /\ \A i \in DOMAIN code'[c] :
                        IF code'[c][i].kind = "tick"
                        THEN i + 1 = Len(code'[c]) /\ code'[c][i].id = <<c, 0>> /\ HasTick(c)'
                        ELSE code'[c][i].id[2] # 0
                  /\ HasTick(c)' => \E i \in DOMAIN code'[c] : code'[c][i].kind = "tick"
      <3>1. CASE c # b
        <4>1. code'[c] = code[c] /\ (HasTick(c)' <=> HasTick(c))
          BY <1>4, <2>7, <3>1
        <4>2. \A i \in DOMAIN code[c] :
                  IF code[c][i].kind = "tick"
                  THEN i + 1 = Len(code[c]) /\ code[c][i].id = <<c, 0>> /\ HasTick(c)
                  ELSE code[c][i].id[2] # 0
          BY <1>6
        <4>3. /\ code[c] # <<>> /\ code[c][Len(code[c])].kind = "term"
              /\ HasTick(c) => \E i \in DOMAIN code[c] : code[c][i].kind = "tick"
          BY <1>7
        <4> HIDE DEF HasTick
        <4> QED BY <4>1, <4>2, <4>3
      <3>2. CASE c = b
        <4>1. t # <<>>
          BY <2>2, <2>5
        <4>2. t[Len(t)].kind = "term"
          BY <1>7, <2>1, <2>2, <2>5
        <4>3. l \in DOMAIN t /\ t[l].kind = "tick"
          BY <2>2, <2>4, <2>5 DEF TickCall
        <4>4. HasTick(b)'
          BY <1>4, <1>10
        <4>5. \A i \in DOMAIN t : IF t[i].kind = "tick"
                                  THEN i + 1 = Len(t) /\ t[i].id = <<b, 0>>
                                  ELSE t[i].id[2] # 0
          BY <2>5, <2>10
        <4> QED BY <2>7, <3>2, <4>1, <4>2, <4>3, <4>4, <4>5
      <3> QED BY <3>1, <3>2
    <2>12. Shaped'
      BY <2>7, <2>8, <2>9, <2>11 DEF Shaped
    <2>13. /\ DOMAIN calls' = DOMAIN calls \cup {<<b, 0>>}
           /\ calls'[<<b, 0>>].callee = tickFunc /\ calls'[<<b, 0>>].arg = blockCostMap[b]
           /\ \A x \in DOMAIN calls : x # <<b, 0>> => calls'[x] = calls[x]
      BY <2>6
    <2>14. \A x \in DOMAIN calls' : calls'[x].callee \in DOMAIN names
      BY <1>8, <2>13
    <2>15. \A x \in DOMAIN calls' : x[2] # 0 => calls'[x].callee # tickFunc
      <3>1. <<b, 0>>[2] = 0
        OBVIOUS
      <3> QED BY <1>8, <2>13, <3>1
    <2>16. \A c \in 1 .. n : HasTick(c)' =>
              /\ <<c, 0>> \in DOMAIN calls'
              /\ calls'[<<c, 0>>].callee = tickFunc /\ calls'[<<c, 0>>].arg = blockCostMap[c]
      <3>1. \A c : c # b => <<c, 0>> # <<b, 0>>
        OBVIOUS
      <3> QED BY <1>4, <1>8, <2>13, <3>1
    <2>17. Billing'
      BY <1>2, <1>3, <1>8, <2>7, <2>8, <2>14, <2>15, <2>16 DEF Billing
    <2> QED BY <2>12, <2>17
  <1> QED BY <1>9, <1>10

\* What the ticks of a block are worth, when all blocks have been annotated.
LEMMA TickIsBilled ==
    ASSUME Shaped, Billing, tickPc = "done", NEW b \in DOMAIN code,
           \A c \in DOMAIN blockCostMap : blockCostMap[c] \in Int
    PROVE  Billed(b) = GetBlockCost(b)
  <1>1. DOMAIN code = 1 .. Len(code) /\ Len(code) \in Nat /\ tickBB = Len(code)
    <2>1. \E S : code \in Seq(S)
      BY DEF Shaped
    <2> QED BY <2>1 DEF Billing
  <1>2. HasTick(b) <=> b \in DOMAIN blockCostMap
    BY <1>1 DEF HasTick
  <1> DEFINE ticks == {i \in DOMAIN code[b] : /\ code[b][i].id \in DOMAIN calls
                                              /\ names[calls[code[b][i].id].callee] = "tick"}
             arg(i) == calls[code[b][i].id].arg
             turn(it, s) == IF s = {} THEN 0
                            ELSE LET x == CHOOSE i \in s : TRUE IN arg(x) + it[s \ {x}]
             it == CHOOSE it : it = [s \in SUBSET ticks |-> turn(it, s)]
  <1>3. Billed(b) = it[ticks]
    BY DEF Billed, MapThenSumSet, MapThenFoldSet
  <1>4. \A i \in DOMAIN code[b] :
            i \in ticks <=> code[b][i].kind = "tick"
    <2> SUFFICES ASSUME NEW i \in DOMAIN code[b]
                 PROVE  i \in ticks <=> code[b][i].kind = "tick"
      OBVIOUS
    <2>1. CASE code[b][i].kind = "tick"
      <3>1. code[b][i].id = <<b, 0>> /\ HasTick(b)
        BY <2>1 DEF Shaped
      <3>2. /\ <<b, 0>> \in DOMAIN calls /\ calls[<<b, 0>>].callee = tickFunc
            /\ names[tickFunc] = "tick"
        BY <3>1 DEF Billing
      <3> QED BY <2>1, <3>1, <3>2
    <2>2. CASE code[b][i].kind # "tick"
      <3>1. code[b][i].id[2] # 0
        BY <2>2 DEF Shaped
      <3>2. \A x \in DOMAIN calls : x[2] # 0 => names[calls[x].callee] # "tick"
        BY DEF Billing
      <3> QED BY <2>2, <3>1, <3>2
    <2> QED BY <2>1, <2>2
  <1>5. CASE b \notin DOMAIN blockCostMap
    <2>1. ticks = {}
      BY <1>2, <1>4, <1>5 DEF Shaped
    <2>2. [s \in SUBSET ticks |-> 0] = [s \in SUBSET ticks |-> turn([u \in SUBSET ticks |-> 0], s)]
      BY <2>1
    <2>3. it = [s \in SUBSET ticks |-> turn(it, s)]
      BY <2>2
    <2> HIDE DEF it, ticks
    <2>4. it[{}] = 0
      BY <2>1, <2>3
    <2> QED BY <1>3, <1>5, <2>1, <2>4 DEF GetBlockCost
  <1>6. CASE b \in DOMAIN blockCostMap
    <2>1. PICK i \in DOMAIN code[b] : code[b][i].kind = "tick"
      BY <1>2, <1>6 DEF Shaped
    <2>2. DOMAIN code[b] \subseteq Nat /\ Len(code[b]) \in Nat
      <3>1. \E S : code[b] \in Seq(S)
        BY DEF Shaped
      <3> QED BY <3>1
    <2>3. ticks = {i}
      <3>1. \A j \in DOMAIN code[b] : code[b][j].kind = "tick" => j + 1 = Len(code[b])
        BY DEF Shaped
      <3>2. \A j \in DOMAIN code[b] : code[b][j].kind = "tick" => j = i
        BY <2>1, <2>2, <3>1
      <3>3. ticks \subseteq DOMAIN code[b]
        OBVIOUS
      <3> HIDE DEF ticks
      <3> QED BY <1>4, <2>1, <3>2, <3>3
    <2>4. arg(i) = blockCostMap[b] /\ blockCostMap[b] \in Int
      <3>1. code[b][i].id = <<b, 0>> /\ HasTick(b)
        BY <2>1 DEF Shaped
      <3> QED BY <1>6, <3>1 DEF Billing
    <2> DEFINE g == [s \in SUBSET ticks |-> IF s = {} THEN 0 ELSE arg(i)]
    <2> HIDE DEF ticks, arg
    <2>5. \A s \in SUBSET ticks : s = {} \/ s = {i}
      BY <2>3
    <2>6. g = [s \in SUBSET ticks |-> turn(g, s)]
      <3>1. \A s \in SUBSET ticks : g[s] = turn(g, s)
        <4> SUFFICES ASSUME NEW s \in SUBSET ticks, s # {} PROVE g[s] = turn(g, s)
          OBVIOUS
        <4>1. s = {i} /\ (CHOOSE j \in s : TRUE) = i /\ s \ {i} = {} /\ {} \in SUBSET ticks
          BY <2>5
        <4>2. arg(i) + 0 = arg(i)
          BY <2>4
        <4> QED BY <4>1, <4>2
      <3> QED BY <3>1
    <2>7. it = [s \in SUBSET ticks |-> turn(it, s)]
      BY <2>6
    <2> HIDE DEF it
    <2>8. it[{}] = 0
      BY <2>7
    <2>9. it[{i}] = arg(i) + it[{}]
      <3>1. {i} \in SUBSET ticks /\ {i} # {} /\ (CHOOSE j \in {i} : TRUE) = i /\ {i} \ {i} = {}
        BY <2>3
      <3> QED BY <2>7, <3>1
    <2>10. it[ticks] = blockCostMap[b]
      BY <2>3, <2>4, <2>8, <2>9
    <2> QED BY <1>3, <1>6, <2>10 DEF GetBlockCost
  <1> QED BY <1>5, <1>6

--------------------------------------------------------------------------------
(* The inductive invariant of the whole: one component after another. *)

\* What has not begun is as it was.
Sequenced ==
    /\ locPc # "done" => LlcInit
    /\ llcPc # "done" => MapStart
    /\ mapPc # "done" => CalcStart
    /\ calcPc # "done" => TickInit

\* The module explored that this one was.
From(P) ==
    /\ functionOf = P.functionOf /\ exact = P.exact /\ DOMAIN code = DOMAIN P.code
    /\ tickBB = 0 => BodyFrom(P)
    /\ tickPc = "rename" => names = P.names /\ calls = P.calls

\* Until the first block is annotated, the module is the located one.
BeforeTicks == tickBB = 0 => LocateInv /\ ir = Instructions(code)

\* What the located module is to those who read it.
ModuleFits == locPc = "done" => IsModule(ir) /\ FitsTables(ir) /\ DistinctLines(ir) /\ Shaped

AttributionInv ==
    /\ Sequenced
    /\ \E P \in Programs : From(P)
    /\ BeforeTicks
    /\ ModuleFits
    /\ Emitted
    /\ AllSkippedFirst => Owned
    /\ llcPc = "done" => MapInv
    /\ mapPc = "done" => CalcInv
    /\ Billing

\* A component that runs is not done, and is all that runs; each stands still when it
\* is done.
LEMMA OneAtATime ==
    /\ LocateNext => locPc # "done" /\ UNCHANGED <<functionOf, exact>>
    /\ LlcNext => llcPc # "done"
    /\ MapNext => mapPc # "done" /\ UNCHANGED <<asm, ir>>
    /\ CalcNext => calcPc = "visit" /\ UNCHANGED <<ir, IRAsmMap>>
  <1>1. LocateNext => locPc # "done" /\ UNCHANGED <<functionOf, exact>>
    BY DEF LocateNext, StripSymbols, EnterDebugify, ApplyDebugifyMetadata, SkipFunction,
           BeginFunction, AttachLocations, SkipVoid, InsertDbgValue, EndBlock, EndFunction,
           TrackCounts, EraseIntrinsic, EraseInNextBlock, Located, program
  <1>2. LlcNext => llcPc # "done"
    BY DEF LlcNext, BeginEmission, EmitLocated, EmitUnlocated, EmitLineZero, EndEmission, LlcExit
  <1>3. MapNext => mapPc # "done" /\ UNCHANGED <<asm, ir>>
    BY DEF MapNext, LocDirective, KnownInstruction, OtherLine, EndOfFile, IndexInstruction,
           StartJoin, Join, Return
  <1>4. CalcNext => calcPc = "visit" /\ UNCHANGED <<ir, IRAsmMap>>
    BY DEF CalcNext, VisitInstruction, AddAsmCost, UnknownOpcode, Constructed
  <1> QED BY <1>1, <1>2, <1>3, <1>4

\* Who is done has all before it done.
LEMMA InOrder ==
    ASSUME Sequenced
    PROVE  /\ tickBB # 0 \/ tickPc # "rename" => calcPc = "done"
           /\ calcPc # "visit" => mapPc = "done"
           /\ mapPc # "scan" => llcPc = "done"
           /\ llcPc # "between" => locPc = "done"
  BY DEF Sequenced, TickInit, CalcStart, MapStart, LlcInit

\* The located module fits before the first tick, and its calls are the input's.
LEMMA FitsAtFirst ==
    /\ (\E P \in Programs : From(P)) /\ BeforeTicks /\ tickBB = 0 => ModuleFits
    /\ (\E P \in Programs : From(P)) /\ TickInit /\ LocTyping => Billing
  <1>1. ASSUME NEW P \in Programs, From(P), BeforeTicks, tickBB = 0, locPc = "done"
        PROVE  IsModule(ir) /\ FitsTables(ir) /\ DistinctLines(ir) /\ Shaped
    <2>1. LocateInv /\ ir = Instructions(code) /\ BodyFrom(P)
      BY <1>1 DEF BeforeTicks, From
    <2>2. Shaped
      BY <1>1, <2>1, ShapedAtFirst
    <2> QED BY <1>1, <2>1, <2>2, LocatedModule
  <1>2. ASSUME NEW P \in Programs, From(P), TickInit, LocTyping
        PROVE  Billing
    <2>1. names = P.names /\ calls = P.calls /\ tickFunc = 0 /\ tickBB = 0 /\ tickPc = "rename"
      BY <1>2 DEF TickInit, From
    <2>2. P.names \in Seq(STRING)
      BY AttributionAssumption
    <2>3. \A x \in DOMAIN P.calls : x[2] # 0 /\ P.calls[x].callee \in DOMAIN P.names
      BY AttributionAssumption
    <2>4. 0 \in 0 .. Len(code)
      BY <1>2, Typed
    <2> QED BY <2>1, <2>2, <2>3, <2>4 DEF Billing
  <1> QED BY <1>1, <1>2 DEF ModuleFits

LEMMA FitsAtNext ==
    /\ ((\E P \in Programs : From(P)) /\ BeforeTicks /\ tickBB = 0 => ModuleFits)'
    /\ ((\E P \in Programs : From(P)) /\ TickInit /\ LocTyping => Billing)'
  BY FitsAtFirst, PTL

LEMMA BlocksTyped == LocTyping => DOMAIN functionOf = DOMAIN code
  BY Typed

LEMMA BlocksTypedNext == (LocTyping => DOMAIN functionOf = DOMAIN code)'
  BY BlocksTyped, PTL

LEMMA NothingEmitted == LocTyping /\ LlcInit => Emitted /\ Owned
  BY LlcStarts

LEMMA NothingEmittedNext == (LocTyping /\ LlcInit => Emitted /\ Owned)'
  BY NothingEmitted, PTL

\* Nothing has been done at first.
LEMMA AttributionStarts == Init => AttributionInv
  <1> SUFFICES ASSUME Init PROVE AttributionInv
    OBVIOUS
  <1>1. PICK P \in Programs : /\ code = P.code /\ functionOf = P.functionOf /\ exact = P.exact
                              /\ names = P.names /\ calls = P.calls
    BY DEF Init
  <1>2. LocateInv /\ LocTyping /\ locPc = "strip" /\ ir = Instructions(code)
    BY LocateStarts DEF Init, LocateInit, LocateInv, LocInv
  <1>3. BodyFrom(P)
    BY <1>1 DEF BodyFrom, SameBody
  <1>4. Sequenced /\ llcPc = "between" /\ mapPc = "scan"
    BY DEF Init, Sequenced, LlcInit, MapStart, CalcStart, TickInit
  <1>5. From(P) /\ BeforeTicks
    BY <1>1, <1>2, <1>3 DEF From, BeforeTicks
  <1>6. Billing
    BY <1>2, <1>5, FitsAtFirst DEF Init
  <1>7. Emitted /\ Owned
    BY <1>2, LlcStarts DEF Init
  <1> QED BY <1>2, <1>4, <1>5, <1>6, <1>7 DEF AttributionInv, ModuleFits

\* While the module is located, nothing else has begun; its bodies stay
\* (gpscat-cost.cpp:53-58).
LEMMA LocateKeeps == AttributionInv /\ Locate => AttributionInv'
  <1> SUFFICES ASSUME AttributionInv, Locate PROVE AttributionInv'
    OBVIOUS
  <1>1. /\ locPc # "done" /\ UNCHANGED <<functionOf, exact>>
        /\ ir' = Instructions(code')
        /\ UNCHANGED <<asm, emitVars, extractVars, IRAsmMap, costVars, tickVars>>
    BY OneAtATime DEF Locate
  <1>2. LlcInit /\ MapStart /\ CalcStart /\ TickInit
    BY <1>1 DEF AttributionInv, Sequenced, LlcInit, MapStart, CalcStart
  <1>3. LlcInit' /\ MapStart' /\ CalcStart' /\ TickInit'
    BY <1>1, <1>2 DEF LlcInit, MapStart, CalcStart, TickInit,
                      emitVars, extractVars, scanVars, costVars, tickVars
  <1>4. LocateInv /\ LocateInv' /\ BodiesKept
    BY <1>2, LocateStep DEF AttributionInv, BeforeTicks, TickInit, Locate
  <1>5. DOMAIN code' = DOMAIN code
    <2>1. DOMAIN functionOf = DOMAIN code
      BY <1>4, Typed DEF LocateInv, LocInv
    <2> QED BY <1>1, <1>4, <2>1, BlocksTypedNext DEF LocateInv, LocInv
  <1>6. PICK P \in Programs : From(P)
    BY DEF AttributionInv
  <1>7. From(P)'
    <2>1. BodyFrom(P)
      BY <1>2, <1>6 DEF From, TickInit
    <2>2. ASSUME NEW b \in DOMAIN code PROVE SameBody(P.code[b], code'[b])
      <3>1. SameBody(P.code[b], code[b])
        BY <2>1 DEF BodyFrom
      <3>2. /\ Len(WithoutDbg(code'[b])) = Len(WithoutDbg(code[b]))
            /\ \A i \in DOMAIN WithoutDbg(code[b]) :
                  /\ WithoutDbg(code'[b])[i].id = WithoutDbg(code[b])[i].id
                  /\ WithoutDbg(code'[b])[i].kind = WithoutDbg(code[b])[i].kind
        BY <1>4 DEF BodiesKept, Body
      <3>3. DOMAIN WithoutDbg(code[b]) = 1 .. Len(WithoutDbg(code[b]))
        BY <1>4, Typed, BodyInOrder DEF LocateInv, LocInv
      <3>4. \A i \in 1 .. Len(WithoutDbg(P.code[b])) : i \in DOMAIN WithoutDbg(code[b])
        BY <3>1, <3>3 DEF SameBody
      <3> QED BY <3>1, <3>2, <3>4 DEF SameBody
    <2>3. BodyFrom(P)'
      BY <1>5, <2>1, <2>2 DEF BodyFrom
    <2> QED BY <1>1, <1>5, <1>6, <2>3 DEF From, tickVars
  <1>8. BeforeTicks'
    BY <1>1, <1>4 DEF BeforeTicks
  <1>9. ModuleFits' /\ Billing'
    <2>1. tickBB' = 0 /\ LocTyping'
      BY <1>3, <1>4 DEF TickInit, LocateInv, LocInv
    <2> QED BY <1>3, <1>7, <1>8, <2>1, FitsAtNext
  <1>10. Emitted' /\ Owned'
    <2>1. LocTyping'
      BY <1>4 DEF LocateInv, LocInv
    <2> QED BY <1>3, <2>1, NothingEmittedNext
  <1>11. llcPc' # "done" /\ mapPc' # "done"
    BY <1>3 DEF LlcInit, MapStart
  <1>12. Sequenced'
    BY <1>3 DEF Sequenced
  <1> QED BY <1>7, <1>8, <1>9, <1>10, <1>11, <1>12 DEF AttributionInv

\* The module stays as it is from its last line number to the first tick.
LEMMA ModuleStays ==
    ASSUME AttributionInv, UNCHANGED <<locateVars, code, ir>>,
           tickBB' = 0 => tickBB = 0 /\ (tickPc' = "rename" => tickPc = "rename" /\ UNCHANGED <<names, calls>>),
           tickPc' = "rename" => tickBB' = 0
    PROVE  (\E P \in Programs : From(P)') /\ BeforeTicks'
  <1>1. PICK P \in Programs : From(P)
    BY DEF AttributionInv
  <1>2. From(P)'
    BY <1>1 DEF From, BodyFrom, locateVars
  <1>3. BeforeTicks'
    <2>1. UNCHANGED locVars
      BY DEF locateVars, locVars
    <2> QED BY <2>1, LocateStutters DEF AttributionInv, BeforeTicks
  <1> QED BY <1>2, <1>3

\* llc writes the file, of the located module; the extractor then finds a file and a
\* module it is made for (gpscat-cost.cpp:61-73).
LEMMA CompileKeeps == AttributionInv /\ Compile => AttributionInv'
  <1> SUFFICES ASSUME AttributionInv, Compile PROVE AttributionInv'
    OBVIOUS
  <1>1. /\ locPc = "done" /\ llcPc # "done" /\ LlcNext
        /\ UNCHANGED <<locateVars, moduleVars, extractVars, IRAsmMap, costVars, tickVars>>
    BY OneAtATime DEF Compile
  <1>2. MapStart /\ CalcStart /\ TickInit
    BY <1>1 DEF AttributionInv, Sequenced, MapStart, CalcStart
  <1>3. MapStart' /\ CalcStart' /\ TickInit'
    BY <1>1, <1>2 DEF MapStart, CalcStart, TickInit, extractVars, scanVars, costVars, tickVars
  <1>4. Sequenced'
    BY <1>1, <1>3 DEF Sequenced, locateVars
  <1>5. UNCHANGED <<locateVars, code, ir>> /\ UNCHANGED tickVars
    BY <1>1 DEF moduleVars
  <1>6. (\E P \in Programs : From(P)') /\ BeforeTicks'
    BY <1>2, <1>3, <1>5, ModuleStays DEF TickInit, tickVars
  <1>7. ModuleFits' /\ Billing'
    <2>1. tickBB' = 0
      BY <1>3 DEF TickInit
    <2>2. LocTyping'
      BY <1>6, <2>1 DEF BeforeTicks, LocateInv, LocInv
    <2> QED BY <1>3, <1>6, <2>1, <2>2, FitsAtNext
  <1>8. PICK P \in Programs : From(P)
    BY DEF AttributionInv
  <1>9. Compiling(P)
    BY <1>1, <1>2, <1>8 DEF Compiling, From, AttributionInv, BeforeTicks, TickInit
  <1>10. Emitted' /\ (AllSkippedFirst => Owned')
    <2>1. Emitted' /\ (SkippedFirst(P) /\ Owned => Owned')
      BY <1>1, <1>5, <1>9, LlcStep DEF AttributionInv, locateVars
    <2> QED BY <2>1 DEF AttributionInv, AllSkippedFirst
  <1>11. ASSUME llcPc' = "done" PROVE MapInv'
    <2>1. asm' = asm
      BY <1>1, <1>11 DEF LlcNext, BeginEmission, EmitLocated, EmitUnlocated, EmitLineZero,
                         EndEmission, LlcExit
    <2>2. MapInv
      BY <1>1, <1>2, MapStarts DEF AttributionInv, ModuleFits, Emitted
    <2>3. UNCHANGED mapVars
      BY <1>1, <1>5, <2>1 DEF mapVars, extractVars, scanVars
    <2> QED BY <2>2, <2>3, MapStep
  <1>12. mapPc' # "done"
    BY <1>3 DEF MapStart
  <1> QED BY <1>4, <1>6, <1>7, <1>10, <1>11, <1>12 DEF AttributionInv

\* The extractor maps it, and leaves a mapping the calculator is made for
\* (gpscat-cost.cpp:75-112).
LEMMA ExtractKeeps == AttributionInv /\ Extract => AttributionInv'
  <1> SUFFICES ASSUME AttributionInv, Extract PROVE AttributionInv'
    OBVIOUS
  <1>1. /\ llcPc = "done" /\ mapPc # "done" /\ MapNext /\ UNCHANGED <<asm, ir>>
        /\ UNCHANGED <<locateVars, code, emitVars, costVars, tickVars>>
    BY OneAtATime DEF Extract
  <1>2. locPc = "done" /\ CalcStart /\ TickInit
    BY <1>1, InOrder DEF AttributionInv, Sequenced, CalcStart
  <1>3. CalcStart' /\ TickInit' /\ locPc' = "done" /\ llcPc' = "done"
    BY <1>1, <1>2 DEF CalcStart, TickInit, costVars, tickVars, locateVars, emitVars
  <1>4. Sequenced'
    BY <1>3 DEF Sequenced
  <1>5. (\E P \in Programs : From(P)') /\ BeforeTicks'
    BY <1>1, <1>2, <1>3, ModuleStays DEF TickInit, tickVars
  <1>6. ModuleFits' /\ Billing'
    <2>1. tickBB' = 0
      BY <1>3 DEF TickInit
    <2>2. LocTyping'
      BY <1>5, <2>1 DEF BeforeTicks, LocateInv, LocInv
    <2> QED BY <1>3, <1>5, <2>1, <2>2, FitsAtNext
  <1>7. Emitted' /\ (AllSkippedFirst => Owned')
    BY <1>1 DEF AttributionInv, Emitted, Owned, locateVars, emitVars
  <1>8. MapInv /\ MapInv'
    BY <1>1, MapStep DEF AttributionInv
  <1>9. ASSUME mapPc' = "done" PROVE CalcInv'
    <2>1. UNCHANGED IRAsmMap
      BY <1>1, <1>9 DEF MapNext, LocDirective, KnownInstruction, OtherLine, EndOfFile,
                        IndexInstruction, StartJoin, Join, Return, joinVars
    <2>2. IsModule(ir) /\ IsMapping(IRAsmMap)
      BY <1>8, ChargedOnceFollows DEF MapInv, MapTypeOK, IsMapping, ChargedOnce
    <2>3. CalcInv
      BY <1>2, <2>2, CalcStarts
    <2>4. UNCHANGED calcVars
      BY <1>1, <2>1 DEF calcVars, costVars
    <2> QED BY <2>3, <2>4, CalcStep
  <1> QED BY <1>4, <1>5, <1>6, <1>7, <1>8, <1>9 DEF AttributionInv

\* The calculator adds up (gpscat-cost.cpp:114-145).
LEMMA CalculateKeeps == AttributionInv /\ Calculate => AttributionInv'
  <1> SUFFICES ASSUME AttributionInv, Calculate PROVE AttributionInv'
    OBVIOUS
  <1>1. /\ mapPc = "done" /\ calcPc = "visit" /\ CalcNext /\ UNCHANGED <<ir, IRAsmMap>>
        /\ UNCHANGED <<locateVars, code, asm, emitVars, extractVars, tickVars>>
    BY OneAtATime DEF Calculate
  <1>2. locPc = "done" /\ llcPc = "done" /\ TickInit
    BY <1>1, InOrder DEF AttributionInv, Sequenced
  <1>3. TickInit' /\ locPc' = "done" /\ llcPc' = "done" /\ mapPc' = "done"
    BY <1>1, <1>2 DEF TickInit, tickVars, locateVars, emitVars, extractVars
  <1>4. Sequenced'
    BY <1>3 DEF Sequenced
  <1>5. (\E P \in Programs : From(P)') /\ BeforeTicks'
    BY <1>1, <1>2, <1>3, ModuleStays DEF TickInit, tickVars
  <1>6. ModuleFits' /\ Billing'
    <2>1. tickBB' = 0
      BY <1>3 DEF TickInit
    <2>2. LocTyping'
      BY <1>5, <2>1 DEF BeforeTicks, LocateInv, LocInv
    <2> QED BY <1>3, <1>5, <2>1, <2>2, FitsAtNext
  <1>7. Emitted' /\ (AllSkippedFirst => Owned')
    BY <1>1 DEF AttributionInv, Emitted, Owned, locateVars, emitVars
  <1>8. MapInv'
    <2>1. UNCHANGED mapVars
      BY <1>1 DEF mapVars, extractVars, scanVars
    <2> QED BY <1>2, <2>1, MapStep DEF AttributionInv
  <1>9. CalcInv'
    BY <1>1, CalcStep DEF AttributionInv
  <1> QED BY <1>4, <1>5, <1>6, <1>7, <1>8, <1>9 DEF AttributionInv

\* What the other components have is there as before when the ticks are set, or
\* nothing happens.
LEMMA OthersStay ==
    ASSUME AttributionInv, calcPc = "done",
           UNCHANGED <<locateVars, ir, asm, emitVars, extractVars, IRAsmMap, costVars>>
    PROVE  /\ Sequenced' /\ Emitted' /\ (AllSkippedFirst => Owned')
           /\ MapInv' /\ CalcInv'
           /\ IsModule(ir)' /\ FitsTables(ir)' /\ DistinctLines(ir)' /\ locPc = "done"
  <1>1. locPc = "done" /\ llcPc = "done" /\ mapPc = "done"
    BY InOrder DEF AttributionInv
  <1>2. Sequenced'
    BY <1>1 DEF Sequenced, locateVars, emitVars, extractVars, costVars
  <1>3. Emitted' /\ (AllSkippedFirst => Owned')
    BY DEF AttributionInv, Emitted, Owned, locateVars, emitVars
  <1>4. UNCHANGED mapVars /\ UNCHANGED calcVars
    BY DEF mapVars, calcVars, extractVars, scanVars, costVars
  <1>5. MapInv' /\ CalcInv'
    BY <1>1, <1>4, MapStep, CalcStep DEF AttributionInv
  <1>6. IsModule(ir)' /\ FitsTables(ir)' /\ DistinctLines(ir)'
    BY <1>1 DEF AttributionInv, ModuleFits, IsModule, FitsTables, DistinctLines
  <1> QED BY <1>1, <1>2, <1>3, <1>5, <1>6

\* What the shape of the blocks depends on.
LEMMA ShapeStays ==
    ASSUME Shaped, UNCHANGED <<code, tickBB, blockCostMap>>
    PROVE  Shaped'
  BY DEF Shaped, HasTick, TickCalls, Instruction, SyntheticValue

\* The blocks get their ticks (gpscat-cost.cpp:147-149).
LEMMA AnnotateKeepsAll == AttributionInv /\ Annotate => AttributionInv'
  <1> SUFFICES ASSUME AttributionInv, Annotate PROVE AttributionInv'
    OBVIOUS
  <1>1. /\ calcPc = "done" /\ TickNext
        /\ UNCHANGED <<locateVars, ir, asm, emitVars, extractVars, IRAsmMap, costVars>>
    BY DEF Annotate
  <1>2. /\ Sequenced' /\ Emitted' /\ (AllSkippedFirst => Owned')
        /\ MapInv' /\ CalcInv'
        /\ IsModule(ir)' /\ FitsTables(ir)' /\ DistinctLines(ir)' /\ locPc = "done"
    BY <1>1, OthersStay
  <1>3. Shaped /\ Billing /\ UNCHANGED blockCostMap
    BY <1>1, <1>2 DEF AttributionInv, ModuleFits, costVars
  <1>4. DOMAIN code \subseteq Nat \ {0}
    <2>1. \E S : code \in Seq(S)
      BY <1>3 DEF Shaped
    <2> QED BY <2>1
  <1>5. CASE AnnotateBlock
    <2>1. Shaped' /\ Billing'
      BY <1>3, <1>5, AnnotateKeeps
    <2>2. tickBB' # 0 /\ tickPc' # "rename"
      <3>1. tickBB \in Nat
        BY <1>3, <1>4 DEF Billing
      <3> QED BY <1>5, <3>1 DEF AnnotateBlock
    <2>3. DOMAIN code' = DOMAIN code
      BY <1>5 DEF AnnotateBlock
    <2>4. \E P \in Programs : From(P)'
      BY <1>1, <2>2, <2>3 DEF AttributionInv, From, locateVars
    <2>5. BeforeTicks'
      BY <2>2 DEF BeforeTicks
    <2> QED BY <1>2, <2>1, <2>4, <2>5 DEF AttributionInv, ModuleFits
  <1>6. CASE RenameExistingTick \/ CreateTick \/ Annotated
    <2>1. UNCHANGED <<code, tickBB>> /\ tickPc' # "rename"
      BY <1>6 DEF RenameExistingTick, CreateTick, Annotated
    <2>2. Shaped'
      BY <1>3, <2>1, ShapeStays
    <2>3. Billing'
      <3>1. CASE RenameExistingTick
        BY <1>3, <3>1, RenameBills
      <3>2. CASE CreateTick
        BY <1>3, <1>4, <3>2, CreateBills
      <3>3. CASE Annotated
        BY <1>3, <3>3 DEF Billing, Annotated, HasTick
      <3> QED BY <1>6, <3>1, <3>2, <3>3
    <2>4. (\E P \in Programs : From(P)') /\ BeforeTicks'
      BY <1>1, <2>1, ModuleStays
    <2> QED BY <1>2, <2>2, <2>3, <2>4 DEF AttributionInv, ModuleFits
  <1> QED BY <1>1, <1>5, <1>6 DEF TickNext

\* When nothing happens, nothing changes.
LEMMA AttributionStutters == AttributionInv /\ UNCHANGED vars => AttributionInv'
  <1> SUFFICES ASSUME AttributionInv, UNCHANGED vars PROVE AttributionInv'
    OBVIOUS
  <1>1. /\ UNCHANGED <<locateVars, code, ir, asm, emitVars, extractVars, IRAsmMap, costVars>>
        /\ UNCHANGED tickVars
    BY DEF vars, moduleVars
  <1>2. (\E P \in Programs : From(P)') /\ BeforeTicks'
    <2>1. tickPc = "rename" => tickBB = 0
      BY DEF AttributionInv, Billing
    <2> QED BY <1>1, <2>1, ModuleStays DEF tickVars
  <1>3. Sequenced'
    BY <1>1 DEF AttributionInv, Sequenced, LlcInit, MapStart, CalcStart, TickInit,
                locateVars, emitVars, extractVars, scanVars, costVars, tickVars
  <1>4. ModuleFits'
    <2>1. Shaped => Shaped'
      BY <1>1, ShapeStays DEF costVars, tickVars
    <2> QED BY <1>1, <2>1 DEF AttributionInv, ModuleFits, IsModule, FitsTables, DistinctLines, locateVars
  <1>5. Emitted' /\ (AllSkippedFirst => Owned')
    BY <1>1 DEF AttributionInv, Emitted, Owned, locateVars, emitVars
  <1>6. UNCHANGED mapVars /\ UNCHANGED calcVars
    BY <1>1 DEF mapVars, calcVars, extractVars, scanVars, costVars
  <1>7. (llcPc' = "done" => MapInv') /\ (mapPc' = "done" => CalcInv')
    BY <1>1, <1>6, MapStep, CalcStep DEF AttributionInv, emitVars, extractVars
  <1>8. Billing'
    BY <1>1 DEF AttributionInv, Billing, HasTick, tickVars, costVars
  <1> QED BY <1>2, <1>3, <1>4, <1>5, <1>7, <1>8 DEF AttributionInv

\* The invariant holds of every state of the run.
THEOREM AttributionInvariant == Spec => []AttributionInv
  <1>1. AttributionInv /\ [Next]_vars => AttributionInv'
    BY LocateKeeps, CompileKeeps, ExtractKeeps, CalculateKeeps, AnnotateKeepsAll,
       AttributionStutters DEF Next
  <1> QED BY <1>1, AttributionStarts, PTL DEF Spec

--------------------------------------------------------------------------------
(* What was counted, and what it says of what is printed and billed. *)

\* Once the visit is over all that was mapped has been counted, of an instruction and
\* of a block.
LEMMA AllCounted ==
    ASSUME MapInv, mapPc = "done", CalcInv, calcPc = "done"
    PROVE  /\ \A x \in Inst : CountedAsm(x) = IRAsmMap[x]
           /\ \A b \in Block : CountedAsmOf(b) = UNION {IRAsmMap[x] : x \in {y \in Inst : y[1] = b}}
  <1>1. visited = Len(ir) /\ asmLeft = {}
    BY DEF CalcInv, CompleteWhenDone
  <1>2. ASSUME NEW x \in Inst PROVE CountedAsm(x) = IRAsmMap[x]
    <2>1. (\A k \in 1 .. Len(ir) : ir[k].id # x) => IRAsmMap[x] = {}
      BY MappedFinite
    <2> QED BY <1>1, <2>1 DEF CountedAsm
  <1>3. ASSUME NEW b \in Block
        PROVE  CountedAsmOf(b) = UNION {IRAsmMap[x] : x \in {y \in Inst : y[1] = b}}
    <2>1. \A y \in Inst : BlockOf[y] = y[1]
      BY AttributionAssumption
    <2>2. {y \in Inst : BlockOf[y] = b} = {y \in Inst : y[1] = b}
      BY <2>1
    <2> QED BY <1>2, <2>2 DEF CountedAsmOf
  <1> QED BY <1>2, <1>3

\* The blocks are blocks the calculator has costs for.
LEMMA BlocksPriced == AttributionInv => DOMAIN code \subseteq Block
  BY AttributionAssumption DEF AttributionInv, From

\* Only located modules are read, and the ticks come when all is counted.
LEMMA DoneBefore ==
    ASSUME AttributionInv, calcPc = "done"
    PROVE  /\ mapPc = "done" /\ llcPc = "done" /\ locPc = "done"
           /\ MapInv /\ CalcInv /\ ModuleFits /\ Shaped
           /\ IsModule(ir) /\ DistinctLines(ir)
  <1>1. mapPc = "done" /\ llcPc = "done" /\ locPc = "done"
    BY InOrder DEF AttributionInv
  <1> QED BY <1>1 DEF AttributionInv, ModuleFits

--------------------------------------------------------------------------------
(* The properties. *)

\* No opcode is unknown to the table: the mapping holds priced lines only
\* (MappingExtractor.cpp:39, IRCostCalculator.cpp:21).
LEMMA OpcodeKnown ==
    ASSUME MapInv, CalcInv, NEW a \in asmLeft
    PROVE  HasInst(a.name)
  <1>1. visited \in 0 .. Len(ir) /\ visited # 0 /\ asmLeft \subseteq IRAsmMap[CurrentInst]
    BY DEF CalcInv, CalcTypeOK, LoopOverCurrent
  <1>2. visited \in 1 .. Len(ir) /\ ir \in Seq(LocatedInst)
    BY <1>1 DEF CalcInv, CalcTypeOK, IsModule
  <1>3. ir[visited] \in LocatedInst
    BY <1>2
  <1>4. CurrentInst \in Inst
    BY <1>3 DEF CurrentInst, LocatedInst
  <1>5. IRAsmMap[CurrentInst] \subseteq PricedInstruction
    BY <1>4, MappedPriced
  <1> QED BY <1>1, <1>5 DEF PricedInstruction

\* The table's at() never throws: what the extractor maps is what the calculator can
\* look up (MappingExtractor.cpp:39, IRCostCalculator.cpp:21).
THEOREM OpcodesKnown == Spec => []NeverThrows
  <1>1. Init => NeverThrows
    BY DEF Init, CalcStart, NeverThrows
  <1>2. NeverThrows /\ AttributionInv /\ [Next]_vars => NeverThrows'
    <2> SUFFICES ASSUME NeverThrows, AttributionInv, [Next]_vars PROVE calcPc' # "thrown"
      BY DEF NeverThrows
    <2>1. CASE Calculate
      <3>1. MapInv /\ CalcInv
        BY <2>1, InOrder DEF Calculate, AttributionInv
      <3>2. ASSUME NEW a \in asmLeft PROVE ~UnknownOpcode(a)
        BY <3>1, OpcodeKnown DEF UnknownOpcode
      <3> QED BY <2>1, <3>2 DEF Calculate, CalcNext, VisitInstruction, AddAsmCost, Constructed
    <2>2. CASE Locate \/ Compile \/ Extract \/ Annotate \/ UNCHANGED vars
      BY <2>2 DEF Locate, Compile, Extract, Annotate, vars, costVars, NeverThrows
    <2> QED BY <2>1, <2>2 DEF Next
  <1> QED BY <1>1, <1>2, AttributionInvariant, PTL DEF Spec

\* A tick stands before the terminator, and a block has one at most; before the ticks
\* are set no instruction is one (CoFloCoWrapper.cpp:41-45).
LEMMA TicksFollow == AttributionInv => TicksBeforeTerminators
  <1> SUFFICES ASSUME AttributionInv, NEW b \in DOMAIN code, NEW i \in DOMAIN code[b],
                      code[b][i].kind = "tick"
               PROVE  i + 1 = Len(code[b]) /\ code[b][i + 1].kind = "term"
    BY DEF TicksBeforeTerminators
  <1>1. CASE locPc = "done"
    BY <1>1 DEF AttributionInv, ModuleFits, Shaped
  <1>2. CASE locPc # "done"
    <2>1. tickBB = 0
      BY <1>2, InOrder DEF AttributionInv
    <2>2. LocTyping
      BY <2>1 DEF AttributionInv, BeforeTicks, LocateInv, LocInv
    <2>3. code[b][i] \in Instruction \cup SyntheticValue
      BY <2>2, Typed
    <2> QED BY <2>3 DEF Instruction, SyntheticValue, Kind, ValueKind
  <1> QED BY <1>1, <1>2

THEOREM TicksPlaced == Spec => []TicksBeforeTerminators
  BY TicksFollow, AttributionInvariant, PTL

\* The three tables of -verbose 2 tell one story (gpscat-cost.cpp:80-143,
\* Debugify.cpp:106-109).
LEMMA PrintedFollow == AttributionInv => PrintedCostsAddUp
  <1> SUFFICES ASSUME AttributionInv, calcPc = "done", tickPc = "rename"
               PROVE  PrintedCostsAddUp
    BY DEF PrintedCostsAddUp
  <1>1. /\ mapPc = "done" /\ locPc = "done" /\ MapInv /\ CalcInv
        /\ IsModule(ir)
    BY DoneBefore
  <1>2. BlockCostExact /\ InstCostExact
    BY <1>1, ExactFollows
  <1>3. /\ ir \in Seq(LocatedInst) /\ DOMAIN ir = 1 .. Len(ir) /\ Len(ir) \in Nat
        /\ \A k \in DOMAIN ir : ir[k].id \in Inst
        /\ \A j, k \in DOMAIN ir : ir[j].id = ir[k].id => j = k
    <2>1. ir \in Seq(LocatedInst) /\ DOMAIN ir = 1 .. Len(ir) /\ Len(ir) \in Nat
      BY <1>1 DEF IsModule
    <2>2. \A k \in DOMAIN ir : ir[k] \in LocatedInst
      BY <2>1
    <2> QED BY <1>1, <2>1, <2>2 DEF IsModule, LocatedInst
  <1>4. ASSUME NEW b \in DOMAIN code,
               \A k \in {j \in DOMAIN ir : ir[j].id[1] = b} : TotalCost(PrintMapping[k]) \in CostTy,
               TotalCost(UNION {PrintMapping[k] : k \in {j \in DOMAIN ir : ir[j].id[1] = b}}) \in CostTy
        PROVE  LET rows == {k \in DOMAIN ir : ir[k].id[1] = b}
                   printed == UNION {PrintMapping[k] : k \in rows}
               IN  /\ PrintBlockCosts[b] = TotalCost(printed)
                   /\ PrintBlockCosts[b] = SumFunctionOnSet(PrintInstCosts, rows)
    <2> DEFINE rows == {k \in DOMAIN ir : ir[k].id[1] = b}
               printed == UNION {PrintMapping[k] : k \in rows}
    <2>1. b \in Block
      BY BlocksPriced
    <2>2. \A k \in rows : PrintMapping[k] = IRAsmMap[ir[k].id] /\ PrintInstCosts[k] = GetInstCost(ir[k].id)
      BY DEF PrintMapping, PrintInstCosts
    <2>3. printed = UNION {IRAsmMap[x] : x \in {y \in Inst : y[1] = b}}
      <3>1. ASSUME NEW a \in printed PROVE a \in UNION {IRAsmMap[x] : x \in {y \in Inst : y[1] = b}}
        BY <1>3, <2>2
      <3>2. ASSUME NEW x \in Inst, x[1] = b, NEW a \in IRAsmMap[x] PROVE a \in printed
        <4>1. PICK k \in DOMAIN ir : ir[k].id = x
          BY <1>1, <1>3, MappedFinite
        <4> QED BY <2>2, <3>2, <4>1
      <3> HIDE DEF printed
      <3> QED BY <3>1, <3>2
    <2>4. printed = CountedAsmOf(b)
      BY <1>1, <2>1, <2>3, AllCounted
    <2>5. PrintBlockCosts[b] = TotalCost(printed)
      <3>1. TotalCost(CountedAsmOf(b)) \in CostTy
        BY <1>4, <2>4
      <3>2. GetBlockCost(b) = TotalCost(CountedAsmOf(b))
        BY <1>2, <2>1, <3>1 DEF BlockCostExact
      <3> QED BY <2>4, <3>2 DEF PrintBlockCosts
    <2>6. \A k \in rows : /\ PrintMapping[k] \subseteq PricedInstruction /\ IsFiniteSet(PrintMapping[k])
                          /\ PrintInstCosts[k] = TotalCost(PrintMapping[k])
      <3> SUFFICES ASSUME NEW k \in rows
                   PROVE  /\ PrintMapping[k] \subseteq PricedInstruction /\ IsFiniteSet(PrintMapping[k])
                          /\ PrintInstCosts[k] = TotalCost(PrintMapping[k])
        OBVIOUS
      <3>1. ir[k].id \in Inst
        BY <1>3
      <3>2. CountedAsm(ir[k].id) = PrintMapping[k]
        BY <1>1, <2>2, <3>1, AllCounted
      <3>3. TotalCost(CountedAsm(ir[k].id)) \in CostTy
        BY <1>4, <3>2
      <3>4. GetInstCost(ir[k].id) = TotalCost(CountedAsm(ir[k].id))
        BY <1>2, <3>1, <3>3 DEF InstCostExact
      <3>5. IsFiniteSet(IRAsmMap[ir[k].id]) /\ IRAsmMap[ir[k].id] \subseteq PricedInstruction
        BY <1>1, <3>1, MappedFinite
      <3> QED BY <2>2, <3>2, <3>4, <3>5
    <2>7. \A j, k \in rows : j # k => PrintMapping[j] \cap PrintMapping[k] = {}
      <3>1. \A x, y \in Inst : x # y => IRAsmMap[x] \cap IRAsmMap[y] = {}
        BY <1>1 DEF CalcInv, CalcTypeOK, IsMapping
      <3> QED BY <1>3, <2>2, <3>1
    <2>8. IsFiniteSet(rows)
      <3>1. IsFiniteSet(1 .. Len(ir))
        BY <1>3, FS_Interval, 1 \in Int, Len(ir) \in Int
      <3>2. rows \subseteq 1 .. Len(ir)
        BY <1>3
      <3> QED BY <3>1, <3>2, FS_Subset
    <2>9. SumFunctionOnSet(PrintInstCosts, rows) = TotalCost(UNION {PrintMapping[k] : k \in rows})
      <3> HIDE DEF rows
      <3> QED BY ONLY <2>6, <2>7, <2>8, SumOfCosts
    <2> QED BY <2>5, <2>9
  <1>5. ASSUME \A f \in DOMAIN exact : exact[f], NEW k \in DOMAIN ir PROVE ir[k].line = k
    <2>1. tickBB = 0
      BY DEF AttributionInv, Billing
    <2>2. PICK P \in Programs : From(P)
      BY DEF AttributionInv
    <2>3. LocateInv /\ ir = Instructions(code) /\ BodyFrom(P)
      BY <2>1, <2>2 DEF AttributionInv, BeforeTicks, From
    <2> QED BY <1>1, <1>5, <2>3, LocatedModule
  <1> QED BY <1>4, <1>5 DEF PrintedCostsAddUp

THEOREM TablesAgree == Spec => []PrintedCostsAddUp
  BY PrintedFollow, AttributionInvariant, PTL

\* Where no function without locations stands behind one with code that has them, an
\* instruction is mapped to the assembly emitted for it and no other (IRLocator.cpp:15,
\* MappingExtractor.cpp:16-47).  Without the hypothesis this is false: see the finding.
LEMMA OwnersFollow == AllSkippedFirst /\ AttributionInv => MappedToOwner
  <1> SUFFICES ASSUME AllSkippedFirst, AttributionInv, mapPc = "done", NEW x \in Inst
               PROVE  IRAsmMap[x] = OwnAsm(x)
    BY DEF MappedToOwner
  <1>1. llcPc = "done" /\ locPc = "done" /\ MapInv /\ DistinctLines(ir)
    BY InOrder DEF AttributionInv, ModuleFits
  <1>2. Filed(ir, asm, owner, lastLoc)
    BY <1>1 DEF AttributionInv, Owned
  <1> QED BY <1>1, <1>2, OwnersMatch

THEOREM MappedCorrect == AllSkippedFirst => (Spec => []MappedToOwner)
  <1> SUFFICES ASSUME AllSkippedFirst PROVE Spec => []MappedToOwner
    OBVIOUS
  <1>1. AttributionInv => MappedToOwner
    BY OwnersFollow
  <1> QED BY <1>1, AttributionInvariant, PTL

\* Under the same hypothesis a block is billed exactly the cost of the assembly emitted
\* for its instructions (gpscat-cost.cpp:53-153).
LEMMA BillsFollow == AllSkippedFirst /\ AttributionInv => BilledExact
  <1> SUFFICES ASSUME AllSkippedFirst, AttributionInv, tickPc = "done", NEW b \in DOMAIN code,
                      TotalCost(UNION {OwnAsm(x) : x \in {y \in Inst : y[1] = b}}) \in CostTy
               PROVE  Billed(b) = TotalCost(UNION {OwnAsm(x) : x \in {y \in Inst : y[1] = b}})
    BY DEF BilledExact
  <1>1. calcPc = "done"
    BY InOrder DEF AttributionInv
  <1>2. mapPc = "done" /\ MapInv /\ CalcInv /\ Shaped /\ b \in Block
    BY <1>1, DoneBefore, BlocksPriced
  <1>3. \A x \in Inst : IRAsmMap[x] = OwnAsm(x)
    BY <1>2, OwnersFollow DEF MappedToOwner
  <1>4. CountedAsmOf(b) = UNION {OwnAsm(x) : x \in {y \in Inst : y[1] = b}}
    <2>1. CountedAsmOf(b) = UNION {IRAsmMap[x] : x \in {y \in Inst : y[1] = b}}
      BY <1>1, <1>2, AllCounted
    <2> QED BY <1>3, <2>1
  <1>5. GetBlockCost(b) = TotalCost(CountedAsmOf(b))
    BY <1>2, <1>4, ExactFollows DEF BlockCostExact
  <1>6. \A c \in DOMAIN blockCostMap : blockCostMap[c] \in Int
    BY <1>2, CostModelAssumption DEF CalcInv, CalcTypeOK, CostTy
  <1>7. Billed(b) = GetBlockCost(b)
    BY <1>2, <1>6, TickIsBilled DEF AttributionInv
  <1> QED BY <1>4, <1>5, <1>7

THEOREM BillingCorrect == AllSkippedFirst => (Spec => []BilledExact)
  <1> SUFFICES ASSUME AllSkippedFirst PROVE Spec => []BilledExact
    OBVIOUS
  <1>1. AttributionInv => BilledExact
    BY BillsFollow
  <1> QED BY <1>1, AttributionInvariant, PTL

================================================================================
