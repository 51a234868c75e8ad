-------------------------- MODULE MappingAndCostProofs --------------------------
(***************************************************************************)
(* Proofs about the two stages that read the module, for every width of    *)
(* the integers, cost model, assembly file and module.  Of                 *)
(* MappingExtractor: the scan attributes each instruction to the .loc      *)
(* before it, and the join, in whatever order, hands each LLVM instruction *)
(* exactly the assembly of the line it holds.  Of IRCostCalculator, for    *)
(* every mapping: the sums are congruent to the true ones modulo the       *)
(* width, whatever the order of the visit, and so equal to them whenever   *)
(* they can be.                                                            *)
(***************************************************************************)
EXTENDS MappingExtractor, CostMetadata, Counting

--------------------------------------------------------------------------------
(* The specification's operators, one line or one instruction further. *)

\* The next line of a file is a line, and has a place in it.
LEMMA NextLineType ==
    ASSUME NEW file, IsAsmFile(file), NEW n \in 0 .. Len(file), n + 1 <= Len(file)
    PROVE  /\ file[n + 1] \in AsmLine
           /\ file[n + 1].head \in Token
           /\ file[n + 1].operand \in InstructionID \cup {NoOperand}
           /\ n + 1 \in 1 .. MaxAsm
  <1>1. Len(file) \in Nat /\ n + 1 \in 1 .. Len(file)
    BY DEF IsAsmFile
  <1>2. file[n + 1] \in AsmLine
    BY <1>1 DEF IsAsmFile
  <1>3. n + 1 \in 1 .. MaxAsm
    BY <1>1, CostModelAssumption DEF IsAsmFile
  <1> QED
    BY <1>2, <1>3 DEF AsmLine

\* Some line number governs every line, and only one does: what the last .loc
\* says is a function (MappingExtractor.cpp:19, 36).
LEMMA GovernedByUnique ==
    ASSUME NEW file, IsAsmFile(file), NEW p \in 0 .. Len(file), NEW i, NEW j,
           GovernedBy(file, p, i), GovernedBy(file, p, j)
    PROVE  i = j
  BY DEF GovernedBy, IsAsmFile

\* A .loc directive governs its own line (MappingExtractor.cpp:34-37).
LEMMA GovernedByLoc ==
    ASSUME NEW file, IsAsmFile(file), NEW p \in 0 .. Len(file), p + 1 <= Len(file),
           IsLocDirective(file[p + 1]), NEW i
    PROVE  GovernedBy(file, p + 1, i) <=> i = file[p + 1].operand
  BY DEF GovernedBy, IsAsmFile

\* Any other line is governed by what governs the line before
\* (MappingExtractor.cpp:39-44).
LEMMA GovernedByOther ==
    ASSUME NEW file, IsAsmFile(file), NEW p \in 0 .. Len(file), p + 1 <= Len(file),
           ~IsLocDirective(file[p + 1]), NEW i
    PROVE  GovernedBy(file, p + 1, i) <=> GovernedBy(file, p, i)
  BY DEF GovernedBy, IsAsmFile

\* A line that is no known instruction adds nothing to what is gathered.
LEMMA GatheredByOther ==
    ASSUME NEW file, IsAsmFile(file), NEW n \in 0 .. Len(file), n + 1 <= Len(file),
           ~IsKnownInstruction(file[n + 1]), NEW i
    PROVE  GatheredBy(file, n + 1, i) = GatheredBy(file, n, i)
  BY DEF GatheredBy, IsAsmFile, AssemblyInstruction

\* A known instruction is gathered under the line that governs it.
LEMMA GatheredByKnown ==
    ASSUME NEW file, IsAsmFile(file), NEW n \in 0 .. Len(file), n + 1 <= Len(file),
           IsKnownInstruction(file[n + 1]), NEW g, GovernedBy(file, n, g), NEW i
    PROVE  GatheredBy(file, n + 1, i) =
              IF i = g
              THEN GatheredBy(file, n, i) \cup {[name |-> file[n + 1].head, at |-> n + 1]}
              ELSE GatheredBy(file, n, i)
  <1> DEFINE a == [name |-> file[n + 1].head, at |-> n + 1]
  <1>1. a \in AssemblyInstruction
    BY NextLineType DEF AssemblyInstruction
  <1>2. ~IsLocDirective(file[n + 1])
    BY DEF IsKnownInstruction
  <1>3. GovernedBy(file, n + 1, i) <=> i = g
    BY <1>2, GovernedByOther, GovernedByUnique
  <1>4. \A b \in AssemblyInstruction :
            b.at \in 1 .. n + 1 <=> b.at \in 1 .. n \/ b.at = n + 1
    BY DEF AssemblyInstruction, IsAsmFile
  <1>5. \A b \in AssemblyInstruction : b.at = n + 1 /\ b.name = file[n + 1].head <=> b = a
    BY <1>1 DEF AssemblyInstruction
  <1> QED
    BY <1>1, <1>3, <1>4, <1>5 DEF GatheredBy

\* What is gathered has a price.
LEMMA GatheredByPriced ==
    ASSUME NEW file, NEW n, NEW i
    PROVE  GatheredBy(file, n, i) \subseteq PricedInstruction
  BY DEF GatheredBy, PricedInstruction, IsKnownInstruction

\* The next instruction of a module takes its line from whoever held it.
LEMMA HoldsLineNext ==
    ASSUME NEW m, IsModule(m), NEW n \in 0 .. Len(m), n + 1 <= Len(m),
           NEW x, NEW i
    PROVE  HoldsLine(m, n + 1, x, i) <=>
              IF m[n + 1].line = i THEN m[n + 1].id = x ELSE HoldsLine(m, n, x, i)
  BY DEF HoldsLine, IsModule

\* An instruction is listed once, so it holds at most one line.
LEMMA HoldsOneLine ==
    ASSUME NEW m, IsModule(m), NEW n \in 0 .. Len(m), NEW x, NEW i, NEW j,
           HoldsLine(m, n, x, i), HoldsLine(m, n, x, j)
    PROVE  i = j
  <1>1. PICK k \in 1 .. n : m[k].id = x /\ m[k].line = i
    BY DEF HoldsLine
  <1>2. PICK l \in 1 .. n : m[l].id = x /\ m[l].line = j
    BY DEF HoldsLine
  <1>3. k \in 1 .. Len(m) /\ l \in 1 .. Len(m)
    BY DEF IsModule
  <1>4. k = l
    BY <1>1, <1>2, <1>3 DEF IsModule
  <1> QED
    BY <1>1, <1>2, <1>4

--------------------------------------------------------------------------------
(* The inductive invariant: what holds at each point of the function. *)

\* The current line number is the one that governs the last line read.
CurrentLocGoverns == GovernedBy(asm, lineNum, currentLocLineno)

\* The pointer table names the last holder of a line, and nobody for line 0.
IndexExact ==
    \A i \in InstructionID, x \in Inst :
        instIDPtrMap[i] = x <=> i # 0 /\ HoldsLine(ir, instNum, x, i)

\* The join has handed out the vectors of the lines it has visited.
JoinExact ==
    \A x \in Inst, a \in AssemblyInstruction :
        a \in IRAsmMap[x] <=>
            \E i \in InstructionID \ unjoined : instIDPtrMap[i] = x /\ a \in IRIDAsmMap[i]

\* How far the function has come.
Progress ==
    /\ mapPc # "scan" => lineNum = Len(asm)
    /\ mapPc \in {"join", "done"} => instNum = Len(ir) /\ JoinExact
    /\ mapPc \in {"scan", "index"} => IRAsmMap = [x \in Inst |-> {}]
    /\ mapPc = "done" => unjoined = {}

MapInv ==
    /\ MapTypeOK
    /\ ScanAttribution
    /\ CurrentLocGoverns
    /\ IndexExact
    /\ Progress

\* The invariant holds when the function is called, of any file and module
\* (MappingExtractor.cpp:17-23).
LEMMA MapStarts ==
    ASSUME IsAsmFile(asm), IsModule(ir), FitsTables(ir), MapStart
    PROVE  MapInv
  <1> USE DEF MapStart
  <1>1. MapTypeOK
    BY LineAssumption, InstAssumption DEF MapTypeOK, IsAsmFile, IsModule, InstructionID
  <1>2. ScanAttribution
    BY DEF ScanAttribution, GatheredBy
  <1>3. CurrentLocGoverns
    BY DEF CurrentLocGoverns, GovernedBy
  <1>4. IndexExact
    BY InstAssumption DEF IndexExact, HoldsLine
  <1> QED
    BY <1>1, <1>2, <1>3, <1>4 DEF MapInv, Progress

\* A .loc line keeps the invariant (MappingExtractor.cpp:34-37).
LEMMA LocDirectiveInv == MapInv /\ LocDirective => MapInv'
  <1> SUFFICES ASSUME MapInv, LocDirective PROVE MapInv'
    OBVIOUS
  <1> USE DEF LocDirective, joinVars
  <1>1. IsAsmFile(asm) /\ lineNum \in 0 .. Len(asm) /\ lineNum + 1 <= Len(asm)
    BY DEF MapInv, MapTypeOK, IsAsmFile
  <1>2. asm[lineNum + 1].operand \in InstructionID
    BY <1>1, NextLineType DEF IsLocDirective
  <1>3. MapTypeOK'
    BY <1>1, <1>2 DEF MapInv, MapTypeOK, IsAsmFile
  <1>4. ScanAttribution'
    <2>1. ~IsKnownInstruction(asm[lineNum + 1])
      BY DEF IsKnownInstruction
    <2> QED
      BY <1>1, <2>1, GatheredByOther DEF MapInv, ScanAttribution
  <1>5. CurrentLocGoverns'
    BY <1>1, GovernedByLoc DEF CurrentLocGoverns
  <1>6. IndexExact' /\ Progress'
    BY DEF MapInv, IndexExact, Progress, JoinExact
  <1> QED
    BY <1>3, <1>4, <1>5, <1>6 DEF MapInv

\* A known instruction is pushed where it belongs (MappingExtractor.cpp:39-44).
LEMMA KnownInstructionInv == MapInv /\ KnownInstruction => MapInv'
  <1> SUFFICES ASSUME MapInv, KnownInstruction PROVE MapInv'
    OBVIOUS
  <1> USE DEF KnownInstruction, joinVars
  <1> DEFINE a == [name |-> asm[lineNum + 1].head, at |-> lineNum + 1]
  <1>1. IsAsmFile(asm) /\ lineNum \in 0 .. Len(asm) /\ lineNum + 1 <= Len(asm)
    BY DEF MapInv, MapTypeOK, IsAsmFile
  <1>2. a \in PricedInstruction
    BY <1>1, NextLineType
    DEF IsKnownInstruction, AssemblyInstruction, PricedInstruction
  <1>3. MapTypeOK'
    BY <1>1, <1>2 DEF MapInv, MapTypeOK, IsAsmFile
  <1>4. ScanAttribution'
    <2> SUFFICES ASSUME NEW i \in InstructionID
                 PROVE  IRIDAsmMap'[i] = GatheredBy(asm, lineNum + 1, i)
      BY DEF ScanAttribution
    <2>1. IRIDAsmMap'[i] = IF i = currentLocLineno THEN IRIDAsmMap[i] \cup {a} ELSE IRIDAsmMap[i]
      BY DEF MapInv, MapTypeOK
    <2>2. IRIDAsmMap[i] = GatheredBy(asm, lineNum, i)
      BY DEF MapInv, ScanAttribution
    <2>3. GatheredBy(asm, lineNum + 1, i) =
              IF i = currentLocLineno THEN GatheredBy(asm, lineNum, i) \cup {a}
              ELSE GatheredBy(asm, lineNum, i)
      BY <1>1, GatheredByKnown DEF MapInv, CurrentLocGoverns
    <2> QED
      BY <2>1, <2>2, <2>3
  <1>5. CurrentLocGoverns'
    BY <1>1, GovernedByOther DEF MapInv, CurrentLocGoverns, IsKnownInstruction
  <1>6. IndexExact'
    BY DEF MapInv, IndexExact
  <1>7. Progress'
    BY DEF MapInv, Progress
  <1> QED
    BY <1>3, <1>4, <1>5, <1>6, <1>7 DEF MapInv

\* Any other line changes nothing but the place (MappingExtractor.cpp:28-29).
LEMMA OtherLineInv == MapInv /\ OtherLine => MapInv'
  <1> SUFFICES ASSUME MapInv, OtherLine PROVE MapInv'
    OBVIOUS
  <1> USE DEF OtherLine, joinVars
  <1>1. IsAsmFile(asm) /\ lineNum \in 0 .. Len(asm) /\ lineNum + 1 <= Len(asm)
    BY DEF MapInv, MapTypeOK, IsAsmFile
  <1>2. MapTypeOK'
    BY <1>1 DEF MapInv, MapTypeOK, IsAsmFile
  <1>3. ScanAttribution'
    BY <1>1, GatheredByOther DEF MapInv, ScanAttribution
  <1>4. CurrentLocGoverns'
    BY <1>1, GovernedByOther DEF MapInv, CurrentLocGoverns
  <1>5. IndexExact' /\ Progress'
    BY DEF MapInv, IndexExact, Progress, JoinExact
  <1> QED
    BY <1>2, <1>3, <1>4, <1>5 DEF MapInv

\* The end of the file (MappingExtractor.cpp:24, 46).
LEMMA EndOfFileInv == MapInv /\ EndOfFile => MapInv'
  <1> SUFFICES ASSUME MapInv, EndOfFile PROVE MapInv'
    OBVIOUS
  <1> USE DEF EndOfFile, scanVars, joinVars
  <1>1. MapTypeOK'
    BY DEF MapInv, MapTypeOK
  <1>2. ScanAttribution' /\ CurrentLocGoverns' /\ IndexExact' /\ Progress'
    BY DEF MapInv, ScanAttribution, CurrentLocGoverns, IndexExact, Progress
  <1> QED
    BY <1>1, <1>2 DEF MapInv

\* The table is right for one instruction more (MappingExtractor.cpp:56-58).
LEMMA IndexInstructionInv == MapInv /\ IndexInstruction => MapInv'
  <1> SUFFICES ASSUME MapInv, IndexInstruction PROVE MapInv'
    OBVIOUS
  <1> USE DEF IndexInstruction, scanVars
  <1> DEFINE inst == ir[instNum + 1]
  <1>1. IsModule(ir) /\ instNum \in 0 .. Len(ir) /\ instNum + 1 <= Len(ir)
    BY DEF MapInv, MapTypeOK, IsModule
  <1>2. inst \in LocatedInst
    BY <1>1 DEF IsModule
  <1>3. inst.id \in Inst /\ inst.line \in InstructionID
    <2>1. FitsTables(ir) /\ instNum + 1 \in DOMAIN ir
      BY <1>1 DEF MapInv, MapTypeOK, IsModule
    <2> QED
      BY <1>2, <2>1 DEF LocatedInst, FitsTables
  <1>4. instIDPtrMap \in [InstructionID -> Inst \cup {NoInst}]
    BY DEF MapInv, MapTypeOK
  <1>5. \A i \in InstructionID :
            instIDPtrMap'[i] = IF i = inst.line /\ i # 0 THEN inst.id ELSE instIDPtrMap[i]
    BY <1>3, <1>4
  <1>6. MapTypeOK'
    BY <1>1, <1>3, <1>4 DEF MapInv, MapTypeOK
  <1>7. IndexExact'
    <2> SUFFICES ASSUME NEW i \in InstructionID, NEW x \in Inst
                 PROVE  instIDPtrMap'[i] = x <=> i # 0 /\ HoldsLine(ir, instNum + 1, x, i)
      BY DEF IndexExact
    <2>1. instIDPtrMap[i] = x <=> i # 0 /\ HoldsLine(ir, instNum, x, i)
      BY DEF MapInv, IndexExact
    <2>2. HoldsLine(ir, instNum + 1, x, i) <=>
              IF inst.line = i THEN inst.id = x ELSE HoldsLine(ir, instNum, x, i)
      BY <1>1, HoldsLineNext
    <2> QED
      BY <1>5, <2>1, <2>2
  <1>8. ScanAttribution' /\ CurrentLocGoverns' /\ Progress'
    BY DEF MapInv, ScanAttribution, CurrentLocGoverns, Progress
  <1> QED
    BY <1>6, <1>7, <1>8 DEF MapInv

\* Nothing is handed out before the join, and nothing is to hand out of the
\* lines it will not visit (MappingExtractor.cpp:63-64).
LEMMA StartJoinInv == MapInv /\ StartJoin => MapInv'
  <1> SUFFICES ASSUME MapInv, StartJoin PROVE MapInv'
    OBVIOUS
  <1> USE DEF StartJoin, scanVars
  <1>1. MapTypeOK'
    BY DEF MapInv, MapTypeOK
  <1>2. ScanAttribution' /\ CurrentLocGoverns' /\ IndexExact'
    BY DEF MapInv, ScanAttribution, CurrentLocGoverns, IndexExact
  <1>3. JoinExact'
    BY DEF MapInv, JoinExact, Progress
  <1>4. Progress'
    BY <1>3 DEF MapInv, Progress
  <1> QED
    BY <1>1, <1>2, <1>4 DEF MapInv

\* A turn of the join gives one line's vector to its holder, who had none: an
\* instruction holds one line (MappingExtractor.cpp:64-69).
LEMMA JoinInv == ASSUME NEW IRID \in InstructionID PROVE MapInv /\ Join(IRID) => MapInv'
  <1> SUFFICES ASSUME MapInv, Join(IRID) PROVE MapInv'
    OBVIOUS
  <1> USE DEF Join, scanVars
  <1>1. IRIDAsmMap \in [InstructionID -> SUBSET PricedInstruction]
        /\ instIDPtrMap \in [InstructionID -> Inst \cup {NoInst}]
        /\ IRAsmMap \in [Inst -> SUBSET AssemblyInstruction]
        /\ unjoined \subseteq InstructionID
        /\ IsModule(ir) /\ instNum \in 0 .. Len(ir)
    BY DEF MapInv, MapTypeOK
  <1>2. instIDPtrMap[IRID] # NoInst => instIDPtrMap[IRID] \in Inst
    BY <1>1
  <1>3. MapTypeOK'
    BY <1>1, <1>2 DEF MapInv, MapTypeOK, PricedInstruction
  <1>4. ScanAttribution' /\ CurrentLocGoverns' /\ IndexExact'
    BY DEF MapInv, ScanAttribution, CurrentLocGoverns, IndexExact
  <1>5. JoinExact'
    <2> SUFFICES ASSUME NEW x \in Inst, NEW a \in AssemblyInstruction
                 PROVE  a \in IRAsmMap'[x] <=>
                            \E i \in InstructionID \ unjoined' :
                                instIDPtrMap[i] = x /\ a \in IRIDAsmMap[i]
      BY DEF JoinExact
    <2>1. a \in IRAsmMap[x] <=>
              \E i \in InstructionID \ unjoined : instIDPtrMap[i] = x /\ a \in IRIDAsmMap[i]
      BY DEF MapInv, Progress, JoinExact
    <2>2. InstructionID \ unjoined' = (InstructionID \ unjoined) \cup {IRID}
      BY <1>1
    <2>3. CASE instIDPtrMap[IRID] # x
      <3>1. IRAsmMap'[x] = IRAsmMap[x]
        BY <1>1, <1>2, <2>3
      <3> QED
        BY <2>1, <2>2, <2>3, <3>1
    <2>4. CASE instIDPtrMap[IRID] = x
      <3>1. x # NoInst
        BY InstAssumption
      <3>2. IRAsmMap'[x] = IRIDAsmMap[IRID]
        BY <1>1, <2>4, <3>1
      <3>3. ASSUME NEW i \in InstructionID, instIDPtrMap[i] = x PROVE i = IRID
        <4>1. HoldsLine(ir, instNum, x, i) /\ HoldsLine(ir, instNum, x, IRID)
          BY <2>4, <3>3 DEF MapInv, IndexExact
        <4> QED
          BY <1>1, <4>1, HoldsOneLine
      <3> QED
        BY <2>2, <2>4, <3>2, <3>3
    <2> QED
      BY <2>3, <2>4
  <1>6. Progress'
    BY <1>5 DEF MapInv, Progress
  <1> QED
    BY <1>3, <1>4, <1>6 DEF MapInv

\* The join is over when every line was visited (MappingExtractor.cpp:70).
LEMMA ReturnInv == MapInv /\ Return => MapInv'
  <1> SUFFICES ASSUME MapInv, Return PROVE MapInv'
    OBVIOUS
  <1> USE DEF Return, scanVars, joinVars
  <1>1. MapTypeOK'
    BY DEF MapInv, MapTypeOK
  <1>2. ScanAttribution' /\ CurrentLocGoverns' /\ IndexExact'
    BY DEF MapInv, ScanAttribution, CurrentLocGoverns, IndexExact
  <1>3. Progress'
    BY DEF MapInv, Progress, JoinExact
  <1> QED
    BY <1>1, <1>2, <1>3 DEF MapInv

\* Whatever the function does next, the invariant stays.
LEMMA MapStep == MapInv /\ [MapNext]_mapVars => MapInv'
  <1> SUFFICES ASSUME MapInv, [MapNext]_mapVars PROVE MapInv'
    OBVIOUS
  <1>1. CASE LocDirective
    BY <1>1, LocDirectiveInv
  <1>2. CASE KnownInstruction
    BY <1>2, KnownInstructionInv
  <1>3. CASE OtherLine
    BY <1>3, OtherLineInv
  <1>4. CASE EndOfFile
    BY <1>4, EndOfFileInv
  <1>5. CASE IndexInstruction
    BY <1>5, IndexInstructionInv
  <1>6. CASE StartJoin
    BY <1>6, StartJoinInv
  <1>7. CASE \E IRID \in InstructionID : Join(IRID)
    BY <1>7, JoinInv
  <1>8. CASE Return
    BY <1>8, ReturnInv
  <1>9. CASE UNCHANGED mapVars
    <2>1. MapTypeOK' /\ ScanAttribution' /\ CurrentLocGoverns'
      BY <1>9 DEF mapVars, MapInv, MapTypeOK, ScanAttribution, CurrentLocGoverns
    <2>2. IndexExact' /\ Progress'
      BY <1>9 DEF mapVars, MapInv, IndexExact, Progress, JoinExact
    <2> QED
      BY <2>1, <2>2 DEF MapInv
  <1> QED
    BY <1>1, <1>2, <1>3, <1>4, <1>5, <1>6, <1>7, <1>8, <1>9 DEF MapNext

--------------------------------------------------------------------------------
(* What the invariant says of the mapping. *)

\* When the join is over, an instruction has the assembly of the line it holds
\* (MappingExtractor.cpp:52-70).
LEMMA MappingFollows == MapInv => MappingExact
  <1> SUFFICES ASSUME MapInv, mapPc = "done", NEW x \in Inst, NEW a \in AssemblyInstruction
               PROVE  a \in IRAsmMap[x] <=>
                          \E i \in InstructionID \ {0} :
                              /\ HoldsLine(ir, Len(ir), x, i)
                              /\ a \in GatheredBy(asm, Len(asm), i)
    BY DEF MappingExact
  <1>1. a \in IRAsmMap[x] <=>
            \E i \in InstructionID : instIDPtrMap[i] = x /\ a \in IRIDAsmMap[i]
    BY DEF MapInv, Progress, JoinExact
  <1>2. \A i \in InstructionID : instIDPtrMap[i] = x <=> i # 0 /\ HoldsLine(ir, Len(ir), x, i)
    BY DEF MapInv, Progress, IndexExact
  <1>3. \A i \in InstructionID : IRIDAsmMap[i] = GatheredBy(asm, Len(asm), i)
    BY DEF MapInv, Progress, ScanAttribution
  <1> QED
    BY <1>1, <1>2, <1>3

\* Only what the table prices was filed, and so only that is mapped
\* (MappingExtractor.cpp:39, 64-69).
LEMMA MappedPriced ==
    ASSUME MapInv, NEW x \in Inst
    PROVE  IRAsmMap[x] \subseteq PricedInstruction
  <1> SUFFICES ASSUME NEW a \in IRAsmMap[x] PROVE a \in PricedInstruction
    OBVIOUS
  <1>1. a \in AssemblyInstruction
    BY DEF MapInv, MapTypeOK
  <1>2. mapPc \in {"join", "done"}
    BY DEF MapInv, MapTypeOK, Progress
  <1>3. PICK i \in InstructionID : a \in IRIDAsmMap[i]
    BY <1>1, <1>2 DEF MapInv, Progress, JoinExact
  <1> QED
    BY <1>3 DEF MapInv, MapTypeOK

\* Only one line governs an assembly instruction, and only one LLVM instruction is
\* in the table for that line (MappingExtractor.cpp:52-70).
LEMMA ChargedOnceFollows == MapInv => ChargedOnce
  <1> SUFFICES ASSUME MapInv, NEW x \in Inst, NEW y \in Inst,
                      NEW a \in IRAsmMap[x] \cap IRAsmMap[y]
               PROVE  x = y
    BY DEF ChargedOnce
  <1>1. a \in AssemblyInstruction
    BY DEF MapInv, MapTypeOK
  <1>2. mapPc \in {"join", "done"}
    BY DEF MapInv, MapTypeOK, Progress
  <1>3. PICK i \in InstructionID : instIDPtrMap[i] = x /\ a \in IRIDAsmMap[i]
    BY <1>1, <1>2 DEF MapInv, Progress, JoinExact
  <1>4. PICK j \in InstructionID : instIDPtrMap[j] = y /\ a \in IRIDAsmMap[j]
    BY <1>1, <1>2 DEF MapInv, Progress, JoinExact
  <1>5. a.at \in 1 .. lineNum /\ GovernedBy(asm, a.at, i) /\ GovernedBy(asm, a.at, j)
    BY <1>3, <1>4 DEF MapInv, ScanAttribution, GatheredBy
  <1>6. IsAsmFile(asm) /\ a.at \in 0 .. Len(asm)
    BY <1>5 DEF MapInv, MapTypeOK, IsAsmFile
  <1>7. i = j
    BY <1>5, <1>6, GovernedByUnique
  <1> QED
    BY <1>3, <1>4, <1>7

--------------------------------------------------------------------------------
(* What the function promises. *)

\* The invariant holds of every state of the function.
THEOREM MapInvariant == MapSpec => []MapInv
  <1>1. MapInit => MapInv
    BY MapStarts, ModuleAssumption, InputAssumption DEF MapInit
  <1> QED
    BY <1>1, MapStep, PTL DEF MapSpec

\* Every variable stays in its type (MappingExtractor.cpp:16-71).
THEOREM MapTypeCorrect == MapSpec => []MapTypeOK
  <1>1. MapInv => MapTypeOK
    BY DEF MapInv
  <1> QED
    BY <1>1, MapInvariant, PTL

\* Whatever the file, the scan files each known instruction under the last .loc
\* before it and nowhere else (MappingExtractor.cpp:24-45).
THEOREM ScanCorrect == MapSpec => []ScanAttribution
  <1>1. MapInv => ScanAttribution
    BY DEF MapInv
  <1> QED
    BY <1>1, MapInvariant, PTL

\* Whatever the file, the module and the order of the join, an instruction gets
\* exactly the assembly governed by the line it holds (MappingExtractor.cpp:52-70).
THEOREM MappingCorrect == MapSpec => []MappingExact
  BY MapInvariant, MappingFollows, PTL

\* No assembly instruction is charged to two LLVM instructions
\* (MappingExtractor.cpp:52-70).
THEOREM ChargedOnceCorrect == MapSpec => []ChargedOnce
  BY MapInvariant, ChargedOnceFollows, PTL

--------------------------------------------------------------------------------
(* Sums that wrap. *)

Congruent(sum, cost) == \E k \in Int : sum = cost + k * Width

\* One addition is off by the width at most once, and stays a CostTy.
LEMMA AddCostWraps ==
    ASSUME NEW c \in CostTy, NEW d \in CostTy
    PROVE  /\ AddCost(c, d) \in CostTy
           /\ AddCost(c, d) \in {c + d, c + d - Width, c + d + Width}
  BY CostModelAssumption DEF CostTy, AddCost, Width

\* Adding to both sides keeps the congruence, with or without a wrap.
LEMMA CongruentStep ==
    ASSUME NEW s \in Int, NEW c \in Int, NEW d \in Int, Congruent(s, c),
           NEW e \in {c + d, c + d - Width, c + d + Width}
    PROVE  Congruent(s + d, e)
  <1>1. Width \in Int
    BY CostModelAssumption DEF Width
  <1>2. PICK k \in Int : s = c + k * Width
    BY DEF Congruent
  <1>3. /\ (k + 1) * Width = k * Width + Width
        /\ (k - 1) * Width = k * Width - Width
        /\ k * Width \in Int
    BY <1>1
  <1>4. CASE e = c + d
    BY <1>1, <1>2, <1>3, <1>4 DEF Congruent
  <1>5. CASE e = c + d - Width
    <2>1. s + d = e + (k + 1) * Width
      BY <1>1, <1>2, <1>3, <1>5
    <2> QED
      BY <2>1 DEF Congruent
  <1>6. CASE e = c + d + Width
    <2>1. s + d = e + (k - 1) * Width
      BY <1>1, <1>2, <1>3, <1>6
    <2> QED
      BY <2>1 DEF Congruent
  <1> QED
    BY <1>4, <1>5, <1>6

\* Two values of a CostTy that are congruent are equal.
LEMMA CongruentEqual ==
    ASSUME NEW s \in CostTy, NEW c \in CostTy, Congruent(s, c)
    PROVE  s = c
  <1>1. Width \in Nat /\ Width > 0
    BY CostModelAssumption DEF Width
  <1>2. s \in Int /\ c \in Int /\ s - c < Width /\ c - s < Width
    BY CostModelAssumption DEF CostTy, Width
  <1>3. PICK k \in Int : s = c + k * Width
    BY DEF Congruent
  <1>4. k >= 1 => k * Width >= Width
    BY <1>1
  <1>5. k <= -1 => k * Width <= -Width
    BY <1>1
  <1>6. k = 0 => k * Width = 0
    BY <1>1
  <1>7. k * Width \in Int
    BY <1>1
  <1> QED
    BY <1>1, <1>2, <1>3, <1>4, <1>5, <1>6, <1>7

--------------------------------------------------------------------------------
(* The inductive invariant. *)

\* The loop is over the vector of the instruction being visited.
LoopOverCurrent ==
    /\ visited = 0 => asmLeft = {}
    /\ visited > 0 => asmLeft \subseteq IRAsmMap[CurrentInst]

\* What was counted had a price.
CountedPriced == \A x \in Inst : CountedAsm(x) \subseteq PricedInstruction

\* Both tables are the sums of what was counted, modulo the width.
SumsCongruent ==
    /\ \A b \in Block : Congruent(TotalCost(CountedAsmOf(b)), GetBlockCost(b))
    /\ \A x \in Inst : Congruent(TotalCost(CountedAsm(x)), GetInstCost(x))

CompleteWhenDone == calcPc = "done" => visited = Len(ir) /\ asmLeft = {}

CalcInv ==
    /\ CalcTypeOK
    /\ LoopOverCurrent
    /\ CountedPriced
    /\ SumsCongruent
    /\ CompleteWhenDone

\* A table without an entry stands for a cost of 0, which is a CostTy.
LEMMA CostTypes ==
    ASSUME CalcTypeOK
    PROVE  /\ \A b \in Block : GetBlockCost(b) \in CostTy
           /\ \A x \in Inst : GetInstCost(x) \in CostTy
           /\ CostTy \subseteq Int
  BY CostModelAssumption DEF CalcTypeOK, GetBlockCost, GetInstCost, CostTy

\* One += on a table: the key's value is added to, the others are not.
LEMMA Accumulated ==
    ASSUME NEW S, NEW map, map \in [DOMAIN map -> CostTy], DOMAIN map \subseteq S,
           NEW key \in S, NEW cost \in CostTy
    PROVE  LET Value(m, k) == IF k \in DOMAIN m THEN m[k] ELSE 0
               new == Accumulate(map, key, cost)
           IN  /\ DOMAIN new \subseteq S
               /\ new \in [DOMAIN new -> CostTy]
               /\ Value(new, key) = AddCost(Value(map, key), cost)
               /\ \A k \in S : k # key => Value(new, k) = Value(map, k)
  <1>1. AddCost(0, cost) = cost
    BY CostModelAssumption DEF AddCost, CostTy
  <1>2. key \in DOMAIN map => AddCost(map[key], cost) \in CostTy
    BY AddCostWraps
  <1> QED
    BY <1>1, <1>2 DEF Accumulate

\* Nothing is counted before the visit, of any module and mapping
\* (IRCostCalculator.h:21-24).
LEMMA CalcStarts ==
    ASSUME IsModule(ir), IsMapping(IRAsmMap), CalcStart
    PROVE  CalcInv
  <1> USE DEF CalcStart, EmptyMap
  <1>1. CalcTypeOK
    <2>1. visited \in 0 .. Len(ir)
      BY DEF IsModule
    <2>2. DOMAIN EmptyMap = {} /\ EmptyMap \in [DOMAIN EmptyMap -> CostTy]
      OBVIOUS
    <2> QED
      BY <2>1, <2>2 DEF CalcTypeOK
  <1>2. \A x \in Inst : CountedAsm(x) = {} /\ GetInstCost(x) = 0
    BY DEF CountedAsm, GetInstCost
  <1>3. \A b \in Block : CountedAsmOf(b) = {} /\ GetBlockCost(b) = 0
    BY <1>2 DEF CountedAsmOf, GetBlockCost
  <1>4. Congruent(0, 0)
    <2>1. 0 = 0 + 0 * Width
      BY CostModelAssumption DEF Width
    <2> QED
      BY <2>1 DEF Congruent
  <1>5. SumsCongruent
    BY <1>2, <1>3, <1>4, TotalCostAssumption DEF SumsCongruent
  <1>6. LoopOverCurrent /\ CountedPriced /\ CompleteWhenDone
    BY <1>2 DEF LoopOverCurrent, CountedPriced, CompleteWhenDone
  <1> QED
    BY <1>1, <1>5, <1>6 DEF CalcInv

\* Taking up the next instruction counts nothing (IRCostCalculator.cpp:11-19).
LEMMA VisitInv == CalcInv /\ VisitInstruction => CalcInv'
  <1> SUFFICES ASSUME CalcInv, VisitInstruction PROVE CalcInv'
    OBVIOUS
  <1> USE DEF VisitInstruction
  <1>1. /\ IsModule(ir) /\ IsMapping(IRAsmMap)
        /\ visited \in 0 .. Len(ir) /\ visited + 1 \in 1 .. Len(ir)
    BY DEF CalcInv, CalcTypeOK, IsModule
  <1>2. ir[visited + 1] \in LocatedInst
    BY <1>1 DEF IsModule
  <1>3. ir[visited + 1].id \in Inst
    BY <1>2 DEF LocatedInst
  <1>4. CalcTypeOK'
    BY <1>1, <1>3 DEF CalcInv, CalcTypeOK, IsMapping
  <1>5. \A x \in Inst : CountedAsm(x)' = CountedAsm(x)
    <2> SUFFICES ASSUME NEW x \in Inst, NEW a \in IRAsmMap[x]
                 PROVE  (\E k \in 1 .. visited + 1 :
                            ir[k].id = x /\ (k = visited + 1 => a \notin IRAsmMap[ir[visited + 1].id]))
                        <=> (\E k \in 1 .. visited :
                            ir[k].id = x /\ (k = visited => a \notin asmLeft))
      BY DEF CountedAsm
    <2> QED
      BY <1>1
  <1>6. \A b \in Block : CountedAsmOf(b)' = CountedAsmOf(b)
    BY <1>5 DEF CountedAsmOf
  <1>7. SumsCongruent'
    <2>1. \A b \in Block : GetBlockCost(b)' = GetBlockCost(b)
      BY DEF GetBlockCost
    <2>2. \A x \in Inst : GetInstCost(x)' = GetInstCost(x)
      BY DEF GetInstCost
    <2> QED
      BY <1>5, <1>6, <2>1, <2>2 DEF CalcInv, SumsCongruent, Congruent
  <1>8. LoopOverCurrent' /\ CountedPriced' /\ CompleteWhenDone'
    BY <1>1, <1>5 DEF CalcInv, LoopOverCurrent, CountedPriced, CompleteWhenDone, CurrentInst
  <1> QED
    BY <1>4, <1>7, <1>8 DEF CalcInv

\* One turn of the loop adds one price to one instruction and its block, and
\* that assembly instruction was counted for nobody before
\* (IRCostCalculator.cpp:20-24).
LEMMA AddInv == ASSUME NEW a PROVE CalcInv /\ AddAsmCost(a) => CalcInv'
  <1> SUFFICES ASSUME CalcInv, AddAsmCost(a) PROVE CalcInv'
    OBVIOUS
  <1> USE DEF AddAsmCost
  <1>1. /\ IsModule(ir) /\ IsMapping(IRAsmMap)
        /\ visited \in 1 .. Len(ir)
    BY DEF CalcInv, CalcTypeOK, IsModule, LoopOverCurrent
  <1> PICK x \in Inst : x = CurrentInst
    <2>1. ir[visited] \in LocatedInst
      BY <1>1 DEF IsModule
    <2> QED
      BY <2>1 DEF LocatedInst, CurrentInst
  <1> DEFINE b == BlockOf[x]
             cost == Get(a.name)
  <1>2. x \in Inst /\ b \in Block
    BY BlockAssumption
  <1>3. a \in IRAsmMap[x] /\ a \in PricedInstruction
    <2>1. a \in IRAsmMap[x]
      BY <1>1 DEF CalcInv, LoopOverCurrent
    <2>2. a \in AssemblyInstruction
      BY <1>1, <1>2, <2>1 DEF IsMapping
    <2> QED
      BY <2>1, <2>2 DEF PricedInstruction
  <1>4. cost \in CostTy
    BY <1>3, CostModelAssumption DEF PricedInstruction, HasInst, Get
  <1>5. CountedAsm(x)' = CountedAsm(x) \cup {a} /\ a \notin CountedAsm(x)
    <2>1. \A k \in 1 .. visited : ir[k].id = x => k = visited
      BY <1>1 DEF IsModule, CurrentInst
    <2>2. visited \in 1 .. visited /\ ir[visited].id = x
      BY <1>1 DEF CurrentInst
    <2>3. CountedAsm(x) = {c \in IRAsmMap[x] : c \notin asmLeft}
      BY <2>1, <2>2 DEF CountedAsm
    <2>4. CountedAsm(x)' = {c \in IRAsmMap[x] : c \notin asmLeft'}
      BY <2>1, <2>2 DEF CountedAsm
    <2> QED
      BY <1>3, <2>3, <2>4
  <1>6. \A y \in Inst : y # x => CountedAsm(y)' = CountedAsm(y)
    <2> SUFFICES ASSUME NEW y \in Inst, y # x, NEW k \in 1 .. visited, ir[k].id = y
                 PROVE  k # visited
      BY DEF CountedAsm
    <2> QED
      BY DEF CurrentInst
  <1>7. CountedAsmOf(b)' = CountedAsmOf(b) \cup {a}
    BY <1>2, <1>5, <1>6 DEF CountedAsmOf
  <1>8. a \notin CountedAsmOf(b)
    <2> SUFFICES ASSUME NEW y \in Inst, a \in CountedAsm(y) PROVE FALSE
      BY DEF CountedAsmOf
    <2>1. a \in IRAsmMap[y]
      BY DEF CountedAsm
    <2>2. y = x
      BY <1>1, <1>2, <1>3, <2>1 DEF IsMapping
    <2> QED
      BY <1>5, <2>2
  <1>9. \A c \in Block : c # b => CountedAsmOf(c)' = CountedAsmOf(c)
    BY <1>6 DEF CountedAsmOf
  <1>10. /\ DOMAIN instCostMap \subseteq Inst
         /\ instCostMap \in [DOMAIN instCostMap -> CostTy]
         /\ DOMAIN blockCostMap \subseteq Block
         /\ blockCostMap \in [DOMAIN blockCostMap -> CostTy]
    BY DEF CalcInv, CalcTypeOK
  <1>11. /\ DOMAIN instCostMap' \subseteq Inst
         /\ instCostMap' \in [DOMAIN instCostMap' -> CostTy]
         /\ GetInstCost(x)' = AddCost(GetInstCost(x), cost)
         /\ \A y \in Inst : y # x => GetInstCost(y)' = GetInstCost(y)
    BY <1>2, <1>4, <1>10, Accumulated DEF GetInstCost
  <1>12. /\ DOMAIN blockCostMap' \subseteq Block
         /\ blockCostMap' \in [DOMAIN blockCostMap' -> CostTy]
         /\ GetBlockCost(b)' = AddCost(GetBlockCost(b), cost)
         /\ \A c \in Block : c # b => GetBlockCost(c)' = GetBlockCost(c)
    BY <1>2, <1>4, <1>10, Accumulated DEF GetBlockCost
  <1>13. CalcTypeOK'
    BY <1>11, <1>12 DEF CalcInv, CalcTypeOK
  <1>14. CountedPriced'
    BY <1>3, <1>5, <1>6 DEF CalcInv, CountedPriced
  <1>15. LoopOverCurrent' /\ CompleteWhenDone'
    BY <1>1 DEF CalcInv, LoopOverCurrent, CompleteWhenDone, CurrentInst
  <1>16. \A c \in Block : CountedAsmOf(c) \subseteq PricedInstruction
    BY DEF CalcInv, CountedPriced, CountedAsmOf
  <1>17. \A S \in SUBSET PricedInstruction :
             a \notin S => TotalCost(S) \in Int /\ TotalCost(S \cup {a}) = TotalCost(S) + cost
    BY <1>3, TotalCostAssumption
  <1>18. \A c \in Block : Congruent(TotalCost(CountedAsmOf(c)'), GetBlockCost(c)')
    <2> SUFFICES ASSUME NEW c \in Block
                 PROVE  Congruent(TotalCost(CountedAsmOf(c)'), GetBlockCost(c)')
      OBVIOUS
    <2>1. Congruent(TotalCost(CountedAsmOf(c)), GetBlockCost(c))
      BY DEF CalcInv, SumsCongruent
    <2>2. CASE c # b
      BY <1>9, <1>12, <2>1, <2>2
    <2>3. CASE c = b
      <3>1. GetBlockCost(b) \in CostTy /\ CostTy \subseteq Int
        BY <1>2, CostTypes DEF CalcInv
      <3>2. TotalCost(CountedAsmOf(b)) \in Int
            /\ TotalCost(CountedAsmOf(b) \cup {a}) = TotalCost(CountedAsmOf(b)) + cost
        BY <1>2, <1>8, <1>16, <1>17
      <3>3. GetBlockCost(b)' \in {GetBlockCost(b) + cost, GetBlockCost(b) + cost - Width,
                                  GetBlockCost(b) + cost + Width}
        BY <1>4, <1>12, <3>1, AddCostWraps
      <3>4. Congruent(TotalCost(CountedAsmOf(b)) + cost, GetBlockCost(b)')
        BY <1>4, <2>1, <2>3, <3>1, <3>2, <3>3, CongruentStep
      <3> QED
        BY <1>7, <2>3, <3>2, <3>4
    <2> QED
      BY <2>2, <2>3
  <1>19. \A y \in Inst : Congruent(TotalCost(CountedAsm(y)'), GetInstCost(y)')
    <2> SUFFICES ASSUME NEW y \in Inst
                 PROVE  Congruent(TotalCost(CountedAsm(y)'), GetInstCost(y)')
      OBVIOUS
    <2>1. Congruent(TotalCost(CountedAsm(y)), GetInstCost(y))
      BY DEF CalcInv, SumsCongruent
    <2>2. CASE y # x
      BY <1>6, <1>11, <2>1, <2>2
    <2>3. CASE y = x
      <3>1. GetInstCost(x) \in CostTy /\ CostTy \subseteq Int
        BY <1>2, CostTypes DEF CalcInv
      <3>2. TotalCost(CountedAsm(x)) \in Int
            /\ TotalCost(CountedAsm(x) \cup {a}) = TotalCost(CountedAsm(x)) + cost
        BY <1>2, <1>5, <1>17 DEF CalcInv, CountedPriced
      <3>3. GetInstCost(x)' \in {GetInstCost(x) + cost, GetInstCost(x) + cost - Width,
                                 GetInstCost(x) + cost + Width}
        BY <1>4, <1>11, <3>1, AddCostWraps
      <3>4. Congruent(TotalCost(CountedAsm(x)) + cost, GetInstCost(x)')
        BY <1>4, <2>1, <2>3, <3>1, <3>2, <3>3, CongruentStep
      <3> QED
        BY <1>5, <2>3, <3>2, <3>4
    <2> QED
      BY <2>2, <2>3
  <1>20. SumsCongruent'
    BY <1>18, <1>19 DEF SumsCongruent, Congruent
  <1> QED
    BY <1>13, <1>14, <1>15, <1>20 DEF CalcInv

\* A step that leaves the tables and the loop alone keeps the invariant: the
\* exception, the return, a stutter.
LEMMA UntouchedInv ==
    ASSUME CalcInv,
           UNCHANGED <<ir, IRAsmMap, visited, asmLeft, instCostMap, blockCostMap>>,
           calcPc' \in {"visit", "thrown", "done"},
           calcPc' = "done" => visited = Len(ir) /\ asmLeft = {}
    PROVE  CalcInv'
  <1>1. CalcTypeOK'
    BY DEF CalcInv, CalcTypeOK
  <1>2. \A x \in Inst : CountedAsm(x)' = CountedAsm(x) /\ GetInstCost(x)' = GetInstCost(x)
    BY DEF CountedAsm, GetInstCost
  <1>3. \A b \in Block : CountedAsmOf(b)' = CountedAsmOf(b) /\ GetBlockCost(b)' = GetBlockCost(b)
    BY <1>2 DEF CountedAsmOf, GetBlockCost
  <1>4. SumsCongruent'
    BY <1>2, <1>3 DEF CalcInv, SumsCongruent, Congruent
  <1>5. LoopOverCurrent' /\ CountedPriced' /\ CompleteWhenDone'
    BY <1>2 DEF CalcInv, LoopOverCurrent, CountedPriced, CompleteWhenDone, CurrentInst
  <1> QED
    BY <1>1, <1>4, <1>5 DEF CalcInv

--------------------------------------------------------------------------------
(* What the calculator promises. *)

\* The invariant holds at each point of the visit.
LEMMA CalcStep == CalcInv /\ [CalcNext]_calcVars => CalcInv'
  <1> SUFFICES ASSUME CalcInv, [CalcNext]_calcVars PROVE CalcInv'
    OBVIOUS
  <1>1. CASE VisitInstruction
    BY <1>1, VisitInv
  <1>2. ASSUME NEW a \in asmLeft, AddAsmCost(a) PROVE CalcInv'
    BY <1>2, AddInv
  <1>3. ASSUME NEW a \in asmLeft, UnknownOpcode(a) PROVE CalcInv'
    BY <1>3, UntouchedInv DEF UnknownOpcode
  <1>4. CASE Constructed
    BY <1>4, UntouchedInv DEF Constructed
  <1>5. CASE UNCHANGED calcVars
    BY <1>5, UntouchedInv DEF calcVars, CalcInv, CalcTypeOK, CompleteWhenDone
  <1> QED
    BY <1>1, <1>2, <1>3, <1>4, <1>5 DEF CalcNext

\* Of every behaviour, therefore.
THEOREM CalcInvariant == CalcSpec => []CalcInv
  <1>1. CalcInit => CalcInv
    BY CalcStarts, ModuleAssumption, MappingAssumption DEF CalcInit
  <1> QED BY <1>1, CalcStep, PTL DEF CalcSpec

\* Every variable stays in its type; no cost leaves std::int32_t
\* (IRCostCalculator.cpp:11-25).
THEOREM CalcTypeCorrect == CalcSpec => []CalcTypeOK
  <1>1. CalcInv => CalcTypeOK
    BY DEF CalcInv
  <1> QED
    BY <1>1, CalcInvariant, PTL

\* Both sums are exact whenever they can be.
LEMMA ExactFollows == CalcInv => BlockCostExact /\ InstCostExact
  BY CostTypes, CongruentEqual DEF CalcInv, BlockCostExact, InstCostExact, SumsCongruent

\* When the visit is over, what was counted is all that there was.
LEMMA CompleteFollows == CalcInv => BlockCostComplete
  <1> SUFFICES ASSUME CalcInv, calcPc = "done", NEW b \in Block
               PROVE  CountedAsmOf(b) =
                          UNION {IRAsmMap[ir[k].id] :
                                    k \in {j \in 1 .. Len(ir) : BlockOf[ir[j].id] = b}}
    BY ExactFollows DEF BlockCostComplete, BlockCostExact
  <1>1. visited = Len(ir) /\ asmLeft = {}
    BY DEF CalcInv, CompleteWhenDone
  <1>2. \A k \in 1 .. Len(ir) : ir[k] \in LocatedInst
    BY DEF CalcInv, CalcTypeOK, IsModule
  <1>3. \A k \in 1 .. Len(ir) : ir[k].id \in Inst
    BY <1>2 DEF LocatedInst
  <1>4. \A x \in Inst : CountedAsm(x) =
            {a \in IRAsmMap[x] : \E k \in 1 .. Len(ir) : ir[k].id = x}
    BY <1>1 DEF CountedAsm
  <1> QED
    BY <1>3, <1>4 DEF CountedAsmOf

\* A block's cost is exact whenever the exact cost is an std::int32_t, for every
\* order of the visit and every overflow on the way (IRCostCalculator.cpp:20-24).
THEOREM BlockCostCorrect == CalcSpec => []BlockCostExact
  BY ExactFollows, CalcInvariant, PTL

\* The same of an instruction's cost.
THEOREM InstCostCorrect == CalcSpec => []InstCostExact
  BY ExactFollows, CalcInvariant, PTL

\* What the constructor returns counts all the assembly of a block
\* (IRCostCalculator.h:21-24).
THEOREM BlockCostsComplete == CalcSpec => []BlockCostComplete
  BY CompleteFollows, CalcInvariant, PTL

--------------------------------------------------------------------------------
(* The metadata. *)

\* The calls that wrote metadata on x.
WritersOf(x) == {k \in DOMAIN generated : generated[k] = "inst" \/ IsTerminator(x)}

\* What the call k writes on an instruction it writes on.
WrittenBy(k, x) == IF generated[k] = "inst" THEN GetInstCost(x) ELSE GetBlockCost(BlockOf[x])

\* The last call that wrote on x is known by what x carries.
LastWritten(x) ==
    /\ x \in DOMAIN metadata <=> WritersOf(x) # {}
    /\ WritersOf(x) # {} =>
          \E k \in WritersOf(x) :
              (\A j \in WritersOf(x) : k >= j) /\ metadata[x] = WrittenBy(k, x)

MetadataInv ==
    /\ CalcInv
    /\ generated \in Seq({"inst", "block"})
    /\ generated # <<>> => calcPc = "done"
    /\ \A x \in ModuleIds : LastWritten(x)

\* The terminator found for the block of an instruction is in that block
\* (IRCostCalculator.cpp:54).
LEMMA TerminatorInBlock ==
    ASSUME CalcInv, NEW x \in ModuleIds
    PROVE  /\ GetTerminator(BlockOf[x]) \in ModuleIds
           /\ BlockOf[GetTerminator(BlockOf[x])] = BlockOf[x]
  <1> DEFINE places == {k \in DOMAIN ir : BlockOf[ir[k].id] = BlockOf[x]}
  <1>1. ir \in Seq(LocatedInst)
    BY DEF CalcInv, CalcTypeOK, IsModule
  <1>2. DOMAIN ir = 1 .. Len(ir) /\ Len(ir) \in Nat
    BY <1>1
  <1>3. places # {}
    BY DEF ModuleIds
  <1>4. places \subseteq 1 .. Len(ir)
    BY <1>2
  <1> HIDE DEF places
  <1>5. Max(places) \in places
    BY <1>2, <1>3, <1>4, LeastAndGreatest
  <1> QED BY <1>5 DEF places, GetTerminator, ModuleIds

\* A call of the last of the generators is the last writer of what it wrote on, and
\* leaves the others theirs (IRCostCalculator.cpp:27-60).
LEMMA GeneratedOnce ==
    ASSUME MetadataInv, NEW which \in {"inst", "block"}, Generating(which),
           NEW x \in ModuleIds,
           LET writes == which = "inst" \/ IsTerminator(x)
           IN  /\ x \in DOMAIN metadata' <=> x \in DOMAIN metadata \/ writes
               /\ x \in DOMAIN metadata /\ ~writes => metadata'[x] = metadata[x]
               /\ writes => metadata'[x] = IF which = "inst" THEN GetInstCost(x)
                                           ELSE GetBlockCost(BlockOf[x])
    PROVE  LastWritten(x)'
  <1>0. PICK n : n = Len(generated)
    OBVIOUS
  <1>w. PICK writes \in BOOLEAN : writes <=> which = "inst" \/ IsTerminator(x)
    OBVIOUS
  <1>1. generated \in Seq({"inst", "block"})
    BY DEF MetadataInv
  <1>2. /\ n \in Nat /\ DOMAIN generated = 1 .. n /\ DOMAIN generated' = 1 .. n + 1
        /\ generated'[n + 1] = which
        /\ \A k \in 1 .. n : generated'[k] = generated[k]
    BY <1>0, <1>1 DEF Generating
  <1>3. UNCHANGED calcVars
    BY DEF Generating
  <1>4. /\ IsTerminator(x)' = IsTerminator(x)
        /\ GetInstCost(x)' = GetInstCost(x) /\ GetBlockCost(BlockOf[x])' = GetBlockCost(BlockOf[x])
    BY <1>3 DEF calcVars, IsTerminator, GetTerminator, GetInstCost, GetBlockCost
  <1>5. /\ \A k \in 1 .. n : k \in WritersOf(x)' <=> k \in WritersOf(x)
        /\ n + 1 \in WritersOf(x)' <=> writes
        /\ WritersOf(x) \subseteq 1 .. n /\ WritersOf(x)' \subseteq 1 .. n + 1
    BY <1>w, <1>2, <1>4 DEF WritersOf
  <1>6. \A k \in WritersOf(x) : WrittenBy(k, x)' = WrittenBy(k, x)
    BY <1>2, <1>4, <1>5 DEF WrittenBy
  <1>7. WrittenBy(n + 1, x)' = IF which = "inst" THEN GetInstCost(x) ELSE GetBlockCost(BlockOf[x])
    BY <1>2, <1>4 DEF WrittenBy
  <1>8. LastWritten(x)
    BY DEF MetadataInv
  <1>9. CASE writes
    <2>1. n + 1 \in WritersOf(x)' /\ \A j \in WritersOf(x)' : n + 1 >= j
      BY <1>2, <1>5, <1>9
    <2>2. metadata'[x] = WrittenBy(n + 1, x)' /\ x \in DOMAIN metadata'
      BY <1>w, <1>7, <1>9
    <2> QED BY <2>1, <2>2 DEF LastWritten
  <1>10. CASE ~writes
    <2>1. WritersOf(x)' = WritersOf(x)
      <3>1. \A k \in 1 .. n + 1 : k # n + 1 => k \in 1 .. n
        BY <1>2
      <3>2. n + 1 \notin WritersOf(x)'
        BY <1>5, <1>10
      <3>3. WritersOf(x)' \subseteq 1 .. n
        BY <1>5, <3>1, <3>2
      <3> QED BY <1>5, <3>3
    <2>2. /\ x \in DOMAIN metadata => metadata'[x] = metadata[x]
          /\ x \in DOMAIN metadata' <=> x \in DOMAIN metadata
      BY <1>w, <1>10
    <2> QED BY <1>6, <1>8, <2>1, <2>2 DEF LastWritten
  <1> QED BY <1>9, <1>10

\* Both generators keep to that.
LEMMA GenerateInv ==
    ASSUME MetadataInv, GenerateInstCostMetadata \/ GenerateBlockCostMetadata
    PROVE  MetadataInv'
  <1>1. PICK which \in {"inst", "block"} :
            /\ Generating(which)
            /\ which = "inst" => GenerateInstCostMetadata
            /\ which = "block" => GenerateBlockCostMetadata
    BY DEF GenerateInstCostMetadata, GenerateBlockCostMetadata
  <1>2. CalcInv' /\ calcPc' = "done"
    BY <1>1, CalcStep DEF Generating, MetadataInv, calcVars
  <1>3. generated' \in Seq({"inst", "block"})
    BY <1>1 DEF Generating, MetadataInv
  <1>4. ModuleIds' = ModuleIds
    BY <1>1 DEF Generating, calcVars, ModuleIds
  <1>5. ASSUME NEW x \in ModuleIds PROVE LastWritten(x)'
    <2>1. CASE which = "inst"
      <3>1. /\ x \in DOMAIN metadata' /\ metadata'[x] = GetInstCost(x)
        BY <1>1, <2>1 DEF GenerateInstCostMetadata, SetMetadata
      <3> QED BY <1>1, <2>1, <3>1, GeneratedOnce
    <2>2. CASE which = "block"
      <3> DEFINE terminators == {GetTerminator(b) : b \in ModuleBlocks}
      <3>1. x \in terminators <=> IsTerminator(x)
        <4>1. ASSUME x \in terminators PROVE IsTerminator(x)
          <5>1. PICK y \in ModuleIds : x = GetTerminator(BlockOf[y])
            BY <4>1 DEF ModuleBlocks
          <5> QED BY <5>1, TerminatorInBlock DEF IsTerminator, MetadataInv
        <4>2. ASSUME IsTerminator(x) PROVE x \in terminators
          BY <4>2 DEF IsTerminator, ModuleBlocks
        <4> QED BY <4>1, <4>2
      <3> HIDE DEF terminators
      <3>2. metadata' = [y \in DOMAIN metadata \cup terminators |->
                            IF y \in terminators THEN GetBlockCost(BlockOf[y]) ELSE metadata[y]]
        BY <1>1, <2>2 DEF GenerateBlockCostMetadata, SetMetadata, terminators
      <3>3. /\ x \in DOMAIN metadata' <=> x \in DOMAIN metadata \/ IsTerminator(x)
            /\ IsTerminator(x) => metadata'[x] = GetBlockCost(BlockOf[x])
        BY <3>1, <3>2
      <3>4. x \in DOMAIN metadata /\ ~IsTerminator(x) => metadata'[x] = metadata[x]
        BY <3>1, <3>2
      <3> QED BY <1>1, <2>2, <3>3, <3>4, GeneratedOnce
    <2> QED BY <2>1, <2>2
  <1> QED BY <1>2, <1>3, <1>4, <1>5 DEF MetadataInv

LEMMA MetadataStarts == MetadataInit => MetadataInv
  <1> SUFFICES ASSUME MetadataInit PROVE MetadataInv
    OBVIOUS
  <1>1. CalcInv /\ generated \in Seq({"inst", "block"}) /\ generated = <<>>
    BY CalcStarts, ModuleAssumption, MappingAssumption DEF MetadataInit, CalcInit
  <1>2. ASSUME NEW x \in ModuleIds PROVE LastWritten(x)
    <2>1. DOMAIN metadata = {}
      BY DEF MetadataInit, EmptyMap
    <2>2. WritersOf(x) = {}
      BY <1>1 DEF WritersOf
    <2> QED BY <2>1, <2>2 DEF LastWritten
  <1> QED BY <1>1, <1>2 DEF MetadataInv

\* While the calculator works nothing has been generated, and behind that it stands
\* still.
LEMMA CalculatesFirst ==
    ASSUME MetadataInv, [CalcNext]_calcVars, UNCHANGED <<metadata, generated>>
    PROVE  MetadataInv'
  <1>1. CalcInv'
    BY CalcStep DEF MetadataInv
  <1>2. ir' = ir
    BY DEF CalcNext, VisitInstruction, AddAsmCost, UnknownOpcode, Constructed, calcVars
  <1>3. ModuleIds' = ModuleIds
    BY <1>2 DEF ModuleIds
  <1>4. generated' \in Seq({"inst", "block"})
    BY DEF MetadataInv
  <1>5. CASE UNCHANGED calcVars
    <2>1. ASSUME NEW x \in ModuleIds PROVE LastWritten(x)'
      <3>1. LastWritten(x)
        BY DEF MetadataInv
      <3>2. /\ IsTerminator(x)' = IsTerminator(x)
            /\ GetInstCost(x)' = GetInstCost(x) /\ GetBlockCost(BlockOf[x])' = GetBlockCost(BlockOf[x])
        BY <1>5 DEF calcVars, IsTerminator, GetTerminator, GetInstCost, GetBlockCost
      <3>3. WritersOf(x)' = WritersOf(x)
        BY <3>2 DEF WritersOf
      <3>4. \A k \in WritersOf(x) : WrittenBy(k, x)' = WrittenBy(k, x)
        BY <3>2 DEF WrittenBy
      <3> QED BY <3>1, <3>3, <3>4 DEF LastWritten
    <2> QED BY <1>1, <1>3, <1>4, <1>5, <2>1 DEF MetadataInv, calcVars
  <1>6. CASE CalcNext
    <2>1. calcPc = "visit"
      BY <1>6 DEF CalcNext, VisitInstruction, AddAsmCost, UnknownOpcode, Constructed
    <2>2. generated = <<>>
      BY <2>1 DEF MetadataInv
    <2>3. ASSUME NEW x \in ModuleIds PROVE LastWritten(x)'
      <3>1. WritersOf(x) = {} /\ WritersOf(x)' = {}
        BY <2>2 DEF WritersOf
      <3> QED BY <3>1 DEF LastWritten, MetadataInv
    <2> QED BY <1>1, <1>3, <1>4, <2>2, <2>3 DEF MetadataInv
  <1> QED BY <1>5, <1>6

\* However often and in whichever order the generators are called, each instruction
\* carries what was written on it last, and that is the true sum if a cost can be
\* (IRCostCalculator.cpp:27-60).
THEOREM MetadataCorrect == MetadataSpec => []MetadataExact
  <1>1. MetadataInv /\ [MetadataNext]_metadataVars => MetadataInv'
    BY GenerateInv, CalculatesFirst DEF MetadataNext, metadataVars
  <1>2. MetadataInv => MetadataExact
    <2> SUFFICES ASSUME MetadataInv, NEW x \in ModuleIds
                 PROVE  LET counted == IF generated[Max(WritersOf(x))] = "inst" THEN CountedAsm(x)
                                       ELSE CountedAsmOf(BlockOf[x])
                        IN  /\ x \in DOMAIN metadata <=> WritersOf(x) # {}
                            /\ WritersOf(x) # {} /\ TotalCost(counted) \in CostTy =>
                                  metadata[x] = TotalCost(counted)
      BY DEF MetadataExact, WritersOf
    <2>1. CalcInv /\ LastWritten(x)
      BY DEF MetadataInv
    <2>2. BlockCostExact /\ InstCostExact
      BY <2>1, ExactFollows
    <2>3. x \in Inst /\ BlockOf[x] \in Block
      <3>1. ir \in Seq(LocatedInst)
        BY <2>1 DEF CalcInv, CalcTypeOK, IsModule
      <3>2. DOMAIN ir = 1 .. Len(ir) /\ \A k \in 1 .. Len(ir) : ir[k] \in LocatedInst
        BY <3>1
      <3>3. \A k \in DOMAIN ir : ir[k].id \in Inst
        BY <3>2 DEF LocatedInst
      <3> QED BY <3>3, BlockAssumption DEF ModuleIds
    <2>4. ASSUME WritersOf(x) # {}
          PROVE  metadata[x] = WrittenBy(Max(WritersOf(x)), x)
      <3>1. PICK k \in WritersOf(x) :
                (\A j \in WritersOf(x) : k >= j) /\ metadata[x] = WrittenBy(k, x)
        BY <2>1, <2>4 DEF LastWritten
      <3>2. WritersOf(x) \subseteq Int
        BY DEF WritersOf, MetadataInv
      <3>3. \A m \in WritersOf(x) : (\A j \in WritersOf(x) : m >= j) => m = k
        BY <3>1, <3>2
      <3>4. Max(WritersOf(x)) = k
        BY <3>1, <3>3 DEF Max
      <3> QED BY <3>1, <3>4
    <2> QED BY <2>1, <2>2, <2>3, <2>4 DEF LastWritten, WrittenBy, BlockCostExact, InstCostExact
  <1> QED BY <1>1, <1>2, MetadataStarts, PTL DEF MetadataSpec

================================================================================
