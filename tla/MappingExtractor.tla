--------------------------- MODULE MappingExtractor ---------------------------
(***************************************************************************)
(* lib/MappingExtractor.cpp: which assembly instructions each LLVM         *)
(* instruction became.  extractMapping reads the assembly file line by     *)
(* line, gathering the instructions that follow each .loc under its line   *)
(* number; it then indexes the module's instructions by the line of their  *)
(* debug location, and joins the two tables on the line numbers.           *)
(*                                                                         *)
(* The assembly file and the module are only read.  An entry an            *)
(* unordered_map does not have is an empty vector (no vector that is       *)
(* stored is empty) or, for pointers, NoInst.                              *)
(***************************************************************************)
EXTENDS AssemblyFile, IRModule

CONSTANTS
    NoInst,         \* the pointer that instIDPtrMap does not have
    AsmFiles        \* the assembly files explored

ASSUME InstAssumption == NoInst \notin Inst

VARIABLES
    lineNum,            \* lines read
    currentLocLineno,
    IRIDAsmMap,         \* line number -> assembly instructions
    instNum,            \* instructions of the module indexed
    instIDPtrMap,       \* line number -> instruction
    unjoined,           \* line numbers the join has still to visit
    mapPc

scanVars == <<lineNum, currentLocLineno, IRIDAsmMap>>
joinVars == <<instNum, instIDPtrMap, unjoined, IRAsmMap>>
mapVars == <<asm, ir, lineNum, currentLocLineno, IRIDAsmMap,
             instNum, instIDPtrMap, unjoined, IRAsmMap, mapPc>>

\* No line of the module is past what the tables have entries for.
FitsTables(m) == \A k \in DOMAIN m : m[k].line \in InstructionID

ASSUME InputAssumption ==
    /\ \A file \in AsmFiles : IsAsmFile(file)
    /\ \A m \in Modules : FitsTables(m)

--------------------------------------------------------------------------------

\* The locals when the function is called.
MapStart ==
    /\ lineNum = 0
    /\ currentLocLineno = 0
    /\ IRIDAsmMap = [i \in InstructionID |-> {}]
    /\ instNum = 0
    /\ instIDPtrMap = [i \in InstructionID |-> NoInst]
    /\ unjoined = {}
    /\ IRAsmMap = [x \in Inst |-> {}]
    /\ mapPc = "scan"

MapInit ==
    /\ asm \in AsmFiles
    /\ ir \in Modules
    /\ MapStart

--------------------------------------------------------------------------------
(* Reading the assembly file. *)

IsLocDirective(l) == l.head = ".loc" /\ l.operand # NoOperand

\* Mutant: the table of costs is not asked.
IsAnyOtherLine(l) == ~IsLocDirective(l)

IsKnownInstruction(l) == ~IsLocDirective(l) /\ HasInst(l.head)

\* Mutant: a line number of 0 is taken for no information.
LocDirectiveIgnoringZero ==
    /\ mapPc = "scan" /\ lineNum < Len(asm)
    /\ IsLocDirective(asm[lineNum + 1])
    /\ lineNum' = lineNum + 1
    /\ currentLocLineno' = IF asm[lineNum + 1].operand = 0 THEN currentLocLineno
                           ELSE asm[lineNum + 1].operand
    /\ UNCHANGED <<asm, ir, IRIDAsmMap, joinVars, mapPc>>

LocDirective ==
    /\ mapPc = "scan" /\ lineNum < Len(asm)
    /\ IsLocDirective(asm[lineNum + 1])
    /\ lineNum' = lineNum + 1
    /\ currentLocLineno' = asm[lineNum + 1].operand
    /\ UNCHANGED <<asm, ir, IRIDAsmMap, joinVars, mapPc>>

KnownInstruction ==
    /\ mapPc = "scan" /\ lineNum < Len(asm)
    /\ IsKnownInstruction(asm[lineNum + 1])
    /\ lineNum' = lineNum + 1
    /\ IRIDAsmMap' =
          [IRIDAsmMap EXCEPT ![currentLocLineno] =
              @ \cup {[name |-> asm[lineNum + 1].head, at |-> lineNum + 1]}]
    /\ UNCHANGED <<asm, ir, currentLocLineno, joinVars, mapPc>>

\* Blank lines, labels, other directives, opcodes the table does not price.
OtherLine ==
    /\ mapPc = "scan" /\ lineNum < Len(asm)
    /\ ~IsLocDirective(asm[lineNum + 1])
    /\ ~IsKnownInstruction(asm[lineNum + 1])
    /\ lineNum' = lineNum + 1
    /\ UNCHANGED <<asm, ir, currentLocLineno, IRIDAsmMap, joinVars, mapPc>>

EndOfFile ==
    /\ mapPc = "scan" /\ lineNum = Len(asm)
    /\ mapPc' = "index"
    /\ UNCHANGED <<asm, ir, scanVars, joinVars>>

--------------------------------------------------------------------------------
(* Indexing the module, and the join. *)

\* Mutant: emplace for operator[], so that the first instruction stays.
IndexFirstInstruction ==
    /\ mapPc = "index" /\ instNum < Len(ir)
    /\ instNum' = instNum + 1
    /\ LET inst == ir[instNum + 1]
       IN  instIDPtrMap' = IF inst.line = 0 \/ instIDPtrMap[inst.line] # NoInst THEN instIDPtrMap
                           ELSE [instIDPtrMap EXCEPT ![inst.line] = inst.id]
    /\ UNCHANGED <<asm, ir, scanVars, unjoined, IRAsmMap, mapPc>>

\* A later instruction with the same line replaces an earlier one.
IndexInstruction ==
    /\ mapPc = "index" /\ instNum < Len(ir)
    /\ instNum' = instNum + 1
    /\ LET inst == ir[instNum + 1]
       IN  instIDPtrMap' = IF inst.line = 0 THEN instIDPtrMap
                           ELSE [instIDPtrMap EXCEPT ![inst.line] = inst.id]
    /\ UNCHANGED <<asm, ir, scanVars, unjoined, IRAsmMap, mapPc>>

StartJoin ==
    /\ mapPc = "index" /\ instNum = Len(ir)
    /\ unjoined' = {i \in InstructionID : IRIDAsmMap[i] # {}}
    /\ mapPc' = "join"
    /\ UNCHANGED <<asm, ir, scanVars, instNum, instIDPtrMap, IRAsmMap>>

\* Mutant: assembly without a line is added to every vector handed out.
JoinWithUnlocated(IRID) ==
    /\ mapPc = "join" /\ IRID \in unjoined
    /\ unjoined' = unjoined \ {IRID}
    /\ IRAsmMap' = IF instIDPtrMap[IRID] = NoInst THEN IRAsmMap
                   ELSE [IRAsmMap EXCEPT ![instIDPtrMap[IRID]] = IRIDAsmMap[IRID] \cup IRIDAsmMap[0]]
    /\ UNCHANGED <<asm, ir, scanVars, instNum, instIDPtrMap, mapPc>>

\* The order in which an unordered_map is walked is anybody's guess.  A line
\* that no instruction has is reported, or ignored when it is 0.
Join(IRID) ==
    /\ mapPc = "join" /\ IRID \in unjoined
    /\ unjoined' = unjoined \ {IRID}
    /\ IRAsmMap' = IF instIDPtrMap[IRID] = NoInst THEN IRAsmMap
                   ELSE [IRAsmMap EXCEPT ![instIDPtrMap[IRID]] = IRIDAsmMap[IRID]]
    /\ UNCHANGED <<asm, ir, scanVars, instNum, instIDPtrMap, mapPc>>

Return ==
    /\ mapPc = "join" /\ unjoined = {}
    /\ mapPc' = "done"
    /\ UNCHANGED <<asm, ir, scanVars, joinVars>>

MapNext ==
    \/ LocDirective \/ KnownInstruction \/ OtherLine \/ EndOfFile
    \/ IndexInstruction \/ StartJoin
    \/ \E IRID \in InstructionID : Join(IRID)
    \/ Return

MapSpec == MapInit /\ [][MapNext]_mapVars

--------------------------------------------------------------------------------
(* What the mapping should be, said of the file and the module alone. *)

\* Line p of a file is governed by line number i: i is what the last .loc at or
\* before p says, or 0 when there is none.
GovernedBy(file, p, i) ==
    \/ /\ i = 0
       /\ \A q \in 1 .. p : ~IsLocDirective(file[q])
    \/ \E q \in 1 .. p :
          /\ IsLocDirective(file[q])
          /\ file[q].operand = i
          /\ \A r \in (q + 1) .. p : ~IsLocDirective(file[r])

\* What the file's first n lines put under line number i.
GatheredBy(file, n, i) ==
    {a \in AssemblyInstruction :
        /\ a.at \in 1 .. n
        /\ IsKnownInstruction(file[a.at])
        /\ a.name = file[a.at].head
        /\ GovernedBy(file, a.at, i)}

\* The instruction x holds line i against the first n of a module.
HoldsLine(m, n, x, i) ==
    \E k \in 1 .. n :
        /\ m[k].id = x
        /\ m[k].line = i
        /\ \A j \in (k + 1) .. n : m[j].line # i

\* Types, with one fact of the program counter.
MapTypeOK ==
    /\ IsAsmFile(asm)
    /\ IsModule(ir) /\ FitsTables(ir)
    /\ lineNum \in 0 .. Len(asm)
    /\ currentLocLineno \in InstructionID
    /\ IRIDAsmMap \in [InstructionID -> SUBSET PricedInstruction]
    /\ instNum \in 0 .. Len(ir)
    /\ instIDPtrMap \in [InstructionID -> Inst \cup {NoInst}]
    /\ unjoined \in SUBSET InstructionID
    /\ IRAsmMap \in [Inst -> SUBSET AssemblyInstruction]
    /\ mapPc \in {"scan", "index", "join", "done"}

\* At every point of the scan, the table holds each known instruction read so
\* far, under the line number of the last .loc before it and under no other
\* (MappingExtractor.cpp:24-45: currentLocLineno carries over between lines).
ScanAttribution ==
    \A i \in InstructionID : IRIDAsmMap[i] = GatheredBy(asm, lineNum, i)

\* The mapping returned gives an instruction exactly the assembly governed by
\* the line it holds, whatever the order of the join; assembly under line 0,
\* or under a line no instruction holds, goes to nobody
\* (MappingExtractor.cpp:52-70).
MappingExact ==
    mapPc = "done" =>
        \A x \in Inst, a \in AssemblyInstruction :
            a \in IRAsmMap[x] <=>
                \E i \in InstructionID \ {0} :
                    HoldsLine(ir, Len(ir), x, i) /\ a \in GatheredBy(asm, Len(asm), i)

\* No assembly instruction is ever in the vectors of two LLVM instructions, so
\* that no cost is counted twice (MappingExtractor.cpp:64-69).
ChargedOnce ==
    \A x, y \in Inst : x # y => IRAsmMap[x] \cap IRAsmMap[y] = {}

================================================================================
