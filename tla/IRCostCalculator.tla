--------------------------- MODULE IRCostCalculator ---------------------------
(***************************************************************************)
(* lib/IRCostCalculator.cpp: the constructor visits every instruction of   *)
(* the module and adds the cost of each assembly instruction it was mapped *)
(* to, to the instruction's cost and to its block's.                       *)
(***************************************************************************)
EXTENDS IRModule

CONSTANTS
    Block,          \* the basic blocks of the module
    BlockOf,        \* the parent of an instruction
    AsmMaps         \* the mappings explored

ASSUME BlockAssumption == BlockOf \in [Inst -> Block]

VARIABLES
    visited,        \* instructions whose visit has begun
    asmLeft,        \* asmInstSet, less what its loop has been through
    instCostMap,    \* instruction -> cost, for instructions with an entry
    blockCostMap,   \* block -> cost, for blocks with an entry
    calcPc

calcVars == <<ir, IRAsmMap, visited, asmLeft, instCostMap, blockCostMap, calcPc>>

\* What MappingExtractor hands over: ChargedOnce of that module.
IsMapping(map) ==
    /\ map \in [Inst -> SUBSET AssemblyInstruction]
    /\ \A x, y \in Inst : x # y => map[x] \cap map[y] = {}

ASSUME MappingAssumption == \A map \in AsmMaps : IsMapping(map)

EmptyMap == [k \in {} |-> 0]

CalcStart ==
    /\ visited = 0
    /\ asmLeft = {}
    /\ instCostMap = EmptyMap
    /\ blockCostMap = EmptyMap
    /\ calcPc = "visit"

CalcInit ==
    /\ ir \in Modules
    /\ IRAsmMap \in AsmMaps
    /\ CalcStart

\* map[key] += cost: operator[] makes an entry of 0 for a key without one.
Accumulate(map, key, cost) ==
    [k \in DOMAIN map \cup {key} |->
        IF k # key THEN map[k]
        ELSE IF key \in DOMAIN map THEN AddCost(map[key], cost)
        ELSE cost]

CurrentInst == ir[visited].id

\* visitInstruction, up to its loop: an instruction without assembly has an
\* empty one.
VisitInstruction ==
    /\ calcPc = "visit" /\ asmLeft = {} /\ visited < Len(ir)
    /\ visited' = visited + 1
    /\ asmLeft' = IRAsmMap[ir[visited + 1].id]
    /\ UNCHANGED <<ir, IRAsmMap, instCostMap, blockCostMap, calcPc>>

\* Mutant: the cost of an instruction is assigned, not added.
AddAsmCostAssigning(a) ==
    /\ calcPc = "visit" /\ a \in asmLeft /\ HasInst(a.name)
    /\ asmLeft' = asmLeft \ {a}
    /\ instCostMap' = [k \in DOMAIN instCostMap \cup {CurrentInst} |->
                          IF k = CurrentInst THEN Get(a.name) ELSE instCostMap[k]]
    /\ blockCostMap' = Accumulate(blockCostMap, BlockOf[CurrentInst], Get(a.name))
    /\ UNCHANGED <<ir, IRAsmMap, visited, calcPc>>

\* One turn of the loop; the order of the vector is left open.
AddAsmCost(a) ==
    /\ calcPc = "visit" /\ a \in asmLeft /\ HasInst(a.name)
    /\ asmLeft' = asmLeft \ {a}
    /\ instCostMap' = Accumulate(instCostMap, CurrentInst, Get(a.name))
    /\ blockCostMap' = Accumulate(blockCostMap, BlockOf[CurrentInst], Get(a.name))
    /\ UNCHANGED <<ir, IRAsmMap, visited, calcPc>>

\* costModel.at throws out of the constructor.
UnknownOpcode(a) ==
    /\ calcPc = "visit" /\ a \in asmLeft /\ ~HasInst(a.name)
    /\ calcPc' = "thrown"
    /\ UNCHANGED <<ir, IRAsmMap, visited, asmLeft, instCostMap, blockCostMap>>

\* Mutant: the last instruction, a terminator, is not visited.
ConstructedEarly ==
    /\ calcPc = "visit" /\ asmLeft = {} /\ visited + 1 >= Len(ir)
    /\ calcPc' = "done"
    /\ UNCHANGED <<ir, IRAsmMap, visited, asmLeft, instCostMap, blockCostMap>>

Constructed ==
    /\ calcPc = "visit" /\ asmLeft = {} /\ visited = Len(ir)
    /\ calcPc' = "done"
    /\ UNCHANGED <<ir, IRAsmMap, visited, asmLeft, instCostMap, blockCostMap>>

CalcNext ==
    \/ VisitInstruction
    \/ \E a \in asmLeft : AddAsmCost(a) \/ UnknownOpcode(a)
    \/ Constructed

CalcSpec == CalcInit /\ [][CalcNext]_calcVars

GetInstCost(x) == IF x \in DOMAIN instCostMap THEN instCostMap[x] ELSE 0

GetBlockCost(b) == IF b \in DOMAIN blockCostMap THEN blockCostMap[b] ELSE 0

--------------------------------------------------------------------------------

\* The assembly of instruction x that has been through the loop.
CountedAsm(x) ==
    {a \in IRAsmMap[x] :
        \E k \in 1 .. visited : ir[k].id = x /\ (k = visited => a \notin asmLeft)}

\* The assembly of block b that has been through the loop.
CountedAsmOf(b) == UNION {CountedAsm(x) : x \in {y \in Inst : BlockOf[y] = b}}

CalcTypeOK ==
    /\ IsModule(ir)
    /\ IsMapping(IRAsmMap)
    /\ visited \in 0 .. Len(ir)
    /\ asmLeft \in SUBSET AssemblyInstruction
    /\ DOMAIN instCostMap \subseteq Inst
    /\ instCostMap \in [DOMAIN instCostMap -> CostTy]
    /\ DOMAIN blockCostMap \subseteq Block
    /\ blockCostMap \in [DOMAIN blockCostMap -> CostTy]
    /\ calcPc \in {"visit", "thrown", "done"}

\* A block's cost is the sum of the costs of its instructions' assembly counted
\* so far whenever that sum is a CostTy, even when a partial sum was not
\* (IRCostCalculator.cpp:20-24: both sums are in std::int32_t).
BlockCostExact ==
    \A b \in Block :
        TotalCost(CountedAsmOf(b)) \in CostTy =>
            GetBlockCost(b) = TotalCost(CountedAsmOf(b))

\* The same of an instruction.
InstCostExact ==
    \A x \in Inst :
        TotalCost(CountedAsm(x)) \in CostTy =>
            GetInstCost(x) = TotalCost(CountedAsm(x))

\* What the constructor returns is complete: a block's cost is that of all the
\* assembly its instructions were mapped to, its terminator's included; after an
\* exception there is no result (IRCostCalculator.h:21-24,
\* AssemblyCostModel.h:15-17).
BlockCostComplete ==
    calcPc = "done" =>
        \A b \in Block :
            LET all == UNION {IRAsmMap[ir[k].id] :
                                 k \in {j \in 1 .. Len(ir) : BlockOf[ir[j].id] = b}}
            IN  TotalCost(all) \in CostTy => GetBlockCost(b) = TotalCost(all)

================================================================================
