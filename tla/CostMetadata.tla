------------------------------ MODULE CostMetadata ------------------------------
(***************************************************************************)
(* generateInstCostMetadata and generateBlockCostMetadata of               *)
(* lib/IRCostCalculator.cpp: the costs of a calculator that has been       *)
(* constructed are written into the module.  Both use metadata of the kind *)
(* "cost", on the instructions and on the terminators of the blocks.       *)
(***************************************************************************)
EXTENDS IRCostCalculator, SequencesExt

CONSTANT MaxGenerated   \* how often the two are called, at most

VARIABLES
    metadata,       \* instruction -> its metadata of the kind "cost", where it has it
    generated       \* history: the calls made

metadataVars == <<calcVars, metadata, generated>>

MetadataInit == CalcInit /\ metadata = EmptyMap /\ generated = <<>>

ModuleIds == {ir[k].id : k \in DOMAIN ir}

ModuleBlocks == {BlockOf[x] : x \in ModuleIds}

\* The last of the block's instructions.
GetTerminator(b) == ir[Max({k \in DOMAIN ir : BlockOf[ir[k].id] = b})].id

IsTerminator(x) == x = GetTerminator(BlockOf[x])

Generating(which) ==
    /\ calcPc = "done" /\ Len(generated) < MaxGenerated
    /\ generated' = Append(generated, which)
    /\ UNCHANGED calcVars

\* What an instruction carries already is replaced.
SetMetadata(written) ==
    metadata' = [x \in DOMAIN metadata \cup DOMAIN written |->
                    IF x \in DOMAIN written THEN written[x] ELSE metadata[x]]

\* An instruction without an entry costs 0.
GenerateInstCostMetadata ==
    /\ Generating("inst")
    /\ SetMetadata([x \in ModuleIds |-> GetInstCost(x)])

\* Mutant: a block without an entry is left as it is.
GenerateKnownBlockCosts ==
    /\ Generating("block")
    /\ SetMetadata([x \in {GetTerminator(b) : b \in DOMAIN blockCostMap} |->
                       GetBlockCost(BlockOf[x])])

GenerateBlockCostMetadata ==
    /\ Generating("block")
    /\ SetMetadata([x \in {GetTerminator(b) : b \in ModuleBlocks} |->
                       GetBlockCost(BlockOf[x])])

MetadataNext ==
    \/ CalcNext /\ UNCHANGED <<metadata, generated>>
    \/ GenerateInstCostMetadata \/ GenerateBlockCostMetadata

MetadataSpec == MetadataInit /\ [][MetadataNext]_metadataVars

--------------------------------------------------------------------------------

\* However the two generators were called, an instruction that is no terminator
\* carries its own true cost or nothing, and a terminator that of its block or
\* its own, whichever was written last, also where nothing was charged
\* (IRCostCalculator.cpp:27-60).
MetadataExact ==
    \A x \in ModuleIds :
        LET writers == {k \in DOMAIN generated : generated[k] = "inst" \/ IsTerminator(x)}
            counted == IF generated[Max(writers)] = "inst" THEN CountedAsm(x)
                       ELSE CountedAsmOf(BlockOf[x])
        IN  /\ x \in DOMAIN metadata <=> writers # {}
            /\ writers # {} /\ TotalCost(counted) \in CostTy => metadata[x] = TotalCost(counted)

================================================================================
