---------------------------- MODULE CostAttribution ----------------------------
(***************************************************************************)
(* The annotation half of gpscat-cost (tools/gpscat-cost.cpp:53-153): the  *)
(* module is located, compiled by llc, its assembly mapped back, the       *)
(* blocks' costs added up and written into the module as ticks.  One       *)
(* component runs after the other, each on what the one before left.       *)
(***************************************************************************)
EXTENDS Llc, MappingExtractor, CostTicks

\* The modules explored are the located ones, so that the extractor and the calculator
\* are given none of their own.  The files and mappings are what the stages make.
ASSUME AttributionAssumption ==
    /\ ".loc" \in Token /\ MachineOps \subseteq Token \ {".loc"}
    /\ Nobody \notin Inst
    /\ BlockOf = [x \in Inst |-> x[1]]
    /\ \A P \in Programs :
          /\ DOMAIN P.code \subseteq Block
          /\ \A b \in DOMAIN P.code : \A i \in BodyOf(P.code[b]) :
                P.code[b][i].id \in Inst /\ P.code[b][i].id[1] = b /\ P.code[b][i].id[2] # 0
          /\ Cardinality(UNION {{b} \X DOMAIN WithoutDbg(P.code[b]) : b \in DOMAIN P.code}) <= MaxLine
          /\ P.names \in Seq(STRING)
          /\ DOMAIN P.calls \subseteq Inst
          /\ \A x \in DOMAIN P.calls : x[2] # 0 /\ P.calls[x].callee \in DOMAIN P.names

\* The functions without locations that have code come before all others.  Behind one
\* of those, their assembly would stand under the last .loc before it.
SkippedFirst(P) ==
    \A f, g \in DOMAIN P.exact :
        P.exact[f] /\ ~P.exact[g] /\ (\E b \in DOMAIN P.code : P.functionOf[b] = g) => g < f

\* instructions(M): what the extractor and the calculator see of the blocks.
Instructions(blocks) ==
    FlattenSeq([b \in DOMAIN blocks |->
                   [i \in DOMAIN blocks[b] |->
                       [id |-> blocks[b][i].id, line |-> blocks[b][i].line]]])

locateVars == <<functionOf, exact, dbgCU, debugifyMD, subprogram,
                NextLine, NextVar, F, LastF, BB, I, InsertBefore, locPc>>
moduleVars == <<code, ir>>
emitVars == <<owner, emitFn, lastLoc, lastOwner, llcPc>>
extractVars == <<scanVars, instNum, instIDPtrMap, unjoined, mapPc>>
costVars == <<visited, asmLeft, instCostMap, blockCostMap, calcPc>>
vars == <<locateVars, moduleVars, asm, emitVars, extractVars, IRAsmMap, costVars, tickVars>>

Init ==
    /\ LocateInit
    /\ \E P \in Programs :
          /\ code = P.code /\ functionOf = P.functionOf /\ exact = P.exact
          /\ names = P.names /\ calls = P.calls
    /\ ir = Instructions(code)
    /\ LlcInit
    /\ MapStart
    /\ CalcStart
    /\ TickInit

Locate ==
    /\ LocateNext
    /\ ir' = Instructions(code')
    /\ UNCHANGED <<asm, emitVars, extractVars, IRAsmMap, costVars, tickVars>>

Compile ==
    /\ locPc = "done"
    /\ LlcNext
    /\ UNCHANGED <<locateVars, moduleVars, extractVars, IRAsmMap, costVars, tickVars>>

Extract ==
    /\ llcPc = "done"
    /\ MapNext
    /\ UNCHANGED <<locateVars, code, emitVars, costVars, tickVars>>

Calculate ==
    /\ mapPc = "done"
    /\ CalcNext
    /\ UNCHANGED <<locateVars, code, asm, emitVars, extractVars, tickVars>>

\* What the ticks add to a block is not seen by what came before.
Annotate ==
    /\ calcPc = "done"
    /\ TickNext
    /\ UNCHANGED <<locateVars, ir, asm, emitVars, extractVars, IRAsmMap, costVars>>

\* What -verbose 2 prints before that: three tables, whose lines are the instructions
\* or the blocks of the module in their order, numbered from 1 on.
PrintMapping == [lineNumber \in DOMAIN ir |-> IRAsmMap[ir[lineNumber].id]]

PrintInstCosts == [lineNumber \in DOMAIN ir |-> GetInstCost(ir[lineNumber].id)]

PrintBlockCosts == [lineNumber \in DOMAIN code |-> GetBlockCost(lineNumber)]

Next == Locate \/ Compile \/ Extract \/ Calculate \/ Annotate

Spec == Init /\ [][Next]_vars

--------------------------------------------------------------------------------

\* The priced lines of the assembly file that belong to instruction x.
OwnAsm(x) ==
    {a \in PricedInstruction :
        a.at \in DOMAIN asm /\ a.name = asm[a.at].head /\ owner[a.at] = x}

\* Once mapped, an instruction has exactly the assembly that was emitted for it,
\* never that of another instruction or function (IRLocator.cpp:15,
\* MappingExtractor.cpp:16-47).
MappedToOwner ==
    mapPc = "done" => \A x \in Inst : IRAsmMap[x] = OwnAsm(x)

\* Every opcode in the mapping is one the table prices, so that the calculator's
\* at() never throws (MappingExtractor.cpp:39, IRCostCalculator.cpp:21).
NeverThrows == calcPc # "thrown"

\* End to end: running a block once is billed exactly the cost of the assembly
\* emitted for its instructions, whatever llc's order, the join's and the
\* visit's, and whatever the module called "tick" itself before
\* (gpscat-cost.cpp:53-153).
BilledExact ==
    tickPc = "done" =>
        \A b \in DOMAIN code :
            LET own == UNION {OwnAsm(x) : x \in {y \in Inst : y[1] = b}}
            IN  TotalCost(own) \in CostTy => Billed(b) = TotalCost(own)

\* The three tables of -verbose 2 tell one story: what is printed for a block is what
\* is printed for its instructions, and both are the prices of the assembly printed
\* beside them; and an instruction has the number the .loc directives know it by,
\* unless a function was skipped (gpscat-cost.cpp:80-143, Debugify.cpp:106-109).
PrintedCostsAddUp ==
    calcPc = "done" /\ tickPc = "rename" =>
        /\ \A b \in DOMAIN code :
              LET rows == {k \in DOMAIN ir : ir[k].id[1] = b}
                  printed == UNION {PrintMapping[k] : k \in rows}
              IN  (\A k \in rows : TotalCost(PrintMapping[k]) \in CostTy) /\ TotalCost(printed) \in CostTy =>
                     /\ PrintBlockCosts[b] = TotalCost(printed)
                     /\ PrintBlockCosts[b] = SumFunctionOnSet(PrintInstCosts, rows)
        /\ (\A f \in DOMAIN exact : exact[f]) => \A k \in DOMAIN ir : ir[k].line = k

\* A tick is the last thing a block does before its terminator, and a block has
\* at most one (CoFloCoWrapper.cpp:41-45).
TicksBeforeTerminators ==
    \A b \in DOMAIN code : \A i \in DOMAIN code[b] :
        code[b][i].kind = "tick" => i + 1 = Len(code[b]) /\ code[b][i + 1].kind = "term"

================================================================================
