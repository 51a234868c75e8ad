---------------------------- MODULE MCMappingAndCost ----------------------------
(***************************************************************************)
(* The extractor and, on the mapping it returns, the calculator and its    *)
(* generators, for inputs wider than those that llc makes: every assembly  *)
(* file of at most three lines of seven sorts, and of at most five of the  *)
(* three sorts that move cost about, with every way to give three          *)
(* instructions a line, two of them maybe the same.  The calculator is     *)
(* also given mappings that no extractor made: every way to map four       *)
(* assembly instructions, one without a price among them.  Costs of either *)
(* sign against a range of -4 .. 3 leave it on both sides, in partial sums *)
(* and in totals.                                                          *)
(***************************************************************************)
EXTENDS MappingExtractor, CostMetadata

VARIABLE extracting     \* whether the mapping is the extractor's

MCTotalCost(S) == MapThenSumSet(LAMBDA a : CostModel[a.name], S)

MCCostModel == [o \in {"add", "mul", "nop"} |->
                    IF o = "add" THEN 3 ELSE IF o = "mul" THEN -4 ELSE 1]

MCBlockOf == [x \in Inst |-> IF x = "i3" THEN "b2" ELSE "b1"]

Loc(i) == [head |-> ".loc", operand |-> i]
Plain(t) == [head |-> t, operand |-> NoOperand]

MCAsmFiles ==
    BoundedSeq({Loc(i) : i \in 0 .. 2} \cup {Plain(t) : t \in {".loc", "add", "mul", ".label"}}, 3)
        \cup BoundedSeq({Loc(1), Loc(2), Plain("add")}, 5)

\* Three instructions in their order, each with any line.
MCModules ==
    {<<>>} \cup
    {<<[id |-> "i1", line |-> a], [id |-> "i2", line |-> b], [id |-> "i3", line |-> c]>> :
        a \in 0 .. 1, b \in 0 .. 2, c \in 0 .. 2}

\* The lines of a file of four instructions, and who was given each of them.
Texts == {<<"add", "mul", "nop", "nop">>, <<"add", "add", "nop", "add">>,
          <<"mul", "mul", "add", "mul">>, <<"add", ".label", "mul", "nop">>}

MCAsmMaps ==
    {[x \in Inst |-> {[name |-> t[p], at |-> p] : p \in {q \in 1 .. 4 : to[q] = x}}] :
        t \in Texts, to \in [1 .. 4 -> Inst]}

--------------------------------------------------------------------------------

extractorVars == <<asm, scanVars, instNum, instIDPtrMap, unjoined, mapPc>>
calculatorVars == <<visited, asmLeft, instCostMap, blockCostMap, calcPc, metadata, generated>>

MCInit ==
    /\ MapInit
    /\ CalcStart
    /\ metadata = EmptyMap /\ generated = <<>>
    /\ extracting = TRUE

ExtractMapping == extracting /\ MapNext /\ UNCHANGED <<calculatorVars, extracting>>

\* The mapping does not depend on lines: the module without any stands for all.
GiveMapping ==
    /\ extracting /\ mapPc = "scan" /\ asm = <<>>
    /\ \A k \in DOMAIN ir : ir[k].line = 0
    /\ IRAsmMap' \in AsmMaps
    /\ extracting' = FALSE
    /\ UNCHANGED <<ir, extractorVars, calculatorVars>>

CalculateCosts ==
    /\ extracting => mapPc = "done"
    /\ MetadataNext
    /\ UNCHANGED <<extractorVars, extracting>>

MCNext == ExtractMapping \/ GiveMapping \/ CalculateCosts

MCSpec == MCInit /\ [][MCNext]_<<ir, IRAsmMap, extractorVars, calculatorVars, extracting>>

================================================================================
