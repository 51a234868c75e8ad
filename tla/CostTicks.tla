------------------------------- MODULE CostTicks -------------------------------
(***************************************************************************)
(* CoFloCoWrapper::cost2tick (lib/CoFloCoWrapper.cpp:28-48): the costs of  *)
(* the blocks become calls of a dummy function "tick" that the external    *)
(* llvm2kittel recognises by its name.                                     *)
(***************************************************************************)
EXTENDS IRLocator, IRCostCalculator, FiniteSetsExt

VARIABLES
    names,          \* function -> name
    calls,          \* instructions that call with one integer: callee and argument
    tickFunc,       \* the function cost2tick inserted; 0 before
    tickBB,         \* blocks annotated
    tickPc

tickVars == <<names, calls, tickFunc, tickBB, tickPc>>

TickInit ==
    /\ tickFunc = 0
    /\ tickBB = 0
    /\ tickPc = "rename"

\* Mutant: an existing "tick" keeps its name.
KeepExistingTick ==
    /\ tickPc = "rename"
    /\ tickPc' = "create"
    /\ UNCHANGED <<code, names, calls, tickFunc, tickBB>>

RenameExistingTick ==
    /\ tickPc = "rename"
    /\ names' = [f \in DOMAIN names |->
                    IF names[f] = "tick" THEN "__original_tick_function" ELSE names[f]]
    /\ tickPc' = "create"
    /\ UNCHANGED <<code, calls, tickFunc, tickBB>>

\* getOrInsertFunction: a function that has the name already is taken.
CreateTick ==
    /\ tickPc = "create"
    /\ names' = IF Contains(names, "tick") THEN names ELSE Append(names, "tick")
    /\ tickFunc' = SelectInSeq(names', LAMBDA n : n = "tick")
    /\ tickPc' = "annotate"
    /\ UNCHANGED <<code, calls, tickBB>>

TickCall(b) == [id |-> <<b, 0>>, kind |-> "tick", line |-> 0]

\* Mutant: the call is put at the end of the block.
AnnotateBlockEnd ==
    /\ tickPc = "annotate" /\ tickBB < Len(code)
    /\ tickBB' = tickBB + 1
    /\ LET b == tickBB + 1
       IN  IF b \in DOMAIN blockCostMap
           THEN /\ code' = [code EXCEPT ![b] = Append(@, TickCall(b))]
                /\ calls' = [x \in DOMAIN calls \cup {<<b, 0>>} |->
                                IF x = <<b, 0>> THEN [callee |-> tickFunc, arg |-> blockCostMap[b]]
                                ELSE calls[x]]
           ELSE UNCHANGED <<code, calls>>
    /\ UNCHANGED <<names, tickFunc, tickPc>>

AnnotateBlock ==
    /\ tickPc = "annotate" /\ tickBB < Len(code)
    /\ tickBB' = tickBB + 1
    /\ LET b == tickBB + 1
       IN  IF b \in DOMAIN blockCostMap
           THEN /\ code' = [code EXCEPT ![b] = InsertAt(@, Len(@), TickCall(b))]
                /\ calls' = [x \in DOMAIN calls \cup {<<b, 0>>} |->
                                IF x = <<b, 0>> THEN [callee |-> tickFunc, arg |-> blockCostMap[b]]
                                ELSE calls[x]]
           ELSE UNCHANGED <<code, calls>>
    /\ UNCHANGED <<names, tickFunc, tickPc>>

Annotated ==
    /\ tickPc = "annotate" /\ tickBB = Len(code)
    /\ tickPc' = "done"
    /\ UNCHANGED <<code, names, calls, tickFunc, tickBB>>

TickNext == RenameExistingTick \/ CreateTick \/ AnnotateBlock \/ Annotated

\* What llvm2kittel charges for running block b once: the arguments of its calls
\* of the function named "tick".
Billed(b) ==
    LET ticks == {i \in DOMAIN code[b] :
                     /\ code[b][i].id \in DOMAIN calls
                     /\ names[calls[code[b][i].id].callee] = "tick"}
    IN  MapThenSumSet(LAMBDA i : calls[code[b][i].id].arg, ticks)

================================================================================
