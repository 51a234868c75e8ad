------------------------------- MODULE IRLocator -------------------------------
(***************************************************************************)
(* lib/IRLocator.cpp and the pass it rests on, applyDebugifyMetadata of    *)
(* lib/opt/Debugify.cpp: give every instruction of a module a line number  *)
(* of its own, so that the .loc directives of the assembly name it.        *)
(*                                                                         *)
(* A module is the sequence of its blocks, in the order of their           *)
(* functions; a block is a sequence of instructions.  An instruction keeps *)
(* the id it had in the input, its block and its place there; a debug      *)
(* intrinsic (kind "dbg") carries the id of the value it describes.  Line  *)
(* 0 is no debug location.                                                 *)
(***************************************************************************)
EXTENDS Integers, SequencesExt

CONSTANTS
    Programs,       \* the input modules explored
    Asserts         \* whether the build checks assertions

\* The kinds of instructions the passes tell apart.  A block holds its phis,
\* then an EH pad if it is one, and ends with its terminator; a musttail call is
\* followed by nothing else.
ValueKind == {"phi", "pad", "value", "musttail"}
Kind == ValueKind \cup {"void", "term", "dbg"}

\* The line of an instruction: 0 without a DebugLoc, NoLine with one that has line 0.
NoLine == -1
Line == Nat \cup {NoLine}

\* What LLVM's verifier asks of a block: its phis come first, a musttail call is right
\* before the terminator, and that is the last instruction and no other; an id names
\* one instruction.
WellFormed(block) ==
    /\ block # <<>>
    /\ \A i \in DOMAIN block :
          /\ block[i].kind = "phi" => \A j \in 1 .. i : block[j].kind = "phi"
          /\ block[i].kind = "musttail" => i + 1 = Len(block)
          /\ block[i].kind = "term" <=> i = Len(block)
    /\ \A i, j \in DOMAIN block :
          block[i].kind # "dbg" /\ block[j].kind # "dbg" /\ block[i].id = block[j].id => i = j

\* The blocks stand in the order of their functions, and a definition has one at least.
IsProgram(P) ==
    /\ P.code \in Seq(Seq([id : (DOMAIN P.code) \X Nat, kind : Kind, line : Line]))
    /\ \A b \in DOMAIN P.code : WellFormed(P.code[b])
    /\ P.exact \in Seq(BOOLEAN)
    /\ P.functionOf \in Seq(DOMAIN P.exact) /\ Len(P.functionOf) = Len(P.code)
    /\ \A b, c \in DOMAIN P.code : b <= c => P.functionOf[b] <= P.functionOf[c]
    /\ \A f \in DOMAIN P.exact : P.exact[f] => \E b \in DOMAIN P.code : P.functionOf[b] = f
    /\ P.dbgCU \in BOOLEAN /\ P.debugifyMD \in Seq(Nat)
    /\ P.subprogram \in [DOMAIN P.exact -> Nat]

ASSUME ProgramAssumption == \A P \in Programs : IsProgram(P)

VARIABLES
    code,           \* the blocks
    functionOf,     \* block -> its function, a number
    exact,          \* function -> it has an exact definition
    dbgCU,          \* the named metadata llvm.dbg.cu exists
    debugifyMD,     \* operands of the named metadata llvm.debugify
    subprogram,     \* function -> line of its DISubprogram; 0 for none
    NextLine,
    NextVar,
    F,              \* the function being visited
    LastF,          \* the last one the pass was given
    BB,             \* the block being visited
    I,              \* the instruction being visited, by its place in the block
    InsertBefore,   \* where the next debug value goes
    locPc

program == <<functionOf, exact>>
debugInfo == <<dbgCU, debugifyMD, subprogram>>
counters == <<NextLine, NextVar>>
cursors == <<F, LastF, BB, I, InsertBefore>>
locVars == <<code, functionOf, exact, dbgCU, debugifyMD, subprogram,
             NextLine, NextVar, F, LastF, BB, I, InsertBefore, locPc>>

Functions == 1 .. Len(exact)

LocateInit ==
    /\ \E P \in Programs :
          /\ code = P.code
          /\ functionOf = P.functionOf
          /\ exact = P.exact
          /\ dbgCU = P.dbgCU
          /\ debugifyMD = P.debugifyMD
          /\ subprogram = P.subprogram
    /\ NextLine = 1 /\ NextVar = 1
    /\ F = 0 /\ LastF = 0 /\ BB = 0 /\ I = 0 /\ InsertBefore = 0
    /\ locPc = "strip"

--------------------------------------------------------------------------------
(* createStripSymbolsPass(true), of LLVM: no debug information is left.  The *)
(* named metadata of an earlier debugify run is none of it.                  *)

BodyOf(block) == {i \in DOMAIN block : block[i].kind # "dbg"}

PlaceInBody(block, i) == Cardinality({j \in BodyOf(block) : j <= i})

WithoutDbg(block) ==
    [n \in 1 .. Cardinality(BodyOf(block)) |->
        block[CHOOSE i \in BodyOf(block) : PlaceInBody(block, i) = n]]

\* Mutant: the compile units survive.
StripKeepingUnits ==
    /\ locPc = "strip"
    /\ code' = [b \in DOMAIN code |->
                   [i \in DOMAIN WithoutDbg(code[b]) |->
                       [WithoutDbg(code[b])[i] EXCEPT !.line = 0]]]
    /\ subprogram' = [f \in Functions |-> 0]
    /\ locPc' = "debugify"
    /\ UNCHANGED <<program, dbgCU, debugifyMD, counters, cursors>>

StripSymbols ==
    /\ locPc = "strip"
    /\ code' = [b \in DOMAIN code |->
                   [i \in DOMAIN WithoutDbg(code[b]) |->
                       [WithoutDbg(code[b])[i] EXCEPT !.line = 0]]]
    /\ dbgCU' = FALSE
    /\ subprogram' = [f \in Functions |-> 0]
    /\ locPc' = "debugify"
    /\ UNCHANGED <<program, debugifyMD, counters, cursors>>

--------------------------------------------------------------------------------
(* applyDebugifyMetadata. *)

\* A declaration, or a definition the linker may replace, is skipped.
IsFunctionSkipped(f) == ~exact[f]

IsEHPad(block) == \E i \in DOMAIN block : block[i].kind = "pad"

\* Mutant: without the special care for musttail calls.
FindTerminator(block) == Len(block)

FindTerminatingInstruction(block) ==
    IF Len(block) > 1 /\ block[Len(block) - 1].kind = "musttail"
    THEN Len(block) - 1
    ELSE Len(block)

\* Behind the phis and the pad.
FirstInsertionPt(block) ==
    SelectInSeq(block, LAMBDA inst : inst.kind \notin {"phi", "pad"})

\* The functions are a range, whose blocks are behind each other.  The early return:
\* a module that has debug information is left alone.
ApplyDebugifyMetadata(first, last) ==
    /\ locPc = "debugify"
    /\ LastF' = last
    /\ IF dbgCU THEN locPc' = "erase" /\ BB' = 1 /\ I' = 1 /\ UNCHANGED <<F, dbgCU>>
       ELSE /\ locPc' = "functions" /\ F' = first /\ dbgCU' = TRUE
            /\ BB' = 1 + SelectLastInSeq(functionOf, LAMBDA f : f < first)
            /\ UNCHANGED I
    /\ UNCHANGED <<code, program, debugifyMD, subprogram, counters, InsertBefore>>

EnterDebugify == ApplyDebugifyMetadata(1, Len(exact))

SkipFunction ==
    /\ locPc = "functions" /\ F <= LastF /\ IsFunctionSkipped(F)
    /\ F' = F + 1
    /\ BB' = IF \E b \in DOMAIN code : functionOf[b] = F
             THEN 1 + SelectLastInSeq(functionOf, LAMBDA f : f = F)
             ELSE BB
    /\ UNCHANGED <<code, program, debugInfo, counters, LastF, I, InsertBefore, locPc>>

BeginFunction ==
    /\ locPc = "functions" /\ F <= LastF /\ ~IsFunctionSkipped(F)
    /\ subprogram' = [subprogram EXCEPT ![F] = NextLine]
    /\ locPc' = "blocks"
    /\ UNCHANGED <<code, program, dbgCU, debugifyMD, counters, cursors>>

AtBlock == BB \in DOMAIN code /\ functionOf[BB] = F

\* The whole loop over a block's instructions; an EH pad gets nothing more.
AttachLocations ==
    /\ locPc = "blocks" /\ AtBlock
    /\ code' = [code EXCEPT ![BB] =
                   [i \in DOMAIN @ |-> [@[i] EXCEPT !.line = NextLine + i - 1]]]
    /\ NextLine' = NextLine + Len(code[BB])
    /\ IF IsEHPad(code[BB])
       THEN BB' = BB + 1 /\ UNCHANGED <<I, InsertBefore, locPc>>
       ELSE /\ I' = 1
            /\ InsertBefore' = FirstInsertionPt(code[BB])
            /\ locPc' = "values"
            /\ BB' = BB
    /\ UNCHANGED <<program, debugInfo, NextVar, F, LastF>>

LastInst == FindTerminatingInstruction(code[BB])

\* Mutant: the pointer is advanced in the body and in the loop's head.
SkipVoidTwice ==
    /\ locPc = "values" /\ I # LastInst
    /\ code[BB][I].kind \notin ValueKind
    /\ I' = I + 2
    /\ UNCHANGED <<code, program, debugInfo, counters, F, LastF, BB, InsertBefore, locPc>>

\* Mutant: a while loop, left by continue before the pointer is advanced.
SkipVoidStuck ==
    /\ locPc = "values" /\ I # LastInst
    /\ code[BB][I].kind \notin ValueKind
    /\ UNCHANGED locVars

SkipVoid ==
    /\ locPc = "values" /\ I # LastInst
    /\ code[BB][I].kind \notin ValueKind
    /\ I' = I + 1
    /\ UNCHANGED <<code, program, debugInfo, counters, F, LastF, BB, InsertBefore, locPc>>

\* The dbg.value of an instruction; sized tells that value and variable have one size.
DbgValue(inst) ==
    [id |-> inst.id, kind |-> "dbg", line |-> inst.line, var |-> NextVar, sized |-> TRUE]

\* Mutant: the loop steps over what it takes to be the value it inserted.
InsertDbgValueStepping ==
    /\ locPc = "values" /\ I # LastInst
    /\ code[BB][I].kind \in ValueKind
    /\ LET inst == code[BB][I]
           at == IF inst.kind \in {"phi", "pad"} THEN InsertBefore ELSE I + 1
       IN  /\ code' = [code EXCEPT ![BB] =
                          InsertAt(@, at, DbgValue(inst))]
           /\ InsertBefore' = at + 1
    /\ NextVar' = NextVar + 1
    /\ I' = I + 2
    /\ UNCHANGED <<program, debugInfo, NextLine, F, LastF, BB, locPc>>

\* The insertion point moves on once the phis are behind; it is a pointer, so
\* that what is inserted before it does not move it.
InsertDbgValue ==
    /\ locPc = "values" /\ I # LastInst
    /\ code[BB][I].kind \in ValueKind
    /\ LET inst == code[BB][I]
           at == IF inst.kind \in {"phi", "pad"} THEN InsertBefore ELSE I + 1
       IN  /\ code' = [code EXCEPT ![BB] =
                          InsertAt(@, at, DbgValue(inst))]
           /\ InsertBefore' = at + 1
    /\ NextVar' = NextVar + 1
    /\ I' = I + 1
    /\ UNCHANGED <<program, debugInfo, NextLine, F, LastF, BB, locPc>>

EndBlock ==
    /\ locPc = "values" /\ I = LastInst
    /\ BB' = BB + 1
    /\ locPc' = "blocks"
    /\ UNCHANGED <<code, program, debugInfo, counters, F, LastF, I, InsertBefore>>

EndFunction ==
    /\ locPc = "blocks" /\ ~AtBlock
    /\ F' = F + 1
    /\ locPc' = "functions"
    /\ UNCHANGED <<code, program, debugInfo, counters, LastF, BB, I, InsertBefore>>

\* Two operands are added, and asserted to be the only two.
TrackCounts ==
    /\ locPc = "functions" /\ F > LastF
    /\ debugifyMD' = debugifyMD \o <<NextLine - 1, NextVar - 1>>
    /\ IF Asserts /\ Len(debugifyMD') # 2
       THEN locPc' = "aborted" /\ UNCHANGED <<BB, I>>
       ELSE locPc' = "erase" /\ BB' = 1 /\ I' = 1
    /\ UNCHANGED <<code, program, dbgCU, subprogram, counters, F, LastF, InsertBefore>>

--------------------------------------------------------------------------------
(* The loop of IRLocator::run that removes the debug intrinsics again. *)

\* Mutant: any void call is taken for a debug intrinsic.
EraseVoidCall ==
    /\ locPc = "erase" /\ BB \in DOMAIN code /\ I \in DOMAIN code[BB]
    /\ IF code[BB][I].kind \in {"dbg", "void"}
       THEN code' = [code EXCEPT ![BB] = RemoveAt(@, I)] /\ I' = I
       ELSE I' = I + 1 /\ code' = code
    /\ UNCHANGED <<program, debugInfo, counters, F, LastF, BB, InsertBefore, locPc>>

EraseIntrinsic ==
    /\ locPc = "erase" /\ BB \in DOMAIN code /\ I \in DOMAIN code[BB]
    /\ IF code[BB][I].kind = "dbg"
       THEN code' = [code EXCEPT ![BB] = RemoveAt(@, I)] /\ I' = I
       ELSE I' = I + 1 /\ code' = code
    /\ UNCHANGED <<program, debugInfo, counters, F, LastF, BB, InsertBefore, locPc>>

EraseInNextBlock ==
    /\ locPc = "erase" /\ BB \in DOMAIN code /\ I \notin DOMAIN code[BB]
    /\ BB' = BB + 1
    /\ I' = 1
    /\ UNCHANGED <<code, program, debugInfo, counters, F, LastF, InsertBefore, locPc>>

Located ==
    /\ locPc = "erase" /\ BB \notin DOMAIN code
    /\ locPc' = "done"
    /\ UNCHANGED <<code, program, debugInfo, counters, cursors>>

LocateNext ==
    \/ StripSymbols
    \/ EnterDebugify \/ SkipFunction \/ BeginFunction \/ AttachLocations
    \/ SkipVoid \/ InsertDbgValue \/ EndBlock \/ EndFunction \/ TrackCounts
    \/ EraseIntrinsic \/ EraseInNextBlock \/ Located

\* A sequential pass: it is run until it returns.
LocateSpec == LocateInit /\ [][LocateNext]_locVars /\ WF_locVars(LocateNext)

--------------------------------------------------------------------------------

Instruction == [id : (DOMAIN code) \X Nat, kind : Kind, line : Line]
SyntheticValue == [id : (DOMAIN code) \X Nat, kind : {"dbg"}, line : Line, var : Nat, sized : BOOLEAN]

LocateTypeOK ==
    /\ \A b \in DOMAIN code : code[b] \in Seq(Instruction \cup SyntheticValue) /\ code[b] # <<>>
    /\ functionOf \in [DOMAIN code -> Functions]
    /\ exact \in [Functions -> BOOLEAN]
    /\ dbgCU \in BOOLEAN
    /\ debugifyMD \in Seq(Nat)
    /\ subprogram \in [Functions -> Nat]
    /\ NextLine \in Nat \ {0} /\ NextVar \in Nat \ {0}
    /\ F \in 0 .. Len(exact) + 1 /\ LastF \in 0 .. Len(exact)
    /\ BB \in 0 .. Len(code) + 1
    /\ locPc = "values" => I \in 1 .. LastInst /\ InsertBefore \in 1 .. Len(code[BB])
    /\ locPc \in {"strip", "debugify", "functions", "blocks", "values",
                  "erase", "aborted", "done", "check", "checked"}

\* The instructions of the functions that get locations, up to place i of block b.
CountedUpTo(b, i) ==
    i + Cardinality(UNION {{c} \X DOMAIN code[c] :
                              c \in {d \in 1 .. b - 1 : exact[functionOf[d]]}})

\* IRLocator returns with no intrinsic left and with the lines counting the
\* module's instructions 1, 2, 3 ... in program order, so that a line names one
\* instruction; what a skipped function had before is gone, and a function
\* starts at the line of its first instruction (Debugify.cpp:94-109,
\* IRLocator.cpp:17-32).
LinesNumberProgram ==
    locPc = "done" =>
        /\ \A b \in DOMAIN code : \A i \in DOMAIN code[b] :
              /\ code[b][i].kind # "dbg"
              /\ code[b][i].line = IF exact[functionOf[b]] THEN CountedUpTo(b, i) ELSE 0
        /\ \A f \in Functions :
              IF exact[f]
              THEN subprogram[f] = code[SelectInSeq(functionOf, LAMBDA g : g = f)][1].line
              ELSE subprogram[f] = 0

\* No step adds, removes or moves an instruction of the program itself, though
\* every loop edits the list it walks (Debugify.cpp:127-143, IRLocator.cpp:25-30).
BodyPreserved ==
    [][\A b \in DOMAIN code :
          LET then == WithoutDbg(code[b])
              now == WithoutDbg(code'[b])
          IN  /\ Len(now) = Len(then)
              /\ \A i \in DOMAIN then : /\ now[i].id = then[i].id
                                        /\ now[i].kind = then[i].kind]_locVars

\* The module can be used between any two steps of the passes, but for what others
\* make of it before it is checked: phis stay grouped
\* at the head of their block, nothing comes between a musttail call and its
\* return, and a debug value stands behind the value it describes, on its line
\* (Debugify.cpp:51-61, 122-143).
DebugValuesPlaced ==
    locPc \notin {"strip", "check", "checked"} =>
        \A b \in DOMAIN code : \A i \in DOMAIN code[b] :
            CASE code[b][i].kind = "phi" ->
                    \A j \in 1 .. i : code[b][j].kind = "phi"
              [] code[b][i].kind = "musttail" ->
                    i + 1 = Len(code[b]) /\ code[b][i + 1].kind = "term"
              [] code[b][i].kind = "dbg" ->
                    \E j \in 1 .. i - 1 :
                        /\ code[b][j].kind # "dbg"
                        /\ code[b][j].id = code[b][i].id
                        /\ code[b][j].line = code[b][i].line
              [] OTHER -> TRUE

IsDescribed(b, i) ==
    /\ exact[functionOf[b]]
    /\ ~IsEHPad(code[b])
    /\ code[b][i].kind \in ValueKind
    /\ i < FindTerminatingInstruction(code[b])

DescribedAt(b, i) ==
    {j \in DOMAIN code[b] : code[b][j].kind = "dbg" /\ code[b][j].id = code[b][i].id}

\* When debugify is over, each value before the terminating instruction of a
\* block that is no EH pad is described once, no other is, and the recorded
\* count of variables is the number of descriptions (Debugify.cpp:111-144, 158).
DebugifyComplete ==
    locPc = "erase" /\ BB = 1 /\ I = 1 /\ F > LastF =>
        /\ \A b \in DOMAIN code : \A i \in DOMAIN code[b] :
              code[b][i].kind # "dbg" =>
                  Cardinality(DescribedAt(b, i)) =
                      IF IsDescribed(b, i) /\ subprogram[functionOf[b]] # 0 THEN 1 ELSE 0
        /\ Last(debugifyMD) =
               Cardinality(UNION {{b} \X {i \in DOMAIN code[b] : code[b][i].kind = "dbg"} :
                                     b \in DOMAIN code})

\* The pass returns, or stops at the assertion, though it inserts behind the
\* place it walks from (Debugify.cpp:127-143).
LocateTerminates == <>(locPc \in {"done", "aborted", "checked"})

================================================================================
