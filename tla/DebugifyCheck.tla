----------------------------- MODULE DebugifyCheck -----------------------------
(***************************************************************************)
(* checkDebugifyMetadata of lib/opt/Debugify.cpp behind the debugify pass  *)
(* of IRLocator: a pass that is wrapped between the two loses locations    *)
(* and debug values, and the check tells which.  Checked with Strip, as    *)
(* for statistics over several passes, the module is ready to be debugified *)
(* and checked again, or to be located; without, as -check-debugify does,  *)
(* it is the end.  Both passes exist for modules and for functions, one    *)
(* function after the other.                                               *)
(***************************************************************************)
EXTENDS IRLocator

CONSTANT MaxPasses      \* how many passes are wrapped, at most

VARIABLES
    wrapped,    \* "module"; "function" as -debugify-function, "each" with Strip
    Stats,      \* the DebugifyStatistics of the passes' name
    report,     \* what the last check printed: missing lines and variables, PASS or FAIL
    losses      \* history: the same, as the wrapped passes caused it, with the functions

checkVars == <<wrapped, Stats, report, losses>>

allVars == <<locVars, checkVars>>

NothingMissing == [lines |-> {}, vars |-> {}, HasErrors |-> FALSE]

CheckInit ==
    /\ LocateInit
    /\ wrapped = "module"
    /\ Stats = [NumDbgValuesMissing |-> 0, NumDbgValuesExpected |-> 0,
                NumDbgLocsMissing |-> 0, NumDbgLocsExpected |-> 0]
    /\ report = NothingMissing
    /\ losses = <<>>

\* The passes there are: registered by name, where the check strips nothing, or
\* created by opt -debugify-each, where it does.
Wrappings == {"module", "function", "each"}
FunctionPasses == Wrappings \ {"module"}

\* A function pass is run on the functions that have a body, one after the other.
Definitions == ToSet(functionOf)

\* Mutant: the function check looks at the whole module.
GivenAll == Functions

\* The functions the passes are given now, by the two kinds of passes.
GivenToModulePass == Functions
GivenToFunctionPass == {LastF}

Given == IF wrapped = "module" THEN GivenToModulePass ELSE GivenToFunctionPass

DebugifyFunction ==
    /\ wrapped' \in IF losses = <<>> THEN FunctionPasses ELSE {wrapped} \cap FunctionPasses
    /\ \E f \in Definitions :
          /\ LastF < f /\ \A g \in Definitions : LastF < g => f <= g
          /\ ApplyDebugifyMetadata(f, f)
    /\ UNCHANGED <<Stats, report, losses>>

FunctionsDone ==
    /\ wrapped # "module" /\ locPc = "debugify" /\ \A f \in Definitions : f <= LastF
    /\ locPc' = "checked"
    /\ UNCHANGED <<code, program, debugInfo, counters, cursors, checkVars>>

\* The places of the functions that are not skipped, without and with dbg.values.
PlacesOf(fs) ==
    UNION {{b} \X DOMAIN code[b] :
              b \in {c \in DOMAIN code : functionOf[c] \in fs /\ ~IsFunctionSkipped(functionOf[c])}}
Places == PlacesOf(Given)
DbgPlaces == {p \in Places : code[p[1]][p[2]].kind = "dbg"}
InstPlaces == Places \ DbgPlaces

At(p) == code[p[1]][p[2]]

Losing(missing) == losses' = Append(losses, [of |-> Given, missing |-> missing])

\* A pass that was given a debugified module, or function: one that loses nothing,
\* one that drops the location of an instruction, takes its line away or gives it line
\* 1, and one that drops a debug value or shrinks what it describes.
WrappedPass ==
    /\ locPc = "erase" /\ BB = 1 /\ I = 1
    /\ wrapped = "module" => Len(losses) < MaxPasses
    /\ \/ code' = code /\ Losing(NothingMissing)
       \/ /\ wrapped # "function"
          /\ \/ \E p \in InstPlaces, line \in {0, NoLine, 1} :
                    /\ line # At(p).line
                    /\ code' = [code EXCEPT ![p[1]][p[2]].line = line]
                    /\ Losing([NothingMissing EXCEPT !.lines = {At(p).line},
                                                     !.HasErrors = (line = 0)])
             \/ \E p \in DbgPlaces :
                    /\ code' = [code EXCEPT ![p[1]] = RemoveAt(@, p[2])]
                    /\ Losing([NothingMissing EXCEPT !.vars = {At(p).var}])
             \/ \E p \in DbgPlaces :
                    /\ code' = [code EXCEPT ![p[1]][p[2]].sized = FALSE]
                    /\ Losing([NothingMissing EXCEPT !.vars = {At(p).var},
                                                     !.HasErrors = TRUE])
    /\ locPc' = "check"
    /\ UNCHANGED <<program, debugInfo, counters, cursors, wrapped, Stats, report>>

OriginalNumLines == debugifyMD[1]
OriginalNumVars == debugifyMD[2]

\* diagnoseMisSizedDbgValue.
HasBadSize(dvi) == ~dvi.sized

\* Mutant: a dbg.value that is diagnosed is counted as well.
MissingVarsSeen == (1 .. OriginalNumVars) \ {At(p).var : p \in DbgPlaces}

MissingVars == (1 .. OriginalNumVars) \ {At(p).var : p \in {q \in DbgPlaces : ~HasBadSize(At(q))}}

MissingLines == (1 .. OriginalNumLines) \ {At(p).line : p \in InstPlaces}

Checked ==
    [lines |-> MissingLines, vars |-> MissingVars,
     HasErrors |-> \/ \E p \in InstPlaces : At(p).line = 0
                   \/ \E p \in DbgPlaces : HasBadSize(At(p))]

\* The early return for a module that was not debugified, or has been stripped.
CheckSkipped ==
    /\ wrapped = "module"
    /\ locPc \in {"debugify", "check"} /\ debugifyMD = <<>>
    /\ locPc' = "checked"
    /\ UNCHANGED <<code, program, debugInfo, counters, cursors, checkVars>>

\* As -check-debugify.
CheckDebugify ==
    /\ locPc = "check" /\ debugifyMD # <<>> /\ wrapped # "each"
    /\ report' = Checked
    /\ locPc' = IF wrapped = "module" THEN "checked" ELSE "debugify"
    /\ UNCHANGED <<code, program, debugInfo, counters, cursors, wrapped, Stats, losses>>

\* Mutant: the operands of llvm.debugify stay.
CheckAndStripDebugInfo ==
    /\ locPc = "check" /\ debugifyMD # <<>> /\ wrapped # "function"
    /\ report' = Checked
    /\ Stats' = [NumDbgLocsExpected |-> Stats.NumDbgLocsExpected + OriginalNumLines,
                 NumDbgLocsMissing |-> Stats.NumDbgLocsMissing + Cardinality(MissingLines),
                 NumDbgValuesExpected |-> Stats.NumDbgValuesExpected + OriginalNumVars,
                 NumDbgValuesMissing |-> Stats.NumDbgValuesMissing + Cardinality(MissingVars)]
    /\ code' = [b \in DOMAIN code |->
                   [i \in DOMAIN WithoutDbg(code[b]) |->
                       [WithoutDbg(code[b])[i] EXCEPT !.line = 0]]]
    /\ dbgCU' = FALSE
    /\ debugifyMD' = debugifyMD
    /\ subprogram' = [f \in Functions |-> 0]
    /\ NextLine' = 1 /\ NextVar' = 1
    /\ locPc' = "debugify"
    /\ UNCHANGED <<program, cursors, wrapped, losses>>

\* The ratios, as fractions: both have the locations below the line.
GetMissingValueRatio(stats) == [over |-> stats.NumDbgValuesMissing, under |-> stats.NumDbgLocsExpected]
GetEmptyLocationRatio(stats) == [over |-> stats.NumDbgLocsMissing, under |-> stats.NumDbgLocsExpected]

\* A row of the file: all that is seen of the statistics.
ExportDebugifyStats(stats) ==
    [values |-> stats.NumDbgValuesMissing, locs |-> stats.NumDbgLocsMissing,
     valueRatio |-> GetMissingValueRatio(stats), locRatio |-> GetEmptyLocationRatio(stats)]

\* With a StatsMap and Strip; the next run of debugify starts counting anew.
CheckAndStrip ==
    /\ locPc = "check" /\ debugifyMD # <<>> /\ wrapped # "function"
    /\ report' = Checked
    /\ Stats' = [NumDbgLocsExpected |-> Stats.NumDbgLocsExpected + OriginalNumLines,
                 NumDbgLocsMissing |-> Stats.NumDbgLocsMissing + Cardinality(MissingLines),
                 NumDbgValuesExpected |-> Stats.NumDbgValuesExpected + OriginalNumVars,
                 NumDbgValuesMissing |-> Stats.NumDbgValuesMissing + Cardinality(MissingVars)]
    /\ code' = [b \in DOMAIN code |->
                   [i \in DOMAIN WithoutDbg(code[b]) |->
                       [WithoutDbg(code[b])[i] EXCEPT !.line = 0]]]
    /\ dbgCU' = FALSE
    /\ debugifyMD' = <<>>
    /\ subprogram' = [f \in Functions |-> 0]
    /\ NextLine' = 1 /\ NextVar' = 1
    /\ locPc' = "debugify"
    /\ UNCHANGED <<program, cursors, wrapped, losses>>

CheckNext ==
    \/ /\ wrapped = "module" \/ locPc \notin {"debugify", "erase"}
       /\ LocateNext /\ UNCHANGED checkVars
    \/ DebugifyFunction \/ FunctionsDone
    \/ WrappedPass \/ CheckSkipped \/ CheckDebugify \/ CheckAndStrip

\* Each pass is run until it returns.
CheckSpec == CheckInit /\ [][CheckNext]_allVars /\ WF_allVars(CheckNext)

--------------------------------------------------------------------------------

\* The check reports exactly the locations and debug values the pass lost, each by
\* its number, and fails exactly when a location is gone without another or a value
\* has the wrong size (Debugify.cpp:236-283, 293-296).  A function pass without Strip
\* only finds its first function debugified.
ReportIsExact ==
    losses # <<>> /\ locPc # "check" /\ (wrapped = "function" => Len(losses) = 1) =>
        report = Last(losses).missing

\* Over passes that are debugified, run, checked and stripped in turn, on modules or
\* on one function after the other, the statistics that are exported add up what each
\* of them lost and was expected to keep: nothing of a pass is left in the module for
\* the next, and no later debugify finds it unusable (Debugify.cpp:157-161, 285-291,
\* 298-303).  The ratio of the values is too small, never too large, since it is
\* taken of the locations (Debugify.h:45).
StatisticsAddUp ==
    locPc \in {"debugify", "aborted"} /\ wrapped # "function" =>
        LET InstsOf(l) == {p \in PlacesOf(l.of) : At(p).kind # "dbg"}
            ValuesOf(l) == {p \in InstsOf(l) : IsDescribed(p[1], p[2])}
            Sum(Op(_)) == FoldSeq(LAMBDA l, n : Cardinality(Op(l)) + n, 0, losses)
            row == ExportDebugifyStats(Stats)
        IN  /\ losses # <<>> => locPc # "aborted"
            /\ row.locs = Sum(LAMBDA l : l.missing.lines)
            /\ row.locRatio = [over |-> row.locs, under |-> Sum(InstsOf)]
            /\ row.values = Sum(LAMBDA l : l.missing.vars)
            /\ row.valueRatio.over = row.values
            /\ row.valueRatio.under >= Sum(ValuesOf) /\ Stats.NumDbgValuesExpected = Sum(ValuesOf)

================================================================================
