---------------------------- MODULE CostDriverProofs ----------------------------
(***************************************************************************)
(* Proofs about CostDriver, for every set of bounds cofloco may come up    *)
(* with: whatever programs are missing, fail or are killed, files exist    *)
(* while they are used, what an exit of any kind leaves behind is known,   *)
(* and a run nothing happened to prints what cofloco answered for it.      *)
(***************************************************************************)
EXTENDS CostDriver, TLAPS

\* The files that exist are those of S.
Here(S) == \A f \in TempFile : files[f] # "none" <=> f \in S

OfMain == {"map.bc", "map.s"}
OfWrapper == {"tmp.bc", "tmp.koat"}

\* The file that stays behind without cfg2ces.
Stranded ==
    IF "koat2cfg" \in installed /\ "cfg2ces" \notin installed THEN {"tmp.koat.cfg"} ELSE {}

\* The states before the first program and behind the last one.
Begun == pc \in {"read", "costModel"}
Answered == pc \in {"rewrite", "print", "cleanUp"}

At(t) == pc \in {"find", "run"} /\ tool = t

\* Which programs the place in the chain says are there.
ToolsFound ==
    /\ pc = "run" => tool \in installed
    /\ At("cfg2ces") => "koat2cfg" \in installed
    /\ pc = "removeCfg" => {"koat2cfg", "cfg2ces"} \subseteq installed
    /\ Begun => tool = "llc"
    /\ pc = "parse" \/ Answered => tool = "cofloco"

\* The answer is unset until it is parsed, and its text that of a bound as long as no
\* option was applied.
AnswerInPlace ==
    /\ pc \notin {"rewrite", "print", "cleanUp", "exited"} =>
          bound = "unset" /\ form = "unset" /\ solved = NoBound
    /\ Answered => bound # "unset"
    /\ pc = "rewrite" => form = "unset"
    /\ form \in {"unset", "nat"} /\ solved # NoBound => text = solved.nat

\* Which files exist, place by place.
FilesInPlace ==
    /\ pc \in {"read", "costModel"} => Here({})
    /\ At("llc") \/ pc = "annotate" => Here(OfMain)
    /\ At("llvm2kittel") \/ (pc = "find" /\ tool = "koat2cfg") =>
          Here(OfMain \cup OfWrapper \cup {"tmp.ces"})
    /\ (pc = "run" /\ tool = "koat2cfg") \/ At("cfg2ces") \/ pc = "removeCfg" =>
          Here(OfMain \cup OfWrapper \cup {"tmp.ces", "tmp.koat.cfg"})
    /\ pc = "removeRelations" => Here(OfMain \cup OfWrapper \cup {"tmp.ces"} \cup Stranded)
    /\ (pc = "find" /\ tool = "cofloco") \/ pc \in {"rewrite", "print", "cleanUp"} =>
          Here(OfMain \cup {"tmp.ces"} \cup Stranded)
    /\ (pc = "run" /\ tool = "cofloco") \/ pc = "parse" =>
          Here(OfMain \cup {"tmp.ces", "cofloco"} \cup Stranded)

\* When nothing was spoiled, the last file written is whole, and so is the bound.
WholeSoFar ==
    /\ At("llc") => files["map.bc"] = "whole"
    /\ spoiled = {} =>
          /\ pc = "annotate" => files["map.s"] = "whole"
          /\ At("llvm2kittel") => files["tmp.bc"] = "whole"
          /\ At("koat2cfg") => files["tmp.koat"] = "whole"
          /\ At("cfg2ces") => files["tmp.koat.cfg"] = "whole"
          /\ At("cofloco") \/ pc \in {"removeCfg", "removeRelations"} => files["tmp.ces"] = "whole"
          /\ pc = "parse" => files["cofloco"] = "whole"
          /\ pc \in {"rewrite", "print"} => bound = "whole" /\ solved \in Bounds
          /\ pc = "cleanUp" => printed = "whole" /\ solved \in Bounds

\* What the exits leave behind, and what a clean one printed.
Left ==
    /\ exitCode = 0 =>
          /\ Here((IF keepTemporaryFiles THEN OfMain \cup {"tmp.ces"} ELSE {}) \cup Stranded)
          /\ spoiled = {} => printed = "whole" /\ solved \in Bounds
    /\ exitCode = 1 => Here({})
    /\ exitCode = 3 => Here(OfMain)
    /\ exitCode \in {6, 11} =>
          /\ tool = "llc" => Here({})
          /\ tool # "llc" /\ bound = "unset" => Here(OfMain \cup {"tmp.ces", "cofloco"} \cup Stranded)
          /\ tool # "llc" /\ bound # "unset" => Here(OfMain \cup {"tmp.ces"} \cup Stranded)

Running == pc # "exited" <=> exitCode = -1

DriverInv ==
    TypeOK /\ ToolsFound /\ AnswerInPlace /\ FilesInPlace /\ WholeSoFar /\ Left /\ Running

--------------------------------------------------------------------------------

\* It holds before the first step.
LEMMA InitDriver == Init => DriverInv
<1>. SUFFICES ASSUME Init PROVE DriverInv
    OBVIOUS
<1>1. TypeOK
    BY DEF Init, TypeOK, Content, Tool, NoBound
<1>2. ToolsFound /\ AnswerInPlace /\ WholeSoFar /\ Left /\ Running
    BY DEF Init, ToolsFound, AnswerInPlace, WholeSoFar, Left, Running, At, Here, Begun, Answered
<1>3. FilesInPlace
    BY DEF Init, FilesInPlace, Here, At
<1>4. QED  BY <1>1, <1>2, <1>3 DEF DriverInv

\* Each step of the driver, and each way a program ends, keeps the invariant.
LEMMA StepDriver == DriverInv /\ [Next]_vars => DriverInv'
<1>. SUFFICES ASSUME DriverInv, [Next]_vars PROVE DriverInv'
    OBVIOUS
<1>. USE DEF DriverInv, TypeOK, ToolsFound, AnswerInPlace, Begun, Answered, FilesInPlace, WholeSoFar, Left, Running, Here, At,
            OfMain, OfWrapper, Stranded, Tool, TempFile, environment, answer
<1>1. CASE ReadModuleFails
    BY <1>1 DEF ReadModuleFails, Exit
<1>2. CASE ReadModule
    BY <1>2 DEF ReadModule
<1>3. CASE CostModelThrows
    BY <1>3 DEF CostModelThrows, Terminate, Exit
<1>4. CASE Locate
    BY <1>4 DEF Locate, Written, Find, Content
<1>5. CASE Annotate
    BY <1>5 DEF Annotate, Written, Find, Content
<1>6. CASE LlcMissing
    BY <1>6 DEF LlcMissing, Exit
<1>7. CASE Llvm2kittelMissing
    BY <1>7 DEF Llvm2kittelMissing, Find
<1>8. CASE ConverterMissing
    BY <1>8 DEF ConverterMissing
<1>9. CASE CoflocoMissing
    BY <1>9 DEF CoflocoMissing
<1>10. CASE StartTool
    <2>. USE <1>10 DEF StartTool
    <2>1. CASE tool = "koat2cfg"
        <3>1. files' = [files EXCEPT !["tmp.koat.cfg"] = "empty"]
            BY <2>1 DEF Written, Output, Content
        <3>2. QED  BY <2>1, <3>1 DEF Content
    <2>2. CASE tool = "cofloco"
        <3>1. files' = [files EXCEPT !["cofloco"] = "empty"]
            BY <2>2 DEF Written, Output, Content
        <3>2. QED  BY <2>2, <3>1 DEF Content
    <2>3. CASE tool \notin {"koat2cfg", "cofloco"}
        BY <2>3 DEF Written, Output, Content
    <2>4. QED  BY <2>1, <2>2, <2>3
<1>11. CASE ToolEnds
    BY <1>11 DEF ToolEnds, Written, Continue, Find, Output, Input, Timed, Content
<1>12. CASE ToolTimesOut
    BY <1>12 DEF ToolTimesOut, Written, Continue, Find, Output, Timed, Content
<1>13. CASE RemoveCfg
    BY <1>13 DEF RemoveCfg, Removed, Content
<1>14. CASE RemoveRelations
    BY <1>14 DEF RemoveRelations, Removed, Find, Content
<1>15. CASE ParseCoFloCoOutput
    BY <1>15 DEF ParseCoFloCoOutput, Removed, FindBound, FindCutBound, FindNoBound, Content
<1>16. CASE ParseThrows
    BY <1>16 DEF ParseThrows, Terminate, Exit
<1>17. CASE RewriteBound
    BY <1>17 DEF RewriteBound
<1>18. CASE RewriteFails
    BY <1>18 DEF RewriteFails, Exit
<1>19. CASE SymEngineThrows
    BY <1>19 DEF SymEngineThrows, Terminate, Exit
<1>20. CASE PrintBound
    BY <1>20 DEF PrintBound
<1>21. CASE CleanUp
    BY <1>21 DEF CleanUp, Removed, Exit, Content
<1>22. CASE UNCHANGED vars
    BY <1>22 DEF vars, Content
<1>23. QED
    BY <1>1, <1>2, <1>3, <1>4, <1>5, <1>6, <1>7, <1>8, <1>9, <1>10, <1>11, <1>12, <1>13, <1>14,
       <1>15, <1>16, <1>17, <1>18, <1>19, <1>20, <1>21, <1>22
    DEF Next, DriverStep

\* It therefore always holds.
LEMMA DriverInvariant == Spec => []DriverInv
BY InitDriver, StepDriver, PTL DEF Spec

--------------------------------------------------------------------------------

\* Every variable of the driver stays in its type: the contents of the files, and
\* the exit codes among them.
THEOREM DriverTypeCorrect == Spec => []TypeOK
<1>1. DriverInv => TypeOK
    BY DEF DriverInv
<1>2. QED  BY <1>1, DriverInvariant, PTL

\* No program is started before its files are created or after their removal.
THEOREM FilesOutlive == Spec => []FilesOutliveTheirUse
<1>1. DriverInv => FilesOutliveTheirUse
    BY DEF DriverInv, TypeOK, ToolsFound, FilesInPlace, Here, At, OfMain, OfWrapper, Stranded,
           FilesOutliveTheirUse, Existing, Input, Output, Tool, TempFile
<1>2. QED  BY <1>1, DriverInvariant, PTL

\* A run in which every program was found and finished its file prints what cofloco
\* answered for relations made from whole files of this module only; of a text that
\* -remove-nat changed nothing is said.
THEOREM CleanRunPrintsTheAnswer == Spec => []CleanRunPrintsAnswer
<1>1. DriverInv => CleanRunPrintsAnswer
    BY BoundsAssumption DEF DriverInv, Left, AnswerInPlace, CleanRunPrintsAnswer
<1>2. QED  BY <1>1, DriverInvariant, PTL

\* What each exit leaves behind is known, by a return, an exception, an abort or a
\* fault, whatever programs were missing, failed or killed.
THEOREM LeftoversKnown == Spec => []OnlyKnownLeftovers
<1>1. DriverInv => OnlyKnownLeftovers
    BY DEF DriverInv, TypeOK, Left, Here, OfMain, Stranded, OwnFiles, StrandedCfg,
           OnlyKnownLeftovers, Existing, TempFile
<1>2. QED  BY <1>1, DriverInvariant, PTL

================================================================================
