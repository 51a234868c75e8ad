------------------------------- MODULE CostDriver -------------------------------
(***************************************************************************)
(* main of tools/gpscat-cost.cpp with the stages of CoFloCoWrapper that    *)
(* run programs: five external programs read and write temporary files in  *)
(* a chain, any of them can be missing, fail, hang or be killed, and the   *)
(* driver never looks at how they ended.                                   *)
(*                                                                         *)
(* A file is known by how it came about: "none" when it does not exist,    *)
(* "empty" as createTemporaryFile makes it, "whole" when it is the         *)
(* complete result of its stage for this input module, "partial" when its  *)
(* writer did not finish, and "unfounded" when it is complete but was made *)
(* from something that is not whole.  Whether the costs in a whole file    *)
(* are the right ones is a question for CostAttribution.  The bound is     *)
(* also kept as the text that -remove-nat and -replace-nat rewrite.        *)
(***************************************************************************)
EXTENDS NatRewriting

CONSTANT Bounds     \* the bounds cofloco may come up with

Tool == {"llc", "llvm2kittel", "koat2cfg", "cfg2ces", "cofloco"}

\* The programs ExecuteAndWait kills after 60 seconds; it waits for the others.
Timed == {"llvm2kittel", "cofloco"}

TempFile == {"map.bc", "map.s", "tmp.bc", "tmp.koat", "tmp.koat.cfg", "tmp.ces", "cofloco"}

Content == {"none", "empty", "partial", "unfounded", "whole"}

\* The file a program reads, and the one it writes.
Input == [llc |-> "map.bc", llvm2kittel |-> "tmp.bc", koat2cfg |-> "tmp.koat",
          cfg2ces |-> "tmp.koat.cfg", cofloco |-> "tmp.ces"]

Output == [llc |-> "map.s", llvm2kittel |-> "tmp.koat", koat2cfg |-> "tmp.koat.cfg",
           cfg2ces |-> "tmp.ces", cofloco |-> "cofloco"]

VARIABLES
    keepTemporaryFiles,     \* the command line options that change the control
    symengineFormat,
    installed,      \* the programs findProgramByName finds
    files,
    tool,           \* the program looked for or running
    bound,          \* the upper bound: "unset", "blank" or what it is worth
    text,           \* the upper bound: costUpperBound
    solved,         \* history: the bound of which text is a writing, NoBound for none
    form,           \* history: which writing of it was asked for, "unset" before
    printed,        \* what the program printed, "unset" before
    spoiled,        \* history: programs missing, failed or killed
    exitCode,       \* -1 before the exit, 6 for an abort, 11 for a fault
    pc

environment == <<keepTemporaryFiles, symengineFormat, installed>>
answer == <<bound, text, solved, form>>

NoBound == Symbol("none")

ASSUME BoundsAssumption == NoBound \notin Bounds

vars == <<environment, files, tool, answer, printed, spoiled, exitCode, pc>>

Init ==
    /\ keepTemporaryFiles \in BOOLEAN
    /\ symengineFormat \in BOOLEAN
    /\ installed \in SUBSET Tool
    /\ files = [f \in TempFile |-> "none"]
    /\ tool = "llc"
    /\ bound = "unset" /\ text = <<>> /\ solved = NoBound /\ form = "unset"
    /\ printed = "unset"
    /\ spoiled = {}
    /\ exitCode = -1
    /\ pc = "read"

Find(t) == tool' = t /\ pc' = "find"

Exit(status) == exitCode' = status /\ pc' = "exited"

\* An exception nobody catches: std::terminate.
Terminate == Exit(6) /\ UNCHANGED <<environment, files, tool, answer, printed, spoiled>>

Written(fs) == [f \in TempFile |-> IF f \in DOMAIN fs THEN fs[f] ELSE files[f]]

Removed(F) == [f \in TempFile |-> IF f \in F THEN "none" ELSE files[f]]

--------------------------------------------------------------------------------
(* The steps of main up to the assembly. *)

ReadModuleFails ==
    /\ pc = "read"
    /\ Exit(1)
    /\ UNCHANGED <<environment, files, tool, answer, printed, spoiled>>

ReadModule ==
    /\ pc = "read"
    /\ pc' = "costModel"
    /\ UNCHANGED <<environment, files, tool, answer, printed, spoiled, exitCode>>

CostModelThrows == pc = "costModel" /\ Terminate

\* The cost model is loaded, the module located and written out for llc.
Locate ==
    /\ pc = "costModel"
    /\ files' = Written([f \in {"map.bc", "map.s"} |-> IF f = "map.bc" THEN "whole" ELSE "empty"])
    /\ Find("llc")
    /\ UNCHANGED <<environment, answer, printed, spoiled, exitCode>>

\* Mutant: the module is written out before the ticks are in it.
AnnotateTooLate ==
    /\ pc = "annotate"
    /\ files' = Written([f \in {"tmp.ces", "tmp.bc", "tmp.koat"} |->
                            IF f # "tmp.bc" THEN "empty" ELSE "unfounded"])
    /\ Find("llvm2kittel")
    /\ UNCHANGED <<environment, answer, printed, spoiled, exitCode>>

\* The assembly is mapped back, the module annotated with ticks and written out;
\* costs read from assembly that is not whole are unfounded.
Annotate ==
    /\ pc = "annotate"
    /\ files' = Written([f \in {"tmp.ces", "tmp.bc", "tmp.koat"} |->
                            IF f # "tmp.bc" THEN "empty"
                            ELSE IF files["map.s"] = "whole" THEN "whole" ELSE "unfounded"])
    /\ Find("llvm2kittel")
    /\ UNCHANGED <<environment, answer, printed, spoiled, exitCode>>

--------------------------------------------------------------------------------
(* Looking for a program and running it. *)

\* Mutant: the error code is returned as it is, which is ENOENT.
LlcMissingErrno ==
    /\ pc = "find" /\ tool = "llc" /\ tool \notin installed
    /\ Exit(2)
    /\ UNCHANGED <<environment, files, tool, answer, printed, spoiled>>

LlcMissing ==
    /\ pc = "find" /\ tool = "llc" /\ tool \notin installed
    /\ Exit(3)
    /\ UNCHANGED <<environment, files, tool, answer, printed, spoiled>>

Llvm2kittelMissing ==
    /\ pc = "find" /\ tool = "llvm2kittel" /\ tool \notin installed
    /\ Find("koat2cfg")
    /\ spoiled' = spoiled \cup {tool}
    /\ UNCHANGED <<environment, files, answer, printed, exitCode>>

\* Both leave convertToCoFloCoFormat, the second past its remove of tmp.koat.cfg.
ConverterMissing ==
    /\ pc = "find" /\ tool \in {"koat2cfg", "cfg2ces"} /\ tool \notin installed
    /\ pc' = "removeRelations"
    /\ spoiled' = spoiled \cup {tool}
    /\ UNCHANGED <<environment, files, tool, answer, printed, exitCode>>

CoflocoMissing ==
    /\ pc = "find" /\ tool = "cofloco" /\ tool \notin installed
    /\ bound' = "blank"
    /\ pc' = "rewrite"
    /\ spoiled' = spoiled \cup {tool}
    /\ UNCHANGED <<environment, files, tool, text, solved, form, printed, exitCode>>

\* Two of the programs get their output file only now.
StartTool ==
    /\ pc = "find" /\ tool \in installed
    /\ files' = Written([f \in {Output[tool]} \cap {"tmp.koat.cfg", "cofloco"} |-> "empty"])
    /\ pc' = "run"
    /\ UNCHANGED <<environment, tool, answer, printed, spoiled, exitCode>>

\* ExecuteAndWait returns; its result is dropped.
Continue ==
    \/ tool = "llc" /\ pc' = "annotate" /\ UNCHANGED tool
    \/ tool = "llvm2kittel" /\ Find("koat2cfg")
    \/ tool = "koat2cfg" /\ Find("cfg2ces")
    \/ tool = "cfg2ces" /\ pc' = "removeCfg" /\ UNCHANGED tool
    \/ tool = "cofloco" /\ pc' = "parse" /\ UNCHANGED tool

\* The program ends by itself, with success or not.
ToolEnds ==
    /\ pc = "run"
    /\ \E content \in {"empty", "partial",
                       IF files[Input[tool]] = "whole" THEN "whole" ELSE "unfounded"} :
          /\ files' = Written([f \in {Output[tool]} |-> content])
          /\ spoiled' = IF content \in {"empty", "partial"} THEN spoiled \cup {tool} ELSE spoiled
    /\ Continue
    /\ UNCHANGED <<environment, answer, printed, exitCode>>

\* Mutant: cofloco is started without a time limit.
OnlyKittelTimesOut ==
    /\ pc = "run" /\ tool = "llvm2kittel"
    /\ \E content \in {"empty", "partial"} : files' = Written([f \in {Output[tool]} |-> content])
    /\ spoiled' = spoiled \cup {tool}
    /\ Continue
    /\ UNCHANGED <<environment, answer, printed, exitCode>>

\* The 60 seconds are over: it is killed.
ToolTimesOut ==
    /\ pc = "run" /\ tool \in Timed
    /\ \E content \in {"empty", "partial"} : files' = Written([f \in {Output[tool]} |-> content])
    /\ spoiled' = spoiled \cup {tool}
    /\ Continue
    /\ UNCHANGED <<environment, answer, printed, exitCode>>

--------------------------------------------------------------------------------
(* The rest of the wrapper's stages and of main. *)

RemoveCfg ==
    /\ pc = "removeCfg"
    /\ files' = Removed({"tmp.koat.cfg"})
    /\ pc' = "removeRelations"
    /\ UNCHANGED <<environment, tool, answer, printed, spoiled, exitCode>>

\* Mutant: one of the two removes is forgotten.
RemoveBitcodeOnly ==
    /\ pc = "removeRelations"
    /\ files' = Removed({"tmp.bc"})
    /\ Find("cofloco")
    /\ UNCHANGED <<environment, answer, printed, spoiled, exitCode>>

\* Mutant: the output is removed with the intermediate files.
RemoveOutputToo ==
    /\ pc = "removeRelations"
    /\ files' = Removed({"tmp.bc", "tmp.koat", "tmp.ces"})
    /\ Find("cofloco")
    /\ UNCHANGED <<environment, answer, printed, spoiled, exitCode>>

RemoveRelations ==
    /\ pc = "removeRelations"
    /\ files' = Removed({"tmp.bc", "tmp.koat"})
    /\ Find("cofloco")
    /\ UNCHANGED <<environment, answer, printed, spoiled, exitCode>>

\* cofloco, which is external, names no maximum cost without relations.
Solvable == files["tmp.ces"] # "empty"

\* The line of the maximum cost is there and complete.
FindBound ==
    /\ Solvable /\ files["cofloco"] \notin {"empty", "partial"}
    /\ bound' = files["cofloco"]
    /\ solved' \in Bounds
    /\ text' = solved'.nat

\* It is cut off within the bound, or before its colon and then the bound itself.
FindCutBound ==
    /\ Solvable /\ files["cofloco"] = "partial"
    /\ bound' = "unfounded"
    /\ \/ \E b \in Bounds : \E n \in 1 .. Len(b.nat) : text' = SubSeq(b.nat, 1, n)
       \/ text' = <<"## Maximum cost">>
    /\ UNCHANGED solved

FindNoBound ==
    /\ files["cofloco"] # "whole"
    /\ bound' = "blank"
    /\ UNCHANGED <<text, solved>>

ParseCoFloCoOutput ==
    /\ pc = "parse"
    /\ FindBound \/ FindCutBound \/ FindNoBound
    /\ files' = Removed({"cofloco"})
    /\ pc' = "rewrite"
    /\ UNCHANGED <<environment, tool, form, printed, spoiled, exitCode>>

\* substr throws on a line that is cut off behind its colon.
ParseThrows == pc = "parse" /\ Solvable /\ files["cofloco"] = "partial" /\ Terminate

\* The two options, which nothing looks at before; they may be given together.
RewriteBound ==
    /\ pc = "rewrite"
    /\ \E removeNat, replaceNat \in BOOLEAN :
          LET exp == IF removeNat THEN RemoveNat(text) ELSE text
          IN  /\ ~(replaceNat /\ FailsToClose(exp))
              /\ text' = IF replaceNat THEN ReplaceNatWithMax(exp) ELSE exp
              /\ form' = IF removeNat THEN "plain" ELSE IF replaceNat THEN "max" ELSE "nat"
    /\ pc' = "print"
    /\ UNCHANGED <<environment, files, tool, bound, solved, printed, spoiled, exitCode>>

\* The assertion that the parenthesis is closed, or the stack that runs out; there
\* is no nat left where both options are given.
RewriteFails ==
    /\ pc = "rewrite" /\ FailsToClose(text)
    /\ Exit(6) \/ Exit(11)
    /\ UNCHANGED <<environment, files, tool, answer, printed, spoiled>>

\* SymEngine does not parse the bound.
SymEngineThrows == pc = "print" /\ symengineFormat /\ Terminate

\* What SymEngine makes of the text is left out.
PrintBound ==
    /\ pc = "print"
    /\ printed' = bound
    /\ pc' = "cleanUp"
    /\ UNCHANGED <<environment, files, tool, answer, spoiled, exitCode>>

CleanUp ==
    /\ pc = "cleanUp"
    /\ files' = IF keepTemporaryFiles THEN files ELSE Removed({"map.bc", "map.s", "tmp.ces"})
    /\ Exit(0)
    /\ UNCHANGED <<environment, tool, answer, printed, spoiled>>

DriverStep ==
    \/ ReadModuleFails \/ ReadModule \/ CostModelThrows \/ Locate \/ Annotate
    \/ LlcMissing \/ Llvm2kittelMissing \/ ConverterMissing \/ CoflocoMissing
    \/ StartTool
    \/ RemoveCfg \/ RemoveRelations \/ ParseCoFloCoOutput \/ ParseThrows
    \/ RewriteBound \/ RewriteFails \/ SymEngineThrows \/ PrintBound \/ CleanUp

Next == DriverStep \/ ToolEnds \/ ToolTimesOut

\* The driver runs, its timer expires, and the programs it waits for without a
\* limit end; a program with a limit may run for ever.
Fairness ==
    /\ WF_vars(DriverStep)
    /\ WF_vars(ToolTimesOut)
    /\ WF_vars(tool \notin Timed /\ ToolEnds)

Spec == Init /\ [][Next]_vars /\ Fairness

--------------------------------------------------------------------------------

TypeOK ==
    /\ keepTemporaryFiles \in BOOLEAN
    /\ symengineFormat \in BOOLEAN
    /\ installed \in SUBSET Tool
    /\ files \in [TempFile -> Content]
    /\ tool \in Tool
    /\ bound \in {"unset", "blank", "unfounded", "whole"}
    /\ form \in {"unset", "nat", "plain", "max"}
    /\ solved \in Bounds \cup {NoBound}
    /\ printed \in {"unset", "blank", "unfounded", "whole"}
    /\ spoiled \in SUBSET Tool
    /\ exitCode \in {-1, 0, 1, 3, 6, 11}
    /\ pc \in {"read", "costModel", "find", "run", "annotate", "removeCfg",
               "removeRelations", "parse", "rewrite", "print", "cleanUp", "exited"}

Existing == {f \in TempFile : files[f] # "none"}

\* A program that runs was given an input and an output file that exist: no
\* stage comes before the creation of its files or after their removal
\* (CoFloCoWrapper.cpp:78-118, gpscat-cost.cpp:61-78).
FilesOutliveTheirUse == pc = "run" => {Input[tool], Output[tool]} \subseteq Existing

\* When every program was found and finished its file, no stage used a file before it
\* was written or after it was cut: cofloco solved relations made, through whole files
\* only, from this module with its ticks, and what is printed is what it answered, in
\* its own words when no option rewrites them.  Under -remove-nat, which "Can lead to
\* incorrect upperbounds" (gpscat-cost.cpp:26), nothing is said of the result
\* (gpscat-cost.cpp:71-172).
CleanRunPrintsAnswer ==
    exitCode = 0 /\ spoiled = {} /\ form # "plain" =>
        /\ printed = "whole"
        /\ solved \in Bounds
        /\ form = "nat" => text = solved.nat

\* tmp.koat.cfg is removed behind cfg2ces, and stays when koat2cfg alone is found.
StrandedCfg == IF {"koat2cfg", "cfg2ces"} \cap installed = {"koat2cfg"} THEN {"tmp.koat.cfg"} ELSE {}

OwnFiles == {"map.bc", "map.s", "tmp.ces"}

\* What an exit leaves behind.  A normal return leaves nothing but the tmp.koat.cfg of a
\* missing cfg2ces, and keeps at least the files of main when it is told to.  An
\* exception before the first program leaves nothing; one behind the last program, an
\* abort or a fault leaves the files of main, and what cofloco wrote while that is not
\* parsed yet (CoFloCoWrapper.cpp:93-97, 102-103, 115-117, 128, 154-155, 193;
\* gpscat-cost.cpp:50, 66-69, 166, 174-179).
OnlyKnownLeftovers ==
    /\ exitCode = 0 /\ ~keepTemporaryFiles => Existing = StrandedCfg
    /\ exitCode = 0 /\ keepTemporaryFiles => OwnFiles \subseteq Existing
    /\ exitCode = 1 => Existing = {}
    /\ exitCode = 3 => Existing = {"map.bc", "map.s"}
    /\ exitCode \in {6, 11} =>
          Existing = IF tool = "llc" THEN {}
                     ELSE OwnFiles \cup StrandedCfg \cup (IF bound = "unset" THEN {"cofloco"} ELSE {})

\* The run ends although llvm2kittel or cofloco may hang
\* (CoFloCoWrapper.cpp:71-75, 146-150).
DriverTerminates == <>(pc = "exited")

\* When llc, and nothing else, fails, what is announced as "The inferred cost
\* upperbound" is not a bound inferred from the costs of an assembly file that is empty
\* or cut off (gpscat-cost.cpp:71-72, 170-172).
FailedLlcGivesNoBound == spoiled = {"llc"} => printed # "unfounded"

\* What is printed, or handed to SymEngine, is the bound cofloco found with every
\* nat rewritten as asked, nested ones and those behind others included; of a line
\* that was cut off no nat( is left either.  Nor does a complete one abort the
\* rewriting: behind it only SymEngine may throw (CoFloCoWrapper.cpp:160-202,
\* gpscat-cost.cpp:162-163).
BoundIsRewritten ==
    /\ printed # "unset" =>
          /\ solved # NoBound => text = solved[form]
          /\ bound = "blank" => text = <<>>
          /\ form # "nat" => NatsWithin(text, 1, Len(text)) = {}
    /\ solved # NoBound => exitCode # 11 /\ (exitCode = 6 => symengineFormat)

================================================================================
