-------------------------------- MODULE IRModule --------------------------------
(***************************************************************************)
(* What MappingExtractor and IRCostCalculator share: the instructions of   *)
(* the module one after another, as instructions(M) and a visitor walk     *)
(* them, and the mapping the one hands to the other.                       *)
(***************************************************************************)
EXTENDS AssemblyCostModel, Sequences

CONSTANTS
    Inst,           \* the instructions of the module
    Modules         \* the modules explored, as sequences of located instructions

VARIABLES
    ir,             \* the module's instructions, in its order, with their lines
    IRAsmMap        \* instruction -> assembly instructions; {} is no entry

\* An instruction without a debug location has line 0.
LocatedInst == [id : Inst, line : Nat]

\* A module lists each of its instructions once.
IsModule(m) ==
    /\ m \in Seq(LocatedInst)
    /\ \A j, k \in 1 .. Len(m) : m[j].id = m[k].id => j = k

ASSUME ModuleAssumption == \A m \in Modules : IsModule(m)

================================================================================
