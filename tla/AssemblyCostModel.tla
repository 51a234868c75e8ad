--------------------------- MODULE AssemblyCostModel ---------------------------
(***************************************************************************)
(* The table of assembly costs (include/gpscat/AssemblyCostModel.h) and    *)
(* the assembly instructions it prices (AssemblyInstruction.h).            *)
(*                                                                         *)
(* The code counts in std::int32_t.  The width is a parameter here: CostTy *)
(* is the symmetric two's-complement range that MaxCost bounds, and a sum  *)
(* that leaves it wraps, which is what the build's add instruction does    *)
(* with the overflow C++ leaves undefined.                                 *)
(***************************************************************************)
EXTENDS Integers

CONSTANTS
    Token,          \* what can stand first on a line of assembly
    CostModel,      \* the loaded table, from opcodes to costs
    MaxCost,        \* INT32_MAX in the code
    MaxAsm,         \* bound: lines of an assembly file
    TotalCost(_)    \* the mathematical sum of the costs of a set of instructions

CostTy == -(MaxCost + 1) .. MaxCost

\* The number of values of a CostTy: what a wrapped sum is off by.
Width == 2 * (MaxCost + 1)

HasInst(instName) == instName \in DOMAIN CostModel

Get(instName) == CostModel[instName]

\* Mutant: a sum that does not wrap.
AddCostUnbounded(total, cost) == total + cost

\* Mutant: a sum that saturates.
AddCostSaturating(total, cost) ==
    IF total + cost > MaxCost THEN MaxCost
    ELSE IF total + cost < -(MaxCost + 1) THEN -(MaxCost + 1)
    ELSE total + cost

AddCost(total, cost) ==
    LET sum == total + cost
    IN  IF sum > MaxCost THEN sum - Width
        ELSE IF sum < -(MaxCost + 1) THEN sum + Width
        ELSE sum

\* An instruction is known by its opcode.  The line it stood on keeps equal
\* opcodes apart, so that a vector of instructions is a set of these records.
AssemblyInstruction == [name : Token, at : 1 .. MaxAsm]

PricedInstruction == {a \in AssemblyInstruction : HasInst(a.name)}

ASSUME CostModelAssumption ==
    /\ MaxCost \in Nat
    /\ MaxAsm \in Nat
    /\ DOMAIN CostModel \subseteq Token
    /\ CostModel \in [DOMAIN CostModel -> CostTy]

\* TotalCost is the finite sum: nothing costs nothing, and one more
\* instruction adds its price.
ASSUME TotalCostAssumption ==
    /\ TotalCost({}) = 0
    /\ \A S \in SUBSET PricedInstruction :
          /\ TotalCost(S) \in Int
          /\ \A a \in PricedInstruction \ S :
                TotalCost(S \cup {a}) = TotalCost(S) + Get(a.name)

================================================================================
