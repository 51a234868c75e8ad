------------------------------ MODULE AssemblyFile ------------------------------
(***************************************************************************)
(* The assembly file that llc writes and MappingExtractor reads, line by   *)
(* line: what split makes of a line.                                       *)
(***************************************************************************)
EXTENDS AssemblyCostModel, Sequences

CONSTANT MaxLine        \* bound: line numbers

ASSUME LineAssumption == MaxLine \in Nat

VARIABLE asm            \* the file's lines: their first token and second operand

InstructionID == 0 .. MaxLine

\* A line with fewer than three tokens has no second operand.
NoOperand == -1
AsmLine == [head : Token, operand : InstructionID \cup {NoOperand}]

IsAsmFile(file) == file \in Seq(AsmLine) /\ Len(file) <= MaxAsm

================================================================================
