---------------------------------- MODULE Llc ----------------------------------
(***************************************************************************)
(* External: LLVM's llc, which gpscat-cost runs on the located module      *)
(* (tools/gpscat-cost.cpp:61-71), as far as MappingExtractor depends on    *)
(* it.  It emits the functions in the module's order, and within one       *)
(* machine instructions for whatever LLVM instructions it likes, in any    *)
(* order.  A function with a DISubprogram opens with a .loc of its line    *)
(* for the prologue; after that a .loc is written whenever the location of *)
(* a machine instruction is not the last one written.  A machine           *)
(* instruction without a location gets ".loc 0" or nothing.  A function    *)
(* without a DISubprogram has no .loc at all.                              *)
(*                                                                         *)
(* owner remembers, for each line of the file, the LLVM instruction the    *)
(* line's cost belongs to: the one it was selected for or, of an           *)
(* instruction without location, the one whose .loc it extends.            *)
(***************************************************************************)
EXTENDS IRLocator, AssemblyFile

CONSTANTS
    MachineOps,     \* the opcodes llc uses
    Nobody          \* owner of what belongs to no LLVM instruction

VARIABLES
    owner,          \* line of the file -> LLVM instruction or Nobody
    emitFn,         \* the function being emitted
    lastLoc,        \* the location last written for it
    lastOwner,      \* what an instruction without a location belongs to
    llcPc

llcVars == <<asm, owner, emitFn, lastLoc, lastOwner, llcPc>>

LocLine(l) == [head |-> ".loc", operand |-> l]
OpLine(op) == [head |-> op, operand |-> NoOperand]

BlocksOf(f) == {b \in DOMAIN code : functionOf[b] = f}

LlcInit ==
    /\ asm = <<>> /\ owner = <<>>
    /\ emitFn = 0 /\ lastLoc = 0 /\ lastOwner = Nobody
    /\ llcPc = "between"

\* A .loc and an instruction still fit into the file.
Room == Len(asm) + 2 <= MaxAsm

\* The prologue's .loc is the function's own line, its first instruction's.
BeginEmission ==
    /\ llcPc = "between" /\ emitFn < Len(subprogram)
    /\ emitFn' = emitFn + 1
    /\ IF BlocksOf(emitFn + 1) = {} \/ subprogram[emitFn + 1] = 0
       THEN /\ lastOwner' = Nobody
            /\ UNCHANGED <<asm, owner, lastLoc>>
       ELSE /\ Len(asm) < MaxAsm
            /\ asm' = Append(asm, LocLine(subprogram[emitFn + 1]))
            /\ owner' = Append(owner, Nobody)
            /\ lastLoc' = subprogram[emitFn + 1]
            /\ lastOwner' = code[SelectInSeq(functionOf, LAMBDA f : f = emitFn + 1)][1].id
    /\ llcPc' = IF BlocksOf(emitFn + 1) = {} THEN "between" ELSE "inside"

\* A machine instruction selected for inst.
EmitLocated(inst, op) ==
    /\ llcPc = "inside" /\ Room /\ subprogram[emitFn] # 0
    /\ LET loc == IF inst.line = lastLoc THEN <<>> ELSE <<LocLine(inst.line)>>
       IN  /\ asm' = asm \o loc \o <<OpLine(op)>>
           /\ owner' = owner \o [l \in DOMAIN loc |-> Nobody] \o <<inst.id>>
    /\ lastLoc' = inst.line
    /\ lastOwner' = inst.id
    /\ UNCHANGED <<emitFn, llcPc>>

\* The prologue's, and spills, moves and whatever optimisation lost track of.
EmitUnlocated(op) ==
    /\ llcPc = "inside" /\ Room
    /\ asm' = Append(asm, OpLine(op))
    /\ owner' = Append(owner, lastOwner)
    /\ UNCHANGED <<emitFn, lastLoc, lastOwner, llcPc>>

EmitLineZero(op) ==
    /\ llcPc = "inside" /\ Room /\ subprogram[emitFn] # 0
    /\ lastLoc # 0
    /\ asm' = asm \o <<LocLine(0), OpLine(op)>>
    /\ owner' = owner \o <<Nobody, Nobody>>
    /\ lastLoc' = 0
    /\ lastOwner' = Nobody
    /\ UNCHANGED <<emitFn, llcPc>>

EndEmission ==
    /\ llcPc = "inside"
    /\ llcPc' = "between"
    /\ UNCHANGED <<asm, owner, emitFn, lastLoc, lastOwner>>

LlcExit ==
    /\ llcPc = "between" /\ emitFn = Len(subprogram)
    /\ llcPc' = "done"
    /\ UNCHANGED <<asm, owner, emitFn, lastLoc, lastOwner>>

LlcNext ==
    \/ BeginEmission
    \/ \E op \in MachineOps :
          \/ \E b \in BlocksOf(emitFn) : \E i \in DOMAIN code[b] : EmitLocated(code[b][i], op)
          \/ EmitUnlocated(op)
          \/ EmitLineZero(op)
    \/ EndEmission
    \/ LlcExit

================================================================================
