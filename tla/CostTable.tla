-------------------------------- MODULE CostTable --------------------------------
(***************************************************************************)
(* What loading a cost model promises: the rows of the file are taken in   *)
(* their order, each once and none left out, the last row of an opcode     *)
(* wins, and a cost that cannot be held ends the loading with an           *)
(* exception.  Nothing is said of buffers, threads or the syntax of the    *)
(* file; CsvReader is shown to implement this.                             *)
(***************************************************************************)
EXTENDS Integers, Sequences

CONSTANT Loadable       \* the costs that can be held

VARIABLES
    rows,       \* what the file holds: opcodes and their costs
    loaded,     \* how many of them have been taken
    costModel,
    status      \* "loading", and how it ended

vars == <<rows, loaded, costModel, status>>

Init == loaded = 0 /\ costModel = <<>> /\ status = "loading"

Load ==
    /\ status = "loading" /\ loaded < Len(rows)
    /\ LET row == rows[loaded + 1]
       IN  /\ row.cost \in Loadable
           /\ costModel' = [opcode \in DOMAIN costModel \cup {row.opcode} |->
                               IF opcode = row.opcode THEN row.cost ELSE costModel[opcode]]
    /\ loaded' = loaded + 1
    /\ UNCHANGED <<rows, status>>

\* Behind the last row the loading is done, or the source is read once more
\* although it has nothing left.
Finish ==
    /\ status = "loading" /\ loaded = Len(rows)
    /\ status' \in {"done", "undefined"}
    /\ UNCHANGED <<rows, loaded, costModel>>

Refuse ==
    /\ status = "loading" /\ loaded < Len(rows)
    /\ rows[loaded + 1].cost \notin Loadable
    /\ status' = "threw"
    /\ UNCHANGED <<rows, loaded, costModel>>

CannotOpen ==
    /\ status = "loading" /\ loaded = 0
    /\ status' = "unopened"
    /\ UNCHANGED <<rows, loaded, costModel>>

Next == Load \/ Finish \/ Refuse \/ CannotOpen

Spec == Init /\ [][Next]_vars

================================================================================
