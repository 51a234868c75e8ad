------------------------------ MODULE RawRowBuffer ------------------------------
(***************************************************************************)
(* RawRowBuffer of include/csv-parser/csv.hpp: the characters of all rows  *)
(* of one call of feed are put behind each other into one string.  A row   *)
(* that is taken from it is a view of its part, which is gone when the     *)
(* string outgrows its capacity and moves.                                 *)
(*                                                                         *)
(* text and splits are those of the row in progress; what was taken before *)
(* only counts by its length.  Capacities are those asked for.             *)
(***************************************************************************)
EXTENDS Integers, Sequences

EmptyBuffer == [text |-> <<>>, splits |-> <<>>, current_end |-> 0, views |-> 0, capacity |-> 0]

BufferLength(buf) == buf.current_end + Len(buf.text)

\* Mutant: nothing is reserved.
ReserveNothing(buf, n) == buf

Reserve(buf, n) == IF n > buf.capacity THEN [buf EXCEPT !.capacity = n] ELSE buf

\* There is no room for another character: the string has to move.
Outgrown(buf) == BufferLength(buf) = buf.capacity

Moved(buf) == [buf EXCEPT !.capacity = 2 * @ + 1, !.views = 0]

\* get_row and get_splits: the row in progress as a view.
GetRow(buf) == [text |-> buf.text, splits |-> buf.splits, moved |-> FALSE]

\* What they leave behind; a row that is kept goes on viewing the string.
AfterGetRow(buf, kept) ==
    [buf EXCEPT !.text = <<>>, !.splits = <<>>, !.current_end = BufferLength(buf),
                !.views = IF kept THEN @ + 1 ELSE @]

\* A new buffer with the row in progress; the rows keep the old one.
Reset(buf) ==
    [EmptyBuffer EXCEPT !.text = buf.text, !.splits = buf.splits, !.capacity = Len(buf.text)]

================================================================================
