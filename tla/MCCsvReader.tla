------------------------------ MODULE MCCsvReader ------------------------------
(***************************************************************************)
(* Small files for CsvReader.  A page is 9 characters, the first read 24   *)
(* and the reads behind it 36; a buffer is 24 and is handed over from 12   *)
(* characters on.                                                          *)
(***************************************************************************)
EXTENDS CsvReader

MCDelims == <<",", "|">>

MCOpcodeColumn == <<"O">>
MCCostColumn == <<"C">>

\* A cost that cannot be held: with bytes of two bits 127 stands for INT32_MAX.
Unreadable == 999

Numeral(n) ==
    LET digits(k) == IF k < 10 THEN <<Digits[k + 1]>>
                     ELSE IF k < 100 THEN <<Digits[(k \div 10) + 1], Digits[(k % 10) + 1]>>
                     ELSE <<Digits[(k \div 100) + 1], Digits[((k \div 10) % 10) + 1], Digits[(k % 10) + 1]>>
    IN  IF n < 0 THEN <<"-">> \o digits(-n) ELSE digits(n)

Header(delim) == WriteRow(<<MCOpcodeColumn, MCCostColumn>>, delim)

\* A table as the library's own writer writes it.
Written(rows, delim) ==
    [content |-> Header(delim) \o FlattenSeq([k \in DOMAIN rows |->
                    WriteRow(<<rows[k].opcode, Numeral(rows[k].cost)>>, delim)]),
     rows |-> rows]

\* Up to eight rows of one character's opcode, the cost telling the row.
Plain(delim) ==
    LET opcodes == UNION {[1 .. n -> {"a", "b"}] : n \in 0 .. 3}
                   \cup {[k \in 1 .. n |-> IF k % 3 = 0 THEN "a" ELSE "b"] : n \in 4 .. 8}
    IN  {Written([k \in DOMAIN ops |-> [opcode |-> <<ops[k]>>, cost |-> k]], delim) : ops \in opcodes}

\* Opcodes that have to be quoted, in one buffer or less than it.
QuotedOpcodes == {<<"a", ",">>, <<Quote>>, <<",", Quote>>, <<"a">>}

Quoted ==
    {Written(<<[opcode |-> o, cost |-> 7]>>, ",") : o \in QuotedOpcodes}

\* The last row has no newline behind it, the columns are swapped, a column more.
Cut(f) == [f EXCEPT !.content = SubSeq(@, 1, Len(@) - 1)]

Swapped ==
    {[content |-> WriteRow(<<MCCostColumn, MCOpcodeColumn>>, ",")
                  \o FlattenSeq([k \in DOMAIN ops |-> WriteRow(<<Numeral(k), ops[k]>>, ",")]),
      rows |-> [k \in DOMAIN ops |-> [opcode |-> ops[k], cost |-> k]]] :
        ops \in UNION {[1 .. n -> {<<"a", ",">>, <<Quote>>}] : n \in 1 .. 3}}

WithRemark ==
    {[content |-> WriteRow(<<MCOpcodeColumn, <<"N">>, MCCostColumn>>, ",")
                  \o FlattenSeq([k \in DOMAIN ops |->
                                    WriteRow(<<ops[k], <<"r">>, Numeral(k)>>, ",")]),
      rows |-> [k \in DOMAIN ops |-> [opcode |-> ops[k], cost |-> k]]] :
        ops \in {[k \in 1 .. n |-> <<"a">>] : n \in 1 .. 5}}

\* Numbers around the largest ones of every size but the extremes of a CostTy, and
\* texts that are no numbers.
Numbers == {-999, -129, -126, -8, -7, -1, 0, 1, 2, 6, 7, 8, 10, 125, 126, 128, 999}

Numerals == {Written(<<[opcode |-> <<"a">>, cost |-> n]>>, ",") : n \in Numbers}

NoNumbers ==
    {[content |-> Header(",") \o <<"a", ",">> \o text \o <<"\n">>,
      rows |-> <<[opcode |-> <<"a">>, cost |-> Unreadable]>>] :
        text \in UNION {[1 .. n -> {" ", "-", ".", "x"}] : n \in 0 .. 2}
                 \cup {<<"1", ".", "5">>, <<"5", " ", "3">>, <<"1", ".", "e", "1">>, <<"1", "e", "1">>}}

\* A column is missing.
NoCostColumn ==
    {[content |-> <<"O", ",", "D", "\n", "a", ",", "1", "\n">>,
      rows |-> <<[opcode |-> <<"a">>, cost |-> Unreadable]>>]}

\* Lines that end in two characters, and blank lines.
Spread(f, before) ==
    [f EXCEPT !.content = FlattenSeq([k \in DOMAIN @ |->
                              IF @[k] = "\n" THEN <<before, "\n">> ELSE <<@[k]>>])]

\* A row with a field too many among rows that are right.
TooLong ==
    {[content |-> Header(",") \o FlattenSeq([k \in 1 .. n |->
                     WriteRow(<<<<"a">>, Numeral(k)>>, ",")
                     \o (IF k \in long THEN WriteRow(<<<<"b">>, Numeral(k), <<"x">>>>, ",") ELSE <<>>)]),
      rows |-> [k \in 1 .. n |-> [opcode |-> <<"a">>, cost |-> k]]] :
        <<n, long>> \in UNION {{m} \X {{k} : k \in 1 .. m} : m \in 1 .. 5}}

\* A line longer than a page, but complete within the first read.
LongLine ==
    {Written([k \in 1 .. n |-> [opcode |-> [j \in 1 .. len |-> "a"], cost |-> k]], ",") :
        n \in 1 .. 2, len \in 6 .. 12}

MCFiles ==
    LET plain == Plain(",") \cup Plain("|")
    IN  plain \cup {Cut(f) : f \in plain}
        \cup {Spread(f, ch) : f \in plain, ch \in {"\r", "\n"}} \cup Quoted \cup Swapped
        \cup WithRemark \cup Numerals \cup NoNumbers \cup NoCostColumn \cup TooLong \cup LongLine

\* The extremes of a CostTy, and the numbers around them.
MCExtremeFiles ==
    {Written(<<[opcode |-> <<"a">>, cost |-> n]>>, ",") : n \in {-129, -128, -127, -126, 126, 127, 128}}

\* A line with an opcode and no cost among rows that are right.
MCShortFiles ==
    {[content |-> Header(",") \o FlattenSeq([k \in 1 .. n |->
                     (IF k \in short THEN <<"b", "\n">> ELSE <<>>)
                     \o WriteRow(<<<<"a">>, Numeral(k)>>, ",")]),
      rows |-> [k \in 1 .. n |-> [opcode |-> <<"a">>, cost |-> k]]] :
        <<n, short>> \in UNION {{m} \X SUBSET (1 .. m) : m \in 1 .. 3}}

================================================================================
