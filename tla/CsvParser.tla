-------------------------------- MODULE CsvParser --------------------------------
(***************************************************************************)
(* The parsing half of CSVReader (include/csv-parser/csv.hpp): characters  *)
(* are fed to it in pieces and become rows, and the format is guessed from *)
(* the head of the file.  gpscat trims no characters and is not strict.    *)
(*                                                                         *)
(* A text is a sequence of characters; a row is its text without the       *)
(* delimiters, and the positions where its fields but the first begin.     *)
(***************************************************************************)
EXTENDS RawRowBuffer, SequencesExt, FiniteSetsExt

CONSTANTS
    Delims,         \* the delimiters GUESS_CSV tries, in its order
    MaxSplit,       \* the values of an unsigned short, 65536
    HeadSize        \* bytes of the file that are looked at to guess, 500000

ASSUME ParserAssumption ==
    /\ Delims # <<>>
    /\ MaxSplit \in Nat \ {0}
    /\ HeadSize \in Nat

Quote == "\""

\* Op(v), with v evaluated once however often Op uses it.
Applied(Op(_), v) == CHOOSE w \in {Op(x) : x \in {v}} : TRUE

--------------------------------------------------------------------------------
(* Formats. *)

\* A CSVFormat, as far as this program uses it.
DefaultFormat ==
    [possible_delimiters |-> <<",">>, quote_char |-> Quote, header |-> 0, col_names |-> <<>>]

DelimiterFormat(format, delim) == [format EXCEPT !.possible_delimiters = <<delim>>]

DelimitersFormat(format, delims) == [format EXCEPT !.possible_delimiters = delims]

QuoteFormat(format, quote) == [format EXCEPT !.quote_char = quote]

HeaderRowFormat(format, row) == [format EXCEPT !.header = row, !.col_names = <<>>]

GUESS_CSV ==
    HeaderRowFormat(QuoteFormat(DelimitersFormat(DefaultFormat, Delims), Quote), 0)

GuessesDelim(format) == Len(format.possible_delimiters) > 1

GetDelim(format) == Head(format.possible_delimiters)

--------------------------------------------------------------------------------
(* Rows. *)

RowSize(row) == Len(row.splits) + 1

SplitAt(row, n) == row.splits[n + 1]

\* get_string_view: the n-th field, from 0 on.  An end of 0 stands for the end of
\* the row, also when it is where an empty first field ends.
Field(row, n) ==
    LET beg == IF n = 0 THEN 0 ELSE SplitAt(row, n - 1)
        end == IF n = RowSize(row) - 1 THEN 0 ELSE SplitAt(row, n)
    IN  SubSeq(row.text, beg + 1, IF end = 0 THEN Len(row.text) ELSE end)

Fields(row) == [k \in 1 .. RowSize(row) |-> Field(row, k - 1)]

\* The last column of a name is the one that is found by it.
HasColumn(col_names, name) == name \in ToSet(col_names)

ColPos(col_names, name) == Max({k \in DOMAIN col_names : col_names[k] = name}) - 1

--------------------------------------------------------------------------------
(* The parser.  bad is the tally of rejected rows that only the guesser keeps. *)

SetColNames(r, names) == [r EXCEPT !.col_names = names, !.header_was_parsed = TRUE]

Reader(format) ==
    LET r == [delimiter |-> GetDelim(format), quote_char |-> format.quote_char,
              header_row |-> format.header, record_buffer |-> EmptyBuffer,
              col_names |-> <<>>, header_was_parsed |-> FALSE,
              row_num |-> 0, records |-> <<>>, bad |-> <<>>]
    IN  IF format.col_names = <<>> THEN r ELSE SetColNames(r, format.col_names)

\* The handler of a parser that is not strict does nothing; the guesser's counts the
\* lengths and keeps the row each was first met at.
BadRowHandler(r, size) == [r EXCEPT !.bad = Append(@, [size |-> size, at |-> r.row_num])]

\* write_record: a row of the wrong size is rejected, but when it has one field
\* only it is not taken from the buffer either, and a row before the header never is.
WriteRecord(r) ==
    LET row == GetRow(r.record_buffer)
        taken(kept) == [r EXCEPT !.record_buffer = AfterGetRow(@, kept)]
        fits == RowSize(row) = Len(r.col_names)
    IN  CASE r.header_was_parsed /\ fits ->
                [taken(TRUE) EXCEPT !.records = Append(@, row), !.row_num = @ + 1]
          [] r.header_was_parsed /\ ~fits /\ RowSize(row) > 1 ->
                BadRowHandler(taken(FALSE), RowSize(row))
          [] r.header_was_parsed /\ ~fits /\ RowSize(row) = 1 -> r
          [] ~r.header_was_parsed /\ r.row_num = r.header_row ->
                [SetColNames(taken(FALSE), Fields(row)) EXCEPT !.row_num = @ + 1]
          [] ~r.header_was_parsed /\ r.row_num # r.header_row -> [r EXCEPT !.row_num = @ + 1]

EndFeed(r) == WriteRecord(r)

ParseFlag(r, ch) ==
    CASE ch = r.delimiter -> "DELIMITER"
      [] ch = r.quote_char /\ ch # r.delimiter -> "QUOTE"
      [] ch \in {"\r", "\n"} \ {r.delimiter, r.quote_char} -> "NEWLINE"
      [] OTHER -> "NOT_SPECIAL"

EndsField == {"DELIMITER", "NEWLINE"}

\* A character for the row in progress.  When the string moves for it, the rows
\* that view it, which are the last ones, are left with nothing.
AppendText(r, ch) ==
    LET kept == Len(r.records) - r.record_buffer.views
        roomy ==
            IF ~Outgrown(r.record_buffer) THEN r
            ELSE [r EXCEPT !.record_buffer = Moved(@),
                           !.records = [k \in DOMAIN @ |->
                               IF k > kept THEN [@[k] EXCEPT !.moved = TRUE] ELSE @[k]]]
    IN  [roomy EXCEPT !.record_buffer.text = Append(@, ch)]

\* One turn of feed's loop at position i of in.  quote_escape and a character to be
\* skipped are known only within one call.  Behind the end of in stands a NUL.
FeedStep(s, in, i) ==
    LET at(k) == IF k \in DOMAIN in THEN in[k] ELSE "NUL"
        flag(k) == ParseFlag(s.r, at(k))
        append(t) == [t EXCEPT !.r = AppendText(@, in[i])]
    IN  CASE s.skip -> [s EXCEPT !.skip = FALSE]
          [] ~s.skip /\ flag(i) = "DELIMITER" /\ ~s.quote_escape ->
                [s EXCEPT !.r.record_buffer.splits =
                              Append(@, Len(s.r.record_buffer.text) % MaxSplit)]
          [] ~s.skip /\ flag(i) = "NEWLINE" /\ ~s.quote_escape ->
                [s EXCEPT !.r = WriteRecord(@), !.skip = (at(i + 1) = "\n")]
          [] ~s.skip /\ flag(i) = "QUOTE" /\ ~s.quote_escape ->
                [s EXCEPT !.quote_escape = (i > 1 /\ flag(i - 1) \in EndsField)]
          [] ~s.skip /\ flag(i) = "QUOTE" /\ s.quote_escape /\ flag(i + 1) \in EndsField ->
                [s EXCEPT !.quote_escape = FALSE]
          [] ~s.skip /\ flag(i) = "QUOTE" /\ s.quote_escape /\ flag(i + 1) \notin EndsField ->
                append([s EXCEPT !.skip = (flag(i + 1) = "QUOTE")])
          [] OTHER -> append(s)

Feed(r, in) ==
    LET start == [r EXCEPT !.record_buffer = Reserve(@, Len(in))]
        fed[i \in 0 .. Len(in)] ==
            IF i = 0 THEN [r |-> start, quote_escape |-> FALSE, skip |-> FALSE]
            ELSE Applied(LAMBDA s : FeedStep(s, in, i), fed[i - 1])
    IN  [fed[Len(in)].r EXCEPT !.record_buffer = Reset(@)]

\* parse: a text in memory, as a whole.
Parse(in, format) == EndFeed(Feed(Reader(format), in))

--------------------------------------------------------------------------------
(* The guesser. *)

\* first_guess: the first delimiter that gives more columns than those before it
\* and no fewer rows.
FirstGuess(head) ==
    LET better(best, delim, r) ==
            IF r.row_num >= best.rows /\ Len(r.col_names) > best.cols
            THEN [delim |-> delim, rows |-> Min({Len(r.records), 100}), cols |-> Len(r.col_names)]
            ELSE best
        best[k \in 0 .. Len(Delims)] ==
            IF k = 0 THEN [delim |-> ",", rows |-> 0, cols |-> 0]
            ELSE Applied(LAMBDA b :
                            Applied(LAMBDA r : better(b, Delims[k], r),
                                    Parse(head, DelimiterFormat(DefaultFormat, Delims[k]))),
                         best[k - 1])
    IN  best[Len(Delims)]

\* The row lengths rejected most often, with the row each was first met at; a tie
\* is decided by the order of a hash table.
ModeOfRejected(r) ==
    LET size(k) == r.bad[k].size
        count(n) == Cardinality({k \in DOMAIN r.bad : size(k) = n})
        first(n) == r.bad[Min({k \in DOMAIN r.bad : size(k) = n})]
        sizes == {size(k) : k \in DOMAIN r.bad}
        modes == {n \in sizes : \A m \in sizes : count(m) <= count(n)}
    IN  {[size |-> n, count |-> count(n), when |-> first(n).at] : n \in modes}

\* second_guess: the header is moved to the first row of the longest length that was
\* rejected more often than rows were accepted.  All outcomes of the ties.
SecondGuess(head) ==
    LET wins(m, r, b) == m.count > Len(r.records) /\ m.size > b.rlen
        outcomes(b, r) ==
            IF r.bad = <<>> THEN {b}
            ELSE {IF wins(m, r, b) THEN [rlen |-> m.size, header |-> m.when] ELSE b :
                     m \in ModeOfRejected(r)}
        bests[k \in 0 .. Len(Delims)] ==
            IF k = 0 THEN {[rlen |-> 0, header |-> 0]}
            ELSE Applied(LAMBDA r : UNION {outcomes(b, r) : b \in bests[k - 1]},
                         Parse(head, DelimiterFormat(DefaultFormat, Delims[k])))
    IN  bests[Len(Delims)]

\* The formats that may come out.
GuessDelim(head) ==
    LET headers(first) ==
            IF first.rows > 10 /\ first.cols > 2 THEN {0}
            ELSE {best.header : best \in SecondGuess(head)}
        formats(first) ==
            {HeaderRowFormat(DelimiterFormat(DefaultFormat, first.delim), h) : h \in headers(first)}
    IN  Applied(formats, FirstGuess(head))

GetCsvHead(content) == SubSeq(content, 1, Min({HeadSize, Len(content)}))

GuessFormat(content) == Applied(GuessDelim, GetCsvHead(content))

--------------------------------------------------------------------------------
(* The writer, which tells what a well-formed file is. *)

CsvEscape(field, delim) ==
    IF ToSet(field) \cap {delim, Quote} = {} THEN field
    ELSE <<Quote>>
         \o FlattenSeq([k \in DOMAIN field |->
                           IF field[k] = Quote THEN <<Quote, Quote>> ELSE <<field[k]>>])
         \o <<Quote>>

WriteRow(record, delim) ==
    FlattenSeq([k \in DOMAIN record |->
                   CsvEscape(record[k], delim) \o (IF k < Len(record) THEN <<delim>> ELSE <<"\n">>)])

================================================================================
