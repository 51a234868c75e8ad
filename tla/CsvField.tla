-------------------------------- MODULE CsvField --------------------------------
(***************************************************************************)
(* A field of a csv row as a number (CSVField and data_type in             *)
(* include/csv-parser/csv.hpp).  A text is a sequence of characters.  The  *)
(* value of a floating point number is left out: the only use of it here,  *)
(* get<CostTy>, refuses every one of them.                                 *)
(***************************************************************************)
EXTENDS Integers, Sequences, SequencesExt

CONSTANT ByteBits       \* bits of a byte, 8

ASSUME ByteAssumption == ByteBits \in Nat \ {0}

\* get_int_max: the largest values in 1, 2, 4 and 8 bytes.
IntMax == [k \in 1 .. 4 |-> 2 ^ (ByteBits * 2 ^ (k - 1) - 1) - 1]

\* What the proofs use of them.
ASSUME IntMaxAssumption ==
    /\ \A k \in 1 .. 4 : IntMax[k] \in Nat
    /\ \A k \in 1 .. 3 : IntMax[k] < IntMax[k + 1]

\* The DataType enum, with the four sizes of an integer as 2 .. 5.
UNKNOWN == -1
CSV_NULL == 0
CSV_STRING == 1
IntTypes == 2 .. 5
CSV_INT32 == 4
CSV_DOUBLE == 6

\* Bytes of an integer -> its type.
IntTypeArr == <<2, 3, UNKNOWN, CSV_INT32, UNKNOWN, UNKNOWN, UNKNOWN, 5>>

TypeNum(size) == IntTypeArr[size]

\* sizeof(CostTy), and what it holds.
CostBytes == 4

CostTy == -(IntMax[3] + 1) .. IntMax[3]

Digits == <<"0", "1", "2", "3", "4", "5", "6", "7", "8", "9">>

IsDigit(ch) == ch \in ToSet(Digits)

DigitValue(ch) == (CHOOSE k \in DOMAIN Digits : Digits[k] = ch) - 1

\* The code compares with <, so that IntMax itself needs the next size.
DetermineIntegralType(number) ==
    LET fitting == {t \in IntTypes : number < IntMax[t - 1]}
    IN  IF fitting = {} THEN CSV_DOUBLE ELSE Min(fitting)

\* What data_type knows between two characters: its flags, and the type once it
\* has returned.  prob_float is the opposite of dot_allowed.
DataTypeStart ==
    [type |-> UNKNOWN, ws_allowed |-> TRUE, neg_allowed |-> TRUE, dot_allowed |-> TRUE,
     digit_allowed |-> TRUE, has_digit |-> FALSE, number |-> 0]

\* The loop body at character i of in; exponent is the type of what follows an e.
DataTypeStep(s, in, i, exponent) ==
    LET ch == in[i]
    IN  CASE ch = " " /\ s.ws_allowed -> s
          [] ch = " " /\ ~s.ws_allowed /\ IsDigit(in[i - 1]) ->
                [s EXCEPT !.digit_allowed = FALSE, !.ws_allowed = TRUE]
          [] ch = "-" /\ s.neg_allowed -> [s EXCEPT !.neg_allowed = FALSE]
          [] ch = "." /\ s.dot_allowed -> [s EXCEPT !.dot_allowed = FALSE]
          [] ch \in {"e", "E"} /\ ~s.dot_allowed ->
                [s EXCEPT !.type = IF exponent \in IntTypes \cup {CSV_DOUBLE}
                                   THEN CSV_DOUBLE ELSE CSV_STRING]
          [] IsDigit(ch) /\ s.digit_allowed ->
                [s EXCEPT !.has_digit = TRUE, !.ws_allowed = FALSE,
                          !.number = IF s.dot_allowed THEN 10 * @ + DigitValue(ch) ELSE @]
          [] OTHER -> [s EXCEPT !.type = CSV_STRING]

\* What data_type returns behind its loop.
DataTypeEnd(s) ==
    CASE s.type # UNKNOWN -> s.type
      [] s.type = UNKNOWN /\ ~s.has_digit -> CSV_NULL
      [] s.type = UNKNOWN /\ s.has_digit /\ ~s.dot_allowed -> CSV_DOUBLE
      [] s.type = UNKNOWN /\ s.has_digit /\ s.dot_allowed -> DetermineIntegralType(s.number)

\* The text of an exponent is a number of its own: scan[k, i] is the state behind
\* the characters k .. i.
DataType(in) ==
    LET n == Len(in)
        skip(i) == IF i < n /\ in[i + 1] = "+" THEN i + 2 ELSE i + 1
        scan[k \in 1 .. n + 1, i \in 0 .. n] ==
            IF i < k THEN DataTypeStart
            ELSE LET s == scan[k, i - 1]
                     exponent == DataTypeEnd(scan[skip(i), n])
                 IN  IF s.type # UNKNOWN THEN s ELSE DataTypeStep(s, in, i, exponent)
        end == scan[1, n]
    IN  [type |-> DataTypeEnd(end), value |-> IF end.neg_allowed THEN end.number ELSE -end.number]

\* Mutant: the sizes are not compared.
GetThrowsUnsized(field) ==
    LET type == DataType(field).type
    IN  type <= CSV_STRING \/ type = CSV_DOUBLE

\* CSVField::get<CostTy>: throws on what is no number, is a floating point number
\* or is too large an integer.
GetThrows(field) ==
    LET type == DataType(field).type
    IN  type <= CSV_STRING \/ type = CSV_DOUBLE \/ TypeNum(CostBytes) < type

Get(field) == DataType(field).value

================================================================================
