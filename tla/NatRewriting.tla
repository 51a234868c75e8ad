----------------------------- MODULE NatRewriting -----------------------------
(***************************************************************************)
(* removeNat and replaceNatWithMax of lib/CoFloCoWrapper.cpp: the bound    *)
(* that cofloco prints is a text, and its nat(x) are rewritten in the      *)
(* text.  A text is a sequence of tokens; "nat" "(" is what the code looks *)
(* for as "nat(".                                                          *)
(***************************************************************************)
EXTENDS Integers, SequencesExt

NatsWithin(exp, a, b) == {i \in a .. b - 1 : exp[i] = "nat" /\ exp[i + 1] = "("}

\* Mutant: what stands behind a nat( that was found is not looked at again.
RemoveFirstNat(exp) ==
    LET nats == NatsWithin(exp, 1, Len(exp))
    IN  IF nats = {} THEN exp ELSE RemoveAt(exp, Min(nats))

\* nat(x) becomes (x); parentheses need not match.
RemoveNat(exp) ==
    LET nats == NatsWithin(exp, 1, Len(exp))
    IN  FlattenSeq([i \in DOMAIN exp |-> IF i \in nats THEN <<>> ELSE <<exp[i]>>])

--------------------------------------------------------------------------------

Occurrences(exp, token, a, b) == Cardinality({i \in a .. b : exp[i] = token})

NPos == 0

\* Mutant: the parentheses in between are not counted.
FirstClosingParenthesis(exp, beginPos) ==
    LET closed == {p \in beginPos .. Len(exp) : exp[p] = ")"}
    IN  IF closed = {} THEN NPos ELSE Min(closed)

\* The place where as many parentheses are closed as were opened from beginPos on.
FindClosingParenthesis(exp, beginPos) ==
    LET closed == {p \in beginPos .. Len(exp) :
                      Occurrences(exp, "(", beginPos, p) = Occurrences(exp, ")", beginPos, p)}
    IN  IF closed = {} THEN NPos ELSE Min(closed)

\* The assertion fails.  Without assertions npos + 1 is the start of the text, which
\* is then rewritten for ever.
FailsToClose(exp) ==
    \E pos \in NatsWithin(exp, 1, Len(exp)) : FindClosingParenthesis(exp, pos + 1) = NPos

\* nat(x) becomes max([x,0]), the argument and the rest alike; of a text that does
\* not fail to close.
ReplaceNatWithMax(exp) ==
    LET replaced[a \in 1 .. Len(exp) + 1, b \in 0 .. Len(exp)] ==
            LET nats == NatsWithin(exp, a, b)
                pos == Min(nats)
                closingPos == FindClosingParenthesis(exp, pos + 1)
            IN  IF nats = {} THEN SubSeq(exp, a, b)
                ELSE SubSeq(exp, a, pos - 1)
                     \o <<"max", "(", "[">> \o replaced[pos + 2, closingPos - 1]
                     \o <<",", "0", "]", ")">> \o replaced[closingPos + 1, b]
    IN  replaced[1, Len(exp)]

--------------------------------------------------------------------------------
(* Bounds, each as it is written with nat, with max and without either: what the  *)
(* rewriting of the text comes to when the bound is taken for an expression.      *)

Symbol(s) == [nat |-> <<s>>, max |-> <<s>>, plain |-> <<s>>]

NatOf(b) ==
    [nat |-> <<"nat", "(">> \o b.nat \o <<")">>,
     max |-> <<"max", "(", "[">> \o b.max \o <<",", "0", "]", ")">>,
     plain |-> <<"(">> \o b.plain \o <<")">>]

MaxOf(b, c) ==
    [form \in {"nat", "max", "plain"} |->
        <<"max", "(", "[">> \o b[form] \o <<",">> \o c[form] \o <<"]", ")">>]

InParentheses(b) == [form \in {"nat", "max", "plain"} |-> <<"(">> \o b[form] \o <<")">>]

Combined(b, operation, c) ==
    [form \in {"nat", "max", "plain"} |-> b[form] \o <<operation>> \o c[form]]

================================================================================
