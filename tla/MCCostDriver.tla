----------------------------- MODULE MCCostDriver -----------------------------
(***************************************************************************)
(* Bounds without a nat, with one, with nats nested in each other, side by *)
(* side, around parentheses, below a maximum and behind one.               *)
(***************************************************************************)
EXTENDS CostDriver

A == Symbol("A")
Two == Symbol("2")

Nested == NatOf(Combined(InParentheses(Combined(NatOf(A), "-", Two)), "*", NatOf(A)))

MCBounds ==
    {A, NatOf(NatOf(A)), Combined(Nested, "+", NatOf(A)),
     Combined(MaxOf(NatOf(A), Two), "*", NatOf(InParentheses(Two)))}

================================================================================
