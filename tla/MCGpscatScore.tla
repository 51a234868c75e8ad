----------------------------- MODULE MCGpscatScore -----------------------------
(***************************************************************************)
(* Functions of up to two parameters, and every input of two records, in   *)
(* whole or cut off after any token, or of three simpler ones: parameters, *)
(* another name, "end"; bounds that are proper, equal, inverted, as far    *)
(* apart as ints can be, no numbers, or too large.                         *)
(***************************************************************************)
EXTENDS GpscatScore

Finite(c, k) == [kind |-> "finite", coef |-> c, const |-> k]

MCNames == <<"end", "number", "x", "y", "z">>

MCFunctions ==
    {[kind |-> "unparsable", coef |-> [p \in {} |-> 0], const |-> 0],
     [kind |-> "infinite", coef |-> [p \in {} |-> 0], const |-> 0],
     Finite([p \in {} |-> 0], 5),
     Finite([p \in {"y"} |-> 1], 1),
     Finite([p \in {"x", "y"} |-> IF p = "x" THEN 1 ELSE 2], 0)}

Pairs ==
    {<<Num(0), Num(2)>>, <<Num(1), Num(1)>>, <<Num(2), Num(1)>>,
     <<Num(-(MaxInt + 1)), Num(MaxInt)>>,
     <<Num(1), Word("x")>>, <<TooLarge, Num(2)>>}

Records(names, pairs) == {<<Word(n)>> \o p : n \in names, p \in pairs}

Files(records) == {r \o s : r, s \in records}

MCInputs ==
    UNION {{SubSeq(f, 1, n) : n \in 0 .. 6} :
              f \in Files(Records({"x", "y", "end"}, Pairs))}
    \cup {f \o r : f \in Files(Records({"x", "y", "z"}, {<<Num(0), Num(2)>>, <<Num(-1), Num(0)>>})),
                   r \in Records({"x", "y", "end"}, {<<Num(1), Num(2)>>})}

MCGarbage == {-1, 2}

================================================================================
