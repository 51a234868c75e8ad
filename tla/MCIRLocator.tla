------------------------------ MODULE MCIRLocator ------------------------------
(***************************************************************************)
(* Modules of up to three functions: every block of at most two phis, a    *)
(* pad, two more instructions and a musttail call before its terminator,   *)
(* beside a fixed second block that is of the same function, of another    *)
(* one, or comes behind a declaration.                                     *)
(***************************************************************************)
EXTENDS DebugifyCheck, TLC

Phis == {<<>>, <<"phi">>, <<"phi", "phi">>}
Middles == BoundedSeq({"value", "void", "dbg"}, 2)
Ends == {<<"term">>, <<"musttail", "term">>}

Shapes == {p \o q \o m \o e : p \in Phis, q \in {<<>>, <<"pad">>}, m \in Middles, e \in Ends}
Second == {<<"term">>, <<"phi", "value", "term">>}

\* The b-th block, with the debug information its kinds had in the input: an
\* intrinsic describes nothing of ours, and all lines are alike.
BlockOfShape(b, shape) ==
    [i \in DOMAIN shape |->
        [id |-> <<b, IF shape[i] = "dbg" THEN 0
                     ELSE Len(SelectSeq(SubSeq(shape, 1, i), LAMBDA k : k # "dbg"))>>,
         kind |-> shape[i], line |-> 9]]

\* A first and a second block, which functions they are of, and which of these
\* are exact.
ProgramOf(s, t, owners, exacts) ==
    [code |-> <<BlockOfShape(1, s), BlockOfShape(2, t)>>,
     functionOf |-> owners, exact |-> exacts,
     dbgCU |-> TRUE, debugifyMD |-> <<>>,
     subprogram |-> [f \in DOMAIN exacts |-> 9]]

SmallShapes == {s \in Shapes : Len(s) < 4 /\ "dbg" \notin ToSet(s)}

MCPrograms ==
    {ProgramOf(s, <<"term">>, <<1, 1>>, <<TRUE>>) : s \in Shapes}
    \cup {ProgramOf(s, <<"phi", "value", "term">>, <<1, 1>>, <<TRUE>>) : s \in SmallShapes}
    \cup {ProgramOf(s, t, <<1, 2>>, <<d, e>>) : s \in SmallShapes, t \in Second, d, e \in BOOLEAN}
    \cup {ProgramOf(s, t, <<2, 3>>, <<FALSE, TRUE, e>>) :
              s \in SmallShapes, t \in Second, e \in BOOLEAN}
    \cup
    \* What opt -debugify has already been over.
    {[code |-> <<BlockOfShape(1, s)>>, functionOf |-> <<1>>, exact |-> <<TRUE>>,
      dbgCU |-> TRUE, debugifyMD |-> <<3, 1>>, subprogram |-> <<1>>] : s \in Shapes}

================================================================================
