--------------------------- MODULE MCCostAttribution ---------------------------
(***************************************************************************)
(* Small modules of two functions with code, and every assembly file of at *)
(* most MaxAsm lines that llc may make of them out of a priced and an      *)
(* unpriced opcode.                                                        *)
(***************************************************************************)
EXTENDS CostAttribution

MCTotalCost(S) == MapThenSumSet(LAMBDA a : CostModel[a.name], S)

MCCostModel == [o \in {"add"} |-> 3]

MCBlock == 1 .. 3
MCInst == MCBlock \X (1 .. 3)

MCBlockOf == [x \in MCInst |-> x[1]]

Body(b, kinds) == [i \in DOMAIN kinds |-> [id |-> <<b, i>>, kind |-> kinds[i], line |-> 0]]

NoCalls == [x \in {} |-> 0]

Program(bodies, functionOf_, exact_, names_, calls_) ==
    [code |-> [b \in DOMAIN bodies |-> Body(b, bodies[b])],
     functionOf |-> functionOf_, exact |-> exact_,
     dbgCU |-> FALSE, debugifyMD |-> <<>>,
     subprogram |-> [f \in DOMAIN exact_ |-> 0],
     names |-> names_, calls |-> calls_]

\* Two functions, the first of which calls a function "tick" of the module's own;
\* one function of two blocks and a second; a replaceable function before an
\* exact one.
MCPrograms ==
    {Program(<< <<"void", "term">>, <<"value", "term">> >>, <<1, 2>>,
             <<TRUE, TRUE, FALSE>>, <<"f", "g", "tick">>,
             (<<1, 1>> :> [callee |-> 3, arg |-> 5])),
     Program(<< <<"value", "term">>, <<"phi", "term">>, <<"term">> >>, <<1, 1, 2>>,
             <<TRUE, TRUE>>, <<"f", "g">>, NoCalls),
     Program(<< <<"term">>, <<"value", "term">> >>, <<1, 2>>,
             <<FALSE, TRUE>>, <<"w", "f">>, NoCalls)}

ASSUME ExploredAssumption == \A P \in MCPrograms : SkippedFirst(P)

\* A replaceable function (weak, linkonce) behind an exact one.
MCWeakPrograms ==
    {Program(<< <<"value", "term">>, <<"value", "term">> >>, <<1, 2>>,
             <<TRUE, FALSE>>, <<"f", "w">>, NoCalls)}

================================================================================
