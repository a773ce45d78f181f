-------------------------- MODULE MCFlowAnalysis --------------------------
(***************************************************************************)
(* FlowAnalysis.tla on all programs of two shapes: a function with two     *)
(* labels, and two functions, the first with a loop.                       *)
(***************************************************************************)
EXTENDS FlowAnalysis

a == R(0)
b == R(1)
MCVReg == {a, b}

Op(code, def, use, jmp, args, arg) ==
  [code |-> code, def |-> def, use |-> use, jmp |-> jmp, args |-> args, arg |-> arg]

Plain(def, use) == Op("op", def, use, 0, <<>>, 0)
Branch(use, to) == Op("branch", {}, use, to, <<>>, 0)
Jump(to) == Op("jmp", {}, {}, to, <<>>, 0)
Label == Op("label", {}, {}, 0, <<>>, 0)
Ret(use) == Op("ret", {}, use, 0, <<>>, 0)
Prolog(args) == Op("prolog", {}, {}, 0, args, 0)
Getarg(def, arg) == Op("getarg", def, {}, 0, <<>>, arg)

Straight == {Plain({a}, {}), Plain({a}, {b}), Plain({b}, {a}), Getarg({b}, 0),
             Ret({a})}
Loops == {Branch({b}, 3), Jump(3)}
Skips == {Branch({a}, 6), Jump(6)}
Steps == Straight \cup Loops \cup Skips

MCPrograms ==
  {<<Prolog(<<"INT">>), s1, Label, s2, s3, Label, s4, Ret({b})>> :
     s1, s2, s3, s4 \in Steps}
  \cup
  {<<Prolog(<<"INT">>), s1, Label, s2, Ret({a}),
     Prolog(<<"FLOAT">>), s3, Plain({a}, {}), Ret({b})>> :
     s1, s2 \in Straight \cup Loops, s3 \in Straight}
=============================================================================
