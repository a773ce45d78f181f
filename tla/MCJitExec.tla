----------------------------- MODULE MCJitExec -----------------------------
(***************************************************************************)
(* JitExec.tla on sets of programs for a machine with four general purpose *)
(* registers (one callee-saved, two for arguments) and two for             *)
(* floating-point numbers.                                                 *)
(***************************************************************************)
EXTENDS JitExec, Functions

MCVReg == {R(0), R(1), R(2), R(3), R(4), FR(0), FR(1), FR(2)}
MCGpArgs == <<"di", "si">>
MCFpArgs == <<"x0">>

Oper(code, def, use, jmp, args, arg) ==
  [code |-> code, def |-> def, use |-> use, jmp |-> jmp, args |-> args, arg |-> arg]

Def(d, u) == Oper("op", {d}, u, 0, <<>>, 0)
Store(u) == Oper("op", {}, u, 0, <<>>, 0)
Branch(u, to) == Oper("branch", {}, u, to, <<>>, 0)
Bms(u, to) == Oper("bms", {}, u, to, <<>>, 0)
Jmp(to) == Oper("jmp", {}, {}, to, <<>>, 0)
Label == Oper("label", {}, {}, 0, <<>>, 0)
Ret(u) == Oper("ret", {}, u, 0, <<>>, 0)
Prologue(args) == Oper("prolog", {}, {}, 0, args, 0)
Getargument(d, arg) == Oper("getarg", {d}, {}, 0, <<>>, arg)
PrepareOp == Oper("prepare", {}, {}, 0, <<>>, 0)
PutargOp(v) == Oper("putarg", {}, {v}, 0, <<v[1]>>, 0)
PutargImm(type) == Oper("putarg", {}, {}, 0, <<type>>, 0)
CallOp == Oper("call", {}, {}, 0, <<>>, 0)
CallrOp(v) == Oper("call", {}, {v}, 0, <<>>, 0)
RetvalOp(d) == Oper("retval", {d}, {}, 0, <<>>, 0)
FretvalOp(d) == Oper("fretval", {d}, {}, 0, <<>>, 0)

\* The least solution of the equations, by iteration.
Solution(p) ==
  LET ops == 1 .. Len(p)
      Better(in) == [i \in ops |-> InOf(p, i, OutOf(p, i, in))]
      in == FoldFunction(LAMBDA o, s : Better(s), [i \in ops |-> {}], p \o p)
  IN  [in |-> in, out |-> [i \in ops |-> OutOf(p, i, in)]]

MCAnalysis == [p \in Programs |-> Solution(p)]

\* More values than registers, in a straight line.
StraightPrograms ==
  {<<Prologue(<<"INT">>), Getargument(R(0), 0), Def(R(1), {R(0)}), Def(R(2), {R(0), R(1)}),
     Def(R(3), u1), Def(R(4), {R(1)}), s, Def(d, u2), Store({R(4)}), Ret({R(0)})>> :
     u1 \in {{R(0)}, {R(1), R(2)}},
     s \in {Store({R(0), R(1), R(2)}), Store({R(1), R(3)})},
     d \in {R(0), R(1)}, u2 \in {{R(2), R(3)}, {R(0), R(3)}}}

\* Two calls, the second with a value alive since before the first, and numbers
\* of both kinds alive across them; a call through a register.
CallPrograms ==
  {<<Prologue(<<"INT">>), Getargument(R(0), 0), Def(R(1), {R(0)}), Def(FR(0), {R(0)}),
     PrepareOp, PutargOp(a), CallOp, RetvalOp(R(2)),
     Def(R(3), {R(0), R(2)}), Def(FR(1), {FR(0)}),
     PrepareOp, PutargOp(b), PutargOp(f), PutargOp(R(0)), CallOp, FretvalOp(FR(2)),
     Store({R(1), R(2), FR(0)}), Store({FR(1), FR(2)}), Ret({R(0)})>> :
     a \in {R(0), R(1)}, b \in {R(1), R(2)}, f \in {FR(0), FR(1)}}
  \cup
  {<<Prologue(<<"INT", "INT">>), Getargument(R(0), 0), Getargument(R(1), 1),
     PrepareOp, x, y, PutargImm("FLOAT"), CallrOp(R(c)), RetvalOp(R(2)),
     Store({R(0), R(2)}), Ret({R(1)})>> :
     x \in {PutargOp(R(1)), PutargImm("INT")}, y \in {PutargOp(R(0)), PutargImm("INT")},
     c \in 0 .. 1}

\* A loop with a way through it and out of it, and more values than registers.
LoopPrograms ==
  {<<Prologue(<<"INT">>), Getargument(R(0), 0), Def(R(1), {R(0)}), Def(R(2), {}), Def(R(4), {}),
     Label, s1, Branch({R(0)}, 10), s2, Label, Def(R(3), {R(2)}), j, Store({R(1)}), Label,
     Store({R(4)}), Ret({R(2)})>> :
     s1 \in {Def(R(3), {R(0), R(1)}), Def(R(0), {R(1), R(2)})},
     s2 \in {Def(R(1), {R(0)}), Jmp(6), Jmp(14)},
     j \in {Branch({R(3)}, 6), Jmp(6), Branch({R(3), R(0)}, 14)}}

LoopCallPrograms ==
  {<<Prologue(<<"INT">>), g, Def(R(1), {R(0)}), Label, PrepareOp, PutargOp(a), CallOp, RetvalOp(d), Def(R(2), u),
     Branch({R(2)}, 4), Ret({R(1)})>> :
     g \in {Getargument(R(0), 0), Def(R(0), {})},
     a \in {R(0), R(1)}, d \in {R(0), R(2)}, u \in {{R(0), R(1)}, {R(1)}}}

\* Arguments read late, or twice, or from the stack.  Three registers: the one
\* slot more that makes their number even is where argument 0 is saved.
ArgPrograms ==
  {<<Prologue(<<"INT", "INT", "INT">>), Def(R(0), {}), Def(R(1), {}), Def(R(2), u), s,
     Getargument(d, 1), Getargument(R(1), n), Store({R(1), d}), Ret({R(0)})>> :
     u \in {{R(1)}, {R(0)}}, s \in {Def(R(3), {R(0), R(2)}), Store({R(1)})},
     d \in {R(0), R(3)}, n \in {0, 2}}
  \cup
  {<<Prologue(<<"INT">>), Def(R(0), {}), PrepareOp, PutargOp(R(0)), CallOp, RetvalOp(R(1)),
     Getargument(R(2), 0), Store({R(0), R(1), R(2)}), Ret({R(d)}),
     Prologue(<<"FLOAT">>), Getargument(FR(0), 0), Def(FR(1), {FR(0)}), Ret({})>> :
     d \in 0 .. 2}

JitPrograms == StraightPrograms \cup CallPrograms \cup LoopPrograms
                 \cup LoopCallPrograms \cup ArgPrograms

-----------------------------------------------------------------------------
(* Programs that show where the code falls short.                          *)

\* A result is used at the top of a loop only, and moved from ret_reg to a
\* callee-saved register by the call inside the loop.
LoopOverCall(close) ==
  <<Prologue(<<>>), PrepareOp, CallOp, RetvalOp(R(1)), Label, Store({R(1)}),
    PrepareOp, CallOp, RetvalOp(R(2)), close, Ret({})>>

\* The loop is closed by another conditional jump than BEQ .. BLE.
BmsPrograms == {LoopOverCall(Bms({R(2)}, 5))}

\* The register is read nowhere but in the edge of the loop.
SavedPrograms == {LoopOverCall(Branch({R(2)}, 5))}

\* A loop with a call that reads an argument each time round.
GetargPrograms ==
  {<<Prologue(<<"INT">>), Label, Getargument(R(0), 0), PrepareOp, PutargOp(R(0)), CallOp,
     RetvalOp(R(1)), Branch({R(1)}, 2), Ret({R(1)})>>}

\* An argument read after a call, in a function of four registers.
SlotPrograms ==
  {<<Prologue(<<"INT">>), Def(R(3), {}), Def(R(0), {}), PrepareOp, PutargOp(R(0)), CallOp,
     Def(R(1), {}), Def(R(2), {R(0)}), Store({R(1), R(2)}),
     Getargument(R(0), 0), Store({R(0), R(3)}), Ret({R(0)})>>}

\* A result is passed on with a constant number, while the callee-saved register
\* keeps another value.
ConstantPrograms ==
  {<<Prologue(<<>>), Def(R(0), {}), PrepareOp, CallOp, RetvalOp(R(1)),
     PrepareOp, PutargOp(R(1)), PutargImm("FLOAT"), CallOp, Store({R(0)}), Ret({})>>}
=============================================================================
