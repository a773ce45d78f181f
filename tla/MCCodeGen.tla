----------------------------- MODULE MCCodeGen -----------------------------
(***************************************************************************)
(* CodeGen on programs of a few operations each: every operation, with its *)
(* operands in every kind of place, with values at the ends of 32 and 64   *)
(* bits, with many and with no free registers.                             *)
(***************************************************************************)
EXTENDS CodeGen, JitMeaning

-----------------------------------------------------------------------------
(* The machine: some memory for the data, some for the stack, and some for *)
(* the constants, in the lower 2^31 bytes or beyond the lower 2^32.        *)

MCStackTop == 8128
MCMagic == 30000
Near == W(12288)
Beyond == <<0, 48, 0, 0, 1, 0, 0, 0>>
DataAt == 4096 .. 4159
MCMapped == DataAt \cup (7936 .. 8191) \cup (12288 .. 12415) \cup (143360 .. 143487)

\* Two doubles, two floats, and bytes with and without their highest bit.
MCData ==
  InMemory(W(4096), Double(-10)) @@ InMemory(W(4104), Double(6)) @@
  InMemory(W(4112), ToFloat(Double(-10)) \o ToFloat(Double(6))) @@
  [a \in DataAt |-> (37 * a + 91) % 256]

\* Values: small ones, of both signs, and those at the ends of 32 and 64 bits.
Plus(a, n) == Add(a, W(n))
TwoTo31 == <<0, 0, 0, 128, 0, 0, 0, 0>>
TwoTo32 == <<0, 0, 0, 0, 1, 0, 0, 0>>
Small == AX :> W(100) @@ CX :> W(7) @@ DX :> W(-13) @@ R9 :> W(5) @@ R8 :> W(6)
           @@ SI :> W(-13) @@ DI :> W(9)
Large == AX :> MinWord @@ CX :> Plus(TwoTo32, 3) @@ DX :> W(-1) @@ R9 :> TwoTo31
           @@ SI :> W(-13) @@ DI :> W(9)
Counts == AX :> W(3) @@ CX :> W(60) @@ DX :> W(13) @@ R9 :> W(1)
Floats == 0 :> Double(10) @@ 1 :> Double(-6) @@ 5 :> Double(3) @@ 7 :> Double(21)
            @@ 9 :> Double(-8) @@ 12 :> Double(2)
Immediates ==
  {W(n) : n \in {0, 1, 2, 3, 4, 5, 8, 9, 127, 128, -1, -128, -129}}
    \cup {Plus(TwoTo31, -1), TwoTo31, Plus(TwoTo32, -1), Neg(TwoTo31), MinWord}

\* A program whose registers in keep are used after it, and start as in says.
Program(ops, keep, in) ==
  [ops |-> ops, keep |-> keep, options |-> DefaultOptions, pool |-> Near, slots |-> 2,
   base |-> 0, in |-> in, xin |-> Floats]
With(p, options) == [p EXCEPT !.options = options]
AllGp == {gp_regs[i] : i \in DOMAIN gp_regs}
Regs == {AX, CX, DX, R9}

-----------------------------------------------------------------------------
(* One operation.                                                          *)

ThreeRegisters(codes, signs, uses) ==
  {Program(<<Arith(code, FALSE, sign, a, b, c)>>, use.keep \cup {a}, use.in) :
     code \in codes, sign \in signs, a \in Regs, b \in Regs, c \in Regs, use \in uses}
Use(in, keep) == [in |-> in, keep |-> keep]
ArithmeticPrograms ==
  ThreeRegisters({"ADD", "SUB", "RSB", "OR", "XOR", "AND", "ADDC", "SUBC"}, {TRUE}, {Use(Small, Regs)})
    \cup ThreeRegisters({"MUL"}, {TRUE}, {Use(Small, Regs), Use(Large, {})})
    \cup ThreeRegisters({"HMUL", "DIV", "MOD"}, BOOLEAN, {Use(Small, Regs), Use(Large, {})})
    \cup ThreeRegisters({"LSH"}, {TRUE}, {Use(Counts, keep) : keep \in {{}, Regs, AllGp}})
    \cup ThreeRegisters({"RSH"}, BOOLEAN, {Use(Counts, Regs)})

TwoRegisters(codes, signs, keeps, imms) ==
  {Program(<<Arith(code, TRUE, sign, a, b, imm)>>, keep \cup {a}, Small) :
     code \in codes, sign \in signs, a \in {AX, DX, R9}, b \in {DX, R9},
     imm \in imms, keep \in keeps}
ImmediatePrograms ==
  TwoRegisters({"ADD", "SUB", "RSB", "AND", "ADDC", "SUBC"}, {TRUE}, {Regs}, Immediates)
    \cup TwoRegisters({"MUL"}, {TRUE}, {{}, Regs}, Immediates)
    \cup TwoRegisters({"HMUL", "DIV", "MOD"}, BOOLEAN, {{}, Regs \cup {BX}}, Immediates)
    \cup TwoRegisters({"LSH", "RSH"}, BOOLEAN, {Regs}, {W(n) : n \in {0, 1, 2, 31, 32, 63}})
    \cup {Program(<<Unary(code, FALSE, a, b)>>, Regs, Small) :
             code \in {"MOV", "NEG", "NOT"}, a \in {CX, R9}, b \in {CX, R9}}

Comparisons == {"LT", "LE", "GT", "GE", "EQ", "NE"}
ComparePrograms ==
  {Program(<<Arith(code, FALSE, sign, a, b, c)>>, AllGp, in) :
     code \in Comparisons, sign \in BOOLEAN, a \in {AX, R9, SI}, b \in {AX, DX, SI},
     c \in {AX, SI}, in \in {Small, Large}}
  \cup
  {Program(<<Arith(code, TRUE, sign, a, DX, imm)>>, AllGp \ {R15}, Small) :
     code \in Comparisons, sign \in BOOLEAN, a \in {DX, SI}, imm \in Immediates}

Sizes == {1, 2, 4, 8}
Bases == {BX, R9, R12, BP}
Displacements == {Zero, W(4), W(-4), W(1000), TwoTo32}
LoadPrograms ==
  {Program(<<Ld(FALSE, sign, a, b, size)>>, {a}, b :> W(4100)) :
     sign \in BOOLEAN, a \in {CX, R9, R12}, b \in Bases, size \in Sizes}
  \cup
  {Program(<<Ld(TRUE, sign, a, W(4101), size)>>, {a}, Small) :
     sign \in BOOLEAN, a \in {CX, R9}, size \in Sizes}
  \cup
  {Program(<<Ldx(TRUE, sign, a, b, d, size)>>, {a}, b :> Sub(W(4108), d)) :
     sign \in BOOLEAN, a \in {CX, R9}, b \in Bases, d \in Displacements, size \in Sizes}
  \cup
  {Program(<<Ldx(FALSE, sign, a, b, c, size)>>, {a}, b :> W(4100) @@ c :> W(8)) :
     sign \in BOOLEAN, a \in {CX, R9}, b \in Bases, c \in {SI, R10}, size \in Sizes}
StorePrograms ==
  {Program(<<St(FALSE, b, a, size)>>, {a}, b :> W(4100) @@ Small) :
     a \in {AX, SI, R9}, b \in Bases, size \in Sizes}
  \cup
  {Program(<<St(TRUE, W(4101), a, size)>>, {a}, Small) : a \in {CX, DI, R9}, size \in Sizes}
  \cup
  {Program(<<Stx(TRUE, d, b, a, size)>>, {a}, b :> Sub(W(4108), d) @@ Small) :
     a \in {DX, R9}, b \in Bases, d \in Displacements, size \in Sizes}
  \cup
  {Program(<<Stx(FALSE, b, c, a, size)>>, {a}, b :> W(4100) @@ c :> W(8) @@ Small) :
     a \in {DX, R8, BX}, b \in Bases \ {BX}, c \in {SI, R10}, size \in Sizes}

-----------------------------------------------------------------------------
(* Floating point, the constants near and far.                             *)

Xs == {XMM(0), XMM(1), XMM(9)}
At4096(size) == W(IF size = 4 THEN 4112 ELSE 4096)
Pooled(programs) == {[p EXCEPT !.pool = pool] : p \in programs, pool \in {Near, Beyond}}
FloatPrograms == Pooled(
  {Program(<<FArith(code, FALSE, a, b, c)>>, {a, b, c} \cup keep, Small) :
     code \in {"FADD", "FSUB", "FRSB", "FMUL", "FDIV"}, a \in Xs, b \in Xs, c \in Xs,
     keep \in {{}, AllGp}}
  \cup
  {Program(<<FArith(code, TRUE, a, b, Double(-12))>>, {a, b} \cup keep, Small) :
     code \in {"FADD", "FSUB", "FRSB", "FMUL", "FDIV"}, a \in Xs, b \in Xs, keep \in {{}, AllGp}}
  \cup
  {Program(<<FUnary("FNEG", a, b), FMov(FALSE, XMM(5), a)>>, {a, b, XMM(5)} \cup keep, Small) :
     a \in Xs, b \in Xs, keep \in {{}, AllGp}}
  \cup
  {Program(<<FMov(TRUE, a, Double(n)), FUnary(code, r, a)>>, {r, a, XMM(7)} \cup AllGp, Small) :
     code \in {"TRUNC", "CEIL", "FLOOR", "ROUND"}, r \in {AX, R9}, a \in {XMM(1), XMM(9)},
     n \in {-7, -6, -4, -2, -1, 0, 1, 2, 3, 4, 9}}
  \cup {Program(<<FUnary("EXT", a, b)>>, {a}, Small) : a \in Xs, b \in {AX, DX, R9}})

Patched(jump) == <<[jump EXCEPT !.name = "j"], Unary("MOV", TRUE, CX, W(33)), Patch("j")>>
FloatBranchPrograms ==
  {Program(Patched(FBranch(code, imm, Forward, b, IF imm THEN Double(c) ELSE XMM(c))), {CX}, Small) :
     code \in DOMAIN FBranchOps, imm \in BOOLEAN, b \in Xs, c \in {0, 1, 9, 12}}
  \cup
  {Program(<<Label("top"), FArith("FADD", FALSE, XMM(0), XMM(0), XMM(9)),
             FBranch(code, FALSE, "top", XMM(0), XMM(1))>>, {XMM(0)}, Small) :
     code \in {"FBGT", "FBGE"}}
FloatMemoryPrograms ==
  {Program(<<FLd(FALSE, a, b, size)>>, {a}, b :> At4096(size)) :
     a \in Xs, b \in Bases, size \in {4, 8}}
  \cup {Program(<<FLd(TRUE, a, At4096(size), size)>>, {a}, Small) : a \in Xs, size \in {4, 8}}
  \cup
  {Program(<<FLdx(TRUE, a, b, d, size)>>, {a}, b :> Sub(At4096(size), d)) :
     a \in Xs, b \in Bases, size \in {4, 8}, d \in {Zero, W(8), W(-500)}}
  \cup
  {Program(<<FLdx(FALSE, a, b, c, size)>>, {a}, b :> Plus(At4096(size), -8) @@ c :> W(8)) :
     a \in Xs, b \in Bases, c \in {SI, R10}, size \in {4, 8}}
  \cup
  {Program(<<FSt(FALSE, b, a, size)>>, keep, b :> W(4100)) :
     a \in Xs, keep \in {{}, Xs}, b \in Bases, size \in {4, 8}}
  \cup {Program(<<FSt(TRUE, W(4100), a, size)>>, Xs, Small) : a \in Xs, size \in {4, 8}}
  \cup
  {Program(<<FStx(TRUE, d, b, a, size)>>, Xs, b :> Sub(W(4100), d)) :
     a \in Xs, b \in Bases, size \in {4, 8}, d \in {Zero, W(8), W(-500)}}
  \cup
  {Program(<<FStx(FALSE, b, c, a, size)>>, Xs, b :> W(4100) @@ c :> W(8)) :
     a \in Xs, b \in Bases, c \in {SI, R10}, size \in {4, 8}}

-----------------------------------------------------------------------------
(* Several operations: jumps, carries, and what the optimizations change.  *)

BranchPrograms ==
  {Program(Patched(Branch(code, FALSE, sign, Forward, b, c)), Regs, in) :
     code \in DOMAIN BranchOps, sign \in BOOLEAN, b \in {AX, DX}, c \in Regs, in \in {Small, Large}}
  \cup
  {Program(Patched(Branch(code, TRUE, sign, Forward, b, imm)), Regs, Small) :
     code \in DOMAIN BranchOps, sign \in BOOLEAN, b \in {AX, R8}, imm \in Immediates}
LoopPrograms ==
  {Program(<<Label("top"), Arith("ADD", FALSE, TRUE, DX, DX, AX),
             [Jmp(TRUE, Forward) EXCEPT !.name = "j"], Unary("MOV", TRUE, DX, Zero), Patch("j"),
             Arith("SUB", TRUE, TRUE, CX, CX, One), Branch(code, TRUE, sign, "top", CX, bound)>>,
           {DX}, Small) :
     code \in {"BNE", "BGT"}, sign \in BOOLEAN, bound \in {Zero, W(4)}}
  \cup
  {Program(<<[Jmp(TRUE, Forward) EXCEPT !.name = "j"], Label("top"),
             Arith("ADD", FALSE, TRUE, DX, DX, AX),
             [Branch("BMS", TRUE, TRUE, Forward, DX, bit) EXCEPT !.name = "k"], Patch("j"),
             Arith("RSH", TRUE, TRUE, AX, AX, One), Jmp(TRUE, "top"), Patch("k")>>,
           {AX, DX}, Small) : bit \in {W(4), W(64)}}

\* Sums of two words: the carry goes from one operation to the next.
CarryPrograms ==
  {Program(<<Arith(code1, FALSE, TRUE, a, b, c), between, Arith(code2, FALSE, TRUE, d, CX, e)>>,
           Regs, Large) :
     code1 \in {"ADDC", "SUBC"}, code2 \in {"ADDX", "SUBX"}, a \in {AX, DX}, b \in {DX, AX},
     c \in {R9, DX}, d \in {AX, CX}, e \in {AX, CX},
     between \in {Nop, Unary("MOV", FALSE, AX, DX), Unary("MOV", TRUE, AX, Zero),
                 Unary("MOV", TRUE, AX, W(9))}}

Multiplications ==
  {Arith(by[1], TRUE, TRUE, a, b, W(by[2])) :
     by \in {<<"MUL", 8>>, <<"MUL", 3>>, <<"LSH", 1>>}, a \in {AX, CX}, b \in {CX, R9}}
Sums ==
  {Arith("ADD", FALSE, TRUE, a, b, c) : a \in {AX, CX}, b \in {CX, R9}, c \in {AX, R9}}
    \cup {Arith(by[1], TRUE, TRUE, a, b, W(by[2])) :
            by \in {<<"ADD", 6>>, <<"SUB", -1000>>, <<"SUB", 6>>}, a \in {AX, CX}, b \in {CX, R9}}
Seconds ==
  {Arith("ADD", FALSE, TRUE, d, e, f) : d \in {AX, DX}, e \in {AX, CX}, f \in {CX, R9, AX}}
    \cup {Arith(by[1], TRUE, TRUE, d, e, W(by[2])) :
            by \in {<<"ADD", 3>>, <<"OR", 3>>, <<"SUB", -100>>}, d \in {AX, DX}, e \in {AX, CX}}
JoinPrograms ==
  {With(Program(<<first, second>>, {AX, DX}, Small), options) :
     first \in Multiplications \cup Sums, second \in Seconds,
     options \in {OMIT_FRAME_PTR, DefaultOptions}}

AllOptions == {{}, OMIT_FRAME_PTR, OMIT_UNUSED_ASSIGNEMENTS, JOIN_ADDMUL}
Stores == {St(FALSE, BX, CX, 8), St(FALSE, BX, CX, 2), St(TRUE, W(4100), CX, 4),
           Stx(TRUE, W(5), BX, CX, 1), Stx(TRUE, W(5), BX, CX, 8), Stx(FALSE, BX, SI, CX, 4),
           Stx(FALSE, BX, SI, CX, 2), Stx(FALSE, BX, R10, CX, 8), Stx(FALSE, BX, R10, CX, 2), St(FALSE, CX, CX, 8)}
StoreConstantPrograms ==
  {With(Program(<<Unary("MOV", TRUE, a, imm), store>>, keep,
                BX :> W(4100) @@ SI :> W(8) @@ R10 :> W(8) @@ CX :> W(4112)), options) :
     a \in {CX, R9}, imm \in {Zero, W(-2), W(4104), Plus(TwoTo32, 5)}, store \in Stores,
     keep \in {{}, {CX}}, options \in AllOptions}
UnusedPrograms ==
  {With(Program(<<Arith(code[1], FALSE, TRUE, a, b, CX), Unary(mv, FALSE, d, e),
                  Arith(code[2], FALSE, TRUE, DX, DX, R9)>>, {DX}, Large), options) :
     code \in {<<"ADD", "SUB">>, <<"MUL", "XOR">>, <<"ADDC", "ADDX">>, <<"SUBC", "SUBX">>},
     a \in {AX, R9}, b \in {AX, DX}, mv \in {"MOV", "NOT"}, d \in {AX, CX}, e \in {AX, R9},
     options \in AllOptions}

\* Functions, with and without a frame, called wherever they start, and those
\* that save as many registers as there are to save.
Changed(regs) == [i \in DOMAIN regs |-> Unary("MOV", TRUE, regs[i], W(i))]
SavingPrograms ==
  {[With(Program(<<Prolog>> \o frame \o Changed(<<BX, R12, R14, R15>>) \o <<return>>,
                 {}, Small), {}) EXCEPT !.base = base] :
     frame \in {<<>>, <<Alloca(20)>>}, base \in {0, 1},
     return \in {Ret(TRUE, MinWord), Ret(FALSE, R15), FRet(FALSE, XMM(9), 4)}}
FunctionPrograms ==
  {[With(Program(<<Prolog>> \o frame \o
                 <<Unary("MOV", TRUE, a, W(5)), Arith("ADD", FALSE, TRUE, b, a, CX), return>>,
                 {}, Small), options) EXCEPT !.base = base, !.slots = slots] :
     frame \in {<<>>, <<Alloca(20), Stx(TRUE, W(-32), BP, CX, 8), Unary("MOV", TRUE, CX, Zero),
                      Ldx(TRUE, TRUE, CX, BP, W(-32), 8)>>},
     a \in {BX, R12, SI}, b \in {R14, AX}, options \in {{}, DefaultOptions},
     return \in {Ret(FALSE, CX), Ret(TRUE, W(77)), Ret(TRUE, W(-1)), Ret(FALSE, R14),
                FRet(FALSE, XMM(9), 8), FRet(TRUE, Double(14), 4)},
     base \in {0, 1}, slots \in {2, 3}}

\* Programs that fill one buffer and more.
LongPrograms ==
  {With(Program([i \in 1 .. n |-> Unary("MOV", TRUE, i % 3, Plus(TwoTo32, i))], {CX}, Small), {}) :
     n \in {20, 21, 60}}

MCPrograms ==
  ArithmeticPrograms \cup ImmediatePrograms \cup ComparePrograms \cup LoadPrograms
    \cup StorePrograms \cup FloatPrograms \cup FloatBranchPrograms \cup FloatMemoryPrograms
    \cup BranchPrograms \cup LoopPrograms \cup CarryPrograms \cup JoinPrograms
    \cup StoreConstantPrograms \cup UnusedPrograms \cup FunctionPrograms \cup SavingPrograms
    \cup LongPrograms

-----------------------------------------------------------------------------
(* What the code is known to get wrong.  First, the operations whose code   *)
(* does something else (see also Misdivides), each with its place.          *)

High(op, args) == \E i \in args : op.arg[i] % 100 > 7
Miscoded(op) ==
  \* emit_subx_op drops what it has pushed with an ADD, which overwrites the carry.
  \/ op.code \in {"SUBC", "SUBX"} /\ ~op.imm /\ op.arg[1] = op.arg[3] /\ op.arg[1] # op.arg[2]
  \* emit_shift_op reads CX from the stack, where nothing has pushed it ...
  \/ op.code \in {"LSH", "RSH"} /\ ~op.imm /\ op.arg[1] # CX /\ op.arg[2] = CX /\ op.arg[3] = CX
  \* ... and takes AX for the value while AX holds the count.
  \/ /\ op.code \in {"LSH", "RSH"} /\ ~op.imm /\ op.arg[1] = CX /\ op.arg[2] # AX
     /\ op.arg[3] = AX /\ jit_get_unused_reg(op) = NULL
  \* emit_sub_op and emit_rsb_op negate -2^31 within 32 bits.
  \/ /\ op.code \in {"SUB", "RSB"} /\ op.imm /\ op.arg[3] = Neg(TwoTo31)
     /\ op.code = "RSB" \/ op.arg[1] # op.arg[2]
  \* amd64_test_reg_reg_size swaps the REX bits; amd64_test_reg_imm_size takes R8 for AX.
  \/ op.code \in {"BMS", "BMC"} /\ ~op.imm /\ (op.arg[2] > 7) # (op.arg[3] > 7)
  \/ op.code \in {"BMS", "BMC"} /\ op.imm /\ op.arg[2] = R8
  \* amd64_movzx_membase and amd64_movsx_membase miss the SIB byte of R12.
  \/ op.code \in {"LD", "LDX"} /\ op.imm = (op.code = "LDX") /\ op.size < 4 /\ op.arg[2] = R12
  \* x86_mov_memindex_reg writes its 0x66 after the REX prefix ...
  \/ op.code = "STX" /\ ~op.imm /\ op.size = 2 /\ High(op, {1, 2, 3})
  \/ op.code = "STXI" /\ ~op.imm /\ op.size = 2 /\ High(op, {1, 2})
  \* ... and x86_movss_memindex_xreg has no prefix for the high registers.
  \/ op.code = "FSTX" /\ ~op.imm /\ op.size = 4 /\ High(op, {1, 2, 3})
  \* __sse_div_op shuffles without a prefix.
  \/ /\ op.code = "FDIV" /\ op.arg[1] = op.arg[3] /\ op.arg[1] # op.arg[2]
     /\ High(op, {1, 2})
  \* amd64_lea_memindex writes the base NOBASEREG as DI ...
  \/ op.code = "ADDMUL" /\ op.imm
  \* ... and x86_memindex_emit writes BP for the base of a long displacement.
  \/ op.code = "ADDIMM" /\ ~\E n \in -128 .. 127 : op.flt = W(n)
  \* x86_mov_mem_imm has a form of address that is relative to the code.
  \/ op.code = "STI" /\ op.imm

\* A constant 0 is moved by an XOR, which clears the carry.
LosesCarry(ops) ==
  \E i \in DOMAIN ops : /\ Is(ops[i], "MOV", TRUE) /\ ops[i].arg[2] = Zero
                        /\ \E j \in i + 1 .. Len(ops) : ops[j].code \in {"ADDX", "SUBX"}

MiscodedSomewhere == LosesCarry(list) \/ \E i \in DOMAIN list : Miscoded(list[i])

\* Then, the optimizations that change what the list means, by what they have
\* made of the operations before and after place i: get_related_op does not ask
\* whether the second operation reads what the first one makes; join_addr_addi
\* negates what is added; jit_optimize_st_ops removes the MOV that made the address,
\* and keeps constants only the MOV has room for.
Misjoined(before, i) ==
  /\ list[i + 1].code \in {"ADDIMM", "ADDMUL"}
  /\ \/ before[i].arg[1] \notin Read(before[i + 1])
     \/ Is(before[i], "ADD", FALSE) /\ Is(before[i + 1], "ADD", TRUE)
Misstored(before, i) ==
  /\ list[i + 1].code \in {"STI", "STXI"}
  /\ \/ before[i].arg[1] \in Read(list[i + 1])
     \/ jit_imm_overflow(TRUE, before[i].arg[2])
Misoptimized ==
  LET before == Prepared(prog.ops, prog.keep)
  IN  \E i \in 1 .. Len(list) - 1 : Misjoined(before, i) \/ Misstored(before, i)

-----------------------------------------------------------------------------
(* What a program means, and what its code has done                        *)

\* BP is where a frame would end.
Frame == 960 .. 1004
Begin == [r |-> Registers, x |-> XRegisters, carry |-> FALSE, pc |-> 1, defined |-> TRUE,
          mem |-> Data @@ [a \in Frame |-> 0]]
Promise(ops) == Meant(Begin, ops, MaxSteps)

LastOp == prog.ops[Len(prog.ops)]
IsFunction == prog.ops[1].code = "PROLOG"
Results == prog.keep \cup IF LastOp.code = "RET" THEN {AX} ELSE {}
Agree(s, t) ==
  /\ \A reg \in Results :
       IF reg < 100 THEN s.r[reg] = t.r[reg] ELSE s.x[reg - 100] = t.x[reg - 100]
  /\ \A a \in DOMAIN Data : s.mem[a] = t.mem[a]
  /\ LastOp.code = "FRET" => \A i \in 1 .. LastOp.size : s.x[0][i] = t.x[0][i]
Delivered == [r |-> m.r, x |-> [reg \in 0 .. 15 |-> m.x[reg].lo], mem |-> m.mem]

\* The programs whose code has to be right.
Expected(p) == ~lost /\ p.defined /\ ~MiscodedSomewhere /\ ~Misoptimized
Kept(p) == Expected(p) => Agree(p, Delivered)
MeansTheSame(p, q) == p.defined => q.defined /\ Agree(p, q)

-----------------------------------------------------------------------------
(* Properties                                                              *)

\* The code leaves in every register that is used after it, and in memory, what
\* the operations mean: whatever registers the operands are in, which of them are
\* the same, which hold other values that are needed (so that jit_gen_op has to
\* move or push them), and whatever the optimizations have done to the list.
ComputesRight ==
  phase = "done" => Kept(Promise(prog.ops))

\* The code of a program never faults, and comes to its end: it writes and reads
\* only the memory of the program, its constants and its stack, divides only
\* what can be divided, and jumps to where instructions begin.
NeverFaults ==
  (phase = "run" /\ (m.st # "run" \/ steps = MaxSteps)) => ~Expected(Promise(prog.ops))

\* Replacing immediates, removing unused assignments, storing constants and
\* joining operations leave the meaning of the list as it was.
PassesKeepMeaning ==
  (phase = "generate" /\ next = 1 /\ ~Misoptimized) =>
    MeansTheSame(Promise(prog.ops), Promise(list))

\* Whatever its operations push they pop, in the same order; a function returns to
\* its caller with the stack as the caller left it, and with the registers that
\* belong to the caller unchanged.
StackRestored ==
  (phase = "done" /\ ~lost /\ ~MiscodedSomewhere) =>
    /\ m.r[SP] = W(IF IsFunction THEN StackTop + 8 ELSE StackTop)
    /\ m.ip = IF IsFunction THEN Magic ELSE Len(buf) + 1
    /\ \A a \in StackTop .. StackTop + 63 : LoadByte(m.mem, a) = LoadByte(InitialMemory, a)
    /\ IsFunction => \A reg \in callee_saved \cup {BP} : m.r[reg] = Registers[reg]

\* The code of no operation is longer than the MINIMAL_BUF_SPACE bytes jit_generate_code
\* sees to before it (jitlib-core.c:312), wherever its operands are and whatever has
\* to be pushed, moved or aligned for it: so none writes behind the end of the buffer.
RoomLeft ==
  [][/\ Len(buf') <= capacity'
     /\ capacity' = capacity => Len(buf') - Len(buf) <= MINIMAL_BUF_SPACE]_buf
=============================================================================
