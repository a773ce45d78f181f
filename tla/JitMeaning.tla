----------------------------- MODULE JitMeaning -----------------------------
(***************************************************************************)
(* What a list of operations means, whatever machine code it becomes: the  *)
(* promise of the macros of jitlib-core.h to their user.  A state is the   *)
(* values of the registers and of memory, the carry that an ADDC, ADDX,    *)
(* SUBC or SUBX leaves to the ADDX or SUBX after it, and the next          *)
(* operation; defined becomes FALSE where nothing is promised.             *)
(***************************************************************************)
EXTENDS JitCode, X86Machine

\* The value of argument i.
Value(s, op, i) ==
  IF op.spec[i] = "REG" THEN IF op.arg[i] < 100 THEN s.r[op.arg[i]] ELSE s.x[op.arg[i] - 100]
  ELSE IF op.fp THEN op.flt ELSE op.arg[i]

Put(s, op, v) ==
  IF op.arg[1] < 100 THEN [s EXCEPT !.r[op.arg[1]] = v, !.pc = @ + 1]
  ELSE [s EXCEPT !.x[op.arg[1] - 100] = v, !.pc = @ + 1]
Undefined(s) == [s EXCEPT !.defined = FALSE]
\* The bytes an operation works on have to be memory.
InMem(s, a, size) == Loc(a) .. Loc(a) + size - 1 \subseteq DOMAIN s.mem

Truth(b) == IF b THEN One ELSE Zero

\* A comparison of words, by its name.
Compares(cond, sign, a, b) ==
  LET less(p, q) == IF sign THEN Less(p, q) ELSE Below(p, q)
  IN  CASE cond = "LT" -> less(a, b)  [] cond = "LE" -> ~less(b, a)
        [] cond = "GT" -> less(b, a)  [] cond = "GE" -> ~less(a, b)
        [] cond = "EQ" -> a = b       [] cond = "NE" -> a # b

Overflows(a, b) == Negative(a) = Negative(b) /\ Negative(Add(a, b)) # Negative(a)
OverflowsSub(a, b) == Negative(a) # Negative(b) /\ Negative(Sub(a, b)) # Negative(a)

WithSigns(q, a, b) ==
  [a |-> SignedIf(Negative(a) # Negative(b), q.a), rem |-> SignedIf(Negative(a), q.rem)]
Quotient(sign, a, b) ==
  IF sign THEN WithSigns(Divide(Zero, Magnitude(a), Magnitude(b)), a, b) ELSE Divide(Zero, a, b)
Divides(sign, a, b) == b # Zero /\ ~(sign /\ a = MinWord /\ b = Not(Zero))

SmallCount(b) == \E n \in 0 .. 63 : b = W(n)
Count(b) == b[1]

\* Where an operation is undefined.
Refuses(op, a, b) ==
  \/ op.code \in {"DIV", "MOD"} /\ ~Divides(op.sign, a, b)
  \/ op.code \in {"LSH", "RSH"} /\ ~SmallCount(b)
  \/ op.code \in {"TRUNC", "CEIL", "FLOOR", "ROUND"} /\ a = NaN

\* The dividends the generated code divides wrongly: emit_div_op shifts or masks
\* a negative one when the divisor is the constant 2, 4 or 8, and sign-extends
\* an unsigned one whose highest bit is set when it is not.
Misdivides(op, a) ==
  /\ op.code \in {"DIV", "MOD"}
  /\ Negative(a)
  /\ op.sign = (op.imm /\ op.arg[3] \in {W(2), W(4), W(8)})

\* Halves are rounded away from zero.
Rounded(code, n) ==
  CASE code = "TRUNC" -> Truncated(n)
    [] code = "FLOOR" -> n \div 4
    [] code = "CEIL" -> -((-n) \div 4)
    [] code = "ROUND" -> IF n < 0 THEN Truncated(n - 2) ELSE Truncated(n + 2)

\* The result of an operation from the values of its second and third argument.
Computed(op, a, b) ==
  CASE op.code \in {"MOV", "FMOV"} -> a
    [] op.code \in {"ADD", "ADDC"} -> Add(a, b)
    [] op.code \in {"SUB", "SUBC"} -> Sub(a, b)
    [] op.code = "RSB" -> Sub(b, a)
    [] op.code = "OR" -> Or(a, b)
    [] op.code = "XOR" -> Xor(a, b)
    [] op.code = "AND" -> And(a, b)
    [] op.code = "NEG" -> Neg(a)
    [] op.code = "NOT" -> Not(a)
    [] op.code = "LSH" -> Shl(a, Count(b))
    [] op.code = "RSH" -> IF op.sign THEN Sar(a, Count(b)) ELSE Shr(a, Count(b))
    [] op.code = "MUL" -> Product(a, b).low
    [] op.code = "HMUL" -> IF op.sign THEN SignedHigh(a, b) ELSE Product(a, b).high
    [] op.code = "DIV" -> Quotient(op.sign, a, b).a
    [] op.code = "MOD" -> Quotient(op.sign, a, b).rem
    [] op.code \in {"LT", "LE", "GT", "GE", "EQ", "NE"} ->
         Truth(Compares(op.code, op.sign, a, b))
    [] op.code = "FADD" -> FloatOp(88, a, b)
    [] op.code = "FSUB" -> FloatOp(92, a, b)
    [] op.code = "FRSB" -> FloatOp(92, b, a)
    [] op.code = "FMUL" -> FloatOp(89, a, b)
    [] op.code = "FDIV" -> FloatOp(94, a, b)
    [] op.code = "FNEG" -> [a EXCEPT ![8] = IF @ > 127 THEN @ - 128 ELSE @ + 128]
    [] op.code = "EXT" -> Double(4 * SmallInt(a))
    [] op.code \in {"TRUNC", "CEIL", "FLOOR", "ROUND"} -> W(Rounded(op.code, Quarters(a)))
    [] op.code = "ADDMUL" /\ op.imm -> Add(Shl(a, op.size), b)
    [] op.code = "ADDMUL" /\ ~op.imm -> Add(a, Shl(b, op.size))
    [] op.code = "ADDIMM" -> Add(Add(a, b), op.flt)

\* Sums with a carry, and what they leave.
WithCarry == [ADDC |-> "add", ADDX |-> "add", SUBC |-> "sub", SUBX |-> "sub"]
CarryEffect(s, op, a, b) ==
  LET c == IF op.code \in {"ADDX", "SUBX"} /\ s.carry THEN 1 ELSE 0
      res == IF WithCarry[op.code] = "add" THEN Carry(a, b, c) ELSE Carry(a, Not(b), 1 - c)
  IN  [Put(s, op, res.sum) EXCEPT !.carry = (res.carry = 1) = (WithCarry[op.code] = "add")]

LoadCodes == {"LD", "LDX", "FLD", "FLDX"}
StoreCodes == {"ST", "STX", "STI", "STXI", "FST", "FSTX"}
MemoryCodes == LoadCodes \cup StoreCodes

\* Memory: the address is one argument, or the sum of two.
Address(s, op) ==
  CASE op.code \in {"LD", "FLD"} -> Value(s, op, 2)
    [] op.code \in {"LDX", "FLDX"} -> Add(Value(s, op, 2), Value(s, op, 3))
    [] op.code \in {"ST", "FST", "STI"} -> IF op.spec[1] = "REG" THEN Value(s, op, 1) ELSE op.arg[1]
    [] OTHER -> Add(IF op.spec[1] = "REG" THEN Value(s, op, 1) ELSE op.arg[1], Value(s, op, 2))
\* The floating-point loads and stores are not made by jit_add_fop.
Loaded(s, op) ==
  LET w == Load(s.mem, Address(s, op), op.size)
  IN  IF op.code \in {"FLD", "FLDX"}
      THEN IF op.size = 4 THEN OfFloat(w) ELSE w
      ELSE IF op.sign THEN SignExtend(w, op.size) ELSE w
Stored(s, op) ==
  LET v == Value(s, op, IF op.code \in {"ST", "FST", "STI"} THEN 2 ELSE 3)
      bytes == IF op.code \in {"FST", "FSTX"} /\ op.size = 4 THEN ToFloat(v) ELSE v
  IN  [s EXCEPT !.mem = Store(@, Address(s, op), bytes, op.size), !.pc = @ + 1]

\* Whether a jump is taken.  BOADD and BOSUB leave their result behind.
Taken(op, a, b) ==
  CASE op.code = "JMP" -> TRUE
    [] op.code = "BMS" -> And(a, b) # Zero
    [] op.code = "BMC" -> And(a, b) = Zero
    [] op.code = "BOADD" -> Overflows(a, b)
    [] op.code = "BOSUB" -> OverflowsSub(a, b)
    [] op.code = "FBEQ" -> NaN \notin {a, b} /\ Quarters(a) = Quarters(b)
    [] op.code = "FBNE" -> NaN \in {a, b} \/ Quarters(a) # Quarters(b)
    [] op.code = "FBLT" -> NaN \notin {a, b} /\ Quarters(a) < Quarters(b)
    [] op.code = "FBLE" -> NaN \notin {a, b} /\ Quarters(a) <= Quarters(b)
    [] op.code = "FBGT" -> NaN \notin {a, b} /\ Quarters(a) > Quarters(b)
    [] op.code = "FBGE" -> NaN \notin {a, b} /\ Quarters(a) >= Quarters(b)
    [] op.code = "BLT" -> Compares("LT", op.sign, a, b)
    [] op.code = "BLE" -> Compares("LE", op.sign, a, b)
    [] op.code = "BGT" -> Compares("GT", op.sign, a, b)
    [] op.code = "BGE" -> Compares("GE", op.sign, a, b)
    [] op.code = "BEQ" -> a = b
    [] op.code = "BNE" -> a # b

Destination(ops, i) ==
  CHOOSE j \in DOMAIN ops :
    \/ ops[j].code = "LABEL" /\ ops[j].arg[1] = ops[i].arg[1]
    \/ ops[j].code = "PATCH" /\ ops[j].arg[1] = ops[i].name
JumpCodes == {"JMP", "BLT", "BLE", "BGT", "BGE", "BEQ", "BNE", "BMS", "BMC", "BOADD", "BOSUB",
              "FBLT", "FBLE", "FBGT", "FBGE", "FBEQ", "FBNE"}
JumpBy(s, ops, op, a, b) ==
  [s EXCEPT !.pc = IF Taken(op, a, b) THEN Destination(ops, s.pc) ELSE s.pc + 1,
            !.r = CASE op.code = "BOADD" -> [@ EXCEPT ![op.arg[2]] = Add(a, b)]
                    [] op.code = "BOSUB" -> [@ EXCEPT ![op.arg[2]] = Sub(a, b)]
                    [] OTHER -> @]
JumpEffect(s, ops) ==
  LET op == ops[s.pc]
  IN  IF op.code = "JMP" THEN JumpBy(s, ops, op, Zero, Zero)
      ELSE JumpBy(s, ops, op, Value(s, op, 2), Value(s, op, 3))

Effect(s, ops) ==
  LET op == ops[s.pc]
      a == Value(s, op, 2)
      b == IF op.spec[3] = "NO" THEN Zero ELSE Value(s, op, 3)
  IN  CASE op.code \in {"NOP", "LABEL", "PATCH", "PROLOG", "ALLOCA"} ->
             [s EXCEPT !.pc = @ + 1]
        [] op.code \in JumpCodes -> JumpEffect(s, ops)
        [] op.code = "RET" -> [s EXCEPT !.r[AX] = Value(s, op, 1), !.pc = Len(ops) + 1]
        [] op.code = "FRET" ->
             [s EXCEPT !.x[0] = IF op.size = 4 THEN ToFloat(Value(s, op, 1)) \o <<0, 0, 0, 0>>
                                ELSE Value(s, op, 1), !.pc = Len(ops) + 1]
        [] op.code \in DOMAIN WithCarry -> CarryEffect(s, op, a, b)
        [] op.code \in MemoryCodes /\ ~InMem(s, Address(s, op), op.size) -> Undefined(s)
        [] op.code \in LoadCodes -> Put(s, op, Loaded(s, op))
        [] op.code \in StoreCodes -> Stored(s, op)
        [] Refuses(op, a, b) \/ Misdivides(op, a) -> Undefined(s)
        [] OTHER -> Put(s, op, Computed(op, a, b))

RECURSIVE Meant(_, _, _)
MeantThen(s, ops, fuel) == IF s.pc > 0 THEN Meant(s, ops, fuel - 1) ELSE s
\* The state at the end, which comes after at most fuel operations.
Meant(s, ops, fuel) ==
  IF s.pc > Len(ops) \/ ~s.defined \/ fuel = 0 THEN s ELSE MeantThen(Effect(s, ops), ops, fuel)
=============================================================================
