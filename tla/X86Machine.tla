---------------------------- MODULE X86Machine ----------------------------
(***************************************************************************)
(* The processor that runs the generated code, as far as that code uses    *)
(* it: it takes one instruction from the bytes of the code, and carries it *)
(* out.  None of it is in the repository; an instruction or a form of one  *)
(* that is not here makes it fault, and no property holds of a fault.      *)
(*                                                                         *)
(* A double is the word whose lower half is its magnitude in quarters and  *)
(* whose highest bit is its sign: all that the generated code does to the  *)
(* bits of a double is to flip the sign.  A float is the same in 4 bytes.  *)
(***************************************************************************)
EXTENDS Integers, Sequences, TLC, Words

CONSTANT Mapped     \* the addresses that are memory

Prefixes == {102, 242, 243}

-----------------------------------------------------------------------------
(* Numbers with a fraction                                                 *)

NaN == <<1, 0, 0, 0, 0, 0, 248, 127>>
Int31(a) == a[1] + 256 * a[2] + 65536 * a[3] + 16777216 * (a[4] % 128)
Abs(n) == IF n < 0 THEN -n ELSE n

\* The double of n quarters, and the quarters of a double.
Double(n) == [W(Abs(n)) EXCEPT ![8] = IF n < 0 THEN 128 ELSE 0]
Quarters(d) == IF d[8] > 127 THEN -Int31(d) ELSE Int31(d)

ToFloat(d) == <<d[1], d[2], d[3], d[8]>>
OfFloat(f) == IF f[4] = 127 THEN NaN ELSE <<f[1], f[2], f[3], 0, 0, 0, 0, f[4]>>

Truncated(n) == IF n < 0 THEN -((-n) \div 4) ELSE n \div 4
SmallInt(a) == IF Negative(a) THEN -Int31(Neg(a)) ELSE Int31(a)

\* ADDSD, MULSD, SUBSD, DIVSD, XORPD on the lower doubles.
FloatOp(opc, a, b) ==
  IF opc = 87 THEN Xor(a, b)
  ELSE IF NaN \in {a, b} THEN NaN
  ELSE LET x == Quarters(a)
           y == Quarters(b)
           Signed(n, neg) == IF neg THEN -n ELSE n
       IN  CASE opc = 88 -> Double(x + y)
             [] opc = 92 -> Double(x - y)
             [] opc = 89 -> Double(Signed((Abs(x) * Abs(y)) \div 4, (x < 0) # (y < 0)))
             [] opc = 94 -> IF y = 0 THEN NaN
                            ELSE Double(Signed((4 * Abs(x)) \div Abs(y),
                                               (x < 0) # (y < 0)))

-----------------------------------------------------------------------------
(* Memory and registers.  A state of the machine:                          *)
(*   r, x   the general purpose and the XMM registers, x with both halves  *)
(*   cf, zf, sf, of   the flags                                            *)
(*   mem    the bytes of memory that hold something                        *)
(*   ip     the position in the code                                       *)
(*   st     "run" or "fault"                                               *)

\* An address as a number: low memory, what lies just above 2^31, what lies
\* just above 2^32, or -1 for what is no memory.
Loc(w) ==
  LET low == w[1] + 256 * w[2]
  IN  CASE SubSeq(w, 3, 8) = <<0, 0, 0, 0, 0, 0>> -> low
        [] SubSeq(w, 3, 8) = <<0, 128, 0, 0, 0, 0>> -> 65536 + low
        [] SubSeq(w, 3, 8) = <<0, 0, 1, 0, 0, 0>> -> 131072 + low
        [] OTHER -> -1

MappedAt(w, size) == Loc(w) \in Mapped /\ Loc(w) + size - 1 \in Mapped

LoadByte(mem, a) == IF a \in DOMAIN mem THEN mem[a] ELSE 204
LoadBytes(mem, w, size) == [i \in 1 .. size |-> LoadByte(mem, Loc(w) + i - 1)]
\* The lowest bytes of a word; the others are 0.
Load(mem, w, size) ==
  LET a == Loc(w)
      B(i) == IF i <= size THEN LoadByte(mem, a + i - 1) ELSE 0
  IN  Word(B)
Store(mem, w, bytes, size) ==
  LET a == Loc(w)
  IN  [i \in a .. a + size - 1 |-> bytes[i - a + 1]] @@ mem

\* A register written with an operand of a size: 32 bits clear the others.
Merge(old, new, size) ==
  IF size = 8 THEN new
  ELSE IF size = 4 THEN ZeroExtend(new, 4)
  ELSE LET B(i) == IF i <= size THEN new[i] ELSE old[i] IN Word(B)

-----------------------------------------------------------------------------
(* Decoding                                                                *)

At(code, i) == IF i \in 1 .. Len(code) THEN code[i] ELSE 0

RECURSIVE Prefix(_, _, _)
\* The prefixes and the opcode; a REX prefix counts only next to the opcode.
Prefix(code, i, d) ==
  LET b == At(code, i)
  IN  IF b \in Prefixes
      THEN Prefix(code, i + 1, [d EXCEPT !.pre = @ \cup {b}, !.rex = 0])
      ELSE IF b \in 64 .. 79
      THEN Prefix(code, i + 1, [d EXCEPT !.rex = b])
      ELSE IF b = 15
      THEN [d EXCEPT !.op = 256 + At(code, i + 1), !.next = i + 2]
      ELSE [d EXCEPT !.op = b, !.next = i + 1]

Decoded(code, ip) ==
  Prefix(code, ip, [pre |-> {}, rex |-> 0, op |-> 0, next |-> 0])

RexW(d) == (d.rex \div 8) % 2 = 1
RexR(d) == 8 * ((d.rex \div 4) % 2)
RexX(d) == 8 * ((d.rex \div 2) % 2)
RexB(d) == 8 * (d.rex % 2)
SizeOf(d) == IF RexW(d) THEN 8 ELSE IF 102 \in d.pre THEN 2 ELSE 4

Imm8(code, i) == LET b == At(code, i) s == SignOf(b)
                 IN  <<b, s, s, s, s, s, s, s>>
Imm32(code, i) ==
  LET b(k) == At(code, i + k)
  IN  SignExtend(<<b(0), b(1), b(2), b(3), 0, 0, 0, 0>>, 4)
Imm64(code, i) == LET B(k) == At(code, i + k - 1) IN Word(B)

\* The operands of ModRM: reg, and a register rm or the address ea; end is
\* the position after them.
Operands(code, d, r) ==
  LET b == At(code, d.next)
      mod == b \div 64
      rm == b % 8
      reg == ((b \div 8) % 8) + RexR(d)
      sib == At(code, d.next + 1)
      hasSib == mod # 3 /\ rm = 4
      at == d.next + (IF hasSib THEN 2 ELSE 1)
      index == ((sib \div 8) % 8) + RexX(d)
      noBase == mod = 0 /\ (IF hasSib THEN sib % 8 ELSE rm) = 5
      base == IF noBase THEN Zero
              ELSE r[(IF hasSib THEN sib % 8 ELSE rm) + RexB(d)]
      scaled == IF hasSib /\ index # 4 THEN Shl(r[index], sib \div 64) ELSE Zero
      disp == IF noBase \/ mod = 2 THEN Imm32(code, at)
              ELSE IF mod = 1 THEN Imm8(code, at) ELSE Zero
      long == IF noBase \/ mod = 2 THEN 4 ELSE IF mod = 1 THEN 1 ELSE 0
  IN  IF mod = 3
      THEN [isReg |-> TRUE, reg |-> reg, rm |-> rm + RexB(d), ea |-> Zero,
            end |-> d.next + 1, relative |-> FALSE]
      ELSE [isReg |-> FALSE, reg |-> reg, rm |-> 0,
            ea |-> Add(Add(base, scaled), disp), end |-> at + long,
            relative |-> noBase /\ ~hasSib]

-----------------------------------------------------------------------------
(* Carrying out                                                            *)

Fault(m) == [m EXCEPT !.st = "fault"]
Go(m, ip) == [m EXCEPT !.ip = ip]

ReadRm(m, o, size) ==
  IF o.isReg THEN m.r[o.rm] ELSE Load(m.mem, o.ea, size)
WriteRm(m, o, v, size) ==
  IF o.isReg THEN [m EXCEPT !.r[o.rm] = Merge(@, v, size)]
  ELSE [m EXCEPT !.mem = Store(@, o.ea, v, size)]

Flags(m, v, cf, of) ==
  [m EXCEPT !.zf = (v = Zero), !.sf = Negative(v), !.cf = cf, !.of = of]

\* The result and the flags of an ALU operation, numbered as in the opcodes.
Added(a, b, c) ==
  LET s == Carry(a, b, c)
  IN  [v |-> s.sum, cf |-> s.carry = 1,
       of |-> Negative(a) = Negative(b) /\ Negative(s.sum) # Negative(a)]
Subtracted(a, b, c) ==
  LET s == Added(a, Not(b), 1 - c) IN [s EXCEPT !.cf = ~@]
AluResult(n, a, b, cf) ==
  LET c == IF cf THEN 1 ELSE 0
      Logic(v) == [v |-> v, cf |-> FALSE, of |-> FALSE]
  IN  CASE n = 0 -> Added(a, b, 0)
        [] n = 1 -> Logic(Or(a, b))
        [] n = 2 -> Added(a, b, c)
        [] n = 3 -> Subtracted(a, b, c)
        [] n = 4 -> Logic(And(a, b))
        [] n \in {5, 7} -> Subtracted(a, b, 0)
        [] n = 6 -> Logic(Xor(a, b))
\* CMP, operation 7, leaves its operand alone.
Put8(m, n, o, v) == IF n = 7 THEN m ELSE WriteRm(m, o, v, 8)
AluEnd(m, n, o, res) == Put8(Flags(m, res.v, res.cf, res.of), n, o, res.v)
Alu(m, n, o, b) == AluEnd(m, n, o, AluResult(n, ReadRm(m, o, 8), b, m.cf))

Test(m, a, b) == Flags(m, And(a, b), FALSE, FALSE)

\* The condition of a jump or of SETcc, by the lowest digit of its opcode.
Holds(m, n) ==
  CASE n = 0 -> m.of              [] n = 1 -> ~m.of
    [] n = 2 -> m.cf              [] n = 3 -> ~m.cf
    [] n = 4 -> m.zf              [] n = 5 -> ~m.zf
    [] n = 6 -> m.cf \/ m.zf      [] n = 7 -> ~(m.cf \/ m.zf)
    [] n = 12 -> m.sf # m.of      [] n = 13 -> m.sf = m.of
    [] n = 14 -> m.zf \/ m.sf # m.of
    [] n = 15 -> ~m.zf /\ m.sf = m.of
    [] OTHER -> FALSE

\* Shifts: the count is taken modulo 64; a count of 0 leaves the flags alone.
Shifted(n, v, count) ==
  CASE n = 4 -> Shl(v, count) [] n = 5 -> Shr(v, count) [] n = 7 -> Sar(v, count)
Shift(m, n, o, count) ==
  LET c == count % 64
      v == Shifted(n, ReadRm(m, o, 8), c)
  IN  IF n \notin {4, 5, 7} THEN Fault(m)
      ELSE IF c = 0 THEN m ELSE Flags(WriteRm(m, o, v, 8), v, FALSE, FALSE)

AXDX(m, low, high) == [m EXCEPT !.r[0] = low, !.r[2] = high]

\* DIV faults when the quotient has no room in a word.
Div(m, b) ==
  IF ~Below(m.r[2], b) THEN Fault(m)
  ELSE LET q == Divide(m.r[2], m.r[0], b) IN AXDX(m, q.a, q.rem)
MinWord == <<0, 0, 0, 0, 0, 0, 0, 128>>
\* IDIV divides the magnitudes; the remainder has the dividend's sign.
SignedIf(neg, a) == IF neg THEN Neg(a) ELSE a
IDivEnd(m, neg, negq, q) ==
  IF Negative(q.a) /\ ~(negq /\ q.a = MinWord) THEN Fault(m)
  ELSE AXDX(m, SignedIf(negq, q.a), SignedIf(neg, q.rem))
IDivBy(m, neg, high, low, b, divisor) ==
  IF ~Below(high, divisor) THEN Fault(m)
  ELSE IDivEnd(m, neg, neg # Negative(b), Divide(high, low, divisor))
IDiv(m, b) ==
  LET neg == Negative(m.r[2])
      low == SignedIf(neg, m.r[0])
      high == IF neg /\ m.r[0] # Zero THEN Not(m.r[2]) ELSE SignedIf(neg, m.r[2])
  IN  IDivBy(m, neg, high, low, b, Magnitude(b))

\* Group F7 without TEST, by its number.
Group3(m, n, o) ==
  LET v == ReadRm(m, o, 8)
  IN  CASE n = 2 -> WriteRm(m, o, Not(v), 8)
        [] n = 3 -> LET s == Subtracted(Zero, v, 0)
                    IN  Flags(WriteRm(m, o, s.v, 8), s.v, s.cf, s.of)
        [] n = 4 -> LET p == Product(m.r[0], v)
                    IN  Flags(AXDX(m, p.low, p.high), Zero, p.high # Zero, p.high # Zero)
        [] n = 5 -> LET low == Product(m.r[0], v).low
                        high == SignedHigh(m.r[0], v)
                        wide == high # (IF Negative(low) THEN Not(Zero) ELSE Zero)
                    IN  Flags(AXDX(m, low, high), Zero, wide, wide)
        [] n = 6 -> Div(m, v)
        [] n = 7 -> IDiv(m, v)

Push(m, v) ==
  LET sp == Sub(m.r[4], W(8))
  IN  IF ~MappedAt(sp, 8) THEN Fault(m)
      ELSE [m EXCEPT !.r[4] = sp, !.mem = Store(@, sp, v, 8)]
Pop(m, reg) ==
  IF ~MappedAt(m.r[4], 8) THEN Fault(m)
  ELSE [m EXCEPT !.r = [@ EXCEPT ![4] = Add(@, W(8)),
                                 ![reg] = Load(m.mem, m.r[4], 8)]]

\* SSE: a source that is a register or in memory, as a double.
XSource(m, o) == IF o.isReg THEN m.x[o.rm].lo ELSE Load(m.mem, o.ea, 8)
SetLow(m, reg, v) == [m EXCEPT !.x[reg].lo = v]

Comi(m, a, b) ==
  LET unordered == NaN \in {a, b}
  IN  [m EXCEPT !.zf = unordered \/ Quarters(a) = Quarters(b),
                !.cf = unordered \/ Quarters(a) < Quarters(b),
                !.sf = FALSE, !.of = FALSE]

\* SHUFPD of a register with itself: each half from the half imm names.
Shuf(m, reg, rm, imm) ==
  LET half(k) == IF (imm \div k) % 2 = 1 THEN m.x[IF k = 1 THEN reg ELSE rm].hi
                 ELSE m.x[IF k = 1 THEN reg ELSE rm].lo
  IN  [m EXCEPT !.x[reg] = [lo |-> half(1), hi |-> half(2)]]

Sse(m, code, d, o) ==
  LET opc == d.op - 256
      F2 == 242 \in d.pre
      F3 == 243 \in d.pre
      P66 == 102 \in d.pre
      src == XSource(m, o)
  IN  CASE opc = 16 /\ F2 /\ o.isReg -> SetLow(m, o.reg, src)
        [] opc = 16 /\ F2 -> [m EXCEPT !.x[o.reg] = [lo |-> src, hi |-> Zero]]
        [] opc = 17 /\ F3 /\ ~o.isReg ->
             [m EXCEPT !.mem = Store(@, o.ea, m.x[o.reg].lo, 4)]
        [] opc = 18 /\ P66 /\ ~o.isReg -> SetLow(m, o.reg, src)
        [] opc = 19 /\ P66 /\ ~o.isReg ->
             [m EXCEPT !.mem = Store(@, o.ea, m.x[o.reg].lo, 8)]
        [] opc = 42 /\ F2 /\ o.isReg /\ RexW(d) ->
             SetLow(m, o.reg, Double(4 * SmallInt(m.r[o.rm])))
        [] opc = 44 /\ F2 /\ o.isReg /\ RexW(d) ->
             [m EXCEPT !.r[o.reg] =
                IF src = NaN THEN <<0, 0, 0, 0, 0, 0, 0, 128>>
                ELSE W(Truncated(Quarters(src)))]
        [] opc = 47 /\ P66 -> Comi(m, m.x[o.reg].lo, src)
        [] opc = 87 /\ P66 -> SetLow(m, o.reg, Xor(m.x[o.reg].lo, src))
        [] opc = 90 /\ F2 /\ o.isReg ->
             SetLow(m, o.reg, ToFloat(src) \o SubSeq(m.x[o.reg].lo, 5, 8))
        [] opc = 90 /\ F3 /\ ~o.isReg ->
             SetLow(m, o.reg, OfFloat(LoadBytes(m.mem, o.ea, 4)))
        [] opc \in {88, 89, 92, 94} /\ F2 ->
             SetLow(m, o.reg, FloatOp(opc, m.x[o.reg].lo, src))
        [] opc = 198 /\ P66 /\ o.isReg ->
             Shuf(m, o.reg, o.rm, At(code, o.end))
        [] OTHER -> Fault(m)

SseOpcodes == {16, 17, 18, 19, 42, 44, 47, 87, 88, 89, 90, 92, 94, 198}

Moves(d) == d.op \in {136, 137, 138, 139, 198, 199, 99,
                      256 + 182, 256 + 183, 256 + 190, 256 + 191}

\* MOV, MOVZX, MOVSX, MOVSXD
Move(m, code, d, o, size) ==
  LET n == d.op % 256
      from == IF d.op \in {438, 446} THEN 1 ELSE IF d.op \in {439, 447} THEN 2 ELSE 4
      v == ReadRm(m, o, from)
  IN  CASE d.op \in {136, 137} ->
             LET s == IF n = 136 THEN 1 ELSE size
             IN  Go(WriteRm(m, o, m.r[o.reg], s), o.end)
        [] d.op \in {138, 139} ->
             LET s == IF n = 138 THEN 1 ELSE size
             IN  Go([m EXCEPT !.r[o.reg] = Merge(@, ReadRm(m, o, s), s)], o.end)
        [] d.op \in {198, 199} ->
             LET s == IF n = 198 THEN 1 ELSE size
                 imm == IF s = 1 THEN Imm8(code, o.end) ELSE Imm32(code, o.end)
             IN  Go(WriteRm(m, o, imm, s), o.end + (IF s = 8 THEN 4 ELSE s))
        [] d.op \in {438, 439} ->
             Go([m EXCEPT !.r[o.reg] = Merge(@, ZeroExtend(v, from), size)], o.end)
        [] OTHER ->
             Go([m EXCEPT !.r[o.reg] = Merge(@, SignExtend(v, from), size)], o.end)

\* The instructions with ModRM operands that only work on 64 bits here.
Wide(m, code, d, o) ==
  LET v == ReadRm(m, o, 8)
      n == o.reg % 8
      Ends(s, k) == Go(s, o.end + k)
  IN  CASE d.op % 8 = 3 /\ d.op < 64 ->
             LET res == AluResult(d.op \div 8, m.r[o.reg], v, m.cf)
                 fl == Flags(m, res.v, res.cf, res.of)
             IN  Ends(IF d.op = 59 THEN fl
                      ELSE [fl EXCEPT !.r[o.reg] = res.v], 0)
        [] d.op = 129 -> Ends(Alu(m, n, o, Imm32(code, o.end)), 4)
        [] d.op = 131 -> Ends(Alu(m, n, o, Imm8(code, o.end)), 1)
        [] d.op = 133 -> Ends(Test(m, v, m.r[o.reg]), 0)
        [] d.op = 135 -> Ends([m EXCEPT !.r = [@ EXCEPT ![o.reg] = v,
                                                         ![o.rm] = m.r[o.reg]]], 0)
        [] d.op = 141 -> Ends([m EXCEPT !.r[o.reg] = o.ea], 0)
        [] d.op = 193 -> Ends(Shift(m, n, o, At(code, o.end)), 1)
        [] d.op = 209 -> Ends(Shift(m, n, o, 1), 0)
        [] d.op = 211 -> Ends(Shift(m, n, o, m.r[1][1]), 0)
        [] d.op = 247 /\ n = 0 -> Ends(Test(m, v, Imm32(code, o.end)), 4)
        [] d.op = 247 /\ n > 1 -> Ends(Group3(m, n, o), 0)
        [] OTHER -> Fault(m)

WideOpcodes == {3, 11, 19, 27, 35, 43, 51, 59,
                129, 131, 133, 135, 141, 193, 209, 211, 247}

\* The instructions without ModRM operands.
Short(m, code, d) ==
  LET reg == (d.op % 8) + RexB(d)
      jump8 == d.next + 1 + SmallInt(Imm8(code, d.next))
      jump32 == d.next + 4 + SmallInt(Imm32(code, d.next))
  IN  CASE d.op \in 80 .. 87 -> Go(Push(m, m.r[reg]), d.next)
        [] d.op \in 88 .. 95 -> Go(Pop(m, reg), d.next)
        [] d.op = 144 -> Go(m, d.next)
        [] d.op = 195 ->
             IF ~MappedAt(m.r[4], 8) THEN Fault(m)
             ELSE Go([m EXCEPT !.r[4] = Add(@, W(8))], SmallInt(Load(m.mem, m.r[4], 8)))
        [] d.op \in 184 .. 191 /\ RexW(d) ->
             Go([m EXCEPT !.r[reg] = Imm64(code, d.next)], d.next + 8)
        [] d.op \in 184 .. 191 ->
             Go([m EXCEPT !.r[reg] = ZeroExtend(Imm32(code, d.next), 4)], d.next + 4)
        [] d.op < 64 /\ d.op % 8 = 5 /\ RexW(d) ->
             LET ax == [isReg |-> TRUE, rm |-> 0]
             IN  Go(Alu(m, d.op \div 8, ax, Imm32(code, d.next)), d.next + 4)
        [] d.op = 153 /\ RexW(d) ->
             Go([m EXCEPT !.r[2] = IF Negative(m.r[0]) THEN Not(Zero) ELSE Zero],
                d.next)
        [] d.op = 169 /\ RexW(d) ->
             Go(Test(m, m.r[0], Imm32(code, d.next)), d.next + 4)
        [] d.op \in 112 .. 127 ->
             Go(m, IF Holds(m, d.op - 112) THEN jump8 ELSE d.next + 1)
        [] d.op \in 384 .. 399 ->
             Go(m, IF Holds(m, d.op - 384) THEN jump32 ELSE d.next + 4)
        [] d.op = 235 -> Go(m, jump8)
        [] d.op = 233 -> Go(m, jump32)
        [] OTHER -> Fault(m)

\* One instruction.  A register a jump goes through holds a code address,
\* which is its position.
Perform(m, code, d, o) ==
  LET size == SizeOf(d)
      sse == d.op - 256 \in SseOpcodes
      setcc == d.op \in 400 .. 415
  IN  IF ~(sse \/ setcc \/ Moves(d) \/ d.op \in WideOpcodes \cup {255})
      THEN Short(m, code, d)
      ELSE IF /\ ~o.isReg /\ d.op # 141
              /\ o.relative \/ ~MappedAt(o.ea, 1)
      THEN Fault(m)
      ELSE CASE sse -> Go(Sse(m, code, d, o),
                          o.end + (IF d.op = 454 THEN 1 ELSE 0))
             [] setcc -> Go(WriteRm(m, o, IF Holds(m, d.op - 400) THEN One ELSE Zero, 1),
                            o.end)
             [] Moves(d) -> Move(m, code, d, o, size)
             [] d.op = 255 /\ o.isReg /\ o.reg % 8 = 4 ->
                  Go(m, SmallInt(m.r[o.rm]))
             [] d.op \in WideOpcodes /\ size = 8 -> Wide(m, code, d, o)
             [] OTHER -> Fault(m)

StepDecoded(m, code, d) == Perform(m, code, d, Operands(code, d, m.r))
Step(m, code) == StepDecoded(m, code, Decoded(code, m.ip))
=============================================================================
