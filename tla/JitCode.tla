------------------------------ MODULE JitCode ------------------------------
(***************************************************************************)
(* An operation of MyJIT as its optimizer and its code generator see it    *)
(* (struct jit_op and the macros that make operations, jitlib-core.h), and *)
(* what they ask the register allocator (reg-allocator.h).                 *)
(*                                                                         *)
(* A virtual register stands here for the hardware register it has been    *)
(* assigned to: 0 .. 15 for the general purpose ones, 100 and more for     *)
(* XMM0 and more.  0 is R(0), whose jit_value is 0 as well.                *)
(***************************************************************************)
EXTENDS Integers, Sequences, X86Encode

XMM(n) == 100 + n

R_IMM == R15
FR_IMM == XMM(5)

\* gp_regs: where a register that is not in use is looked for.
gp_regs == <<AX, BX, CX, DX, SI, DI, R8, R9, R10, R11, R12, R14, R15>>
callee_saved == {BX, R12, R14, R15}
NULL == -1

-----------------------------------------------------------------------------
(* Operations:                                                             *)
(*   code, imm, sign   the opcode; its flag IMM; not its flag UNSIGNED     *)
(*   spec, arg   the kinds of the arguments, and the arguments: registers, *)
(*               words, or the name of a label or of a jump                *)
(*   size        arg_size                                                  *)
(*   flt         flt_imm, a double or the word ADDIMM keeps in its place   *)
(*   fp          whether it was made by jit_add_fop                        *)
(*   name        what a PATCH calls the operation, "" if none does         *)
(*   live_in, live_out   what the data-flow analysis has found             *)

Forward == "forward"     \* JIT_FORWARD: a jump that a PATCH will complete

new_op(code, imm, sign, spec, arg, size) ==
  [code |-> code, imm |-> imm, sign |-> sign, spec |-> spec, arg |-> arg,
   size |-> size, flt |-> Zero, fp |-> FALSE, name |-> "",
   live_in |-> {}, live_out |-> {}]

Kind(imm) == IF imm THEN "IMM" ELSE "REG"

\* jit_addr, jit_addi ... : what makes a from b and a register or a word c.
Arith(code, imm, sign, a, b, c) ==
  new_op(code, imm, sign, <<"TREG", "REG", Kind(imm)>>, <<a, b, c>>, 0)
\* jit_movr, jit_movi, jit_negr, jit_notr
Unary(code, imm, a, b) ==
  new_op(code, imm, TRUE, <<"TREG", Kind(imm), "NO">>, <<a, b, Zero>>, 0)
\* jit_bltr ... jit_bosubi
Branch(code, imm, sign, to, b, c) ==
  new_op(code, imm, sign, <<"IMM", "REG", Kind(imm)>>, <<to, b, c>>, 0)
\* jit_ldr, jit_ldi, jit_ldxr, jit_ldxi and the unsigned ones
Ld(imm, sign, a, b, size) ==
  new_op("LD", imm, sign, <<"TREG", Kind(imm), "NO">>, <<a, b, Zero>>, size)
Ldx(imm, sign, a, b, c, size) ==
  new_op("LDX", imm, sign, <<"TREG", "REG", Kind(imm)>>, <<a, b, c>>, size)
St(imm, a, b, size) ==
  new_op("ST", imm, TRUE, <<Kind(imm), "REG", "NO">>, <<a, b, Zero>>, size)
Stx(imm, a, b, c, size) ==
  new_op("STX", imm, TRUE, <<Kind(imm), "REG", "REG">>, <<a, b, c>>, size)
\* jit_jmpi, jit_jmpr, jit_patch, jit_get_label, jit_retr, jit_reti
Jmp(imm, to) == new_op("JMP", imm, TRUE, <<Kind(imm), "NO", "NO">>, <<to, Zero, Zero>>, 0)
Patch(jump) == new_op("PATCH", TRUE, TRUE, <<"IMM", "NO", "NO">>, <<jump, Zero, Zero>>, 0)
Label(l) == new_op("LABEL", FALSE, TRUE, <<"IMM", "NO", "NO">>, <<l, Zero, Zero>>, 0)
Ret(imm, a) == new_op("RET", imm, TRUE, <<Kind(imm), "NO", "NO">>, <<a, Zero, Zero>>, 0)
Alloca(size) == new_op("ALLOCA", TRUE, TRUE, <<"IMM", "NO", "NO">>, <<W(size), Zero, Zero>>, 0)
Prolog == new_op("PROLOG", FALSE, TRUE, <<"IMM", "NO", "NO">>, <<Zero, Zero, Zero>>, 0)
Nop == new_op("NOP", FALSE, TRUE, <<"NO", "NO", "NO">>, <<Zero, Zero, Zero>>, 0)

\* The floating-point ones: an immediate is in flt_imm, its argument is 0.
FMov(imm, a, b) ==
  [new_op("FMOV", imm, TRUE, <<"TREG", Kind(imm), "NO">>,
          <<a, IF imm THEN Zero ELSE b, Zero>>, 0)
   EXCEPT !.fp = TRUE, !.flt = IF imm THEN b ELSE Zero]
FArith(code, imm, a, b, c) ==
  [Arith(code, imm, TRUE, a, b, IF imm THEN Zero ELSE c)
   EXCEPT !.fp = TRUE, !.flt = IF imm THEN c ELSE Zero]
FRet(imm, a, size) ==
  [new_op("FRET", imm, TRUE, <<Kind(imm), "NO", "NO">>,
          <<IF imm THEN Zero ELSE a, Zero, Zero>>, size)
   EXCEPT !.fp = TRUE, !.flt = IF imm THEN a ELSE Zero]
FUnary(code, a, b) == [Unary(code, FALSE, a, b) EXCEPT !.fp = TRUE]
FBranch(code, imm, to, b, c) ==
  [Branch(code, imm, TRUE, to, b, IF imm THEN Zero ELSE c)
   EXCEPT !.fp = TRUE, !.flt = IF imm THEN c ELSE Zero]
FLd(imm, a, b, size) == [Ld(imm, TRUE, a, b, size) EXCEPT !.code = "FLD"]
FLdx(imm, a, b, c, size) == [Ldx(imm, TRUE, a, b, c, size) EXCEPT !.code = "FLDX"]
FSt(imm, a, b, size) == [St(imm, a, b, size) EXCEPT !.code = "FST"]
FStx(imm, a, b, c, size) == [Stx(imm, a, b, c, size) EXCEPT !.code = "FSTX"]

-----------------------------------------------------------------------------
(* Registers                                                               *)

Args(op, kind) == {op.arg[i] : i \in {j \in 1 .. 3 : op.spec[j] = kind}}
Made(op) == Args(op, "TREG")
Read(op) == Args(op, "REG")

\* r_arg: the number of the hardware register, or the argument itself.
r_arg(op, i) ==
  IF op.spec[i] \in {"REG", "TREG"} THEN op.arg[i] % 100 ELSE op.arg[i]

jit_reg_in_use(op, reg) == reg \in op.live_in \cup op.live_out

\* The general purpose register to use for a while, NULL if there is none.
jit_get_unused_reg(op) ==
  LET free == {i \in DOMAIN gp_regs : ~jit_reg_in_use(op, gp_regs[i])}
  IN  IF free = {} THEN NULL
      ELSE gp_regs[CHOOSE i \in free : \A j \in free : i <= j]
=============================================================================
