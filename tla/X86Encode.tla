----------------------------- MODULE X86Encode -----------------------------
(***************************************************************************)
(* The instruction encoders (x86-codegen.h, amd64-codegen.h) the AMD64     *)
(* code generator uses: each macro as the bytes it writes.  Operators have *)
(* the names of the macros, without the leading amd64_; the x86_ macros    *)
(* keep their prefix.  Registers are numbers 0 .. 15, immediates and       *)
(* displacements are words (module Words), sizes are 1, 2, 4 or 8 bytes.   *)
(***************************************************************************)
EXTENDS Integers, Sequences, Words

\* Register numbers, AMD64_Reg_No; the XMM registers are 0 .. 15 as well.
AX == 0
CX == 1
DX == 2
BX == 3
SP == 4
BP == 5
SI == 6
DI == 7
R8 == 8
R9 == 9
R10 == 10
R11 == 11
R12 == 12
R14 == 14
R15 == 15
NoBaseReg == -1

ALU == [ADD |-> 0, OR |-> 1, ADC |-> 2, SBB |-> 3,
        AND |-> 4, SUB |-> 5, XOR |-> 6, CMP |-> 7]
SHIFT == [SHL |-> 4, SHR |-> 5, SAR |-> 7]
SSE == [XOR |-> 87, ADD |-> 88, MUL |-> 89, SUB |-> 92, DIV |-> 94,
        COMI |-> 47, SHUF |-> 198]

\* x86_cc_unsigned_map, x86_cc_signed_map
UnsignedCC == [EQ |-> 116, NE |-> 117, LT |-> 114, LE |-> 118,
               GT |-> 119, GE |-> 115, O |-> 112]
SignedCC == [EQ |-> 116, NE |-> 117, LT |-> 124, LE |-> 126,
             GT |-> 127, GE |-> 125, O |-> 112]
CC(cond, sign) == IF sign THEN SignedCC[cond] ELSE UnsignedCC[cond]

Low3(r) == r % 8
Flag(b, n) == IF b THEN n ELSE 0

-----------------------------------------------------------------------------
(* Building blocks                                                         *)

imm_emit8(imm) == <<imm[1]>>
imm_emit16(imm) == SubSeq(imm, 1, 2)
imm_emit32(imm) == SubSeq(imm, 1, 4)
imm_emit64(imm) == imm

\* The test looks at the lowest 32 bits only.
is_imm8(imm) == \A k \in 2 .. 4 : imm[k] = SignOf(imm[1])

address_byte(mod, reg, rm) == 64 * (mod % 4) + 8 * (reg % 8) + (rm % 8)

x86_reg_emit(r, regno) == <<address_byte(3, r, regno)>>

x86_mem_emit(r, disp) == <<address_byte(0, r, 5)>> \o imm_emit32(disp)

x86_membase_emit(r, basereg, disp) ==
  LET sib == IF basereg = SP THEN <<address_byte(0, SP, SP)>> ELSE <<>>
  IN  IF disp = Zero /\ basereg # BP
      THEN <<address_byte(0, r, basereg)>> \o sib
      ELSE IF is_imm8(disp)
      THEN <<address_byte(1, r, basereg)>> \o sib \o imm_emit8(disp)
      ELSE <<address_byte(2, r, basereg)>> \o sib \o imm_emit32(disp)

\* With a long displacement the base written is 5, not basereg.
x86_memindex_emit(r, basereg, disp, indexreg, shift) ==
  IF basereg = NoBaseReg
  THEN <<address_byte(0, r, 4), address_byte(shift, indexreg, 5)>>
         \o imm_emit32(disp)
  ELSE IF disp = Zero /\ basereg # BP
  THEN <<address_byte(0, r, 4), address_byte(shift, indexreg, basereg)>>
  ELSE IF is_imm8(disp)
  THEN <<address_byte(1, r, 4), address_byte(shift, indexreg, basereg)>>
         \o imm_emit8(disp)
  ELSE <<address_byte(2, r, 4), address_byte(shift, indexreg, 5)>>
         \o imm_emit32(disp)

\* The bits W, R, X and B of the REX prefix.
RexBits(width, reg, index, base) ==
  Flag(width > 4, 8) + Flag(reg > 7, 4) + Flag(index > 7, 2) + Flag(base > 7, 1)

emit_rex(width, reg, index, base) ==
  LET bits == RexBits(width, reg, index, base)
  IN  IF bits # 0 \/ width = 1 THEN <<64 + bits>> ELSE <<>>

\* The prefix of 16-bit operations, where a macro puts it before REX.
Prefix66(size) == IF size = 2 THEN <<102>> ELSE <<>>

\* An absolute address: SIB without base and index.
abs_emit(r, mem) ==
  <<address_byte(0, r, 4), address_byte(0, 4, 5)>> \o imm_emit32(mem)

-----------------------------------------------------------------------------
(* Arithmetic                                                              *)

alu_reg_imm(opc, reg, imm) ==
  IF is_imm8(imm)
  THEN emit_rex(8, 0, 0, reg) \o <<131>> \o x86_reg_emit(opc, reg)
         \o imm_emit8(imm)
  ELSE IF reg = AX
  THEN emit_rex(8, 0, 0, 0) \o <<8 * opc + 5>> \o imm_emit32(imm)
  ELSE emit_rex(8, 0, 0, reg) \o <<129>> \o x86_reg_emit(opc, reg)
         \o imm_emit32(imm)

alu_reg_reg(opc, dreg, reg) ==
  emit_rex(8, dreg, 0, reg) \o <<8 * opc + 3>> \o x86_reg_emit(dreg, reg)

x86_alu_reg_membase(opc, reg, basereg, disp) ==
  <<8 * opc + 3>> \o x86_membase_emit(reg, basereg, disp)
alu_reg_membase(opc, reg, basereg, disp) ==
  emit_rex(8, reg, 0, basereg)
    \o x86_alu_reg_membase(opc, Low3(reg), Low3(basereg), disp)

x86_not_reg(reg) == <<247>> \o x86_reg_emit(2, reg)
not_reg(reg) == emit_rex(8, 0, 0, reg) \o x86_not_reg(Low3(reg))

x86_neg_reg(reg) == <<247>> \o x86_reg_emit(3, reg)
neg_reg(reg) == emit_rex(8, 0, 0, reg) \o x86_neg_reg(Low3(reg))

\* The short form for EAX is taken for R8 too, whose lowest bits are 0.
x86_test_reg_imm(reg, imm) ==
  (IF reg = AX THEN <<169>> ELSE <<247>> \o x86_reg_emit(0, reg))
    \o imm_emit32(imm)
test_reg_imm(reg, imm) ==
  emit_rex(8, 0, 0, reg) \o x86_test_reg_imm(Low3(reg), imm)

x86_test_reg_reg(dreg, reg) == <<133>> \o x86_reg_emit(reg, dreg)
test_reg_reg(dreg, reg) ==
  emit_rex(8, dreg, 0, reg) \o x86_test_reg_reg(Low3(dreg), Low3(reg))

x86_shift_reg_imm(opc, reg, imm) ==
  IF imm = One THEN <<209>> \o x86_reg_emit(opc, reg)
  ELSE <<193>> \o x86_reg_emit(opc, reg) \o imm_emit8(imm)
shift_reg_imm(opc, reg, imm) ==
  emit_rex(8, 0, 0, reg) \o x86_shift_reg_imm(opc, Low3(reg), imm)

x86_shift_reg(opc, reg) == <<211>> \o x86_reg_emit(opc, reg)
shift_reg(opc, reg) == emit_rex(8, 0, 0, reg) \o x86_shift_reg(opc, Low3(reg))

x86_mul_reg(reg, sign) == <<247>> \o x86_reg_emit(4 + Flag(sign, 1), reg)
mul_reg(reg, sign) == emit_rex(8, 0, 0, reg) \o x86_mul_reg(Low3(reg), sign)

x86_div_reg(reg, sign) == <<247>> \o x86_reg_emit(6 + Flag(sign, 1), reg)
div_reg(reg, sign) == emit_rex(8, 0, 0, reg) \o x86_div_reg(Low3(reg), sign)

x86_div_membase(basereg, disp, sign) ==
  <<247>> \o x86_membase_emit(6 + Flag(sign, 1), basereg, disp)
div_membase(basereg, disp, sign) ==
  emit_rex(8, 0, 0, basereg) \o x86_div_membase(Low3(basereg), disp, sign)

x86_cdq == <<153>>
\* A mutant: the upper half of the dividend stays what it was.
NoCdq == <<>>
cdq == emit_rex(8, 0, 0, 0) \o x86_cdq

lea_membase(reg, basereg, disp) ==
  emit_rex(8, reg, 0, basereg) \o <<141>>
    \o x86_membase_emit(Low3(reg), Low3(basereg), disp)

x86_lea_memindex(reg, basereg, disp, indexreg, shift) ==
  <<141>> \o x86_memindex_emit(reg, basereg, disp, indexreg, shift)
\* NoBaseReg masked is 7, so that DI becomes the base.
lea_memindex(reg, basereg, disp, indexreg, shift) ==
  emit_rex(8, reg, indexreg, basereg)
    \o x86_lea_memindex(Low3(reg), Low3(basereg), disp, Low3(indexreg), shift)

x86_set_reg(cond, reg, sign) ==
  <<15, CC(cond, sign) + 32>> \o x86_reg_emit(0, reg)
set_reg(cond, reg, sign) ==
  emit_rex(1, 0, 0, reg) \o x86_set_reg(cond, Low3(reg), sign)

-----------------------------------------------------------------------------
(* Moves of general purpose registers                                      *)

MovOpcode(size, byte, wide) == <<IF size = 1 THEN byte ELSE wide>>

mov_reg_imm_size(reg, imm, size) ==
  emit_rex(size, 0, 0, reg) \o <<184 + Low3(reg)>>
    \o (IF size = 8 THEN imm_emit64(imm) ELSE imm_emit32(imm))

\* 32 bits are enough, and written without W, when the sign says the rest.
mov_reg_imm(reg, imm) ==
  mov_reg_imm_size(reg, imm, IF imm = SignExtend(imm, 4) THEN 4 ELSE 8)

mov_reg_reg(dreg, reg, size) ==
  Prefix66(size) \o emit_rex(size, dreg, 0, reg)
    \o MovOpcode(size, 138, 139) \o x86_reg_emit(dreg, reg)

mov_mem_reg(mem, reg, size) ==
  Prefix66(size) \o emit_rex(size, reg, 0, 0)
    \o MovOpcode(size, 136, 137) \o abs_emit(reg, mem)

mov_reg_mem(reg, mem, size) ==
  Prefix66(size) \o emit_rex(size, reg, 0, 0)
    \o MovOpcode(size, 138, 139) \o abs_emit(reg, mem)

mov_membase_reg(basereg, disp, reg, size) ==
  Prefix66(size) \o emit_rex(size, reg, 0, basereg)
    \o MovOpcode(size, 136, 137)
    \o x86_membase_emit(Low3(reg), Low3(basereg), disp)

mov_reg_membase(reg, basereg, disp, size) ==
  Prefix66(size) \o emit_rex(size, reg, 0, basereg)
    \o MovOpcode(size, 138, 139)
    \o x86_membase_emit(Low3(reg), Low3(basereg), disp)

\* The x86 macro writes the 16-bit prefix, after REX: the processor then
\* ignores REX.
x86_mov_memindex_reg(basereg, disp, indexreg, shift, reg, size) ==
  Prefix66(size) \o MovOpcode(size, 136, 137)
    \o x86_memindex_emit(reg, basereg, disp, indexreg, shift)
mov_memindex_reg(basereg, disp, indexreg, shift, reg, size) ==
  emit_rex(size, reg, indexreg, basereg)
    \o x86_mov_memindex_reg(Low3(basereg), disp, Low3(indexreg), shift,
                            Low3(reg), size)

x86_mov_reg_memindex(reg, basereg, disp, indexreg, shift, size) ==
  Prefix66(size) \o MovOpcode(size, 138, 139)
    \o x86_memindex_emit(reg, basereg, disp, indexreg, shift)
mov_reg_memindex(reg, basereg, disp, indexreg, shift, size) ==
  emit_rex(size, reg, indexreg, basereg)
    \o x86_mov_reg_memindex(Low3(reg), Low3(basereg), disp, Low3(indexreg),
                            shift, size)

imm_of_size(imm, size) == CASE size = 1 -> imm_emit8(imm)
                            [] size = 2 -> imm_emit16(imm)
                            [] OTHER -> imm_emit32(imm)

mov_membase_imm(basereg, disp, imm, size) ==
  Prefix66(size) \o emit_rex(IF size = 1 THEN 0 ELSE size, 0, 0, basereg)
    \o MovOpcode(size, 198, 199)
    \o x86_membase_emit(0, Low3(basereg), disp) \o imm_of_size(imm, size)

\* mod 0 with rm 5 is an address relative to the next instruction.
x86_mov_mem_imm(mem, imm, size) ==
  Prefix66(size) \o MovOpcode(size, 198, 199) \o x86_mem_emit(0, mem)
    \o imm_of_size(imm, size)
mov_mem_imm(mem, imm, size) ==
  emit_rex(size, 0, 0, 0) \o x86_mov_mem_imm(mem, imm, size)

x86_mov_memindex_imm(basereg, disp, indexreg, shift, imm, size) ==
  Prefix66(size) \o MovOpcode(size, 198, 199)
    \o x86_memindex_emit(0, basereg, disp, indexreg, shift)
    \o imm_of_size(imm, size)
mov_memindex_imm(basereg, disp, indexreg, shift, imm, size) ==
  emit_rex(size, 0, indexreg, basereg)
    \o x86_mov_memindex_imm(Low3(basereg), disp, Low3(indexreg), shift,
                            imm, size)

movzx_reg_reg(dreg, reg, size) ==
  IF size = 4 THEN mov_reg_reg(dreg, reg, 4)
  ELSE Prefix66(size) \o emit_rex(8, dreg, 0, reg)
         \o <<15>> \o MovOpcode(size, 182, 183) \o x86_reg_emit(dreg, reg)

movzx_reg_mem(reg, mem, size) ==
  IF size = 4 THEN mov_reg_mem(reg, mem, size)
  ELSE emit_rex(8, reg, 0, 0)
         \o <<15>> \o MovOpcode(size, 182, 183) \o abs_emit(reg, mem)

movzx_reg_memindex(reg, basereg, disp, indexreg, shift, size) ==
  IF size = 4 THEN mov_reg_memindex(reg, basereg, disp, indexreg, shift, size)
  ELSE emit_rex(8, reg, indexreg, basereg)
         \o <<15>> \o MovOpcode(size, 182, 183)
         \o x86_memindex_emit(Low3(reg), Low3(basereg), disp,
                              Low3(indexreg), shift)

\* basereg is not masked: R12 does not get the SIB byte it needs.
movzx_reg_membase(reg, basereg, disp, size) ==
  IF size = 4 THEN mov_reg_membase(reg, basereg, disp, size)
  ELSE emit_rex(8, reg, 0, basereg)
         \o <<15>> \o MovOpcode(size, 182, 183)
         \o x86_membase_emit(reg, basereg, disp)

movsxd_reg_reg(dreg, reg) ==
  emit_rex(8, dreg, 0, reg) \o <<99>> \o x86_reg_emit(dreg, reg)
movsxd_reg_mem(reg, mem) == emit_rex(8, reg, 0, 0) \o <<99>> \o abs_emit(reg, mem)
movsxd_reg_membase(reg, basereg, disp) ==
  emit_rex(8, reg, 0, basereg) \o <<99>>
    \o x86_membase_emit(Low3(reg), Low3(basereg), disp)
movsxd_reg_memindex(reg, basereg, disp, indexreg, shift) ==
  emit_rex(8, reg, indexreg, basereg) \o <<99>>
    \o x86_memindex_emit(reg, basereg, disp, indexreg, shift)

movsx_reg_reg(dreg, reg, size) ==
  IF size = 4 THEN movsxd_reg_reg(dreg, reg)
  ELSE Prefix66(size) \o emit_rex(8, dreg, 0, reg)
         \o <<15>> \o MovOpcode(size, 190, 191) \o x86_reg_emit(dreg, reg)

movsx_reg_mem(reg, mem, size) ==
  IF size = 4 THEN movsxd_reg_mem(reg, mem)
  ELSE emit_rex(8, reg, 0, 0)
         \o <<15>> \o MovOpcode(size, 190, 191) \o abs_emit(reg, mem)

movsx_reg_memindex(reg, basereg, disp, indexreg, shift, size) ==
  IF size = 4 THEN movsxd_reg_memindex(reg, basereg, disp, indexreg, shift)
  ELSE emit_rex(8, reg, indexreg, basereg)
         \o <<15>> \o MovOpcode(size, 190, 191)
         \o x86_memindex_emit(Low3(reg), Low3(basereg), disp,
                              Low3(indexreg), shift)

movsx_reg_membase(reg, basereg, disp, size) ==
  IF size = 4 THEN movsxd_reg_membase(reg, basereg, disp)
  ELSE emit_rex(8, reg, 0, basereg)
         \o <<15>> \o MovOpcode(size, 190, 191)
         \o x86_membase_emit(reg, basereg, disp)

x86_xchg_reg_reg(dreg, reg) == <<135>> \o x86_reg_emit(reg, dreg)
xchg_reg_reg(dreg, reg) ==
  emit_rex(8, dreg, 0, reg) \o x86_xchg_reg_reg(Low3(dreg), Low3(reg))

nop == <<144>>
ret == <<195>>

push_reg(reg) == emit_rex(0, 0, 0, reg) \o <<80 + Low3(reg)>>
pop_reg(reg) == emit_rex(0, 0, 0, reg) \o <<88 + Low3(reg)>>

-----------------------------------------------------------------------------
(* Jumps                                                                   *)

x86_jump_reg(reg) == <<255>> \o x86_reg_emit(4, reg)
jump_reg(reg) == emit_rex(0, 0, 0, reg) \o x86_jump_reg(Low3(reg))

x86_jump8(imm) == <<235>> \o imm_emit8(imm)
x86_jump32(imm) == <<233>> \o imm_emit32(imm)

\* disp counts from the first byte of the jump.
jump_disp(disp) ==
  LET t == disp - 2
  IN  IF is_imm8(W(t)) THEN x86_jump8(W(t)) ELSE x86_jump32(W(t - 3))
jump_disp32(disp) == x86_jump32(W(disp - 5))

x86_branch8(cond, imm, sign) == <<CC(cond, sign)>> \o imm_emit8(imm)
x86_branch32(cond, imm, sign) == <<15, CC(cond, sign) + 16>> \o imm_emit32(imm)

x86_branch_disp(cond, disp, sign) ==
  LET t == disp - 2
  IN  IF is_imm8(W(t)) THEN x86_branch8(cond, W(t), sign)
      ELSE x86_branch32(cond, W(t - 4), sign)
x86_branch_disp32(cond, disp, sign) == x86_branch32(cond, W(disp - 6), sign)

\* REX.W comes first; disp counts from the byte after it.
branch_disp(cond, disp, sign) ==
  emit_rex(8, 0, 0, 0) \o x86_branch_disp(cond, disp, sign)
branch_disp32(cond, disp, sign) ==
  emit_rex(8, 0, 0, 0) \o x86_branch_disp32(cond, disp, sign)

\* amd64_patch: the jump that starts at byte ins of code leads to byte target.
Replace(code, at, bytes) ==
  SubSeq(code, 1, at - 1) \o bytes \o SubSeq(code, at + Len(bytes), Len(code))

patch(code, ins, target) ==
  LET rex == IF code[ins] \div 16 = 4 THEN 1 ELSE 0
      opc == code[ins + rex]
      pos == ins + rex + (IF opc = 15 THEN 2 ELSE 1)
      disp == target - pos
  IN  IF opc \in {15, 232, 233} THEN Replace(code, pos, imm_emit32(W(disp - 4)))
      ELSE Replace(code, pos, imm_emit8(W(disp - 1)))

-----------------------------------------------------------------------------
(* SSE                                                                     *)

emit_sse_reg_reg_size(dreg, reg, op1, op3, size) ==
  <<op1>> \o emit_rex(size, dreg, 0, reg) \o <<15, op3>> \o x86_reg_emit(dreg, reg)
emit_sse_reg_reg(dreg, reg, op1, op3) ==
  emit_sse_reg_reg_size(dreg, reg, op1, op3, 0)
emit_sse_membase_reg(basereg, disp, reg, op1, op3) ==
  <<op1>> \o emit_rex(0, reg, 0, basereg) \o <<15, op3>>
    \o x86_membase_emit(Low3(reg), Low3(basereg), disp)
emit_sse_reg_membase(dreg, basereg, disp, op1, op3) ==
  emit_sse_membase_reg(basereg, disp, dreg, op1, op3)

sse_alu_sd_reg_reg(opc, dreg, reg) == emit_sse_reg_reg(dreg, reg, 242, opc)
sse_alu_pd_reg_reg(opc, dreg, reg) == emit_sse_reg_reg(dreg, reg, 102, opc)
emit_sse_reg_reg_imm(dreg, reg, op1, op3, imm) ==
  emit_sse_reg_reg(dreg, reg, op1, op3) \o <<imm>>
sse_alu_pd_reg_reg_imm(opc, dreg, reg, imm) ==
  emit_sse_reg_reg_imm(dreg, reg, 102, opc, imm)
sse_alu_sd_reg_membase(opc, dreg, basereg, disp) ==
  emit_sse_reg_membase(dreg, basereg, disp, 242, opc)
sse_alu_pd_reg_membase(opc, dreg, basereg, disp) ==
  emit_sse_reg_membase(dreg, basereg, disp, 102, opc)
sse_alu_sd_reg_mem(opc, reg, mem) ==
  <<242>> \o emit_rex(8, reg, 0, 0) \o <<15, opc>> \o abs_emit(reg, mem)
sse_alu_pd_reg_mem(opc, reg, mem) ==
  <<102>> \o emit_rex(8, reg, 0, 0) \o <<15, opc>> \o abs_emit(reg, mem)

\* The x86 macros write no REX: the registers are taken modulo 8.
x86_sse_alu_pd_reg_reg(opc, dreg, reg) == <<102, 15, opc>> \o x86_reg_emit(dreg, reg)
x86_sse_alu_pd_reg_reg_imm(opc, dreg, reg, imm) ==
  x86_sse_alu_pd_reg_reg(opc, dreg, reg) \o <<imm>>
x86_movss_memindex_xreg(sreg, basereg, disp, indexreg, shift) ==
  <<243, 15, 17>> \o x86_memindex_emit(sreg, basereg, disp, indexreg, shift)

\* Moves with an absolute address, between an XMM register and memory.
sse_mem(op1, opc, reg, mem) ==
  <<op1>> \o emit_rex(0, reg, 0, 0) \o <<15, opc>> \o abs_emit(reg, mem)
movsd_reg_mem(reg, mem) == sse_mem(242, 16, reg, mem)
movss_mem_reg(mem, reg) == sse_mem(243, 17, reg, mem)
movlpd_mem_reg(mem, reg) == sse_mem(102, 19, reg, mem)
sse_cvtss2sd_reg_mem(reg, mem) == sse_mem(243, 90, reg, mem)

sse_movsd_reg_reg(dreg, reg) == emit_sse_reg_reg(dreg, reg, 242, 16)
movsd_reg_membase(reg, basereg, disp) ==
  <<242>> \o emit_rex(0, reg, 0, basereg) \o <<15, 16>>
    \o x86_membase_emit(Low3(reg), Low3(basereg), disp)
sse_movlpd_membase_xreg(dreg, basereg, disp) ==
  emit_sse_reg_membase(dreg, basereg, disp, 102, 19)
sse_movlpd_xreg_membase(dreg, basereg, disp) ==
  emit_sse_membase_reg(basereg, disp, dreg, 102, 18)
sse_movss_membase_reg(basereg, disp, reg) ==
  emit_sse_membase_reg(basereg, disp, reg, 243, 17)
sse_cvtss2sd_reg_membase(dreg, basereg, disp) ==
  emit_sse_reg_membase(dreg, basereg, disp, 243, 90)

\* An indexed address, with REX.W.
sse_memindex(op1, opc, reg, basereg, disp, indexreg, shift) ==
  <<op1>> \o emit_rex(8, reg, indexreg, basereg) \o <<15, opc>>
    \o x86_memindex_emit(reg, basereg, disp, indexreg, shift)
sse_cvtss2sd_reg_memindex(reg, basereg, disp, indexreg, shift) ==
  sse_memindex(243, 90, reg, basereg, disp, indexreg, shift)
sse_movlpd_xreg_memindex(reg, basereg, disp, indexreg, shift) ==
  sse_memindex(102, 18, reg, basereg, disp, indexreg, shift)
sse_movlpd_memindex_xreg(basereg, disp, indexreg, shift, reg) ==
  sse_memindex(102, 19, reg, basereg, disp, indexreg, shift)

sse_comisd_reg_reg(dreg, reg) == emit_sse_reg_reg(dreg, reg, 102, 47)
sse_cvttsd2si_reg_reg(dreg, reg) == emit_sse_reg_reg_size(dreg, reg, 242, 44, 8)
sse_cvtsi2sd_reg_reg(dreg, reg) == emit_sse_reg_reg_size(dreg, reg, 242, 42, 8)
sse_cvtsd2ss_reg_reg(dreg, reg) == emit_sse_reg_reg(dreg, reg, 242, 90)
=============================================================================
