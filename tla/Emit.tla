-------------------------------- MODULE Emit --------------------------------
(***************************************************************************)
(* The machine code of one operation on general purpose registers          *)
(* (common86-specific.h): every operator is the function of that name, as  *)
(* the bytes it emits.  What jumps comes in two parts, as the address of   *)
(* the jump is kept for PATCH: the code before the jump, and the jump.     *)
(***************************************************************************)
EXTENDS JitCode

WordSize == 8     \* REG_SIZE

\* A move that is left out when it changes nothing.
Copy(dreg, reg) == IF dreg = reg THEN <<>> ELSE mov_reg_reg(dreg, reg, WordSize)
If(cond, code) == IF cond THEN code ELSE <<>>

DropTop == alu_reg_imm(ALU.ADD, SP, W(WordSize))

emit_alu_op(op, x86_op) ==
  LET a1 == r_arg(op, 1) a2 == r_arg(op, 2) a3 == r_arg(op, 3)
  IN  IF op.imm THEN Copy(a1, a2) \o alu_reg_imm(x86_op, a1, a3)
      ELSE IF a1 # a2 /\ a1 = a3 THEN alu_reg_reg(x86_op, a1, a2)
      ELSE Copy(a1, a2) \o alu_reg_reg(x86_op, a1, a3)

emit_add_op(op) ==
  LET a1 == r_arg(op, 1) a2 == r_arg(op, 2) a3 == r_arg(op, 3)
  IN  IF op.imm /\ a1 # a2 THEN lea_membase(a1, a2, a3)
      ELSE IF ~op.imm /\ a1 \notin {a2, a3} THEN lea_memindex(a1, a2, Zero, a3, 0)
      ELSE emit_alu_op(op, ALU.ADD)

emit_sub_op(op) ==
  LET a1 == r_arg(op, 1) a2 == r_arg(op, 2) a3 == r_arg(op, 3)
  IN  IF op.imm
      THEN IF a1 # a2 THEN lea_membase(a1, a2, Neg(a3))
           ELSE alu_reg_imm(ALU.SUB, a1, a3)
      ELSE IF a1 # a2 /\ a1 = a3 THEN alu_reg_reg(ALU.SUB, a1, a2) \o neg_reg(a1)
      ELSE Copy(a1, a2) \o alu_reg_reg(ALU.SUB, a1, a3)

\* SUBC and SUBX.
emit_subx_op(op, x86_op) ==
  LET a1 == r_arg(op, 1) a2 == r_arg(op, 2) a3 == r_arg(op, 3)
  IN  IF op.imm THEN Copy(a1, a2) \o alu_reg_imm(x86_op, a1, a3)
      ELSE IF a1 # a2 /\ a1 = a3
      THEN push_reg(a3) \o Copy(a1, a2)
             \o alu_reg_membase(x86_op, a1, SP, Zero) \o DropTop
      ELSE Copy(a1, a2) \o alu_reg_reg(x86_op, a1, a3)

emit_rsb_op(op) ==
  LET a1 == r_arg(op, 1) a2 == r_arg(op, 2) a3 == r_arg(op, 3)
  IN  IF op.imm
      THEN (IF a1 = a2 THEN alu_reg_imm(ALU.ADD, a1, Neg(a3))
            ELSE lea_membase(a1, a2, Neg(a3))) \o neg_reg(a1)
      ELSE IF a1 = a2 THEN alu_reg_reg(ALU.SUB, a1, a3) \o neg_reg(a1)
      ELSE Copy(a1, a3) \o alu_reg_reg(ALU.SUB, a1, a2)

-----------------------------------------------------------------------------
(* Multiplication and division: through AX and DX, which are kept on the   *)
(* stack when somebody else uses them.                                     *)

Saves(op, dest, reg) == dest # reg /\ jit_reg_in_use(op, reg)

PushAXDX(op, dest) ==
  If(Saves(op, dest, AX), push_reg(AX)) \o If(Saves(op, dest, DX), push_reg(DX))
\* Mutant: the registers come back in the order they were saved.
PopAXDX(op, dest) ==
  If(Saves(op, dest, AX), pop_reg(AX)) \o If(Saves(op, dest, DX), pop_reg(DX))
PopDXAX(op, dest) ==
  If(Saves(op, dest, DX), pop_reg(DX)) \o If(Saves(op, dest, AX), pop_reg(AX))

emit_mul_op(op, high) ==
  LET dest == r_arg(op, 1) f1 == r_arg(op, 2) f2 == r_arg(op, 3)
      times(n) == op.imm /\ ~high /\ f2 = W(n)
      lea(shift) == lea_memindex(dest, f1, Zero, f1, shift)
      product ==
        IF op.imm
        THEN Copy(AX, f1) \o mov_reg_imm_size(DX, f2, 8) \o mul_reg(DX, op.sign)
        ELSE IF f1 # AX /\ f2 = AX THEN mul_reg(f1, op.sign)
        ELSE Copy(AX, f1) \o mul_reg(f2, op.sign)
  IN  IF times(2) THEN IF f1 = dest THEN shift_reg_imm(SHIFT.SHL, dest, One)
                       ELSE lea(0)
      ELSE IF times(3) THEN lea(1)
      ELSE IF times(5) THEN lea(2)
      ELSE IF times(9) THEN lea(3)
      ELSE IF times(4) THEN Copy(dest, f1) \o shift_reg_imm(SHIFT.SHL, dest, W(2))
      ELSE IF times(8) THEN Copy(dest, f1) \o shift_reg_imm(SHIFT.SHL, dest, W(3))
      ELSE PushAXDX(op, dest) \o product
             \o Copy(dest, IF high THEN DX ELSE AX) \o PopDXAX(op, dest)

emit_div_op(op, modulo) ==
  LET dest == r_arg(op, 1) dividend == r_arg(op, 2) divisor == r_arg(op, 3)
      by(n) == op.imm /\ divisor = W(n)
      Short(count) ==
        Copy(dest, dividend) \o
        IF modulo THEN alu_reg_imm(ALU.AND, dest, W((2 ^ count) - 1))
        ELSE shift_reg_imm(IF op.sign THEN SHIFT.SAR ELSE SHIFT.SHR, dest, W(count))
      onStack == divisor \in {AX, DX}
      quotient ==
        IF op.imm
        THEN Copy(AX, dividend) \o cdq
               \o If(dest # BX, push_reg(BX))
               \o mov_reg_imm_size(BX, divisor, WordSize) \o div_reg(BX, op.sign)
               \o If(dest # BX, pop_reg(BX))
        ELSE If(onStack, push_reg(divisor)) \o Copy(AX, dividend) \o cdq
               \o (IF onStack THEN div_membase(SP, Zero, op.sign) \o DropTop
                   ELSE div_reg(divisor, op.sign))
  IN  IF by(2) THEN Short(1) ELSE IF by(4) THEN Short(2) ELSE IF by(8) THEN Short(3)
      ELSE PushAXDX(op, dest) \o quotient
             \o Copy(dest, IF modulo THEN DX ELSE AX) \o PopDXAX(op, dest)

-----------------------------------------------------------------------------
(* Shifts: the count is in CX.  When CX holds the value, the value is      *)
(* taken from the stack; when it is the destination, another register is   *)
(* shifted.                                                                *)

emit_shift_op(op, shift_op) ==
  LET dest == r_arg(op, 1) val == r_arg(op, 2) shift == r_arg(op, 3)
      save == jit_reg_in_use(op, CX) /\ shift # CX
      tmp == IF jit_get_unused_reg(op) = NULL THEN AX ELSE jit_get_unused_reg(op)
      saveTmp == jit_reg_in_use(op, tmp)
  IN  IF op.imm THEN Copy(dest, val) \o shift_reg_imm(shift_op, dest, shift)
      ELSE IF dest # CX
      THEN If(save, push_reg(CX)) \o Copy(CX, shift)
             \o If(dest # val, IF val # CX THEN Copy(dest, val)
                               ELSE mov_reg_membase(dest, SP, Zero, WordSize))
             \o shift_reg(shift_op, dest) \o If(save, pop_reg(CX))
      ELSE If(saveTmp, push_reg(tmp)) \o Copy(tmp, val) \o Copy(CX, shift)
             \o shift_reg(shift_op, tmp) \o mov_reg_reg(dest, tmp, WordSize)
             \o If(saveTmp, pop_reg(tmp))

-----------------------------------------------------------------------------
(* Comparisons and branches                                                *)

\* The second and the third argument, with an instruction that sets flags.
Compare(op, x86_op) ==
  IF op.imm THEN alu_reg_imm(x86_op, r_arg(op, 2), r_arg(op, 3))
  ELSE alu_reg_reg(x86_op, r_arg(op, 2), r_arg(op, 3))
TestBits(op) ==
  IF op.imm THEN test_reg_imm(r_arg(op, 2), r_arg(op, 3))
  ELSE test_reg_reg(r_arg(op, 2), r_arg(op, 3))

\* SETcc has no form for the lowest byte of SI or DI: AX takes their place.
emit_cond_op(op, cond) ==
  LET dest == r_arg(op, 1)
      Set(reg) == mov_reg_imm_size(reg, Zero, WordSize) \o set_reg(cond, reg, op.sign)
  IN  Compare(op, ALU.CMP) \o
      IF dest \notin {SI, DI} THEN Set(dest)
      ELSE xchg_reg_reg(AX, dest) \o Set(AX) \o xchg_reg_reg(AX, dest)

CondOps == [LT |-> "LT", LE |-> "LE", GT |-> "GT", GE |-> "GE",
            EQ |-> "EQ", NE |-> "NE"]
BranchOps == [BLT |-> "LT", BLE |-> "LE", BGT |-> "GT", BGE |-> "GE",
              BEQ |-> "EQ", BNE |-> "NE",
              BMS |-> "NE", BMC |-> "EQ", BOADD |-> "O", BOSUB |-> "O"]

BeforeBranch(op) ==
  CASE op.code \in {"BMS", "BMC"} -> TestBits(op)
    [] op.code = "BOADD" -> Compare(op, ALU.ADD)
    [] op.code = "BOSUB" -> Compare(op, ALU.SUB)
    [] OTHER -> Compare(op, ALU.CMP)

\* disp, __JIT_GET_ADDR, counts from where its expression is evaluated.
emit_branch(op, disp) ==
  branch_disp32(BranchOps[op.code], disp,
                op.sign /\ op.code \notin {"BMS", "BMC", "BOADD", "BOSUB"})

-----------------------------------------------------------------------------
(* Memory                                                                  *)

emit_ld_op(op) ==
  LET a1 == r_arg(op, 1) a2 == r_arg(op, 2) size == op.size
  IN  CASE size = WordSize /\ op.imm -> mov_reg_mem(a1, a2, size)
        [] size = WordSize /\ ~op.imm -> mov_reg_membase(a1, a2, Zero, size)
        [] size # WordSize /\ op.imm /\ op.sign -> movsx_reg_mem(a1, a2, size)
        [] size # WordSize /\ op.imm /\ ~op.sign -> movzx_reg_mem(a1, a2, size)
        [] size # WordSize /\ ~op.imm /\ op.sign -> movsx_reg_membase(a1, a2, Zero, size)
        [] OTHER -> movzx_reg_membase(a1, a2, Zero, size)

emit_ldx_op(op) ==
  LET a1 == r_arg(op, 1) a2 == r_arg(op, 2) a3 == r_arg(op, 3) size == op.size
  IN  CASE size = WordSize /\ op.imm -> mov_reg_membase(a1, a2, a3, size)
        [] size = WordSize /\ ~op.imm -> mov_reg_memindex(a1, a2, Zero, a3, 0, size)
        [] size # WordSize /\ op.imm /\ op.sign -> movsx_reg_membase(a1, a2, a3, size)
        [] size # WordSize /\ op.imm /\ ~op.sign -> movzx_reg_membase(a1, a2, a3, size)
        [] size # WordSize /\ ~op.imm /\ op.sign ->
             movsx_reg_memindex(a1, a2, Zero, a3, 0, size)
        [] OTHER -> movzx_reg_memindex(a1, a2, Zero, a3, 0, size)

emit_st_op(op) ==
  IF op.imm THEN mov_mem_reg(r_arg(op, 1), r_arg(op, 2), op.size)
  ELSE mov_membase_reg(r_arg(op, 1), Zero, r_arg(op, 2), op.size)
emit_stx_op(op) ==
  IF op.imm THEN mov_membase_reg(r_arg(op, 2), r_arg(op, 1), r_arg(op, 3), op.size)
  ELSE mov_memindex_reg(r_arg(op, 1), Zero, r_arg(op, 2), 0, r_arg(op, 3), op.size)

-----------------------------------------------------------------------------
(* The operations the optimizer makes                                      *)

emit_sti_op(op) ==
  IF op.imm THEN mov_mem_imm(r_arg(op, 1), r_arg(op, 2), op.size)
  ELSE mov_membase_imm(r_arg(op, 1), Zero, r_arg(op, 2), op.size)
emit_stxi_op(op) ==
  IF op.imm THEN mov_membase_imm(r_arg(op, 2), r_arg(op, 1), r_arg(op, 3), op.size)
  ELSE mov_memindex_imm(r_arg(op, 1), Zero, r_arg(op, 2), 0, r_arg(op, 3), op.size)
emit_addmul_op(op) ==
  IF op.imm THEN lea_memindex(r_arg(op, 1), NoBaseReg, r_arg(op, 3), r_arg(op, 2), op.size)
  ELSE lea_memindex(r_arg(op, 1), r_arg(op, 2), Zero, r_arg(op, 3), op.size)
emit_addimm_op(op) ==
  lea_memindex(r_arg(op, 1), r_arg(op, 2), op.flt, r_arg(op, 3), 0)

emit_mov_op(op) ==
  LET a1 == r_arg(op, 1) a2 == r_arg(op, 2)
  IN  IF ~op.imm THEN Copy(a1, a2)
      ELSE IF a2 = Zero THEN alu_reg_reg(ALU.XOR, a1, a1)
      ELSE mov_reg_imm_size(a1, a2, 8)

\* NEG and NOT.
emit_unary(op) ==
  Copy(r_arg(op, 1), r_arg(op, 2)) \o
  IF op.code = "NEG" THEN neg_reg(r_arg(op, 1)) ELSE not_reg(r_arg(op, 1))
=============================================================================
