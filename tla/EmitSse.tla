------------------------------ MODULE EmitSse ------------------------------
(***************************************************************************)
(* The machine code of one floating-point operation (sse2-specific.h),     *)
(* every operator the function of that name as the bytes it emits.  The    *)
(* constants it reads lie in memory: constant is an address, the jit_op's  *)
(* flt_imm or one of the static ones of this file.                         *)
(***************************************************************************)
EXTENDS Emit

\* Addresses that do not fit in 32 bits are taken from a register: a free
\* one, or AX, kept on the stack.
WithAddress(op, constant, Use(_)) ==
  LET reg == jit_get_unused_reg(op)
  IN  IF reg # NULL THEN mov_reg_imm(reg, constant) \o Use(reg)
      ELSE push_reg(AX) \o mov_reg_imm(AX, constant) \o Use(AX) \o pop_reg(AX)
Far(constant) == constant # ZeroExtend(constant, 4)

sse_mov_reg_safeimm(op, reg, constant) ==
  LET Use(base) == movsd_reg_membase(reg, base, Zero)
  IN  IF Far(constant) THEN WithAddress(op, constant, Use)
      ELSE movsd_reg_mem(reg, constant)

sse_alu_pd_reg_safeimm(op, op_id, reg, constant) ==
  LET Use(base) == sse_alu_pd_reg_membase(op_id, reg, base, Zero)
  IN  IF Far(constant) THEN WithAddress(op, constant, Use)
      ELSE sse_alu_pd_reg_mem(op_id, reg, constant)

sse_alu_sd_reg_safeimm(op, op_id, reg, constant) ==
  LET Use(base) == sse_alu_sd_reg_membase(op_id, reg, base, Zero)
  IN  IF Far(constant) THEN WithAddress(op, constant, Use)
      ELSE sse_alu_sd_reg_mem(op_id, reg, constant)

CopyX(dreg, reg) == IF dreg = reg THEN <<>> ELSE sse_movsd_reg_reg(dreg, reg)

sse_alu_op(op, sse_op) ==
  LET a1 == r_arg(op, 1) a2 == r_arg(op, 2) a3 == r_arg(op, 3)
  IN  IF a1 # a2 /\ a1 = a3 THEN sse_alu_sd_reg_reg(sse_op, a1, a2)
      ELSE CopyX(a1, a2) \o sse_alu_sd_reg_reg(sse_op, a1, a3)

sse_change_sign(op, reg, signMask) ==
  sse_alu_pd_reg_safeimm(op, SSE.XOR, reg, signMask)

\* a1 := a2 - a3
sse_sub_op(op, a1, a2, a3, signMask) ==
  IF a1 # a2 /\ a1 = a3
  THEN sse_alu_sd_reg_reg(SSE.SUB, a1, a2) \o sse_change_sign(op, a1, signMask)
  ELSE CopyX(a1, a2) \o sse_alu_sd_reg_reg(SSE.SUB, a1, a3)

\* The upper half of a register keeps its lower half for a while.
KeepX(reg) == sse_alu_pd_reg_reg_imm(SSE.SHUF, reg, reg, 0)
BackX(reg) == sse_alu_pd_reg_reg_imm(SSE.SHUF, reg, reg, 1)

\* Here the x86 macros keep a2, without REX.
sse_div_op(a1, a2, a3) ==
  IF a1 # a2 /\ a1 = a3
  THEN x86_sse_alu_pd_reg_reg_imm(SSE.SHUF, a2, a2, 0)
         \o sse_alu_sd_reg_reg(SSE.DIV, a2, a3) \o CopyX(a1, a2)
         \o x86_sse_alu_pd_reg_reg_imm(SSE.SHUF, a2, a2, 1)
  ELSE CopyX(a1, a2) \o sse_alu_sd_reg_reg(SSE.DIV, a1, a3)

sse_neg_op(op, a1, a2, signMask) == CopyX(a1, a2) \o sse_change_sign(op, a1, signMask)

\* The operands of COMISD in the order jit_gen_op passes them, the condition.
FBranchOps == [FBLT |-> <<2, 3, "LT">>, FBGT |-> <<2, 3, "GT">>,
               FBGE |-> <<2, 3, "GE">>, FBLE |-> <<3, 2, "GE">>,
               FBEQ |-> <<3, 2, "EQ">>, FBNE |-> <<3, 2, "NE">>]
BeforeFBranch(op) ==
  LET b == FBranchOps[op.code]
  IN  sse_alu_pd_reg_reg(SSE.COMI, r_arg(op, b[1]), r_arg(op, b[2]))
sse_branch(op, disp) == x86_branch_disp32(FBranchOps[op.code][3], disp, FALSE)

\* x0 and x05 are the addresses of 0.0 and of 0.5.
sse_round(op, x0, x05) ==
  LET a1 == r_arg(op, 1) a2 == r_arg(op, 2)
      before == KeepX(a2) \o sse_alu_pd_reg_safeimm(op, SSE.COMI, a2, x0)
      branch1 == Len(before) + 1
      withBranch == before \o branch_disp("LT", 0, FALSE)
                      \o sse_alu_sd_reg_safeimm(op, SSE.ADD, a2, x05)
      branch2 == Len(withBranch) + 1
      withJump == withBranch \o jump_disp(0)
      patched == patch(withJump, branch1, Len(withJump) + 1)
                   \o sse_alu_sd_reg_safeimm(op, SSE.SUB, a2, x05)
  IN  patch(patched, branch2, Len(patched) + 1)
        \o sse_cvttsd2si_reg_reg(a1, a2) \o BackX(a2)

sse_floor(op, floor) ==
  LET a1 == r_arg(op, 1) a2 == r_arg(op, 2)
      tmp == IF a2 = 7 THEN 0 ELSE 7
  IN  KeepX(a2) \o KeepX(tmp)
        \o sse_cvttsd2si_reg_reg(a1, a2) \o sse_cvtsi2sd_reg_reg(tmp, a1)
        \o (IF floor THEN sse_comisd_reg_reg(a2, tmp) \o alu_reg_imm(ALU.SBB, a1, Zero)
            ELSE sse_comisd_reg_reg(tmp, a2) \o alu_reg_imm(ALU.ADC, a1, Zero))
        \o BackX(a2) \o BackX(tmp)

-----------------------------------------------------------------------------
(* Memory.  A float is converted in its own register, which is kept when   *)
(* its value is read later.                                                *)

AsFloat(op, arg, Store(_)) ==
  LET reg == r_arg(op, arg)
      live == op.arg[arg] \in op.live_out
  IN  If(live, KeepX(reg)) \o sse_cvtsd2ss_reg_reg(reg, reg)
        \o Store(reg) \o If(live, BackX(reg))

emit_sse_fst_op(op) ==
  LET a1 == r_arg(op, 1) a2 == r_arg(op, 2)
      Float(reg) == IF op.imm THEN movss_mem_reg(a1, reg)
                    ELSE sse_movss_membase_reg(a1, Zero, reg)
  IN  IF op.size = 4 THEN AsFloat(op, 2, Float)
      ELSE IF op.imm THEN movlpd_mem_reg(a1, a2)
      ELSE sse_movlpd_membase_xreg(a2, a1, Zero)

emit_sse_fld_op(op) ==
  LET a1 == r_arg(op, 1) a2 == r_arg(op, 2)
  IN  CASE op.size = 4 /\ op.imm -> sse_cvtss2sd_reg_mem(a1, a2)
        [] op.size = 4 /\ ~op.imm -> sse_cvtss2sd_reg_membase(a1, a2, Zero)
        [] op.size # 4 /\ op.imm -> movsd_reg_mem(a1, a2)
        [] OTHER -> sse_movlpd_xreg_membase(a1, a2, Zero)

emit_sse_fldx_op(op) ==
  LET a1 == r_arg(op, 1) a2 == r_arg(op, 2) a3 == r_arg(op, 3)
  IN  CASE op.size = 4 /\ op.imm -> sse_cvtss2sd_reg_membase(a1, a2, a3)
        [] op.size = 4 /\ ~op.imm -> sse_cvtss2sd_reg_memindex(a1, a2, Zero, a3, 0)
        [] op.size # 4 /\ op.imm -> sse_movlpd_xreg_membase(a1, a2, a3)
        [] OTHER -> sse_movlpd_xreg_memindex(a1, a2, Zero, a3, 0)

emit_sse_fstx_op(op) ==
  LET a1 == r_arg(op, 1) a2 == r_arg(op, 2) a3 == r_arg(op, 3)
      Float(reg) == IF op.imm THEN sse_movss_membase_reg(a2, a1, reg)
                    ELSE x86_movss_memindex_xreg(reg, a1, Zero, a2, 0)
  IN  IF op.size = 4 THEN AsFloat(op, 3, Float)
      ELSE IF op.imm THEN sse_movlpd_membase_xreg(a3, a2, a1)
      ELSE sse_movlpd_memindex_xreg(a1, Zero, a2, 0, a3)
=============================================================================
