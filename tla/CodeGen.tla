------------------------------ MODULE CodeGen ------------------------------
(***************************************************************************)
(* jit_generate_code (jitlib-core.c) from the list of operations to the    *)
(* machine code, and that code running: the passes over the list, one      *)
(* operation after the other generated into a buffer (jit_gen_op,          *)
(* common86-specific.h), the code moved to where it stays, and the         *)
(* processor taking one instruction after the other.                       *)
(*                                                                         *)
(* Programs are lists of operations on hardware registers, as a register   *)
(* allocation without spills leaves them (RegAlloc has the others), of at  *)
(* most one function without arguments, which makes no calls.              *)
(***************************************************************************)
EXTENDS Passes, EmitSse, X86Machine

CONSTANTS
  Programs,            \* the programs, each [ops, keep, options, pool, slots, base, in, xin]
  BUF_SIZE,            \* bytes of the first buffer
  MINIMAL_BUF_SPACE,   \* bytes an operation finds free in the buffer
  Data,                \* the memory the program works on, as its bytes
  StackTop,            \* the stack pointer when the code is called
  Magic,               \* where the code returns to
  MaxSteps             \* instructions a run may take

VARIABLES
  prog,       \* what jit_generate_code is called for
  phase,      \* "passes", "generate", "run" or "done"
  list,       \* jit->ops
  next,       \* the next operation to generate
  buf,        \* jit->buf, up to jit->ip
  capacity,   \* jit->buf_capacity
  addr,       \* patch_addr of the operations that have a name
  pos,        \* pos of the labels
  lost,       \* the buffer has grown: history
  m,          \* the processor
  steps       \* the instructions it has taken

generator == <<list, next, buf, capacity, addr, pos, lost>>
vars == <<prog, phase, generator, m, steps>>

-----------------------------------------------------------------------------
(* The memory of the program's operations: the constants at pool.  First   *)
(* the sign mask, 0.0 and 0.5 (sse2-specific.h), then every flt_imm.       *)

Slot(k) == Add(prog.pool, W(8 * k))
sign_mask == Slot(0)
x0 == Slot(2)
x05 == Slot(3)
flt_imm(i) == Slot(3 + i)

-----------------------------------------------------------------------------
(* jit_gen_op                                                              *)

Arithmetic(op) ==
  CASE op.code = "ADD" -> emit_add_op(op)
    [] op.code = "ADDC" -> emit_alu_op(op, ALU.ADD)
    [] op.code = "ADDX" -> emit_alu_op(op, ALU.ADC)
    [] op.code = "SUB" -> emit_sub_op(op)
    [] op.code = "SUBC" -> emit_subx_op(op, ALU.SUB)
    [] op.code = "SUBX" -> emit_subx_op(op, ALU.SBB)
    [] op.code = "RSB" -> emit_rsb_op(op)
    [] op.code = "OR" -> emit_alu_op(op, ALU.OR)
    [] op.code = "XOR" -> emit_alu_op(op, ALU.XOR)
    [] op.code = "AND" -> emit_alu_op(op, ALU.AND)
    [] op.code = "LSH" -> emit_shift_op(op, SHIFT.SHL)
    [] op.code = "RSH" -> emit_shift_op(op, IF op.sign THEN SHIFT.SAR ELSE SHIFT.SHR)
    [] op.code \in DOMAIN CondOps -> emit_cond_op(op, CondOps[op.code])
    [] op.code = "MUL" -> emit_mul_op(op, FALSE)
    [] op.code = "HMUL" -> emit_mul_op(op, TRUE)
    [] op.code = "DIV" -> emit_div_op(op, FALSE)
    [] op.code = "MOD" -> emit_div_op(op, TRUE)
    [] op.code \in {"NEG", "NOT"} -> emit_unary(op)
    [] op.code = "MOV" -> emit_mov_op(op)
    [] op.code = "ADDMUL" -> emit_addmul_op(op)
    [] op.code = "ADDIMM" -> emit_addimm_op(op)
ArithmeticOps ==
  {"ADD", "ADDC", "ADDX", "SUB", "SUBC", "SUBX", "RSB", "OR", "XOR", "AND", "LSH", "RSH",
   "MUL", "HMUL", "DIV", "MOD", "NEG", "NOT", "MOV", "ADDMUL", "ADDIMM"}
    \cup DOMAIN CondOps

Memory(op) ==
  CASE op.code = "LD" -> emit_ld_op(op)
    [] op.code = "LDX" -> emit_ldx_op(op)
    [] op.code = "ST" -> emit_st_op(op)
    [] op.code = "STX" -> emit_stx_op(op)
    [] op.code = "STI" -> emit_sti_op(op)
    [] op.code = "STXI" -> emit_stxi_op(op)
    [] op.code = "FLD" -> emit_sse_fld_op(op)
    [] op.code = "FLDX" -> emit_sse_fldx_op(op)
    [] op.code = "FST" -> emit_sse_fst_op(op)
    [] op.code = "FSTX" -> emit_sse_fstx_op(op)
MemoryOps == {"LD", "LDX", "ST", "STX", "STI", "STXI", "FLD", "FLDX", "FST", "FSTX"}

\* constant: where the operation's flt_imm is.
FloatingPoint(op, constant) ==
  LET a1 == r_arg(op, 1) a2 == r_arg(op, 2) a3 == r_arg(op, 3)
  IN  CASE op.code = "FMOV" /\ op.imm -> sse_mov_reg_safeimm(op, a1, constant)
        [] op.code = "FMOV" /\ ~op.imm -> sse_movsd_reg_reg(a1, a2)
        [] op.code = "FADD" -> sse_alu_op(op, SSE.ADD)
        [] op.code = "FSUB" -> sse_sub_op(op, a1, a2, a3, sign_mask)
        [] op.code = "FRSB" -> sse_sub_op(op, a1, a3, a2, sign_mask)
        [] op.code = "FMUL" -> sse_alu_op(op, SSE.MUL)
        [] op.code = "FDIV" -> sse_div_op(a1, a2, a3)
        [] op.code = "FNEG" -> sse_neg_op(op, a1, a2, sign_mask)
        [] op.code = "EXT" -> sse_cvtsi2sd_reg_reg(a1, a2)
        [] op.code = "TRUNC" -> sse_cvttsd2si_reg_reg(a1, a2)
        [] op.code = "CEIL" -> sse_floor(op, FALSE)
        [] op.code = "FLOOR" -> sse_floor(op, TRUE)
        [] op.code = "ROUND" -> sse_round(op, x0, x05)
FloatingPointOps == {"FMOV", "FADD", "FSUB", "FRSB", "FMUL", "FDIV", "FNEG",
                     "EXT", "TRUNC", "CEIL", "FLOOR", "ROUND"}

\* A function without a frame leaves BP alone.
no_prolog == IsOn(prog.options, OMIT_FRAME_PTR) /\ ~uses_frame_ptr(list)

uses_hw_reg(reg) == \E i \in DOMAIN list : reg \in Read(list[i]) \cup Made(list[i])

\* push_callee_saved_regs, pop_callee_saved_regs
CalleeSavedUsed ==
  SelectSeq(gp_regs, LAMBDA reg : reg \in callee_saved /\ uses_hw_reg(reg))
PushCalleeSaved == ForEach(CalleeSavedUsed, push_reg)
\* A mutant: in the order of the pushes.
PopInOrder == ForEach(CalleeSavedUsed, pop_reg)
PopCalleeSaved ==
  LET n == Len(CalleeSavedUsed)
  IN  ForEach([i \in 1 .. n |-> CalleeSavedUsed[n + 1 - i]], pop_reg)

\* The frame: what ALLOCA asks for, rounded up to 16 bytes each, and a slot
\* for every virtual register.
Align16(n) == ((n + 15) \div 16) * 16
stack_mem ==
  LET AllocaAt(i) == IF list[i].code = "ALLOCA" THEN Align16(SmallInt(list[i].arg[1])) ELSE 0
      upTo[i \in 0 .. Len(list)] == IF i = 0 THEN 0 ELSE upTo[i - 1] + AllocaAt(i)
  IN  Align16(upTo[Len(list)] + WordSize * prog.slots)

\* A mutant: functions begin at the lines of a cache.
PaddingToLine == ForEach([i \in 1 .. (-(prog.base + Len(buf))) % 64 |-> i],
                         LAMBDA i : nop)
PrologPadding == ForEach([i \in 1 .. (-(prog.base + Len(buf))) % 16 |-> i],
                         LAMBDA i : nop)
emit_prolog_op ==
  If(~no_prolog, push_reg(BP) \o mov_reg_reg(BP, SP, 8)
                   \o alu_reg_imm(ALU.SUB, SP, W(stack_mem)))
    \o PushCalleeSaved

Epilogue ==
  PopCalleeSaved \o If(~no_prolog, mov_reg_reg(SP, BP, WordSize) \o pop_reg(BP)) \o ret

emit_ret_op(op) ==
  LET a1 == r_arg(op, 1)
  IN  (IF op.imm THEN mov_reg_imm_size(AX, a1, WordSize) ELSE Copy(AX, a1)) \o Epilogue
\* The value goes through the word below the top of the stack.
emit_fret_op(op) ==
  LET arg == r_arg(op, 1)
  IN  If(op.size = 4, sse_cvtsd2ss_reg_reg(arg, arg))
        \o sse_movlpd_membase_xreg(arg, SP, W(-8))
        \o mov_reg_membase(AX, SP, W(-8), 8)
        \o movsd_reg_membase(0, SP, W(-8)) \o Epilogue

Silent == {"NOP", "ALLOCA"}

\* What an operation that does not jump emits.
Code(op, constant) ==
  CASE op.code \in ArithmeticOps -> Arithmetic(op)
    [] op.code \in MemoryOps -> Memory(op)
    [] op.code \in FloatingPointOps -> FloatingPoint(op, constant)
    [] op.code = "RET" -> emit_ret_op(op)
    [] op.code = "FRET" -> emit_fret_op(op)
    [] op.code \in Silent -> <<>>

\* JIT_GET_ADDR: how far the target is from the byte at offset from.
JIT_GET_ADDR(to, from) == IF to = Forward THEN 0 ELSE pos[to] - from

BeforeJump(op) ==
  CASE op.code \in DOMAIN BranchOps -> BeforeBranch(op)
    [] op.code \in DOMAIN FBranchOps -> BeforeFBranch(op)
    [] op.code = "JMP" -> <<>>
\* The jump, at offset at.  The displacement of an integer branch is taken
\* after its REX prefix has been written.
JumpCode(op, at) ==
  CASE op.code \in DOMAIN BranchOps -> emit_branch(op, JIT_GET_ADDR(op.arg[1], at + 1))
    [] op.code \in DOMAIN FBranchOps -> sse_branch(op, JIT_GET_ADDR(op.arg[1], at))
    [] op.code = "JMP" -> jump_disp32(JIT_GET_ADDR(op.arg[1], at))

-----------------------------------------------------------------------------
(* jit_generate_code                                                       *)

NoMachine == [st |-> "off"]

Init ==
  /\ prog \in Programs
  /\ phase = "passes"
  /\ list = prog.ops
  /\ next = 1
  /\ buf = <<>>
  /\ capacity = 0
  /\ addr = <<>>
  /\ pos = <<>>
  /\ lost = FALSE
  /\ m = NoMachine
  /\ steps = 0

RunPasses ==
  /\ phase = "passes"
  /\ list' = Optimized(Prepared(list, prog.keep), prog.options, prog.keep)
  /\ capacity' = BUF_SIZE
  /\ phase' = "generate"
  /\ UNCHANGED <<prog, next, buf, addr, pos, lost, m, steps>>

HasRoom == capacity - Len(buf) >= MINIMAL_BUF_SPACE

Generating(codes) ==
  /\ phase = "generate"
  /\ next <= Len(list)
  /\ HasRoom
  /\ list[next].code \in codes
  /\ next' = next + 1
  /\ UNCHANGED <<prog, phase, list, capacity, lost, m, steps>>

\* __buf_expand: realloc (stdlib.c) frees the old block, which fills it, and
\* copies nothing into the new one.
Expand ==
  /\ phase = "generate"
  /\ next <= Len(list)
  /\ ~HasRoom
  /\ capacity' = 2 * capacity
  /\ buf' = [i \in DOMAIN buf |-> 0]
  /\ lost' = TRUE
  /\ UNCHANGED <<prog, phase, list, next, addr, pos, m, steps>>

GenerateOp ==
  /\ Generating(ArithmeticOps \cup MemoryOps \cup FloatingPointOps \cup Silent \cup {"RET", "FRET"})
  /\ buf' = buf \o Code(list[next], flt_imm(next))
  /\ UNCHANGED <<addr, pos>>

GenerateProlog ==
  /\ Generating({"PROLOG"})
  /\ addr' = ("prolog" :> Len(buf) + Len(PrologPadding)) @@ addr
  /\ buf' = buf \o PrologPadding \o emit_prolog_op
  /\ UNCHANGED pos

GenerateJump ==
  /\ Generating(Jumps)
  /\ LET op == list[next]
         at == Len(buf) + Len(BeforeJump(op))
     IN  /\ addr' = (op.name :> at) @@ addr
         /\ buf' = buf \o BeforeJump(op) \o JumpCode(op, at)
  /\ UNCHANGED pos

GenerateLabel ==
  /\ Generating({"LABEL"})
  /\ pos' = (list[next].arg[1] :> Len(buf)) @@ pos
  /\ UNCHANGED <<buf, addr>>

GeneratePatch ==
  /\ Generating({"PATCH"})
  /\ buf' = patch(buf, addr[list[next].arg[1]] + 1, Len(buf) + 1)
  /\ UNCHANGED <<addr, pos>>

-----------------------------------------------------------------------------
(* The code running                                                        *)

MaskWord == <<0, 0, 0, 0, 0, 0, 0, 128>>
\* The addresses of a word, and its bytes there.
InMemory(a, w) == [i \in Loc(a) .. Loc(a) + 7 |-> w[i - Loc(a) + 1]]
InitialMemory ==
  LET constants[i \in 0 .. Len(list)] ==
        IF i = 0 THEN InMemory(sign_mask, MaskWord) @@ InMemory(x0, Zero)
                        @@ InMemory(x05, Double(2))
        ELSE IF list[i].fp THEN InMemory(flt_imm(i), list[i].flt) @@ constants[i - 1]
        ELSE constants[i - 1]
  IN  constants[Len(list)] @@ InMemory(W(StackTop), W(Magic)) @@ Data

\* The registers the program does not say anything about hold something.
Registers == [reg \in 0 .. 15 |->
  IF reg = SP THEN W(StackTop)
  ELSE IF reg \in DOMAIN prog.in THEN prog.in[reg] ELSE W(1000 + reg)]
XRegisters == [reg \in 0 .. 15 |->
  IF reg \in DOMAIN prog.xin THEN prog.xin[reg] ELSE Double(4000 + 4 * reg)]

\* The code is in its final place, and called.
Call ==
  /\ phase = "generate"
  /\ next > Len(list)
  /\ phase' = "run"
  /\ m' = [r |-> Registers,
           x |-> [reg \in 0 .. 15 |-> [lo |-> XRegisters[reg], hi |-> Double(reg)]],
           cf |-> FALSE, zf |-> FALSE, sf |-> FALSE, of |-> FALSE,
           mem |-> InitialMemory, st |-> "run",
           ip |-> IF "prolog" \in DOMAIN addr THEN addr["prolog"] + 1 ELSE 1]
  /\ UNCHANGED <<prog, generator, steps>>

AtEnd == m.ip \in {Len(buf) + 1, Magic}

Execute ==
  /\ phase = "run"
  /\ ~lost /\ ~AtEnd /\ m.st = "run" /\ steps < MaxSteps
  /\ m' = Step(m, buf)
  /\ steps' = steps + 1
  /\ UNCHANGED <<prog, phase, generator>>

Finish ==
  /\ phase = "run"
  /\ lost \/ AtEnd
  /\ phase' = "done"
  /\ UNCHANGED <<prog, generator, m, steps>>

Next == RunPasses \/ Expand \/ GenerateOp \/ GenerateProlog \/ GenerateJump \/ GenerateLabel
          \/ GeneratePatch \/ Call \/ Execute \/ Finish

Spec == Init /\ [][Next]_vars
=============================================================================
