------------------------------- MODULE Passes -------------------------------
(***************************************************************************)
(* What jit_generate_code (jitlib-core.c) does to the list of operations   *)
(* before it allocates registers: it replaces immediates the instructions  *)
(* have no room for, finds the live registers, and optimizes               *)
(* (x86-common-stuff.c).  A list is a sequence; a pass maps it to another. *)
(* JIT_CODESTART, which starts every list and does nothing, is left out.   *)
(***************************************************************************)
EXTENDS JitCode

LOCAL S == INSTANCE SequencesExt

-----------------------------------------------------------------------------
(* Options, as the bits that are set: the one of OMIT_UNUSED_ASSIGNEMENTS  *)
(* and of OMIT_FRAME_PTR, which together are JOIN_ADDMUL as well.          *)

OMIT_FRAME_PTR == {1}
OMIT_UNUSED_ASSIGNEMENTS == {2}
JOIN_ADDMUL == {1, 2}
IsOn(options, option) == options \cap option # {}

\* What jit_init enables, and the options after disabling one of them.
DefaultOptions == JOIN_ADDMUL \cup OMIT_FRAME_PTR
jit_disable_optimization(options, option) == options \ option

-----------------------------------------------------------------------------
(* Immediates                                                              *)

\* JIT_IMM_BITS is 31: the bits from 31 on are all 0, or all 1 if signed.
jit_imm_overflow(sign, value) ==
  LET high == <<value[4] - (value[4] % 128)>> \o SubSeq(value, 5, 8)
      none == <<0, 0, 0, 0, 0>>
      mask == <<128, 255, 255, 255, 255>>
  IN  high # none /\ ~(sign /\ high = mask)

ImmArg(op) == CHOOSE i \in 1 .. 3 : /\ op.spec[i] = "IMM"
                                    /\ \A j \in i + 1 .. 3 : op.spec[j] # "IMM"

\* An operation that takes its immediate from a register made before it.
FromRegister(op, mov, reg) ==
  <<mov, [op EXCEPT !.imm = FALSE, !.spec[ImmArg(op)] = "REG",
                    !.arg[ImmArg(op)] = reg]>>

CorrectLongImm(op) ==
  IF ~op.imm \/ op.code \in {"JMP", "CALL", "PATCH", "MOV", "PUTARG", "MSG"}
  THEN <<op>>
  ELSE IF jit_imm_overflow(op.sign, op.arg[ImmArg(op)])
  THEN FromRegister(op, Unary("MOV", TRUE, R_IMM, op.arg[ImmArg(op)]), R_IMM)
  ELSE <<op>>

CorrectFloatImm(op) ==
  IF ~op.imm \/ ~op.fp \/ op.code = "FMOV" THEN <<op>>
  ELSE FromRegister(op, FMov(TRUE, FR_IMM, op.flt), FR_IMM)

\* Each operation replaced by a sequence of them.
ForEach(ops, Pass(_)) == S!FlattenSeq([i \in DOMAIN ops |-> Pass(ops[i])])

jit_correct_long_imms(ops) == ForEach(ops, CorrectLongImm)
jit_correct_float_imms(ops) == ForEach(ops, CorrectFloatImm)

-----------------------------------------------------------------------------
(* The live registers.  after are those read after the last operation.     *)

Jumps == {"JMP", "BLT", "BLE", "BGT", "BGE", "BEQ", "BNE", "BMS", "BMC",
          "BOADD", "BOSUB", "FBLT", "FBLE", "FBGT", "FBGE", "FBEQ", "FBNE"}

\* jmp_addr: the LABEL a jump names, or the PATCH that names the jump.
Targets(ops, i) ==
  IF ops[i].code \notin Jumps \/ (ops[i].code = "JMP" /\ ~ops[i].imm) THEN {}
  ELSE {j \in DOMAIN ops :
          \/ ops[j].code = "LABEL" /\ ops[j].arg[1] = ops[i].arg[1]
          \/ ops[j].code = "PATCH" /\ ops[j].arg[1] = ops[i].name}

Followers(ops, i) ==
  CASE ops[i].code = "RET" -> {}
    [] ops[i].code = "JMP" -> Targets(ops, i)
    [] OTHER -> (DOMAIN ops \cap {i + 1}) \cup Targets(ops, i)

LiveOut(ops, in, after, i) ==
  UNION {in[j] : j \in Followers(ops, i)} \cup
  IF i = Len(ops) /\ ops[i].code \notin {"RET", "JMP"} THEN after ELSE {}

RECURSIVE LiveIn(_, _, _)
\* Until another round finds nothing more.
LiveIn(ops, after, in) ==
  LET next == [i \in DOMAIN ops |->
                 (LiveOut(ops, in, after, i) \ Made(ops[i])) \cup Read(ops[i])]
  IN  IF next = in THEN in ELSE LiveIn(ops, after, next)

jit_flw_analysis(ops, after) ==
  LET in == LiveIn(ops, after, [i \in DOMAIN ops |-> {}])
  IN  [i \in DOMAIN ops |->
         [ops[i] EXCEPT !.live_in = in[i], !.live_out = LiveOut(ops, in, after, i)]]

-----------------------------------------------------------------------------
(* Optimizations                                                           *)

make_nop(op) == [op EXCEPT !.code = "NOP", !.imm = FALSE,
                           !.spec = <<"NO", "NO", "NO">>]

\* Those that set the carry stay.
KeepsCarry == {"ADDC", "ADDX", "SUBC", "SUBX"}
\* A mutant: all go.
RemoveUnused(ops) ==
  [i \in DOMAIN ops |->
     IF ops[i].spec[1] = "TREG" /\ ops[i].arg[1] \notin ops[i].live_out
     THEN make_nop(ops[i]) ELSE ops[i]]
jit_optimize_unused_assignments(ops) ==
  [i \in DOMAIN ops |->
     IF /\ ops[i].spec[1] = "TREG"
        /\ ops[i].code \notin KeepsCarry
        /\ ops[i].arg[1] \notin ops[i].live_out
     THEN make_nop(ops[i]) ELSE ops[i]]

\* The operations from the first to the last, changed at one place after the
\* other.
InOrder(ops, At(_, _)) ==
  LET upTo[i \in 0 .. Len(ops)] == IF i = 0 THEN ops ELSE At(upTo[i - 1], i)
  IN  upTo[Len(ops)]

\* A store of a constant: ST and STX whose argument n the MOV before made.
StoresConstant(ops, i, n) ==
  /\ i > 1
  /\ ops[i - 1].code = "MOV" /\ ops[i - 1].imm
  /\ ops[i].arg[n] = ops[i - 1].arg[1]
  /\ ops[i].arg[n] \notin ops[i].live_out

StoreImm(ops, i, n, code) ==
  [ops EXCEPT
     ![i] = [@ EXCEPT !.code = code, !.spec[n] = "IMM", !.arg[n] = ops[i - 1].arg[2]],
     ![i - 1] = make_nop(@)]

StOpAt(ops, i) ==
  IF ops[i].code = "ST" /\ StoresConstant(ops, i, 2) THEN StoreImm(ops, i, 2, "STI")
  ELSE IF ops[i].code = "STX" /\ StoresConstant(ops, i, 3)
  THEN StoreImm(ops, i, 3, "STXI")
  ELSE ops

jit_optimize_st_ops(ops) == InOrder(ops, StOpAt)

\* The operation after i may take over what i computes: it makes the same
\* register, or nobody reads it later; and it reads some register but R(0).
IsRelated(ops, i) ==
  LET next == ops[i + 1]
  IN  /\ i < Len(ops)
      /\ next.arg[1] = ops[i].arg[1] \/ ops[i].arg[1] \notin next.live_out
      /\ Read(next) \ {0} # {}

Is(op, code, imm) == op.code = code /\ op.imm = imm

\* MUL by 2, 4, 8 or LSH by 1, 2, 3, as the shift of an address.
ShiftIndex(op) ==
  LET powers == CASE op.code = "MUL" /\ op.sign -> [n \in 1 .. 3 |-> W(2 ^ n)]
                  [] op.code = "LSH" -> [n \in 1 .. 3 |-> W(n)]
                  [] OTHER -> <<>>
  IN  {n \in DOMAIN powers : op.imm /\ op.arg[3] = powers[n]}
is_suitable_mul(op) == ShiftIndex(op) # {}
TheShift(op) == CHOOSE n \in ShiftIndex(op) : TRUE

Joined(ops, i, new) == [ops EXCEPT ![i] = make_nop(@), ![i + 1] = new]

make_addmuli(ops, i) ==
  Joined(ops, i, [ops[i + 1] EXCEPT
    !.code = "ADDMUL", !.imm = TRUE, !.spec = <<"TREG", "REG", "IMM">>,
    !.arg[2] = ops[i].arg[2], !.size = TheShift(ops[i])])

join_muli_ori(ops, i) ==
  LET imm == ops[i + 1].arg[3]
  IN  IF imm \in {W(n) : n \in 1 .. (2 ^ TheShift(ops[i])) - 1}
      THEN make_addmuli(ops, i) ELSE ops

join_muli_addr(ops, i) ==
  LET next == ops[i + 1]
      add_reg == IF next.arg[2] = ops[i].arg[1] THEN next.arg[3] ELSE next.arg[2]
  IN  IF next.arg[2] = next.arg[3] THEN ops
      ELSE Joined(ops, i, [next EXCEPT
             !.code = "ADDMUL", !.spec = <<"TREG", "REG", "REG">>,
             !.arg[2] = add_reg, !.arg[3] = ops[i].arg[2],
             !.size = TheShift(ops[i])])

JoinAddMulAt(ops, i) ==
  IF i = Len(ops) \/ ~is_suitable_mul(ops[i]) THEN ops
  ELSE IF ops[i + 1].code \notin {"ADD", "OR"} \/ ~IsRelated(ops, i) THEN ops
  ELSE LET next == ops[i + 1]
       IN  CASE Is(next, "ADD", TRUE) -> make_addmuli(ops, i)
             [] Is(next, "ADD", FALSE) -> join_muli_addr(ops, i)
             [] Is(next, "OR", TRUE) -> join_muli_ori(ops, i)
             [] OTHER -> ops

jit_optimize_join_addmul(ops) == InOrder(ops, JoinAddMulAt)

\* The constant of an ADDIMM is in flt_imm.  join_addr_addi changes its sign,
\* of an ADD as of a SUB.
ToAddImm(next, imm) ==
  [next EXCEPT !.code = "ADDIMM", !.imm = FALSE, !.spec = <<"TREG", "REG", "REG">>,
               !.flt = imm]

join_addr_addi(ops, i) ==
  Joined(ops, i, [ToAddImm(ops[i + 1], Neg(ops[i + 1].arg[3]))
                  EXCEPT !.arg[2] = ops[i].arg[2], !.arg[3] = ops[i].arg[3]])

join_addi_addr(ops, i) ==
  LET op == ops[i]
      next == ops[i + 1]
      imm == IF op.code = "SUB" THEN Neg(op.arg[3]) ELSE op.arg[3]
      Source(r) == IF r = op.arg[1] THEN op.arg[2] ELSE r
  IN  Joined(ops, i,
        [ToAddImm(next, IF next.arg[2] = next.arg[3] THEN Add(imm, imm) ELSE imm)
         EXCEPT !.arg[2] = Source(@), !.arg[3] = Source(@)])

JoinAddImmAt(ops, i) ==
  IF i = Len(ops) \/ ops[i].code \notin {"ADD", "SUB"} THEN ops
  ELSE IF ops[i + 1].code \notin {"ADD", "SUB"} \/ ~IsRelated(ops, i) THEN ops
  ELSE LET next == ops[i + 1]
       IN  CASE Is(ops[i], "ADD", FALSE) /\ next.imm -> join_addr_addi(ops, i)
             [] ops[i].imm /\ Is(next, "ADD", FALSE) -> join_addi_addr(ops, i)
             [] OTHER -> ops

jit_optimize_join_addimm(ops) == InOrder(ops, JoinAddImmAt)

-----------------------------------------------------------------------------
(* All the passes, in the order of jit_generate_code.                      *)

Prepared(ops, after) ==
  jit_flw_analysis(jit_correct_float_imms(jit_correct_long_imms(ops)), after)

Optimized(prepared, options, after) ==
  LET needed == IF IsOn(options, OMIT_UNUSED_ASSIGNEMENTS)
                THEN jit_optimize_unused_assignments(prepared) ELSE prepared
      stored == jit_optimize_st_ops(needed)
      joined == IF IsOn(options, JOIN_ADDMUL)
                THEN jit_optimize_join_addimm(jit_optimize_join_addmul(stored))
                ELSE stored
  IN  IF joined = stored THEN joined ELSE jit_flw_analysis(joined, after)

\* jit_optimize_frame_ptr
uses_frame_ptr(ops) ==
  \E i \in DOMAIN ops : ops[i].code \in {"ALLOCA", "UREG", "LREG", "SYNCREG"}
=============================================================================
