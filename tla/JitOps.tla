------------------------------ MODULE JitOps ------------------------------
(***************************************************************************)
(* The operations MyJIT compiles (jit_op, jitlib-core.h), as far as its    *)
(* data-flow analysis and its register allocator tell them apart, and what *)
(* flow-analysis.h makes of one operation: the registers it makes and      *)
(* reads, and the operations that may follow it.                           *)
(***************************************************************************)
EXTENDS Integers, FiniteSets, Sequences

CONSTANTS
  Programs,     \* the lists of operations that are compiled
  VReg,         \* the virtual registers they name
  GpArgRegs,    \* gp_arg_reg_cnt: 6 on AMD64
  FpArgRegs,    \* fp_arg_reg_cnt: 8 on AMD64
  MaxArgs       \* BOUND: the most arguments a function of Programs declares

(***************************************************************************)
(* An operation is a record:                                               *)
(*   code  what the sources test with GET_OP.  "op" is any operation that  *)
(*         only computes, "branch" one of BEQ .. BLE, "bms" any other      *)
(*         conditional jump (BMS, BMC, BOADD, BOSUB, FBxx), "label" a      *)
(*         LABEL or a PATCH                                                *)
(*   def   the registers of its TREG operands, use those of its REG ones   *)
(*   jmp   the position of jmp_addr, 0 for NULL                            *)
(*   args  of a PROLOG: the types of the arguments, in order, "INT" or     *)
(*         "FLOAT"; of a PUTARG or FPUTARG: the type of what it passes     *)
(*   arg   of a GETARG: which argument, counted from 0                     *)
(***************************************************************************)

Codes == {"prolog", "getarg", "ret", "jmp", "branch", "bms", "label", "op",
          "prepare", "putarg", "call", "retval", "fretval"}

Operation == [code : Codes, def : SUBSET VReg, use : SUBSET VReg, jmp : Nat,
              args : Seq({"INT", "FLOAT"}), arg : Nat]

\* __mkreg: the n-th register a program names, the j-th register of arguments.
R(n) == <<"INT", "REG", n>>
FR(n) == <<"FLOAT", "REG", n>>
ArgReg(type, j) == <<type, "ARG", j>>

Positions(args, type) == {j \in 1 .. Len(args) : args[j] = type}

AtMost(n, max) == IF n <= max THEN n ELSE max

\* What a PROLOG makes: the registers of as many arguments of each type as
\* there are argument registers, numbered within their type.
PrologArgs(args) ==
  LET gp == AtMost(Cardinality(Positions(args, "INT")), GpArgRegs)
      fp == AtMost(Cardinality(Positions(args, "FLOAT")), FpArgRegs)
  IN  {ArgReg("INT", j) : j \in 0 .. gp - 1}
        \cup {ArgReg("FLOAT", j) : j \in 0 .. fp - 1}

\* func_info: the function of an operation is that of the last PROLOG.
FuncOf(p, i) ==
  LET prologs == {j \in 1 .. i : p[j].code = "prolog"}
  IN  p[CHOOSE j \in prologs : \A k \in prologs : k <= j]

\* A program starts with the PROLOG of a function, its jumps lead to
\* operations, and its GETARGs name declared arguments.
WellFormed(p) ==
  /\ p \in Seq(Operation)
  /\ Len(p) > 0 /\ p[1].code = "prolog"
  /\ \A i \in 1 .. Len(p) :
       /\ p[i].jmp <= Len(p)
       /\ p[i].code = "jmp" => p[i].jmp # 0
       /\ p[i].code = "prolog" => Len(p[i].args) <= MaxArgs
       /\ p[i].code = "getarg" => p[i].arg < Len(FuncOf(p, i).args)

ASSUME OpsAssumption ==
  /\ GpArgRegs \in Nat /\ FpArgRegs \in Nat /\ MaxArgs \in Nat
  /\ \A p \in Programs : WellFormed(p)

-----------------------------------------------------------------------------
(* What the analysis makes of an operation.                                *)

Kill(p, i) == p[i].def \cup
  IF p[i].code = "prolog" THEN PrologArgs(p[i].args) ELSE {}

\* Mutant: GETARG reads the argument after the one it names.
GenNextArg(p, i) == p[i].use \cup
  IF p[i].code = "getarg"
  THEN {ArgReg(FuncOf(p, i).args[p[i].arg + 1], p[i].arg + 1)}
  ELSE {}

\* What a GETARG reads: a register numbered among all the arguments.
Gen(p, i) == p[i].use \cup
  IF p[i].code = "getarg"
  THEN {ArgReg(FuncOf(p, i).args[p[i].arg + 1], p[i].arg)}
  ELSE {}

\* Where control goes.  FRET is not told from the operations that go on.
Succ(p, i) ==
  CASE p[i].code = "ret" -> {}
    [] p[i].code = "jmp" -> {p[i].jmp}
    [] OTHER -> ({i + 1} \cap 1 .. Len(p)) \cup ({p[i].jmp} \ {0})

\* Mutant: what an operation makes stays alive before it.
InOfKeepMade(p, i, out) == out \cup Gen(p, i)

InOf(p, i, out) == (out \ Kill(p, i)) \cup Gen(p, i)
OutOf(p, i, in) == UNION {in[s] : s \in Succ(p, i)}

\* The sets in and out solve the data-flow equations of p.
Solves(p, in, out) ==
  \A i \in 1 .. Len(p) : /\ in[i] = InOf(p, i, out[i])
                         /\ out[i] = OutOf(p, i, in)
=============================================================================
