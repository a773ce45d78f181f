------------------------------ MODULE JitExec ------------------------------
(***************************************************************************)
(* The code MyJIT generates (common86-specific.h, amd64-specific.h) for    *)
(* what RegAlloc.tla has allocated, running on a machine with hardware     *)
(* registers and a stack frame, next to the program it was made from,      *)
(* whose virtual registers hold ref.  Values are the names of where they   *)
(* were made; the two runs must always agree.                              *)
(***************************************************************************)
EXTENDS RegAlloc

VARIABLES
  run,     \* "compiling", "running", "calling" or "returned"
  at,      \* the operation that runs
  k,       \* the batch of moves[at] that runs next; then the operation itself
  hw,      \* the hardware registers
  frame,   \* the slots of the stack frame, by their distance from allocai's
  pushed,  \* what a PREPARE has pushed: the caller-saved registers in use
  result,  \* what the last CALL returned
  lap,     \* toggles when control goes back, to tell values made again
  ref      \* what the virtual registers hold in the source program

machine == <<run, at, k, hw, frame, pushed, result, lap, ref>>
vars == <<alloc, machine>>

-----------------------------------------------------------------------------
(* Values: what an argument, a callee-saved register at entry, a result and *)
(* an operation give.  An operation that runs again, in the next round of a *)
(* loop, gives another value.                                              *)
Junk == <<"junk">>
Undefined == <<"undefined">>
Argument(j) == <<"argument", j>>
OfCaller(h) == <<"of caller", h>>
Made(i) == <<"made", i, lap>>
Returned(i) == <<"returned", i, lap>>
Constant(i) == <<"constant", i>>

-----------------------------------------------------------------------------
(* The stack frame (amd64-specific.h:36-48).                               *)

\* The operations that follow the same PROLOGs.
Prologs == {j \in Ops : prog[j].code = "prolog"}
Function(i) == {n \in Ops : \A j \in Prologs : j <= n <=> j <= i}

\* The highest number of a register of the function, plus one.
LastOf(i, type) ==
  LET ids == {v[3] + 1 : v \in {w \in UNION {Operands(n) : n \in Function(i)} :
                                  TypeOf(w) = type}}
  IN  CHOOSE n \in ids \cup {0} : \A m \in ids : m <= n

\* gp_reg_count and fp_reg_count: the sum is made even.
FpCount(i) == LastOf(i, "FLOAT")
GpCount(i) == LastOf(i, "INT") + ((LastOf(i, "INT") + FpCount(i)) % 2)

\* Mutant: the FP registers share the slots of the others.
SlotOfEither(i, v) == IF v[2] = "ARG" THEN v[3] + GpCount(i) + FpCount(i) ELSE v[3] + 1

\* __GET_REG_POS, in units of REG_SIZE, downwards.
Slot(i, v) ==
  CASE v[2] = "ARG" -> v[3] + GpCount(i) + FpCount(i)
    [] v[2] = "REG" /\ v[1] = "INT" -> v[3] + 1
    [] v[2] = "REG" /\ v[1] = "FLOAT" -> GpCount(i) + v[3] + 1

-----------------------------------------------------------------------------
(* Arguments, as the calling convention passes them (jit_init_arg_params). *)

Args(i) == FuncOf(prog, i).args
TypePos(args, j) == Cardinality({n \in 1 .. j : args[n] = args[j]})
ArgRegs(type) == IF type = "FLOAT" THEN FpArgs ELSE GpArgs
PassedByReg(args, j) == TypePos(args, j) <= Len(ArgRegs(args[j]))
Location(args, j) == ArgRegs(args[j])[TypePos(args, j)]

\* The programs that are run.  Control does not run past the end of a function
\* (one that FRET ends is not modelled).
\* BOUND: the arguments that are passed in registers have the type of those
\* before them (PROLOG numbers them within their type, GETARG among all), and
\* no call passes arguments on the stack.
PassesBefore(p, i, type) ==
  {n \in i .. Len(p) : /\ p[n].code = "putarg" /\ p[n].args = <<type>>
                       /\ \A m \in i .. n : p[m].code # "call"}

Runnable(p) ==
  \A i \in 1 .. Len(p) :
    /\ p[i].code \notin {"ret", "jmp"} => i < Len(p) /\ p[i + 1].code # "prolog"
    /\ p[i].code = "prolog" =>
         \A j \in 1 .. Len(p[i].args) :
           PassedByReg(p[i].args, j) => TypePos(p[i].args, j) = j
    /\ p[i].code = "prepare" =>
         \A type \in {"INT", "FLOAT"} :
           Cardinality(PassesBefore(p, i, type)) <= Len(ArgRegs(type))

ASSUME ExecAssumption == \A p \in Programs : Runnable(p)

-----------------------------------------------------------------------------
\* A batch of inserted operations, run in the function of i.
Saved(b, i) ==
  [s \in DOMAIN frame |->
     IF \E v \in DOMAIN b.save : Slot(i, v) = s
     THEN hw[b.save[CHOOSE v \in DOMAIN b.save : Slot(i, v) = s]]
     ELSE frame[s]]

Loaded(b, i) ==
  [h \in HwReg |->
     IF \E r \in HwReg : <<h, r>> \in b.rename
     THEN hw[CHOOSE r \in HwReg : <<h, r>> \in b.rename]
     ELSE IF h \in {b.load[v] : v \in DOMAIN b.load}
     THEN Saved(b, i)[Slot(i, CHOOSE v \in DOMAIN b.load : b.load[v] = h)]
     ELSE hw[h]]

MachineInit ==
  /\ run = "compiling"
  /\ at = 0
  /\ k = 0
  /\ hw = [h \in HwReg |-> Junk]
  /\ frame = <<>>
  /\ pushed = <<>>
  /\ result = Junk
  /\ lap = 0
  /\ ref = [v \in Reg |-> Undefined]

ExecInit == Init /\ MachineInit

\* Generation ends with code only if no assertion has failed.
CodeGenerated ==
  /\ phase = "done"
  /\ NoArgLoads

\* Somebody calls a function: its PROLOG runs.
CallFunction(i) ==
  LET args == prog[i].args
      ByReg == {j \in 1 .. Len(args) : PassedByReg(args, j)}
  IN  /\ run = "compiling"
      /\ CodeGenerated
      /\ prog[i].code = "prolog"
      /\ hw' = [h \in HwReg |->
           IF h \in CalleeSaved THEN OfCaller(h)
           ELSE IF \E j \in ByReg : Location(args, j) = h
           THEN Argument(CHOOSE j \in ByReg : Location(args, j) = h)
           ELSE Junk]
      /\ frame' = [s \in 0 .. GpCount(i) + FpCount(i) + Len(args) |-> Junk]
      /\ ref' = [v \in Reg |-> IF \E j \in ByReg : v = ArgReg(args[j], j - 1)
                               THEN Argument(v[3] + 1) ELSE Undefined]
      /\ run' = "running"
      /\ at' = i + 1
      /\ k' = 1
      /\ UNCHANGED <<pushed, result, lap>>

\* What the allocator has inserted before the operation.
Move ==
  /\ run = "running"
  /\ k <= Len(moves[at])
  /\ hw' = Loaded(moves[at][k], at)
  /\ frame' = Saved(moves[at][k], at)
  /\ k' = k + 1
  /\ UNCHANGED <<run, at, pushed, result, lap, ref>>

Runs(i, codes) ==
  /\ run = "running"
  /\ at = i
  /\ k = Len(moves[at]) + 1
  /\ prog[i].code \in codes

Goto(i) == at' = i /\ k' = 1

\* An operation that makes the register it defines, if any.
Compute(i) ==
  /\ Runs(i, {"op", "label"})
  /\ ref' = [v \in Reg |-> IF v \in prog[i].def THEN Made(i) ELSE ref[v]]
  /\ hw' = [h \in HwReg |-> IF In(regmap[i], {h}) \cap prog[i].def # {}
                            THEN Made(i) ELSE hw[h]]
  /\ Goto(i + 1)
  /\ UNCHANGED <<run, frame, pushed, result, lap>>

\* emit_get_arg: from the stack of the caller, from the slot of a spilled
\* argument, or from where the convention passes it.  A NOP gets nothing.
GetArgument(i) ==
  LET args == Args(i)
      j == prog[i].arg + 1
      def == CHOOSE v \in prog[i].def : TRUE
      arg == ArgReg(args[j], j - 1)
      value == IF ~PassedByReg(args, j) THEN Argument(j)
               ELSE IF arg \notin DOMAIN regmap[i] THEN frame[Slot(i, arg)]
               ELSE hw[Location(args, j)]
  IN  /\ Runs(i, {"getarg"})
      /\ ref' = [ref EXCEPT ![def] = Argument(j)]
      /\ hw' = IF i \in eliminated THEN hw ELSE [hw EXCEPT ![regmap[i][def]] = value]
      /\ Goto(i + 1)
      /\ UNCHANGED <<run, frame, pushed, result, lap>>

\* __push_caller_saved_regs, for what the map of the CALL has in use.
PrepareCall(i) ==
  LET map == regmap[CallOf(i)]
      inUse == {map[v] : v \in DOMAIN map \cap live_in[CallOf(i)]}
  IN  /\ Runs(i, {"prepare"})
      /\ pushed' = [h \in inUse \ (CalleeSaved \cup {RetReg, FpRetReg}) |-> hw[h]]
      /\ Goto(i + 1)
      /\ UNCHANGED <<run, hw, frame, result, lap, ref>>

\* PUTARG: the code comes with the CALL.
PutArgument(i) ==
  /\ Runs(i, {"putarg"})
  /\ Goto(i + 1)
  /\ UNCHANGED <<run, hw, frame, pushed, result, lap, ref>>

\* prepared_args.op: the last PREPARE before the CALL.
PrepareOf(c) == CHOOSE i \in 1 .. c : /\ prog[i].code = "prepare"
                                      /\ \A m \in i + 1 .. c : prog[m].code # "prepare"

\* The register that the argument of a PUTARG is passed in.
OutReg(c, n) ==
  LET type == prog[n].args[1]
  IN  ArgRegs(type)[Cardinality({m \in Putargs(PrepareOf(c), type) : m <= n})]
Outgoing(c) == Putargs(PrepareOf(c), "INT") \cup Putargs(PrepareOf(c), "FLOAT")

\* __configure_args, from the last PUTARG to the first: each argument from where
\* the map of the PREPARE has it.  A number given as a constant goes through RAX.
PassArgument(c) ==
  LET n == c - k
      map == regmap[PrepareOf(c)]
      source(v) == IF v \in DOMAIN map THEN hw[map[v]] ELSE frame[Slot(c, v)]
  IN  /\ run = "running"
      /\ at = c /\ prog[c].code = "call"
      /\ prog[n].code = "putarg"
      /\ \/ /\ prog[n].use = {}
            /\ hw' = [h \in HwReg |->
                 IF h = OutReg(c, n) THEN Constant(n)
                 ELSE IF h = RetReg /\ prog[n].args = <<"FLOAT">> THEN Constant(n)
                 ELSE hw[h]]
         \/ \E v \in prog[n].use : hw' = [hw EXCEPT ![OutReg(c, n)] = source(v)]
      /\ k' = k + 1
      /\ UNCHANGED <<run, at, frame, pushed, result, lap, ref>>

\* __funcall: RAX passes the number of FP arguments, then control is passed.
Transfer(c) ==
  /\ run = "running"
  /\ at = c /\ prog[c].code = "call"
  /\ prog[c - k].code = "prepare"
  /\ hw' = [hw EXCEPT ![RetReg] = Junk]
  /\ run' = "calling"
  /\ UNCHANGED <<at, k, frame, pushed, result, lap, ref>>

\* The called function returns, and __pop_caller_saved_regs.
ReturnFromCall ==
  /\ run = "calling"
  /\ result' = Returned(at)
  /\ hw' = [h \in HwReg |-> IF h \in DOMAIN pushed THEN pushed[h]
                            ELSE IF h \in CalleeSaved THEN hw[h]
                            ELSE IF h \in {RetReg, FpRetReg} THEN result' ELSE Junk]
  /\ pushed' = <<>>
  /\ run' = "running"
  /\ Goto(at + 1)
  /\ UNCHANGED <<frame, lap, ref>>

\* RETVAL emits nothing, FRETVAL a move.
ReadResult(i) ==
  LET def == CHOOSE v \in prog[i].def : TRUE
  IN  /\ Runs(i, {"retval", "fretval"})
      /\ ref' = [ref EXCEPT ![def] = result]
      /\ hw' = IF prog[i].code = "retval" THEN hw
               ELSE [hw EXCEPT ![regmap[i][def]] = hw[FpRetReg]]
      /\ Goto(i + 1)
      /\ UNCHANGED <<run, frame, pushed, result, lap>>

\* A jump is taken, over the moves of its edge if it has one.
Jump(i) ==
  /\ Runs(i, {"jmp", "branch", "bms"})
  /\ IF i \in DOMAIN edge
     THEN hw' = Loaded(edge[i], i) /\ frame' = Saved(edge[i], i)
     ELSE UNCHANGED <<hw, frame>>
  /\ Goto(Target(i))
  /\ lap' = IF Target(i) <= i THEN 1 - lap ELSE lap
  /\ UNCHANGED <<run, pushed, result, ref>>

FallThrough(i) ==
  /\ Runs(i, {"branch", "bms"})
  /\ Goto(i + 1)
  /\ UNCHANGED <<run, hw, frame, pushed, result, lap, ref>>

Return(i) ==
  /\ Runs(i, {"ret"})
  /\ run' = "returned"
  /\ UNCHANGED <<at, k, hw, frame, pushed, result, lap, ref>>

Execute ==
  \/ Move
  \/ ReturnFromCall
  \/ \E i \in Ops : \/ CallFunction(i) \/ Compute(i) \/ GetArgument(i)
                    \/ PrepareCall(i) \/ PutArgument(i) \/ PassArgument(i)
                    \/ Transfer(i) \/ ReadResult(i) \/ Jump(i) \/ FallThrough(i) \/ Return(i)

ExecNext ==
  \/ Next /\ UNCHANGED machine
  \/ Execute /\ UNCHANGED alloc

ExecSpec == ExecInit /\ [][ExecNext]_vars /\ WF_alloc(Next /\ UNCHANGED machine)

-----------------------------------------------------------------------------
(* Properties.                                                             *)

\* The virtual registers that are saved to the frame in the function of i.
Spilled(i) ==
  (UNION {UNION {DOMAIN moves[n][m].save : m \in 1 .. Len(moves[n])} : n \in Function(i)})
    \cup (UNION {DOMAIN edge[n].save : n \in Function(i) \cap DOMAIN edge})

\* No two virtual registers of a function are saved to the same slot of its
\* frame ("shadow space for arg.regs", amd64-specific.h:29-32).
SlotsApart ==
  phase = "done" => \A i \in Ops : prog[i].code = "prolog" =>
    LET slot == [v \in Spilled(i) |-> Slot(i, v)]
    IN  \A v, w \in Spilled(i) : slot[v] = slot[w] => v = w

\* Before every operation, each virtual register that is alive has its value
\* where the map of the operation before says: at the end of a branch, of a
\* jump and of a call too (the invariant reg-allocator.h keeps, op->regmap).
AliveAtHome ==
  run = "running" /\ k = 1 /\ prog[at].code \notin {"putarg", "call"} =>
    \A v \in live_in[at] : ref[v] # Undefined =>
      ref[v] = IF v \in DOMAIN regmap[at - 1] THEN hw[regmap[at - 1][v]]
               ELSE frame[Slot(at, v)]

\* Every operation reads what the source program reads: the registers that
\* associate_register gave it (r_arg, reg-allocator.h:274-286) hold the values
\* of its operands, whatever was moved to make room for others.
ReadsRight ==
  run = "running" /\ k = Len(moves[at]) + 1
    /\ prog[at].code \in {"op", "branch", "bms", "ret"} =>
      \A v \in prog[at].use : ref[v] # Undefined => ref[v] = hw[regmap[at][v]]

\* A called function gets the arguments that the PUTARGs name, although putting
\* one in its register could have destroyed another ("PUTARG have to take care of
\* the register allocation by itself", reg-allocator.h:315).
ArgumentsPassed ==
  run = "calling" =>
    \A n \in Outgoing(at) :
      IF prog[n].use = {} THEN hw[OutReg(at, n)] = Constant(n)
      ELSE \A v \in prog[n].use : ref[v] # Undefined => ref[v] = hw[OutReg(at, n)]

\* The function called is the one whose address CALLR's register holds, wherever
\* it is by then ("code genarator has to take care of the register value
\* itself", reg-allocator.h:257-258; amd64-specific.h:228-231).
CallsRight ==
  run = "calling" =>
    \A v \in prog[at].use : ref[v] # Undefined =>
      ref[v] = IF v \in DOMAIN regmap[at] THEN hw[regmap[at][v]]
               ELSE frame[Slot(at, v)]

\* __push_callee_saved_regs: the callee-saved registers that an operation of
\* the function has as an operand; the others are not saved.
SavedByProlog(i) ==
  {h \in CalleeSaved : \E n \in Function(i) :
     /\ prog[n].code \notin {"retval", "putarg", "prepare", "call"}
     /\ \E v \in Operands(n) : regmap[n][v] = h}

\* A function gives its caller back the callee-saved registers: those its
\* prolog has not saved, it has not touched (common86-specific.h:89-105).
CalleeSavedKept ==
  run = "returned" =>
    \A h \in CalleeSaved \ SavedByProlog(at) : hw[h] = OfCaller(h)
=============================================================================
