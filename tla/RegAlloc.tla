----------------------------- MODULE RegAlloc -----------------------------
(***************************************************************************)
(* The register allocator of MyJIT (jsdos/myjit/reg-allocator.h, rmap.h).  *)
(* It walks the operations once, giving the virtual registers of each a    *)
(* hardware register, and notes in regmap where the values are after each  *)
(* operation.  Where a value has to move, it inserts operations (UREG,     *)
(* LREG, SYNCREG, RENAMEREG).  Two more walks make the two ends of every   *)
(* jump agree about where the values are.                                  *)
(*                                                                         *)
(* What it knows of liveness is a solution of the equations of JitOps.tla: *)
(* that is what FlowAnalysis.tla is proved to return.                      *)
(***************************************************************************)
EXTENDS JitOps

CONSTANTS
  GpRegs,       \* gp_regs, fp_regs: the hardware registers (13 and 10)
  FpRegs,
  CalleeSaved,  \* those of gp_regs with callee_saved set
  RetReg,       \* ret_reg, fpret_reg
  FpRetReg,
  GpArgs,       \* gp_arg_regs, fp_arg_regs, in order
  FpArgs,
  Analysis      \* Analysis[p]: live_in and live_out of the operations of p

\* How a program calls: a PREPARE, its PUTARGs, the CALL, then what reads the
\* result.  Jumps lead to labels of the same function.
Protocol(p) ==
  LET code(i) == p[i].code
      function(i) == {j \in 1 .. i : code(j) = "prolog"}
  IN  \A i \in 1 .. Len(p) :
        /\ p[i].jmp # 0 => /\ code(p[i].jmp) = "label"
                           /\ function(p[i].jmp) = function(i)
        /\ code(i) \in {"prepare", "putarg"} =>
             i < Len(p) /\ code(i + 1) \in {"putarg", "call"}
        /\ code(i) \in {"putarg", "call"} => code(i - 1) \in {"prepare", "putarg"}
        /\ code(i) \in {"retval", "fretval"} => code(i - 1) = "call"

\* The positions of a type before position j, and those of the first n of it.
Before(args, j, type) == {k \in Positions(args, type) : k < j}
Passed(args, type, n) == {j \in Positions(args, type) : Cardinality(Before(args, j, type)) < n}

\* Only the operations whose SPEC has a TREG make a register.  Every jump has a
\* label; a GETARG and what reads a result make one register, of the type of
\* what they fetch, and read none; a PUTARG passes one register of its type, or
\* a constant; no argument that is passed in a register has a place beyond the
\* array of its type.
Typed(p) ==
  \A i \in 1 .. Len(p) :
    /\ p[i].code \in {"prolog", "ret", "jmp", "branch", "bms", "label", "prepare", "putarg", "call"} =>
         p[i].def = {}
    /\ p[i].code \in {"prolog", "label"} => p[i].use = {}
    /\ p[i].code \in {"branch", "bms", "jmp"} => p[i].jmp # 0
    /\ p[i].code = "getarg" =>
         /\ \E v \in VReg : p[i].def = {v} /\ v[1] = FuncOf(p, i).args[p[i].arg + 1]
         /\ p[i].use = {}
    /\ p[i].code = "retval" => /\ \E v \in VReg : p[i].def = {v} /\ v[1] = "INT"
                               /\ p[i].use = {}
    /\ p[i].code = "fretval" => /\ \E v \in VReg : p[i].def = {v} /\ v[1] = "FLOAT"
                                /\ p[i].use = {}
    /\ p[i].code = "putarg" =>
         \E type \in {"INT", "FLOAT"} :
           /\ p[i].args = <<type>>
           /\ \/ p[i].use = {}
              \/ \E v \in VReg : p[i].use = {v} /\ v[1] = type
    /\ p[i].code = "prolog" =>
         /\ \A j \in Passed(p[i].args, "INT", GpArgRegs) : j <= GpArgRegs
         /\ \A j \in Passed(p[i].args, "FLOAT", FpArgRegs) : j <= FpArgRegs

\* The registers there are: those the program names and those of arguments.
Reg == VReg \cup {ArgReg(t, j) : t \in {"INT", "FLOAT"}, j \in 0 .. MaxArgs - 1}

\* What is known of liveness is what FlowAnalysisProofs.tla shows of the sets that
\* the analysis returns: they are sets of registers that solve the equations.
ASSUME AllocAssumption ==
  /\ GpRegs \cap FpRegs = {}
  /\ CalleeSaved \subseteq GpRegs \ {GpArgs[j] : j \in 1 .. GpArgRegs}
  /\ RetReg \in GpRegs \ (CalleeSaved \cup {GpArgs[j] : j \in 1 .. GpArgRegs})
  /\ FpRetReg \in FpRegs
  /\ GpArgs \in Seq(GpRegs) /\ Len(GpArgs) = GpArgRegs
  /\ FpArgs \in Seq(FpRegs) /\ Len(FpArgs) = FpArgRegs
  /\ \A j, k \in 1 .. GpArgRegs : GpArgs[j] = GpArgs[k] => j = k
  /\ \A j, k \in 1 .. FpArgRegs : FpArgs[j] = FpArgs[k] => j = k
  /\ VReg \subseteq {"INT", "FLOAT"} \X {"REG"} \X Nat
  /\ IsFiniteSet(VReg)
  /\ \A p \in Programs :
       /\ Solves(p, Analysis[p].in, Analysis[p].out)
       /\ \A i \in 1 .. Len(p) : Analysis[p].in[i] \subseteq Reg /\ Analysis[p].out[i] \subseteq Reg
       /\ Protocol(p) /\ Typed(p)

VARIABLES
  prog,       \* the operations given to jit_assign_regs
  live_in,    \* live_in[i], live_out[i]: what the analysis found for them
  live_out,
  regmap,     \* regmap[i]: op->regmap, for the operations assigned so far
  moves,      \* moves[i]: what is inserted before operation i, in order
  todo,       \* operands of the last of them that still need a register
  eliminated, \* the GETARGs that assign_getarg has turned into a NOP
  inverted,   \* the branches that branch_adjustment has inverted
  edge,       \* edge[i]: what is inserted before the JMP at, or made of, i
  phase       \* the walk of jit_assign_regs

input == <<prog, live_in, live_out>>
alloc == <<input, regmap, moves, todo, eliminated, inverted, edge, phase>>

Ops == 1 .. Len(prog)
Last == Len(regmap)

HwReg == GpRegs \cup FpRegs
RegsOf(type) == IF type = "FLOAT" THEN FpRegs ELSE GpRegs
TypeOf(v) == v[1]

-----------------------------------------------------------------------------
(* rmap_t: which hardware register each virtual register is in, a function *)
(* on some of the virtual registers.                                       *)

Only(map, S) == [v \in DOMAIN map \cap S |-> map[v]]
Assoc(map, v, h) == [w \in DOMAIN map \cup {v} |-> IF w = v THEN h ELSE map[w]]
Unassoc(map, S) == Only(map, DOMAIN map \ S)
Empty == [v \in {} |-> RetReg]

\* rmap_is_associated, for a set of hardware registers.
In(map, H) == {v \in DOMAIN map : map[v] \in H}

(***************************************************************************)
(* Inserted operations.  A batch of them saves registers to the stack      *)
(* frame (UREG, SYNCREG), then renames one, then loads others (LREG).      *)
(***************************************************************************)
Batch(save, rename, load) == [save |-> save, rename |-> rename, load |-> load]

-----------------------------------------------------------------------------
\* The operands that need a register: def comes first (TREG is operand 0).
Operands(i) == prog[i].def \cup prog[i].use
NextOperand ==
  CHOOSE v \in todo : v \in prog[Last].def \/ todo \cap prog[Last].def = {}

\* rmap_spill_candidate.  The scores are a heuristic.  What they ensure is
\* that a register in use is taken only when none is free (-100000), and a
\* register of this very operation never (INT_MIN).
\* BOUND: no register is used again 10000 operations later (the score of one
\* in use would then be the higher).
Candidates(map, type, i) ==
  LET free == {h \in RegsOf(type) : In(map, {h}) = {}}
  IN  IF free # {} THEN free
      ELSE {h \in RegsOf(type) : In(map, {h}) \cap Operands(i) = {}}

\* assign_regs_for_args, for COMMON86: the i-th argument register for the
\* i-th argument of all, whatever their types.
\* BOUND: the index stays inside the array (the code does not check it: Typed).
ArgMap(args) ==
  LET gp == {ArgReg("INT", j - 1) : j \in Passed(args, "INT", GpArgRegs)}
      fp == {ArgReg("FLOAT", j - 1) : j \in Passed(args, "FLOAT", FpArgRegs)}
  IN  [v \in gp \cup fp |-> IF v \in gp THEN GpArgs[v[3] + 1] ELSE FpArgs[v[3] + 1]]

\* The PUTARGs between a PREPARE and its CALL, and how many pass a type.
CallOf(i) == CHOOSE c \in i .. Len(prog) :
               /\ prog[c].code = "call"
               /\ \A k \in i .. c - 1 : prog[k].code # "call"
Putargs(i, type) == {k \in i .. CallOf(i) : prog[k].code = "putarg" /\ prog[k].args = <<type>>}
FirstArgs(args, n) == {args[k] : k \in {j \in 1 .. Len(args) : j <= n}}

-----------------------------------------------------------------------------
Init ==
  /\ prog \in Programs
  /\ live_in = Analysis[prog].in
  /\ live_out = Analysis[prog].out
  /\ regmap = <<>>
  /\ moves = <<>>
  /\ todo = {}
  /\ eliminated = {}
  /\ inverted = {}
  /\ edge = [i \in {} |-> Batch(Empty, {}, Empty)]
  /\ phase = "assign"

(***************************************************************************)
(* assign_regs: the operation after the last one starts from the map of    *)
(* the one before, changed by the special cases.                           *)
(***************************************************************************)
Start(i, codes) ==
  /\ phase = "assign"
  /\ todo = {}
  /\ i = Last + 1 /\ i \in Ops
  /\ prog[i].code \in codes

\* Mutant: what is inserted is noted for the operation after the last noted one.
EnterUnaligned(map, inserted, operands) ==
  /\ regmap' = Append(regmap, map)
  /\ moves' = IF inserted = <<>> THEN moves ELSE Append(moves, inserted)
  /\ todo' = operands
  /\ UNCHANGED <<input, inverted, edge, phase>>

Enter(map, inserted, operands) ==
  /\ regmap' = Append(regmap, map)
  /\ moves' = Append(moves, inserted)
  /\ todo' = operands
  /\ UNCHANGED <<input, inverted, edge, phase>>

Prolog(i) ==
  /\ Start(i, {"prolog"})
  /\ Enter(ArgMap(prog[i].args), <<>>, {})
  /\ UNCHANGED eliminated

\* Most operations: every register they name gets a hardware register.
Plain(i) ==
  /\ Start(i, {"op", "ret", "branch", "bms", "jmp", "label", "fretval"})
  /\ Enter(regmap[i - 1], <<>>, Operands(i))
  /\ UNCHANGED eliminated

\* PUTARG and FPUTARG: left to the code generator.
Putarg(i) ==
  /\ Start(i, {"putarg"})
  /\ Enter(regmap[i - 1], <<>>, {})
  /\ UNCHANGED eliminated

\* assign_getarg: the last GETARG of an argument takes its register over.
\* BOUND: arguments have the size of a register.
Getarg(i) ==
  LET map == regmap[i - 1]
      arg == CHOOSE v \in Gen(prog, i) : TRUE
      def == CHOOSE v \in prog[i].def : TRUE
  IN  /\ Start(i, {"getarg"})
      /\ IF arg \in DOMAIN map \ live_out[i]
         THEN /\ Enter(Assoc(Unassoc(map, {arg}), def, map[arg]), <<>>, {})
              /\ eliminated' = eliminated \cup {i}
         ELSE /\ Enter(map, <<>>, Operands(i))
              /\ UNCHANGED eliminated

\* Mutant: the registers of the arguments are not saved and given up.
PrepareKeepingArgs(i, renamed, pairs, saved) ==
  Enter(renamed, <<Batch(Only(renamed, saved \cup In(renamed, {FpRetReg})), pairs, Empty)>>, {})

\* prepare_registers_for_call: what is alive in ret_reg moves to a free
\* callee-saved register or is saved; fpret_reg is saved; the registers that
\* the arguments of the call will be put into are saved and given up.
PrepareWith(i, renamed, pairs, saved) ==
  LET args == In(renamed, FirstArgs(GpArgs, Cardinality(Putargs(i, "INT")))
                            \cup FirstArgs(FpArgs, Cardinality(Putargs(i, "FLOAT"))))
      save == Only(renamed, saved \cup In(renamed, {FpRetReg}) \cup args)
  IN  Enter(Unassoc(renamed, args), <<Batch(save, pairs, Empty)>>, {})

Prepare(i) ==
  LET map == regmap[i - 1]
      alive == In(map, {RetReg}) \cap (live_in[i] \cup live_out[i])
      free == {h \in CalleeSaved : In(map, {h}) = {}}
  IN  /\ Start(i, {"prepare"})
      /\ \/ /\ alive # {}
            /\ \E h \in free : PrepareWith(i, [v \in DOMAIN map |->
                 IF v \in alive THEN h ELSE map[v]], {<<h, RetReg>>}, {})
         \/ /\ alive = {} \/ free = {}
            /\ PrepareWith(i, map, {}, alive)
      /\ UNCHANGED eliminated

\* Mutant: the register of the result is not given up.
CallKeepingResult(i) ==
  /\ Start(i, {"call"})
  /\ Enter(Unassoc(regmap[i - 1], In(regmap[i - 1], {FpRetReg})), <<>>, {})
  /\ UNCHANGED eliminated

\* assign_call: the registers of the results are given up.
Call(i) ==
  /\ Start(i, {"call"})
  /\ Enter(Unassoc(regmap[i - 1], In(regmap[i - 1], {RetReg, FpRetReg})), <<>>, {})
  /\ UNCHANGED eliminated

\* assign_ret_reg: the result is where it is.
Retval(i) ==
  /\ Start(i, {"retval"})
  /\ Enter(Assoc(regmap[i - 1], CHOOSE v \in prog[i].def : TRUE, RetReg), <<>>, {})
  /\ UNCHANGED eliminated

\* associate_register, for one that has a hardware register already ...
KeepRegister ==
  /\ todo # {}
  /\ NextOperand \in DOMAIN regmap[Last]
  /\ todo' = todo \ {NextOperand}
  /\ UNCHANGED <<input, regmap, moves, eliminated, inverted, edge, phase>>

\* Mutants: what is alive after the operation is loaded, not what it reads; a
\* victim is saved if the new register is alive; no register is taken that
\* another has.
TakeRegisterLoadsLater(h) ==
  LET v == NextOperand
      map == regmap[Last]
      victim == In(map, {h})
  IN  /\ todo # {}
      /\ v \notin DOMAIN map
      /\ h \in Candidates(map, TypeOf(v), Last)
      /\ regmap' = [regmap EXCEPT ![Last] = Assoc(Unassoc(map, victim), v, h)]
      /\ moves' = [moves EXCEPT ![Last] = Append(@,
           Batch(Only(map, victim \cap live_in[Last]), {},
                 Only([w \in {v} |-> h], live_out[Last])))]
      /\ todo' = todo \ {v}
      /\ UNCHANGED <<input, eliminated, inverted, edge, phase>>

TakeUnsavedRegister(h) ==
  LET v == NextOperand
      map == regmap[Last]
      victim == In(map, {h})
  IN  /\ todo # {}
      /\ v \notin DOMAIN map
      /\ h \in Candidates(map, TypeOf(v), Last)
      /\ regmap' = [regmap EXCEPT ![Last] = Assoc(Unassoc(map, victim), v, h)]
      /\ moves' = [moves EXCEPT ![Last] = Append(@,
           Batch(Only(map, IF v \in live_in[Last] THEN victim ELSE {}), {},
                 Only([w \in {v} |-> h], live_in[Last])))]
      /\ todo' = todo \ {v}
      /\ UNCHANGED <<input, eliminated, inverted, edge, phase>>

TakeFreeRegister(h) ==
  LET v == NextOperand
      map == regmap[Last]
  IN  /\ todo # {}
      /\ v \notin DOMAIN map
      /\ h \in RegsOf(TypeOf(v)) /\ In(map, {h}) = {}
      /\ regmap' = [regmap EXCEPT ![Last] = Assoc(map, v, h)]
      /\ moves' = [moves EXCEPT ![Last] = Append(@,
           Batch(Empty, {}, Only([w \in {v} |-> h], live_in[Last])))]
      /\ todo' = todo \ {v}
      /\ UNCHANGED <<input, eliminated, inverted, edge, phase>>

\* ... and for one that has none: make_free_reg, whose victim is saved if it
\* is alive, and a load if the operation reads the register.
TakeRegister(h) ==
  LET v == NextOperand
      map == regmap[Last]
      victim == In(map, {h})
  IN  /\ todo # {}
      /\ v \notin DOMAIN map
      /\ h \in Candidates(map, TypeOf(v), Last)
      /\ regmap' = [regmap EXCEPT ![Last] = Assoc(Unassoc(map, victim), v, h)]
      /\ moves' = [moves EXCEPT ![Last] = Append(@,
           Batch(Only(map, victim \cap live_in[Last]), {},
                 Only([w \in {v} |-> h], live_in[Last])))]
      /\ todo' = todo \ {v}
      /\ UNCHANGED <<input, eliminated, inverted, edge, phase>>

AssignDone ==
  /\ phase = "assign"
  /\ todo = {}
  /\ Last = Len(prog)
  /\ phase' = "branches"
  /\ UNCHANGED <<input, regmap, moves, todo, eliminated, inverted, edge>>

-----------------------------------------------------------------------------
Target(i) == prog[i].jmp

\* Mutant: what only the target has in a register does not count.
RmapEqualOneWay(i) ==
  LET cur == regmap[i]
      tgt == regmap[Target(i)]
  IN  \A v \in DOMAIN cur \cap DOMAIN tgt \cap (live_in[Target(i)] \cup live_out[i]) :
        cur[v] = tgt[v]

\* rmap_equal: the maps agree about what is alive at one end of the jump.
RmapEqual(i) ==
  LET cur == regmap[i]
      tgt == regmap[Target(i)]
  IN  \A v \in (DOMAIN cur \cup DOMAIN tgt) \cap (live_in[Target(i)] \cup live_out[i]) :
        /\ v \in DOMAIN cur \cap DOMAIN tgt
        /\ cur[v] = tgt[v]

\* branch_adjustment: BEQ .. BLE become the inverse branch around a JMP.
AdjustBranches ==
  /\ phase = "branches"
  /\ inverted' = {i \in Ops : prog[i].code = "branch" /\ ~RmapEqual(i)}
  /\ phase' = "jumps"
  /\ UNCHANGED <<input, regmap, moves, todo, eliminated, edge>>

\* rmap_sync: what is elsewhere in map than in other.
Differing(map, other, S) ==
  Only(map, {v \in S : v \notin DOMAIN other \/ map[v] # other[v]})

\* Mutant: the loads of an edge do not ask what is alive.
AdjustJumpsLoadAll ==
  /\ phase = "jumps"
  /\ edge' = [i \in {k \in Ops : prog[k].code = "jmp"} \cup inverted |->
       Batch(Differing(regmap[i], regmap[Target(i)], DOMAIN regmap[i] \cap live_in[Target(i)]),
             {},
             Differing(regmap[Target(i)], regmap[i], DOMAIN regmap[Target(i)]))]
  /\ phase' = "done"
  /\ UNCHANGED <<input, regmap, moves, todo, eliminated, inverted>>

\* jump_adjustment: unload what the destination has elsewhere, then load.
AdjustJumps ==
  /\ phase = "jumps"
  /\ edge' = [i \in {k \in Ops : prog[k].code = "jmp"} \cup inverted |->
       Batch(Differing(regmap[i], regmap[Target(i)], DOMAIN regmap[i] \cap live_in[Target(i)]),
             {},
             Differing(regmap[Target(i)], regmap[i], DOMAIN regmap[Target(i)] \cap live_out[i]))]
  /\ phase' = "done"
  /\ UNCHANGED <<input, regmap, moves, todo, eliminated, inverted>>

Next ==
  \/ \E i \in Ops : \/ Prolog(i) \/ Plain(i) \/ Putarg(i) \/ Getarg(i)
                    \/ Prepare(i) \/ Call(i) \/ Retval(i)
  \/ KeepRegister
  \/ \E h \in HwReg : TakeRegister(h)
  \/ AssignDone
  \/ AdjustBranches
  \/ AdjustJumps

Spec == Init /\ [][Next]_alloc /\ WF_alloc(Next)

-----------------------------------------------------------------------------
(* Properties.                                                             *)

IsRegMap(map) == DOMAIN map \subseteq Reg /\ \A v \in DOMAIN map : map[v] \in HwReg

\* The types of the variables (rmap_t and jit_op, jitlib-core.h:152-178).
TypeOK ==
  /\ \A i \in 1 .. Last : IsRegMap(regmap[i])
  /\ Len(moves) = Last
  /\ \A i \in 1 .. Last : \A k \in 1 .. Len(moves[i]) :
       IsRegMap(moves[i][k].save) /\ IsRegMap(moves[i][k].load)
  /\ todo \subseteq VReg
  /\ eliminated \subseteq Ops
  /\ inverted \subseteq Ops
  /\ \A i \in DOMAIN edge : IsRegMap(edge[i].save) /\ IsRegMap(edge[i].load)
  /\ phase \in {"assign", "branches", "jumps", "done"}

\* No two virtual registers are ever in the same hardware register, dead ones
\* included, and each is in one of its own kind (rmap_is_associated returns
\* the first it finds: rmap.h:49-62).
OneEach ==
  \A i \in 1 .. Last : LET map == regmap[i] IN
    /\ \A v, w \in DOMAIN map : map[v] = map[w] => v = w
    /\ \A v \in DOMAIN map : map[v] \in RegsOf(TypeOf(v))

\* What has become of the place old[v] of a value, when an operation comes to map
\* and to these batches: it is the same, ...
Kept(old, map, v) == v \in DOMAIN map /\ map[v] = old[v]
\* ... the value has been saved to the stack frame, from the right register, ...
Stored(old, batches, v) ==
  \E n \in 1 .. Len(batches) : v \in DOMAIN batches[n].save /\ batches[n].save[v] = old[v]
\* ... or it has been moved to another register.
Moved(old, map, batches, v) ==
  /\ v \in DOMAIN map
  /\ \E n \in 1 .. Len(batches) : <<map[v], old[v]>> \in batches[n].rename
\* p is the PREPARE of a call whose last operation so far is i.
Preparing(p, i) ==
  prog[p].code = "prepare" /\ \A m \in p + 1 .. i : prog[m].code = "putarg"

\* No value that is needed later is dropped: when its register is taken for another
\* value, for an argument, for a result or because it is a GETARG's, it has been
\* saved or moved; or, at a CALL, which does not ask what is alive, it was saved
\* when the call was prepared.
NothingLost ==
  \A i \in 2 .. Last : prog[i].code # "prolog" =>
    \A v \in DOMAIN regmap[i - 1] \cap live_in[i] \cap live_out[i] :
      \/ Kept(regmap[i - 1], regmap[i], v)
      \/ Stored(regmap[i - 1], moves[i], v)
      \/ Moved(regmap[i - 1], regmap[i], moves[i], v)
      \/ /\ prog[i].code = "call"
         /\ \E p \in 2 .. i - 1 : Preparing(p, i - 1) /\ Stored(regmap[p - 1], moves[p], v)

\* The two ends of every jump agree about where the values are, unless they
\* are moved on the way ("There must be same register mappings at both ends of
\* the conditional jump", reg-allocator.h:461-463).
JumpsAgree ==
  phase = "done" => \A i \in Ops :
    prog[i].code \in {"branch", "bms", "jmp"} /\ i \notin DOMAIN edge =>
      RmapEqual(i)

\* No argument is loaded back into its register: emit_lreg asserts that it is
\* not (common86-specific.h:186).
NoArgLoads ==
  phase = "done" =>
    /\ \A i \in Ops : \A k \in 1 .. Len(moves[i]) : DOMAIN moves[i][k].load \subseteq VReg
    /\ \A i \in DOMAIN edge : DOMAIN edge[i].load \subseteq VReg

\* Every operation finds its registers (rmap_spill_candidate returns NULL
\* when each is one of the operation's own: rmap.h:209-245).
Allocates == <>(phase = "done")
=============================================================================
