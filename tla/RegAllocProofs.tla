-------------------------- MODULE RegAllocProofs --------------------------
(***************************************************************************)
(* Proofs about RegAlloc.tla, for all programs and all machines of         *)
(* AllocAssumption: the maps have their types, and no hardware register    *)
(* is ever given to two virtual registers.                                 *)
(*                                                                         *)
(* The second is not inductive as it stands: a RETVAL notes its register   *)
(* in ret_reg without asking what is there.  The invariant adds that a     *)
(* CALL leaves ret_reg to nobody (ResultsFree), which lasts because the    *)
(* operands of a CALL are given no register (Calls), and what the special  *)
(* cases rely on: the first operation is a PROLOG, operands have types.    *)
(***************************************************************************)
EXTENDS RegAlloc, Numbers

RegMaps == UNION {[D -> HwReg] : D \in SUBSET Reg}
Batches == [save : RegMaps, rename : SUBSET (HwReg \X HwReg), load : RegMaps]

\* A map that gives every register a place of its own kind, and no place twice.
One(map) ==
  /\ \A v, w \in DOMAIN map : map[v] = map[w] => v = w
  /\ \A v \in DOMAIN map : map[v] \in RegsOf(TypeOf(v))
GoodMap(map) == map \in RegMaps /\ One(map)

-----------------------------------------------------------------------------
(* Maps                                                                    *)

LEMMA IsMap ==
  ASSUME NEW map
  PROVE  map \in RegMaps <=> /\ DOMAIN map \subseteq Reg
                             /\ map \in [DOMAIN map -> HwReg]
BY DEF RegMaps

LEMMA OnlyType ==
  ASSUME NEW map \in RegMaps, NEW S
  PROVE  /\ Only(map, S) \in RegMaps
         /\ DOMAIN Only(map, S) = DOMAIN map \cap S
         /\ \A v \in DOMAIN map \cap S : Only(map, S)[v] = map[v]
<1>1. DOMAIN map \subseteq Reg /\ map \in [DOMAIN map -> HwReg]
  BY IsMap
<1>2. /\ DOMAIN Only(map, S) = DOMAIN map \cap S
      /\ \A v \in DOMAIN map \cap S : Only(map, S)[v] = map[v]
  BY DEF Only
<1>3. Only(map, S) \in [DOMAIN map \cap S -> HwReg]
  BY <1>1 DEF Only
<1>4. QED
  BY <1>1, <1>2, <1>3, IsMap

LEMMA OnlyGood ==
  ASSUME NEW map, GoodMap(map), NEW S
  PROVE  GoodMap(Only(map, S))
<1> DEFINE new == Only(map, S)
<1>1. map \in RegMaps /\ One(map)
  BY DEF GoodMap
<1>2. /\ new \in RegMaps
      /\ DOMAIN new \subseteq DOMAIN map
      /\ \A v \in DOMAIN new : new[v] = map[v]
  BY <1>1, OnlyType
<1> HIDE DEF new
<1>3. One(new)
  BY <1>1, <1>2, Zenon DEF One
<1>4. QED
  BY <1>2, <1>3 DEF GoodMap, new

LEMMA UnassocGood ==
  ASSUME NEW map, GoodMap(map), NEW S
  PROVE  /\ GoodMap(Unassoc(map, S))
         /\ DOMAIN Unassoc(map, S) = DOMAIN map \ S
         /\ \A v \in DOMAIN map \ S : Unassoc(map, S)[v] = map[v]
BY OnlyGood, OnlyType DEF Unassoc, GoodMap

LEMMA AssocGood ==
  ASSUME NEW map, GoodMap(map), NEW v \in Reg, NEW h \in RegsOf(TypeOf(v)),
         \A w \in DOMAIN map : map[w] = h => w = v
  PROVE  GoodMap(Assoc(map, v, h))
<1>1. DOMAIN map \subseteq Reg /\ map \in [DOMAIN map -> HwReg]
  BY IsMap DEF GoodMap
<1>2. h \in HwReg
  BY DEF RegsOf, HwReg
<1> DEFINE new == Assoc(map, v, h)
<1>3. /\ DOMAIN new = DOMAIN map \cup {v}
      /\ new[v] = h
      /\ \A w \in DOMAIN map \ {v} : new[w] = map[w]
  BY DEF Assoc
<1>4. new \in [DOMAIN map \cup {v} -> HwReg]
  BY <1>1, <1>2 DEF Assoc
<1>5. new \in RegMaps
  BY <1>1, <1>3, <1>4, IsMap
<1>6. One(new)
  BY <1>3 DEF GoodMap, One
<1>7. QED
  BY <1>5, <1>6 DEF GoodMap

LEMMA EmptyMap == Empty \in RegMaps
<1>1. DOMAIN Empty = {} /\ Empty \in [{} -> HwReg]
  BY DEF Empty
<1>2. QED
  BY <1>1, IsMap

\* What a place holds.
LEMMA Held ==
  ASSUME NEW map, NEW H
  PROVE  /\ In(map, H) \subseteq DOMAIN map
         /\ \A v \in DOMAIN map : map[v] \in H => v \in In(map, H)
         /\ \A v \in In(map, H) : map[v] \in H
BY DEF In

-----------------------------------------------------------------------------
(* Programs                                                                *)

ProgOK ==
  /\ WellFormed(prog) /\ Typed(prog) /\ Protocol(prog)
  /\ Len(prog) \in Nat
  /\ prog[1].code = "prolog"

LEMMA ProgramsOK ==
  ASSUME prog \in Programs
  PROVE  ProgOK
<1>1. WellFormed(prog) /\ Typed(prog) /\ Protocol(prog)
  BY OpsAssumption, AllocAssumption, Zenon
<1>2. prog \in Seq(Operation) /\ prog[1].code = "prolog"
  BY <1>1 DEF WellFormed
<1>3. QED
  BY <1>1, <1>2 DEF ProgOK

LEMMA OperandsType ==
  ASSUME ProgOK, NEW i \in Ops
  PROVE  /\ prog[i] \in Operation
         /\ Operands(i) \subseteq VReg
<1>1. prog[i] \in Operation
  BY DEF ProgOK, WellFormed, Ops
<1>2. QED
  BY <1>1 DEF Operation, Operands

LEMMA VRegTypes ==
  /\ VReg \subseteq Reg
  /\ \A v \in VReg : v[1] \in {"INT", "FLOAT"} /\ TypeOf(v) = v[1]
BY AllocAssumption DEF Reg, TypeOf

\* The hardware registers of the two kinds, and the special ones.
LEMMA Hardware ==
  /\ GpRegs \cap FpRegs = {} /\ HwReg = GpRegs \cup FpRegs
  /\ CalleeSaved \subseteq GpRegs /\ RetReg \in GpRegs \ CalleeSaved
  /\ FpRetReg \in FpRegs
  /\ RegsOf("INT") = GpRegs /\ RegsOf("FLOAT") = FpRegs
BY AllocAssumption DEF HwReg, RegsOf

-----------------------------------------------------------------------------
(* The arguments of a function                                             *)

LEMMA ArgRegFields ==
  ASSUME NEW type, NEW j \in Nat
  PROVE  /\ ArgReg(type, j)[1] = type
         /\ ArgReg(type, j)[3] = j
         /\ TypeOf(ArgReg(type, j)) = type
BY DEF ArgReg, TypeOf

LEMMA ArgMapGood ==
  ASSUME ProgOK, NEW i \in Ops, prog[i].code = "prolog"
  PROVE  GoodMap(ArgMap(prog[i].args))
<1> DEFINE args == prog[i].args
           gpJ == Passed(args, "INT", GpArgRegs)
           fpJ == Passed(args, "FLOAT", FpArgRegs)
           gp == {ArgReg("INT", j - 1) : j \in gpJ}
           fp == {ArgReg("FLOAT", j - 1) : j \in fpJ}
           map == ArgMap(args)
<1>1. args \in Seq({"INT", "FLOAT"}) /\ Len(args) <= MaxArgs
  BY OperandsType DEF Operation, ProgOK, WellFormed, Ops
<1>2. /\ \A j \in gpJ : j \in 1 .. Len(args) /\ j <= GpArgRegs
      /\ \A j \in fpJ : j \in 1 .. Len(args) /\ j <= FpArgRegs
  BY DEF ProgOK, Typed, Ops, Passed, Positions
<1>3. map = [v \in gp \cup fp |-> IF v \in gp THEN GpArgs[v[3] + 1] ELSE FpArgs[v[3] + 1]]
  BY DEF ArgMap
<1>4. /\ \A j \in gpJ : /\ j - 1 \in 0 .. MaxArgs - 1
                       /\ j \in 1 .. GpArgRegs
      /\ \A j \in fpJ : /\ j - 1 \in 0 .. MaxArgs - 1
                       /\ j \in 1 .. FpArgRegs
  BY <1>1, <1>2, OpsAssumption
<1>5. gp \cup fp \subseteq Reg
  BY <1>4 DEF Reg
<1>6. gp \cap fp = {}
  BY <1>4, ArgRegFields
<1>7. \A v \in gp : \E j \in gpJ : v = ArgReg("INT", j - 1) /\ map[v] = GpArgs[j]
  <2> SUFFICES ASSUME NEW j \in gpJ
               PROVE  map[ArgReg("INT", j - 1)] = GpArgs[j]
    OBVIOUS
  <2>1. ArgReg("INT", j - 1)[3] + 1 = j
    BY <1>4, ArgRegFields
  <2>2. map[ArgReg("INT", j - 1)] = GpArgs[ArgReg("INT", j - 1)[3] + 1]
    BY <1>3
  <2>3. QED
    BY <2>1, <2>2
<1>8. \A v \in fp : \E j \in fpJ : v = ArgReg("FLOAT", j - 1) /\ map[v] = FpArgs[j]
  <2> SUFFICES ASSUME NEW j \in fpJ
               PROVE  map[ArgReg("FLOAT", j - 1)] = FpArgs[j]
    OBVIOUS
  <2>1. ArgReg("FLOAT", j - 1)[3] + 1 = j
    BY <1>4, ArgRegFields
  <2>2. map[ArgReg("FLOAT", j - 1)] = FpArgs[ArgReg("FLOAT", j - 1)[3] + 1]
    BY <1>3, <1>6
  <2>3. QED
    BY <2>1, <2>2
<1>9. /\ \A j \in gpJ : GpArgs[j] \in GpRegs
      /\ \A j \in fpJ : FpArgs[j] \in FpRegs
      /\ \A j, k \in gpJ : GpArgs[j] = GpArgs[k] => j = k
      /\ \A j, k \in fpJ : FpArgs[j] = FpArgs[k] => j = k
  BY <1>4, AllocAssumption
<1>10. DOMAIN map = gp \cup fp /\ map = [v \in gp \cup fp |-> map[v]]
  BY <1>3
<1>11. /\ \A v \in gp : TypeOf(v) = "INT"
       /\ \A v \in fp : TypeOf(v) = "FLOAT"
  BY <1>4, ArgRegFields
<1> HIDE DEF map, gp, fp, gpJ, fpJ
<1>12. \A v \in DOMAIN map : map[v] \in RegsOf(TypeOf(v)) /\ map[v] \in HwReg
  BY <1>7, <1>8, <1>9, <1>10, <1>11, Hardware
<1>13. \A v, w \in DOMAIN map : map[v] = map[w] => v = w
  BY <1>7, <1>8, <1>9, <1>10, Hardware
<1>14. map \in RegMaps
  BY <1>5, <1>10, <1>12, IsMap
<1>15. QED
  BY <1>12, <1>13, <1>14 DEF GoodMap, One, map

-----------------------------------------------------------------------------
(* The invariant                                                           *)

Shape ==
  /\ ProgOK
  /\ regmap \in Seq(RegMaps)
  /\ Last <= Len(prog)
  /\ moves \in Seq(Seq(Batches))
  /\ Len(moves) = Last
  /\ todo \subseteq VReg
  /\ eliminated \subseteq Ops
  /\ inverted \subseteq {i \in Ops : prog[i].code = "branch"}
  /\ \A i \in DOMAIN edge : edge[i] \in Batches
  /\ phase \in {"assign", "branches", "jumps", "done"}

\* Operands wait for a register only while the walk is at a last operation that
\* is not a CALL, and the walks follow one another.
Calls ==
  /\ todo # {} => phase = "assign" /\ Last > 0 /\ prog[Last].code # "call"
  /\ phase # "assign" => Last = Len(prog)

AllGood == \A i \in 1 .. Last : GoodMap(regmap[i])
\* What a CALL leaves in the register of results.
ResultsFree == \A i \in 1 .. Last : prog[i].code = "call" => In(regmap[i], {RetReg}) = {}

IInv == Shape /\ Calls /\ AllGood /\ ResultsFree

LEMMA InitIInv == Init => IInv
<1> SUFFICES ASSUME Init PROVE IInv
  OBVIOUS
<1>1. ProgOK
  BY ProgramsOK DEF Init
<1>2. regmap = <<>> /\ moves = <<>> /\ todo = {} /\ eliminated = {} /\ inverted = {}
        /\ DOMAIN edge = {} /\ phase = "assign"
  BY DEF Init
<1>3. Last = 0 /\ Len(prog) \in Nat
  BY <1>1, <1>2 DEF Last, ProgOK
<1>4. Shape
  BY <1>1, <1>2, <1>3 DEF Shape
<1>5. Calls /\ AllGood /\ ResultsFree
  BY <1>2, <1>3 DEF Calls, AllGood, ResultsFree
<1>6. QED
  BY <1>4, <1>5 DEF IInv

\* What the walk is at.
LEMMA AtOperation ==
  ASSUME IInv, NEW i, NEW codes, Start(i, codes), "prolog" \notin codes
  PROVE  /\ i - 1 \in 1 .. Last /\ i = Last + 1 /\ i \in Ops
         /\ GoodMap(regmap[i - 1])
<1>1. Last \in Nat /\ i = Last + 1 /\ i \in Ops /\ prog[i].code \in codes
  BY DEF IInv, Shape, Start, Last
<1>2. i # 1
  BY <1>1 DEF IInv, Shape, ProgOK
<1>3. i - 1 \in 1 .. Last
  BY <1>1, <1>2
<1>4. QED
  BY <1>1, <1>3 DEF IInv, AllGood

LEMMA BatchType ==
  ASSUME NEW s \in RegMaps, NEW r \in SUBSET (HwReg \X HwReg), NEW l \in RegMaps
  PROVE  /\ Batch(s, r, l) \in Batches
         /\ <<Batch(s, r, l)>> \in Seq(Batches)
BY DEF Batch, Batches

\* An operation is entered with its map.
LEMMA EnterKeeps ==
  ASSUME IInv, NEW i, NEW codes, Start(i, codes),
         NEW map, NEW inserted, NEW operands,
         GoodMap(map), inserted \in Seq(Batches), operands \subseteq VReg,
         prog[i].code = "call" => operands = {} /\ In(map, {RetReg}) = {},
         Enter(map, inserted, operands), eliminated' \subseteq Ops
  PROVE  IInv'
<1> DEFINE old == Last
<1>1. /\ old \in Nat /\ i = old + 1 /\ i \in Ops /\ phase = "assign"
      /\ Len(prog) \in Nat
  BY DEF IInv, Shape, Start, Last, ProgOK
<1>2. /\ regmap' = Append(regmap, map) /\ moves' = Append(moves, inserted)
      /\ todo' = operands /\ prog' = prog /\ inverted' = inverted
      /\ edge' = edge /\ phase' = phase
  BY DEF Enter, input
<1>3. ProgOK' /\ Ops' = Ops
  BY <1>2 DEF IInv, Shape, ProgOK, Ops
<1>4. /\ regmap' \in Seq(RegMaps) /\ Len(regmap') = i
      /\ regmap'[i] = map
      /\ \A j \in 1 .. i - 1 : j \in 1 .. old /\ regmap'[j] = regmap[j]
  BY <1>1, <1>2 DEF IInv, Shape, GoodMap, Last
<1>5. moves' \in Seq(Seq(Batches)) /\ Len(moves') = i
  BY <1>1, <1>2 DEF IInv, Shape
<1>6. Last' = i /\ i > 0
  BY <1>1, <1>4 DEF Last
<1>7. Shape'
  <2>1. i <= Len(prog)
    BY <1>1 DEF Ops
  <2>2. QED
    BY <1>2, <1>3, <1>4, <1>5, <1>6, <2>1 DEF IInv, Shape
<1>8. Calls'
  BY <1>1, <1>2, <1>6 DEF Calls
<1>9. \A j \in 1 .. i : j = i \/ j \in 1 .. i - 1
  BY <1>1
<1>10. AllGood' /\ ResultsFree'
  <2> SUFFICES ASSUME NEW j \in 1 .. i
               PROVE  /\ GoodMap(regmap'[j])
                      /\ prog[j].code = "call" => In(regmap'[j], {RetReg}) = {}
    BY <1>2, <1>6 DEF AllGood, ResultsFree
  <2>1. CASE j = i
    BY <1>4, <2>1
  <2>2. CASE j \in 1 .. i - 1
    BY <1>4, <2>2 DEF IInv, AllGood, ResultsFree
  <2>3. QED
    BY <1>9, <2>1, <2>2
<1>11. QED
  BY <1>7, <1>8, <1>10 DEF IInv

\* The same for one whose operands get no register.
LEMMA EnterNone ==
  ASSUME IInv, NEW i, NEW codes, Start(i, codes),
         NEW map, NEW inserted,
         GoodMap(map), inserted \in Seq(Batches),
         prog[i].code = "call" => In(map, {RetReg}) = {},
         Enter(map, inserted, {}), eliminated' \subseteq Ops
  PROVE  IInv'
<1> DEFINE none == {}
<1>1. Enter(map, inserted, none) /\ none \subseteq VReg /\ none = {}
  OBVIOUS
<1> HIDE DEF none
<1>2. QED
  BY <1>1, EnterKeeps, Zenon

-----------------------------------------------------------------------------
(* The actions that enter an operation                                     *)

LEMMA NoBatch == <<>> \in Seq(Batches)
OBVIOUS

LEMMA PrologKeeps ==
  ASSUME IInv, NEW i \in Ops, Prolog(i)
  PROVE  IInv'
<1>1. Start(i, {"prolog"}) /\ prog[i].code = "prolog"
  BY DEF Prolog, Start
<1>2. GoodMap(ArgMap(prog[i].args))
  BY <1>1, ArgMapGood DEF IInv, Shape
<1>3. eliminated' \subseteq Ops
  BY DEF Prolog, IInv, Shape
<1>4. Enter(ArgMap(prog[i].args), <<>>, {})
  BY DEF Prolog
<1>5. {} \subseteq VReg /\ prog[i].code # "call"
  BY <1>1
<1>6. QED
  BY <1>1, <1>2, <1>3, <1>4, <1>5, NoBatch, EnterNone, Zenon

LEMMA PlainKeeps ==
  ASSUME IInv, NEW i \in Ops, Plain(i)
  PROVE  IInv'
<1> DEFINE codes == {"op", "ret", "branch", "bms", "jmp", "label", "fretval"}
<1>1. Start(i, codes) /\ prog[i].code # "call"
  BY DEF Plain, Start
<1>2. GoodMap(regmap[i - 1])
  BY <1>1, AtOperation
<1>3. eliminated' \subseteq Ops /\ Operands(i) \subseteq VReg
  BY OperandsType DEF Plain, IInv, Shape
<1>4. Enter(regmap[i - 1], <<>>, Operands(i))
  BY DEF Plain
<1> HIDE DEF codes
<1>5. QED
  BY <1>1, <1>2, <1>3, <1>4, NoBatch, EnterKeeps, Zenon

LEMMA PutargKeeps ==
  ASSUME IInv, NEW i \in Ops, Putarg(i)
  PROVE  IInv'
<1>1. Start(i, {"putarg"}) /\ prog[i].code # "call"
  BY DEF Putarg, Start
<1>2. GoodMap(regmap[i - 1])
  BY <1>1, AtOperation
<1>3. eliminated' \subseteq Ops
  BY DEF Putarg, IInv, Shape
<1>4. Enter(regmap[i - 1], <<>>, {}) /\ {} \subseteq VReg
  BY DEF Putarg
<1>5. QED
  BY <1>1, <1>2, <1>3, <1>4, NoBatch, EnterNone, Zenon

\* The register that makes room for another of its type.
LEMMA TakeOver ==
  ASSUME NEW map, GoodMap(map), NEW v \in DOMAIN map, NEW w \in Reg, TypeOf(w) = TypeOf(v)
  PROVE  GoodMap(Assoc(Unassoc(map, {v}), w, map[v]))
<1> DEFINE rest == Unassoc(map, {v})
           h == map[v]
<1>1. /\ GoodMap(rest)
      /\ DOMAIN rest = DOMAIN map \ {v}
      /\ \A u \in DOMAIN map \ {v} : rest[u] = map[u]
  BY UnassocGood
<1>2. h \in RegsOf(TypeOf(w)) /\ \A u \in DOMAIN map : map[u] = h => u = v
  BY DEF GoodMap, One
<1> HIDE DEF rest, h
<1>3. \A u \in DOMAIN rest : rest[u] = h => u = w
  BY <1>1, <1>2, Zenon
<1>4. GoodMap(Assoc(rest, w, h))
  BY <1>1, <1>2, <1>3, AssocGood, Zenon
<1>5. QED
  BY <1>4 DEF rest, h

LEMMA GetargKeeps ==
  ASSUME IInv, NEW i \in Ops, Getarg(i)
  PROVE  IInv'
<1> DEFINE map == regmap[i - 1]
           arg == CHOOSE v \in Gen(prog, i) : TRUE
           def == CHOOSE v \in prog[i].def : TRUE
<1>1. Start(i, {"getarg"}) /\ prog[i].code = "getarg" /\ prog[i].code # "call"
  BY DEF Getarg, Start
<1>2. GoodMap(map)
  BY <1>1, AtOperation
<1>3. Operands(i) \subseteq VReg /\ eliminated \cup {i} \subseteq Ops /\ {} \subseteq VReg
  BY OperandsType DEF IInv, Shape
<1>4. CASE arg \in DOMAIN map \ live_out[i]
  <2> DEFINE type == FuncOf(prog, i).args[prog[i].arg + 1]
  <2>1. /\ \E v \in VReg : prog[i].def = {v} /\ v[1] = type
        /\ prog[i].use = {}
    BY <1>1 DEF IInv, Shape, ProgOK, Typed, Ops
  <2>2. def \in VReg /\ def[1] = type
    BY <2>1
  <2>3. Gen(prog, i) = {ArgReg(type, prog[i].arg)}
    BY <1>1, <2>1 DEF Gen
  <2>4. TypeOf(arg) = type
    <3>1. arg = ArgReg(type, prog[i].arg)
      BY <2>3
    <3> HIDE DEF arg, type
    <3>2. QED
      BY <3>1 DEF ArgReg, TypeOf
  <2>5. TypeOf(def) = TypeOf(arg) /\ def \in Reg
    BY <2>2, <2>4, VRegTypes
  <2>6. /\ Enter(Assoc(Unassoc(map, {arg}), def, map[arg]), <<>>, {})
        /\ eliminated' = eliminated \cup {i}
    BY <1>4 DEF Getarg
  <2>7. arg \in DOMAIN map
    BY <1>4
  <2> HIDE DEF map, arg, def
  <2>8. GoodMap(Assoc(Unassoc(map, {arg}), def, map[arg]))
    BY <1>2, <2>5, <2>7, TakeOver, Zenon
  <2>9. eliminated' \subseteq Ops
    BY <1>3, <2>6
  <2>10. QED
    BY <1>1, <1>3, <2>6, <2>8, <2>9, NoBatch, EnterNone, Zenon
<1>5. CASE arg \notin DOMAIN map \ live_out[i]
  <2>1. Enter(map, <<>>, Operands(i)) /\ eliminated' = eliminated
    BY <1>5 DEF Getarg
  <2> HIDE DEF map
  <2>2. eliminated' \subseteq Ops
    BY <1>3, <2>1
  <2>3. QED
    BY <1>1, <1>2, <1>3, <2>1, <2>2, NoBatch, EnterKeeps, Zenon
<1>6. QED
  BY <1>4, <1>5

\* What is in ret_reg is renamed to a callee-saved register nobody has.
LEMMA RenameGood ==
  ASSUME NEW map, GoodMap(map), NEW S, S \subseteq In(map, {RetReg}),
         NEW h \in CalleeSaved, In(map, {h}) = {}
  PROVE  GoodMap([v \in DOMAIN map |-> IF v \in S THEN h ELSE map[v]])
<1> DEFINE new == [v \in DOMAIN map |-> IF v \in S THEN h ELSE map[v]]
<1>1. DOMAIN map \subseteq Reg /\ map \in [DOMAIN map -> HwReg] /\ One(map)
  BY IsMap DEF GoodMap
<1>2. \A v \in S : v \in DOMAIN map /\ map[v] = RetReg
  BY Held
<1>3. h \in GpRegs /\ h \in HwReg /\ \A v \in DOMAIN map : map[v] # h
  BY Hardware, Held
<1>4. \A v \in S : RegsOf(TypeOf(v)) = GpRegs
  BY <1>1, <1>2, Hardware DEF One, RegsOf
<1>5. /\ DOMAIN new = DOMAIN map
      /\ \A v \in S : new[v] = h
      /\ \A v \in DOMAIN map \ S : new[v] = map[v]
  BY <1>2
<1>6. new \in [DOMAIN map -> HwReg]
  BY <1>1, <1>3
<1> HIDE DEF new
<1>7. \A v \in DOMAIN new : new[v] \in RegsOf(TypeOf(v))
  BY <1>1, <1>3, <1>4, <1>5 DEF One
<1>8. \A v, w \in DOMAIN new : new[v] = new[w] => v = w
  BY <1>1, <1>2, <1>3, <1>5 DEF One
<1>9. new \in RegMaps
  BY <1>1, <1>5, <1>6, IsMap
<1>10. QED
  BY <1>7, <1>8, <1>9 DEF GoodMap, One, new

LEMMA PrepareWithKeeps ==
  ASSUME IInv, NEW i \in Ops, Start(i, {"prepare"}), eliminated' \subseteq Ops,
         NEW renamed, GoodMap(renamed), NEW pairs \in SUBSET (HwReg \X HwReg), NEW saved,
         PrepareWith(i, renamed, pairs, saved)
  PROVE  IInv'
<1> DEFINE args == In(renamed, FirstArgs(GpArgs, Cardinality(Putargs(i, "INT")))
                                 \cup FirstArgs(FpArgs, Cardinality(Putargs(i, "FLOAT"))))
           save == Only(renamed, saved \cup In(renamed, {FpRetReg}) \cup args)
           batch == Batch(save, pairs, Empty)
           map == Unassoc(renamed, args)
<1>1. Enter(map, <<batch>>, {})
  BY DEF PrepareWith
<1> HIDE DEF args
<1>2. save \in RegMaps
  BY OnlyType DEF GoodMap
<1>3. GoodMap(map)
  BY UnassocGood
<1> HIDE DEF save, map
<1>4. <<batch>> \in Seq(Batches)
  BY <1>2, BatchType, EmptyMap
<1>5. prog[i].code # "call"
  BY DEF Start
<1> HIDE DEF batch
<1>6. QED
  BY <1>1, <1>3, <1>4, <1>5, EnterNone, Zenon

LEMMA PrepareKeeps ==
  ASSUME IInv, NEW i \in Ops, Prepare(i)
  PROVE  IInv'
<1> DEFINE map == regmap[i - 1]
           alive == In(map, {RetReg}) \cap (live_in[i] \cup live_out[i])
           free == {h \in CalleeSaved : In(map, {h}) = {}}
           Renamed(h) == [v \in DOMAIN map |-> IF v \in alive THEN h ELSE map[v]]
<1>1. Start(i, {"prepare"})
  BY DEF Prepare
<1>2. GoodMap(map)
  BY <1>1, AtOperation
<1>3. eliminated' \subseteq Ops
  BY DEF Prepare, IInv, Shape
<1>4. \/ \E h \in free : PrepareWith(i, Renamed(h), {<<h, RetReg>>}, {})
      \/ PrepareWith(i, map, {}, alive)
  BY DEF Prepare
<1>5. ASSUME NEW h \in free, PrepareWith(i, Renamed(h), {<<h, RetReg>>}, {})
      PROVE  IInv'
  <2>1. GoodMap(Renamed(h))
    BY <1>2, RenameGood
  <2>2. {<<h, RetReg>>} \in SUBSET (HwReg \X HwReg)
    BY Hardware
  <2> HIDE DEF Renamed, map
  <2>3. QED
    BY <1>1, <1>3, <1>5, <2>1, <2>2, PrepareWithKeeps, Zenon
<1>6. ASSUME PrepareWith(i, map, {}, alive)
      PROVE  IInv'
  <2>1. {} \in SUBSET (HwReg \X HwReg)
    OBVIOUS
  <2> HIDE DEF map, alive
  <2>2. QED
    BY <1>1, <1>2, <1>3, <1>6, <2>1, PrepareWithKeeps, Zenon
<1>7. QED
  BY <1>4, <1>5, <1>6

LEMMA CallKeeps ==
  ASSUME IInv, NEW i \in Ops, Call(i)
  PROVE  IInv'
<1> DEFINE map == regmap[i - 1]
           given == In(map, {RetReg, FpRetReg})
           rest == Unassoc(map, given)
<1>1. Start(i, {"call"}) /\ Enter(rest, <<>>, {})
  BY DEF Call
<1>2. GoodMap(map)
  BY <1>1, AtOperation
<1>3. eliminated' \subseteq Ops
  BY DEF Call, IInv, Shape
<1> HIDE DEF map
<1>4. /\ GoodMap(rest)
      /\ DOMAIN rest = DOMAIN map \ given
      /\ \A v \in DOMAIN map \ given : rest[v] = map[v]
  BY <1>2, UnassocGood
<1>5. \A v \in DOMAIN map \ given : map[v] # RetReg
  BY Held
<1> HIDE DEF rest, given
<1>6. In(rest, {RetReg}) = {}
  BY <1>4, <1>5 DEF In
<1>7. QED
  BY <1>1, <1>3, <1>4, <1>6, NoBatch, EnterNone, Zenon

LEMMA RetvalKeeps ==
  ASSUME IInv, NEW i \in Ops, Retval(i)
  PROVE  IInv'
<1> DEFINE map == regmap[i - 1]
           def == CHOOSE v \in prog[i].def : TRUE
<1>1. /\ Start(i, {"retval"}) /\ Enter(Assoc(map, def, RetReg), <<>>, {})
      /\ prog[i].code = "retval" /\ prog[i].code # "call"
  BY DEF Retval, Start
<1>2. i - 1 \in 1 .. Last /\ GoodMap(map)
  BY <1>1, AtOperation
<1>3. eliminated' \subseteq Ops
  BY DEF Retval, IInv, Shape
<1>4. \E v \in VReg : prog[i].def = {v} /\ v[1] = "INT"
  BY <1>1 DEF IInv, Shape, ProgOK, Typed, Ops
<1>5. def \in Reg /\ TypeOf(def) = "INT"
  BY <1>4, VRegTypes
<1>6. prog[i - 1].code = "call"
  BY <1>1 DEF IInv, Shape, ProgOK, Protocol, Ops
<1>7. In(map, {RetReg}) = {}
  BY <1>2, <1>6 DEF IInv, ResultsFree
<1>8. RetReg \in RegsOf(TypeOf(def))
  BY <1>5, Hardware
<1> HIDE DEF map, def
<1>9. GoodMap(Assoc(map, def, RetReg))
  <2>1. \A w \in DOMAIN map : map[w] = RetReg => w = def
    BY <1>7, Held
  <2>2. QED
    BY <1>2, <1>5, <1>8, <2>1, AssocGood, Zenon
<1>10. QED
  BY <1>1, <1>3, <1>9, NoBatch, EnterNone, Zenon

-----------------------------------------------------------------------------
(* The operands of an operation                                            *)

LEMMA NextIsOperand ==
  ASSUME todo # {}
  PROVE  NextOperand \in todo
<1>1. \E v \in todo : v \in prog[Last].def \/ todo \cap prog[Last].def = {}
  OBVIOUS
<1>2. QED
  BY <1>1 DEF NextOperand

LEMMA KeepRegisterKeeps ==
  ASSUME IInv, KeepRegister
  PROVE  IInv'
<1>1. /\ todo' \subseteq todo /\ todo # {}
      /\ UNCHANGED <<prog, regmap, moves, eliminated, inverted, edge, phase>>
  BY DEF KeepRegister, input
<1>2. Shape'
  BY <1>1 DEF IInv, Shape, Ops, Last, ProgOK
<1>3. Calls' /\ AllGood' /\ ResultsFree'
  BY <1>1 DEF IInv, Calls, AllGood, ResultsFree, Last
<1>4. QED
  BY <1>2, <1>3 DEF IInv

\* The register taken is one of its type.
LEMMA CandidatesType ==
  ASSUME NEW map, NEW type, NEW i, NEW h \in Candidates(map, type, i)
  PROVE  h \in RegsOf(type)
BY DEF Candidates

LEMMA GiveGood ==
  ASSUME NEW map, GoodMap(map), NEW v \in Reg, NEW h \in RegsOf(TypeOf(v))
  PROVE  GoodMap(Assoc(Unassoc(map, In(map, {h})), v, h))
<1> DEFINE victim == In(map, {h})
           rest == Unassoc(map, victim)
<1>1. /\ GoodMap(rest)
      /\ DOMAIN rest = DOMAIN map \ victim
      /\ \A u \in DOMAIN map \ victim : rest[u] = map[u]
  BY UnassocGood
<1>2. \A u \in DOMAIN map \ victim : map[u] # h
  BY Held
<1> HIDE DEF rest, victim
<1>3. \A u \in DOMAIN rest : rest[u] = h => u = v
  BY <1>1, <1>2, Zenon
<1>4. GoodMap(Assoc(rest, v, h))
  BY <1>1, <1>3, AssocGood, Zenon
<1>5. QED
  BY <1>4 DEF rest, victim

LEMMA TakeRegisterKeeps ==
  ASSUME IInv, NEW h \in HwReg, TakeRegister(h)
  PROVE  IInv'
<1> DEFINE v == NextOperand
           map == regmap[Last]
           victim == In(map, {h})
           new == Assoc(Unassoc(map, victim), v, h)
           save == Only(map, victim \cap live_in[Last])
           load == Only([w \in {v} |-> h], live_in[Last])
           batch == Batch(save, {}, load)
<1>1. /\ todo # {} /\ h \in Candidates(map, TypeOf(v), Last)
      /\ regmap' = [regmap EXCEPT ![Last] = new]
      /\ moves' = [moves EXCEPT ![Last] = Append(@, batch)]
      /\ todo' = todo \ {v}
      /\ UNCHANGED <<prog, eliminated, inverted, edge, phase>>
  BY DEF TakeRegister, input
<1>2. Last \in 1 .. Len(regmap) /\ Last = Len(regmap) /\ phase = "assign"
  BY <1>1 DEF IInv, Shape, Calls, Last
<1>3. GoodMap(map) /\ map \in RegMaps
  BY <1>2 DEF IInv, AllGood, Last, GoodMap
<1>4. v \in Reg
  BY <1>1, NextIsOperand, VRegTypes DEF IInv, Shape
<1>5. GoodMap(new)
  BY <1>1, <1>3, <1>4, CandidatesType, GiveGood
<1>6. batch \in Batches
  <2>1. save \in RegMaps
    BY <1>3, OnlyType
  <2>2. [w \in {v} |-> h] \in RegMaps
    BY <1>4, IsMap
  <2>3. load \in RegMaps
    BY <2>2, OnlyType
  <2> HIDE DEF save, load
  <2>4. QED
    BY <2>1, <2>3, BatchType
<1> HIDE DEF v, map, victim, new, save, load, batch
<1>7. /\ regmap' \in Seq(RegMaps) /\ Len(regmap') = Len(regmap)
      /\ regmap'[Last] = new
      /\ \A j \in 1 .. Last : j # Last => regmap'[j] = regmap[j]
  BY <1>1, <1>2, <1>5 DEF IInv, Shape, GoodMap
<1>8. moves' \in Seq(Seq(Batches)) /\ Len(moves') = Len(moves)
  <2>1. moves \in Seq(Seq(Batches)) /\ Last \in 1 .. Len(moves)
    BY <1>2 DEF IInv, Shape
  <2>2. Append(moves[Last], batch) \in Seq(Batches)
    BY <1>6, <2>1
  <2>3. QED
    BY <1>1, <2>1, <2>2
<1>9. Last' = Last
  BY <1>7 DEF Last
<1>10. Shape'
  BY <1>1, <1>7, <1>8, <1>9 DEF IInv, Shape, Ops, ProgOK
<1>11. Calls'
  BY <1>1, <1>9 DEF IInv, Calls
<1>12. AllGood' /\ ResultsFree'
  <2> SUFFICES ASSUME NEW j \in 1 .. Last
               PROVE  /\ GoodMap(regmap'[j])
                      /\ prog[j].code = "call" => In(regmap'[j], {RetReg}) = {}
    BY <1>1, <1>9 DEF AllGood, ResultsFree
  <2>1. CASE j = Last
    BY <1>1, <1>5, <1>7, <2>1 DEF IInv, Calls
  <2>2. CASE j # Last
    BY <1>7, <2>2 DEF IInv, AllGood, ResultsFree
  <2>3. QED
    BY <2>1, <2>2
<1>13. QED
  BY <1>10, <1>11, <1>12 DEF IInv

-----------------------------------------------------------------------------
(* The walks after the first                                               *)

LEMMA WalkKeeps ==
  ASSUME IInv, UNCHANGED <<prog, regmap, moves, todo, eliminated>>, Last = Len(prog),
         todo = {},
         inverted' \subseteq {i \in Ops : prog[i].code = "branch"},
         \A i \in DOMAIN edge' : edge'[i] \in Batches,
         phase' \in {"assign", "branches", "jumps", "done"}
  PROVE  IInv'
<1>1. Shape'
  BY DEF IInv, Shape, Ops, Last, ProgOK
<1>2. Calls' /\ AllGood' /\ ResultsFree'
  BY DEF IInv, Calls, AllGood, ResultsFree, Last
<1>3. QED
  BY <1>1, <1>2 DEF IInv

LEMMA AssignDoneKeeps ==
  ASSUME IInv, AssignDone
  PROVE  IInv'
<1>1. /\ UNCHANGED <<prog, regmap, moves, todo, eliminated>> /\ Last = Len(prog) /\ todo = {}
      /\ inverted' = inverted /\ edge' = edge /\ phase' = "branches"
  BY DEF AssignDone, input
<1>2. /\ inverted' \subseteq {i \in Ops : prog[i].code = "branch"}
      /\ \A i \in DOMAIN edge' : edge'[i] \in Batches
  BY <1>1 DEF IInv, Shape
<1>3. QED
  BY <1>1, <1>2, WalkKeeps

LEMMA AdjustBranchesKeeps ==
  ASSUME IInv, AdjustBranches
  PROVE  IInv'
<1>1. /\ UNCHANGED <<prog, regmap, moves, todo, eliminated>> /\ phase = "branches"
      /\ inverted' \subseteq {i \in Ops : prog[i].code = "branch"}
      /\ edge' = edge /\ phase' = "jumps"
  BY DEF AdjustBranches, input
<1>2. Last = Len(prog) /\ todo = {} /\ \A i \in DOMAIN edge' : edge'[i] \in Batches
  BY <1>1 DEF IInv, Shape, Calls
<1>3. QED
  BY <1>1, <1>2, WalkKeeps

LEMMA DifferingType ==
  ASSUME NEW map \in RegMaps, NEW other, NEW S
  PROVE  Differing(map, other, S) \in RegMaps
BY OnlyType DEF Differing

LEMMA AdjustJumpsKeeps ==
  ASSUME IInv, AdjustJumps
  PROVE  IInv'
<1> DEFINE jumps == {k \in Ops : prog[k].code = "jmp"} \cup inverted
           Save(i) == Differing(regmap[i], regmap[Target(i)], DOMAIN regmap[i] \cap live_in[Target(i)])
           Load(i) == Differing(regmap[Target(i)], regmap[i], DOMAIN regmap[Target(i)] \cap live_out[i])
<1>1. /\ UNCHANGED <<prog, regmap, moves, todo, eliminated>> /\ phase = "jumps"
      /\ edge' = [i \in jumps |-> Batch(Save(i), {}, Load(i))]
      /\ inverted' = inverted /\ phase' = "done"
  BY DEF AdjustJumps, input
<1>2. Last = Len(prog) /\ todo = {}
      /\ inverted' \subseteq {i \in Ops : prog[i].code = "branch"}
  BY <1>1 DEF IInv, Shape, Calls
<1>3. ASSUME NEW i \in jumps
      PROVE  Batch(Save(i), {}, Load(i)) \in Batches
  <2>1. i \in Ops /\ prog[i].code \in {"branch", "jmp"}
    BY DEF IInv, Shape
  <2>2. prog[i].jmp # 0 /\ prog[i].jmp <= Len(prog) /\ prog[i].jmp \in Nat
    BY <2>1, OperandsType DEF IInv, Shape, ProgOK, Typed, WellFormed, Ops, Operation
  <2>3. i \in 1 .. Last /\ Target(i) \in 1 .. Last
    BY <1>2, <2>1, <2>2 DEF Target, Ops, IInv, Shape, ProgOK
  <2>4. regmap[i] \in RegMaps /\ regmap[Target(i)] \in RegMaps
    BY <2>3 DEF IInv, AllGood, GoodMap
  <2>5. Save(i) \in RegMaps /\ Load(i) \in RegMaps
    BY <2>4, DifferingType
  <2> HIDE DEF Save, Load
  <2>6. QED
    BY <2>5, BatchType
<1>4. \A i \in DOMAIN edge' : edge'[i] \in Batches
  BY <1>1, <1>3
<1>5. QED
  BY <1>1, <1>2, <1>4, WalkKeeps

LEMMA NextIInv == IInv /\ [Next]_alloc => IInv'
<1> SUFFICES ASSUME IInv, [Next]_alloc PROVE IInv'
  OBVIOUS
<1>1. ASSUME NEW i \in Ops,
             Prolog(i) \/ Plain(i) \/ Putarg(i) \/ Getarg(i) \/ Prepare(i) \/ Call(i) \/ Retval(i)
      PROVE  IInv'
  BY <1>1, PrologKeeps, PlainKeeps, PutargKeeps, GetargKeeps, PrepareKeeps, CallKeeps, RetvalKeeps
<1>2. CASE KeepRegister
  BY <1>2, KeepRegisterKeeps
<1>3. ASSUME NEW h \in HwReg, TakeRegister(h) PROVE IInv'
  BY <1>3, TakeRegisterKeeps
<1>4. CASE AssignDone
  BY <1>4, AssignDoneKeeps
<1>5. CASE AdjustBranches
  BY <1>5, AdjustBranchesKeeps
<1>6. CASE AdjustJumps
  BY <1>6, AdjustJumpsKeeps
<1>7. CASE UNCHANGED alloc
  <2>1. UNCHANGED <<prog, regmap, moves, todo, eliminated, inverted, edge, phase>>
    BY <1>7 DEF alloc, input
  <2>2. Shape'
    BY <2>1 DEF IInv, Shape, Ops, Last, ProgOK
  <2>3. Calls' /\ AllGood' /\ ResultsFree'
    BY <2>1 DEF IInv, Calls, AllGood, ResultsFree, Last
  <2>4. QED
    BY <2>2, <2>3 DEF IInv
<1>8. QED
  BY <1>1, <1>2, <1>3, <1>4, <1>5, <1>6, <1>7, Zenon DEF Next

-----------------------------------------------------------------------------
(* Theorems                                                                *)

\* The inductive invariant: every map is good, a CALL leaves ret_reg to nobody,
\* and operands wait for registers at the last operation only.
THEOREM AllocInvariant == Spec => []IInv
BY InitIInv, NextIInv, PTL DEF Spec

\* The variables of the allocator keep their types, for all programs: no map ever
\* names a register that does not exist, in any of the three walks.
THEOREM TypeCorrect == Spec => []TypeOK
<1>1. IInv => TypeOK
  <2> SUFFICES ASSUME IInv PROVE TypeOK
    OBVIOUS
  <2>1. \A map \in RegMaps : IsRegMap(map)
    BY IsMap DEF IsRegMap
  <2>2. \A i \in 1 .. Last : IsRegMap(regmap[i])
    BY <2>1 DEF IInv, AllGood, GoodMap
  <2>3. \A i \in 1 .. Last : \A k \in 1 .. Len(moves[i]) : moves[i][k] \in Batches
    BY DEF IInv, Shape
  <2>4. \A batch \in Batches : IsRegMap(batch.save) /\ IsRegMap(batch.load)
    BY <2>1 DEF Batches
  <2>5. QED
    BY <2>2, <2>3, <2>4 DEF IInv, Shape, TypeOK
<1>2. QED
  BY <1>1, AllocInvariant, PTL

\* No two virtual registers are ever in the same hardware register, and each is in
\* one of its own kind: whatever the scores choose, wherever calls, results and
\* arguments claim special registers.
THEOREM NoRegisterTwice == Spec => []OneEach
<1>1. IInv => OneEach
  BY DEF IInv, AllGood, GoodMap, One, OneEach
<1>2. QED
  BY <1>1, AllocInvariant, PTL

-----------------------------------------------------------------------------
(* No value that is needed later loses its place without having been saved *)
(* or moved.                                                               *)
(*                                                                         *)
(* The hard case is a call.  Its CALL takes ret_reg and fpret_reg from     *)
(* whatever is there and saves nothing: what is alive there has been saved *)
(* by the PREPARE, several operations before.  The invariant adds that it  *)
(* is still so after each PUTARG (ResultsSaved), which rests on the        *)
(* equations of liveness: what is alive before a PUTARG is alive after the *)
(* operation before it.                                                    *)

(* Nothing is lost                                                         *)

Flow == Solves(prog, live_in, live_out)
CallCodes == {"prepare", "putarg", "call"}

\* Only a PREPARE moves a value to another register, and no operation of a call
\* gives registers to its operands.
Quiet ==
  /\ todo # {} => prog[Last].code \notin CallCodes
  /\ \A i \in 1 .. Last : prog[i].code # "prepare" =>
       \A n \in 1 .. Len(moves[i]) : moves[i][n].rename = {}

StoredBefore(i, v) ==
  \E p \in 2 .. i - 1 : Preparing(p, i - 1) /\ Stored(regmap[p - 1], moves[p], v)
Safe(i, map, batches, v) ==
  \/ Kept(regmap[i - 1], map, v)
  \/ Stored(regmap[i - 1], batches, v)
  \/ Moved(regmap[i - 1], map, batches, v)
  \/ prog[i].code = "call" /\ StoredBefore(i, v)
AllSafe ==
  \A i \in 2 .. Last : prog[i].code # "prolog" =>
    \A v \in DOMAIN regmap[i - 1] \cap live_in[i] \cap live_out[i] :
      Safe(i, regmap[i], moves[i], v)

\* What is in a register of results when a call has been prepared, and is alive,
\* has been saved by the PREPARE.
SavedHere(i, batches, v) ==
  \/ prog[i].code = "prepare" /\ Stored(regmap[i - 1], batches, v)
  \/ prog[i].code = "putarg" /\ StoredBefore(i, v)
ResultsSaved ==
  \A i \in 2 .. Last : prog[i].code \in {"prepare", "putarg"} =>
    \A v \in DOMAIN regmap[i] \cap live_out[i] :
      regmap[i][v] \in {RetReg, FpRetReg} => SavedHere(i, moves[i], v)

LInv == Flow /\ Quiet /\ AllSafe /\ ResultsSaved

LEMMA InitLInv == Init => LInv
<1> SUFFICES ASSUME Init PROVE LInv
  OBVIOUS
<1>1. Last = 0 /\ todo = {}
  BY DEF Init, Last
<1>2. Flow
  BY AllocAssumption DEF Init, Flow
<1>3. QED
  BY <1>1, <1>2 DEF LInv, Quiet, AllSafe, ResultsSaved

\* What entering an operation leaves as it was.
LEMMA Entered ==
  ASSUME IInv, NEW i, NEW codes, Start(i, codes),
         NEW map, NEW inserted, NEW operands, Enter(map, inserted, operands),
         GoodMap(map), inserted \in Seq(Batches)
  PROVE  /\ i \in Nat /\ i > 0 /\ Last = i - 1 /\ Last' = i
         /\ regmap'[i] = map /\ moves'[i] = inserted
         /\ \A j \in 1 .. i - 1 : regmap'[j] = regmap[j] /\ moves'[j] = moves[j]
         /\ prog' = prog /\ live_in' = live_in /\ live_out' = live_out /\ todo' = operands
<1>1. /\ Last \in Nat /\ i = Last + 1 /\ regmap \in Seq(RegMaps)
      /\ moves \in Seq(Seq(Batches)) /\ Len(moves) = Last /\ Last = Len(regmap)
  BY DEF IInv, Shape, Start, Last
<1>2. /\ regmap' = Append(regmap, map) /\ moves' = Append(moves, inserted)
      /\ prog' = prog /\ live_in' = live_in /\ live_out' = live_out /\ todo' = operands
  BY DEF Enter, input
<1>3. map \in RegMaps
  BY DEF GoodMap
<1>4. Len(regmap') = i /\ regmap'[i] = map /\ \A j \in 1 .. i - 1 : regmap'[j] = regmap[j]
  BY <1>1, <1>2, <1>3
<1>5. moves'[i] = inserted /\ \A j \in 1 .. i - 1 : moves'[j] = moves[j]
  BY <1>1, <1>2
<1>6. Last' = i
  BY <1>4 DEF Last
<1>7. QED
  BY <1>1, <1>2, <1>4, <1>5, <1>6

LEMMA StoredStays ==
  ASSUME NEW n \in Nat, prog' = prog,
         \A j \in 1 .. n : regmap'[j] = regmap[j] /\ moves'[j] = moves[j],
         NEW i \in Nat, i - 1 <= n, NEW v, StoredBefore(i, v)
  PROVE  StoredBefore(i, v)'
<1>1. PICK p \in 2 .. i - 1 : Preparing(p, i - 1) /\ Stored(regmap[p - 1], moves[p], v)
  BY DEF StoredBefore
<1>2. p \in 1 .. n /\ p - 1 \in 1 .. n
  BY <1>1
<1>3. regmap'[p - 1] = regmap[p - 1] /\ moves'[p] = moves[p]
  BY <1>2
<1>4. Preparing(p, i - 1)' /\ Stored(regmap[p - 1], moves[p], v)'
  BY <1>1, <1>3 DEF Preparing
<1>5. QED
  BY <1>4 DEF StoredBefore

\* The operations before the last one are as safe as they were.
LEMMA EarlierStay ==
  ASSUME LInv, NEW n \in Nat, n <= Last, Last \in Nat,
         prog' = prog, live_in' = live_in, live_out' = live_out,
         \A j \in 1 .. n : regmap'[j] = regmap[j] /\ moves'[j] = moves[j]
  PROVE  /\ \A i \in 2 .. n : prog'[i].code # "prolog" =>
              \A v \in DOMAIN regmap'[i - 1] \cap live_in'[i] \cap live_out'[i] :
                Safe(i, regmap[i], moves[i], v)'
         /\ \A i \in 2 .. n : prog'[i].code \in {"prepare", "putarg"} =>
              \A v \in DOMAIN regmap'[i] \cap live_out'[i] :
                regmap'[i][v] \in {RetReg, FpRetReg} => SavedHere(i, moves[i], v)'
<1>1. \A i \in 2 .. n : /\ i \in 2 .. Last /\ i \in 1 .. n /\ i - 1 \in 1 .. n
                       /\ i \in Nat /\ i - 1 <= n
  OBVIOUS
<1>2. ASSUME NEW i \in 2 .. n, prog'[i].code # "prolog",
             NEW v \in DOMAIN regmap'[i - 1] \cap live_in'[i] \cap live_out'[i]
      PROVE  Safe(i, regmap[i], moves[i], v)'
  <2>1. regmap'[i - 1] = regmap[i - 1] /\ regmap'[i] = regmap[i] /\ moves'[i] = moves[i]
    BY <1>1
  <2>2. Safe(i, regmap[i], moves[i], v)
    BY <1>1, <1>2, <2>1 DEF LInv, AllSafe
  <2>3. StoredBefore(i, v) => StoredBefore(i, v)'
    BY <1>1, StoredStays
  <2>4. QED
    BY <2>1, <2>2, <2>3 DEF Safe
<1>3. ASSUME NEW i \in 2 .. n, prog'[i].code \in {"prepare", "putarg"},
             NEW v \in DOMAIN regmap'[i] \cap live_out'[i],
             regmap'[i][v] \in {RetReg, FpRetReg}
      PROVE  SavedHere(i, moves[i], v)'
  <2>1. regmap'[i - 1] = regmap[i - 1] /\ regmap'[i] = regmap[i] /\ moves'[i] = moves[i]
    BY <1>1
  <2>2. SavedHere(i, moves[i], v)
    BY <1>1, <1>3, <2>1 DEF LInv, ResultsSaved
  <2>3. StoredBefore(i, v) => StoredBefore(i, v)'
    BY <1>1, StoredStays
  <2>4. QED
    BY <2>1, <2>2, <2>3 DEF SavedHere
<1>4. QED
  BY <1>2, <1>3

LEMMA EnterSaves ==
  ASSUME IInv, LInv, NEW i, NEW codes, Start(i, codes),
         NEW map, NEW inserted, NEW operands, Enter(map, inserted, operands),
         GoodMap(map), inserted \in Seq(Batches),
         operands # {} => prog[i].code \notin CallCodes,
         prog[i].code # "prepare" => \A n \in 1 .. Len(inserted) : inserted[n].rename = {},
         i > 1 /\ prog[i].code # "prolog" =>
           \A v \in DOMAIN regmap[i - 1] \cap live_in[i] \cap live_out[i] :
             Safe(i, map, inserted, v),
         i > 1 /\ prog[i].code \in {"prepare", "putarg"} =>
           \A v \in DOMAIN map \cap live_out[i] :
             map[v] \in {RetReg, FpRetReg} => SavedHere(i, inserted, v)
  PROVE  LInv'
<1>1. /\ i \in Nat /\ i > 0 /\ Last = i - 1 /\ Last' = i
      /\ regmap'[i] = map /\ moves'[i] = inserted
      /\ \A j \in 1 .. i - 1 : regmap'[j] = regmap[j] /\ moves'[j] = moves[j]
      /\ prog' = prog /\ live_in' = live_in /\ live_out' = live_out /\ todo' = operands
  BY Entered
<1>2. Flow'
  BY <1>1 DEF LInv, Flow
<1>3. Quiet'
  <2>1. todo' # {} => prog'[Last'].code \notin CallCodes
    BY <1>1
  <2>2. ASSUME NEW j \in 1 .. i, prog[j].code # "prepare", NEW n \in 1 .. Len(moves'[j])
        PROVE  moves'[j][n].rename = {}
    <3>1. CASE j = i
      BY <1>1, <2>2, <3>1
    <3>2. CASE j \in 1 .. i - 1
      BY <1>1, <2>2, <3>2 DEF LInv, Quiet
    <3>3. QED
      BY <1>1, <3>1, <3>2
  <2>3. QED
    BY <1>1, <2>1, <2>2 DEF Quiet
<1>4. /\ \A j \in 2 .. i - 1 : prog'[j].code # "prolog" =>
           \A v \in DOMAIN regmap'[j - 1] \cap live_in'[j] \cap live_out'[j] :
             Safe(j, regmap[j], moves[j], v)'
      /\ \A j \in 2 .. i - 1 : prog'[j].code \in {"prepare", "putarg"} =>
           \A v \in DOMAIN regmap'[j] \cap live_out'[j] :
             regmap'[j][v] \in {RetReg, FpRetReg} => SavedHere(j, moves[j], v)'
  <2>1. i - 1 \in Nat /\ i - 1 <= Last /\ Last \in Nat
    BY <1>1
  <2>2. QED
    BY <1>1, <2>1, EarlierStay
<1>5. ASSUME i > 1, NEW v
      PROVE  /\ regmap'[i - 1] = regmap[i - 1]
             /\ Safe(i, map, inserted, v) => Safe(i, regmap[i], moves[i], v)'
             /\ SavedHere(i, inserted, v) => SavedHere(i, moves[i], v)'
  <2>1. regmap'[i - 1] = regmap[i - 1]
    BY <1>1, <1>5
  <2>2. StoredBefore(i, v) => StoredBefore(i, v)'
    <3>1. i - 1 \in Nat /\ i - 1 <= i - 1
      BY <1>1
    <3>2. QED
      BY <1>1, <3>1, StoredStays
  <2>3. QED
    BY <1>1, <2>1, <2>2 DEF Safe, SavedHere
<1>6. \A j \in 2 .. i : j \in 2 .. i - 1 \/ (j = i /\ i > 1)
  BY <1>1
<1>7. AllSafe'
  <2> SUFFICES ASSUME NEW j \in 2 .. i, prog'[j].code # "prolog",
                      NEW v \in DOMAIN regmap'[j - 1] \cap live_in'[j] \cap live_out'[j]
               PROVE  Safe(j, regmap[j], moves[j], v)'
    BY <1>1 DEF AllSafe
  <2>1. CASE j \in 2 .. i - 1
    BY <1>4, <2>1
  <2>2. CASE j = i /\ i > 1
    BY <1>1, <1>5, <2>2
  <2>3. QED
    BY <1>6, <2>1, <2>2
<1>8. ResultsSaved'
  <2> SUFFICES ASSUME NEW j \in 2 .. i, prog'[j].code \in {"prepare", "putarg"},
                      NEW v \in DOMAIN regmap'[j] \cap live_out'[j],
                      regmap'[j][v] \in {RetReg, FpRetReg}
               PROVE  SavedHere(j, moves[j], v)'
    BY <1>1 DEF ResultsSaved
  <2>1. CASE j \in 2 .. i - 1
    BY <1>4, <2>1
  <2>2. CASE j = i /\ i > 1
    BY <1>1, <1>5, <2>2
  <2>3. QED
    BY <1>6, <2>1, <2>2
<1>9. QED
  BY <1>2, <1>3, <1>7, <1>8 DEF LInv

-----------------------------------------------------------------------------
(* What is alive around an operation of a call                             *)

\* What an operation does not make and needs no more is what goes through it.
LEMMA AliveThrough ==
  ASSUME ProgOK, Flow, NEW i \in Ops, prog[i].code # "prolog",
         NEW v, v \in live_out[i], v \notin prog[i].def
  PROVE  v \in live_in[i]
<1>1. live_in[i] = (live_out[i] \ Kill(prog, i)) \cup Gen(prog, i)
  BY DEF Flow, Solves, InOf, Ops
<1>2. Kill(prog, i) = prog[i].def \cup {}
  BY DEF Kill
<1>3. QED
  BY <1>1, <1>2

LEMMA AliveBefore ==
  ASSUME ProgOK, Flow, NEW i \in Ops, NEW k \in Ops, k + 1 = i, prog[k].code \in CallCodes,
         NEW v \in live_in[i]
  PROVE  v \in live_out[k]
<1>1. live_out[k] = UNION {live_in[s] : s \in Succ(prog, k)}
  BY DEF Flow, Solves, OutOf, Ops
<1>2. prog[k].code # "ret" /\ prog[k].code # "jmp"
  BY DEF CallCodes
<1>3. i \in Succ(prog, k)
  BY <1>2, Zenon DEF Succ, Ops
<1>4. QED
  BY <1>1, <1>3

\* What the last operation of a call has saved is saved before the next one.
LEMMA SavedThenStored ==
  ASSUME NEW i \in Nat, i - 1 \in 2 .. Last, NEW v, SavedHere(i - 1, moves[i - 1], v)
  PROVE  StoredBefore(i, v)
<1>1. CASE prog[i - 1].code = "prepare" /\ Stored(regmap[i - 1 - 1], moves[i - 1], v)
  <2>1. i - 1 \in 2 .. i - 1 /\ (i - 1) + 1 .. i - 1 = {}
    OBVIOUS
  <2>2. Preparing(i - 1, i - 1)
    BY <1>1, <2>1 DEF Preparing
  <2>3. QED
    BY <1>1, <2>1, <2>2 DEF StoredBefore
<1>2. CASE prog[i - 1].code = "putarg" /\ StoredBefore(i - 1, v)
  <2>1. PICK p \in 2 .. i - 1 - 1 : Preparing(p, i - 1 - 1) /\ Stored(regmap[p - 1], moves[p], v)
    BY <1>2 DEF StoredBefore
  <2>2. p \in 2 .. i - 1 /\ \A m \in p + 1 .. i - 1 : m \in p + 1 .. i - 1 - 1 \/ m = i - 1
    BY <2>1
  <2>3. Preparing(p, i - 1)
    BY <1>2, <2>1, <2>2 DEF Preparing
  <2>4. QED
    BY <2>1, <2>2, <2>3 DEF StoredBefore
<1>3. QED
  BY <1>1, <1>2 DEF SavedHere

\* So a PUTARG and a CALL find what is alive in the registers of results saved.
LEMMA ResultsStored ==
  ASSUME IInv, LInv, NEW i, NEW codes, Start(i, codes), codes \in {{"putarg"}, {"call"}},
         NEW v \in DOMAIN regmap[i - 1] \cap live_in[i],
         regmap[i - 1][v] \in {RetReg, FpRetReg}
  PROVE  StoredBefore(i, v)
<1>1. /\ i - 1 \in 1 .. Last /\ i = Last + 1 /\ i \in Ops
      /\ prog[i].code \in {"putarg", "call"}
  <2>1. "prolog" \notin codes /\ prog[i].code \in {"putarg", "call"}
    BY DEF Start
  <2>2. QED
    BY <2>1, AtOperation
<1>2. ProgOK /\ Flow /\ Last <= Len(prog) /\ Last \in Nat
  BY DEF IInv, Shape, LInv, Last
<1>3. prog[i - 1].code \in {"prepare", "putarg"}
  BY <1>1, <1>2 DEF ProgOK, Protocol, Ops
<1>4. i \in Nat /\ i - 1 # 1 /\ i - 1 \in 2 .. Last /\ i - 1 \in Ops /\ (i - 1) + 1 = i
  BY <1>1, <1>2, <1>3 DEF ProgOK, Ops
<1>5. v \in live_out[i - 1]
  BY <1>1, <1>2, <1>3, <1>4, AliveBefore DEF CallCodes
<1>6. SavedHere(i - 1, moves[i - 1], v)
  BY <1>3, <1>4, <1>5 DEF LInv, ResultsSaved
<1>7. QED
  BY <1>4, <1>6, SavedThenStored

-----------------------------------------------------------------------------
(* The actions that enter an operation                                     *)

\* Entering an operation that inserts nothing and waits for no register.
LEMMA EnterNothing ==
  ASSUME IInv, LInv, NEW i, NEW codes, Start(i, codes), "prepare" \notin codes,
         NEW map, Enter(map, <<>>, {}), GoodMap(map),
         i > 1 /\ prog[i].code # "prolog" =>
           \A v \in DOMAIN regmap[i - 1] \cap live_in[i] \cap live_out[i] :
             Safe(i, map, <<>>, v),
         i > 1 /\ prog[i].code = "putarg" =>
           \A v \in DOMAIN map \cap live_out[i] :
             map[v] \in {RetReg, FpRetReg} => StoredBefore(i, v)
  PROVE  LInv'
<1> DEFINE none == {}
           nothing == <<>>
<1>1. /\ Enter(map, nothing, none) /\ nothing \in Seq(Batches)
      /\ none # {} => prog[i].code \notin CallCodes
      /\ \A n \in 1 .. Len(nothing) : nothing[n].rename = {}
  OBVIOUS
<1>2. prog[i].code # "prepare"
  BY DEF Start
<1>3. i > 1 /\ prog[i].code # "prolog" =>
        \A v \in DOMAIN regmap[i - 1] \cap live_in[i] \cap live_out[i] :
          Safe(i, map, nothing, v)
  OBVIOUS
<1> HIDE DEF none, nothing
<1>4. i > 1 /\ prog[i].code \in {"prepare", "putarg"} =>
        \A v \in DOMAIN map \cap live_out[i] :
          map[v] \in {RetReg, FpRetReg} => SavedHere(i, nothing, v)
  BY <1>2 DEF SavedHere
<1>5. QED
  BY <1>1, <1>2, <1>3, <1>4, EnterSaves, Zenon

LEMMA PrologSaves ==
  ASSUME IInv, LInv, NEW i \in Ops, Prolog(i)
  PROVE  LInv'
<1>1. Start(i, {"prolog"}) /\ prog[i].code = "prolog" /\ Enter(ArgMap(prog[i].args), <<>>, {})
  BY DEF Prolog, Start
<1>2. GoodMap(ArgMap(prog[i].args))
  BY <1>1, ArgMapGood DEF IInv, Shape
<1>3. "prepare" \notin {"prolog"} /\ prog[i].code # "putarg"
  BY <1>1
<1>4. QED
  BY <1>1, <1>2, <1>3, EnterNothing, Zenon

\* A map that is not changed.
LEMMA SameMap ==
  ASSUME NEW i, NEW v \in DOMAIN regmap[i - 1], NEW inserted
  PROVE  Safe(i, regmap[i - 1], inserted, v)
BY DEF Safe, Kept

LEMMA PlainSaves ==
  ASSUME IInv, LInv, NEW i \in Ops, Plain(i)
  PROVE  LInv'
<1> DEFINE codes == {"op", "ret", "branch", "bms", "jmp", "label", "fretval"}
           map == regmap[i - 1]
           nothing == <<>>
<1>1. /\ Start(i, codes) /\ prog[i].code \notin CallCodes
      /\ prog[i].code \notin {"prepare", "putarg"} /\ "prolog" \notin codes
  BY DEF Plain, Start, CallCodes
<1>2. GoodMap(map)
  BY <1>1, AtOperation
<1>3. Enter(map, nothing, Operands(i))
  BY DEF Plain
<1>4. nothing \in Seq(Batches) /\ \A n \in 1 .. Len(nothing) : nothing[n].rename = {}
  OBVIOUS
<1>5. \A v \in DOMAIN map \cap live_in[i] \cap live_out[i] : Safe(i, map, nothing, v)
  BY SameMap
<1> HIDE DEF codes, nothing
<1>6. QED
  BY <1>1, <1>2, <1>3, <1>4, <1>5, EnterSaves, Zenon

LEMMA PutargSaves ==
  ASSUME IInv, LInv, NEW i \in Ops, Putarg(i)
  PROVE  LInv'
<1> DEFINE map == regmap[i - 1]
           nothing == <<>>
<1>1. Start(i, {"putarg"}) /\ prog[i].code = "putarg" /\ Enter(map, <<>>, {})
  BY DEF Putarg, Start
<1>2. GoodMap(map)
  BY <1>1, AtOperation
<1>3. \A v \in DOMAIN map \cap live_in[i] \cap live_out[i] : Safe(i, map, <<>>, v)
  BY SameMap
<1>4. ASSUME NEW v \in DOMAIN map \cap live_out[i], map[v] \in {RetReg, FpRetReg}
      PROVE  StoredBefore(i, v)
  <2>1. ProgOK /\ Flow
    BY DEF IInv, Shape, LInv
  <2>2. prog[i].def = {}
    BY <1>1, <2>1 DEF ProgOK, Typed, Ops
  <2>3. v \in live_in[i]
    BY <1>1, <2>1, <2>2, AliveThrough
  <2>4. QED
    BY <1>1, <1>4, <2>3, ResultsStored
<1>5. "prepare" \notin {"putarg"}
  OBVIOUS
<1> HIDE DEF map
<1>6. i > 1 /\ prog[i].code # "prolog" =>
        \A v \in DOMAIN regmap[i - 1] \cap live_in[i] \cap live_out[i] : Safe(i, map, <<>>, v)
  BY <1>3 DEF map
<1>7. QED
  BY <1>1, <1>2, <1>4, <1>5, <1>6, EnterNothing, Zenon

LEMMA CallSaves ==
  ASSUME IInv, LInv, NEW i \in Ops, Call(i)
  PROVE  LInv'
<1> DEFINE map == regmap[i - 1]
           given == In(map, {RetReg, FpRetReg})
           rest == Unassoc(map, given)
<1>1. Start(i, {"call"}) /\ prog[i].code = "call" /\ Enter(rest, <<>>, {})
  BY DEF Call, Start
<1>2. GoodMap(map)
  BY <1>1, AtOperation
<1>3. /\ GoodMap(rest)
      /\ DOMAIN rest = DOMAIN map \ given
      /\ \A v \in DOMAIN map \ given : rest[v] = map[v]
  BY <1>2, UnassocGood
<1>4. ASSUME NEW v \in DOMAIN map \cap live_in[i] \cap live_out[i]
      PROVE  Safe(i, rest, <<>>, v)
  <2>1. CASE v \in given
    <3>1. map[v] \in {RetReg, FpRetReg}
      BY <2>1, Held
    <3>2. StoredBefore(i, v)
      BY <1>1, <3>1, ResultsStored
    <3>3. QED
      BY <1>1, <3>2 DEF Safe
  <2>2. CASE v \notin given
    <3>1. v \in DOMAIN rest /\ rest[v] = map[v]
      BY <1>3, <2>2
    <3> HIDE DEF rest
    <3>2. QED
      BY <3>1 DEF Safe, Kept
  <2>3. QED
    BY <2>1, <2>2
<1> HIDE DEF rest, map
<1>5. i > 1 /\ prog[i].code # "prolog" =>
        \A v \in DOMAIN regmap[i - 1] \cap live_in[i] \cap live_out[i] : Safe(i, rest, <<>>, v)
  BY <1>4 DEF map
<1>6. "prepare" \notin {"call"} /\ prog[i].code # "putarg"
  BY <1>1
<1>7. QED
  BY <1>1, <1>3, <1>5, <1>6, EnterNothing, Zenon

\* What an operation makes and does not read is not alive before it.
LEMMA MadeHere ==
  ASSUME ProgOK, Flow, NEW i \in Ops, NEW v \in prog[i].def, v \notin Gen(prog, i)
  PROVE  v \notin live_in[i]
<1>1. live_in[i] = (live_out[i] \ Kill(prog, i)) \cup Gen(prog, i)
  BY DEF Flow, Solves, InOf, Ops
<1>2. v \in Kill(prog, i)
  BY DEF Kill
<1>3. QED
  BY <1>1, <1>2

\* A register that an operation makes takes a place nobody alive is in.
LEMMA GivenAway ==
  ASSUME NEW i, NEW map, map = regmap[i - 1], NEW S, NEW def, NEW h, NEW inserted,
         NEW v \in DOMAIN map, v \notin S, v # def
  PROVE  Safe(i, Assoc(Unassoc(map, S), def, h), inserted, v)
<1> DEFINE rest == Unassoc(map, S)
<1>1. v \in DOMAIN rest /\ rest[v] = map[v]
  BY DEF Unassoc, Only
<1> HIDE DEF rest
<1>2. v \in DOMAIN Assoc(rest, def, h) /\ Assoc(rest, def, h)[v] = rest[v]
  BY <1>1 DEF Assoc
<1>3. QED
  BY <1>1, <1>2 DEF Safe, Kept, rest

LEMMA GetargSaves ==
  ASSUME IInv, LInv, NEW i \in Ops, Getarg(i)
  PROVE  LInv'
<1> DEFINE map == regmap[i - 1]
           arg == CHOOSE v \in Gen(prog, i) : TRUE
           def == CHOOSE v \in prog[i].def : TRUE
           type == FuncOf(prog, i).args[prog[i].arg + 1]
           nothing == <<>>
<1>1. /\ Start(i, {"getarg"}) /\ prog[i].code = "getarg"
      /\ prog[i].code \notin CallCodes /\ prog[i].code \notin {"prepare", "putarg"}
  BY DEF Getarg, Start, CallCodes
<1>2. GoodMap(map)
  BY <1>1, AtOperation
<1>3. ProgOK /\ Flow
  BY DEF IInv, Shape, LInv
<1>4. /\ \E v \in VReg : prog[i].def = {v} /\ v[1] = type
      /\ prog[i].use = {}
  BY <1>1, <1>3 DEF ProgOK, Typed, Ops
<1>5. def \in VReg /\ prog[i].def = {def} /\ TypeOf(def) = type /\ def \in Reg
  BY <1>4, VRegTypes
<1>6. arg = ArgReg(type, prog[i].arg) /\ Gen(prog, i) = {ArgReg(type, prog[i].arg)}
  BY <1>1, <1>4 DEF Gen
<1>7. def \notin Gen(prog, i)
  <2>1. def[2] = "REG"
    BY <1>5, AllocAssumption
  <2>2. ArgReg(type, prog[i].arg)[2] = "ARG"
    BY DEF ArgReg
  <2>3. QED
    BY <1>6, <2>1, <2>2
<1>8. def \notin live_in[i]
  BY <1>3, <1>5, <1>7, MadeHere
<1>9. CASE arg \in DOMAIN map \ live_out[i]
  <2> DEFINE new == Assoc(Unassoc(map, {arg}), def, map[arg])
  <2>1. Enter(new, <<>>, {}) /\ arg \in DOMAIN map
    BY <1>9 DEF Getarg
  <2>2. TypeOf(def) = TypeOf(arg)
    <3>1. TypeOf(ArgReg(type, prog[i].arg)) = type
      BY DEF ArgReg, TypeOf
    <3>2. QED
      BY <1>5, <1>6, <3>1
  <2> HIDE DEF arg, def
  <2>3. GoodMap(new)
    BY <1>2, <1>5, <2>1, <2>2, TakeOver, Zenon
  <2>4. \A v \in DOMAIN map \cap live_in[i] \cap live_out[i] : Safe(i, new, <<>>, v)
    BY <1>8, <1>9, GivenAway
  <2>5. "prepare" \notin {"getarg"} /\ prog[i].code # "putarg"
    BY <1>1
  <2> HIDE DEF new
  <2>6. QED
    BY <1>1, <2>1, <2>3, <2>4, <2>5, EnterNothing, Zenon
<1>10. CASE arg \notin DOMAIN map \ live_out[i]
  <2>1. Enter(map, nothing, Operands(i))
    BY <1>10 DEF Getarg
  <2>2. nothing \in Seq(Batches) /\ \A n \in 1 .. Len(nothing) : nothing[n].rename = {}
    OBVIOUS
  <2>3. \A v \in DOMAIN map \cap live_in[i] \cap live_out[i] : Safe(i, map, nothing, v)
    BY SameMap
  <2> HIDE DEF nothing, arg, def, type
  <2>4. QED
    BY <1>1, <1>2, <2>1, <2>2, <2>3, EnterSaves, Zenon
<1>11. QED
  BY <1>9, <1>10

LEMMA RetvalSaves ==
  ASSUME IInv, LInv, NEW i \in Ops, Retval(i)
  PROVE  LInv'
<1> DEFINE map == regmap[i - 1]
           def == CHOOSE v \in prog[i].def : TRUE
           new == Assoc(map, def, RetReg)
<1>1. Start(i, {"retval"}) /\ prog[i].code = "retval" /\ Enter(new, <<>>, {})
  BY DEF Retval, Start
<1>2. ProgOK /\ Flow
  BY DEF IInv, Shape, LInv
<1>3. (\E v \in VReg : prog[i].def = {v}) /\ prog[i].use = {}
  BY <1>1, <1>2 DEF ProgOK, Typed, Ops
<1>4. prog[i].def = {def} /\ Gen(prog, i) = {}
  BY <1>1, <1>3 DEF Gen
<1>5. def \notin live_in[i]
  BY <1>2, <1>4, MadeHere
<1>6. IInv'
  BY RetvalKeeps
<1>7. GoodMap(new)
  <2>1. i - 1 \in 1 .. Last /\ i = Last + 1 /\ regmap \in Seq(RegMaps) /\ Last = Len(regmap)
    BY <1>1, AtOperation DEF IInv, Shape, Last
  <2>2. regmap' = Append(regmap, new)
    BY <1>1 DEF Enter
  <2> HIDE DEF new
  <2>3. Len(regmap') = i /\ regmap'[i] = new
    BY <2>1, <2>2
  <2>4. i \in 1 .. Last'
    BY <2>1, <2>3 DEF Last
  <2>5. GoodMap(regmap'[i])
    BY <1>6, <2>4 DEF IInv, AllGood, GoodMap, One, RegMaps
  <2>6. QED
    BY <2>3, <2>5
<1>8. \A v \in DOMAIN map \cap live_in[i] \cap live_out[i] : Safe(i, new, <<>>, v)
  BY <1>5 DEF Safe, Kept, Assoc
<1>9. "prepare" \notin {"retval"} /\ prog[i].code # "putarg"
  BY <1>1
<1> HIDE DEF new
<1>10. QED
  BY <1>1, <1>7, <1>8, <1>9, EnterNothing, Zenon

\* A callee-saved register passes no argument.
LEMMA NotAnArgument ==
  ASSUME NEW h \in CalleeSaved, NEW m, NEW n
  PROVE  h \notin FirstArgs(GpArgs, m) \cup FirstArgs(FpArgs, n)
<1>1. /\ h \in GpRegs /\ h \notin FpRegs
      /\ \A j \in 1 .. Len(GpArgs) : h # GpArgs[j]
      /\ \A j \in 1 .. Len(FpArgs) : FpArgs[j] \in FpRegs
  BY AllocAssumption
<1>2. QED
  BY <1>1 DEF FirstArgs

\* A PREPARE keeps, saves or moves what was in map before it, and saves what it
\* leaves in the registers of results.
LEMMA PrepareWithSaves ==
  ASSUME IInv, LInv, NEW i \in Ops, Start(i, {"prepare"}),
         NEW renamed, GoodMap(renamed), NEW pairs \in SUBSET (HwReg \X HwReg), NEW saved,
         PrepareWith(i, renamed, pairs, saved),
         DOMAIN renamed = DOMAIN regmap[i - 1],
         \A v \in DOMAIN renamed :
           \/ renamed[v] = regmap[i - 1][v]
           \/ /\ renamed[v] \in CalleeSaved
              /\ <<renamed[v], regmap[i - 1][v]>> \in pairs,
         \A v \in DOMAIN renamed \cap live_out[i] : renamed[v] = RetReg => v \in saved
  PROVE  LInv'
<1> DEFINE old == regmap[i - 1]
           given == FirstArgs(GpArgs, Cardinality(Putargs(i, "INT")))
                      \cup FirstArgs(FpArgs, Cardinality(Putargs(i, "FLOAT")))
           args == In(renamed, given)
           kept == saved \cup In(renamed, {FpRetReg}) \cup args
           save == Only(renamed, kept)
           batch == Batch(save, pairs, Empty)
           inserted == <<batch>>
           map == Unassoc(renamed, args)
           none == {}
<1>1. Enter(map, inserted, none) /\ prog[i].code = "prepare"
  BY DEF PrepareWith, Start
<1>2. \A h \in CalleeSaved : h \notin given
  BY NotAnArgument
<1> HIDE DEF given
<1>3. /\ save \in RegMaps
      /\ DOMAIN save = DOMAIN renamed \cap kept
      /\ \A v \in DOMAIN renamed \cap kept : save[v] = renamed[v]
  BY OnlyType DEF GoodMap
<1>4. /\ GoodMap(map)
      /\ DOMAIN map = DOMAIN renamed \ args
      /\ \A v \in DOMAIN renamed \ args : map[v] = renamed[v]
  BY UnassocGood
<1>5. \A v \in args : renamed[v] \in given
  BY Held
<1>6. \A v \in DOMAIN renamed : renamed[v] = FpRetReg => v \in kept
  BY Held
<1>7. args \subseteq kept /\ saved \subseteq kept
  OBVIOUS
<1> HIDE DEF save, map, kept, args
<1>8. /\ inserted \in Seq(Batches) /\ Len(inserted) = 1
      /\ inserted[1].save = save /\ inserted[1].rename = pairs
  BY <1>3, BatchType, EmptyMap DEF Batch
<1> HIDE DEF batch, inserted
<1>9. ASSUME NEW v \in DOMAIN old, v \in kept, renamed[v] = old[v]
      PROVE  Stored(old, inserted, v)
  BY <1>3, <1>8, <1>9 DEF Stored
<1>10. ASSUME NEW v \in DOMAIN old
       PROVE  Safe(i, map, inserted, v)
  <2>1. CASE renamed[v] = old[v] /\ v \in args
    BY <1>7, <1>9, <2>1 DEF Safe
  <2>2. CASE renamed[v] = old[v] /\ v \notin args
    BY <1>4, <2>2 DEF Safe, Kept
  <2>3. CASE renamed[v] \in CalleeSaved /\ <<renamed[v], old[v]>> \in pairs
    <3>1. v \in DOMAIN map /\ map[v] = renamed[v]
      BY <1>2, <1>4, <1>5, <2>3
    <3>2. Moved(old, map, inserted, v)
      BY <1>8, <2>3, <3>1 DEF Moved
    <3>3. QED
      BY <3>2 DEF Safe
  <2>4. QED
    BY <2>1, <2>2, <2>3
<1>11. ASSUME NEW v \in DOMAIN map \cap live_out[i], map[v] \in {RetReg, FpRetReg}
       PROVE  SavedHere(i, inserted, v)
  <2>1. v \in DOMAIN renamed /\ map[v] = renamed[v]
    BY <1>4
  <2>2. v \in kept
    BY <1>6, <1>7, <1>11, <2>1
  <2>3. renamed[v] \notin CalleeSaved
    BY <1>11, <2>1, Hardware
  <2>4. Stored(old, inserted, v)
    BY <1>9, <2>1, <2>2, <2>3
  <2>5. QED
    BY <1>1, <2>4 DEF SavedHere
<1>12. none # {} => prog[i].code \notin CallCodes
  OBVIOUS
<1> HIDE DEF none, old
<1>13. i > 1 /\ prog[i].code # "prolog" =>
         \A v \in DOMAIN regmap[i - 1] \cap live_in[i] \cap live_out[i] : Safe(i, map, inserted, v)
  BY <1>10 DEF old
<1>14. QED
  BY <1>1, <1>4, <1>8, <1>11, <1>12, <1>13, EnterSaves, Zenon

LEMMA PrepareSaves ==
  ASSUME IInv, LInv, NEW i \in Ops, Prepare(i)
  PROVE  LInv'
<1> DEFINE map == regmap[i - 1]
           alive == In(map, {RetReg}) \cap (live_in[i] \cup live_out[i])
           free == {h \in CalleeSaved : In(map, {h}) = {}}
           Renamed(h) == [v \in DOMAIN map |-> IF v \in alive THEN h ELSE map[v]]
<1>1. Start(i, {"prepare"})
  BY DEF Prepare
<1>2. GoodMap(map)
  BY <1>1, AtOperation
<1>3. \/ \E h \in free : PrepareWith(i, Renamed(h), {<<h, RetReg>>}, {})
      \/ PrepareWith(i, map, {}, alive)
  BY DEF Prepare
<1>4. /\ \A v \in alive : v \in DOMAIN map /\ map[v] = RetReg
      /\ \A v \in DOMAIN map \cap live_out[i] : map[v] = RetReg => v \in alive
  BY Held
<1>5. ASSUME NEW h \in free, PrepareWith(i, Renamed(h), {<<h, RetReg>>}, {})
      PROVE  LInv'
  <2> DEFINE pairs == {<<h, RetReg>>}
             nobody == {}
  <2>1. GoodMap(Renamed(h)) /\ PrepareWith(i, Renamed(h), pairs, nobody)
    BY <1>2, <1>5, RenameGood
  <2>2. pairs \in SUBSET (HwReg \X HwReg)
    BY Hardware
  <2>3. h \in CalleeSaved /\ h # RetReg
    BY Hardware
  <2>4. /\ DOMAIN Renamed(h) = DOMAIN map
        /\ \A v \in DOMAIN map : Renamed(h)[v] = IF v \in alive THEN h ELSE map[v]
    OBVIOUS
  <2> HIDE DEF Renamed, alive
  <2>5. \A v \in DOMAIN Renamed(h) :
          \/ Renamed(h)[v] = map[v]
          \/ /\ Renamed(h)[v] \in CalleeSaved
             /\ <<Renamed(h)[v], map[v]>> \in pairs
    BY <1>4, <2>3, <2>4
  <2>6. \A v \in DOMAIN Renamed(h) \cap live_out[i] : Renamed(h)[v] = RetReg => v \in nobody
    BY <1>4, <2>3, <2>4
  <2> HIDE DEF pairs, nobody
  <2>7. QED
    BY <1>1, <2>1, <2>2, <2>4, <2>5, <2>6, PrepareWithSaves, Zenon
<1>6. ASSUME PrepareWith(i, map, {}, alive)
      PROVE  LInv'
  <2>1. {} \in SUBSET (HwReg \X HwReg)
    OBVIOUS
  <2>2. \A v \in DOMAIN map \cap live_out[i] : map[v] = RetReg => v \in alive
    BY <1>4
  <2> HIDE DEF alive
  <2>3. QED
    BY <1>1, <1>2, <1>6, <2>1, <2>2, PrepareWithSaves, Zenon
<1>7. QED
  BY <1>3, <1>5, <1>6

-----------------------------------------------------------------------------
(* The other actions                                                       *)

LEMMA MapsStay ==
  ASSUME IInv, LInv, UNCHANGED <<input, regmap, moves>>, todo' \subseteq todo
  PROVE  LInv'
<1>1. UNCHANGED <<prog, live_in, live_out, regmap, moves>> /\ Last' = Last
  BY DEF input, Last
<1>2. Flow' /\ Quiet'
  BY <1>1 DEF LInv, Flow, Quiet
<1>3. Last \in Nat /\ Last <= Last
  BY DEF IInv, Shape, Last
<1>4. AllSafe' /\ ResultsSaved'
  BY <1>1, <1>3, EarlierStay DEF AllSafe, ResultsSaved
<1>5. QED
  BY <1>2, <1>4 DEF LInv

\* A value whose register is taken for an operand is saved if it is alive.
LEMMA TakeRegisterSaves ==
  ASSUME IInv, LInv, NEW h \in HwReg, TakeRegister(h)
  PROVE  LInv'
<1>0. PICK last \in Nat : last = Last
  BY DEF IInv, Shape, Last
<1> DEFINE operand == NextOperand
           map == regmap[last]
           victim == In(map, {h})
           rest == Unassoc(map, victim)
           new == Assoc(rest, operand, h)
           save == Only(map, victim \cap live_in[last])
           batch == Batch(save, {}, Only([w \in {operand} |-> h], live_in[last]))
           inserted == Append(moves[last], batch)
<1>1. /\ todo # {} /\ operand \notin DOMAIN map
      /\ regmap' = [regmap EXCEPT ![last] = new]
      /\ moves' = [moves EXCEPT ![last] = inserted]
      /\ todo' \subseteq todo
      /\ UNCHANGED <<prog, live_in, live_out>>
  BY <1>0 DEF TakeRegister, input
<1>2. /\ last \in Nat /\ last > 0 /\ last = Len(regmap) /\ last = Len(moves)
      /\ regmap \in Seq(RegMaps) /\ moves \in Seq(Seq(Batches))
  BY <1>0, <1>1 DEF IInv, Shape, Calls, Last
<1>3. prog[last].code \notin CallCodes
  BY <1>0, <1>1 DEF LInv, Quiet
<1>4. map \in RegMaps
  BY <1>0, <1>2 DEF IInv, AllGood, GoodMap
<1>5. /\ DOMAIN rest = DOMAIN map \ victim
      /\ \A v \in DOMAIN map \ victim : rest[v] = map[v]
  BY DEF Unassoc, Only
<1>6. /\ DOMAIN save = DOMAIN map \cap victim \cap live_in[last]
      /\ \A v \in DOMAIN map \cap victim \cap live_in[last] : save[v] = map[v]
  BY DEF Only
<1>7. batch.save = save /\ batch.rename = {}
  BY DEF Batch
<1> HIDE DEF rest, save
<1>8. \A v \in DOMAIN rest : v # operand => v \in DOMAIN new /\ new[v] = rest[v]
  BY DEF Assoc
<1> HIDE DEF new, batch, victim, map, operand
<1>9. /\ Len(regmap') = last /\ regmap'[last] = new /\ moves'[last] = inserted
      /\ \A j \in 1 .. last - 1 : regmap'[j] = regmap[j] /\ moves'[j] = moves[j]
  <2>1. IInv'
    BY TakeRegisterKeeps
  <2>2. DOMAIN regmap' = 1 .. last /\ regmap'[last] = new
    <3>1. DOMAIN regmap = 1 .. last
      <4>1. regmap \in Seq(RegMaps) /\ Len(regmap) = last
        BY <1>2
      <4>2. QED
        BY <4>1
    <3>2. regmap' = [regmap EXCEPT ![last] = new]
      BY <1>1
    <3>3. QED
      BY <1>2, <3>1, <3>2
  <2>3. regmap' \in Seq(RegMaps)
    BY <2>1 DEF IInv, Shape
  <2>4. Len(regmap') = last
    BY <1>2, <2>2, <2>3
  <2>5. QED
    BY <1>1, <1>2, <2>2, <2>4
<1>10. Last' = last
  BY <1>9 DEF Last
<1> USE <1>0
<1>11. /\ Len(inserted) = Len(moves[last]) + 1 /\ inserted[Len(inserted)] = batch
       /\ Len(moves[last]) \in Nat
       /\ \A n \in 1 .. Len(moves[last]) : inserted[n] = moves[last][n]
  <2>1. moves[last] \in Seq(Batches)
    BY <1>2
  <2>2. QED
    BY <2>1
<1> HIDE DEF inserted
<1>12. \A n \in 1 .. Len(inserted) : n \in 1 .. Len(moves[last]) \/ inserted[n] = batch
  BY <1>11
<1>13. \A n \in 1 .. Len(moves[last]) : n \in 1 .. Len(inserted)
  BY <1>11
<1>14. Flow'
  BY <1>1 DEF LInv, Flow
<1>15. Quiet'
  <2>1. todo' # {} => prog'[last].code \notin CallCodes
    BY <1>1, <1>3
  <2>2. ASSUME NEW j \in 1 .. last, prog[j].code # "prepare", NEW n \in 1 .. Len(moves'[j])
        PROVE  moves'[j][n].rename = {}
    <3>1. CASE j = last
      BY <1>2, <1>7, <1>9, <1>11, <1>12, <2>2, <3>1 DEF LInv, Quiet
    <3>2. CASE j \in 1 .. last - 1
      BY <1>2, <1>9, <2>2, <3>2 DEF LInv, Quiet
    <3>3. QED
      BY <1>2, <3>1, <3>2
  <2>3. QED
    BY <1>1, <1>10, <2>1, <2>2 DEF Quiet
<1>16. /\ \A j \in 2 .. last - 1 : prog'[j].code # "prolog" =>
            \A v \in DOMAIN regmap'[j - 1] \cap live_in'[j] \cap live_out'[j] :
              Safe(j, regmap[j], moves[j], v)'
       /\ \A j \in 2 .. last - 1 : prog'[j].code \in {"prepare", "putarg"} =>
            \A v \in DOMAIN regmap'[j] \cap live_out'[j] :
              regmap'[j][v] \in {RetReg, FpRetReg} => SavedHere(j, moves[j], v)'
  <2>1. last - 1 \in Nat /\ last - 1 <= Last /\ Last \in Nat
    BY <1>2
  <2>2. QED
    BY <1>1, <1>9, <2>1, EarlierStay
<1>17. ASSUME last > 1, prog[last].code # "prolog",
              NEW v \in DOMAIN regmap'[last - 1] \cap live_in[last] \cap live_out[last]
       PROVE  Safe(last, regmap[last], moves[last], v)'
  <2> DEFINE old == regmap[last - 1]
  <2>1. regmap'[last - 1] = old
    BY <1>2, <1>9, <1>17
  <2>2. Safe(last, map, moves[last], v)
    BY <1>2, <1>17, <2>1 DEF LInv, AllSafe, map
  <2>3. ~Moved(old, map, moves[last], v) /\ prog[last].code # "call"
    <3>1. prog[last].code # "prepare" /\ prog[last].code # "call"
      BY <1>3 DEF CallCodes
    <3>2. \A n \in 1 .. Len(moves[last]) : moves[last][n].rename = {}
      BY <1>2, <3>1 DEF LInv, Quiet
    <3>3. QED
      BY <3>1, <3>2 DEF Moved
  <2> HIDE DEF old
  <2>4. CASE Stored(old, moves[last], v)
    <3>1. Stored(old, inserted, v)
      BY <1>11, <1>13, <2>4 DEF Stored
    <3>2. QED
      BY <1>9, <2>1, <3>1 DEF Safe, Stored
  <2>5. CASE Kept(old, map, v) /\ v \in victim
    <3>1. v \in DOMAIN batch.save /\ batch.save[v] = old[v]
      BY <1>6, <1>7, <2>5 DEF Kept
    <3>2. Stored(old, inserted, v)
      BY <1>11, <3>1 DEF Stored
    <3>3. QED
      BY <1>9, <2>1, <3>2 DEF Safe, Stored
  <2>6. CASE Kept(old, map, v) /\ v \notin victim
    <3>1. Kept(old, new, v)
      BY <1>1, <1>5, <1>8, <2>6 DEF Kept
    <3>2. QED
      BY <1>9, <2>1, <3>1 DEF Safe, Kept
  <2>7. QED
    BY <2>2, <2>3, <2>4, <2>5, <2>6 DEF Safe, old
<1>18. \A j \in 2 .. last : j \in 2 .. last - 1 \/ (j = last /\ last > 1)
  BY <1>2
<1>19. AllSafe'
  <2> SUFFICES ASSUME NEW j \in 2 .. last, prog'[j].code # "prolog",
                      NEW v \in DOMAIN regmap'[j - 1] \cap live_in'[j] \cap live_out'[j]
               PROVE  Safe(j, regmap[j], moves[j], v)'
    BY <1>10 DEF AllSafe
  <2>1. CASE j \in 2 .. last - 1
    BY <1>16, <2>1
  <2>2. CASE j = last /\ last > 1
    BY <1>1, <1>17, <2>2
  <2>3. QED
    BY <1>18, <2>1, <2>2
<1>20. ResultsSaved'
  <2> SUFFICES ASSUME NEW j \in 2 .. last, prog'[j].code \in {"prepare", "putarg"},
                      NEW v \in DOMAIN regmap'[j] \cap live_out'[j],
                      regmap'[j][v] \in {RetReg, FpRetReg}
               PROVE  SavedHere(j, moves[j], v)'
    BY <1>10 DEF ResultsSaved
  <2>1. j # last
    BY <1>1, <1>3 DEF CallCodes
  <2>2. QED
    BY <1>16, <1>18, <2>1
<1>21. QED
  BY <1>14, <1>15, <1>19, <1>20 DEF LInv

LEMMA NextLInv == IInv /\ LInv /\ [Next]_alloc => LInv'
<1> SUFFICES ASSUME IInv, LInv, [Next]_alloc PROVE LInv'
  OBVIOUS
<1>1. ASSUME NEW i \in Ops,
             Prolog(i) \/ Plain(i) \/ Putarg(i) \/ Getarg(i) \/ Prepare(i) \/ Call(i) \/ Retval(i)
      PROVE  LInv'
  BY <1>1, PrologSaves, PlainSaves, PutargSaves, GetargSaves, PrepareSaves, CallSaves, RetvalSaves
<1>2. CASE KeepRegister
  BY <1>2, MapsStay DEF KeepRegister
<1>3. ASSUME NEW h \in HwReg, TakeRegister(h) PROVE LInv'
  BY <1>3, TakeRegisterSaves
<1>4. CASE AssignDone
  BY <1>4, MapsStay DEF AssignDone
<1>5. CASE AdjustBranches
  BY <1>5, MapsStay DEF AdjustBranches
<1>6. CASE AdjustJumps
  BY <1>6, MapsStay DEF AdjustJumps
<1>7. CASE UNCHANGED alloc
  BY <1>7, MapsStay DEF alloc
<1>8. QED
  BY <1>1, <1>2, <1>3, <1>4, <1>5, <1>6, <1>7, Zenon DEF Next

-----------------------------------------------------------------------------
(* Theorem                                                                 *)

\* Whatever the program and the scores: a value that is needed later never loses
\* its register without having been saved to the stack frame or moved, where the
\* operation takes the register or, for the results of a call, where the call was
\* prepared.
THEOREM NothingIsLost == Spec => []NothingLost
<1>1. LInv => NothingLost
  BY DEF LInv, AllSafe, Safe, StoredBefore, NothingLost
<1>2. Init => IInv /\ LInv
  BY InitIInv, InitLInv
<1>3. IInv /\ LInv /\ [Next]_alloc => (IInv /\ LInv)'
  BY NextIInv, NextLInv
<1>4. QED
  BY <1>1, <1>2, <1>3, PTL DEF Spec

-----------------------------------------------------------------------------
(* What the allocator inserts takes every value that is alive from where   *)
(* the map before an operation has it to where the map of the operation    *)
(* has it.  This is what the code that is generated from it relies on      *)
(* (JitExecProofs.tla).                                                    *)
(*                                                                         *)
(* An operation with several batches goes through several maps, of which   *)
(* only the last one is kept: the invariant says that there have been such *)
(* maps (Path), one before and one after each batch, and that each batch   *)
(* leads from one to the next (Leads).                                     *)

(* Facts about a program p, apart from the state.                          *)

OperandsOf(p, i) == p[i].def \cup p[i].use
DefOf(p, i) == CHOOSE v \in p[i].def : TRUE
ArgOf(p, i) == CHOOSE v \in Gen(p, i) : TRUE
ArgsOf(p, i) == FuncOf(p, i).args
TargetOf(p, i) == p[i].jmp

\* The registers that the arguments of the call after a PREPARE are put into.
GivenOf(p, i) ==
  LET call == CHOOSE c \in i .. Len(p) :
                /\ p[c].code = "call"
                /\ \A k \in i .. c - 1 : p[k].code # "call"
      passed(type) == {k \in i .. call : p[k].code = "putarg" /\ p[k].args = <<type>>}
  IN  FirstArgs(GpArgs, Cardinality(passed("INT")))
        \cup FirstArgs(FpArgs, Cardinality(passed("FLOAT")))

\* Two operations of the same function.
Together(p, i, j) ==
  \A s \in 1 .. Len(p) : p[s].code = "prolog" => (s <= i <=> s <= j)

\* What the function of i names: the operands of its operations and the arguments
\* that it is passed in registers.
IsOperand(p, i, v) ==
  v \in VReg /\ \E n \in 1 .. Len(p) : Together(p, n, i) /\ v \in OperandsOf(p, n)
Named(p, i, v) == IsOperand(p, i, v) \/ v \in DOMAIN ArgMap(ArgsOf(p, i))

\* An argument is where the PROLOG had it or in the stack frame.
Local(p, i, map) ==
  \A v \in DOMAIN map : \/ IsOperand(p, i, v)
                        \/ /\ v \in DOMAIN ArgMap(ArgsOf(p, i))
                           /\ map[v] = ArgMap(ArgsOf(p, i))[v]

-----------------------------------------------------------------------------
(* What a batch does, between the maps m and n, for the values in L.       *)

Unnamed(b, h) == \A r : <<h, r>> \notin b.rename
Unloaded(b, h) == \A v \in DOMAIN b.load : b.load[v] # h

\* The value is loaded, and if it was in a register it has been saved;
Fetched(m, b, n, v) ==
  /\ v \in DOMAIN b.load /\ b.load[v] = n[v]
  /\ Unnamed(b, n[v])
  /\ v \in DOMAIN m => v \in DOMAIN b.save
\* it is moved from the one register to the other;
Renamed(m, b, n, v) ==
  /\ v \in DOMAIN m /\ <<n[v], m[v]>> \in b.rename
  /\ \A r : <<n[v], r>> \in b.rename => r = m[v]
\* it stays, and nothing is put in its place.
Stays(m, b, n, v) ==
  v \in DOMAIN m /\ n[v] = m[v] /\ Unnamed(b, n[v]) /\ Unloaded(b, n[v])

Leads(m, b, n, L) ==
  /\ \A v \in DOMAIN b.save : v \in DOMAIN m
  /\ \A v \in DOMAIN b.save : b.save[v] = m[v]
  /\ \A v \in DOMAIN m \cap L : v \in DOMAIN n \/ v \in DOMAIN b.save
  /\ \A v \in DOMAIN n \cap L : Fetched(m, b, n, v) \/ Renamed(m, b, n, v) \/ Stays(m, b, n, v)
  /\ \A v, w \in DOMAIN b.load : b.load[v] = b.load[w] => v = w

Path(ms, old, batches, map, L) ==
  /\ ms \in Seq(RegMaps) /\ Len(ms) = Len(batches) + 1
  /\ ms[1] = old /\ ms[Len(ms)] = map
  /\ \A n \in 1 .. Len(batches) : Leads(ms[n], batches[n], ms[n + 1], L)

-----------------------------------------------------------------------------
(* What the allocator has made of the operation i of p: in and out are the *)
(* liveness of p, old and map the maps before and after, gone is {i} if    *)
(* the operation is eliminated, and waiting holds the operands that have   *)
(* no register yet.                                                        *)

Ordinary == {"op", "ret", "branch", "bms", "jmp", "label", "fretval", "getarg", "prepare"}

Still(old, map, batches, waiting) == map = old /\ batches = <<>> /\ waiting = {}

Served(p, in, i, map, batches, waiting) ==
  /\ waiting \subseteq OperandsOf(p, i)
  /\ p[i].code # "prepare" => OperandsOf(p, i) \subseteq DOMAIN map \cup waiting
  /\ p[i].code = "prepare" => waiting = {} /\ In(map, GivenOf(p, i)) = {}
  /\ \A n \in 1 .. Len(batches) : DOMAIN batches[n].load \subseteq in[i] \cap OperandsOf(p, i)

OpOK(p, in, out, i, old, map, batches, gone, waiting) ==
  /\ p[i].code \in {"putarg", "label"} => Still(old, map, batches, waiting)
  /\ p[i].code = "call" =>
       Still(Unassoc(old, In(old, {RetReg, FpRetReg})), map, batches, waiting)
  /\ p[i].code = "retval" => Still(Assoc(old, DefOf(p, i), RetReg), map, batches, waiting)
  /\ i \in gone =>
       /\ p[i].code = "getarg"
       /\ ArgOf(p, i) \in DOMAIN old \ out[i]
       /\ Still(Assoc(Unassoc(old, {ArgOf(p, i)}), DefOf(p, i), old[ArgOf(p, i)]),
                map, batches, waiting)
  /\ i \notin gone /\ p[i].code \in Ordinary =>
       /\ \E ms : Path(ms, old, batches, map, in[i])
       /\ Served(p, in, i, map, batches, waiting)
  /\ \A n \in 1 .. Len(batches) : \A v \in DOMAIN batches[n].save : Named(p, i, v)

-----------------------------------------------------------------------------
(* The invariant.                                                          *)

Waiting(i) == IF i = Last THEN todo ELSE {}

OpsOK ==
  \A i \in 2 .. Last : prog[i].code # "prolog" =>
    OpOK(prog, live_in, live_out, i, regmap[i - 1], regmap[i], moves[i],
         eliminated \cap {i}, Waiting(i))

PrologsOK ==
  \A i \in 1 .. Last : prog[i].code = "prolog" =>
    /\ regmap[i] = ArgMap(prog[i].args) /\ moves[i] = <<>> /\ Waiting(i) = {}
    /\ i \notin eliminated

AllLocal == \A i \in 1 .. Last : Local(prog, i, regmap[i])

\* The moves on an edge, from the map of its jump to that of its target.
EdgeOf(p, in, out, i, cur, tgt) ==
  Batch(Differing(cur, tgt, DOMAIN cur \cap in[TargetOf(p, i)]), {},
        Differing(tgt, cur, DOMAIN tgt \cap out[i]))

EdgesOK ==
  /\ phase \in {"jumps", "done"} =>
       inverted = {i \in Ops : prog[i].code = "branch" /\ ~RmapEqual(i)}
  /\ phase = "done" =>
       /\ DOMAIN edge = {i \in Ops : prog[i].code = "jmp"} \cup inverted
       /\ \A i \in DOMAIN edge :
            edge[i] = EdgeOf(prog, live_in, live_out, i, regmap[i], regmap[Target(i)])

MInv == /\ OpsOK /\ PrologsOK /\ AllLocal /\ EdgesOK
        /\ eliminated \subseteq 1 .. Last

LEMMA InitMInv == Init => MInv
<1> SUFFICES ASSUME Init PROVE MInv
  OBVIOUS
<1>1. Last = 0 /\ eliminated = {} /\ phase = "assign"
  BY DEF Init, Last
<1>2. QED
  BY <1>1 DEF MInv, OpsOK, PrologsOK, AllLocal, EdgesOK

-----------------------------------------------------------------------------
(* Entering an operation                                                   *)

LEMMA EnterMoves ==
  ASSUME IInv, MInv, NEW i, NEW codes, Start(i, codes),
         NEW map, NEW inserted, NEW operands, Enter(map, inserted, operands),
         GoodMap(map), inserted \in Seq(Batches),
         NEW gone \in SUBSET {i}, eliminated' = eliminated \cup gone,
         prog[i].code = "prolog" =>
           map = ArgMap(prog[i].args) /\ inserted = <<>> /\ operands = {} /\ gone = {},
         prog[i].code # "prolog" =>
           OpOK(prog, live_in, live_out, i, regmap[i - 1], map, inserted, gone, operands),
         Local(prog, i, map)
  PROVE  MInv'
<1>1. /\ i \in Nat /\ i > 0 /\ Last = i - 1 /\ Last' = i
      /\ regmap'[i] = map /\ moves'[i] = inserted
      /\ \A j \in 1 .. i - 1 : regmap'[j] = regmap[j] /\ moves'[j] = moves[j]
      /\ prog' = prog /\ live_in' = live_in /\ live_out' = live_out /\ todo' = operands
  BY Entered
<1>2. eliminated \subseteq 1 .. i - 1 /\ todo = {} /\ phase = "assign" /\ phase' = phase
  BY <1>1 DEF MInv, Start, Enter
<1>3. /\ Waiting(i)' = operands
      /\ \A j \in 1 .. i - 1 : Waiting(j)' = Waiting(j)
  BY <1>1, <1>2 DEF Waiting
<1>4. /\ eliminated' \cap {i} = gone
      /\ \A j \in 1 .. i - 1 : eliminated' \cap {j} = eliminated \cap {j}
      /\ eliminated' \subseteq 1 .. i
  <2>1. i \notin 1 .. i - 1 /\ i \in 1 .. i /\ 1 .. i - 1 \subseteq 1 .. i
    BY <1>1
  <2>2. i \notin eliminated /\ \A j \in gone : j = i
    BY <1>2, <2>1
  <2>3. eliminated' = eliminated \cup gone
    OBVIOUS
  <2>4. eliminated' \cap {i} = gone
    BY <2>2, <2>3, Zenon
  <2>5. \A j \in 1 .. i - 1 : eliminated' \cap {j} = eliminated \cap {j}
    BY <2>1, <2>2, <2>3, Zenon
  <2>6. eliminated' \subseteq 1 .. i
    BY <1>2, <2>1, <2>2, <2>3, Zenon
  <2>7. QED
    BY <2>4, <2>5, <2>6
<1>5. /\ \A j \in 1 .. i : j = i \/ j \in 1 .. i - 1
      /\ \A j \in 2 .. i : (j = i /\ i > 1) \/ j \in 2 .. i - 1
      /\ \A j \in 2 .. i - 1 : j \in 1 .. i - 1 /\ j - 1 \in 1 .. i - 1
      /\ i > 1 => i - 1 \in 1 .. i - 1
  BY <1>1
<1>6. OpsOK'
  <2> SUFFICES ASSUME NEW j \in 2 .. i, prog[j].code # "prolog"
               PROVE  OpOK(prog', live_in', live_out', j, regmap'[j - 1], regmap'[j],
                           moves'[j], eliminated' \cap {j}, Waiting(j)')
    BY <1>1 DEF OpsOK
  <2>1. CASE j = i /\ i > 1
    <3>1. regmap'[j - 1] = regmap[i - 1]
      BY <1>1, <1>5, <2>1
    <3>2. QED
      BY <1>1, <1>3, <1>4, <2>1, <3>1, Zenon
  <2>2. CASE j \in 2 .. i - 1
    <3>1. /\ regmap'[j - 1] = regmap[j - 1] /\ regmap'[j] = regmap[j]
          /\ moves'[j] = moves[j] /\ eliminated' \cap {j} = eliminated \cap {j}
          /\ Waiting(j)' = Waiting(j)
      BY <1>1, <1>3, <1>4, <1>5, <2>2
    <3>2. OpOK(prog, live_in, live_out, j, regmap[j - 1], regmap[j], moves[j],
               eliminated \cap {j}, Waiting(j))
      BY <1>1, <2>2 DEF MInv, OpsOK
    <3>3. QED
      BY <1>1, <3>1, <3>2, Zenon
  <2>3. QED
    BY <1>5, <2>1, <2>2
<1>7. PrologsOK'
  <2> SUFFICES ASSUME NEW j \in 1 .. i, prog[j].code = "prolog"
               PROVE  /\ regmap'[j] = ArgMap(prog[j].args) /\ moves'[j] = <<>>
                      /\ Waiting(j)' = {} /\ j \notin eliminated'
    BY <1>1 DEF PrologsOK
  <2>1. CASE j = i
    BY <1>1, <1>2, <1>3, <2>1
  <2>2. CASE j \in 1 .. i - 1
    BY <1>1, <1>3, <1>4, <2>2 DEF MInv, PrologsOK
  <2>3. QED
    BY <1>5, <2>1, <2>2
<1>8. AllLocal'
  <2> SUFFICES ASSUME NEW j \in 1 .. i
               PROVE  Local(prog', j, regmap'[j])
    BY <1>1 DEF AllLocal
  <2>1. CASE j = i
    BY <1>1, <2>1
  <2>2. CASE j \in 1 .. i - 1
    BY <1>1, <2>2 DEF MInv, AllLocal
  <2>3. QED
    BY <1>5, <2>1, <2>2
<1>9. EdgesOK'
  BY <1>2 DEF EdgesOK
<1>10. QED
  BY <1>1, <1>4, <1>6, <1>7, <1>8, <1>9 DEF MInv

-----------------------------------------------------------------------------
(* Functions                                                               *)

LEMMA SameFunction ==
  ASSUME NEW p, Len(p) \in Nat, NEW i \in 1 .. Len(p), NEW j \in 1 .. Len(p), Together(p, i, j)
  PROVE  /\ FuncOf(p, i) = FuncOf(p, j)
         /\ \A v : IsOperand(p, i, v) <=> IsOperand(p, j, v)
         /\ \A v : Named(p, i, v) <=> Named(p, j, v)
<1> DEFINE Prologs(n) == {s \in 1 .. n : p[s].code = "prolog"}
           Latest(S) == CHOOSE s \in S : \A k \in S : k <= s
<1>1. Prologs(i) = Prologs(j)
  BY DEF Together
<1>2. FuncOf(p, i) = p[Latest(Prologs(i))] /\ FuncOf(p, j) = p[Latest(Prologs(j))]
  BY DEF FuncOf
<1> HIDE DEF Prologs, Latest
<1>3. FuncOf(p, i) = FuncOf(p, j)
  BY <1>1, <1>2
<1>4. \A n \in 1 .. Len(p) : Together(p, n, i) <=> Together(p, n, j)
  BY DEF Together
<1>5. \A v : IsOperand(p, i, v) <=> IsOperand(p, j, v)
  BY <1>4, Zenon DEF IsOperand
<1>6. QED
  BY <1>3, <1>5, Zenon DEF Named, ArgsOf

LEMMA SameNames ==
  ASSUME NEW p, Len(p) \in Nat, NEW i \in 1 .. Len(p), NEW j \in 1 .. Len(p), Together(p, i, j),
         NEW map, Local(p, i, map)
  PROVE  Local(p, j, map)
<1>1. ArgsOf(p, i) = ArgsOf(p, j)
  BY SameFunction DEF ArgsOf
<1>2. \A v : IsOperand(p, i, v) => IsOperand(p, j, v)
  BY SameFunction
<1>3. QED
  BY <1>1, <1>2, Zenon DEF Local

\* Only a PROLOG begins another function.
LEMMA NextTogether ==
  ASSUME NEW p, Len(p) \in Nat, NEW i \in 2 .. Len(p), p[i].code # "prolog"
  PROVE  Together(p, i - 1, i) /\ i - 1 \in 1 .. Len(p) /\ i \in 1 .. Len(p)
<1>1. ASSUME NEW s \in 1 .. Len(p), p[s].code = "prolog"
      PROVE  s <= i - 1 <=> s <= i
  BY <1>1
<1>2. QED
  BY <1>1 DEF Together

LEMMA OwnFunction ==
  ASSUME ProgOK, NEW i \in Ops
  PROVE  \A v \in Operands(i) : v \in VReg /\ IsOperand(prog, i, v)
<1>1. Together(prog, i, i)
  BY DEF Together
<1>2. Operands(i) \subseteq VReg
  BY OperandsType
<1>3. QED
  BY <1>1, <1>2 DEF IsOperand, Operands, OperandsOf, Ops

LEMMA LocalLess ==
  ASSUME NEW p, NEW i, NEW map, Local(p, i, map), NEW S
  PROVE  Local(p, i, Only(map, S)) /\ Local(p, i, Unassoc(map, S))
<1>1. ASSUME NEW T
      PROVE  Local(p, i, Only(map, T))
  <2>1. DOMAIN Only(map, T) = DOMAIN map \cap T /\ \A v \in DOMAIN map \cap T : Only(map, T)[v] = map[v]
    BY DEF Only
  <2>2. QED
    BY <2>1 DEF Local
<1>2. QED
  BY <1>1 DEF Unassoc

LEMMA LocalMore ==
  ASSUME NEW p, NEW i, NEW map, Local(p, i, map), NEW v, IsOperand(p, i, v), NEW h
  PROVE  Local(p, i, Assoc(map, v, h))
<1>1. /\ DOMAIN Assoc(map, v, h) = DOMAIN map \cup {v}
      /\ \A w \in DOMAIN map : w # v => Assoc(map, v, h)[w] = map[w]
  BY DEF Assoc
<1>2. QED
  BY <1>1 DEF Local

LEMMA LocalNamed ==
  ASSUME NEW p, NEW i, NEW map, Local(p, i, map)
  PROVE  \A v \in DOMAIN map : Named(p, i, v)
BY DEF Local, Named

\* The map before an operation is one of its function.
LEMMA LocalBefore ==
  ASSUME IInv, MInv, NEW i \in Ops, i - 1 \in 1 .. Last, prog[i].code # "prolog"
  PROVE  Local(prog, i, regmap[i - 1])
<1>1. Len(prog) \in Nat /\ i \in 2 .. Len(prog)
  BY DEF IInv, Shape, ProgOK, Ops
<1>2. Together(prog, i - 1, i) /\ i - 1 \in 1 .. Len(prog) /\ i \in 1 .. Len(prog)
  BY <1>1, NextTogether
<1>3. Local(prog, i - 1, regmap[i - 1])
  BY DEF MInv, AllLocal
<1>4. QED
  BY <1>1, <1>2, <1>3, SameNames

-----------------------------------------------------------------------------
(* The actions that enter an operation                                     *)

\* An operation that is entered with the map before it, to get its registers.
LEMMA EnteredOK ==
  ASSUME NEW p, NEW in, NEW out, NEW i, NEW map \in RegMaps,
         p[i].code \in Ordinary \ {"prepare"},
         p[i].code = "label" => OperandsOf(p, i) = {},
         NEW nothing, nothing = <<>>, NEW none, none = {}
  PROVE  OpOK(p, in, out, i, map, map, nothing, none, OperandsOf(p, i))
<1>1. \E ms : Path(ms, map, nothing, map, in[i])
  <2> DEFINE ms == <<map>>
  <2>1. ms \in Seq(RegMaps) /\ Len(ms) = 1 /\ ms[1] = map /\ Len(nothing) = 0
    OBVIOUS
  <2> HIDE DEF ms
  <2>2. Path(ms, map, nothing, map, in[i])
    BY <2>1 DEF Path
  <2>3. QED
    BY <2>2
<1>2. Served(p, in, i, map, nothing, OperandsOf(p, i))
  BY DEF Served
<1>3. p[i].code = "label" => Still(map, map, nothing, OperandsOf(p, i))
  BY DEF Still
<1>4. /\ p[i].code \notin {"putarg", "call", "retval"}
      /\ i \notin none
      /\ \A n \in 1 .. Len(nothing) : \A v \in DOMAIN nothing[n].save : Named(p, i, v)
  BY DEF Ordinary
<1>5. QED
  BY <1>1, <1>2, <1>3, <1>4, Zenon DEF OpOK

\* An operation that gives registers to no operand.
LEMMA StillOK ==
  ASSUME NEW p, NEW in, NEW out, NEW i, NEW old, NEW map, NEW gone \in SUBSET {i},
         p[i].code \in {"putarg", "label"} => map = old,
         p[i].code = "call" => map = Unassoc(old, In(old, {RetReg, FpRetReg})),
         p[i].code = "retval" => map = Assoc(old, DefOf(p, i), RetReg),
         gone # {} =>
           /\ p[i].code = "getarg"
           /\ ArgOf(p, i) \in DOMAIN old \ out[i]
           /\ map = Assoc(Unassoc(old, {ArgOf(p, i)}), DefOf(p, i), old[ArgOf(p, i)]),
         p[i].code \in Ordinary => gone # {},
         NEW nothing, nothing = <<>>, NEW none, none = {}
  PROVE  OpOK(p, in, out, i, old, map, nothing, gone, none)
<1>1. \A n \in 1 .. Len(nothing) : \A v \in DOMAIN nothing[n].save : Named(p, i, v)
  OBVIOUS
<1>2. Still(map, map, nothing, none)
  BY DEF Still
<1>3. gone # {} => i \in gone
  OBVIOUS
<1>4. QED
  BY <1>1, <1>2, <1>3, Zenon DEF OpOK

LEMMA PrologMoves ==
  ASSUME IInv, MInv, NEW i \in Ops, Prolog(i)
  PROVE  MInv'
<1> DEFINE nothing == <<>>
           none == {}
           map == ArgMap(prog[i].args)
<1>1. /\ Start(i, {"prolog"}) /\ prog[i].code = "prolog" /\ Enter(map, nothing, none)
      /\ eliminated' = eliminated \cup none /\ none \in SUBSET {i}
  BY DEF Prolog, Start
<1>2. GoodMap(map)
  BY <1>1, ArgMapGood DEF IInv, Shape
<1>3. nothing \in Seq(Batches) /\ nothing = <<>> /\ none = {}
  OBVIOUS
<1>4. Local(prog, i, map)
  <2>1. FuncOf(prog, i) = prog[i]
    <3> DEFINE S == {j \in 1 .. i : prog[j].code = "prolog"}
    <3>1. i \in S /\ \A k \in S : k <= i /\ k \in Nat
      BY <1>1 DEF Ops
    <3>2. \A j \in S : (\A k \in S : k <= j) => j = i
      BY <3>1 DEF Ops
    <3>3. (CHOOSE j \in S : \A k \in S : k <= j) = i
      BY <3>1, <3>2, Zenon
    <3>4. FuncOf(prog, i) = prog[CHOOSE j \in S : \A k \in S : k <= j]
      BY DEF FuncOf
    <3>5. QED
      BY <3>3, <3>4, Zenon
  <2>2. map = ArgMap(ArgsOf(prog, i))
    BY <2>1 DEF ArgsOf
  <2>3. QED
    BY <2>2, Zenon DEF Local
<1> HIDE DEF nothing, none
<1>5. /\ prog[i].code = "prolog" =>
           map = ArgMap(prog[i].args) /\ nothing = <<>> /\ none = {} /\ none = {}
      /\ prog[i].code # "prolog" =>
           OpOK(prog, live_in, live_out, i, regmap[i - 1], map, nothing, none, none)
  BY <1>1, <1>3
<1> HIDE DEF map
<1>6. QED
  BY <1>1, <1>2, <1>3, <1>4, <1>5, EnterMoves, Zenon

LEMMA PlainMoves ==
  ASSUME IInv, MInv, NEW i \in Ops, Plain(i)
  PROVE  MInv'
<1> DEFINE codes == {"op", "ret", "branch", "bms", "jmp", "label", "fretval"}
           map == regmap[i - 1]
           nothing == <<>>
           none == {}
<1>1. /\ Start(i, codes) /\ prog[i].code \in codes /\ "prolog" \notin codes
      /\ Enter(map, nothing, Operands(i)) /\ eliminated' = eliminated \cup none
      /\ none \in SUBSET {i} /\ nothing = <<>> /\ none = {} /\ nothing \in Seq(Batches)
  BY DEF Plain, Start
<1>2. /\ prog[i].code \in Ordinary \ {"prepare"} /\ prog[i].code # "prolog"
      /\ prog[i].code = "label" => OperandsOf(prog, i) = {}
  BY <1>1 DEF Ordinary, OperandsOf, IInv, Shape, ProgOK, Typed, Ops
<1> HIDE DEF codes, nothing, none, map
<1>3. GoodMap(map) /\ map \in RegMaps /\ i - 1 \in 1 .. Last
  BY <1>1, AtOperation DEF GoodMap, map
<1>4. Operands(i) = OperandsOf(prog, i)
  BY DEF Operands, OperandsOf
<1>5. OpOK(prog, live_in, live_out, i, map, map, nothing, none, Operands(i))
  <2>1. nothing = <<>> /\ none = {}
    BY <1>1
  <2>2. OpOK(prog, live_in, live_out, i, map, map, nothing, none, OperandsOf(prog, i))
    BY <1>2, <1>3, <2>1, EnteredOK
  <2>3. QED
    BY <1>4, <2>2, Zenon
<1>6. Local(prog, i, map)
  BY <1>2, <1>3, LocalBefore DEF map
<1>7. prog[i].code # "prolog" =>
        OpOK(prog, live_in, live_out, i, regmap[i - 1], map, nothing, none, Operands(i))
  BY <1>5 DEF map
<1>8. QED
  BY <1>1, <1>2, <1>3, <1>6, <1>7, EnterMoves, Zenon

\* Entering an operation that gives registers to no operand.
LEMMA EnterStill ==
  ASSUME IInv, MInv, NEW i \in Ops, NEW codes, Start(i, codes), "prolog" \notin codes,
         NEW map, Enter(map, <<>>, {}), GoodMap(map),
         NEW gone \in SUBSET {i}, eliminated' = eliminated \cup gone,
         prog[i].code = "putarg" => map = regmap[i - 1],
         prog[i].code # "label",
         prog[i].code = "call" =>
           map = Unassoc(regmap[i - 1], In(regmap[i - 1], {RetReg, FpRetReg})),
         prog[i].code = "retval" => map = Assoc(regmap[i - 1], DefOf(prog, i), RetReg),
         gone # {} =>
           /\ prog[i].code = "getarg"
           /\ ArgOf(prog, i) \in DOMAIN regmap[i - 1] \ live_out[i]
           /\ map = Assoc(Unassoc(regmap[i - 1], {ArgOf(prog, i)}), DefOf(prog, i),
                          regmap[i - 1][ArgOf(prog, i)]),
         prog[i].code \in Ordinary => gone # {},
         Local(prog, i, map)
  PROVE  MInv'
<1> DEFINE nothing == <<>>
           none == {}
<1>1. /\ Enter(map, nothing, none) /\ nothing \in Seq(Batches)
      /\ nothing = <<>> /\ none = {} /\ prog[i].code # "prolog"
  BY DEF Start
<1> HIDE DEF nothing, none
<1>2. OpOK(prog, live_in, live_out, i, regmap[i - 1], map, nothing, gone, none)
  <2> DEFINE old == regmap[i - 1]
  <2>1. prog[i].code \in {"putarg", "label"} => map = old
    OBVIOUS
  <2>2. /\ prog[i].code = "call" => map = Unassoc(old, In(old, {RetReg, FpRetReg}))
        /\ prog[i].code = "retval" => map = Assoc(old, DefOf(prog, i), RetReg)
        /\ gone # {} =>
             /\ prog[i].code = "getarg"
             /\ ArgOf(prog, i) \in DOMAIN old \ live_out[i]
             /\ map = Assoc(Unassoc(old, {ArgOf(prog, i)}), DefOf(prog, i), old[ArgOf(prog, i)])
    OBVIOUS
  <2> HIDE DEF old
  <2>3. OpOK(prog, live_in, live_out, i, old, map, nothing, gone, none)
    BY <1>1, <2>1, <2>2, StillOK, Zenon
  <2>4. QED
    BY <2>3 DEF old
<1>3. QED
  BY <1>1, <1>2, EnterMoves, Zenon

LEMMA PutargMoves ==
  ASSUME IInv, MInv, NEW i \in Ops, Putarg(i)
  PROVE  MInv'
<1> DEFINE map == regmap[i - 1]
           none == {}
<1>1. /\ Start(i, {"putarg"}) /\ prog[i].code = "putarg" /\ "prolog" \notin {"putarg"}
      /\ Enter(map, <<>>, {}) /\ eliminated' = eliminated \cup none
      /\ none \in SUBSET {i} /\ none = {}
  BY DEF Putarg, Start
<1>2. /\ prog[i].code # "prolog" /\ prog[i].code # "label" /\ prog[i].code # "call"
      /\ prog[i].code # "retval" /\ prog[i].code \notin Ordinary
  BY <1>1 DEF Ordinary
<1> HIDE DEF none
<1>3. GoodMap(map) /\ i - 1 \in 1 .. Last
  BY <1>1, AtOperation
<1>4. Local(prog, i, map)
  BY <1>2, <1>3, LocalBefore
<1>5. map = regmap[i - 1]
  OBVIOUS
<1> HIDE DEF map
<1>6. QED
  BY <1>1, <1>2, <1>3, <1>4, <1>5, EnterStill, Zenon

LEMMA CallMoves ==
  ASSUME IInv, MInv, NEW i \in Ops, Call(i)
  PROVE  MInv'
<1> DEFINE old == regmap[i - 1]
           map == Unassoc(old, In(old, {RetReg, FpRetReg}))
           none == {}
<1>1. /\ Start(i, {"call"}) /\ prog[i].code = "call" /\ "prolog" \notin {"call"}
      /\ Enter(map, <<>>, {}) /\ eliminated' = eliminated \cup none
      /\ none \in SUBSET {i} /\ none = {}
  BY DEF Call, Start
<1>2. /\ prog[i].code # "prolog" /\ prog[i].code # "label" /\ prog[i].code # "putarg"
      /\ prog[i].code # "retval" /\ prog[i].code \notin Ordinary
  BY <1>1 DEF Ordinary
<1>3. GoodMap(old) /\ i - 1 \in 1 .. Last
  BY <1>1, AtOperation
<1>4. Local(prog, i, old)
  BY <1>2, <1>3, LocalBefore
<1>5. GoodMap(map) /\ Local(prog, i, map)
  BY <1>3, <1>4, UnassocGood, LocalLess
<1>6. map = Unassoc(regmap[i - 1], In(regmap[i - 1], {RetReg, FpRetReg}))
  OBVIOUS
<1> HIDE DEF map, none
<1>7. QED
  BY <1>1, <1>2, <1>3, <1>5, <1>6, EnterStill, Zenon

\* What an operation that makes one register makes.
LEMMA MadeRegister ==
  ASSUME ProgOK, NEW i \in Ops, prog[i].code \in {"getarg", "retval", "fretval"}
  PROVE  /\ prog[i].def = {DefOf(prog, i)} /\ prog[i].use = {}
         /\ DefOf(prog, i) \in VReg /\ IsOperand(prog, i, DefOf(prog, i))
<1>1. (\E v \in VReg : prog[i].def = {v}) /\ prog[i].use = {}
  BY DEF ProgOK, Typed, Ops
<1>2. prog[i].def = {DefOf(prog, i)} /\ DefOf(prog, i) \in VReg
  BY <1>1 DEF DefOf
<1>3. DefOf(prog, i) \in Operands(i)
  BY <1>2 DEF Operands
<1>4. QED
  BY <1>1, <1>2, <1>3, OwnFunction

LEMMA GetargMoves ==
  ASSUME IInv, MInv, NEW i \in Ops, Getarg(i)
  PROVE  MInv'
<1> DEFINE map == regmap[i - 1]
           arg == ArgOf(prog, i)
           def == DefOf(prog, i)
           nothing == <<>>
           none == {}
<1>1. /\ Start(i, {"getarg"}) /\ prog[i].code = "getarg" /\ "prolog" \notin {"getarg"}
      /\ prog[i].code # "prolog"
  BY DEF Getarg, Start
<1>2. GoodMap(map) /\ map \in RegMaps /\ i - 1 \in 1 .. Last
  BY <1>1, AtOperation DEF GoodMap
<1>3. Local(prog, i, map)
  BY <1>1, <1>2, LocalBefore
<1>4. IsOperand(prog, i, def) /\ ProgOK
  BY <1>1, MadeRegister DEF IInv, Shape
<1>5. CASE arg \in DOMAIN map \ live_out[i]
  <2> DEFINE rest == Unassoc(map, {arg})
             new == Assoc(rest, def, map[arg])
             gone == {i}
  <2>1. Enter(new, <<>>, {}) /\ eliminated' = eliminated \cup gone
    BY <1>5 DEF Getarg, ArgOf, DefOf
  <2>2. Local(prog, i, rest)
    BY <1>3, LocalLess
  <2> HIDE DEF rest
  <2>3. Local(prog, i, new)
    BY <1>4, <2>2, LocalMore
  <2>4. GoodMap(new)
    <3>1. \E v \in VReg : prog[i].def = {v} /\ v[1] = FuncOf(prog, i).args[prog[i].arg + 1]
      BY <1>1, <1>4 DEF ProgOK, Typed, Ops
    <3>2. def \in Reg /\ TypeOf(def) = FuncOf(prog, i).args[prog[i].arg + 1]
      BY <3>1, VRegTypes DEF DefOf
    <3>3. arg = ArgReg(FuncOf(prog, i).args[prog[i].arg + 1], prog[i].arg)
      BY <1>1, <1>4, MadeRegister DEF ArgOf, Gen
    <3>4. TypeOf(arg) = FuncOf(prog, i).args[prog[i].arg + 1]
      <4> HIDE DEF arg
      <4>1. QED
        BY <3>3 DEF ArgReg, TypeOf
    <3>5. arg \in DOMAIN map /\ TypeOf(def) = TypeOf(arg)
      BY <1>5, <3>2, <3>4
    <3> HIDE DEF arg, def, map
    <3>6. QED
      BY <1>2, <3>2, <3>5, TakeOver, Zenon DEF rest
  <2>5. /\ prog[i].code # "putarg" /\ prog[i].code # "label" /\ prog[i].code # "call"
        /\ prog[i].code # "retval" /\ gone # {} /\ gone \in SUBSET {i}
    BY <1>1
  <2>6. gone # {} =>
          /\ prog[i].code = "getarg"
          /\ ArgOf(prog, i) \in DOMAIN regmap[i - 1] \ live_out[i]
          /\ new = Assoc(Unassoc(regmap[i - 1], {ArgOf(prog, i)}), DefOf(prog, i),
                         regmap[i - 1][ArgOf(prog, i)])
    BY <1>1, <1>5 DEF rest
  <2> HIDE DEF gone, new
  <2>7. QED
    BY <1>1, <2>1, <2>3, <2>4, <2>5, <2>6, EnterStill, Zenon
<1>6. CASE arg \notin DOMAIN map \ live_out[i]
  <2>1. /\ Enter(map, nothing, Operands(i)) /\ eliminated' = eliminated \cup none
        /\ none \in SUBSET {i} /\ nothing = <<>> /\ none = {} /\ nothing \in Seq(Batches)
    BY <1>6 DEF Getarg, ArgOf
  <2>2. prog[i].code \in Ordinary \ {"prepare"} /\ prog[i].code # "label"
    BY <1>1 DEF Ordinary
  <2>3. Operands(i) = OperandsOf(prog, i)
    BY DEF Operands, OperandsOf
  <2> HIDE DEF nothing, none, map
  <2>4. OpOK(prog, live_in, live_out, i, map, map, nothing, none, Operands(i))
    <3>1. nothing = <<>> /\ none = {}
      BY <2>1
    <3>2. OpOK(prog, live_in, live_out, i, map, map, nothing, none, OperandsOf(prog, i))
      BY <1>2, <2>2, <3>1, EnteredOK
    <3>3. QED
      BY <2>3, <3>2, Zenon
  <2>5. prog[i].code # "prolog" =>
          OpOK(prog, live_in, live_out, i, regmap[i - 1], map, nothing, none, Operands(i))
    BY <2>4 DEF map
  <2>6. QED
    BY <1>1, <1>2, <1>3, <2>1, <2>5, EnterMoves, Zenon
<1>7. QED
  BY <1>5, <1>6

LEMMA RetvalMoves ==
  ASSUME IInv, MInv, NEW i \in Ops, Retval(i)
  PROVE  MInv'
<1> DEFINE old == regmap[i - 1]
           def == DefOf(prog, i)
           map == Assoc(old, def, RetReg)
           none == {}
<1>1. /\ Start(i, {"retval"}) /\ prog[i].code = "retval" /\ "prolog" \notin {"retval"}
      /\ Enter(map, <<>>, {}) /\ eliminated' = eliminated \cup none
      /\ none \in SUBSET {i} /\ none = {}
  BY DEF Retval, Start, DefOf
<1>2. /\ prog[i].code # "prolog" /\ prog[i].code # "label" /\ prog[i].code # "putarg"
      /\ prog[i].code # "call" /\ prog[i].code \notin Ordinary
  BY <1>1 DEF Ordinary
<1>3. GoodMap(old) /\ i - 1 \in 1 .. Last /\ i = Last + 1
  BY <1>1, AtOperation
<1>4. Local(prog, i, old)
  BY <1>2, <1>3, LocalBefore
<1>5. IsOperand(prog, i, def)
  BY <1>1, MadeRegister DEF IInv, Shape
<1>6. map = Assoc(regmap[i - 1], DefOf(prog, i), RetReg)
  OBVIOUS
<1> HIDE DEF def, old
<1>7. Local(prog, i, map)
  BY <1>4, <1>5, LocalMore
<1> HIDE DEF map, none
<1>8. GoodMap(map)
  <2>1. IInv' /\ regmap' = Append(regmap, map)
    BY <1>1, RetvalKeeps DEF Enter
  <2>2. regmap \in Seq(RegMaps) /\ Last = Len(regmap)
    BY DEF IInv, Shape, Last
  <2>3. Len(regmap') = i /\ regmap'[i] = map /\ i \in 1 .. Last'
    BY <1>3, <2>1, <2>2 DEF Last
  <2>4. GoodMap(regmap'[i])
    BY <2>1, <2>3 DEF IInv, AllGood, GoodMap, One, RegMaps
  <2>5. QED
    BY <2>3, <2>4
<1>9. QED
  BY <1>1, <1>2, <1>6, <1>7, <1>8, EnterStill, Zenon

-----------------------------------------------------------------------------
(* PREPARE                                                                 *)

LEMMA GivenAt ==
  ASSUME NEW i
  PROVE  FirstArgs(GpArgs, Cardinality(Putargs(i, "INT")))
           \cup FirstArgs(FpArgs, Cardinality(Putargs(i, "FLOAT"))) = GivenOf(prog, i)
BY DEF GivenOf, Putargs, CallOf

LEMMA GivenPlaces ==
  ASSUME NEW p, NEW i
  PROVE  \A h \in CalleeSaved : h \notin GivenOf(p, i)
BY NotAnArgument, Zenon DEF GivenOf

\* The batch of a PREPARE: what it saves is read from where it was, what it renames
\* was nowhere else, and it loads nothing.
LEMMA PrepareLeads ==
  ASSUME NEW old, NEW map, NEW b, NEW L,
         DOMAIN map \subseteq DOMAIN old,
         \A v \in DOMAIN map :
           \/ map[v] = old[v] /\ \A r : <<map[v], r>> \notin b.rename
           \/ /\ <<map[v], old[v]>> \in b.rename
              /\ \A r : <<map[v], r>> \in b.rename => r = old[v],
         DOMAIN b.save \subseteq DOMAIN old,
         \A v \in DOMAIN b.save : b.save[v] = old[v],
         \A v \in DOMAIN old : v \in DOMAIN map \/ v \in DOMAIN b.save,
         DOMAIN b.load = {}
  PROVE  Leads(old, b, map, L)
<1>1. \A v \in DOMAIN map : Renamed(old, b, map, v) \/ Stays(old, b, map, v)
  BY DEF Renamed, Stays, Unnamed, Unloaded
<1>2. QED
  BY <1>1, Zenon DEF Leads

\* The pairs move what the renamed map has elsewhere, to callee-saved registers.
Renames(old, renamed, pairs, saved) ==
  \A v \in DOMAIN old :
    \/ renamed[v] = old[v] /\ \A r : <<renamed[v], r>> \notin pairs
    \/ /\ renamed[v] \in CalleeSaved /\ v \notin saved
       /\ <<renamed[v], old[v]>> \in pairs
       /\ \A r : <<renamed[v], r>> \in pairs => r = old[v]

LEMMA PrepareWithMoves ==
  ASSUME IInv, MInv, NEW i \in Ops, Start(i, {"prepare"}), eliminated' = eliminated,
         NEW old, old = regmap[i - 1], GoodMap(old),
         NEW renamed, GoodMap(renamed), Local(prog, i, renamed),
         NEW pairs \in SUBSET (HwReg \X HwReg), NEW saved,
         PrepareWith(i, renamed, pairs, saved),
         DOMAIN renamed = DOMAIN old,
         Renames(old, renamed, pairs, saved)
  PROVE  MInv'
<1> DEFINE given == FirstArgs(GpArgs, Cardinality(Putargs(i, "INT")))
                      \cup FirstArgs(FpArgs, Cardinality(Putargs(i, "FLOAT")))
           args == In(renamed, given)
           kept == saved \cup In(renamed, {FpRetReg}) \cup args
           save == Only(renamed, kept)
           batch == Batch(save, pairs, Empty)
           inserted == <<batch>>
           map == Unassoc(renamed, args)
           none == {}
<1>1. /\ Enter(map, inserted, none) /\ prog[i].code = "prepare" /\ none = {}
      /\ prog[i].code # "prolog" /\ none \in SUBSET {i} /\ eliminated' = eliminated \cup none
  BY DEF PrepareWith, Start
<1>2. given = GivenOf(prog, i) /\ \A h \in CalleeSaved : h \notin given /\ h # FpRetReg
  BY GivenAt, GivenPlaces, Hardware
<1> HIDE DEF given
<1>3. /\ save \in RegMaps
      /\ DOMAIN save = DOMAIN renamed \cap kept
      /\ \A v \in DOMAIN renamed \cap kept : save[v] = renamed[v]
  <2>1. renamed \in RegMaps
    BY DEF GoodMap
  <2> HIDE DEF kept
  <2>2. QED
    BY <2>1, OnlyType, Zenon
<1>4. /\ GoodMap(map) /\ map \in RegMaps
      /\ DOMAIN map = DOMAIN renamed \ args
      /\ \A v \in DOMAIN renamed \ args : map[v] = renamed[v]
  BY UnassocGood DEF GoodMap
<1>5. /\ \A v \in args : renamed[v] \in given
      /\ \A v \in DOMAIN renamed : renamed[v] \in given => v \in args
      /\ \A v \in In(renamed, {FpRetReg}) : renamed[v] = FpRetReg
  BY Held
<1>6. \A v \in DOMAIN save : v \in DOMAIN old /\ save[v] = old[v]
  <2> SUFFICES ASSUME NEW v \in DOMAIN renamed \cap kept
               PROVE  renamed[v] = old[v]
    BY <1>3
  <2>1. v \in saved \/ renamed[v] = FpRetReg \/ renamed[v] \in given
    BY <1>5
  <2> HIDE DEF kept, args
  <2>2. renamed[v] \notin CalleeSaved \/ v \in saved
    BY <1>2, <2>1
  <2>3. QED
    BY <2>2 DEF Renames
<1>7. args \subseteq kept
  OBVIOUS
<1>8. Local(prog, i, map)
  BY LocalLess
<1> HIDE DEF save, map, kept, args
<1>9. /\ inserted \in Seq(Batches) /\ Len(inserted) = 1 /\ inserted[1] = batch
      /\ batch.save = save /\ batch.rename = pairs /\ DOMAIN batch.load = {}
  BY <1>3, BatchType, EmptyMap DEF Batch, Empty
<1> HIDE DEF batch, inserted
<1>10. ASSUME NEW L
       PROVE  Leads(old, batch, map, L)
  <2>1. \A v \in DOMAIN map :
           \/ map[v] = old[v] /\ \A r : <<map[v], r>> \notin pairs
           \/ /\ <<map[v], old[v]>> \in pairs
              /\ \A r : <<map[v], r>> \in pairs => r = old[v]
    BY <1>4 DEF Renames
  <2>2. /\ DOMAIN batch.save \subseteq DOMAIN old
        /\ \A v \in DOMAIN batch.save : batch.save[v] = old[v]
    BY <1>6, <1>9
  <2>3. DOMAIN map \subseteq DOMAIN old
    BY <1>4
  <2>4. \A v \in DOMAIN old : v \in DOMAIN map \/ v \in DOMAIN batch.save
    BY <1>3, <1>4, <1>7, <1>9
  <2>5. batch.rename = pairs /\ DOMAIN batch.load = {}
    BY <1>9
  <2>6. QED
    BY <2>1, <2>2, <2>3, <2>4, <2>5, PrepareLeads, Zenon
<1>11. \E ms : Path(ms, old, inserted, map, live_in[i])
  <2> DEFINE ms == <<old, map>>
  <2>1. ms \in Seq(RegMaps) /\ Len(ms) = 2 /\ ms[1] = old /\ ms[2] = map
    BY <1>4 DEF GoodMap
  <2> HIDE DEF ms
  <2>2. \A n \in 1 .. Len(inserted) : n = 1
    BY <1>9
  <2>3. Leads(ms[1], inserted[1], ms[1 + 1], live_in[i])
    BY <1>9, <1>10, <2>1
  <2>4. \A n \in 1 .. Len(inserted) : Leads(ms[n], inserted[n], ms[n + 1], live_in[i])
    BY <2>2, <2>3
  <2>5. Path(ms, old, inserted, map, live_in[i])
    BY <1>9, <2>1, <2>4 DEF Path
  <2>6. QED
    BY <2>5
<1>12. Served(prog, live_in, i, map, inserted, none)
  <2>1. In(map, GivenOf(prog, i)) = {}
    <3>1. \A v \in DOMAIN map : map[v] \notin given
      BY <1>4, <1>5
    <3>2. QED
      BY <1>2, <3>1 DEF In
  <2>2. \A n \in 1 .. Len(inserted) : DOMAIN inserted[n].load = {}
    BY <1>9
  <2>3. QED
    BY <1>1, <2>1, <2>2 DEF Served
<1>13. OpOK(prog, live_in, live_out, i, old, map, inserted, none, none)
  <2>1. \A n \in 1 .. Len(inserted) : \A v \in DOMAIN inserted[n].save : Named(prog, i, v)
    <3>1. \A v \in DOMAIN save : v \in DOMAIN renamed
      BY <1>3
    <3>2. \A n \in 1 .. Len(inserted) : inserted[n].save = save
      BY <1>9
    <3>3. QED
      BY <3>1, <3>2, LocalNamed
  <2>2. /\ prog[i].code \notin {"putarg", "label", "call", "retval"} /\ i \notin none
    BY <1>1
  <2>3. QED
    BY <1>11, <1>12, <2>1, <2>2, Zenon DEF OpOK
<1>14. QED
  BY <1>1, <1>4, <1>8, <1>9, <1>13, EnterMoves, Zenon

\* The registers of arguments are none of a result.
LEMMA ArgPlaces ==
  ASSUME ProgOK, NEW i \in Ops
  PROVE  \A v \in DOMAIN ArgMap(ArgsOf(prog, i)) : ArgMap(ArgsOf(prog, i))[v] # RetReg
<1>1. PICK s \in 1 .. i : prog[s].code = "prolog" /\ FuncOf(prog, i) = prog[s]
  <2> DEFINE S == {j \in 1 .. i : prog[j].code = "prolog"}
  <2>1. S \in SUBSET (1 .. i) /\ 1 \in S /\ i \in Nat
    BY DEF ProgOK, Ops
  <2>2. \E j \in S : \A k \in S : k <= j
    BY <2>1, LastPosition
  <2>3. (CHOOSE j \in S : \A k \in S : k <= j) \in S
    BY <2>2
  <2>4. FuncOf(prog, i) = prog[CHOOSE j \in S : \A k \in S : k <= j]
    BY DEF FuncOf
  <2>5. QED
    BY <2>3, <2>4
<1>2. s \in Ops /\ ArgsOf(prog, i) = prog[s].args
  BY <1>1 DEF ArgsOf, Ops, ProgOK
<1> DEFINE args == prog[s].args
           gp == {ArgReg("INT", j - 1) : j \in Passed(args, "INT", GpArgRegs)}
           fp == {ArgReg("FLOAT", j - 1) : j \in Passed(args, "FLOAT", FpArgRegs)}
<1>3. /\ \A j \in Passed(args, "INT", GpArgRegs) : j \in 1 .. GpArgRegs
      /\ \A j \in Passed(args, "FLOAT", FpArgRegs) : j \in 1 .. FpArgRegs
  BY <1>1, <1>2, OpsAssumption DEF ProgOK, Typed, Ops, Passed, Positions
<1>4. ArgMap(args) = [v \in gp \cup fp |-> IF v \in gp THEN GpArgs[v[3] + 1] ELSE FpArgs[v[3] + 1]]
  BY DEF ArgMap
<1>5. \A j \in Passed(args, "INT", GpArgRegs) : GpArgs[j] # RetReg
  BY <1>3, AllocAssumption
<1>6. \A j \in Passed(args, "FLOAT", FpArgRegs) : FpArgs[j] # RetReg
  BY <1>3, AllocAssumption
<1>7. ASSUME NEW v \in gp
      PROVE  ArgMap(args)[v] # RetReg
  <2>1. PICK j \in Passed(args, "INT", GpArgRegs) : v = ArgReg("INT", j - 1)
    OBVIOUS
  <2>2. v[3] + 1 = j
    BY <1>3, <2>1, ArgRegFields
  <2>3. ArgMap(args)[v] = GpArgs[v[3] + 1]
    BY <1>4
  <2>4. QED
    BY <1>5, <2>2, <2>3
<1>8. ASSUME NEW v \in fp, v \notin gp
      PROVE  ArgMap(args)[v] # RetReg
  <2>1. PICK j \in Passed(args, "FLOAT", FpArgRegs) : v = ArgReg("FLOAT", j - 1)
    OBVIOUS
  <2>2. v[3] + 1 = j
    BY <1>3, <2>1, ArgRegFields
  <2>3. ArgMap(args)[v] = FpArgs[v[3] + 1]
    BY <1>4, <1>8
  <2>4. QED
    BY <1>6, <2>2, <2>3
<1>9. DOMAIN ArgMap(args) = gp \cup fp
  BY <1>4
<1>10. QED
  BY <1>2, <1>7, <1>8, <1>9

LEMMA PrepareMoves ==
  ASSUME IInv, MInv, NEW i \in Ops, Prepare(i)
  PROVE  MInv'
<1> DEFINE map == regmap[i - 1]
           alive == In(map, {RetReg}) \cap (live_in[i] \cup live_out[i])
           free == {h \in CalleeSaved : In(map, {h}) = {}}
           Renaming(h) == [v \in DOMAIN map |-> IF v \in alive THEN h ELSE map[v]]
<1>1. Start(i, {"prepare"}) /\ eliminated' = eliminated /\ prog[i].code = "prepare"
      /\ "prolog" \notin {"prepare"}
  BY DEF Prepare, Start
<1>2. GoodMap(map) /\ i - 1 \in 1 .. Last /\ Local(prog, i, map)
  BY <1>1, AtOperation, LocalBefore
<1>3. \/ \E h \in free : PrepareWith(i, Renaming(h), {<<h, RetReg>>}, {})
      \/ PrepareWith(i, map, {}, alive)
  BY DEF Prepare
<1>4. \A v \in alive : v \in DOMAIN map /\ map[v] = RetReg
  BY Held
<1>5. ASSUME NEW h \in free, PrepareWith(i, Renaming(h), {<<h, RetReg>>}, {})
      PROVE  MInv'
  <2> DEFINE pairs == {<<h, RetReg>>}
             nobody == {}
  <2>1. GoodMap(Renaming(h)) /\ PrepareWith(i, Renaming(h), pairs, nobody)
    BY <1>2, <1>5, RenameGood
  <2>2. pairs \in SUBSET (HwReg \X HwReg) /\ h \in CalleeSaved
    BY Hardware
  <2>3. \A v \in DOMAIN map : map[v] # h
    BY Held
  <2>4. /\ DOMAIN Renaming(h) = DOMAIN map
        /\ \A v \in DOMAIN map : Renaming(h)[v] = IF v \in alive THEN h ELSE map[v]
    OBVIOUS
  <2>5. \A r, s : <<s, r>> \in pairs <=> s = h /\ r = RetReg
    OBVIOUS
  <2> HIDE DEF Renaming, alive
  <2>6. Renames(map, Renaming(h), pairs, nobody)
    <3> HIDE DEF pairs
    <3> SUFFICES ASSUME NEW v \in DOMAIN map
                 PROVE  \/ Renaming(h)[v] = map[v] /\ \A r : <<Renaming(h)[v], r>> \notin pairs
                        \/ /\ Renaming(h)[v] \in CalleeSaved /\ v \notin nobody
                           /\ <<Renaming(h)[v], map[v]>> \in pairs
                           /\ \A r : <<Renaming(h)[v], r>> \in pairs => r = map[v]
      BY DEF Renames
    <3>1. CASE v \in alive
      BY <1>4, <2>2, <2>4, <2>5, <3>1
    <3>2. CASE v \notin alive
      BY <2>3, <2>4, <2>5, <3>2
    <3>3. QED
      BY <3>1, <3>2
  <2>7. Local(prog, i, Renaming(h))
    <3>1. ASSUME NEW v \in DOMAIN map, ~IsOperand(prog, i, v)
          PROVE  Renaming(h)[v] = map[v] /\ v \in DOMAIN ArgMap(ArgsOf(prog, i))
                   /\ map[v] = ArgMap(ArgsOf(prog, i))[v]
      <4>1. v \in DOMAIN ArgMap(ArgsOf(prog, i)) /\ map[v] = ArgMap(ArgsOf(prog, i))[v]
        BY <1>2, <3>1 DEF Local
      <4>2. ArgMap(ArgsOf(prog, i))[v] # RetReg
        BY <4>1, ArgPlaces DEF IInv, Shape
      <4>3. v \notin alive
        BY <1>4, <4>1, <4>2
      <4>4. QED
        BY <2>4, <4>1, <4>3
    <3>2. QED
      BY <2>4, <3>1 DEF Local
  <2>8. map = regmap[i - 1]
    OBVIOUS
  <2> HIDE DEF pairs, nobody, map
  <2>9. QED
    BY <1>1, <1>2, <2>1, <2>2, <2>4, <2>6, <2>7, <2>8, PrepareWithMoves, Zenon
<1>6. ASSUME PrepareWith(i, map, {}, alive)
      PROVE  MInv'
  <2> DEFINE pairs == {}
  <2>1. PrepareWith(i, map, pairs, alive)
    BY <1>6
  <2>2. /\ pairs \in SUBSET (HwReg \X HwReg)
        /\ Renames(map, map, pairs, alive)
    BY DEF Renames
  <2>3. map = regmap[i - 1] /\ DOMAIN map = DOMAIN map
    OBVIOUS
  <2> HIDE DEF alive, pairs, map
  <2>4. QED
    BY <1>1, <1>2, <2>1, <2>2, <2>3, PrepareWithMoves, Zenon
<1>7. QED
  BY <1>3, <1>5, <1>6

-----------------------------------------------------------------------------
(* The operands of an operation                                            *)

TakenMap(h) == Assoc(Unassoc(regmap[Last], In(regmap[Last], {h})), NextOperand, h)
TakenBatch(h) ==
  Batch(Only(regmap[Last], In(regmap[Last], {h}) \cap live_in[Last]), {},
        Only([w \in {NextOperand} |-> h], live_in[Last]))

\* What TakeRegister changes.
LEMMA Taken ==
  ASSUME IInv, NEW h \in HwReg, TakeRegister(h), NEW last \in Nat, last = Last
  PROVE  /\ last > 0 /\ Last' = last
         /\ regmap'[last] = TakenMap(h) /\ moves'[last] = Append(moves[last], TakenBatch(h))
         /\ \A j \in 1 .. last - 1 : regmap'[j] = regmap[j] /\ moves'[j] = moves[j]
         /\ UNCHANGED <<prog, live_in, live_out, eliminated, phase>>
         /\ phase = "assign"
         /\ todo' = todo \ {NextOperand} /\ NextOperand \in todo
         /\ NextOperand \notin DOMAIN regmap[last]
         /\ h \in Candidates(regmap[last], TypeOf(NextOperand), last)
         /\ GoodMap(regmap[last]) /\ GoodMap(TakenMap(h)) /\ TakenBatch(h) \in Batches
         /\ moves[last] \in Seq(Batches)
<1> DEFINE map == regmap[last]
           new == TakenMap(h)
           batch == TakenBatch(h)
<1>1. /\ todo # {} /\ h \in Candidates(map, TypeOf(NextOperand), last)
      /\ NextOperand \notin DOMAIN map
      /\ todo' = todo \ {NextOperand}
      /\ UNCHANGED <<prog, live_in, live_out, eliminated, phase>>
  BY DEF TakeRegister, input
<1>2. regmap' = [regmap EXCEPT ![last] = new]
  BY DEF TakeRegister, TakenMap
<1>3. moves' = [moves EXCEPT ![last] = Append(moves[last], batch)]
  BY DEF TakeRegister, TakenBatch
<1>4. /\ last > 0 /\ phase = "assign" /\ last = Len(regmap) /\ last = Len(moves)
      /\ regmap \in Seq(RegMaps) /\ moves \in Seq(Seq(Batches))
  BY <1>1 DEF IInv, Shape, Calls, Last
<1>5. GoodMap(map) /\ map \in RegMaps
  BY <1>4 DEF IInv, AllGood, GoodMap
<1>6. NextOperand \in todo /\ NextOperand \in Reg
  BY <1>1, NextIsOperand, VRegTypes DEF IInv, Shape
<1>7. GoodMap(new)
  BY <1>1, <1>5, <1>6, CandidatesType, GiveGood DEF TakenMap
<1>8. batch \in Batches
  <2> DEFINE one == [w \in {NextOperand} |-> h]
             save == Only(map, In(map, {h}) \cap live_in[last])
             load == Only(one, live_in[last])
  <2>1. one \in RegMaps
    BY <1>6, IsMap
  <2>2. save \in RegMaps /\ load \in RegMaps
    BY <1>5, <2>1, OnlyType
  <2>3. batch = Batch(save, {}, load)
    BY DEF TakenBatch
  <2> HIDE DEF save, load, batch
  <2>4. QED
    BY <2>2, <2>3, BatchType
<1> HIDE DEF new, batch, map
<1>9. DOMAIN regmap = 1 .. last /\ DOMAIN moves = 1 .. last
  <2>1. regmap \in Seq(RegMaps) /\ Len(regmap) = last
    BY <1>4
  <2>2. moves \in Seq(Seq(Batches)) /\ Len(moves) = last
    BY <1>4
  <2>3. QED
    BY <2>1, <2>2
<1>10. DOMAIN regmap' = 1 .. last /\ regmap'[last] = new
         /\ \A j \in 1 .. last - 1 : regmap'[j] = regmap[j]
  BY <1>2, <1>4, <1>9
<1>11. moves'[last] = Append(moves[last], batch)
         /\ \A j \in 1 .. last - 1 : moves'[j] = moves[j]
  BY <1>3, <1>4, <1>9
<1>12. Last' = last
  <2>1. regmap' \in Seq(RegMaps)
    BY TakeRegisterKeeps DEF IInv, Shape
  <2>2. Len(regmap') = last
    BY <1>10, <2>1
  <2>3. QED
    BY <2>2 DEF Last
<1>13. moves[last] \in Seq(Batches)
  <2>1. moves \in Seq(Seq(Batches)) /\ last \in 1 .. Len(moves)
    BY <1>4
  <2>2. QED
    BY <2>1
<1>14. QED
  BY <1>1, <1>4, <1>5, <1>6, <1>7, <1>8, <1>10, <1>11, <1>12, <1>13 DEF new, batch, map

\* The batch that makes room for a register: the victim is saved if it is alive,
\* and the register is loaded if it is.
LEMMA TakeLeads ==
  ASSUME NEW map, NEW v, v \notin DOMAIN map, NEW h, NEW L, NEW none, none = {}
  PROVE  Leads(map, Batch(Only(map, In(map, {h}) \cap L), none, Only([w \in {v} |-> h], L)),
               Assoc(Unassoc(map, In(map, {h})), v, h), L)
<1> DEFINE victim == In(map, {h})
           rest == Unassoc(map, victim)
           new == Assoc(rest, v, h)
           save == Only(map, victim \cap L)
           load == Only([w \in {v} |-> h], L)
           b == Batch(save, none, load)
<1>1. /\ DOMAIN rest = DOMAIN map \ victim
      /\ \A w \in DOMAIN map \ victim : rest[w] = map[w]
  BY DEF Unassoc, Only
<1>2. /\ DOMAIN save = DOMAIN map \cap victim \cap L
      /\ \A w \in DOMAIN save : save[w] = map[w]
  BY DEF Only
<1>3. /\ DOMAIN load = {v} \cap L
      /\ \A w \in DOMAIN load : w = v /\ load[w] = h
  BY DEF Only
<1>4. /\ \A w \in DOMAIN map : map[w] = h => w \in victim
      /\ \A w \in DOMAIN map \ victim : map[w] # h
  BY DEF In
<1>5. b.save = save /\ b.rename = {} /\ b.load = load
  BY DEF Batch
<1> HIDE DEF rest, save, load, victim
<1>6. /\ DOMAIN new = (DOMAIN map \ victim) \cup {v} /\ new[v] = h
      /\ \A w \in DOMAIN map \ victim : new[w] = map[w]
  BY <1>1 DEF Assoc
<1> HIDE DEF new, b
<1>7. ASSUME NEW w \in DOMAIN new \cap L
      PROVE  Fetched(map, b, new, w) \/ Stays(map, b, new, w)
  <2>1. CASE w = v
    BY <1>3, <1>5, <1>6, <2>1 DEF Fetched, Unnamed
  <2>2. CASE w \in DOMAIN map \ victim
    BY <1>3, <1>4, <1>5, <1>6, <2>2 DEF Stays, Unnamed, Unloaded
  <2>3. QED
    BY <1>6, <2>1, <2>2
<1>8. /\ \A w \in DOMAIN b.save : w \in DOMAIN map
      /\ \A w \in DOMAIN b.save : b.save[w] = map[w]
      /\ \A w \in DOMAIN map \cap L : w \in DOMAIN new \/ w \in DOMAIN b.save
      /\ \A u, w \in DOMAIN b.load : b.load[u] = b.load[w] => u = w
  BY <1>2, <1>3, <1>5, <1>6
<1>9. Leads(map, b, new, L)
  BY <1>7, <1>8, Zenon DEF Leads
<1>10. QED
  BY <1>9 DEF b, save, load, new, rest, victim

\* One batch more on the path of an operation.
LEMMA LongerPath ==
  ASSUME NEW ms, NEW old, NEW batches \in Seq(Batches), NEW map, NEW L, Path(ms, old, batches, map, L),
         NEW b, NEW new \in RegMaps, Leads(map, b, new, L)
  PROVE  Path(Append(ms, new), old, Append(batches, b), new, L)
<1>1. /\ ms \in Seq(RegMaps) /\ Len(ms) = Len(batches) + 1
      /\ ms[1] = old /\ ms[Len(ms)] = map
      /\ \A n \in 1 .. Len(batches) : Leads(ms[n], batches[n], ms[n + 1], L)
  BY DEF Path
<1> DEFINE len == Len(batches)
           ms2 == Append(ms, new)
           batches2 == Append(batches, b)
<1>2. /\ ms2 \in Seq(RegMaps) /\ Len(ms2) = len + 2 /\ ms2[len + 2] = new
      /\ \A n \in 1 .. len + 1 : ms2[n] = ms[n]
  BY <1>1
<1>3. /\ Len(batches2) = len + 1 /\ batches2[len + 1] = b /\ len \in Nat
      /\ \A n \in 1 .. len : batches2[n] = batches[n]
  OBVIOUS
<1> HIDE DEF ms2, batches2
<1>4. \A n \in 1 .. len : n \in 1 .. len + 1 /\ n + 1 \in 1 .. len + 1
  BY <1>3
<1>5. ASSUME NEW n \in 1 .. len + 1
      PROVE  Leads(ms2[n], batches2[n], ms2[n + 1], L)
  <2>1. CASE n \in 1 .. len
    <3>1. ms2[n] = ms[n] /\ ms2[n + 1] = ms[n + 1] /\ batches2[n] = batches[n]
      BY <1>2, <1>3, <1>4, <2>1
    <3>2. QED
      BY <1>1, <2>1, <3>1
  <2>2. CASE n = len + 1
    <3>1. ms2[n] = map /\ batches2[n] = b /\ ms2[n + 1] = new
      BY <1>1, <1>2, <1>3, <2>2
    <3>2. QED
      BY <3>1
  <2>3. QED
    BY <1>3, <2>1, <2>2
<1>6. ms2[1] = old /\ ms2[Len(ms2)] = new /\ Len(ms2) = Len(batches2) + 1
  BY <1>1, <1>2, <1>3
<1>7. QED
  BY <1>2, <1>3, <1>5, <1>6 DEF Path, ms2, batches2

LEMMA TakeOK ==
  ASSUME NEW p, NEW in, NEW out, NEW i, NEW old, NEW map, NEW batches \in Seq(Batches),
         NEW gone, NEW waiting, NEW v \in waiting,
         OpOK(p, in, out, i, old, map, batches, gone, waiting),
         p[i].code \in Codes \ {"prolog"},
         NEW b, NEW new \in RegMaps, Leads(map, b, new, in[i]),
         v \in DOMAIN new, OperandsOf(p, i) \cap DOMAIN map \subseteq DOMAIN new,
         DOMAIN b.load \subseteq in[i] \cap {v},
         \A w \in DOMAIN b.save : Named(p, i, w)
  PROVE  OpOK(p, in, out, i, old, new, Append(batches, b), gone, waiting \ {v})
<1> DEFINE batches2 == Append(batches, b)
<1>1. waiting # {}
  OBVIOUS
<1>2. /\ p[i].code \notin {"putarg", "label", "call", "retval"}
      /\ i \notin gone
  BY <1>1, Zenon DEF OpOK, Still
<1>3. p[i].code \in Ordinary
  BY <1>2 DEF Codes, Ordinary
<1>4. /\ \E ms : Path(ms, old, batches, map, in[i])
      /\ Served(p, in, i, map, batches, waiting)
      /\ \A n \in 1 .. Len(batches) : \A w \in DOMAIN batches[n].save : Named(p, i, w)
  BY <1>2, <1>3, Zenon DEF OpOK
<1>5. p[i].code # "prepare"
  BY <1>1, <1>4 DEF Served
<1>6. v \in OperandsOf(p, i)
  BY <1>4 DEF Served
<1>7. \A n \in 1 .. Len(batches2) : \/ n \in 1 .. Len(batches) /\ batches2[n] = batches[n]
                                    \/ batches2[n] = b
  OBVIOUS
<1>8. \E ms : Path(ms, old, batches2, new, in[i])
  BY <1>4, LongerPath
<1> HIDE DEF batches2
<1>9. Served(p, in, i, new, batches2, waiting \ {v})
  <2>1. waiting \ {v} \subseteq OperandsOf(p, i)
    BY <1>4 DEF Served
  <2>2. OperandsOf(p, i) \subseteq DOMAIN new \cup (waiting \ {v})
    BY <1>4, <1>5 DEF Served
  <2>3. \A n \in 1 .. Len(batches2) : DOMAIN batches2[n].load \subseteq in[i] \cap OperandsOf(p, i)
    BY <1>4, <1>6, <1>7 DEF Served
  <2>4. QED
    BY <1>5, <2>1, <2>2, <2>3, Zenon DEF Served
<1>10. \A n \in 1 .. Len(batches2) : \A w \in DOMAIN batches2[n].save : Named(p, i, w)
  BY <1>4, <1>7
<1>11. OpOK(p, in, out, i, old, new, batches2, gone, waiting \ {v})
  BY <1>2, <1>8, <1>9, <1>10, Zenon DEF OpOK
<1>12. QED
  BY <1>11 DEF batches2

LEMMA TakeRegisterMoves ==
  ASSUME IInv, MInv, NEW h \in HwReg, TakeRegister(h)
  PROVE  MInv'
<1>0. PICK last \in Nat : last = Last
  BY DEF IInv, Shape, Last
<1> DEFINE v == NextOperand
           map == regmap[last]
           new == TakenMap(h)
           b == TakenBatch(h)
<1>1. /\ last > 0 /\ Last' = last
      /\ regmap'[last] = new /\ moves'[last] = Append(moves[last], b)
      /\ \A j \in 1 .. last - 1 : regmap'[j] = regmap[j] /\ moves'[j] = moves[j]
      /\ prog' = prog /\ live_in' = live_in /\ live_out' = live_out
      /\ eliminated' = eliminated /\ phase' = phase /\ phase = "assign"
      /\ todo' = todo \ {v} /\ v \in todo
      /\ v \notin DOMAIN map /\ h \in Candidates(map, TypeOf(v), last)
      /\ GoodMap(map) /\ GoodMap(new) /\ new \in RegMaps /\ b \in Batches
      /\ moves[last] \in Seq(Batches)
  BY <1>0, Taken DEF GoodMap
<1>2. /\ Waiting(last) = todo /\ Waiting(last)' = todo \ {v}
      /\ \A j \in 1 .. last - 1 : Waiting(j)' = Waiting(j)
      /\ Waiting(last) # {}
  BY <1>0, <1>1 DEF Waiting
<1>3. /\ last \in 1 .. Last /\ last \in Ops /\ ProgOK /\ prog[last].code # "prolog"
      /\ prog[last].code \in Codes
  <2>1. last \in 1 .. Last /\ last \in Ops /\ ProgOK
    BY <1>0, <1>1 DEF IInv, Shape, Ops
  <2>2. prog[last].code # "prolog"
    BY <1>2, <2>1 DEF MInv, PrologsOK
  <2>3. prog[last] \in Operation
    BY <2>1, OperandsType
  <2>4. QED
    BY <2>1, <2>2, <2>3 DEF Operation
<1>4. last \in 2 .. Last
  BY <1>1, <1>3 DEF ProgOK
<1>5. OpOK(prog, live_in, live_out, last, regmap[last - 1], map, moves[last],
           eliminated \cap {last}, todo)
  BY <1>2, <1>3, <1>4 DEF MInv, OpsOK
<1>6. Leads(map, b, new, live_in[last])
  <2> DEFINE none == {}
  <2>1. /\ b = Batch(Only(map, In(map, {h}) \cap live_in[last]), none,
                     Only([w \in {v} |-> h], live_in[last]))
        /\ new = Assoc(Unassoc(map, In(map, {h})), v, h) /\ none = {}
    BY <1>0 DEF TakenBatch, TakenMap
  <2> HIDE DEF none, map, v, new, b
  <2>2. v \notin DOMAIN map
    BY <1>1
  <2>3. Leads(map, Batch(Only(map, In(map, {h}) \cap live_in[last]), none,
                         Only([w \in {v} |-> h], live_in[last])),
              Assoc(Unassoc(map, In(map, {h})), v, h), live_in[last])
    BY <2>1, <2>2, TakeLeads, Zenon
  <2>4. QED
    BY <2>1, <2>3, Zenon
<1>7. DOMAIN new = (DOMAIN map \ In(map, {h})) \cup {v}
  BY <1>0 DEF TakenMap, Assoc, Unassoc, Only
<1>8. OperandsOf(prog, last) \cap DOMAIN map \subseteq DOMAIN new /\ v \in DOMAIN new
  <2>1. In(map, {h}) \cap Operands(last) = {}
    BY <1>1 DEF Candidates
  <2>2. Operands(last) = OperandsOf(prog, last)
    BY DEF Operands, OperandsOf
  <2>3. QED
    BY <1>7, <2>1, <2>2
<1>9. DOMAIN b.load \subseteq live_in[last] \cap {v} /\ DOMAIN b.save \subseteq DOMAIN map
  BY <1>0 DEF TakenBatch, Batch, Only
<1>10. Local(prog, last, map)
  BY <1>3 DEF MInv, AllLocal
<1>11. \A w \in DOMAIN b.save : Named(prog, last, w)
  BY <1>9, <1>10, LocalNamed
<1>12. IsOperand(prog, last, v)
  <2>1. v \in OperandsOf(prog, last)
    <3>1. todo # {} /\ prog[last].code \in Ordinary /\ last \notin eliminated \cap {last}
      <4>1. todo # {}
        BY <1>1
      <4>2. /\ prog[last].code \notin {"putarg", "label", "call", "retval"}
            /\ last \notin eliminated \cap {last}
        BY <1>5, <4>1, Zenon DEF OpOK, Still
      <4>3. QED
        BY <1>3, <4>1, <4>2 DEF Codes, Ordinary
    <3>2. Served(prog, live_in, last, map, moves[last], todo)
      BY <1>5, <3>1, Zenon DEF OpOK
    <3>3. QED
      BY <1>1, <3>2 DEF Served
  <2>2. v \in Operands(last)
    BY <2>1 DEF Operands, OperandsOf
  <2>3. QED
    BY <1>3, <2>2, OwnFunction
<1>13. Local(prog, last, new)
  <2>1. new = Assoc(Unassoc(map, In(map, {h})), v, h)
    BY <1>0 DEF TakenMap
  <2> HIDE DEF new, map, v
  <2>2. QED
    BY <1>10, <1>12, <2>1, LocalLess, LocalMore
<1> HIDE DEF map, new, b, v
<1>14. OpOK(prog, live_in, live_out, last, regmap[last - 1], new, Append(moves[last], b),
            eliminated \cap {last}, todo \ {v})
  <2>1. prog[last].code \in Codes \ {"prolog"}
    BY <1>3
  <2>2. v \in todo /\ new \in RegMaps /\ moves[last] \in Seq(Batches)
    BY <1>1
  <2>3. QED
    BY <1>5, <1>6, <1>8, <1>9, <1>11, <2>1, <2>2, TakeOK
<1>15. /\ \A j \in 1 .. last : j = last \/ j \in 1 .. last - 1
       /\ \A j \in 2 .. last : j = last \/ j \in 2 .. last - 1
       /\ \A j \in 2 .. last - 1 : j \in 1 .. last - 1 /\ j - 1 \in 1 .. last - 1 /\ j \in 2 .. last
       /\ last - 1 \in 1 .. last - 1
       /\ \A j \in 1 .. last - 1 : j \in 1 .. last
  BY <1>0, <1>4
<1>16. OpsOK'
  <2> SUFFICES ASSUME NEW j \in 2 .. last, prog[j].code # "prolog"
               PROVE  OpOK(prog', live_in', live_out', j, regmap'[j - 1], regmap'[j],
                           moves'[j], eliminated' \cap {j}, Waiting(j)')
    BY <1>1 DEF OpsOK
  <2>1. CASE j = last
    <3>1. regmap'[j - 1] = regmap[last - 1]
      BY <1>1, <1>15, <2>1
    <3>2. QED
      BY <1>1, <1>2, <1>14, <2>1, <3>1, Zenon
  <2>2. CASE j \in 2 .. last - 1
    <3>1. /\ regmap'[j - 1] = regmap[j - 1] /\ regmap'[j] = regmap[j]
          /\ moves'[j] = moves[j] /\ Waiting(j)' = Waiting(j)
      BY <1>1, <1>2, <1>15, <2>2
    <3>2. OpOK(prog, live_in, live_out, j, regmap[j - 1], regmap[j], moves[j],
               eliminated \cap {j}, Waiting(j))
      BY <1>0, <1>15, <2>2 DEF MInv, OpsOK
    <3>3. QED
      BY <1>1, <3>1, <3>2, Zenon
  <2>3. QED
    BY <1>15, <2>1, <2>2
<1>17. PrologsOK'
  <2> SUFFICES ASSUME NEW j \in 1 .. last, prog[j].code = "prolog"
               PROVE  /\ regmap'[j] = ArgMap(prog[j].args) /\ moves'[j] = <<>>
                      /\ Waiting(j)' = {} /\ j \notin eliminated'
    BY <1>1 DEF PrologsOK
  <2>1. j \in 1 .. last - 1
    BY <1>3, <1>15
  <2>2. QED
    BY <1>0, <1>1, <1>2, <1>15, <2>1 DEF MInv, PrologsOK
<1>18. AllLocal'
  <2> SUFFICES ASSUME NEW j \in 1 .. last
               PROVE  Local(prog', j, regmap'[j])
    BY <1>1 DEF AllLocal
  <2>1. CASE j = last
    BY <1>1, <1>13, <2>1
  <2>2. CASE j \in 1 .. last - 1
    BY <1>0, <1>1, <1>15, <2>2 DEF MInv, AllLocal
  <2>3. QED
    BY <1>15, <2>1, <2>2
<1>19. EdgesOK'
  BY <1>1 DEF EdgesOK
<1>20. QED
  BY <1>0, <1>1, <1>16, <1>17, <1>18, <1>19 DEF MInv

LEMMA KeepRegisterMoves ==
  ASSUME IInv, MInv, KeepRegister
  PROVE  MInv'
<1> DEFINE v == NextOperand
           more == todo \ {v}
<1>1. /\ todo # {} /\ v \in DOMAIN regmap[Last] /\ todo' = more /\ phase = "assign"
      /\ prog' = prog /\ live_in' = live_in /\ live_out' = live_out /\ regmap' = regmap
      /\ moves' = moves /\ eliminated' = eliminated /\ phase' = phase
  BY DEF KeepRegister, input, IInv, Calls
<1> HIDE DEF v, more
<1>2. Last' = Last
  BY <1>1 DEF Last
<1>3. \A j : j # Last => Waiting(j)' = Waiting(j)
  BY <1>2 DEF Waiting
<1>4. ASSUME NEW j \in 2 .. Last, prog[j].code # "prolog"
      PROVE  OpOK(prog, live_in, live_out, j, regmap[j - 1], regmap[j], moves[j],
                  eliminated \cap {j}, Waiting(j)')
  <2>1. OpOK(prog, live_in, live_out, j, regmap[j - 1], regmap[j], moves[j],
             eliminated \cap {j}, Waiting(j))
    BY <1>4 DEF MInv, OpsOK
  <2>2. CASE j # Last
    BY <1>3, <2>1, <2>2, Zenon
  <2>3. CASE j = Last
    <3> DEFINE old == regmap[j - 1]
               map == regmap[j]
               gone == eliminated \cap {j}
    <3>1. Waiting(j) = todo /\ Waiting(j)' = more
      BY <1>1, <1>2, <2>3 DEF Waiting
    <3>2. /\ prog[j].code \notin {"putarg", "label", "call", "retval"}
          /\ j \notin gone
      BY <1>1, <2>1, <3>1, Zenon DEF OpOK, Still
    <3>3. prog[j].code \in Ordinary
      <4>1. j \in Ops
        BY <2>3 DEF IInv, Shape, Last, Ops
      <4>2. prog[j] \in Operation
        BY <4>1, OperandsType DEF IInv, Shape
      <4>3. QED
        BY <1>4, <3>2, <4>2 DEF Operation, Codes, Ordinary
    <3> HIDE DEF gone, map, old
    <3>4. OpOK(prog, live_in, live_out, j, old, map, moves[j], gone, todo)
      BY <2>1, <3>1 DEF old, map, gone
    <3>5. /\ \E ms : Path(ms, old, moves[j], map, live_in[j])
          /\ Served(prog, live_in, j, map, moves[j], todo)
          /\ \A n \in 1 .. Len(moves[j]) : \A w \in DOMAIN moves[j][n].save : Named(prog, j, w)
      BY <3>2, <3>3, <3>4, Zenon DEF OpOK
    <3>6. v \in DOMAIN map
      BY <1>1, <2>3 DEF map
    <3>7. Served(prog, live_in, j, map, moves[j], more)
      BY <1>1, <3>5, <3>6 DEF Served, more
    <3>8. OpOK(prog, live_in, live_out, j, old, map, moves[j], gone, more)
      BY <3>2, <3>5, <3>7, Zenon DEF OpOK
    <3>9. QED
      BY <3>1, <3>8 DEF old, map, gone
  <2>4. QED
    BY <2>2, <2>3
<1>5. OpsOK'
  BY <1>1, <1>2, <1>4 DEF OpsOK
<1>6. PrologsOK'
  <2>1. \A j : Waiting(j) = {} => Waiting(j)' = {}
    BY <1>1, <1>2 DEF Waiting
  <2>2. QED
    BY <1>1, <1>2, <2>1 DEF MInv, PrologsOK
<1>7. AllLocal' /\ EdgesOK'
  BY <1>1, <1>2 DEF MInv, AllLocal, EdgesOK
<1>8. QED
  BY <1>1, <1>2, <1>5, <1>6, <1>7 DEF MInv

-----------------------------------------------------------------------------
(* The walks after the first                                               *)

LEMMA MapsSame ==
  ASSUME MInv, UNCHANGED <<input, regmap, moves, todo, eliminated>>
  PROVE  OpsOK' /\ PrologsOK' /\ AllLocal' /\ eliminated' \subseteq 1 .. Last'
<1>1. /\ prog' = prog /\ live_in' = live_in /\ live_out' = live_out /\ regmap' = regmap
      /\ moves' = moves /\ eliminated' = eliminated /\ todo' = todo
  BY DEF input
<1>2. Last' = Last /\ \A j : Waiting(j)' = Waiting(j)
  BY <1>1 DEF Last, Waiting
<1>3. OpsOK'
  <2> SUFFICES ASSUME NEW j \in 2 .. Last, prog[j].code # "prolog"
               PROVE  OpOK(prog, live_in, live_out, j, regmap[j - 1], regmap[j],
                           moves[j], eliminated \cap {j}, Waiting(j)')
    BY <1>1, <1>2 DEF OpsOK
  <2>1. QED
    BY <1>2, Zenon DEF MInv, OpsOK
<1>4. QED
  BY <1>1, <1>2, <1>3 DEF MInv, PrologsOK, AllLocal

LEMMA AssignDoneMoves ==
  ASSUME IInv, MInv, AssignDone
  PROVE  MInv'
<1>1. UNCHANGED <<input, regmap, moves, todo, eliminated>> /\ phase' = "branches"
  BY DEF AssignDone
<1>2. EdgesOK'
  BY <1>1 DEF EdgesOK
<1>3. QED
  BY <1>1, <1>2, MapsSame DEF MInv

LEMMA AdjustBranchesMoves ==
  ASSUME IInv, MInv, AdjustBranches
  PROVE  MInv'
<1>1. /\ UNCHANGED <<input, regmap, moves, todo, eliminated>> /\ phase' = "jumps"
      /\ inverted' = {i \in Ops : prog[i].code = "branch" /\ ~RmapEqual(i)}
  BY DEF AdjustBranches
<1>2. EdgesOK'
  <2>1. prog' = prog /\ live_in' = live_in /\ live_out' = live_out /\ regmap' = regmap
    BY <1>1 DEF input
  <2>2. Ops' = Ops /\ \A i : RmapEqual(i)' = RmapEqual(i)
    BY <2>1 DEF Ops, RmapEqual, Target
  <2>3. QED
    BY <1>1, <2>1, <2>2 DEF EdgesOK
<1>3. QED
  BY <1>1, <1>2, MapsSame DEF MInv

LEMMA AdjustJumpsMoves ==
  ASSUME IInv, MInv, AdjustJumps
  PROVE  MInv'
<1> DEFINE jumps == {k \in Ops : prog[k].code = "jmp"} \cup inverted
<1>1. /\ UNCHANGED <<input, regmap, moves, todo, eliminated, inverted>>
      /\ phase = "jumps" /\ phase' = "done"
      /\ edge' = [i \in jumps |->
           Batch(Differing(regmap[i], regmap[Target(i)], DOMAIN regmap[i] \cap live_in[Target(i)]),
                 {},
                 Differing(regmap[Target(i)], regmap[i], DOMAIN regmap[Target(i)] \cap live_out[i]))]
  BY DEF AdjustJumps
<1>2. prog' = prog /\ live_in' = live_in /\ live_out' = live_out /\ regmap' = regmap
  BY <1>1 DEF input
<1>3. Ops' = Ops /\ (\A i : Target(i)' = Target(i))
  BY <1>2 DEF Ops, Target
<1>4. \A i : RmapEqual(i)' <=> RmapEqual(i)
  BY <1>2 DEF RmapEqual, Target
<1>5. DOMAIN edge' = jumps
      /\ \A i \in jumps :
           edge'[i] = EdgeOf(prog, live_in, live_out, i, regmap[i], regmap[Target(i)])
  BY <1>1 DEF EdgeOf, TargetOf, Target
<1>6. inverted' = {i \in Ops : prog[i].code = "branch" /\ ~RmapEqual(i)}
  BY <1>1 DEF MInv, EdgesOK
<1>7. EdgesOK'
  <2>1. inverted' = {i \in Ops' : prog'[i].code = "branch" /\ ~RmapEqual(i)'}
    BY <1>2, <1>3, <1>4, <1>6
  <2>2. DOMAIN edge' = {i \in Ops' : prog'[i].code = "jmp"} \cup inverted'
    BY <1>1, <1>2, <1>3, <1>5
  <2>3. \A i \in DOMAIN edge' :
          edge'[i] = EdgeOf(prog', live_in', live_out', i, regmap'[i], regmap'[Target(i)'])
    BY <1>2, <1>3, <1>5
  <2>4. QED
    BY <2>1, <2>2, <2>3 DEF EdgesOK
<1>8. QED
  BY <1>1, <1>7, MapsSame DEF MInv

LEMMA NextMInv == IInv /\ MInv /\ [Next]_alloc => MInv'
<1> SUFFICES ASSUME IInv, MInv, [Next]_alloc PROVE MInv'
  OBVIOUS
<1>1. ASSUME NEW i \in Ops,
             Prolog(i) \/ Plain(i) \/ Putarg(i) \/ Getarg(i) \/ Prepare(i) \/ Call(i) \/ Retval(i)
      PROVE  MInv'
  BY <1>1, PrologMoves, PlainMoves, PutargMoves, GetargMoves, PrepareMoves, CallMoves, RetvalMoves
<1>2. CASE KeepRegister
  BY <1>2, KeepRegisterMoves
<1>3. ASSUME NEW h \in HwReg, TakeRegister(h) PROVE MInv'
  BY <1>3, TakeRegisterMoves
<1>4. CASE AssignDone
  BY <1>4, AssignDoneMoves
<1>5. CASE AdjustBranches
  BY <1>5, AdjustBranchesMoves
<1>6. CASE AdjustJumps
  BY <1>6, AdjustJumpsMoves
<1>7. CASE UNCHANGED alloc
  <2>1. UNCHANGED <<input, regmap, moves, todo, eliminated>>
    BY <1>7 DEF alloc
  <2>2. EdgesOK'
    <3>1. /\ prog' = prog /\ live_in' = live_in /\ live_out' = live_out /\ regmap' = regmap
          /\ inverted' = inverted /\ edge' = edge /\ phase' = phase
      BY <1>7 DEF alloc, input
    <3>2. Ops' = Ops /\ (\A i : Target(i)' = Target(i)) /\ (\A i : RmapEqual(i)' <=> RmapEqual(i))
      BY <3>1 DEF Ops, RmapEqual, Target
    <3>3. QED
      BY <3>1, <3>2 DEF MInv, EdgesOK
  <2>3. QED
    BY <2>1, <2>2, MapsSame DEF MInv
<1>8. QED
  BY <1>1, <1>2, <1>3, <1>4, <1>5, <1>6, <1>7, Zenon DEF Next

-----------------------------------------------------------------------------
(* Edges                                                                   *)

LEMMA DifferingIs ==
  ASSUME NEW map, NEW other, NEW S
  PROVE  /\ \A v : v \in DOMAIN Differing(map, other, S) <=>
                     v \in DOMAIN map \cap S /\ (v \notin DOMAIN other \/ map[v] # other[v])
         /\ \A v \in DOMAIN Differing(map, other, S) : Differing(map, other, S)[v] = map[v]
BY DEF Differing, Only

\* The two ends of a jump, and what is alive at its target.
LEMMA JumpEnds ==
  ASSUME ProgOK, Flow, NEW i \in Ops, prog[i].code \in {"jmp", "branch", "bms"}
  PROVE  /\ Target(i) \in Ops /\ prog[Target(i)].code = "label" /\ Target(i) # 1
         /\ live_in[Target(i)] \subseteq live_out[i]
         /\ live_in[Target(i)] \subseteq live_in[i]
         /\ Together(prog, i, Target(i))
<1>1. prog[i].jmp # 0 /\ prog[i].def = {} /\ prog[i].code # "prolog"
  BY DEF ProgOK, Typed, Ops
<1>2. prog[i].jmp \in Nat /\ prog[i].jmp <= Len(prog) /\ Len(prog) \in Nat
  BY OperandsType DEF ProgOK, WellFormed, Ops, Operation
<1>3. Target(i) \in Ops
  BY <1>1, <1>2 DEF Target, Ops
<1>4. prog[Target(i)].code = "label" /\ Target(i) # 1
  BY <1>1 DEF ProgOK, Protocol, Ops, Target
<1>5. live_out[i] = UNION {live_in[s] : s \in Succ(prog, i)}
  BY DEF Flow, Solves, OutOf, Ops
<1>6. Target(i) \in Succ(prog, i)
  <2>1. CASE prog[i].code = "jmp"
    BY <2>1 DEF Succ, Target
  <2>2. CASE prog[i].code # "jmp"
    <3>1. prog[i].code # "ret" /\ Target(i) \in {prog[i].jmp} \ {0}
      BY <1>1 DEF Target
    <3>2. Succ(prog, i) = ({i + 1} \cap 1 .. Len(prog)) \cup ({prog[i].jmp} \ {0})
      BY <2>2, <3>1, Zenon DEF Succ
    <3>3. QED
      BY <3>1, <3>2
  <2>3. QED
    BY <2>1, <2>2
<1>7. live_in[Target(i)] \subseteq live_out[i]
  BY <1>5, <1>6
<1>8. \A v \in live_out[i] : v \in live_in[i]
  BY <1>1, AliveThrough
<1>9. Together(prog, i, Target(i))
  <2>1. {j \in 1 .. Target(i) : prog[j].code = "prolog"} = {j \in 1 .. i : prog[j].code = "prolog"}
    BY <1>1 DEF ProgOK, Protocol, Ops, Target
  <2>2. ASSUME NEW s \in 1 .. Len(prog), prog[s].code = "prolog"
        PROVE  s <= i <=> s <= Target(i)
    <3>1. i \in Nat /\ Target(i) \in Nat /\ s \in Nat /\ s >= 1
      BY <1>2, <1>3 DEF Ops
    <3>2. s \in {j \in 1 .. Target(i) : prog[j].code = "prolog"} <=> s <= Target(i)
      BY <2>2, <3>1
    <3>3. s \in {j \in 1 .. i : prog[j].code = "prolog"} <=> s <= i
      BY <2>2, <3>1
    <3>4. QED
      BY <2>1, <3>2, <3>3
  <2>3. QED
    BY <2>2 DEF Together
<1>10. QED
  BY <1>3, <1>4, <1>7, <1>8, <1>9

\* What an edge inserts leads from the one map to the other.
LEMMA EdgeLeads ==
  ASSUME IInv, LInv, MInv, phase = "done", NEW i \in DOMAIN edge
  PROVE  /\ i \in Ops /\ prog[i].code \in {"jmp", "branch"}
         /\ Leads(regmap[i], edge[i], regmap[Target(i)], live_in[Target(i)])
         /\ \A v \in DOMAIN edge[i].save : Named(prog, i, v)
<1> DEFINE cur == regmap[i]
           tgt == regmap[Target(i)]
           L == live_in[Target(i)]
           b == edge[i]
           save == Differing(cur, tgt, DOMAIN cur \cap L)
           load == Differing(tgt, cur, DOMAIN tgt \cap live_out[i])
<1>1. i \in Ops /\ prog[i].code \in {"jmp", "branch"}
  BY DEF MInv, EdgesOK
<1>2. b = EdgeOf(prog, live_in, live_out, i, cur, tgt)
  BY DEF MInv, EdgesOK
<1>3. Target(i) \in Ops /\ L \subseteq live_out[i]
  BY <1>1, JumpEnds DEF IInv, Shape, LInv
<1>4. Last = Len(prog) /\ i \in 1 .. Last /\ Target(i) \in 1 .. Last
  BY <1>1, <1>3 DEF IInv, Calls, Ops
<1>5. One(tgt) /\ Local(prog, i, cur)
  BY <1>4 DEF IInv, AllGood, GoodMap, MInv, AllLocal
<1>6. b.save = save /\ b.rename = {} /\ b.load = load
  BY <1>2 DEF EdgeOf, TargetOf, Target, Batch
<1> HIDE DEF b, cur, tgt, L
<1>7. /\ \A v : v \in DOMAIN save <=> v \in DOMAIN cur \cap L /\ (v \notin DOMAIN tgt \/ cur[v] # tgt[v])
      /\ \A v \in DOMAIN save : save[v] = cur[v]
  <2>1. \A v : v \in DOMAIN save <=> v \in DOMAIN cur \cap (DOMAIN cur \cap L)
                                       /\ (v \notin DOMAIN tgt \/ cur[v] # tgt[v])
    BY DifferingIs
  <2>2. \A v \in DOMAIN save : save[v] = cur[v]
    BY DifferingIs
  <2> HIDE DEF save
  <2>3. QED
    BY <2>1, <2>2
<1>8. /\ \A v : v \in DOMAIN load <=> v \in DOMAIN tgt \cap live_out[i]
                                        /\ (v \notin DOMAIN cur \/ tgt[v] # cur[v])
      /\ \A v \in DOMAIN load : load[v] = tgt[v]
  <2>1. \A v : v \in DOMAIN load <=> v \in DOMAIN tgt \cap (DOMAIN tgt \cap live_out[i])
                                       /\ (v \notin DOMAIN cur \/ tgt[v] # cur[v])
    BY DifferingIs
  <2>2. \A v \in DOMAIN load : load[v] = tgt[v]
    BY DifferingIs
  <2> HIDE DEF load
  <2>3. QED
    BY <2>1, <2>2
<1> HIDE DEF save, load
<1>9. ASSUME NEW v \in DOMAIN tgt \cap L
      PROVE  Fetched(cur, b, tgt, v) \/ Stays(cur, b, tgt, v)
  <2>1. CASE v \in DOMAIN cur /\ cur[v] = tgt[v]
    <3>1. \A w \in DOMAIN load : load[w] # tgt[v]
      BY <1>5, <1>8, <2>1 DEF One
    <3>2. QED
      BY <1>6, <2>1, <3>1 DEF Stays, Unnamed, Unloaded
  <2>2. CASE v \notin DOMAIN cur \/ cur[v] # tgt[v]
    BY <1>3, <1>6, <1>7, <1>8, <2>2 DEF Fetched, Unnamed
  <2>3. QED
    BY <2>1, <2>2
<1>10. /\ \A v \in DOMAIN b.save : v \in DOMAIN cur
       /\ \A v \in DOMAIN b.save : b.save[v] = cur[v]
       /\ \A v \in DOMAIN cur \cap L : v \in DOMAIN tgt \/ v \in DOMAIN b.save
  BY <1>6, <1>7
<1>11. \A v, w \in DOMAIN b.load : b.load[v] = b.load[w] => v = w
  BY <1>5, <1>6, <1>8 DEF One
<1>12. Leads(cur, b, tgt, L)
  BY <1>9, <1>10, <1>11, Zenon DEF Leads
<1>13. \A v \in DOMAIN b.save : Named(prog, i, v)
  BY <1>5, <1>10, LocalNamed
<1>14. QED
  BY <1>1, <1>12, <1>13 DEF b, cur, tgt, L

LEMMA AgreeWithoutOthers ==
  ASSUME MInv, \A i \in Ops : prog[i].code # "bms"
  PROVE  JumpsAgree
<1> SUFFICES ASSUME phase = "done", NEW i \in Ops,
                    prog[i].code \in {"branch", "bms", "jmp"}, i \notin DOMAIN edge
             PROVE  RmapEqual(i)
  BY DEF JumpsAgree
<1>1. /\ DOMAIN edge = {j \in Ops : prog[j].code = "jmp"} \cup inverted
      /\ inverted = {j \in Ops : prog[j].code = "branch" /\ ~RmapEqual(j)}
  BY DEF MInv, EdgesOK
<1>2. prog[i].code = "branch"
  BY <1>1
<1>3. QED
  BY <1>1, <1>2

-----------------------------------------------------------------------------
(* Arguments                                                               *)

\* Arguments come into maps by PROLOGs only: what has lost its register does not get
\* one again.
Follows(map, old) == \A v \in DOMAIN map : v \in VReg \/ v \in DOMAIN old

ArgsFollow ==
  \A i \in 2 .. Last : prog[i].code # "prolog" => Follows(regmap[i], regmap[i - 1])

LEMMA FollowsLess ==
  ASSUME NEW map, NEW old, Follows(map, old), NEW S
  PROVE  Follows(Unassoc(map, S), old)
BY DEF Follows, Unassoc, Only

LEMMA FollowsMore ==
  ASSUME NEW map, NEW old, Follows(map, old), NEW v \in VReg, NEW h
  PROVE  Follows(Assoc(map, v, h), old)
BY DEF Follows, Assoc

LEMMA EnterFollows ==
  ASSUME IInv, ArgsFollow, NEW i, NEW codes, Start(i, codes),
         NEW map, NEW inserted, NEW operands, Enter(map, inserted, operands),
         prog[i].code # "prolog" => Follows(map, regmap[i - 1])
  PROVE  ArgsFollow'
<1>1. /\ Last \in Nat /\ i = Last + 1 /\ regmap \in Seq(RegMaps) /\ Last = Len(regmap)
  BY DEF IInv, Shape, Start, Last
<1>2. regmap' = Append(regmap, map) /\ prog' = prog
  BY DEF Enter, input
<1>3. Len(regmap') = i /\ regmap'[i] = map /\ \A j \in 1 .. i - 1 : regmap'[j] = regmap[j]
  BY <1>1, <1>2
<1>4. Last' = i
  BY <1>3 DEF Last
<1> SUFFICES ASSUME NEW j \in 2 .. i, prog[j].code # "prolog"
             PROVE  Follows(regmap'[j], regmap'[j - 1])
  BY <1>2, <1>4 DEF ArgsFollow
<1>5. CASE j = i
  BY <1>1, <1>3, <1>5
<1>6. CASE j # i
  <2>1. j \in 2 .. Last /\ j \in 1 .. i - 1 /\ j - 1 \in 1 .. i - 1
    BY <1>1, <1>6
  <2>2. QED
    BY <1>3, <2>1 DEF ArgsFollow
<1>7. QED
  BY <1>5, <1>6

LEMMA TakeFollows ==
  ASSUME IInv, ArgsFollow, NEW h \in HwReg, TakeRegister(h)
  PROVE  ArgsFollow'
<1>0. PICK last \in Nat : last = Last
  BY DEF IInv, Shape, Last
<1> DEFINE v == NextOperand
           map == regmap[last]
           new == TakenMap(h)
<1>1. /\ last > 0 /\ Last' = last /\ regmap'[last] = new /\ prog' = prog
      /\ \A j \in 1 .. last - 1 : regmap'[j] = regmap[j]
      /\ v \in todo
  BY <1>0, Taken
<1>2. v \in VReg
  BY <1>1 DEF IInv, Shape
<1>3. ASSUME NEW old, Follows(map, old)
      PROVE  Follows(new, old)
  <2>1. new = Assoc(Unassoc(map, In(map, {h})), v, h)
    BY <1>0 DEF TakenMap
  <2> HIDE DEF new, map, v
  <2>2. Follows(Unassoc(map, In(map, {h})), old)
    BY <1>3, FollowsLess
  <2>3. QED
    BY <1>2, <2>1, <2>2, FollowsMore
<1> HIDE DEF new, v
<1> SUFFICES ASSUME NEW j \in 2 .. last, prog[j].code # "prolog"
             PROVE  Follows(regmap'[j], regmap'[j - 1])
  BY <1>1 DEF ArgsFollow
<1>4. j - 1 \in 1 .. last - 1 /\ Follows(regmap[j], regmap[j - 1])
  BY <1>0 DEF ArgsFollow
<1>5. CASE j = last
  BY <1>1, <1>3, <1>4, <1>5
<1>6. CASE j # last
  <2>1. j \in 1 .. last - 1
    BY <1>6
  <2>2. QED
    BY <1>1, <1>4, <2>1
<1>7. QED
  BY <1>5, <1>6

LEMMA NextFollows == IInv /\ ArgsFollow /\ [Next]_alloc => ArgsFollow'
<1> SUFFICES ASSUME IInv, ArgsFollow, [Next]_alloc PROVE ArgsFollow'
  OBVIOUS
<1>0. \A map : Follows(map, map)
  BY DEF Follows
<1>1. ASSUME NEW i \in Ops, Prolog(i) PROVE ArgsFollow'
  BY <1>1, EnterFollows DEF Prolog, Start
<1>2. ASSUME NEW i \in Ops, Plain(i) \/ Putarg(i) PROVE ArgsFollow'
  BY <1>0, <1>2, EnterFollows DEF Plain, Putarg
<1>3. ASSUME NEW i \in Ops, Getarg(i) PROVE ArgsFollow'
  <2> DEFINE map == regmap[i - 1]
             arg == ArgOf(prog, i)
             def == DefOf(prog, i)
             taken == Assoc(Unassoc(map, {arg}), def, map[arg])
  <2>1. Start(i, {"getarg"}) /\ prog[i].code = "getarg"
    BY <1>3 DEF Getarg, Start
  <2>2. def \in VReg
    BY <2>1, MadeRegister DEF IInv, Shape
  <2>3. Follows(taken, map)
    BY <1>0, <2>2, FollowsLess, FollowsMore
  <2>4. Enter(taken, <<>>, {}) \/ Enter(map, <<>>, Operands(i))
    BY <1>3 DEF Getarg, ArgOf, DefOf
  <2> HIDE DEF taken
  <2>5. QED
    BY <1>0, <2>1, <2>3, <2>4, EnterFollows
<1>4. ASSUME NEW i \in Ops, Prepare(i) PROVE ArgsFollow'
  <2>1. Start(i, {"prepare"})
    BY <1>4 DEF Prepare
  <2>2. PICK renamed, pairs, saved :
          DOMAIN renamed = DOMAIN regmap[i - 1] /\ PrepareWith(i, renamed, pairs, saved)
    BY <1>4 DEF Prepare
  <2>3. Follows(renamed, regmap[i - 1])
    BY <2>2 DEF Follows
  <2>4. PICK args, inserted : Enter(Unassoc(renamed, args), inserted, {})
    BY <2>2 DEF PrepareWith
  <2>5. QED
    BY <2>1, <2>3, <2>4, FollowsLess, EnterFollows
<1>5. ASSUME NEW i \in Ops, Call(i) PROVE ArgsFollow'
  BY <1>0, <1>5, FollowsLess, EnterFollows DEF Call
<1>6. ASSUME NEW i \in Ops, Retval(i) PROVE ArgsFollow'
  <2>1. Start(i, {"retval"}) /\ prog[i].code = "retval"
    BY <1>6 DEF Retval, Start
  <2>2. DefOf(prog, i) \in VReg
    BY <2>1, MadeRegister DEF IInv, Shape
  <2>3. Follows(Assoc(regmap[i - 1], DefOf(prog, i), RetReg), regmap[i - 1])
    BY <1>0, <2>2, FollowsMore
  <2>4. Enter(Assoc(regmap[i - 1], DefOf(prog, i), RetReg), <<>>, {})
    BY <1>6 DEF Retval, DefOf
  <2>5. QED
    BY <2>1, <2>3, <2>4, EnterFollows
<1>7. ASSUME NEW h \in HwReg, TakeRegister(h) PROVE ArgsFollow'
  BY <1>7, TakeFollows
<1>8. CASE KeepRegister \/ AssignDone \/ AdjustBranches \/ AdjustJumps \/ UNCHANGED alloc
  <2>1. regmap' = regmap /\ prog' = prog
    BY <1>8 DEF KeepRegister, AssignDone, AdjustBranches, AdjustJumps, alloc, input
  <2>2. QED
    BY <2>1 DEF ArgsFollow, Last
<1>9. QED
  BY <1>1, <1>2, <1>3, <1>4, <1>5, <1>6, <1>7, <1>8, Zenon DEF Next

\* What an operation loads is one of its operands.
LEMMA OperationsLoad ==
  ASSUME IInv, MInv, phase = "done", NEW i \in Ops
  PROVE  \A n \in 1 .. Len(moves[i]) : DOMAIN moves[i][n].load \subseteq VReg
<1>1. ProgOK /\ i \in 1 .. Last
  BY DEF IInv, Shape, Calls, Ops
<1>2. Operands(i) \subseteq VReg /\ prog[i].code \in Codes
  BY <1>1, OperandsType DEF Operation
<1>3. CASE prog[i].code = "prolog"
  BY <1>1, <1>3 DEF MInv, PrologsOK
<1>4. CASE prog[i].code # "prolog"
  <2>1. i \in 2 .. Last
    BY <1>1, <1>4 DEF ProgOK, Ops
  <2>2. OpOK(prog, live_in, live_out, i, regmap[i - 1], regmap[i], moves[i],
             eliminated \cap {i}, Waiting(i))
    BY <1>4, <2>1 DEF MInv, OpsOK
  <2>3. moves[i] = <<>>
          \/ \A n \in 1 .. Len(moves[i]) : DOMAIN moves[i][n].load \subseteq OperandsOf(prog, i)
    BY <1>2, <1>4, <2>2 DEF OpOK, Still, Served, Ordinary, Codes
  <2>4. OperandsOf(prog, i) = Operands(i)
    BY DEF OperandsOf, Operands
  <2>5. QED
    BY <1>2, <2>3, <2>4
<1>5. QED
  BY <1>3, <1>4

\* From an operation to a later one of its function, the arguments in registers only
\* get fewer.
LEMMA FollowsAll ==
  ASSUME IInv, ArgsFollow, phase = "done", NEW i \in Ops, NEW j \in Ops, i < j,
         Together(prog, i, j)
  PROVE  Follows(regmap[j], regmap[i])
<1>1. Len(prog) \in Nat /\ Ops = 1 .. Last /\ Last \in Nat
  BY DEF IInv, Shape, Calls, Ops, ProgOK
<1> DEFINE P == {n \in Nat : n <= j - i => Follows(regmap[j], regmap[j - n])}
<1>2. 0 \in P
  BY <1>1 DEF Follows
<1>3. ASSUME NEW n \in P
      PROVE  n + 1 \in P
  <2> SUFFICES ASSUME n + 1 <= j - i PROVE Follows(regmap[j], regmap[j - (n + 1)])
    OBVIOUS
  <2>1. j - n \in 2 .. Last /\ j - n \in Ops /\ j - (n + 1) = j - n - 1 /\ i < j - n /\ n <= j - i
          /\ j - n <= j
    BY <1>1
  <2>2. prog[j - n].code # "prolog"
    <3>1. prog[j - n].code = "prolog" => (j - n <= i <=> j - n <= j)
      BY <2>1 DEF Together, Ops
    <3>2. QED
      BY <1>1, <2>1, <3>1
  <2>3. Follows(regmap[j], regmap[j - n]) /\ Follows(regmap[j - n], regmap[j - n - 1])
    BY <2>1, <2>2 DEF ArgsFollow
  <2>4. QED
    BY <2>1, <2>3 DEF Follows
<1>4. P = Nat
  <2>1. P \in SUBSET Nat
    OBVIOUS
  <2> HIDE DEF P
  <2>2. QED
    BY <1>2, <1>3, <2>1, EveryNumber
<1>5. i \in Int /\ j \in Int /\ j - i \in Nat /\ j - i <= j - i /\ j - (j - i) = i
  BY <1>1
<1>6. j - i \in P
  BY <1>4, <1>5
<1>7. Follows(regmap[j], regmap[j - (j - i)])
  BY <1>5, <1>6
<1>8. QED
  BY <1>5, <1>7

\* The edge of a jump forward loads no argument: if the target has it, so has the
\* jump, and in the same register.
LEMMA ForwardLoads ==
  ASSUME IInv, LInv, MInv, ArgsFollow, phase = "done", NEW i \in DOMAIN edge, i < Target(i)
  PROVE  i \in Ops /\ DOMAIN edge[i].load \subseteq VReg
<1> DEFINE t == Target(i)
<1>1. /\ i \in Ops /\ prog[i].code \in {"jmp", "branch"}
      /\ edge[i] = EdgeOf(prog, live_in, live_out, i, regmap[i], regmap[t])
  BY DEF MInv, EdgesOK
<1>2. /\ ProgOK /\ Flow /\ Len(prog) \in Nat /\ Last = Len(prog)
  BY DEF IInv, Shape, Calls, LInv, ProgOK
<1>3. t \in Ops /\ Together(prog, i, t)
  BY <1>1, <1>2, JumpEnds
<1> HIDE DEF t
<1>4. Follows(regmap[t], regmap[i])
  BY <1>1, <1>3, FollowsAll DEF t
<1>5. Local(prog, i, regmap[i]) /\ Local(prog, t, regmap[t])
  BY <1>1, <1>2, <1>3 DEF MInv, AllLocal, Ops
<1>6. ArgsOf(prog, i) = ArgsOf(prog, t)
  BY <1>1, <1>2, <1>3, SameFunction DEF ArgsOf, Ops
<1>7. ASSUME NEW v \in DOMAIN edge[i].load, v \notin VReg
      PROVE  FALSE
  <2>1. edge[i].load = Differing(regmap[t], regmap[i], DOMAIN regmap[t] \cap live_out[i])
    BY <1>1 DEF EdgeOf, Batch
  <2>2. v \in DOMAIN regmap[t] /\ (v \notin DOMAIN regmap[i] \/ regmap[t][v] # regmap[i][v])
    BY <2>1, DifferingIs
  <2>3. v \in DOMAIN regmap[i]
    BY <1>4, <1>7, <2>2 DEF Follows
  <2>4. /\ regmap[i][v] = ArgMap(ArgsOf(prog, i))[v]
        /\ regmap[t][v] = ArgMap(ArgsOf(prog, t))[v]
    BY <1>5, <1>7, <2>2, <2>3 DEF Local, IsOperand
  <2>5. QED
    BY <1>6, <2>2, <2>3, <2>4
<1>8. QED
  BY <1>1, <1>7

\* No jump back is taken with an argument alive.
LoopsTakeNone(p, out) ==
  \A i \in 1 .. Len(p) :
    p[i].code \in {"jmp", "branch"} /\ p[i].jmp <= i => out[i] \subseteq VReg

LEMMA NothingLoaded ==
  ASSUME IInv, LInv, MInv, ArgsFollow, LoopsTakeNone(prog, live_out)
  PROVE  NoArgLoads
<1> SUFFICES ASSUME phase = "done" PROVE NoArgLoads
  BY DEF NoArgLoads
<1>1. ASSUME NEW i \in DOMAIN edge
      PROVE  DOMAIN edge[i].load \subseteq VReg
  <2>1. /\ i \in Ops /\ prog[i].code \in {"jmp", "branch"}
        /\ edge[i] = EdgeOf(prog, live_in, live_out, i, regmap[i], regmap[Target(i)])
    BY DEF MInv, EdgesOK
  <2>2. Target(i) \in Ops /\ ProgOK
    BY <2>1, JumpEnds DEF IInv, Shape, LInv
  <2>3. CASE i < Target(i)
    BY <2>3, ForwardLoads
  <2>4. CASE Target(i) <= i
    <3>1. live_out[i] \subseteq VReg
      BY <2>1, <2>4 DEF LoopsTakeNone, Target, Ops
    <3>2. edge[i].load = Differing(regmap[Target(i)], regmap[i],
                                   DOMAIN regmap[Target(i)] \cap live_out[i])
      BY <2>1 DEF EdgeOf, Batch
    <3>3. QED
      BY <3>1, <3>2, DifferingIs
  <2>5. QED
    BY <2>1, <2>2, <2>3, <2>4 DEF Ops
<1>2. QED
  BY <1>1, OperationsLoad DEF NoArgLoads

-----------------------------------------------------------------------------
(* The walks find registers and come to an end                             *)

\* An operand that waits for a register has one, or there is one for it to take.
RegisterFound ==
  todo # {} => \/ NextOperand \in DOMAIN regmap[Last]
               \/ Candidates(regmap[Last], TypeOf(NextOperand), Last) # {}

\* No operation of p has more operands of a type than there are registers.
FewOperands(p) ==
  \A i \in 1 .. Len(p) : \A type \in {"INT", "FLOAT"} :
    Cardinality({v \in OperandsOf(p, i) : TypeOf(v) = type}) <= Cardinality(RegsOf(type))

LEMMA TypesApart ==
  ASSUME NEW s \in {"INT", "FLOAT"}, NEW t \in {"INT", "FLOAT"},
         NEW h, h \in RegsOf(s), h \in RegsOf(t)
  PROVE  s = t
BY Hardware

\* What waits is an operand of the last operation.
LEMMA WaitsAtLast ==
  ASSUME IInv, MInv, todo # {}
  PROVE  Last \in Ops /\ Last \in 1 .. Last /\ todo \subseteq OperandsOf(prog, Last)
<1>1. Last \in 1 .. Last /\ Last \in Ops /\ ProgOK
  BY DEF IInv, Shape, Calls, Last, Ops
<1>2. Waiting(Last) = todo
  BY DEF Waiting
<1>3. prog[Last].code # "prolog" /\ prog[Last].code \in Codes
  <2>1. prog[Last].code # "prolog"
    BY <1>1, <1>2 DEF MInv, PrologsOK
  <2>2. prog[Last] \in Operation
    BY <1>1, OperandsType
  <2>3. QED
    BY <2>1, <2>2 DEF Operation
<1>4. Last \in 2 .. Last
  BY <1>1, <1>3 DEF ProgOK
<1>5. OpOK(prog, live_in, live_out, Last, regmap[Last - 1], regmap[Last], moves[Last],
           eliminated \cap {Last}, todo)
  BY <1>2, <1>3, <1>4 DEF MInv, OpsOK
<1>6. Last \notin eliminated /\ prog[Last].code \in Ordinary
  BY <1>3, <1>5 DEF OpOK, Still, Ordinary, Codes
<1>7. todo \subseteq OperandsOf(prog, Last)
  BY <1>5, <1>6 DEF OpOK, Served
<1>8. QED
  BY <1>1, <1>7

\* If no register can be taken, each holds another operand of the operation, and
\* there is one operand too many.
LEMMA FindsRegister ==
  ASSUME IsFiniteSet(GpRegs), IsFiniteSet(FpRegs), IInv, MInv, FewOperands(prog)
  PROVE  RegisterFound
<1> SUFFICES ASSUME todo # {}, NextOperand \notin DOMAIN regmap[Last],
                    Candidates(regmap[Last], TypeOf(NextOperand), Last) = {}
             PROVE  FALSE
  BY DEF RegisterFound
<1> DEFINE v == NextOperand
           type == TypeOf(v)
           map == regmap[Last]
           H == RegsOf(type)
           own == {w \in OperandsOf(prog, Last) : TypeOf(w) = type}
           f == [h \in H |-> CHOOSE w \in In(map, {h}) : w \in Operands(Last)]
<1>1. Last \in Ops /\ Last \in 1 .. Last /\ v \in OperandsOf(prog, Last) /\ ProgOK
  BY NextIsOperand, WaitsAtLast DEF IInv, Shape
<1>2. OperandsOf(prog, Last) = Operands(Last) /\ Operands(Last) \subseteq VReg
  BY <1>1, OperandsType DEF OperandsOf, Operands
<1>3. GoodMap(map) /\ type \in {"INT", "FLOAT"}
  BY <1>1, <1>2, VRegTypes DEF IInv, AllGood
<1>4. \A h \in H : In(map, {h}) \cap Operands(Last) # {}
  BY DEF Candidates
<1>5. ASSUME NEW h \in H
      PROVE  f[h] \in Operands(Last) /\ f[h] \in DOMAIN map /\ map[f[h]] = h
  <2>1. f[h] \in In(map, {h}) /\ f[h] \in Operands(Last)
    BY <1>4
  <2>2. QED
    BY <2>1, Held
<1> HIDE DEF f
<1>6. ASSUME NEW h \in H
      PROVE  f[h] \in own \ {v}
  <2>1. f[h] # v
    BY <1>5
  <2>2. map[f[h]] \in RegsOf(TypeOf(f[h])) /\ TypeOf(f[h]) \in {"INT", "FLOAT"}
    BY <1>2, <1>3, <1>5, VRegTypes DEF GoodMap, One
  <2>3. TypeOf(f[h]) = type
    BY <1>3, <1>5, <2>2, TypesApart
  <2>4. QED
    BY <1>2, <1>5, <2>1, <2>3
<1>7. f \in Injection(H, own \ {v})
  <2>1. f \in [H -> own \ {v}]
    BY <1>6 DEF f
  <2>2. \A g, h \in H : f[g] = f[h] => g = h
    BY <1>5
  <2> HIDE DEF own, H, v
  <2>3. QED
    BY <2>1, <2>2 DEF Injection, IsInjective
<1>8. IsFiniteSet(own)
  <2>1. own \in SUBSET VReg
    BY <1>2
  <2>2. IsFiniteSet(VReg)
    BY AllocAssumption
  <2> HIDE DEF own
  <2>3. QED
    BY <2>1, <2>2, FS_Subset
<1>9. Cardinality(own) <= Cardinality(H)
  BY <1>1, <1>3 DEF FewOperands, Ops
<1>10. v \in own
  BY <1>1
<1> HIDE DEF own, H, v
<1>11. IsFiniteSet(own \ {v}) /\ Cardinality(own \ {v}) = Cardinality(own) - 1
  BY <1>8, <1>10, FS_RemoveElement
<1>12. Cardinality(H) <= Cardinality(own \ {v}) /\ IsFiniteSet(H)
  BY <1>7, <1>11, FS_Injection
<1>13. Cardinality(H) \in Nat /\ Cardinality(own) \in Nat
  BY <1>8, <1>12, FS_CardinalityType
<1>14. QED
  BY <1>9, <1>11, <1>12, <1>13

\* What is left of the walks: the operations not entered, each with its operands, the
\* operands that wait, and the walks to come.
WalksLeft ==
  IF phase = "assign" THEN 3
  ELSE IF phase = "branches" THEN 2
  ELSE IF phase = "jumps" THEN 1 ELSE 0
StepsLeft == (Len(prog) - Last) * (Cardinality(VReg) + 1) + Cardinality(todo) + WalksLeft

LEMMA TodoCount ==
  ASSUME NEW S \in SUBSET VReg
  PROVE  /\ IsFiniteSet(S) /\ Cardinality(S) \in Nat /\ Cardinality(VReg) \in Nat
         /\ Cardinality(S) <= Cardinality(VReg)
<1>1. IsFiniteSet(VReg)
  BY AllocAssumption
<1>2. IsFiniteSet(S)
  BY <1>1, FS_Subset
<1>3. QED
  BY <1>1, <1>2, FewerInPart

LEMMA StepsLeftType == IInv => StepsLeft \in Nat
<1> SUFFICES ASSUME IInv PROVE StepsLeft \in Nat
  OBVIOUS
<1> DEFINE n == Len(prog) - Last
           c == Cardinality(VReg) + 1
           d == Cardinality(todo)
<1>1. n \in Nat
  BY DEF IInv, Shape, Last, ProgOK
<1>2. c \in Nat /\ d \in Nat
  BY TodoCount DEF IInv, Shape
<1>3. StepsLeft = n * c + d + WalksLeft
  BY DEF StepsLeft
<1> HIDE DEF n, c, d
<1>4. n * c \in Nat
  BY <1>1, <1>2
<1>5. WalksLeft \in Nat
  BY DEF WalksLeft
<1>6. QED
  BY <1>2, <1>3, <1>4, <1>5

LEMMA EnterLess ==
  ASSUME IInv, NEW i, NEW codes, Start(i, codes),
         NEW map, NEW inserted, NEW operands \in SUBSET VReg, Enter(map, inserted, operands)
  PROVE  StepsLeft' < StepsLeft
<1> DEFINE n == Len(prog) - i
           c == Cardinality(VReg)
           d == Cardinality(operands)
           w == WalksLeft
<1>1. /\ Last \in Nat /\ i = Last + 1 /\ i \in Ops /\ regmap \in Seq(RegMaps) /\ Last = Len(regmap)
      /\ todo = {} /\ Len(prog) \in Nat
  BY DEF IInv, Shape, Start, Last, ProgOK
<1>2. regmap' = Append(regmap, map) /\ prog' = prog /\ todo' = operands /\ phase' = phase
  BY DEF Enter, input
<1>3. Last' = i /\ w \in Nat
  BY <1>1, <1>2 DEF Last, WalksLeft
<1>4. n \in Nat /\ Len(prog) - Last = n + 1 /\ c \in Nat /\ d \in Nat /\ d <= c
  BY <1>1, TodoCount DEF Ops
<1>5. Cardinality(todo) = 0
  BY <1>1, FS_EmptySet
<1>6. StepsLeft = (n + 1) * (c + 1) + 0 + w /\ StepsLeft' = n * (c + 1) + d + w
  BY <1>2, <1>3, <1>4, <1>5 DEF StepsLeft, WalksLeft
<1> HIDE DEF n, c, d, w
<1>7. n * (c + 1) + (c + 1) <= (n + 1) * (c + 1) /\ n * (c + 1) \in Nat /\ (n + 1) * (c + 1) \in Nat
  <2>1. n + 1 \in Nat /\ n < n + 1 /\ c + 1 \in Nat
    BY <1>4
  <2>2. QED
    BY <1>4, <2>1, RoundLess
<1>8. QED
  BY <1>3, <1>4, <1>6, <1>7

\* Any other step leaves the list where it is.
LEMMA OtherLess ==
  ASSUME IInv, prog' = prog, Last' = Last,
         \/ \E v \in todo : todo' = todo \ {v} /\ phase' = phase
         \/ todo' = todo /\ <<phase, phase'>> \in {<<"assign", "branches">>,
                              <<"branches", "jumps">>, <<"jumps", "done">>}
  PROVE  StepsLeft' < StepsLeft
<1> DEFINE most == (Len(prog) - Last) * (Cardinality(VReg) + 1)
           d == Cardinality(todo)
           e == Cardinality(todo')
           w == WalksLeft
           x == WalksLeft'
<1>1. d \in Nat /\ Cardinality(VReg) \in Nat /\ todo \in SUBSET VReg /\ IsFiniteSet(todo)
  <2>1. todo \in SUBSET VReg
    BY DEF IInv, Shape
  <2>2. QED
    BY <2>1, TodoCount
<1>2. most \in Int
  BY <1>1 DEF IInv, Shape, Last, ProgOK
<1>3. StepsLeft = most + d + w /\ StepsLeft' = most + e + x
  BY DEF StepsLeft
<1>4. w \in Nat /\ x \in Nat
  BY DEF WalksLeft
<1>5. CASE \E v \in todo : todo' = todo \ {v} /\ phase' = phase
  <2>1. PICK v \in todo : todo' = todo \ {v}
    BY <1>5
  <2>2. e = d - 1
    BY <1>1, <2>1, FS_RemoveElement
  <2>3. x = w
    BY <1>5 DEF WalksLeft
  <2> HIDE DEF most, d, e, w, x
  <2>4. QED
    BY <1>1, <1>2, <1>3, <1>4, <2>2, <2>3
<1>6. CASE todo' = todo /\ <<phase, phase'>> \in {<<"assign", "branches">>,
                              <<"branches", "jumps">>, <<"jumps", "done">>}
  <2>1. e = d /\ x < w
    BY <1>6 DEF WalksLeft
  <2> HIDE DEF most, d, e, w, x
  <2>2. QED
    BY <1>1, <1>2, <1>3, <1>4, <2>1
<1>7. QED
  BY <1>5, <1>6

LEMMA NextLess == IInv /\ Next => StepsLeft' < StepsLeft
<1> SUFFICES ASSUME IInv, Next PROVE StepsLeft' < StepsLeft
  OBVIOUS
<1> DEFINE none == {}
<1>0. none \in SUBSET VReg /\ \A i \in Ops : Operands(i) \in SUBSET VReg
  BY OperandsType DEF IInv, Shape
<1>1. ASSUME NEW i \in Ops, Prolog(i) \/ Putarg(i) \/ Call(i) \/ Retval(i) PROVE StepsLeft' < StepsLeft
  BY <1>0, <1>1, EnterLess DEF Prolog, Putarg, Call, Retval
<1>2. ASSUME NEW i \in Ops, Plain(i) PROVE StepsLeft' < StepsLeft
  BY <1>0, <1>2, EnterLess DEF Plain
<1>3. ASSUME NEW i \in Ops, Getarg(i) PROVE StepsLeft' < StepsLeft
  <2>1. /\ Start(i, {"getarg"})
        /\ \E map, operands : operands \in {none, Operands(i)} /\ Enter(map, <<>>, operands)
    BY <1>3 DEF Getarg
  <2>2. QED
    BY <1>0, <2>1, EnterLess
<1>4. ASSUME NEW i \in Ops, Prepare(i) PROVE StepsLeft' < StepsLeft
  <2>1. Start(i, {"prepare"}) /\ \E map, inserted : Enter(map, inserted, none)
    BY <1>4 DEF Prepare, PrepareWith
  <2>2. QED
    BY <1>0, <2>1, EnterLess
<1>5. CASE KeepRegister
  <2>1. /\ prog' = prog /\ Last' = Last /\ todo # {} /\ todo' = todo \ {NextOperand}
        /\ phase' = phase
    BY <1>5 DEF KeepRegister, input, Last
  <2>2. QED
    BY <2>1, NextIsOperand, OtherLess
<1>6. ASSUME NEW h \in HwReg, TakeRegister(h) PROVE StepsLeft' < StepsLeft
  <2>1. /\ prog' = prog /\ Last' = Last /\ todo # {} /\ todo' = todo \ {NextOperand}
        /\ phase' = phase
    <3>1. PICK last \in Nat : last = Last
      BY DEF IInv, Shape, Last
    <3>2. QED
      BY <1>6, <3>1, Taken
  <2>2. QED
    BY <2>1, NextIsOperand, OtherLess
<1>7. CASE AssignDone \/ AdjustBranches \/ AdjustJumps
  <2>1. /\ prog' = prog /\ Last' = Last /\ todo' = todo
        /\ <<phase, phase'>> \in {<<"assign", "branches">>, <<"branches", "jumps">>, <<"jumps", "done">>}
    BY <1>7 DEF AssignDone, AdjustBranches, AdjustJumps, input, Last
  <2>2. QED
    BY <2>1, OtherLess
<1>8. QED
  BY <1>1, <1>2, <1>3, <1>4, <1>5, <1>6, <1>7, Zenon DEF Next

-----------------------------------------------------------------------------
(* Theorems                                                                *)

\* Whatever the program and the scores: what is inserted before an operation, and on
\* an edge, is a path of batches from the one map to the other, on which every value
\* that is alive is kept, moved, or saved and loaded.
THEOREM MovesFollowMaps == Spec => []MInv
<1>1. Init => IInv /\ MInv
  BY InitIInv, InitMInv
<1>2. IInv /\ MInv /\ [Next]_alloc => (IInv /\ MInv)'
  BY NextIInv, NextMInv
<1>3. QED
  BY <1>1, <1>2, PTL DEF Spec

\* No argument is loaded into its register, before an operation or on an edge, in
\* programs that do not jump back with an argument alive.  The code asserts that
\* there is no such load, and in a loop that reads an argument there is one.
THEOREM NoArgumentIsLoaded ==
  ASSUME \A p \in Programs : LoopsTakeNone(p, Analysis[p].out)
  PROVE  Spec => []NoArgLoads
<1> DEFINE NoneTaken == LoopsTakeNone(prog, live_out)
<1>1. Init => ArgsFollow /\ NoneTaken
  BY DEF Init, ArgsFollow, Last
<1>2. NoneTaken /\ [Next]_alloc => NoneTaken'
  <2>1. [Next]_alloc => prog' = prog /\ live_out' = live_out
    BY DEF Next, Prolog, Plain, Putarg, Getarg, Prepare, PrepareWith, Call, Retval, Enter,
           KeepRegister, TakeRegister, AssignDone, AdjustBranches, AdjustJumps, input, alloc
  <2>2. QED
    BY <2>1
<1>3. IInv /\ LInv /\ MInv /\ ArgsFollow /\ NoneTaken => NoArgLoads
  BY NothingLoaded
<1>4. Init => IInv /\ LInv /\ MInv
  BY InitIInv, InitLInv, InitMInv
<1>5. IInv /\ LInv /\ MInv /\ ArgsFollow /\ [Next]_alloc => (IInv /\ LInv /\ MInv /\ ArgsFollow)'
  BY NextIInv, NextLInv, NextMInv, NextFollows
<1> HIDE DEF NoneTaken
<1>6. QED
  BY <1>1, <1>2, <1>3, <1>4, <1>5, PTL DEF Spec

\* make_free_reg never comes back without a register (rmap.h:209-245), whatever the
\* maps are like, if no operation names more registers than there are.
THEOREM RegistersAreFound ==
  ASSUME IsFiniteSet(GpRegs), IsFiniteSet(FpRegs), \A p \in Programs : FewOperands(p)
  PROVE  Spec => []RegisterFound
<1> DEFINE Few == FewOperands(prog)
<1>1. Init => Few
  BY DEF Init
<1>2. Few /\ [Next]_alloc => Few'
  <2>1. [Next]_alloc => prog' = prog
    BY DEF Next, Prolog, Plain, Putarg, Getarg, Prepare, PrepareWith, Call, Retval, Enter,
           KeepRegister, TakeRegister, AssignDone, AdjustBranches, AdjustJumps, input, alloc
  <2>2. QED
    BY <2>1
<1>3. IInv /\ MInv /\ Few => RegisterFound
  BY FindsRegister
<1> HIDE DEF Few
<1>4. QED
  BY <1>1, <1>2, <1>3, AllocInvariant, MovesFollowMaps, PTL DEF Spec

\* Every step of the three walks leaves fewer steps to be made: jit_assign_regs ends,
\* after at most one step for each operation and each of its operands, and three.
THEOREM AllocationEnds == Spec => [](StepsLeft \in Nat) /\ [][StepsLeft' < StepsLeft]_alloc
<1>1. IInv /\ [Next]_alloc => [StepsLeft' < StepsLeft]_alloc
  BY NextLess
<1>2. QED
  BY <1>1, StepsLeftType, AllocInvariant, PTL DEF Spec
=============================================================================
