--------------------------- MODULE JitExecProofs ---------------------------
(***************************************************************************)
(* Proofs about JitExec.tla: the generated code computes what the program  *)
(* computes, wherever the allocator has put its values.                    *)
(*                                                                         *)
(* The invariant says where every value that is alive is, at each point of *)
(* an operation: where the map of that point has it, or in its slot of the *)
(* stack frame (Home).  The maps between the batches of one operation are  *)
(* those of RegAllocProofs.tla.  From a PREPARE to the return from its     *)
(* CALL it says what of that the call leaves alone, and what is pushed and *)
(* saved of the rest (Prepared).                                           *)
(***************************************************************************)
EXTENDS JitExec, RegAllocProofs

-----------------------------------------------------------------------------
(* The stack frame of a function, apart from the state: p is the program,  *)
(* F the operations of the function, batches and e what is inserted.       *)

FunctionOf(p, i) ==
  {n \in 1 .. Len(p) : \A j \in {m \in 1 .. Len(p) : p[m].code = "prolog"} : j <= n <=> j <= i}

Ids(p, F, type) ==
  {v[3] + 1 : v \in {w \in UNION {OperandsOf(p, n) : n \in F} : TypeOf(w) = type}}
LastIn(p, F, type) ==
  CHOOSE n \in Ids(p, F, type) \cup {0} : \A m \in Ids(p, F, type) : m <= n
FpIn(p, F) == LastIn(p, F, "FLOAT")
GpIn(p, F) == LastIn(p, F, "INT") + ((LastIn(p, F, "INT") + FpIn(p, F)) % 2)

SlotIn(p, F, v) ==
  CASE v[2] = "ARG" -> v[3] + GpIn(p, F) + FpIn(p, F)
    [] v[2] = "REG" /\ v[1] = "INT" -> v[3] + 1
    [] v[2] = "REG" /\ v[1] = "FLOAT" -> GpIn(p, F) + v[3] + 1

FrameIn(p, i) ==
  0 .. GpIn(p, FunctionOf(p, i)) + FpIn(p, FunctionOf(p, i)) + Len(ArgsOf(p, i))

SpilledIn(batches, e, F) ==
  (UNION {UNION {DOMAIN batches[n][m].save : m \in 1 .. Len(batches[n])} : n \in F})
    \cup (UNION {DOMAIN e[n].save : n \in F \cap DOMAIN e})

\* The slots of the registers that are saved somewhere in the function.
SlotsIn(p, batches, e, F) == [v \in SpilledIn(batches, e, F) |-> SlotIn(p, F, v)]
SlotsAt(p, batches, e, i) == SlotsIn(p, batches, e, FunctionOf(p, i))

LEMMA CountsAre ==
  ASSUME NEW i
  PROVE  /\ Function(i) = FunctionOf(prog, i)
         /\ GpCount(i) = GpIn(prog, FunctionOf(prog, i))
         /\ FpCount(i) = FpIn(prog, FunctionOf(prog, i))
<1>1. Function(i) = FunctionOf(prog, i)
  BY DEF Function, FunctionOf, Ops, Prologs
<1>2. ASSUME NEW type
      PROVE  LastOf(i, type) = LastIn(prog, FunctionOf(prog, i), type)
  BY <1>1 DEF LastOf, LastIn, Ids, Operands, OperandsOf
<1>3. QED
  BY <1>1, <1>2, Zenon DEF GpCount, FpCount, GpIn, FpIn

LEMMA SlotIs ==
  ASSUME NEW i
  PROVE  /\ \A v : Slot(i, v) = SlotIn(prog, FunctionOf(prog, i), v)
         /\ Spilled(i) = SpilledIn(moves, edge, FunctionOf(prog, i))
<1>1. \A v : Slot(i, v) = SlotIn(prog, FunctionOf(prog, i), v)
  BY CountsAre, Zenon DEF Slot, SlotIn
<1>2. Spilled(i) = SpilledIn(moves, edge, FunctionOf(prog, i))
  BY CountsAre, Zenon DEF Spilled, SpilledIn
<1>3. QED
  BY <1>1, <1>2

LEMMA FunctionIs ==
  ASSUME NEW p, NEW i, NEW n
  PROVE  n \in FunctionOf(p, i) <=> n \in 1 .. Len(p) /\ Together(p, n, i)
BY DEF FunctionOf, Together

LEMMA SameFrame ==
  ASSUME NEW p, NEW i, NEW j, Together(p, i, j)
  PROVE  FunctionOf(p, i) = FunctionOf(p, j)
<1>1. \A s \in {m \in 1 .. Len(p) : p[m].code = "prolog"} : s <= i <=> s <= j
  BY DEF Together
<1>2. QED
  BY <1>1 DEF FunctionOf

-----------------------------------------------------------------------------
(* The code when it is complete                                            *)

\* prog is one of the programs, with its liveness.
Given == prog \in Programs /\ live_in = Analysis[prog].in /\ live_out = Analysis[prog].out

Ready == Given /\ IInv /\ LInv /\ MInv /\ phase = "done"

LEMMA ReadyFacts ==
  ASSUME Ready
  PROVE  /\ ProgOK /\ Flow /\ Len(prog) \in Nat /\ Ops = 1 .. Len(prog) /\ Last = Len(prog)
         /\ \A i \in Ops : /\ regmap[i] \in RegMaps /\ One(regmap[i])
                           /\ moves[i] \in Seq(Batches) /\ Waiting(i) = {}
         /\ \A i \in DOMAIN edge : edge[i] \in Batches
<1>1. ProgOK /\ Flow /\ Len(prog) \in Nat /\ Ops = 1 .. Len(prog) /\ Last = Len(prog) /\ todo = {}
  BY DEF Ready, IInv, Shape, Calls, LInv, ProgOK, Ops
<1>2. regmap \in Seq(RegMaps) /\ moves \in Seq(Seq(Batches)) /\ Len(moves) = Last /\ Len(regmap) = Last
  BY DEF Ready, IInv, Shape, Last
<1>3. ASSUME NEW i \in Ops
      PROVE  /\ regmap[i] \in RegMaps /\ One(regmap[i])
             /\ moves[i] \in Seq(Batches) /\ Waiting(i) = {}
  <2>1. i \in 1 .. Last
    BY <1>1
  <2>2. GoodMap(regmap[i]) /\ moves[i] \in Seq(Batches)
    BY <1>1, <1>2, <2>1 DEF Ready, IInv, AllGood
  <2>3. QED
    BY <1>1, <2>2 DEF GoodMap, Waiting
<1>4. \A i \in DOMAIN edge : edge[i] \in Batches
  BY DEF Ready, IInv, Shape
<1>5. QED
  BY <1>1, <1>3, <1>4

\* What the allocator has made of an operation.
LEMMA ReadyOp ==
  ASSUME Ready, NEW i \in Ops, prog[i].code # "prolog"
  PROVE  /\ i \in 2 .. Len(prog) /\ i - 1 \in Ops /\ Together(prog, i - 1, i)
         /\ OpOK(prog, live_in, live_out, i, regmap[i - 1], regmap[i], moves[i],
                 eliminated \cap {i}, {})
<1>1. Len(prog) \in Nat /\ Last = Len(prog) /\ Waiting(i) = {} /\ prog[1].code = "prolog" /\ i \in 1 .. Len(prog)
  BY ReadyFacts DEF ProgOK
<1>2. i # 1
  BY <1>1
<1>3. i \in 2 .. Len(prog) /\ i - 1 \in Ops
  BY <1>1, <1>2 DEF Ops
<1>4. Together(prog, i - 1, i)
  BY <1>1, <1>3, NextTogether
<1>5. OpOK(prog, live_in, live_out, i, regmap[i - 1], regmap[i], moves[i],
           eliminated \cap {i}, Waiting(i))
  BY <1>1, <1>3 DEF Ready, MInv, OpsOK
<1>6. QED
  BY <1>1, <1>3, <1>4, <1>5

LEMMA ReadyProlog ==
  ASSUME Ready, NEW i \in Ops, prog[i].code = "prolog"
  PROVE  /\ regmap[i] = ArgMap(prog[i].args) /\ moves[i] = <<>>
         /\ ArgsOf(prog, i) = prog[i].args
<1>1. i \in 1 .. Last /\ i \in Nat
  BY ReadyFacts
<1>2. regmap[i] = ArgMap(prog[i].args) /\ moves[i] = <<>>
  BY <1>1 DEF Ready, MInv, PrologsOK
<1>3. ArgsOf(prog, i) = prog[i].args
  <2> DEFINE S == {j \in 1 .. i : prog[j].code = "prolog"}
             last == CHOOSE j \in S : \A m \in S : m <= j
  <2>1. i \in S /\ \A m \in S : m <= i /\ m \in Nat
    BY <1>1
  <2>2. last \in S /\ \A m \in S : m <= last
    <3>1. \E j \in S : \A m \in S : m <= j
      BY <2>1
    <3>2. QED
      BY <3>1
  <2> HIDE DEF last, S
  <2>3. last = i
    BY <1>1, <2>1, <2>2
  <2>4. FuncOf(prog, i) = prog[last]
    BY DEF FuncOf, last, S
  <2>5. QED
    BY <2>3, <2>4 DEF ArgsOf
<1>4. QED
  BY <1>2, <1>3

\* The PROLOG of the function that an operation is of.
LEMMA PrologOf ==
  ASSUME ProgOK, NEW i \in Ops
  PROVE  \E s \in Ops : /\ prog[s].code = "prolog" /\ FuncOf(prog, i) = prog[s]
                        /\ ArgsOf(prog, i) = prog[s].args
                        /\ Together(prog, s, i) /\ s <= i
<1> DEFINE S == {j \in 1 .. i : prog[j].code = "prolog"}
           last == CHOOSE j \in S : \A m \in S : m <= j
<1>1. S \in SUBSET (1 .. i) /\ 1 \in S /\ i \in Nat /\ i <= Len(prog) /\ Len(prog) \in Nat
  BY DEF ProgOK, Ops
<1>2. \E j \in S : \A m \in S : m <= j
  <2> HIDE DEF S
  <2>1. QED
    BY <1>1, LastPosition
<1>3. last \in S /\ \A m \in S : m <= last
  BY <1>2, Zenon
<1>4. FuncOf(prog, i) = prog[last]
  BY DEF FuncOf
<1>5. \A m \in 1 .. i : prog[m].code = "prolog" => m <= last
  BY <1>3
<1>6. last \in 1 .. i /\ prog[last].code = "prolog"
  BY <1>3
<1> HIDE DEF S, last
<1>7. Together(prog, last, i)
  BY <1>1, <1>5, <1>6 DEF Together
<1>8. QED
  BY <1>1, <1>4, <1>6, <1>7 DEF ArgsOf, Ops

-----------------------------------------------------------------------------
(* Slots                                                                   *)

SlotsHere(i) == SlotsAt(prog, moves, edge, i)

LEMMA SlotsHereAre ==
  ASSUME NEW i
  PROVE  /\ DOMAIN SlotsHere(i) = Spilled(i)
         /\ \A v \in Spilled(i) : SlotsHere(i)[v] = Slot(i, v)
<1>1. SlotsHere(i) = [v \in SpilledIn(moves, edge, FunctionOf(prog, i)) |->
                        SlotIn(prog, FunctionOf(prog, i), v)]
  BY DEF SlotsHere, SlotsAt, SlotsIn
<1>2. SlotsHere(i) = [v \in Spilled(i) |-> SlotIn(prog, FunctionOf(prog, i), v)]
  BY <1>1, SlotIs
<1>3. QED
  BY <1>2, SlotIs

LEMMA SpilledBy ==
  ASSUME NEW batches, NEW e, NEW F, NEW v
  PROVE  v \in SpilledIn(batches, e, F) <=>
           \/ \E n \in F : \E m \in 1 .. Len(batches[n]) : v \in DOMAIN batches[n][m].save
           \/ \E n \in F \cap DOMAIN e : v \in DOMAIN e[n].save
<1> DEFINE First == UNION {UNION {DOMAIN batches[n][m].save : m \in 1 .. Len(batches[n])} : n \in F}
           Second == UNION {DOMAIN e[n].save : n \in F \cap DOMAIN e}
<1>1. v \in First <=> \E n \in F : \E m \in 1 .. Len(batches[n]) : v \in DOMAIN batches[n][m].save
  OBVIOUS
<1>2. v \in Second <=> \E n \in F \cap DOMAIN e : v \in DOMAIN e[n].save
  OBVIOUS
<1>3. SpilledIn(batches, e, F) = First \cup Second
  BY DEF SpilledIn
<1> HIDE DEF First, Second
<1>4. QED
  BY <1>1, <1>2, <1>3

LEMMA SpilledNamed ==
  ASSUME Ready, NEW i \in Ops, NEW v \in Spilled(i)
  PROVE  Named(prog, i, v)
<1> DEFINE F == FunctionOf(prog, i)
<1>1. \A n \in F : n \in Ops /\ Together(prog, n, i)
  BY FunctionIs, ReadyFacts
<1>2. Spilled(i) = SpilledIn(moves, edge, F)
  BY SlotIs
<1> HIDE DEF F
<1>3. CASE \E n \in F : \E m \in 1 .. Len(moves[n]) : v \in DOMAIN moves[n][m].save
  <2>1. PICK n \in F : \E m \in 1 .. Len(moves[n]) : v \in DOMAIN moves[n][m].save
    BY <1>3
  <2>2. n \in Ops /\ n \in 1 .. Len(prog) /\ i \in 1 .. Len(prog) /\ Len(prog) \in Nat
    BY <1>1, ReadyFacts
  <2>3. prog[n].code # "prolog"
    <3>1. ASSUME prog[n].code = "prolog" PROVE Len(moves[n]) = 0
      BY <2>2, <3>1, ReadyProlog
    <3>2. QED
      BY <2>1, <3>1
  <2>4. OpOK(prog, live_in, live_out, n, regmap[n - 1], regmap[n], moves[n], eliminated \cap {n}, {})
    BY <2>2, <2>3, ReadyOp
  <2>5. Named(prog, n, v)
    BY <2>1, <2>4, Zenon DEF OpOK
  <2>6. QED
    BY <1>1, <2>2, <2>5, SameFunction
<1>4. CASE \E n \in F \cap DOMAIN edge : v \in DOMAIN edge[n].save
  <2>1. PICK n \in F \cap DOMAIN edge : v \in DOMAIN edge[n].save
    BY <1>4
  <2>2. n \in Ops /\ n \in 1 .. Len(prog) /\ i \in 1 .. Len(prog) /\ Len(prog) \in Nat
    BY <1>1, ReadyFacts
  <2>3. Named(prog, n, v)
    BY <2>1, EdgeLeads DEF Ready
  <2>4. QED
    BY <1>1, <2>2, <2>3, SameFunction
<1>5. v \in SpilledIn(moves, edge, F)
  BY <1>2
<1>6. QED
  BY <1>3, <1>4, <1>5, SpilledBy

\* The register with the highest number is found: there are finitely many.
LEMMA LastInIs ==
  ASSUME ProgOK, NEW F \in SUBSET Ops, NEW type
  PROVE  /\ LastIn(prog, F, type) \in Nat
         /\ \A n \in F : \A v \in OperandsOf(prog, n) :
              TypeOf(v) = type => v[3] \in Nat /\ v[3] + 1 <= LastIn(prog, F, type)
<1> DEFINE W == {w \in UNION {OperandsOf(prog, n) : n \in F} : TypeOf(w) = type}
           f == [v \in W |-> v[3] + 1]
           ids == Ids(prog, F, type)
<1>1. \A n \in Ops : OperandsOf(prog, n) \subseteq VReg
  BY OperandsType DEF Operands, OperandsOf
<1>2. W \in SUBSET VReg /\ IsFiniteSet(VReg) /\ \A v \in VReg : v[3] \in Nat
  BY <1>1, AllocAssumption
<1>3. IsFiniteSet(W)
  BY <1>2, FS_Subset
<1>4. ids = {v[3] + 1 : v \in W}
  BY DEF Ids
<1>5. \A n \in F : \A v \in OperandsOf(prog, n) : TypeOf(v) = type => v \in W
  OBVIOUS
<1> HIDE DEF W, ids
<1>6. f \in Surjection(W, ids)
  BY <1>4 DEF Surjection
<1>7. IsFiniteSet(ids)
  <2> HIDE DEF f
  <2>1. QED
    BY <1>3, <1>6, FS_Surjection
<1>8. ids \in SUBSET Nat
  BY <1>2, <1>4
<1>9. IsFiniteSet(ids \cup {0}) /\ ids \cup {0} \in SUBSET Nat /\ ids \cup {0} # {}
  BY <1>7, <1>8, FS_AddElement
<1>10. PICK n \in ids \cup {0} : \A m \in ids \cup {0} : m <= n
  BY <1>9, LargestNumber
<1>11. \E x \in ids \cup {0} : \A m \in ids : m <= x
  BY <1>10
<1> DEFINE last == CHOOSE x \in ids \cup {0} : \A m \in ids : m <= x
<1>12. last \in ids \cup {0} /\ \A m \in ids : m <= last
  BY <1>11, Zenon
<1>13. LastIn(prog, F, type) = last
  BY DEF LastIn, ids
<1> HIDE DEF last
<1>14. \A v \in W : v[3] + 1 \in ids /\ v[3] \in Nat
  BY <1>2, <1>4
<1>15. QED
  BY <1>5, <1>9, <1>12, <1>13, <1>14

LEMMA CountsType ==
  ASSUME ProgOK, NEW F \in SUBSET Ops
  PROVE  /\ FpIn(prog, F) \in Nat /\ FpIn(prog, F) = LastIn(prog, F, "FLOAT")
         /\ GpIn(prog, F) \in Nat /\ LastIn(prog, F, "INT") <= GpIn(prog, F)
<1> DEFINE a == LastIn(prog, F, "INT")
           b == LastIn(prog, F, "FLOAT")
<1>1. a \in Nat /\ b \in Nat
  BY LastInIs
<1>2. FpIn(prog, F) = b /\ GpIn(prog, F) = a + ((a + b) % 2)
  BY DEF FpIn, GpIn
<1> HIDE DEF a, b
<1>3. (a + b) % 2 \in 0 .. 1
  BY <1>1
<1>4. QED
  BY <1>1, <1>2, <1>3 DEF a, b

\* What is saved to the frame has its place in it.
\* The slot of a register that an operation names, and of an argument.
LEMMA SlotOfOperand ==
  ASSUME ProgOK, NEW i \in Ops, NEW v, IsOperand(prog, i, v),
         NEW F, F = FunctionOf(prog, i)
  PROVE  /\ v \in VReg /\ v[1] \in {"INT", "FLOAT"} /\ v[2] = "REG" /\ v[3] \in Nat
         /\ v[1] = "INT" => SlotIn(prog, F, v) = v[3] + 1 /\ v[3] + 1 <= LastIn(prog, F, "INT")
         /\ v[1] = "FLOAT" => /\ SlotIn(prog, F, v) = GpIn(prog, F) + v[3] + 1
                              /\ v[3] + 1 <= FpIn(prog, F)
<1>1. F \in SUBSET Ops
  BY FunctionIs DEF Ops
<1>2. PICK n \in 1 .. Len(prog) : Together(prog, n, i) /\ v \in OperandsOf(prog, n)
  BY DEF IsOperand
<1>3. n \in F
  BY <1>2, FunctionIs
<1>4. v \in VReg /\ v[1] \in {"INT", "FLOAT"} /\ v[2] = "REG" /\ v[3] \in Nat /\ TypeOf(v) = v[1]
  BY AllocAssumption DEF IsOperand, TypeOf
<1>5. v[3] + 1 <= LastIn(prog, F, v[1])
  BY <1>1, <1>2, <1>3, <1>4, LastInIs
<1>6. v[1] = "INT" => SlotIn(prog, F, v) = v[3] + 1
  BY <1>4 DEF SlotIn
<1>7. v[1] = "FLOAT" => SlotIn(prog, F, v) = GpIn(prog, F) + v[3] + 1
  BY <1>4 DEF SlotIn
<1>8. QED
  BY <1>4, <1>5, <1>6, <1>7 DEF FpIn

LEMMA SlotOfArgument ==
  ASSUME NEW args, NEW F, NEW v \in DOMAIN ArgMap(args)
  PROVE  /\ v[2] = "ARG" /\ SlotIn(prog, F, v) = v[3] + GpIn(prog, F) + FpIn(prog, F)
         /\ \E j \in 1 .. Len(args) : v = ArgReg(args[j], j - 1)
<1>1. PICK j \in 1 .. Len(args) : v = ArgReg(args[j], j - 1)
  BY DEF ArgMap, Passed, Positions
<1>2. v[2] = "ARG"
  BY <1>1 DEF ArgReg
<1>3. QED
  BY <1>1, <1>2 DEF SlotIn

LEMMA SlotInFrame ==
  ASSUME ProgOK, NEW i \in Ops, NEW v, Named(prog, i, v)
  PROVE  SlotIn(prog, FunctionOf(prog, i), v) \in FrameIn(prog, i)
<1> DEFINE F == FunctionOf(prog, i)
           gp == GpIn(prog, F)
           fp == FpIn(prog, F)
           args == ArgsOf(prog, i)
<1>1. F \in SUBSET Ops
  BY FunctionIs DEF Ops
<1>2. gp \in Nat /\ fp \in Nat /\ LastIn(prog, F, "INT") <= gp /\ LastIn(prog, F, "INT") \in Nat
  BY <1>1, CountsType, LastInIs
<1>3. PICK s \in Ops : prog[s].code = "prolog" /\ args = prog[s].args
  BY PrologOf
<1>4. args \in Seq({"INT", "FLOAT"}) /\ Len(args) \in Nat
  <2>1. args \in Seq({"INT", "FLOAT"})
    BY <1>3, OperandsType DEF Operation
  <2>2. QED
    BY <2>1
<1>5. FrameIn(prog, i) = 0 .. gp + fp + Len(args)
  BY DEF FrameIn
<1> HIDE DEF F, gp, fp, args
<1>6. CASE IsOperand(prog, i, v)
  <2>1. /\ v[1] \in {"INT", "FLOAT"} /\ v[3] \in Nat
        /\ v[1] = "INT" => SlotIn(prog, F, v) = v[3] + 1 /\ v[3] + 1 <= LastIn(prog, F, "INT")
        /\ v[1] = "FLOAT" => SlotIn(prog, F, v) = gp + v[3] + 1 /\ v[3] + 1 <= fp
    BY <1>6, SlotOfOperand DEF F, gp, fp
  <2>2. SlotIn(prog, F, v) \in 0 .. gp + fp + Len(args)
    BY <1>2, <1>4, <2>1
  <2>3. QED
    BY <1>5, <2>2 DEF F
<1>7. CASE v \in DOMAIN ArgMap(args)
  <2>1. /\ SlotIn(prog, F, v) = v[3] + gp + fp
        /\ \E j \in 1 .. Len(args) : v = ArgReg(args[j], j - 1)
    BY <1>7, SlotOfArgument, Zenon DEF gp, fp
  <2>2. PICK j \in 1 .. Len(args) : v[3] = j - 1
    BY <2>1 DEF ArgReg
  <2>3. SlotIn(prog, F, v) \in 0 .. gp + fp + Len(args)
    BY <1>2, <1>4, <2>1, <2>2
  <2>4. QED
    BY <1>5, <2>3 DEF F
<1>8. QED
  BY <1>6, <1>7 DEF Named, args

LEMMA SameSlots ==
  ASSUME Ready, NEW i \in Ops, NEW j \in Ops, Together(prog, i, j)
  PROVE  /\ SlotsHere(i) = SlotsHere(j) /\ FrameIn(prog, i) = FrameIn(prog, j)
         /\ ArgsOf(prog, i) = ArgsOf(prog, j)
<1>1. FunctionOf(prog, i) = FunctionOf(prog, j)
  BY SameFrame
<1>2. ArgsOf(prog, i) = ArgsOf(prog, j)
  BY SameFunction, ReadyFacts DEF ArgsOf
<1>3. QED
  BY <1>1, <1>2, Zenon DEF SlotsHere, SlotsAt, FrameIn

LEMMA SlotsFacts ==
  ASSUME Ready, SlotsApart, NEW i \in Ops
  PROVE  /\ DOMAIN SlotsHere(i) = Spilled(i)
         /\ \A v, w \in Spilled(i) : SlotsHere(i)[v] = SlotsHere(i)[w] => v = w
         /\ \A v \in Spilled(i) : /\ SlotsHere(i)[v] = Slot(i, v)
                                  /\ SlotsHere(i)[v] \in FrameIn(prog, i)
         /\ \A n \in 1 .. Len(moves[i]) : DOMAIN moves[i][n].save \subseteq Spilled(i)
         /\ i \in DOMAIN edge => DOMAIN edge[i].save \subseteq Spilled(i)
<1>1. ProgOK /\ Ops = 1 .. Len(prog)
  BY ReadyFacts
<1>2. DOMAIN SlotsHere(i) = Spilled(i) /\ \A v \in Spilled(i) : SlotsHere(i)[v] = Slot(i, v)
  BY SlotsHereAre
<1>3. ASSUME NEW v \in Spilled(i)
      PROVE  SlotsHere(i)[v] \in FrameIn(prog, i)
  <2>1. SlotIn(prog, FunctionOf(prog, i), v) \in FrameIn(prog, i)
    BY <1>1, SpilledNamed, SlotInFrame
  <2>2. QED
    BY <1>2, <2>1, SlotIs
<1>4. PICK s \in Ops : prog[s].code = "prolog" /\ Together(prog, s, i)
  BY <1>1, PrologOf
<1>5. SlotsHere(i) = SlotsHere(s) /\ Spilled(i) = Spilled(s)
  <2>1. SlotsHere(i) = SlotsHere(s)
    BY <1>4, SameSlots
  <2>2. QED
    BY <2>1, SlotsHereAre
<1>6. \A v, w \in Spilled(s) : SlotsHere(s)[v] = SlotsHere(s)[w] => v = w
  <2> DEFINE slot == [v \in Spilled(s) |-> Slot(s, v)]
  <2>1. \A v, w \in Spilled(s) : slot[v] = slot[w] => v = w
    BY <1>4 DEF SlotsApart, Ready
  <2>2. \A v \in Spilled(s) : slot[v] = Slot(s, v) /\ SlotsHere(s)[v] = Slot(s, v)
    BY SlotsHereAre
  <2> HIDE DEF slot
  <2>3. QED
    BY <2>1, <2>2
<1>7. i \in FunctionOf(prog, i)
  BY <1>1, FunctionIs DEF Together
<1>8. \A v : v \in Spilled(i) <=> v \in SpilledIn(moves, edge, FunctionOf(prog, i))
  BY SlotIs
<1>9. \A n \in 1 .. Len(moves[i]) : DOMAIN moves[i][n].save \subseteq Spilled(i)
  BY <1>7, <1>8, SpilledBy
<1>10. i \in DOMAIN edge => DOMAIN edge[i].save \subseteq Spilled(i)
  BY <1>7, <1>8, SpilledBy
<1>11. QED
  BY <1>2, <1>3, <1>5, <1>6, <1>9, <1>10

-----------------------------------------------------------------------------
(* Batches                                                                 *)

\* What a batch makes of the registers h and the frame f: h2 and f2.
Effect(s, b, h, f, h2, f2) ==
  /\ DOMAIN f2 = DOMAIN f /\ DOMAIN h2 = HwReg
  /\ \A v \in DOMAIN b.save : f2[s[v]] = h[b.save[v]]
  /\ \A v \in DOMAIN s : v \notin DOMAIN b.save => f2[s[v]] = f[s[v]]
  /\ \A x \in HwReg : \A y : <<x, y>> \in b.rename /\ (\A z : <<x, z>> \in b.rename => z = y)
       => h2[x] = h[y]
  /\ \A v \in DOMAIN b.load :
       v \in DOMAIN s /\ Unnamed(b, b.load[v]) /\ (\A w \in DOMAIN b.load : b.load[w] = b.load[v] => w = v)
         => h2[b.load[v]] = f2[s[v]]
  /\ \A x \in HwReg : Unnamed(b, x) /\ Unloaded(b, x) => h2[x] = h[x]

LEMMA BatchEffect ==
  ASSUME Ready, SlotsApart, NEW i \in Ops, NEW b \in Batches, DOMAIN b.save \subseteq Spilled(i),
         DOMAIN frame = FrameIn(prog, i)
  PROVE  Effect(SlotsHere(i), b, hw, frame, Loaded(b, i), Saved(b, i))
<1> DEFINE s == SlotsHere(i)
           f2 == Saved(b, i)
           h2 == Loaded(b, i)
           Spill(x) == CHOOSE v \in DOMAIN b.save : Slot(i, v) = x
           Load(x) == CHOOSE v \in DOMAIN b.load : b.load[v] = x
           From(x) == CHOOSE r \in HwReg : <<x, r>> \in b.rename
<1>1. /\ DOMAIN s = Spilled(i)
      /\ \A v, w \in Spilled(i) : s[v] = s[w] => v = w
      /\ \A v \in Spilled(i) : s[v] = Slot(i, v) /\ s[v] \in DOMAIN frame
  BY SlotsFacts
<1>2. b.rename \subseteq HwReg \X HwReg /\ \A v \in DOMAIN b.load : b.load[v] \in HwReg
  BY IsMap DEF Batches
<1>3. f2 = [x \in DOMAIN frame |-> IF \E v \in DOMAIN b.save : Slot(i, v) = x
                                   THEN hw[b.save[Spill(x)]] ELSE frame[x]]
  BY DEF Saved
<1>4. h2 = [x \in HwReg |->
              IF \E r \in HwReg : <<x, r>> \in b.rename THEN hw[From(x)]
              ELSE IF x \in {b.load[v] : v \in DOMAIN b.load} THEN f2[Slot(i, Load(x))]
              ELSE hw[x]]
  BY DEF Loaded
<1>5. \A v \in DOMAIN b.save : Spill(s[v]) = v
  <2> SUFFICES ASSUME NEW v \in DOMAIN b.save PROVE Spill(s[v]) = v
    OBVIOUS
  <2>1. v \in Spilled(i) /\ Slot(i, v) = s[v]
    BY <1>1
  <2>2. Spill(s[v]) \in DOMAIN b.save /\ Slot(i, Spill(s[v])) = s[v]
    BY <2>1
  <2>3. Spill(s[v]) \in Spilled(i) /\ s[Spill(s[v])] = Slot(i, Spill(s[v]))
    BY <1>1, <2>2
  <2> HIDE DEF Spill
  <2>4. QED
    BY <1>1, <2>1, <2>2, <2>3
<1>6. \A x : \A v \in DOMAIN b.load :
        b.load[v] = x /\ (\A w \in DOMAIN b.load : b.load[w] = x => w = v) => Load(x) = v
  <2> SUFFICES ASSUME NEW x, NEW v \in DOMAIN b.load, b.load[v] = x,
                      \A w \in DOMAIN b.load : b.load[w] = x => w = v
               PROVE  Load(x) = v
    OBVIOUS
  <2>1. Load(x) \in DOMAIN b.load /\ b.load[Load(x)] = x
    OBVIOUS
  <2> HIDE DEF Load
  <2>2. QED
    BY <2>1
<1>7. \A x \in HwReg : \A y : <<x, y>> \in b.rename /\ (\A z : <<x, z>> \in b.rename => z = y)
        => From(x) = y /\ y \in HwReg
  <2> SUFFICES ASSUME NEW x \in HwReg, NEW y, <<x, y>> \in b.rename,
                      \A z : <<x, z>> \in b.rename => z = y
               PROVE  From(x) = y /\ y \in HwReg
    OBVIOUS
  <2>1. y \in HwReg
    BY <1>2
  <2>2. From(x) \in HwReg /\ <<x, From(x)>> \in b.rename
    BY <2>1
  <2> HIDE DEF From
  <2>3. QED
    BY <2>1, <2>2
<1> HIDE DEF s, f2, h2, Spill, Load, From
<1>8. DOMAIN f2 = DOMAIN frame /\ DOMAIN h2 = HwReg
  BY <1>3, <1>4
<1>9. \A v \in DOMAIN b.save : f2[s[v]] = hw[b.save[v]]
  BY <1>1, <1>3, <1>5
<1>10. \A v \in DOMAIN s : v \notin DOMAIN b.save => f2[s[v]] = frame[s[v]]
  <2> SUFFICES ASSUME NEW v \in Spilled(i), v \notin DOMAIN b.save
               PROVE  f2[s[v]] = frame[s[v]]
    BY <1>1
  <2>1. ~ \E w \in DOMAIN b.save : Slot(i, w) = s[v]
    BY <1>1
  <2>2. s[v] \in DOMAIN frame
    BY <1>1
  <2>3. QED
    BY <1>3, <2>1, <2>2
<1>11. ASSUME NEW x \in HwReg, NEW y, <<x, y>> \in b.rename, \A z : <<x, z>> \in b.rename => z = y
       PROVE  h2[x] = hw[y]
  BY <1>4, <1>7, <1>11
<1>12. ASSUME NEW v \in DOMAIN b.load, v \in DOMAIN s, Unnamed(b, b.load[v]),
              \A w \in DOMAIN b.load : b.load[w] = b.load[v] => w = v
       PROVE  h2[b.load[v]] = f2[s[v]]
  <2>1. b.load[v] \in HwReg /\ Load(b.load[v]) = v /\ Slot(i, v) = s[v]
    BY <1>1, <1>2, <1>6, <1>12
  <2>2. ~ \E r \in HwReg : <<b.load[v], r>> \in b.rename
    BY <1>12 DEF Unnamed
  <2>3. QED
    BY <1>4, <2>1, <2>2
<1>13. ASSUME NEW x \in HwReg, Unnamed(b, x), Unloaded(b, x)
       PROVE  h2[x] = hw[x]
  BY <1>4, <1>13 DEF Unnamed, Unloaded
<1>14. /\ \A x \in HwReg : \A y :
            <<x, y>> \in b.rename /\ (\A z : <<x, z>> \in b.rename => z = y) => h2[x] = hw[y]
       /\ \A x \in HwReg : Unnamed(b, x) /\ Unloaded(b, x) => h2[x] = hw[x]
  BY <1>11, <1>13, Zenon
<1>15. \A v \in DOMAIN b.load :
         v \in DOMAIN s /\ Unnamed(b, b.load[v])
           /\ (\A w \in DOMAIN b.load : b.load[w] = b.load[v] => w = v)
           => h2[b.load[v]] = f2[s[v]]
  BY <1>12, Zenon
<1>16. Effect(s, b, hw, frame, h2, f2)
  BY <1>8, <1>9, <1>10, <1>14, <1>15, Zenon DEF Effect
<1>17. QED
  BY <1>16, Zenon DEF s, f2, h2

-----------------------------------------------------------------------------
(* Home                                                                    *)

\* Every value in L that has been made is where the map has it, or in its slot.
Home(s, map, L, h, f, r) ==
  \A v \in L : r[v] # Undefined =>
    \/ v \in DOMAIN map /\ r[v] = h[map[v]]
    \/ v \notin DOMAIN map /\ v \in DOMAIN s /\ r[v] = f[s[v]]

\* What a batch saves is in its slot.
InSlots(s, b, L, f, r) == \A v \in DOMAIN b.save \cap L : r[v] # Undefined => r[v] = f[s[v]]

\* A batch that leads from one map to another brings every value home.
LEMMA BatchBringsHome ==
  ASSUME NEW s, NEW m \in RegMaps, NEW b, NEW n \in RegMaps, NEW L, Leads(m, b, n, L),
         DOMAIN b.save \subseteq DOMAIN s,
         NEW h, NEW f, NEW h2, NEW f2, Effect(s, b, h, f, h2, f2),
         NEW r, Home(s, m, L, h, f, r)
  PROVE  Home(s, n, L, h2, f2, r) /\ InSlots(s, b, L, f2, r)
<1>1. \A v \in DOMAIN b.save : v \in DOMAIN m /\ b.save[v] = m[v]
  BY DEF Leads
<1>2. ASSUME NEW v \in DOMAIN b.save \cap L, r[v] # Undefined
      PROVE  r[v] = f2[s[v]]
  BY <1>1, <1>2 DEF Home, Effect
<1>3. \A v \in DOMAIN n : n[v] \in HwReg
  BY IsMap
<1>4. ASSUME NEW v \in L, r[v] # Undefined, v \in DOMAIN n
      PROVE  r[v] = h2[n[v]]
  <2>1. CASE Fetched(m, b, n, v)
    <3>1. /\ v \in DOMAIN b.load /\ b.load[v] = n[v] /\ Unnamed(b, n[v])
          /\ v \in DOMAIN m => v \in DOMAIN b.save
      BY <2>1 DEF Fetched
    <3>2. v \in DOMAIN s /\ r[v] = f2[s[v]]
      <4>1. CASE v \in DOMAIN b.save
        BY <1>2, <1>4, <4>1
      <4>2. CASE v \notin DOMAIN b.save
        <5>1. v \in DOMAIN s /\ r[v] = f[s[v]]
          BY <1>4, <3>1, <4>2 DEF Home
        <5>2. QED
          BY <4>2, <5>1 DEF Effect
      <4>3. QED
        BY <4>1, <4>2
    <3>3. \A w \in DOMAIN b.load : b.load[w] = b.load[v] => w = v
      BY <3>1 DEF Leads
    <3>4. h2[b.load[v]] = f2[s[v]]
      BY <3>1, <3>2, <3>3, Zenon DEF Effect
    <3>5. QED
      BY <3>1, <3>2, <3>4
  <2>2. CASE Renamed(m, b, n, v)
    <3>1. /\ v \in DOMAIN m /\ <<n[v], m[v]>> \in b.rename
          /\ \A z : <<n[v], z>> \in b.rename => z = m[v]
      BY <2>2, Zenon DEF Renamed
    <3>2. n[v] \in HwReg
      BY <1>3, <1>4
    <3>3. h2[n[v]] = h[m[v]]
      <4>1. \A y : <<n[v], y>> \in b.rename /\ (\A z : <<n[v], z>> \in b.rename => z = y) => h2[n[v]] = h[y]
        BY <3>2, Zenon DEF Effect
      <4> HIDE DEF Effect
      <4>2. QED
        BY <3>1, <4>1, Zenon
    <3>4. r[v] = h[m[v]]
      BY <1>4, <3>1, Zenon DEF Home
    <3>5. QED
      BY <3>3, <3>4
  <2>3. CASE Stays(m, b, n, v)
    <3>1. v \in DOMAIN m /\ n[v] = m[v] /\ Unnamed(b, n[v]) /\ Unloaded(b, n[v])
      BY <2>3, Zenon DEF Stays
    <3>2. r[v] = h[m[v]]
      BY <1>4, <3>1, Zenon DEF Home
    <3>3. h2[n[v]] = h[n[v]]
      BY <1>3, <1>4, <3>1, Zenon DEF Effect
    <3>4. QED
      BY <3>1, <3>2, <3>3
  <2>4. QED
    BY <1>4, <2>1, <2>2, <2>3, Zenon DEF Leads
<1>5. ASSUME NEW v \in L, r[v] # Undefined, v \notin DOMAIN n
      PROVE  v \in DOMAIN s /\ r[v] = f2[s[v]]
  <2>1. CASE v \in DOMAIN b.save
    BY <1>2, <1>5, <2>1
  <2>2. CASE v \notin DOMAIN b.save
    <3>1. v \notin DOMAIN m
      BY <1>5, <2>2 DEF Leads
    <3>2. v \in DOMAIN s /\ r[v] = f[s[v]]
      BY <1>5, <3>1 DEF Home
    <3>3. QED
      BY <2>2, <3>2 DEF Effect
  <2>3. QED
    BY <2>1, <2>2
<1>6. Home(s, n, L, h2, f2, r)
  BY <1>4, <1>5, Zenon DEF Home
<1>7. QED
  BY <1>2, <1>6, Zenon DEF InSlots

-----------------------------------------------------------------------------
(* The invariant, apart from the state: p, in, out, maps, batches and gone *)
(* are what the allocator was given and has made; a is the operation that  *)
(* runs, n the batch that runs next; h, f, push, res and r are hw, frame,  *)
(* pushed, result and ref.                                                 *)

ArgsHeld(args, r) ==
  \A j \in 1 .. Len(args) : PassedByReg(args, j) => r[ArgReg(args[j], j - 1)] = Argument(j)

InFunction(p, a, h, f, r) ==
  /\ a \in 2 .. Len(p) /\ p[a].code # "prolog"
  /\ DOMAIN h = HwReg /\ DOMAIN f = FrameIn(p, a) /\ DOMAIN r = Reg
  /\ ArgsHeld(ArgsOf(p, a), r)

\* The maps that the batches of an operation lead through.
Way(ms, old, batches, L) ==
  /\ ms \in Seq(RegMaps) /\ Len(ms) = Len(batches) + 1
  /\ ms[1] = old
  /\ \A n \in 1 .. Len(batches) : Leads(ms[n], batches[n], ms[n + 1], L)

Walked(p, gone, a) == a \notin gone /\ p[a].code \in Ordinary

\* What a batch of the operation has saved is still saved.
Backed(s, batches, n, L, f, r) ==
  \A j \in 1 .. n - 1 : \A v \in DOMAIN batches[j].save \cap L :
    r[v] # Undefined => r[v] = f[s[v]]

\* Between two batches of an operation, or before the operation itself.
AtOp(p, in, maps, batches, gone, s, a, n, h, f, res, r) ==
  /\ p[a].code \notin {"putarg", "call"}
  /\ n \in 1 .. Len(batches[a]) + 1
  /\ \E ms : /\ Way(ms, maps[a - 1], batches[a], in[a])
             /\ Walked(p, gone, a) => ms[Len(ms)] = maps[a]
             /\ Home(s, ms[n], in[a], h, f, r)
  /\ Backed(s, batches[a], n, in[a], f, r)
  /\ p[a].code \in {"retval", "fretval"} => h[RetReg] = res /\ h[FpRetReg] = res

\* What is pushed for the call that the PREPARE q begins.
CallIn(p, q) == CHOOSE c \in q .. Len(p) : /\ p[c].code = "call"
                                           /\ \A j \in q .. c - 1 : p[j].code # "call"
PushedIn(p, in, maps, q) ==
  {maps[CallIn(p, q)][v] : v \in DOMAIN maps[CallIn(p, q)] \cap in[CallIn(p, q)]}
    \ (CalleeSaved \cup {RetReg, FpRetReg})

\* What a call leaves alone, and what is saved or pushed of the rest.
Prepared(s, map, L, h, f, push, r) ==
  \A v \in L : r[v] # Undefined =>
    /\ v \notin DOMAIN map => v \in DOMAIN s /\ r[v] = f[s[v]]
    /\ v \in DOMAIN map => /\ map[v] # RetReg => r[v] = h[map[v]]
                           /\ map[v] \in {RetReg, FpRetReg} => v \in DOMAIN s /\ r[v] = f[s[v]]
                           /\ map[v] \in DOMAIN push => r[v] = push[map[v]]

\* Between the PREPARE q and the return from its CALL.
During(p, q, a) ==
  /\ q \in 2 .. a - 1 /\ p[q].code = "prepare" /\ \A m \in q + 1 .. a - 1 : p[m].code = "putarg"
  /\ p[a].code \in {"putarg", "call"}

InCall(p, in, out, maps, s, a, n, h, f, push, r) ==
  \E q : /\ During(p, q, a)
         /\ maps[a - 1] = maps[q]
         /\ \A m \in q + 1 .. a : in[m] \subseteq out[q]
         /\ Prepared(s, maps[q], out[q], h, f, push, r)
         /\ DOMAIN push = PushedIn(p, in, maps, q)
         /\ IF p[a].code = "putarg" THEN n = 1 ELSE n \in 1 .. a - q

EInv ==
  run \in {"running", "calling"} =>
    /\ phase = "done"
    /\ InFunction(prog, at, hw, frame, ref)
    /\ \/ /\ run = "running"
          /\ AtOp(prog, live_in, regmap, moves, eliminated, SlotsHere(at), at, k, hw, frame, result, ref)
       \/ /\ InCall(prog, live_in, live_out, regmap, SlotsHere(at), at, k, hw, frame, pushed, ref)
          /\ run = "calling" => prog[at].code = "call"

LEMMA ArrivesAtOp ==
  ASSUME UNCHANGED alloc, phase = "done", run' = "running",
         InFunction(prog, at', hw', frame', ref'),
         AtOp(prog, live_in, regmap, moves, eliminated, SlotsAt(prog, moves, edge, at'), at', k',
              hw', frame', result', ref')
  PROVE  EInv'
<1>1. /\ prog' = prog /\ live_in' = live_in /\ regmap' = regmap /\ moves' = moves
      /\ eliminated' = eliminated /\ edge' = edge /\ phase' = phase
  BY DEF alloc, input
<1>2. SlotsHere(at)' = SlotsAt(prog, moves, edge, at')
  BY <1>1 DEF SlotsHere
<1>3. InFunction(prog, at, hw, frame, ref)'
  BY <1>1, Zenon
<1>4. AtOp(prog, live_in, regmap, moves, eliminated, SlotsHere(at), at, k, hw, frame, result, ref)'
  BY <1>1, <1>2, Zenon
<1>5. QED
  BY <1>1, <1>3, <1>4 DEF EInv

LEMMA ArrivesInCall ==
  ASSUME UNCHANGED alloc, phase = "done", run' \in {"running", "calling"},
         run' = "calling" => prog[at'].code = "call",
         InFunction(prog, at', hw', frame', ref'),
         InCall(prog, live_in, live_out, regmap, SlotsAt(prog, moves, edge, at'), at', k',
                hw', frame', pushed', ref')
  PROVE  EInv'
<1>1. /\ prog' = prog /\ live_in' = live_in /\ live_out' = live_out /\ regmap' = regmap
      /\ moves' = moves /\ edge' = edge /\ phase' = phase
  BY DEF alloc, input
<1>2. SlotsHere(at)' = SlotsAt(prog, moves, edge, at')
  BY <1>1 DEF SlotsHere
<1>3. InFunction(prog, at, hw, frame, ref)'
  BY <1>1, Zenon
<1>4. InCall(prog, live_in, live_out, regmap, SlotsHere(at), at, k, hw, frame, pushed, ref)'
  BY <1>1, <1>2, Zenon
<1>5. QED
  BY <1>1, <1>3, <1>4 DEF EInv

-----------------------------------------------------------------------------
(* From one operation to the next                                          *)

LEMMA RunnableOK ==
  ASSUME Ready
  PROVE  /\ Runnable(prog)
         /\ \A i \in Ops : live_in[i] \subseteq Reg /\ live_out[i] \subseteq Reg
<1>1. prog \in Programs /\ live_in = Analysis[prog].in /\ live_out = Analysis[prog].out
  BY DEF Ready, Given
<1>2. Runnable(prog)
  BY <1>1, ExecAssumption
<1>3. \A i \in 1 .. Len(prog) :
        Analysis[prog].in[i] \subseteq Reg /\ Analysis[prog].out[i] \subseteq Reg
  BY <1>1, AllocAssumption
<1>4. QED
  BY <1>1, <1>2, <1>3 DEF Ops

\* What follows an operation, unless it is a jump or a return.
LEMMA NextOp ==
  ASSUME Ready, NEW i \in Ops, prog[i].code \notin {"ret", "jmp"}
  PROVE  /\ i + 1 \in Ops /\ i + 1 \in 2 .. Len(prog) /\ prog[i + 1].code # "prolog"
         /\ (i + 1) - 1 = i
         /\ live_in[i + 1] \subseteq live_out[i]
         /\ SlotsHere(i + 1) = SlotsHere(i) /\ FrameIn(prog, i + 1) = FrameIn(prog, i)
         /\ ArgsOf(prog, i + 1) = ArgsOf(prog, i)
         /\ prog[i + 1].code \in {"putarg", "call"} <=> prog[i].code \in {"prepare", "putarg"}
         /\ prog[i + 1].code \in {"retval", "fretval"} => prog[i].code = "call"
<1>1. /\ Len(prog) \in Nat /\ Ops = 1 .. Len(prog) /\ ProgOK /\ Flow
  BY ReadyFacts
<1>2. i < Len(prog) /\ prog[i + 1].code # "prolog"
  BY <1>1, RunnableOK DEF Runnable
<1>3. i + 1 \in Ops /\ i + 1 \in 2 .. Len(prog) /\ (i + 1) - 1 = i /\ i \in Nat
  BY <1>1, <1>2
<1>4. live_in[i + 1] \subseteq live_out[i]
  <2>1. live_out[i] = UNION {live_in[s] : s \in Succ(prog, i)}
    BY <1>1 DEF Flow, Solves, OutOf
  <2>2. i + 1 \in {i + 1} \cap 1 .. Len(prog)
    BY <1>1, <1>3
  <2>3. i + 1 \in Succ(prog, i)
    BY <2>2, Zenon DEF Succ
  <2>4. QED
    BY <2>1, <2>3
<1>5. Together(prog, i, i + 1)
  BY <1>1, <1>2, <1>3, NextTogether
<1>6. /\ SlotsHere(i + 1) = SlotsHere(i) /\ FrameIn(prog, i + 1) = FrameIn(prog, i)
      /\ ArgsOf(prog, i + 1) = ArgsOf(prog, i)
  BY <1>3, <1>5, SameSlots
<1>7. /\ prog[i + 1].code \in {"putarg", "call"} <=> prog[i].code \in {"prepare", "putarg"}
      /\ prog[i + 1].code \in {"retval", "fretval"} => prog[i].code = "call"
  BY <1>1, <1>3 DEF ProgOK, Protocol
<1>8. QED
  BY <1>2, <1>3, <1>4, <1>6, <1>7

LEMMA AliveThroughNone ==
  ASSUME Ready, NEW i \in Ops, prog[i].code # "prolog"
  PROVE  \A v \in live_out[i] : v \notin prog[i].def => v \in live_in[i]
BY AliveThrough, ReadyFacts

\* An operation is entered with every value home.
LEMMA EnterOp ==
  ASSUME Ready, NEW a \in Ops, prog[a].code \notin {"prolog", "putarg", "call"},
         NEW h, NEW f, NEW res, NEW r,
         Home(SlotsHere(a), regmap[a - 1], live_in[a], h, f, r),
         prog[a].code \in {"retval", "fretval"} => h[RetReg] = res /\ h[FpRetReg] = res
  PROVE  AtOp(prog, live_in, regmap, moves, eliminated, SlotsHere(a), a, 1, h, f, res, r)
<1> DEFINE old == regmap[a - 1]
           L == live_in[a]
           s == SlotsHere(a)
<1>1. /\ a - 1 \in Ops
      /\ OpOK(prog, live_in, live_out, a, old, regmap[a], moves[a], eliminated \cap {a}, {})
  BY ReadyOp
<1>2. old \in RegMaps /\ moves[a] \in Seq(Batches) /\ prog[a] \in Operation
  BY <1>1, ReadyFacts, OperandsType
<1> HIDE DEF old, L, s
<1>3. \E ms : Way(ms, old, moves[a], L) /\ (Walked(prog, eliminated, a) => ms[Len(ms)] = regmap[a])
  <2>1. CASE Walked(prog, eliminated, a)
    <3>1. PICK ms : Path(ms, old, moves[a], regmap[a], live_in[a])
      BY <1>1, <2>1, Zenon DEF OpOK, Walked
    <3>2. QED
      BY <3>1, Zenon DEF Path, Way, L
  <2>2. CASE ~Walked(prog, eliminated, a)
    <3>1. moves[a] = <<>>
      <4>1. CASE a \in eliminated
        BY <1>1, <4>1, Zenon DEF OpOK, Still
      <4>2. CASE prog[a].code \notin Ordinary
        <5>1. prog[a].code = "retval"
          BY <1>2, <4>2 DEF Operation, Codes, Ordinary
        <5>2. QED
          BY <1>1, <5>1, Zenon DEF OpOK, Still
      <4>3. QED
        BY <2>2, <4>1, <4>2 DEF Walked
    <3>2. /\ <<old>> \in Seq(RegMaps) /\ Len(<<old>>) = Len(moves[a]) + 1 /\ <<old>>[1] = old
          /\ 1 .. Len(moves[a]) = {}
      BY <1>2, <3>1
    <3>3. Way(<<old>>, old, moves[a], L)
      BY <3>2, Zenon DEF Way
    <3>4. QED
      BY <2>2, <3>3
  <2>3. QED
    BY <2>1, <2>2
<1>4. PICK ms : Way(ms, old, moves[a], L) /\ (Walked(prog, eliminated, a) => ms[Len(ms)] = regmap[a])
  BY <1>3
<1>5. ms[1] = old /\ Home(s, ms[1], L, h, f, r)
  BY <1>4, Zenon DEF Way, s, old, L
<1>6. 1 \in 1 .. Len(moves[a]) + 1 /\ 1 .. 1 - 1 = {}
  BY <1>2
<1>7. Backed(s, moves[a], 1, L, f, r)
  BY <1>6, Zenon DEF Backed
<1>8. QED
  BY <1>4, <1>5, <1>6, <1>7, Zenon DEF AtOp, s, old, L

\* When the batches have run, every value is where the map of the operation has it.
LEMMA AtEnd ==
  ASSUME Ready, NEW a \in Ops, NEW n, NEW h, NEW f, NEW res, NEW r,
         AtOp(prog, live_in, regmap, moves, eliminated, SlotsHere(a), a, n, h, f, res, r),
         n = Len(moves[a]) + 1
  PROVE  /\ Walked(prog, eliminated, a) => Home(SlotsHere(a), regmap[a], live_in[a], h, f, r)
         /\ moves[a] = <<>> => Home(SlotsHere(a), regmap[a - 1], live_in[a], h, f, r)
<1>1. PICK ms : /\ Way(ms, regmap[a - 1], moves[a], live_in[a])
                /\ Walked(prog, eliminated, a) => ms[Len(ms)] = regmap[a]
                /\ Home(SlotsHere(a), ms[n], live_in[a], h, f, r)
  BY Zenon DEF AtOp
<1>2. Len(ms) = n /\ ms[1] = regmap[a - 1]
  BY <1>1, Zenon DEF Way
<1>3. moves[a] = <<>> => n = 1
  OBVIOUS
<1>4. QED
  BY <1>1, <1>2, <1>3, Zenon

\* Control goes on to the next operation, outside of calls.
LEMMA GoesOn ==
  ASSUME Ready, NEW i \in Ops, prog[i].code \notin {"ret", "jmp", "prepare", "putarg"},
         UNCHANGED alloc, run' = "running", at' = i + 1, k' = 1,
         DOMAIN hw' = HwReg, DOMAIN frame' = FrameIn(prog, i), DOMAIN ref' = Reg,
         ArgsHeld(ArgsOf(prog, i), ref'),
         Home(SlotsHere(i), regmap[i], live_out[i], hw', frame', ref'),
         prog[i].code = "call" => hw'[RetReg] = result' /\ hw'[FpRetReg] = result'
  PROVE  EInv'
<1>1. /\ i + 1 \in Ops /\ i + 1 \in 2 .. Len(prog) /\ prog[i + 1].code # "prolog"
      /\ (i + 1) - 1 = i
      /\ live_in[i + 1] \subseteq live_out[i]
      /\ SlotsHere(i + 1) = SlotsHere(i) /\ FrameIn(prog, i + 1) = FrameIn(prog, i)
      /\ ArgsOf(prog, i + 1) = ArgsOf(prog, i)
      /\ prog[i + 1].code \notin {"putarg", "call"}
      /\ prog[i + 1].code \in {"retval", "fretval"} => prog[i].code = "call"
  BY NextOp
<1>2. InFunction(prog, at', hw', frame', ref')
  BY <1>1, Zenon DEF InFunction
<1>3. Home(SlotsHere(i + 1), regmap[(i + 1) - 1], live_in[i + 1], hw', frame', ref')
  BY <1>1, Zenon DEF Home
<1>4. AtOp(prog, live_in, regmap, moves, eliminated, SlotsHere(i + 1), i + 1, 1,
           hw', frame', result', ref')
  BY <1>1, <1>3, EnterOp
<1>5. AtOp(prog, live_in, regmap, moves, eliminated, SlotsAt(prog, moves, edge, at'), at', k',
           hw', frame', result', ref')
  BY <1>4, Zenon DEF SlotsHere
<1>6. phase = "done"
  BY DEF Ready
<1>7. QED
  BY <1>2, <1>5, <1>6, ArrivesAtOp, Zenon

-----------------------------------------------------------------------------
(* What runs between and in operations outside of calls                    *)

LEMMA AtOpHere ==
  ASSUME EInv, run = "running", prog[at].code \notin {"putarg", "call"}
  PROVE  /\ phase = "done" /\ InFunction(prog, at, hw, frame, ref)
         /\ AtOp(prog, live_in, regmap, moves, eliminated, SlotsHere(at), at, k, hw, frame, result, ref)
<1>1. ~InCall(prog, live_in, live_out, regmap, SlotsHere(at), at, k, hw, frame, pushed, ref)
  BY DEF InCall, During
<1>2. QED
  BY <1>1, Zenon DEF EInv

LEMMA InFunctionFacts ==
  ASSUME Ready, NEW a, NEW h, NEW f, NEW r, InFunction(prog, a, h, f, r)
  PROVE  /\ a \in Ops /\ a - 1 \in Ops /\ a \in Nat /\ prog[a].code # "prolog"
         /\ DOMAIN h = HwReg /\ DOMAIN f = FrameIn(prog, a) /\ DOMAIN r = Reg
         /\ ArgsHeld(ArgsOf(prog, a), r)
<1>1. Ops = 1 .. Len(prog) /\ Len(prog) \in Nat
  BY ReadyFacts
<1>2. a \in 2 .. Len(prog)
  BY DEF InFunction
<1>3. a \in Ops /\ a - 1 \in Ops /\ a \in Nat
  BY <1>1, <1>2
<1>4. QED
  BY <1>3, Zenon DEF InFunction

\* Nothing is inserted before the operations of a call.
LEMMA NoMovesInCalls ==
  ASSUME Ready, NEW a \in Ops, prog[a].code \in {"putarg", "call", "label", "retval"}
  PROVE  moves[a] = <<>>
<1>1. OpOK(prog, live_in, live_out, a, regmap[a - 1], regmap[a], moves[a], eliminated \cap {a}, {})
  BY ReadyOp
<1>2. QED
  BY <1>1 DEF OpOK, Still

\* What is inserted before an FRETVAL takes no register that holds a value.
LEMMA FretvalMoves ==
  ASSUME Ready, NEW a \in Ops, prog[a].code = "fretval", NEW n \in 1 .. Len(moves[a])
  PROVE  \A x : Unnamed(moves[a][n], x) /\ Unloaded(moves[a][n], x)
<1>1. /\ OpOK(prog, live_in, live_out, a, regmap[a - 1], regmap[a], moves[a], eliminated \cap {a}, {})
  BY ReadyOp
<1>2. a \notin eliminated \cap {a}
  BY <1>1, Zenon DEF OpOK
<1>3. Served(prog, live_in, a, regmap[a], moves[a], {})
  BY <1>1, <1>2, Zenon DEF OpOK, Ordinary
<1>4. DOMAIN moves[a][n].load \subseteq live_in[a] \cap OperandsOf(prog, a)
  BY <1>3 DEF Served
<1>5. prog[a].use = {} /\ ProgOK /\ Flow /\ a \in 1 .. Len(prog)
  BY MadeRegister, ReadyFacts
<1>6. live_in[a] = (live_out[a] \ Kill(prog, a)) \cup Gen(prog, a)
  BY <1>5 DEF Flow, Solves, InOf
<1>7. Kill(prog, a) = prog[a].def /\ Gen(prog, a) = prog[a].use
  BY DEF Kill, Gen
<1>8. DOMAIN moves[a][n].load = {}
  BY <1>4, <1>5, <1>6, <1>7 DEF OperandsOf
<1>9. moves[a][n].rename = {}
  <2>1. a \in 1 .. Last
    BY ReadyFacts
  <2>2. QED
    BY <2>1 DEF Ready, LInv, Quiet
<1>10. QED
  BY <1>8, <1>9 DEF Unnamed, Unloaded

LEMMA MoveStep ==
  ASSUME Ready, SlotsApart, EInv, Move, UNCHANGED alloc
  PROVE  EInv'
<1> DEFINE s == SlotsHere(at)
           L == live_in[at]
           b == moves[at][k]
           f2 == Saved(b, at)
           h2 == Loaded(b, at)
<1>1. /\ run = "running" /\ k <= Len(moves[at]) /\ hw' = h2 /\ frame' = f2 /\ k' = k + 1
      /\ run' = "running" /\ at' = at /\ ref' = ref /\ result' = result
  BY DEF Move
<1>2. InFunction(prog, at, hw, frame, ref)
  BY <1>1 DEF EInv
<1>3. at \in Ops /\ at - 1 \in Ops /\ at \in Nat /\ prog[at].code # "prolog"
      /\ DOMAIN frame = FrameIn(prog, at) /\ DOMAIN ref = Reg
  BY <1>2, InFunctionFacts
<1>4. moves[at] \in Seq(Batches)
  BY <1>3, ReadyFacts
<1>5. prog[at].code \notin {"putarg", "call"}
  <2> SUFFICES ASSUME prog[at].code \in {"putarg", "call"} PROVE FALSE
    OBVIOUS
  <2>1. InCall(prog, live_in, live_out, regmap, SlotsHere(at), at, k, hw, frame, pushed, ref)
    BY <1>1 DEF EInv, AtOp
  <2>2. k \in Nat /\ k >= 1
    BY <1>3, <2>1 DEF InCall, During
  <2>3. moves[at] = <<>>
    BY <1>3, NoMovesInCalls
  <2>4. QED
    BY <1>1, <2>2, <2>3
<1>6. AtOp(prog, live_in, regmap, moves, eliminated, s, at, k, hw, frame, result, ref)
  BY <1>1, <1>5, AtOpHere
<1>7. k \in 1 .. Len(moves[at]) /\ k + 1 \in 1 .. Len(moves[at]) + 1 /\ b \in Batches
  BY <1>1, <1>4, <1>6 DEF AtOp
<1>8. DOMAIN b.save \subseteq DOMAIN s
  BY <1>3, <1>7, SlotsFacts
<1>9. Effect(s, b, hw, frame, h2, f2)
  BY <1>3, <1>7, <1>8, BatchEffect, SlotsFacts
<1>10. PICK ms : /\ Way(ms, regmap[at - 1], moves[at], L)
                 /\ Walked(prog, eliminated, at) => ms[Len(ms)] = regmap[at]
                 /\ Home(s, ms[k], L, hw, frame, ref)
  BY <1>6, Zenon DEF AtOp
<1>11. ms[k] \in RegMaps /\ ms[k + 1] \in RegMaps /\ Leads(ms[k], b, ms[k + 1], L)
  <2>1. ms \in Seq(RegMaps) /\ Len(ms) = Len(moves[at]) + 1
          /\ \A n \in 1 .. Len(moves[at]) : Leads(ms[n], moves[at][n], ms[n + 1], L)
    BY <1>10 DEF Way
  <2>2. QED
    BY <1>4, <1>7, <2>1
<1> HIDE DEF s, L, b, f2, h2
<1>12. /\ Home(s, ms[k + 1], L, h2, f2, ref)
       /\ \A v \in DOMAIN b.save \cap L : ref[v] # Undefined => ref[v] = f2[s[v]]
  <2>1. Home(s, ms[k], L, hw, frame, ref)
    BY <1>10
  <2> DEFINE m == ms[k]
             n == ms[k + 1]
  <2>2. m \in RegMaps /\ n \in RegMaps /\ Leads(m, b, n, L) /\ Home(s, m, L, hw, frame, ref)
    BY <1>11, <2>1
  <2> HIDE DEF m, n
  <2>3. Home(s, n, L, h2, f2, ref) /\ InSlots(s, b, L, f2, ref)
    BY <1>8, <1>9, <2>2, BatchBringsHome, Zenon
  <2>4. QED
    BY <2>3, Zenon DEF n, InSlots
<1>13. Backed(s, moves[at], k + 1, L, f2, ref)
  <2> SUFFICES ASSUME NEW j \in 1 .. k, NEW v \in DOMAIN moves[at][j].save \cap L, ref[v] # Undefined
               PROVE  ref[v] = f2[s[v]]
    <3>1. (k + 1) - 1 = k
      BY <1>7
    <3>2. QED
      BY <3>1 DEF Backed
  <2>1. CASE v \in DOMAIN b.save
    BY <1>12, <2>1
  <2>2. CASE v \notin DOMAIN b.save
    <3>1. j \in 1 .. k - 1 /\ j \in 1 .. Len(moves[at])
      <4>1. j # k
        BY <2>2 DEF b
      <4>2. QED
        BY <1>7, <4>1
    <3>2. v \in DOMAIN s
      BY <1>3, <3>1, SlotsFacts DEF s
    <3>3. f2[s[v]] = frame[s[v]]
      BY <1>9, <2>2, <3>2, Zenon DEF Effect
    <3>4. ref[v] = frame[s[v]]
      BY <1>6, <3>1 DEF AtOp, Backed, L
    <3>5. QED
      BY <3>3, <3>4
  <2>3. QED
    BY <2>1, <2>2
<1>14. prog[at].code \in {"retval", "fretval"} => h2[RetReg] = result /\ h2[FpRetReg] = result
  <2> SUFFICES ASSUME prog[at].code \in {"retval", "fretval"}
               PROVE  h2[RetReg] = result /\ h2[FpRetReg] = result
    OBVIOUS
  <2>1. prog[at].code # "retval"
    <3>1. prog[at].code = "retval" => moves[at] = <<>>
      BY <1>3, NoMovesInCalls
    <3>2. QED
      BY <1>7, <3>1
  <2>2. \A x : Unnamed(b, x) /\ Unloaded(b, x)
    BY <1>3, <1>7, <2>1, FretvalMoves DEF b
  <2>3. RetReg \in HwReg /\ FpRetReg \in HwReg
    BY Hardware
  <2>4. h2[RetReg] = hw[RetReg] /\ h2[FpRetReg] = hw[FpRetReg]
    BY <1>9, <2>2, <2>3, Zenon DEF Effect
  <2>5. hw[RetReg] = result /\ hw[FpRetReg] = result
    BY <1>6 DEF AtOp
  <2>6. QED
    BY <2>4, <2>5
<1>15. AtOp(prog, live_in, regmap, moves, eliminated, s, at, k + 1, h2, f2, result, ref)
  BY <1>5, <1>7, <1>10, <1>12, <1>13, <1>14, Zenon DEF AtOp, L
<1>16. InFunction(prog, at, h2, f2, ref)
  <2>1. DOMAIN f2 = DOMAIN frame /\ DOMAIN h2 = HwReg
    BY <1>9 DEF Effect
  <2>2. QED
    BY <1>2, <2>1, Zenon DEF InFunction
<1>17. phase = "done" /\ s = SlotsAt(prog, moves, edge, at)
  BY DEF Ready, s, SlotsHere
<1>18. /\ InFunction(prog, at', hw', frame', ref')
       /\ AtOp(prog, live_in, regmap, moves, eliminated, SlotsAt(prog, moves, edge, at'), at', k',
               hw', frame', result', ref')
  BY <1>1, <1>15, <1>16, <1>17, Zenon
<1>19. QED
  BY <1>1, <1>17, <1>18, ArrivesAtOp

-----------------------------------------------------------------------------
(* The operations outside of calls                                         *)

\* An operation that is about to run, when its batches have.
LEMMA OpHere ==
  ASSUME Ready, EInv, NEW i \in Ops, NEW codes, Runs(i, codes),
         "putarg" \notin codes, "call" \notin codes
  PROVE  /\ at = i /\ i \in Nat /\ i - 1 \in Ops
         /\ prog[i].code \in codes /\ prog[i].code # "prolog"
         /\ DOMAIN hw = HwReg /\ DOMAIN frame = FrameIn(prog, i) /\ DOMAIN ref = Reg
         /\ ArgsHeld(ArgsOf(prog, i), ref)
         /\ Walked(prog, eliminated, i) => Home(SlotsHere(i), regmap[i], live_in[i], hw, frame, ref)
         /\ moves[i] = <<>> => Home(SlotsHere(i), regmap[i - 1], live_in[i], hw, frame, ref)
         /\ Backed(SlotsHere(i), moves[i], Len(moves[i]) + 1, live_in[i], frame, ref)
         /\ prog[i].code \in {"retval", "fretval"} => hw[RetReg] = result /\ hw[FpRetReg] = result
<1>1. run = "running" /\ at = i /\ k = Len(moves[i]) + 1 /\ prog[i].code \in codes
  BY DEF Runs
<1>2. prog[at].code \notin {"putarg", "call"}
  BY <1>1
<1>3. /\ InFunction(prog, i, hw, frame, ref)
      /\ AtOp(prog, live_in, regmap, moves, eliminated, SlotsHere(i), i, k, hw, frame, result, ref)
  BY <1>1, <1>2, AtOpHere
<1>4. /\ i \in Nat /\ i - 1 \in Ops /\ prog[i].code # "prolog"
      /\ DOMAIN hw = HwReg /\ DOMAIN frame = FrameIn(prog, i) /\ DOMAIN ref = Reg
      /\ ArgsHeld(ArgsOf(prog, i), ref)
  BY <1>3, InFunctionFacts
<1>5. /\ Walked(prog, eliminated, i) => Home(SlotsHere(i), regmap[i], live_in[i], hw, frame, ref)
      /\ moves[i] = <<>> => Home(SlotsHere(i), regmap[i - 1], live_in[i], hw, frame, ref)
  BY <1>1, <1>3, AtEnd
<1>6. /\ prog[i].code \in {"retval", "fretval"} => hw[RetReg] = result /\ hw[FpRetReg] = result
      /\ Backed(SlotsHere(i), moves[i], k, live_in[i], frame, ref)
  BY <1>3, Zenon DEF AtOp
<1>7. Backed(SlotsHere(i), moves[i], Len(moves[i]) + 1, live_in[i], frame, ref)
  BY <1>1, <1>6, Zenon
<1>8. QED
  BY <1>1, <1>4, <1>5, <1>6, <1>7

\* An operation of the walk that is not eliminated has its operands in registers.
LEMMA OrdinaryOp ==
  ASSUME Ready, NEW i \in Ops, prog[i].code \in Ordinary,
         prog[i].code = "getarg" => i \notin eliminated
  PROVE  /\ Walked(prog, eliminated, i)
         /\ prog[i].code # "prepare" => OperandsOf(prog, i) \subseteq DOMAIN regmap[i]
         /\ prog[i].code = "prepare" => In(regmap[i], GivenOf(prog, i)) = {}
         /\ prog[i].code = "label" => regmap[i] = regmap[i - 1] /\ moves[i] = <<>>
<1>1. prog[i].code # "prolog"
  BY DEF Ordinary
<1>2. OpOK(prog, live_in, live_out, i, regmap[i - 1], regmap[i], moves[i], eliminated \cap {i}, {})
  BY <1>1, ReadyOp
<1>3. i \notin eliminated \cap {i}
  <2>1. i \in eliminated \cap {i} => prog[i].code = "getarg"
    BY <1>2, Zenon DEF OpOK
  <2>2. QED
    BY <2>1
<1>4. Walked(prog, eliminated, i)
  BY <1>3 DEF Walked
<1>5. Served(prog, live_in, i, regmap[i], moves[i], {})
  BY <1>2, <1>3, Zenon DEF OpOK
<1>6. /\ prog[i].code # "prepare" => OperandsOf(prog, i) \subseteq DOMAIN regmap[i]
      /\ prog[i].code = "prepare" => In(regmap[i], GivenOf(prog, i)) = {}
  BY <1>5 DEF Served
<1>7. prog[i].code = "label" => regmap[i] = regmap[i - 1] /\ moves[i] = <<>>
  BY <1>2, Zenon DEF OpOK, Still
<1>8. QED
  BY <1>4, <1>6, <1>7

\* An operation makes the registers D where its map has them, and leaves the others
\* alone: from h and r to h2 and r2.
Makes(D, map, L, h, r, L2, h2, r2) ==
  /\ D \subseteq DOMAIN map /\ \A v \in D : r2[v] = h2[map[v]]
  /\ \A v \in L2 : v \notin D => v \in L /\ r2[v] = r[v]
  /\ \A v \in DOMAIN map : v \notin D => h2[map[v]] = h[map[v]]

LEMMA HomeMade ==
  ASSUME NEW s, NEW map, NEW L, NEW h, NEW f, NEW r, Home(s, map, L, h, f, r),
         NEW D, NEW L2, NEW h2, NEW r2, Makes(D, map, L, h, r, L2, h2, r2)
  PROVE  Home(s, map, L2, h2, f, r2)
<1> SUFFICES ASSUME NEW v \in L2, r2[v] # Undefined
             PROVE  \/ v \in DOMAIN map /\ r2[v] = h2[map[v]]
                    \/ v \notin DOMAIN map /\ v \in DOMAIN s /\ r2[v] = f[s[v]]
  BY Zenon DEF Home
<1>1. CASE v \in D
  BY <1>1 DEF Makes
<1>2. CASE v \notin D
  <2>1. v \in L /\ r2[v] = r[v] /\ (v \in DOMAIN map => h2[map[v]] = h[map[v]])
    BY <1>2 DEF Makes
  <2>2. \/ v \in DOMAIN map /\ r[v] = h[map[v]]
        \/ v \notin DOMAIN map /\ v \in DOMAIN s /\ r[v] = f[s[v]]
    BY <2>1, Zenon DEF Home
  <2>3. QED
    BY <1>2, <2>1, <2>2
<1>3. QED
  BY <1>1, <1>2

LEMMA ArgRegsAre ==
  ASSUME Ready, NEW i \in Ops
  PROVE  /\ Len(ArgsOf(prog, i)) \in Nat
         /\ \A j \in 1 .. Len(ArgsOf(prog, i)) :
              /\ j \in Nat /\ ArgsOf(prog, i)[j] \in {"INT", "FLOAT"}
              /\ ArgReg(ArgsOf(prog, i)[j], j - 1) \in Reg
<1>1. ProgOK
  BY ReadyFacts
<1>2. PICK s \in Ops : prog[s].code = "prolog" /\ ArgsOf(prog, i) = prog[s].args
  BY <1>1, PrologOf
<1>3. ArgsOf(prog, i) \in Seq({"INT", "FLOAT"})
  BY <1>1, <1>2, OperandsType DEF Operation
<1>4. Len(ArgsOf(prog, i)) <= MaxArgs /\ MaxArgs \in Nat
  BY <1>1, <1>2, OpsAssumption DEF ProgOK, WellFormed, Ops
<1> DEFINE args == ArgsOf(prog, i)
<1> HIDE DEF args
<1>5. SUFFICES ASSUME NEW j \in 1 .. Len(args)
               PROVE  j \in Nat /\ args[j] \in {"INT", "FLOAT"} /\ ArgReg(args[j], j - 1) \in Reg
  BY <1>3 DEF args
<1>6. j \in Nat /\ args[j] \in {"INT", "FLOAT"} /\ j - 1 \in 0 .. MaxArgs - 1
  BY <1>3, <1>4 DEF args
<1>7. QED
  BY <1>6 DEF Reg

\* The registers of arguments are none that an operation makes.
LEMMA ArgsStayHeld ==
  ASSUME Ready, NEW i \in Ops, NEW r, ArgsHeld(ArgsOf(prog, i), r),
         NEW r2, \A v \in Reg : v[2] = "ARG" => r2[v] = r[v]
  PROVE  ArgsHeld(ArgsOf(prog, i), r2)
<1> SUFFICES ASSUME NEW j \in 1 .. Len(ArgsOf(prog, i)), PassedByReg(ArgsOf(prog, i), j)
             PROVE  r2[ArgReg(ArgsOf(prog, i)[j], j - 1)] = Argument(j)
  BY Zenon DEF ArgsHeld
<1> DEFINE v == ArgReg(ArgsOf(prog, i)[j], j - 1)
<1>1. r[v] = Argument(j)
  BY Zenon DEF ArgsHeld
<1>2. v[2] = "ARG"
  BY DEF ArgReg
<1>3. v \in Reg
  BY ArgRegsAre
<1> HIDE DEF v
<1>4. r2[v] = Argument(j)
  BY <1>1, <1>2, <1>3
<1>5. QED
  BY <1>4 DEF v

LEMMA DefsNotArgs ==
  ASSUME Ready, NEW i \in Ops
  PROVE  \A v \in prog[i].def : v \in Reg /\ v[2] # "ARG"
<1>1. ProgOK
  BY ReadyFacts
<1>2. prog[i].def \subseteq VReg
  BY <1>1, OperandsType DEF Operands
<1>3. QED
  BY <1>2, AllocAssumption, VRegTypes

LEMMA ComputeStep ==
  ASSUME Ready, EInv, NEW i \in Ops, Compute(i), UNCHANGED alloc
  PROVE  EInv'
<1> DEFINE codes == {"op", "label"}
           D == prog[i].def
<1>1. /\ Runs(i, codes) /\ run = "running" /\ run' = run /\ frame' = frame
      /\ at' = i + 1 /\ k' = 1
      /\ ref' = [v \in Reg |-> IF v \in D THEN Made(i) ELSE ref[v]]
      /\ hw' = [h \in HwReg |-> IF In(regmap[i], {h}) \cap D # {} THEN Made(i) ELSE hw[h]]
  BY DEF Compute, Goto, Runs
<1>2. "putarg" \notin codes /\ "call" \notin codes
  OBVIOUS
<1> HIDE DEF codes
<1>3. /\ prog[i].code \in codes /\ prog[i].code # "prolog"
      /\ DOMAIN hw = HwReg /\ DOMAIN frame = FrameIn(prog, i) /\ DOMAIN ref = Reg
      /\ ArgsHeld(ArgsOf(prog, i), ref)
      /\ Walked(prog, eliminated, i) => Home(SlotsHere(i), regmap[i], live_in[i], hw, frame, ref)
  BY <1>1, <1>2, OpHere
<1>4. prog[i].code \in Ordinary /\ prog[i].code \notin {"getarg", "prepare"}
        /\ prog[i].code \notin {"ret", "jmp", "prepare", "putarg", "call"}
  BY <1>3 DEF codes, Ordinary
<1>5. Walked(prog, eliminated, i) /\ D \subseteq DOMAIN regmap[i]
  BY <1>4, OrdinaryOp DEF OperandsOf
<1>6. \A v \in live_out[i] : v \notin D => v \in live_in[i]
  BY <1>3, AliveThroughNone
<1>7. regmap[i] \in RegMaps /\ One(regmap[i]) /\ \A v \in D : v \in Reg /\ v[2] # "ARG"
  BY ReadyFacts, DefsNotArgs
<1>8. \A v \in DOMAIN regmap[i] : regmap[i][v] \in HwReg
  BY <1>7, IsMap
<1>9. \A v \in D : ref'[v] = hw'[regmap[i][v]]
  <2> SUFFICES ASSUME NEW v \in D PROVE ref'[v] = hw'[regmap[i][v]]
    OBVIOUS
  <2>1. v \in In(regmap[i], {regmap[i][v]}) \cap D
    BY <1>5 DEF In
  <2>2. hw'[regmap[i][v]] = Made(i)
    BY <1>1, <1>5, <1>8, <2>1
  <2>3. ref'[v] = Made(i)
    BY <1>1, <1>7
  <2>4. QED
    BY <2>2, <2>3
<1>10. \A v \in DOMAIN regmap[i] : v \notin D => hw'[regmap[i][v]] = hw[regmap[i][v]]
  <2> SUFFICES ASSUME NEW v \in DOMAIN regmap[i], v \notin D
               PROVE  hw'[regmap[i][v]] = hw[regmap[i][v]]
    OBVIOUS
  <2>1. In(regmap[i], {regmap[i][v]}) \cap D = {}
    BY <1>7 DEF In, One
  <2>2. QED
    BY <1>1, <1>8, <2>1
<1>11. \A v \in live_out[i] : v \notin D => ref'[v] = ref[v]
  BY <1>1, RunnableOK
<1>12. Home(SlotsHere(i), regmap[i], live_out[i], hw', frame, ref')
  <2>1. Home(SlotsHere(i), regmap[i], live_in[i], hw, frame, ref)
    BY <1>3, <1>5
  <2> HIDE DEF D
  <2>2. Makes(D, regmap[i], live_in[i], hw, ref, live_out[i], hw', ref')
    BY <1>5, <1>6, <1>9, <1>10, <1>11, Zenon DEF Makes
  <2>3. QED
    BY <2>1, <2>2, HomeMade, Zenon
<1>13. DOMAIN hw' = HwReg /\ DOMAIN ref' = Reg
  BY <1>1
<1>14. ArgsHeld(ArgsOf(prog, i), ref')
  <2>1. \A v \in Reg : v[2] = "ARG" => ref'[v] = ref[v]
    BY <1>1, <1>7
  <2>2. QED
    BY <1>3, <2>1, ArgsStayHeld
<1>15. QED
  BY <1>1, <1>3, <1>4, <1>12, <1>13, <1>14, GoesOn, Zenon

\* BEQ and the like, when the jump is not taken.
LEMMA FallThroughStep ==
  ASSUME Ready, EInv, NEW i \in Ops, FallThrough(i), UNCHANGED alloc
  PROVE  EInv'
<1> DEFINE codes == {"branch", "bms"}
           D == {}
<1>1. /\ Runs(i, codes) /\ run = "running" /\ run' = run /\ frame' = frame
      /\ at' = i + 1 /\ k' = 1 /\ ref' = ref /\ hw' = hw
  BY DEF FallThrough, Goto, Runs
<1>2. "putarg" \notin codes /\ "call" \notin codes
  OBVIOUS
<1> HIDE DEF codes
<1>3. /\ prog[i].code \in codes /\ prog[i].code # "prolog"
      /\ DOMAIN hw = HwReg /\ DOMAIN frame = FrameIn(prog, i) /\ DOMAIN ref = Reg
      /\ ArgsHeld(ArgsOf(prog, i), ref)
      /\ Walked(prog, eliminated, i) => Home(SlotsHere(i), regmap[i], live_in[i], hw, frame, ref)
  BY <1>1, <1>2, OpHere
<1>4. prog[i].code \in Ordinary /\ prog[i].code \notin {"getarg", "prepare"}
        /\ prog[i].code \notin {"ret", "jmp", "prepare", "putarg", "call"}
        /\ prog[i].code \in {"branch", "bms"}
  BY <1>3 DEF codes, Ordinary
<1>5. Walked(prog, eliminated, i)
  BY <1>4, OrdinaryOp
<1>6. \A v \in live_out[i] : v \in live_in[i]
  <2>1. prog[i].def = {}
    BY <1>4, ReadyFacts DEF ProgOK, Typed
  <2>2. QED
    BY <1>3, <2>1, AliveThroughNone
<1>7. Home(SlotsHere(i), regmap[i], live_out[i], hw', frame, ref')
  <2>1. Home(SlotsHere(i), regmap[i], live_in[i], hw, frame, ref)
    BY <1>3, <1>5
  <2>2. QED
    BY <1>1, <1>6, <2>1, Zenon DEF Home
<1>8. QED
  BY <1>1, <1>3, <1>4, <1>7, GoesOn, Zenon

LEMMA ReturnStep ==
  ASSUME NEW i, Return(i)
  PROVE  EInv'
BY DEF Return, EInv

\* A map that has the values of L2 where the old one had them.
LEMMA HomeRest ==
  ASSUME NEW s, NEW old, NEW L, NEW h, NEW f, NEW r, Home(s, old, L, h, f, r),
         NEW map, NEW L2,
         \A v \in L2 : /\ v \in L /\ (v \in DOMAIN map <=> v \in DOMAIN old)
                       /\ v \in DOMAIN old => map[v] = old[v]
  PROVE  Home(s, map, L2, h, f, r)
BY Zenon DEF Home

\* A register is made, and put where the map has it.
LEMMA HomeWritten ==
  ASSUME Ready, NEW i \in Ops, prog[i].code \in {"getarg", "fretval"},
         DefOf(prog, i) \in DOMAIN regmap[i], DOMAIN hw = HwReg, DOMAIN ref = Reg,
         Home(SlotsHere(i), regmap[i], live_in[i], hw, frame, ref), NEW x
  PROVE  Home(SlotsHere(i), regmap[i], live_out[i],
              [hw EXCEPT ![regmap[i][DefOf(prog, i)]] = x], frame,
              [ref EXCEPT ![DefOf(prog, i)] = x])
<1> DEFINE map == regmap[i]
           def == DefOf(prog, i)
           D == {def}
           h2 == [hw EXCEPT ![map[def]] = x]
           r2 == [ref EXCEPT ![def] = x]
<1>1. prog[i].def = D /\ def \in Reg /\ prog[i].code # "prolog"
  BY ReadyFacts, MadeRegister, DefsNotArgs
<1>2. map \in RegMaps /\ One(map)
  BY ReadyFacts
<1>3. \A v \in live_out[i] : v \notin D => v \in live_in[i] /\ v \in Reg
  BY <1>1, AliveThroughNone, RunnableOK
<1> HIDE DEF map, def
<1>4. def \in DOMAIN map /\ map[def] \in HwReg
  BY <1>2, IsMap DEF map, def
<1>5. h2[map[def]] = x /\ r2[def] = x
  BY <1>1, <1>4
<1>6. \A v \in DOMAIN map : v \notin D => h2[map[v]] = hw[map[v]]
  <2>1. \A v \in DOMAIN map : v # def => map[v] # map[def]
    BY <1>2, <1>4 DEF One
  <2>2. QED
    BY <2>1
<1>7. \A v \in live_out[i] : v \notin D => r2[v] = ref[v]
  BY <1>3
<1>8. Makes(D, map, live_in[i], hw, ref, live_out[i], h2, r2)
  BY <1>3, <1>4, <1>5, <1>6, <1>7 DEF Makes
<1> HIDE DEF D, h2, r2
<1>9. Home(SlotsHere(i), map, live_out[i], h2, frame, r2)
  BY <1>8, HomeMade, Zenon DEF map
<1>10. QED
  BY <1>9 DEF h2, r2, map, def

\* RETVAL and FRETVAL.
LEMMA ReadResultStep ==
  ASSUME Ready, EInv, NEW i \in Ops, ReadResult(i), UNCHANGED alloc
  PROVE  EInv'
<1> DEFINE codes == {"retval", "fretval"}
           def == DefOf(prog, i)
           D == {def}
<1>1. /\ Runs(i, codes) /\ run = "running" /\ run' = run /\ frame' = frame
      /\ at' = i + 1 /\ k' = 1 /\ ref' = [ref EXCEPT ![def] = result]
      /\ hw' = IF prog[i].code = "retval" THEN hw ELSE [hw EXCEPT ![regmap[i][def]] = hw[FpRetReg]]
  BY DEF ReadResult, Goto, Runs, DefOf
<1>2. "putarg" \notin codes /\ "call" \notin codes
  OBVIOUS
<1> HIDE DEF codes
<1>3. /\ prog[i].code \in codes /\ prog[i].code # "prolog"
      /\ DOMAIN hw = HwReg /\ DOMAIN frame = FrameIn(prog, i) /\ DOMAIN ref = Reg
      /\ ArgsHeld(ArgsOf(prog, i), ref)
      /\ Walked(prog, eliminated, i) => Home(SlotsHere(i), regmap[i], live_in[i], hw, frame, ref)
      /\ moves[i] = <<>> => Home(SlotsHere(i), regmap[i - 1], live_in[i], hw, frame, ref)
      /\ prog[i].code \in {"retval", "fretval"} => hw[RetReg] = result /\ hw[FpRetReg] = result
  BY <1>1, <1>2, OpHere
<1>4. prog[i].code \in {"retval", "fretval"} /\ prog[i].code \notin {"getarg", "prepare"}
        /\ prog[i].code \notin {"ret", "jmp", "prepare", "putarg", "call"}
  BY <1>3 DEF codes
<1>5. prog[i].def = {def} /\ def \in Reg /\ def[2] # "ARG"
  BY <1>4, ReadyFacts, MadeRegister, DefsNotArgs
<1>6. regmap[i] \in RegMaps /\ One(regmap[i])
  BY ReadyFacts
<1> HIDE DEF def
<1>7. \A v \in live_out[i] : v \notin D => v \in live_in[i] /\ ref'[v] = ref[v]
  <2>1. \A v \in live_out[i] : v \notin D => v \in live_in[i]
    BY <1>3, <1>5, AliveThroughNone
  <2>2. \A v \in Reg : v # def => ref'[v] = ref[v]
    BY <1>1, <1>3
  <2>3. QED
    BY <2>1, <2>2, RunnableOK
<1>8. ref'[def] = result /\ DOMAIN ref' = Reg
  BY <1>1, <1>3, <1>5
<1>9. DOMAIN hw' = HwReg
  BY <1>1, <1>3
<1>10. Home(SlotsHere(i), regmap[i], live_out[i], hw', frame, ref')
  <2>1. CASE prog[i].code = "retval"
    <3> DEFINE old == regmap[i - 1]
               rest == live_in[i] \ D
    <3>1. regmap[i] = Assoc(old, def, RetReg) /\ moves[i] = <<>>
      <4>1. OpOK(prog, live_in, live_out, i, regmap[i - 1], regmap[i], moves[i], eliminated \cap {i}, {})
        BY <1>3, ReadyOp
      <4>2. QED
        BY <2>1, <4>1, Zenon DEF OpOK, Still, def
    <3>2. /\ DOMAIN regmap[i] = DOMAIN old \cup {def} /\ regmap[i][def] = RetReg
          /\ \A v \in DOMAIN old : v # def => regmap[i][v] = old[v]
      <4> HIDE DEF old
      <4>1. QED
        BY <3>1 DEF Assoc
    <3>3. Home(SlotsHere(i), old, live_in[i], hw, frame, ref)
      BY <1>3, <3>1
    <3> HIDE DEF old
    <3>4. Home(SlotsHere(i), regmap[i], rest, hw, frame, ref)
      <4>1. \A v \in rest : /\ v \in live_in[i] /\ (v \in DOMAIN regmap[i] <=> v \in DOMAIN old)
                            /\ v \in DOMAIN old => regmap[i][v] = old[v]
        BY <3>2
      <4> HIDE DEF rest
      <4>2. QED
        BY <3>3, <4>1, HomeRest, Zenon
    <3>5. Makes(D, regmap[i], rest, hw, ref, live_out[i], hw', ref')
      <4>1. hw' = hw
        BY <1>1, <2>1
      <4>2. hw[RetReg] = result
        BY <1>3, <2>1
      <4>3. QED
        BY <1>7, <1>8, <3>2, <4>1, <4>2 DEF Makes
    <3> HIDE DEF rest, D
    <3>6. QED
      BY <3>4, <3>5, HomeMade, Zenon
  <2>2. CASE prog[i].code = "fretval"
    <3>1. Walked(prog, eliminated, i) /\ OperandsOf(prog, i) \subseteq DOMAIN regmap[i]
      <4>1. prog[i].code \in Ordinary /\ prog[i].code # "getarg" /\ prog[i].code # "prepare"
        BY <2>2 DEF Ordinary
      <4>2. QED
        BY <4>1, OrdinaryOp
    <3>2. def \in DOMAIN regmap[i]
      BY <1>5, <3>1 DEF OperandsOf
    <3>3. hw' = [hw EXCEPT ![regmap[i][def]] = result] /\ ref' = [ref EXCEPT ![def] = result]
      BY <1>1, <1>3, <2>2
    <3>4. Home(SlotsHere(i), regmap[i], live_in[i], hw, frame, ref)
      BY <1>3, <3>1
    <3>5. QED
      BY <1>3, <2>2, <3>2, <3>3, <3>4, HomeWritten DEF def
  <2>3. QED
    BY <1>4, <2>1, <2>2
<1>11. ArgsHeld(ArgsOf(prog, i), ref')
  <2>1. \A v \in Reg : v[2] = "ARG" => ref'[v] = ref[v]
    BY <1>1, <1>3, <1>5
  <2>2. QED
    BY <1>3, <2>1, ArgsStayHeld
<1>12. QED
  BY <1>1, <1>3, <1>4, <1>8, <1>9, <1>10, <1>11, GoesOn, Zenon

-----------------------------------------------------------------------------
(* Jumps                                                                   *)

LEMMA JumpStep ==
  ASSUME Ready, SlotsApart, JumpsAgree, EInv, NEW i \in Ops, Jump(i), UNCHANGED alloc
  PROVE  EInv'
<1> DEFINE codes == {"jmp", "branch", "bms"}
           t == Target(i)
           s == SlotsHere(i)
           L == live_in[t]
<1>1. /\ Runs(i, codes) /\ run = "running" /\ run' = run
      /\ at' = t /\ k' = 1 /\ ref' = ref
      /\ i \in DOMAIN edge => hw' = Loaded(edge[i], i) /\ frame' = Saved(edge[i], i)
      /\ i \notin DOMAIN edge => hw' = hw /\ frame' = frame
  BY DEF Jump, Goto, Runs
<1>2. "putarg" \notin codes /\ "call" \notin codes
  OBVIOUS
<1> HIDE DEF codes
<1>3. /\ prog[i].code \in codes /\ prog[i].code # "prolog"
      /\ DOMAIN hw = HwReg /\ DOMAIN frame = FrameIn(prog, i) /\ DOMAIN ref = Reg
      /\ ArgsHeld(ArgsOf(prog, i), ref)
      /\ Walked(prog, eliminated, i) => Home(s, regmap[i], live_in[i], hw, frame, ref)
  BY <1>1, <1>2, OpHere
<1>4. prog[i].code \in Ordinary /\ prog[i].code \notin {"getarg", "prepare"}
        /\ prog[i].code \in {"jmp", "branch", "bms"}
  BY <1>3 DEF codes, Ordinary
<1>5. Home(s, regmap[i], live_in[i], hw, frame, ref)
  BY <1>3, <1>4, OrdinaryOp
<1>6. /\ t \in Ops /\ prog[t].code = "label" /\ t # 1
      /\ L \subseteq live_out[i] /\ L \subseteq live_in[i] /\ Together(prog, i, t)
      /\ Len(prog) \in Nat /\ Ops = 1 .. Len(prog) /\ phase = "done"
  BY <1>4, JumpEnds, ReadyFacts DEF Ready
<1>7. SlotsHere(t) = s /\ FrameIn(prog, t) = FrameIn(prog, i) /\ ArgsOf(prog, t) = ArgsOf(prog, i)
  BY <1>6, SameSlots
<1>8. regmap[t] = regmap[t - 1] /\ t \in 2 .. Len(prog)
  <2>1. prog[t].code \in Ordinary /\ prog[t].code # "getarg"
    BY <1>6 DEF Ordinary
  <2>2. QED
    BY <1>6, <2>1, OrdinaryOp
<1>9. Home(s, regmap[i], L, hw, frame, ref)
  BY <1>5, <1>6, Zenon DEF Home
<1>10. regmap[i] \in RegMaps /\ regmap[t] \in RegMaps
  BY <1>6, ReadyFacts
<1>11. /\ Home(s, regmap[t], L, hw', frame', ref')
       /\ DOMAIN hw' = HwReg /\ DOMAIN frame' = FrameIn(prog, i)
  <2>1. CASE i \in DOMAIN edge
    <3>1. /\ Leads(regmap[i], edge[i], regmap[t], L) /\ edge[i] \in Batches
          /\ DOMAIN edge[i].save \subseteq Spilled(i) /\ DOMAIN s = Spilled(i)
      BY <2>1, EdgeLeads, ReadyFacts, SlotsFacts DEF Ready
    <3>2. Effect(s, edge[i], hw, frame, hw', frame')
      BY <1>1, <1>3, <2>1, <3>1, BatchEffect
    <3> HIDE DEF s, t, L
    <3>3. Home(s, regmap[t], L, hw', frame', ref) /\ InSlots(s, edge[i], L, frame', ref)
      <4> DEFINE m == regmap[i]
                 n == regmap[t]
                 b == edge[i]
      <4>1. /\ m \in RegMaps /\ n \in RegMaps /\ Leads(m, b, n, L) /\ Home(s, m, L, hw, frame, ref)
            /\ DOMAIN b.save \subseteq DOMAIN s /\ Effect(s, b, hw, frame, hw', frame')
        BY <1>9, <1>10, <3>1, <3>2
      <4> HIDE DEF m, n, b
      <4>2. Home(s, n, L, hw', frame', ref) /\ InSlots(s, b, L, frame', ref)
        BY <4>1, BatchBringsHome, Zenon
      <4>3. QED
        BY <4>2 DEF n, b
    <3>4. QED
      BY <1>1, <1>3, <3>2, <3>3, Zenon DEF Effect
  <2>2. CASE i \notin DOMAIN edge
    <3>1. RmapEqual(i)
      BY <1>4, <1>6, <2>2 DEF JumpsAgree
    <3>2. \A v \in L : v \in DOMAIN regmap[i] \cup DOMAIN regmap[t] =>
            /\ v \in DOMAIN regmap[i] /\ v \in DOMAIN regmap[t] /\ regmap[i][v] = regmap[t][v]
      BY <3>1 DEF RmapEqual
    <3> HIDE DEF s, t, L
    <3>3. \A v \in L : /\ v \in L /\ (v \in DOMAIN regmap[t] <=> v \in DOMAIN regmap[i])
                       /\ v \in DOMAIN regmap[i] => regmap[t][v] = regmap[i][v]
      BY <3>2
    <3>4. Home(s, regmap[t], L, hw, frame, ref)
      BY <1>9, <3>3, HomeRest, Zenon
    <3>5. QED
      BY <1>1, <1>3, <2>2, <3>4, Zenon
  <2>3. QED
    BY <2>1, <2>2
<1>12. AtOp(prog, live_in, regmap, moves, eliminated, SlotsHere(t), t, 1,
            hw', frame', result', ref')
  <2>1. Home(SlotsHere(t), regmap[t - 1], live_in[t], hw', frame', ref')
    BY <1>7, <1>8, <1>11, Zenon
  <2>2. prog[t].code \notin {"prolog", "putarg", "call"} /\ prog[t].code \notin {"retval", "fretval"}
    BY <1>6
  <2> HIDE DEF s, t, L
  <2>3. QED
    BY <1>6, <2>1, <2>2, EnterOp
<1>13. InFunction(prog, at', hw', frame', ref')
  <2>1. prog[t].code # "prolog"
    BY <1>6
  <2> HIDE DEF s, t, L
  <2>2. QED
    BY <1>1, <1>3, <1>7, <1>8, <1>11, <2>1, Zenon DEF InFunction
<1>14. AtOp(prog, live_in, regmap, moves, eliminated, SlotsAt(prog, moves, edge, at'), at', k',
            hw', frame', result', ref')
  BY <1>1, <1>12, Zenon DEF SlotsHere
<1>15. QED
  BY <1>1, <1>6, <1>13, <1>14, ArrivesAtOp, Zenon

-----------------------------------------------------------------------------
(* Arguments                                                               *)

\* An argument is passed in a register if it is one of the first of its type.
LEMMA PlaceAmong ==
  ASSUME NEW args, NEW j \in 1 .. Len(args), Len(args) \in Nat
  PROVE  /\ TypePos(args, j) = Cardinality(Before(args, j, args[j])) + 1
         /\ Cardinality(Before(args, j, args[j])) \in Nat
<1> DEFINE B == Before(args, j, args[j])
           S == {n \in 1 .. j : args[n] = args[j]}
<1>1. S = B \cup {j} /\ j \notin B /\ B \in SUBSET (1 .. j) /\ j \in Nat
  BY DEF Before, Positions
<1>2. TypePos(args, j) = Cardinality(S)
  BY DEF TypePos
<1> HIDE DEF B, S
<1>3. IsFiniteSet(B)
  <2>1. IsFiniteSet(1 .. j)
    BY <1>1, FS_Interval
  <2>2. QED
    BY <1>1, <2>1, FS_Subset
<1>4. Cardinality(S) = Cardinality(B) + 1 /\ Cardinality(B) \in Nat
  BY <1>1, <1>3, FS_AddElement, FS_CardinalityType
<1>5. QED
  BY <1>2, <1>4 DEF B

LEMMA ArgumentPassed ==
  ASSUME ProgOK, NEW s \in Ops, prog[s].code = "prolog", NEW j \in 1 .. Len(prog[s].args)
  PROVE  PassedByReg(prog[s].args, j) <=>
           ArgReg(prog[s].args[j], j - 1) \in DOMAIN ArgMap(prog[s].args)
<1> DEFINE args == prog[s].args
           gp == {ArgReg("INT", n - 1) : n \in Passed(args, "INT", GpArgRegs)}
           fp == {ArgReg("FLOAT", n - 1) : n \in Passed(args, "FLOAT", FpArgRegs)}
<1>1. args \in Seq({"INT", "FLOAT"}) /\ Len(args) \in Nat
  <2>1. args \in Seq({"INT", "FLOAT"})
    BY OperandsType DEF Operation
  <2>2. QED
    BY <2>1
<1>2. args[j] \in {"INT", "FLOAT"} /\ j \in Nat
  BY <1>1
<1>3. DOMAIN ArgMap(args) = gp \cup fp
  BY DEF ArgMap
<1> HIDE DEF args
<1>4. ASSUME NEW type
      PROVE  \A n \in Passed(args, type, GpArgRegs) \cup Passed(args, type, FpArgRegs) : n \in Nat
  BY <1>1 DEF Passed, Positions
<1>5. ArgReg(args[j], j - 1) \in gp <=> args[j] = "INT" /\ j \in Passed(args, "INT", GpArgRegs)
  BY <1>2, <1>4 DEF ArgReg
<1>6. ArgReg(args[j], j - 1) \in fp <=> args[j] = "FLOAT" /\ j \in Passed(args, "FLOAT", FpArgRegs)
  BY <1>2, <1>4 DEF ArgReg
<1> HIDE DEF gp, fp
<1>7. /\ TypePos(args, j) = Cardinality(Before(args, j, args[j])) + 1
      /\ Cardinality(Before(args, j, args[j])) \in Nat
  BY <1>1, PlaceAmong DEF args
<1>8. ASSUME NEW n \in Nat
      PROVE  j \in Passed(args, args[j], n) <=> TypePos(args, j) <= n
  <2>1. j \in Positions(args, args[j])
    BY DEF Positions, args
  <2>2. QED
    BY <1>7, <2>1 DEF Passed
<1>9. Len(GpArgs) = GpArgRegs /\ Len(FpArgs) = FpArgRegs /\ GpArgRegs \in Nat /\ FpArgRegs \in Nat
  BY AllocAssumption, OpsAssumption
<1>10. PassedByReg(args, j) <=> TypePos(args, j) <= (IF args[j] = "FLOAT" THEN FpArgRegs ELSE GpArgRegs)
  BY <1>9 DEF PassedByReg, ArgRegs
<1>11. QED
  BY <1>2, <1>3, <1>5, <1>6, <1>8, <1>9, <1>10 DEF args

\* Where the PROLOG's map has an argument is where the caller has put it.
LEMMA ArgumentPlace ==
  ASSUME Ready, NEW s \in Ops, prog[s].code = "prolog", NEW j \in 1 .. Len(prog[s].args),
         PassedByReg(prog[s].args, j)
  PROVE  /\ ArgReg(prog[s].args[j], j - 1) \in DOMAIN ArgMap(prog[s].args)
         /\ ArgMap(prog[s].args)[ArgReg(prog[s].args[j], j - 1)] = Location(prog[s].args, j)
         /\ Location(prog[s].args, j) \in HwReg \ CalleeSaved
<1> DEFINE args == prog[s].args
           a == ArgReg(args[j], j - 1)
           gp == {ArgReg("INT", n - 1) : n \in Passed(args, "INT", GpArgRegs)}
           fp == {ArgReg("FLOAT", n - 1) : n \in Passed(args, "FLOAT", FpArgRegs)}
<1>1. ProgOK /\ Ops = 1 .. Len(prog)
  BY ReadyFacts
<1>2. a \in DOMAIN ArgMap(args)
  BY <1>1, ArgumentPassed
<1>3. TypePos(args, j) = j
  BY <1>1, RunnableOK DEF Runnable
<1>4. args \in Seq({"INT", "FLOAT"})
  BY <1>1, OperandsType DEF Operation
<1>5. j \in Nat /\ args[j] \in {"INT", "FLOAT"} /\ j >= 1
  BY <1>4
<1>6. a[1] = args[j] /\ a[3] + 1 = j
  BY <1>5 DEF ArgReg
<1>7. DOMAIN ArgMap(args) = gp \cup fp
        /\ ArgMap(args)[a] = IF a \in gp THEN GpArgs[a[3] + 1] ELSE FpArgs[a[3] + 1]
  BY <1>2 DEF ArgMap
<1>8. a \in gp <=> args[j] = "INT"
  <2>1. a \in gp => a[1] = "INT"
    BY DEF ArgReg
  <2>2. a \in fp => a[1] = "FLOAT"
    BY DEF ArgReg
  <2> HIDE DEF a, gp, fp
  <2>3. QED
    BY <1>2, <1>5, <1>6, <1>7, <2>1, <2>2
<1>9. Location(args, j) = IF args[j] = "FLOAT" THEN FpArgs[j] ELSE GpArgs[j]
  BY <1>3 DEF Location, ArgRegs
<1>10. ArgMap(args)[a] = Location(args, j)
  <2> HIDE DEF a, gp, fp
  <2>1. QED
    BY <1>5, <1>6, <1>7, <1>8, <1>9
<1>11. Location(args, j) \in HwReg \ CalleeSaved
  <2>1. j <= (IF args[j] = "FLOAT" THEN FpArgRegs ELSE GpArgRegs)
    BY <1>3, AllocAssumption DEF PassedByReg, ArgRegs
  <2>2. FpArgRegs \in Nat /\ GpArgRegs \in Nat
    BY OpsAssumption
  <2>3. CASE args[j] = "FLOAT"
    <3>1. FpArgs[j] \in FpRegs
      BY <1>5, <2>1, <2>2, <2>3, AllocAssumption
    <3>2. QED
      BY <1>9, <2>3, <3>1, AllocAssumption DEF HwReg
  <2>4. CASE args[j] = "INT"
    <3>1. j \in 1 .. GpArgRegs
      BY <1>5, <2>1, <2>2, <2>4
    <3>2. GpArgs[j] \in GpRegs /\ GpArgs[j] \notin CalleeSaved
      BY <3>1, AllocAssumption
    <3>3. QED
      BY <1>9, <2>4, <3>2 DEF HwReg
  <2>5. QED
    BY <1>5, <2>3, <2>4
<1>12. QED
  BY <1>2, <1>10, <1>11

\* A PROLOG: somebody calls the function.
LEMMA CallFunctionStep ==
  ASSUME Ready, NEW i \in Ops, CallFunction(i), UNCHANGED alloc
  PROVE  EInv'
<1> DEFINE args == prog[i].args
           ByReg == {j \in 1 .. Len(args) : PassedByReg(args, j)}
           a(j) == ArgReg(args[j], j - 1)
           map == regmap[i]
<1>1. /\ prog[i].code = "prolog" /\ run' = "running" /\ at' = i + 1 /\ k' = 1
      /\ hw' = [h \in HwReg |->
           IF h \in CalleeSaved THEN OfCaller(h)
           ELSE IF \E j \in ByReg : Location(args, j) = h
           THEN Argument(CHOOSE j \in ByReg : Location(args, j) = h)
           ELSE Junk]
      /\ frame' = [s \in 0 .. GpCount(i) + FpCount(i) + Len(args) |-> Junk]
      /\ ref' = [v \in Reg |-> IF \E j \in ByReg : v = a(j) THEN Argument(v[3] + 1) ELSE Undefined]
  BY DEF CallFunction, Goto
<1>2. map = ArgMap(args) /\ ArgsOf(prog, i) = args
  BY <1>1, ReadyProlog
<1>3. DOMAIN hw' = HwReg /\ DOMAIN ref' = Reg
  BY <1>1
<1>4. DOMAIN frame' = FrameIn(prog, i)
  <2>1. DOMAIN frame' = 0 .. GpCount(i) + FpCount(i) + Len(args)
    BY <1>1
  <2>2. QED
    BY <1>2, <2>1, CountsAre DEF FrameIn
<1>5. \A j \in ByReg : /\ j \in Nat /\ a(j) \in Reg /\ a(j) \in DOMAIN map
                       /\ map[a(j)] = Location(args, j)
                       /\ Location(args, j) \in HwReg \ CalleeSaved
  <2> SUFFICES ASSUME NEW j \in 1 .. Len(args), PassedByReg(args, j)
               PROVE  /\ j \in Nat /\ a(j) \in Reg /\ a(j) \in DOMAIN map
                      /\ map[a(j)] = Location(args, j)
                      /\ Location(args, j) \in HwReg \ CalleeSaved
    OBVIOUS
  <2>1. j \in Nat /\ a(j) \in Reg
    BY <1>2, ArgRegsAre
  <2>2. QED
    BY <1>1, <1>2, <2>1, ArgumentPlace
<1>6. One(map)
  BY ReadyFacts
<1>7. \A j \in ByReg : a(j)[3] + 1 = j
  BY <1>5 DEF ArgReg
<1>8. \A j, n \in ByReg : Location(args, j) = Location(args, n) => j = n
  <2> HIDE DEF map, ByReg
  <2>1. QED
    BY <1>5, <1>6, <1>7 DEF One
<1> HIDE DEF map, ByReg, a, args
<1>9. \A j \in ByReg : ref'[a(j)] = Argument(j)
  BY <1>1, <1>5, <1>7
<1>10. \A j \in ByReg : hw'[Location(args, j)] = Argument(j)
  <2> SUFFICES ASSUME NEW j \in ByReg PROVE hw'[Location(args, j)] = Argument(j)
    OBVIOUS
  <2> DEFINE h == Location(args, j)
             n == CHOOSE m \in ByReg : Location(args, m) = h
  <2>1. n \in ByReg /\ Location(args, n) = h
    OBVIOUS
  <2>2. n = j
    BY <1>8, <2>1
  <2>3. h \in HwReg \ CalleeSaved
    BY <1>5
  <2>4. hw'[h] = Argument(n)
    BY <1>1, <2>1, <2>3
  <2>5. QED
    BY <2>2, <2>4
<1>11. ArgsHeld(ArgsOf(prog, i), ref')
  BY <1>2, <1>9 DEF ArgsHeld, ByReg, a
<1>12. Home(SlotsHere(i), map, live_out[i], hw', frame', ref')
  <2> SUFFICES ASSUME NEW v \in live_out[i], ref'[v] # Undefined
               PROVE  v \in DOMAIN map /\ ref'[v] = hw'[map[v]]
    BY Zenon DEF Home
  <2>1. v \in Reg
    BY RunnableOK
  <2>2. PICK j \in ByReg : v = a(j)
    BY <1>1, <2>1
  <2>3. QED
    BY <1>5, <1>9, <1>10, <2>2
<1>13. prog[i].code \notin {"ret", "jmp", "prepare", "putarg"} /\ prog[i].code # "call"
  BY <1>1
<1>14. QED
  BY <1>1, <1>3, <1>4, <1>11, <1>12, <1>13, GoesOn, Zenon DEF map

\* What a GETARG fetches.
LEMMA FetchedArgument ==
  ASSUME Ready, NEW i \in Ops, prog[i].code = "getarg"
  PROVE  LET j == prog[i].arg + 1
             arg == ArgReg(ArgsOf(prog, i)[j], j - 1)
         IN  /\ j \in 1 .. Len(ArgsOf(prog, i))
             /\ arg \in Reg /\ ArgOf(prog, i) = arg /\ arg \in live_in[i]
             /\ arg[2] = "ARG" /\ arg # DefOf(prog, i) /\ ~IsOperand(prog, i, arg)
<1> DEFINE args == ArgsOf(prog, i)
           j == prog[i].arg + 1
           arg == ArgReg(args[j], j - 1)
<1>1. ProgOK /\ Ops = 1 .. Len(prog) /\ Flow
  BY ReadyFacts
<1>2. prog[i].arg \in Nat /\ prog[i].arg < Len(args)
  <2>1. prog[i].arg \in Nat
    BY <1>1, OperandsType DEF Operation
  <2>2. QED
    BY <1>1, <2>1 DEF ProgOK, WellFormed, ArgsOf
<1>3. Len(args) \in Nat
  BY ArgRegsAre
<1>4. j \in 1 .. Len(args) /\ j - 1 = prog[i].arg
  <2> HIDE DEF args
  <2>1. QED
    BY <1>2, <1>3
<1>5. arg \in Reg
  BY <1>4, ArgRegsAre
<1>6. Gen(prog, i) = {arg}
  <2>1. prog[i].use = {}
    BY <1>1, MadeRegister
  <2>2. Gen(prog, i) = {ArgReg(args[j], prog[i].arg)}
    BY <2>1 DEF Gen, ArgsOf
  <2>3. QED
    BY <1>4, <2>2
<1>7. ArgOf(prog, i) = arg
  <2> HIDE DEF arg
  <2>1. QED
    BY <1>6 DEF ArgOf
<1>8. arg \in live_in[i]
  <2>1. live_in[i] = (live_out[i] \ Kill(prog, i)) \cup Gen(prog, i)
    BY <1>1 DEF Flow, Solves, InOf
  <2> HIDE DEF arg
  <2>2. QED
    BY <1>6, <2>1
<1>9. arg[2] = "ARG"
  BY DEF ArgReg
<1>10. arg \notin VReg
  <2> HIDE DEF arg
  <2>1. QED
    BY <1>9, AllocAssumption
<1>11. DefOf(prog, i) \in VReg
  BY <1>1, MadeRegister
<1>12. QED
  BY <1>4, <1>5, <1>7, <1>8, <1>9, <1>10, <1>11 DEF IsOperand

\* An argument that a map of the function names has been passed in a register, and is
\* still there.
LEMMA ArgumentStays ==
  ASSUME Ready, NEW i \in Ops, prog[i].code = "getarg",
         NEW j, j = prog[i].arg + 1, NEW arg, arg = ArgReg(ArgsOf(prog, i)[j], j - 1),
         NEW n \in Ops, Together(prog, n, i)
  PROVE  /\ arg \in DOMAIN regmap[n] =>
              PassedByReg(ArgsOf(prog, i), j) /\ regmap[n][arg] = Location(ArgsOf(prog, i), j)
         /\ PassedByReg(ArgsOf(prog, i), j) => Location(ArgsOf(prog, i), j) \in HwReg
<1>1. ProgOK /\ Ops = 1 .. Len(prog) /\ Len(prog) \in Nat /\ Last = Len(prog)
  BY ReadyFacts
<1>2. j \in 1 .. Len(ArgsOf(prog, i)) /\ ~IsOperand(prog, i, arg)
  BY FetchedArgument
<1>3. PICK s \in Ops : prog[s].code = "prolog" /\ ArgsOf(prog, i) = prog[s].args
  BY <1>1, PrologOf
<1>4. Local(prog, i, regmap[n])
  <2>1. Local(prog, n, regmap[n])
    BY <1>1 DEF Ready, MInv, AllLocal
  <2>2. QED
    BY <1>1, <2>1, SameNames
<1>5. arg \in DOMAIN regmap[n] =>
        arg \in DOMAIN ArgMap(prog[s].args) /\ regmap[n][arg] = ArgMap(prog[s].args)[arg]
  BY <1>2, <1>3, <1>4 DEF Local
<1>6. PassedByReg(prog[s].args, j) <=> arg \in DOMAIN ArgMap(prog[s].args)
  BY <1>1, <1>2, <1>3, ArgumentPassed
<1>7. PassedByReg(prog[s].args, j) =>
        /\ ArgMap(prog[s].args)[arg] = Location(prog[s].args, j)
        /\ Location(prog[s].args, j) \in HwReg
  BY <1>2, <1>3, ArgumentPlace
<1>8. QED
  BY <1>3, <1>5, <1>6, <1>7

LEMMA GetArgumentStep ==
  ASSUME Ready, EInv, NEW i \in Ops, GetArgument(i), UNCHANGED alloc
  PROVE  EInv'
<1> DEFINE codes == {"getarg"}
           args == ArgsOf(prog, i)
           j == prog[i].arg + 1
           def == DefOf(prog, i)
           arg == ArgReg(args[j], j - 1)
           value == IF ~PassedByReg(args, j) THEN Argument(j)
                    ELSE IF arg \notin DOMAIN regmap[i] THEN frame[Slot(i, arg)]
                    ELSE hw[Location(args, j)]
           s == SlotsHere(i)
<1>1. /\ Runs(i, codes) /\ run = "running" /\ run' = run /\ frame' = frame
      /\ at' = i + 1 /\ k' = 1 /\ ref' = [ref EXCEPT ![def] = Argument(j)]
      /\ hw' = IF i \in eliminated THEN hw ELSE [hw EXCEPT ![regmap[i][def]] = value]
  BY DEF GetArgument, Goto, Runs, DefOf, Args, ArgsOf
<1>2. "putarg" \notin codes /\ "call" \notin codes
  OBVIOUS
<1> HIDE DEF codes, value
<1>3. /\ prog[i].code \in codes /\ prog[i].code # "prolog"
      /\ i - 1 \in Ops
      /\ DOMAIN hw = HwReg /\ DOMAIN frame = FrameIn(prog, i) /\ DOMAIN ref = Reg
      /\ ArgsHeld(args, ref)
      /\ Walked(prog, eliminated, i) => Home(s, regmap[i], live_in[i], hw, frame, ref)
      /\ moves[i] = <<>> => Home(s, regmap[i - 1], live_in[i], hw, frame, ref)
  BY <1>1, <1>2, OpHere
<1>4. prog[i].code = "getarg" /\ prog[i].code \notin {"ret", "jmp", "prepare", "putarg", "call"}
  BY <1>3 DEF codes
<1>5. prog[i].def = {def} /\ def \in Reg /\ def[2] # "ARG"
  BY <1>4, ReadyFacts, MadeRegister, DefsNotArgs
<1>6. /\ j \in 1 .. Len(args) /\ arg \in Reg /\ ArgOf(prog, i) = arg /\ arg \in live_in[i]
      /\ arg # def
  BY <1>4, FetchedArgument
<1>7. Argument(j) # Undefined
  BY DEF Argument, Undefined
<1>8. PassedByReg(args, j) => ref[arg] = Argument(j)
  BY <1>3, <1>6 DEF ArgsHeld
<1>9. /\ arg \in DOMAIN regmap[i] => PassedByReg(args, j) /\ regmap[i][arg] = Location(args, j)
      /\ arg \in DOMAIN regmap[i - 1] =>
           PassedByReg(args, j) /\ regmap[i - 1][arg] = Location(args, j)
  <2>1. Together(prog, i, i) /\ Together(prog, i - 1, i)
    BY <1>3, ReadyOp DEF Together
  <2>2. QED
    BY <1>3, <1>4, <2>1, ArgumentStays
<1>10. DOMAIN ref' = Reg /\ DOMAIN hw' = HwReg
  BY <1>1, <1>3
<1> HIDE DEF def, arg, j, args
<1>11. Home(s, regmap[i], live_out[i], hw', frame, ref')
  <2>1. CASE i \in eliminated
    <3> DEFINE old == regmap[i - 1]
               rest == live_in[i] \ {def, arg}
               D == {def}
    <3>1. /\ regmap[i] = Assoc(Unassoc(old, {arg}), def, old[arg]) /\ moves[i] = <<>>
          /\ arg \in DOMAIN old \ live_out[i]
      <4>1. OpOK(prog, live_in, live_out, i, regmap[i - 1], regmap[i], moves[i], eliminated \cap {i}, {})
        BY <1>3, ReadyOp
      <4>2. i \in eliminated \cap {i}
        BY <2>1
      <4>3. QED
        BY <1>6, <4>1, <4>2, Zenon DEF OpOK, Still, def
    <3>2. /\ DOMAIN regmap[i] = (DOMAIN old \ {arg}) \cup {def} /\ regmap[i][def] = old[arg]
          /\ \A v \in DOMAIN old : v # def /\ v # arg => regmap[i][v] = old[v]
      <4> HIDE DEF old
      <4>1. QED
        BY <3>1 DEF Assoc, Unassoc, Only
    <3>3. Home(s, old, live_in[i], hw, frame, ref)
      BY <1>3, <3>1
    <3>4. hw[old[arg]] = Argument(j)
      BY <1>6, <1>7, <1>8, <1>9, <3>1, <3>3 DEF Home
    <3> HIDE DEF old
    <3>5. Home(s, regmap[i], rest, hw, frame, ref)
      <4>1. \A v \in rest : /\ v \in live_in[i] /\ (v \in DOMAIN regmap[i] <=> v \in DOMAIN old)
                            /\ v \in DOMAIN old => regmap[i][v] = old[v]
        BY <3>2
      <4> HIDE DEF rest, s
      <4>2. QED
        BY <3>3, <4>1, HomeRest, Zenon
    <3>6. Makes(D, regmap[i], rest, hw, ref, live_out[i], hw', ref')
      <4>1. hw' = hw
        BY <1>1, <2>1
      <4>2. ref'[def] = Argument(j) /\ \A v \in Reg : v # def => ref'[v] = ref[v]
        BY <1>1, <1>3, <1>5
      <4>3. \A v \in live_out[i] : v # def => v \in live_in[i] /\ v \in Reg /\ v # arg
        BY <1>3, <1>5, <3>1, AliveThroughNone, RunnableOK
      <4>4. QED
        BY <3>2, <3>4, <4>1, <4>2, <4>3 DEF Makes
    <3> HIDE DEF rest, D, s
    <3>7. QED
      BY <3>5, <3>6, HomeMade, Zenon
  <2>2. CASE i \notin eliminated
    <3>1. Walked(prog, eliminated, i) /\ OperandsOf(prog, i) \subseteq DOMAIN regmap[i]
      <4>1. prog[i].code \in Ordinary /\ prog[i].code # "prepare"
        BY <1>4 DEF Ordinary
      <4>2. QED
        BY <2>2, <4>1, OrdinaryOp
    <3>2. Home(s, regmap[i], live_in[i], hw, frame, ref)
      BY <1>3, <3>1
    <3>3. def \in DOMAIN regmap[i]
      BY <1>5, <3>1 DEF OperandsOf
    <3>4. value = Argument(j)
      <4>1. CASE PassedByReg(args, j) /\ arg \notin DOMAIN regmap[i]
        <5>1. arg \in DOMAIN s /\ ref[arg] = frame[s[arg]]
          BY <1>6, <1>7, <1>8, <3>2, <4>1 DEF Home
        <5>2. s[arg] = Slot(i, arg)
          BY <5>1, SlotsHereAre
        <5>3. QED
          BY <1>8, <4>1, <5>1, <5>2 DEF value
      <4>2. CASE PassedByReg(args, j) /\ arg \in DOMAIN regmap[i]
        <5>1. ref[arg] = hw[regmap[i][arg]]
          BY <1>6, <1>7, <1>8, <3>2, <4>2 DEF Home
        <5>2. QED
          BY <1>8, <1>9, <4>2, <5>1 DEF value
      <4>3. CASE ~PassedByReg(args, j)
        BY <4>3 DEF value
      <4>4. QED
        BY <4>1, <4>2, <4>3
    <3>5. /\ hw' = [hw EXCEPT ![regmap[i][def]] = Argument(j)]
          /\ ref' = [ref EXCEPT ![def] = Argument(j)]
      BY <1>1, <2>2, <3>4
    <3>6. QED
      BY <1>3, <1>4, <3>2, <3>3, <3>5, HomeWritten DEF def
  <2>3. QED
    BY <2>1, <2>2
<1>12. ArgsHeld(ArgsOf(prog, i), ref')
  <2>1. \A v \in Reg : v[2] = "ARG" => ref'[v] = ref[v]
    BY <1>1, <1>3, <1>5
  <2>2. QED
    BY <1>3, <2>1, ArgsStayHeld DEF args
<1>13. QED
  BY <1>1, <1>3, <1>4, <1>10, <1>11, <1>12, GoesOn, Zenon

-----------------------------------------------------------------------------
(* Calls                                                                   *)

\* A CALL and its PREPARE find each other.
LEMMA CallFound ==
  ASSUME Ready, NEW q \in Ops, NEW c \in Ops, During(prog, q, c), prog[c].code = "call"
  PROVE  CallOf(q) = c /\ CallIn(prog, q) = c /\ PrepareOf(c) = q
<1>1. Ops = 1 .. Len(prog) /\ Len(prog) \in Nat
  BY ReadyFacts
<1>2. /\ q \in 1 .. Len(prog) /\ c \in 1 .. Len(prog) /\ q < c
      /\ prog[q].code = "prepare"
      /\ \A m \in q .. c - 1 : prog[m].code # "call"
      /\ \A m \in q + 1 .. c : prog[m].code # "prepare"
  <2>1. q \in 2 .. c - 1 /\ prog[q].code = "prepare" /\ \A m \in q + 1 .. c - 1 : prog[m].code = "putarg"
    BY DEF During
  <2>2. \A m \in q .. c - 1 : m = q \/ m \in q + 1 .. c - 1
    BY <1>1, <2>1
  <2>3. \A m \in q + 1 .. c : m = c \/ m \in q + 1 .. c - 1
    BY <1>1, <2>1
  <2>4. QED
    BY <1>1, <2>1, <2>2, <2>3
<1> DEFINE Is(x) == prog[x].code = "call" /\ \A m \in q .. x - 1 : prog[m].code # "call"
           Begins(x) == prog[x].code = "prepare" /\ \A m \in x + 1 .. c : prog[m].code # "prepare"
<1>3. c \in q .. Len(prog) /\ Is(c)
  BY <1>2
<1>4. \A x \in q .. Len(prog) : Is(x) => x = c
  <2> SUFFICES ASSUME NEW x \in q .. Len(prog), Is(x) PROVE x = c
    OBVIOUS
  <2>1. ~(x < c)
    BY <1>2
  <2>2. ~(c < x)
    BY <1>1, <1>2
  <2>3. QED
    BY <1>2, <2>1, <2>2
<1>5. q \in 1 .. c /\ Begins(q)
  BY <1>2
<1>6. \A x \in 1 .. c : Begins(x) => x = q
  <2> SUFFICES ASSUME NEW x \in 1 .. c, Begins(x) PROVE x = q
    OBVIOUS
  <2>1. ~(q < x)
    BY <1>2
  <2>2. ~(x < q)
    BY <1>2
  <2>3. QED
    BY <1>2, <2>1, <2>2
<1>7. /\ CallOf(q) = CHOOSE x \in q .. Len(prog) : Is(x)
      /\ CallIn(prog, q) = CHOOSE x \in q .. Len(prog) : Is(x)
      /\ PrepareOf(c) = CHOOSE x \in 1 .. c : Begins(x)
  BY DEF CallOf, CallIn, PrepareOf
<1> HIDE DEF Is, Begins
<1>8. QED
  BY <1>3, <1>4, <1>5, <1>6, <1>7

\* An operation of a call: it makes nothing.
LEMMA CallMakesNone ==
  ASSUME Ready, NEW i \in Ops, prog[i].code \in {"prepare", "putarg", "call"}
  PROVE  live_out[i] \subseteq live_in[i]
<1>1. prog[i].def = {}
  BY ReadyFacts DEF ProgOK, Typed
<1>2. QED
  BY <1>1, AliveThroughNone

\* The call that control is in.
LEMMA InCallHere ==
  ASSUME Ready, EInv, run \in {"running", "calling"}, prog[at].code \in {"putarg", "call"}
  PROVE  /\ InFunction(prog, at, hw, frame, ref)
         /\ InCall(prog, live_in, live_out, regmap, SlotsHere(at), at, k, hw, frame, pushed, ref)
<1>1. ~AtOp(prog, live_in, regmap, moves, eliminated, SlotsHere(at), at, k, hw, frame, result, ref)
  BY DEF AtOp
<1>2. QED
  BY <1>1, Zenon DEF EInv

LEMMA PrepareCallStep ==
  ASSUME Ready, SlotsApart, EInv, NEW i \in Ops, PrepareCall(i), UNCHANGED alloc
  PROVE  EInv'
<1> DEFINE codes == {"prepare"}
           map == regmap[i]
           s == SlotsHere(i)
           push == [h \in PushedIn(prog, live_in, regmap, i) |-> hw[h]]
<1>1. /\ Runs(i, codes) /\ run = "running" /\ run' = run /\ frame' = frame
      /\ at' = i + 1 /\ k' = 1 /\ ref' = ref /\ hw' = hw /\ pushed' = push
  BY DEF PrepareCall, Goto, Runs, PushedIn, CallIn, CallOf
<1>2. "putarg" \notin codes /\ "call" \notin codes
  OBVIOUS
<1> HIDE DEF codes, push
<1>3. /\ prog[i].code \in codes /\ prog[i].code # "prolog" /\ i - 1 \in Ops
      /\ DOMAIN hw = HwReg /\ DOMAIN frame = FrameIn(prog, i) /\ DOMAIN ref = Reg
      /\ ArgsHeld(ArgsOf(prog, i), ref)
      /\ Walked(prog, eliminated, i) => Home(s, map, live_in[i], hw, frame, ref)
      /\ Backed(s, moves[i], Len(moves[i]) + 1, live_in[i], frame, ref)
  BY <1>1, <1>2, OpHere
<1>4. prog[i].code = "prepare" /\ prog[i].code \in Ordinary
  BY <1>3 DEF codes, Ordinary
<1>5. Home(s, map, live_in[i], hw, frame, ref)
  BY <1>3, <1>4, OrdinaryOp
<1>6. /\ i + 1 \in Ops /\ i + 1 \in 2 .. Len(prog) /\ prog[i + 1].code # "prolog"
      /\ (i + 1) - 1 = i
      /\ live_in[i + 1] \subseteq live_out[i]
      /\ SlotsHere(i + 1) = s /\ FrameIn(prog, i + 1) = FrameIn(prog, i)
      /\ ArgsOf(prog, i + 1) = ArgsOf(prog, i)
      /\ prog[i + 1].code \in {"putarg", "call"}
  BY <1>4, NextOp
<1>7. i \in 2 .. Len(prog) /\ i \in Nat /\ i \in 2 .. Last /\ phase = "done"
  BY <1>3, ReadyOp, ReadyFacts DEF Ready
<1>8. live_out[i] \subseteq live_in[i]
  BY <1>4, CallMakesNone
<1>9. ASSUME NEW v \in live_out[i], v \in DOMAIN map, map[v] \in {RetReg, FpRetReg}, ref[v] # Undefined
      PROVE  v \in DOMAIN s /\ ref[v] = frame[s[v]]
  <2>1. SavedHere(i, moves[i], v)
    BY <1>4, <1>7, <1>9 DEF Ready, LInv, ResultsSaved
  <2>2. PICK n \in 1 .. Len(moves[i]) : v \in DOMAIN moves[i][n].save
    BY <1>4, <2>1 DEF SavedHere, Stored
  <2>3. v \in DOMAIN s
    BY <2>2, SlotsFacts
  <2>4. n \in 1 .. (Len(moves[i]) + 1) - 1
    <3>1. Len(moves[i]) \in Nat
      BY ReadyFacts
    <3>2. QED
      BY <3>1
  <2>5. ref[v] = frame[s[v]]
    <3> HIDE DEF s
    <3>1. QED
      BY <1>3, <1>8, <1>9, <2>2, <2>4 DEF Backed
  <2>6. QED
    BY <2>3, <2>5
<1>10. Prepared(s, map, live_out[i], hw, frame, push, ref)
  <2> SUFFICES ASSUME NEW v \in live_out[i], ref[v] # Undefined
               PROVE  /\ v \notin DOMAIN map => v \in DOMAIN s /\ ref[v] = frame[s[v]]
                      /\ v \in DOMAIN map =>
                           /\ map[v] # RetReg => ref[v] = hw[map[v]]
                           /\ map[v] \in {RetReg, FpRetReg} => v \in DOMAIN s /\ ref[v] = frame[s[v]]
                           /\ map[v] \in DOMAIN push => ref[v] = push[map[v]]
    BY Zenon DEF Prepared
  <2>1. \/ v \in DOMAIN map /\ ref[v] = hw[map[v]]
        \/ v \notin DOMAIN map /\ v \in DOMAIN s /\ ref[v] = frame[s[v]]
    BY <1>5, <1>8 DEF Home
  <2>2. \A h \in DOMAIN push : push[h] = hw[h]
    BY DEF push
  <2>3. QED
    BY <1>9, <2>1, <2>2
<1>11. InFunction(prog, i + 1, hw, frame, ref)
  BY <1>3, <1>6, Zenon DEF InFunction
<1>12. InCall(prog, live_in, live_out, regmap, SlotsHere(i + 1), i + 1, 1, hw, frame, push, ref)
  <2>1. During(prog, i, i + 1)
    BY <1>4, <1>6, <1>7 DEF During
  <2>2. \A m \in i + 1 .. i + 1 : live_in[m] \subseteq live_out[i]
    BY <1>6, <1>7
  <2>3. DOMAIN push = PushedIn(prog, live_in, regmap, i)
    BY DEF push
  <2>4. 1 \in 1 .. (i + 1) - i
    BY <1>7
  <2>5. Prepared(SlotsHere(i + 1), regmap[i], live_out[i], hw, frame, push, ref)
    BY <1>6, <1>10, Zenon
  <2>6. regmap[(i + 1) - 1] = regmap[i]
    BY <1>6, Zenon
  <2>7. QED
    BY <2>1, <2>2, <2>3, <2>4, <2>5, <2>6, Zenon DEF InCall
<1>13. InCall(prog, live_in, live_out, regmap, SlotsAt(prog, moves, edge, at'), at', k',
              hw', frame', pushed', ref')
  BY <1>1, <1>12, Zenon DEF SlotsHere
<1>14. run' \in {"running", "calling"} /\ (run' = "calling" => prog[at'].code = "call")
  BY <1>1
<1>15. InFunction(prog, at', hw', frame', ref')
  BY <1>1, <1>11, Zenon
<1>16. QED
  BY <1>7, <1>13, <1>14, <1>15, ArrivesInCall, Zenon

LEMMA PutArgumentStep ==
  ASSUME Ready, EInv, NEW i \in Ops, PutArgument(i), UNCHANGED alloc
  PROVE  EInv'
<1>1. /\ run = "running" /\ run' = run /\ at = i /\ prog[i].code = "putarg"
      /\ frame' = frame /\ at' = i + 1 /\ k' = 1 /\ ref' = ref /\ hw' = hw /\ pushed' = pushed
  BY DEF PutArgument, Goto, Runs
<1>2. /\ InFunction(prog, i, hw, frame, ref)
      /\ InCall(prog, live_in, live_out, regmap, SlotsHere(i), i, k, hw, frame, pushed, ref)
  BY <1>1, InCallHere
<1>3. PICK q : /\ During(prog, q, i)
               /\ regmap[i - 1] = regmap[q]
               /\ \A m \in q + 1 .. i : live_in[m] \subseteq live_out[q]
               /\ Prepared(SlotsHere(i), regmap[q], live_out[q], hw, frame, pushed, ref)
               /\ DOMAIN pushed = PushedIn(prog, live_in, regmap, q)
  BY <1>2, Zenon DEF InCall
<1>4. /\ i + 1 \in Ops /\ i + 1 \in 2 .. Len(prog) /\ prog[i + 1].code # "prolog"
      /\ (i + 1) - 1 = i
      /\ live_in[i + 1] \subseteq live_out[i]
      /\ SlotsHere(i + 1) = SlotsHere(i) /\ FrameIn(prog, i + 1) = FrameIn(prog, i)
      /\ ArgsOf(prog, i + 1) = ArgsOf(prog, i)
      /\ prog[i + 1].code \in {"putarg", "call"}
  BY <1>1, NextOp
<1>5. /\ i \in Nat /\ q \in 2 .. i - 1 /\ prog[q].code = "prepare"
      /\ \A m \in q + 1 .. i - 1 : prog[m].code = "putarg"
  BY <1>2, <1>3, InFunctionFacts DEF During
<1>6. regmap[i] = regmap[q]
  <2>1. OpOK(prog, live_in, live_out, i, regmap[i - 1], regmap[i], moves[i], eliminated \cap {i}, {})
    BY <1>1, ReadyOp
  <2>2. regmap[i] = regmap[i - 1]
    BY <1>1, <2>1, Zenon DEF OpOK, Still
  <2>3. QED
    BY <1>3, <2>2
<1>7. During(prog, q, i + 1)
  BY <1>1, <1>4, <1>5 DEF During
<1>8. \A m \in q + 1 .. i + 1 : live_in[m] \subseteq live_out[q]
  <2>1. live_in[i + 1] \subseteq live_in[i]
    BY <1>1, <1>4, CallMakesNone
  <2>2. live_in[i] \subseteq live_out[q]
    BY <1>3, <1>5
  <2>3. \A m \in q + 1 .. i + 1 : m = i + 1 \/ m \in q + 1 .. i
    BY <1>5
  <2>4. QED
    BY <1>3, <2>1, <2>2, <2>3
<1>9. 1 \in 1 .. (i + 1) - q
  BY <1>5
<1>10. InCall(prog, live_in, live_out, regmap, SlotsHere(i + 1), i + 1, 1, hw, frame, pushed, ref)
  <2>1. Prepared(SlotsHere(i + 1), regmap[q], live_out[q], hw, frame, pushed, ref)
    BY <1>3, <1>4, Zenon
  <2>2. regmap[(i + 1) - 1] = regmap[q]
    BY <1>4, <1>6, Zenon
  <2>3. QED
    BY <1>3, <1>7, <1>8, <1>9, <2>1, <2>2, Zenon DEF InCall
<1>11. InFunction(prog, i + 1, hw, frame, ref)
  BY <1>2, <1>4, Zenon DEF InFunction
<1>12. InCall(prog, live_in, live_out, regmap, SlotsAt(prog, moves, edge, at'), at', k',
              hw', frame', pushed', ref')
  BY <1>1, <1>10, Zenon DEF SlotsHere
<1>13. run' \in {"running", "calling"} /\ (run' = "calling" => prog[at'].code = "call")
  BY <1>1
<1>14. InFunction(prog, at', hw', frame', ref')
  BY <1>1, <1>11, Zenon
<1>15. phase = "done"
  BY DEF Ready
<1>16. QED
  BY <1>12, <1>13, <1>14, <1>15, ArrivesInCall, Zenon

\* The place that a PUTARG's value is passed in: one of those for its type.
OutPlaced(q, c, n, type, x) ==
  /\ type \in {"INT", "FLOAT"} /\ prog[n].args = <<type>> /\ n \in Putargs(q, type)
  /\ x = Cardinality({m \in Putargs(q, type) : m <= n})
  /\ x \in Nat /\ 1 <= x /\ x <= Cardinality(Putargs(q, type))
  /\ IsFiniteSet(Putargs(q, type)) /\ Cardinality(Putargs(q, type)) \in Nat
  /\ Cardinality(Putargs(q, type)) <= Len(ArgRegs(type))
  /\ OutReg(c, n) = ArgRegs(type)[x]

LEMMA OutPlace ==
  ASSUME Ready, NEW q \in Ops, NEW c \in Ops, During(prog, q, c), prog[c].code = "call",
         NEW n \in q .. c, prog[n].code = "putarg"
  PROVE  \E type, x : OutPlaced(q, c, n, type, x)
<1>1. CallOf(q) = c /\ PrepareOf(c) = q
  BY CallFound
<1>2. Ops = 1 .. Len(prog) /\ Len(prog) \in Nat /\ ProgOK /\ q \in Nat /\ c \in Nat /\ c <= Len(prog)
  BY ReadyFacts
<1>3. PICK type \in {"INT", "FLOAT"} : prog[n].args = <<type>>
  <2>1. n \in 1 .. Len(prog)
    BY <1>2
  <2>2. QED
    BY <1>2, <2>1 DEF ProgOK, Typed
<1>4. prog[n].args[1] = type
  BY <1>3
<1> DEFINE P == Putargs(q, type)
           S == {m \in P : m <= n}
           x == Cardinality(S)
           regs == ArgRegs(type)
<1>5. OutReg(c, n) = regs[x]
  BY <1>1, <1>4 DEF OutReg
<1>6. P \in SUBSET (q .. c) /\ IsFiniteSet(P) /\ n \in P /\ \A m \in P : m \in Nat
  <2>1. P \in SUBSET (q .. c) /\ n \in P
    BY <1>1, <1>3 DEF Putargs
  <2>2. IsFiniteSet(q .. c)
    BY <1>2, FS_Interval
  <2>3. IsFiniteSet(P)
    BY <2>1, <2>2, FS_Subset
  <2>4. QED
    BY <1>2, <2>1, <2>3
<1>7. Cardinality(P) <= Len(regs)
  <2> DEFINE Q == PassesBefore(prog, q, type)
  <2>1. P \subseteq Q
    <3> SUFFICES ASSUME NEW m \in P PROVE m \in Q
      OBVIOUS
    <3>1. m \in q .. c /\ prog[m].code = "putarg" /\ prog[m].args = <<type>>
      BY <1>1 DEF Putargs
    <3>2. \A l \in q .. m : prog[l].code # "call"
      <4>1. /\ q \in 2 .. c - 1 /\ prog[q].code = "prepare"
            /\ \A l \in q + 1 .. c - 1 : prog[l].code = "putarg"
        BY DEF During
      <4>2. m # c
        BY <3>1
      <4>3. \A l \in q .. m : l = q \/ l \in q + 1 .. c - 1
        BY <1>2, <3>1, <4>2
      <4>4. QED
        BY <4>1, <4>3
    <3>3. m \in q .. Len(prog)
      BY <1>2, <3>1
    <3>4. QED
      BY <3>1, <3>2, <3>3 DEF PassesBefore
  <2>2. Q \in SUBSET (q .. Len(prog))
    BY DEF PassesBefore
  <2>3. IsFiniteSet(q .. Len(prog))
    BY <1>2, FS_Interval
  <2>4. Cardinality(Q) <= Len(regs)
    <3>1. prog[q].code = "prepare"
      BY DEF During
    <3>2. QED
      BY <1>2, <3>1, RunnableOK DEF Runnable
  <2> HIDE DEF P, Q, regs
  <2>5. IsFiniteSet(Q)
    BY <2>2, <2>3, FS_Subset
  <2>6. Cardinality(P) <= Cardinality(Q) /\ Cardinality(P) \in Nat /\ Cardinality(Q) \in Nat
    BY <1>6, <2>1, <2>5, FS_Subset, FS_CardinalityType
  <2>7. Len(regs) \in Nat
    BY <1>3, AllocAssumption DEF regs, ArgRegs
  <2>8. QED
    BY <2>4, <2>6, <2>7
<1>8. x \in Nat /\ 1 <= x /\ x <= Cardinality(P) /\ Cardinality(P) \in Nat
  <2>1. S \subseteq P /\ n \in S
    BY <1>6
  <2> HIDE DEF P, S
  <2>2. IsFiniteSet(S) /\ x \in Nat /\ x <= Cardinality(P) /\ Cardinality(P) \in Nat
    BY <1>6, <2>1, FS_Subset, FS_CardinalityType
  <2>3. x # 0
    BY <2>1, <2>2, FS_EmptySet
  <2>4. QED
    BY <2>2, <2>3
<1>9. x = Cardinality({m \in Putargs(q, type) : m <= n}) /\ regs = ArgRegs(type)
  OBVIOUS
<1> HIDE DEF x, S, regs
<1>10. n \in P /\ IsFiniteSet(P)
  BY <1>6
<1>11. OutPlaced(q, c, n, type, x)
  BY <1>3, <1>5, <1>7, <1>8, <1>9, <1>10 DEF OutPlaced
<1>12. QED
  BY <1>11

\* It is one of those that the PREPARE has made free.
LEMMA OutRegGiven ==
  ASSUME Ready, NEW q \in Ops, NEW c \in Ops, During(prog, q, c), prog[c].code = "call",
         NEW n \in q .. c, prog[n].code = "putarg"
  PROVE  /\ OutReg(c, n) \in GivenOf(prog, q) /\ OutReg(c, n) \in HwReg
         /\ OutReg(c, n) # RetReg
<1>1. PICK type, x : OutPlaced(q, c, n, type, x)
  BY OutPlace
<1> DEFINE P == Putargs(q, type)
           regs == ArgRegs(type)
<1>2. /\ type \in {"INT", "FLOAT"} /\ OutReg(c, n) = regs[x]
      /\ x \in Nat /\ 1 <= x /\ x <= Cardinality(P) /\ Cardinality(P) \in Nat
      /\ Cardinality(P) <= Len(regs)
  BY <1>1 DEF OutPlaced
<1> HIDE DEF P
<1>3. CASE type = "INT"
  <2>1. regs = GpArgs /\ x \in 1 .. Len(GpArgs) /\ Len(GpArgs) = GpArgRegs
    BY <1>2, <1>3, AllocAssumption DEF ArgRegs
  <2>2. GpArgs[x] \in FirstArgs(GpArgs, Cardinality(P))
    BY <1>2, <2>1 DEF FirstArgs
  <2>3. GpArgs[x] \in GivenOf(prog, q)
    BY <1>3, <2>2, GivenAt DEF P
  <2>4. GpArgs[x] # RetReg /\ GpArgs[x] \in GpRegs
    BY <2>1, AllocAssumption
  <2>5. QED
    BY <1>2, <2>1, <2>3, <2>4 DEF HwReg
<1>4. CASE type = "FLOAT"
  <2>1. regs = FpArgs /\ x \in 1 .. Len(FpArgs) /\ Len(FpArgs) = FpArgRegs
    BY <1>2, <1>4, AllocAssumption DEF ArgRegs
  <2>2. FpArgs[x] \in FirstArgs(FpArgs, Cardinality(P))
    BY <1>2, <2>1 DEF FirstArgs
  <2>3. FpArgs[x] \in GivenOf(prog, q)
    BY <1>4, <2>2, GivenAt DEF P
  <2>4. FpArgs[x] # RetReg /\ FpArgs[x] \in FpRegs
    BY <2>1, AllocAssumption
  <2>5. QED
    BY <1>2, <2>1, <2>3, <2>4 DEF HwReg
<1>5. QED
  BY <1>2, <1>3, <1>4

\* No two arguments of a call are passed in the same register.
LEMMA OutsApart ==
  ASSUME Ready, NEW q \in Ops, NEW c \in Ops, During(prog, q, c), prog[c].code = "call",
         NEW n \in q .. c, prog[n].code = "putarg",
         NEW m \in q .. c, prog[m].code = "putarg", n < m
  PROVE  OutReg(c, n) # OutReg(c, m)
<1>1. PICK t, x : OutPlaced(q, c, n, t, x)
  BY OutPlace
<1>2. PICK u, y : OutPlaced(q, c, m, u, y)
  BY OutPlace
<1>3. /\ t \in {"INT", "FLOAT"} /\ u \in {"INT", "FLOAT"}
      /\ x \in Nat /\ y \in Nat /\ 1 <= x /\ 1 <= y
      /\ Len(ArgRegs(t)) \in Nat /\ x <= Len(ArgRegs(t))
      /\ Len(ArgRegs(u)) \in Nat /\ y <= Len(ArgRegs(u))
      /\ OutReg(c, n) = ArgRegs(t)[x] /\ OutReg(c, m) = ArgRegs(u)[y]
  <2>1. Len(ArgRegs("INT")) \in Nat /\ Len(ArgRegs("FLOAT")) \in Nat
    BY AllocAssumption DEF ArgRegs
  <2>2. QED
    BY <1>1, <1>2, <2>1 DEF OutPlaced
<1>4. ArgRegs("INT") = GpArgs /\ ArgRegs("FLOAT") = FpArgs
  BY DEF ArgRegs
<1>5. CASE t # u
  <2>1. /\ GpArgs \in Seq(GpRegs) /\ FpArgs \in Seq(FpRegs) /\ GpRegs \cap FpRegs = {}
    BY AllocAssumption
  <2>2. CASE t = "INT" /\ u = "FLOAT"
    <3>1. x \in 1 .. Len(GpArgs) /\ y \in 1 .. Len(FpArgs)
      BY <1>3, <1>4, <2>2
    <3>2. GpArgs[x] \in GpRegs /\ FpArgs[y] \in FpRegs
      BY <2>1, <3>1
    <3>3. QED
      BY <1>3, <1>4, <2>1, <2>2, <3>2
  <2>3. CASE t = "FLOAT" /\ u = "INT"
    <3>1. y \in 1 .. Len(GpArgs) /\ x \in 1 .. Len(FpArgs)
      BY <1>3, <1>4, <2>3
    <3>2. GpArgs[y] \in GpRegs /\ FpArgs[x] \in FpRegs
      BY <2>1, <3>1
    <3>3. QED
      BY <1>3, <1>4, <2>1, <2>3, <3>2
  <2>4. QED
    BY <1>3, <1>5, <2>2, <2>3
<1>6. CASE t = u
  <2> DEFINE P == Putargs(q, t)
             S == {l \in P : l <= n}
             T == {l \in P : l <= m}
  <2>1. IsFiniteSet(P) /\ m \in P /\ x = Cardinality(S) /\ y = Cardinality(T)
    BY <1>1, <1>2, <1>6 DEF OutPlaced
  <2>2. q \in Nat /\ c \in Nat /\ n \in Nat /\ m \in Nat /\ \A l \in P : l \in Nat
    <3>1. q \in Nat /\ c \in Nat
      BY ReadyFacts
    <3>2. P \subseteq q .. CallOf(q) /\ CallOf(q) = c
      BY CallFound DEF Putargs
    <3>3. QED
      BY <3>1, <3>2
  <2> HIDE DEF P
  <2>3. S \subseteq T /\ T \subseteq P /\ m \in T /\ m \notin S
    <3>1. \A l \in P : l <= n => l <= m
      BY <2>2
    <3>2. ~(m <= n) /\ m <= m
      BY <2>2
    <3>3. QED
      BY <2>1, <3>1, <3>2
  <2> HIDE DEF S, T
  <2>4. IsFiniteSet(T)
    BY <2>1, <2>3, FS_Subset
  <2>5. Cardinality(S) < Cardinality(T)
    <3>1. S # T
      BY <2>3
    <3>2. IsFiniteSet(S) /\ Cardinality(S) <= Cardinality(T) /\ (Cardinality(S) = Cardinality(T) => S = T)
      BY <2>3, <2>4, FS_Subset
    <3>3. Cardinality(S) \in Nat /\ Cardinality(T) \in Nat
      BY <2>4, <3>2, FS_CardinalityType
    <3>4. QED
      BY <3>1, <3>2, <3>3
  <2>6. x # y
    BY <1>3, <2>1, <2>5
  <2>7. CASE t = "INT"
    <3>1. x \in 1 .. GpArgRegs /\ y \in 1 .. GpArgRegs
      BY <1>3, <1>4, <1>6, <2>7, AllocAssumption
    <3>2. QED
      BY <1>3, <1>4, <1>6, <2>6, <2>7, <3>1, AllocAssumption
  <2>8. CASE t = "FLOAT"
    <3>1. x \in 1 .. FpArgRegs /\ y \in 1 .. FpArgRegs
      BY <1>3, <1>4, <1>6, <2>8, AllocAssumption
    <3>2. QED
      BY <1>3, <1>4, <1>6, <2>6, <2>8, <3>1, AllocAssumption
  <2>9. QED
    BY <1>3, <2>7, <2>8
<1>7. QED
  BY <1>5, <1>6

\* The CALL that control is at, and its PREPARE.
LEMMA AtCall ==
  ASSUME Ready, EInv, run \in {"running", "calling"}, prog[at].code = "call"
  PROVE  /\ at \in Ops /\ at \in Nat /\ InFunction(prog, at, hw, frame, ref)
         /\ \E q \in Ops :
              /\ During(prog, q, at)
              /\ regmap[at - 1] = regmap[q]
              /\ \A m \in q + 1 .. at : live_in[m] \subseteq live_out[q]
              /\ Prepared(SlotsHere(at), regmap[q], live_out[q], hw, frame, pushed, ref)
              /\ DOMAIN pushed = PushedIn(prog, live_in, regmap, q)
              /\ k \in 1 .. at - q
<1>1. /\ InFunction(prog, at, hw, frame, ref)
      /\ InCall(prog, live_in, live_out, regmap, SlotsHere(at), at, k, hw, frame, pushed, ref)
  BY InCallHere
<1>2. at \in Ops /\ at \in Nat /\ Ops = 1 .. Len(prog) /\ Len(prog) \in Nat
  BY <1>1, InFunctionFacts, ReadyFacts
<1>3. PICK q : /\ During(prog, q, at)
               /\ regmap[at - 1] = regmap[q]
               /\ \A m \in q + 1 .. at : live_in[m] \subseteq live_out[q]
               /\ Prepared(SlotsHere(at), regmap[q], live_out[q], hw, frame, pushed, ref)
               /\ DOMAIN pushed = PushedIn(prog, live_in, regmap, q)
               /\ IF prog[at].code = "putarg" THEN k = 1 ELSE k \in 1 .. at - q
  BY <1>1, Zenon DEF InCall
<1>4. q \in Ops
  BY <1>2, <1>3 DEF During
<1>5. k \in 1 .. at - q
  BY <1>3
<1>6. QED
  BY <1>1, <1>2, <1>3, <1>4, <1>5, Zenon

\* The call goes on, with every value that it leaves alone where it was.
LEMMA CallGoesOn ==
  ASSUME Ready, UNCHANGED alloc, prog[at].code = "call", NEW q,
         InFunction(prog, at, hw, frame, ref), During(prog, q, at), regmap[at - 1] = regmap[q],
         \A m \in q + 1 .. at : live_in[m] \subseteq live_out[q],
         Prepared(SlotsHere(at), regmap[q], live_out[q], hw, frame, pushed, ref),
         DOMAIN pushed = PushedIn(prog, live_in, regmap, q),
         run' \in {"running", "calling"}, at' = at, frame' = frame, pushed' = pushed, ref' = ref,
         k' \in 1 .. at - q, DOMAIN hw' = HwReg,
         \A v \in live_out[q] \cap DOMAIN regmap[q] :
           regmap[q][v] # RetReg => hw'[regmap[q][v]] = hw[regmap[q][v]]
  PROVE  EInv'
<1>1. Prepared(SlotsHere(at), regmap[q], live_out[q], hw', frame', pushed', ref')
  <2> SUFFICES ASSUME NEW v \in live_out[q], ref[v] # Undefined
               PROVE  /\ v \notin DOMAIN regmap[q] =>
                           v \in DOMAIN SlotsHere(at) /\ ref[v] = frame[SlotsHere(at)[v]]
                      /\ v \in DOMAIN regmap[q] =>
                           /\ regmap[q][v] # RetReg => ref[v] = hw'[regmap[q][v]]
                           /\ regmap[q][v] \in {RetReg, FpRetReg} =>
                                v \in DOMAIN SlotsHere(at) /\ ref[v] = frame[SlotsHere(at)[v]]
                           /\ regmap[q][v] \in DOMAIN pushed => ref[v] = pushed[regmap[q][v]]
    BY Zenon DEF Prepared
  <2>1. /\ v \notin DOMAIN regmap[q] =>
                v \in DOMAIN SlotsHere(at) /\ ref[v] = frame[SlotsHere(at)[v]]
        /\ v \in DOMAIN regmap[q] =>
             /\ regmap[q][v] # RetReg => ref[v] = hw[regmap[q][v]]
             /\ regmap[q][v] \in {RetReg, FpRetReg} =>
                  v \in DOMAIN SlotsHere(at) /\ ref[v] = frame[SlotsHere(at)[v]]
             /\ regmap[q][v] \in DOMAIN pushed => ref[v] = pushed[regmap[q][v]]
    BY Zenon DEF Prepared
  <2>2. v \in DOMAIN regmap[q] /\ regmap[q][v] # RetReg => hw'[regmap[q][v]] = hw[regmap[q][v]]
    OBVIOUS
  <2>3. QED
    BY <2>1, <2>2, Zenon
<1>2. InFunction(prog, at', hw', frame', ref')
  BY Zenon DEF InFunction
<1>3. InCall(prog, live_in, live_out, regmap, SlotsHere(at), at, k', hw', frame', pushed', ref')
  <2>1. IF prog[at].code = "putarg" THEN k' = 1 ELSE k' \in 1 .. at - q
    OBVIOUS
  <2>2. DOMAIN pushed' = PushedIn(prog, live_in, regmap, q)
    BY Zenon
  <2>3. QED
    BY <1>1, <2>1, <2>2, Zenon DEF InCall
<1>4. InCall(prog, live_in, live_out, regmap, SlotsAt(prog, moves, edge, at'), at', k',
             hw', frame', pushed', ref')
  BY <1>3, Zenon DEF SlotsHere
<1>5. phase = "done"
  BY DEF Ready
<1>6. run' = "calling" => prog[at'].code = "call"
  OBVIOUS
<1>7. QED
  BY <1>2, <1>4, <1>5, <1>6, ArrivesInCall, Zenon

LEMMA PassArgumentStep ==
  ASSUME Ready, EInv, NEW i \in Ops, PassArgument(i), UNCHANGED alloc
  PROVE  EInv'
<1> DEFINE n == i - k
<1>1. /\ run = "running" /\ run' = run /\ at = i /\ at' = at /\ prog[at].code = "call"
      /\ prog[n].code = "putarg" /\ k' = k + 1
      /\ frame' = frame /\ pushed' = pushed /\ ref' = ref
  BY DEF PassArgument
<1>2. /\ at \in Ops /\ at \in Nat /\ InFunction(prog, at, hw, frame, ref)
  BY <1>1, AtCall
<1>3. PICK q \in Ops :
        /\ During(prog, q, at)
        /\ regmap[at - 1] = regmap[q]
        /\ \A m \in q + 1 .. at : live_in[m] \subseteq live_out[q]
        /\ Prepared(SlotsHere(at), regmap[q], live_out[q], hw, frame, pushed, ref)
        /\ DOMAIN pushed = PushedIn(prog, live_in, regmap, q)
        /\ k \in 1 .. at - q
  BY <1>1, AtCall
<1>4. q \in Nat /\ prog[q].code = "prepare"
  BY <1>2, <1>3 DEF During
<1>5. n \in q .. at /\ k' \in 1 .. at - q
  <2>1. k \in Nat /\ k >= 1 /\ k <= at - q /\ n = at - k
    BY <1>1, <1>2, <1>3, <1>4
  <2>2. n # q
    BY <1>1, <1>4
  <2>3. QED
    BY <1>1, <1>2, <1>4, <2>1, <2>2
<1>6. OutReg(at, n) \in GivenOf(prog, q)
  BY <1>1, <1>2, <1>3, <1>5, OutRegGiven
<1>7. DOMAIN hw = HwReg
  BY <1>2, InFunctionFacts
<1>8. DOMAIN hw' = HwReg /\ \A h \in HwReg : h # OutReg(at, n) /\ h # RetReg => hw'[h] = hw[h]
  <2>1. CASE hw' = [h \in HwReg |->
                     IF h = OutReg(at, n) THEN Constant(n)
                     ELSE IF h = RetReg /\ prog[n].args = <<"FLOAT">> THEN Constant(n) ELSE hw[h]]
    BY <2>1
  <2>2. CASE \E x : hw' = [hw EXCEPT ![OutReg(at, n)] = x]
    BY <1>7, <2>2
  <2>3. QED
    BY <1>1, <2>1, <2>2 DEF PassArgument
<1>9. In(regmap[q], GivenOf(prog, q)) = {} /\ regmap[q] \in RegMaps
  <2>1. prog[q].code \in Ordinary /\ prog[q].code # "getarg"
    BY <1>4 DEF Ordinary
  <2>2. QED
    BY <1>4, <2>1, OrdinaryOp, ReadyFacts
<1>10. \A v \in live_out[q] \cap DOMAIN regmap[q] :
         regmap[q][v] # RetReg => hw'[regmap[q][v]] = hw[regmap[q][v]]
  <2> SUFFICES ASSUME NEW v \in DOMAIN regmap[q], regmap[q][v] # RetReg
               PROVE  hw'[regmap[q][v]] = hw[regmap[q][v]]
    OBVIOUS
  <2>1. regmap[q][v] \in HwReg
    BY <1>9, IsMap
  <2>2. regmap[q][v] \notin GivenOf(prog, q)
    BY <1>9 DEF In
  <2>3. QED
    BY <1>6, <1>8, <2>1, <2>2
<1>11. run' \in {"running", "calling"}
  BY <1>1
<1>12. QED
  BY <1>1, <1>2, <1>3, <1>5, <1>8, <1>10, <1>11, CallGoesOn

LEMMA TransferStep ==
  ASSUME Ready, EInv, NEW i \in Ops, Transfer(i), UNCHANGED alloc
  PROVE  EInv'
<1>1. /\ run = "running" /\ run' = "calling" /\ at' = at /\ prog[at].code = "call" /\ k' = k
      /\ hw' = [hw EXCEPT ![RetReg] = Junk]
      /\ frame' = frame /\ pushed' = pushed /\ ref' = ref
  BY DEF Transfer
<1>2. /\ at \in Ops /\ at \in Nat /\ InFunction(prog, at, hw, frame, ref)
  BY <1>1, AtCall
<1>3. PICK q \in Ops :
        /\ During(prog, q, at)
        /\ regmap[at - 1] = regmap[q]
        /\ \A m \in q + 1 .. at : live_in[m] \subseteq live_out[q]
        /\ Prepared(SlotsHere(at), regmap[q], live_out[q], hw, frame, pushed, ref)
        /\ DOMAIN pushed = PushedIn(prog, live_in, regmap, q)
        /\ k \in 1 .. at - q
  BY <1>1, AtCall
<1>4. DOMAIN hw = HwReg
  BY <1>2, InFunctionFacts
<1>5. DOMAIN hw' = HwReg /\ \A h : h # RetReg => hw'[h] = hw[h]
  BY <1>1, <1>4
<1>6. k' \in 1 .. at - q /\ run' \in {"running", "calling"}
  BY <1>1, <1>3
<1>7. QED
  BY <1>1, <1>2, <1>3, <1>5, <1>6, CallGoesOn

LEMMA ReturnFromCallStep ==
  ASSUME Ready, EInv, ReturnFromCall, UNCHANGED alloc
  PROVE  EInv'
<1> DEFINE s == SlotsHere(at)
           new == regmap[at]
<1>1. /\ run = "calling" /\ run' = "running" /\ at' = at + 1 /\ k' = 1
      /\ frame' = frame /\ ref' = ref
      /\ hw' = [h \in HwReg |-> IF h \in DOMAIN pushed THEN pushed[h]
                                ELSE IF h \in CalleeSaved THEN hw[h]
                                ELSE IF h \in {RetReg, FpRetReg} THEN result' ELSE Junk]
  BY DEF ReturnFromCall, Goto
<1>2. prog[at].code = "call"
  <2>1. run # "running"
    BY <1>1
  <2>2. QED
    BY <1>1, <2>1 DEF EInv
<1>3. at \in Ops /\ at \in Nat /\ InFunction(prog, at, hw, frame, ref)
  BY <1>1, <1>2, AtCall
<1>4. PICK q \in Ops :
        /\ During(prog, q, at)
        /\ regmap[at - 1] = regmap[q]
        /\ \A m \in q + 1 .. at : live_in[m] \subseteq live_out[q]
        /\ Prepared(s, regmap[q], live_out[q], hw, frame, pushed, ref)
        /\ DOMAIN pushed = PushedIn(prog, live_in, regmap, q)
  BY <1>1, <1>2, AtCall
<1> DEFINE map == regmap[q]
<1>5. CallIn(prog, q) = at
  BY <1>2, <1>3, <1>4, CallFound
<1>6. DOMAIN pushed = {new[v] : v \in DOMAIN new \cap live_in[at]} \ (CalleeSaved \cup {RetReg, FpRetReg})
  BY <1>4, <1>5 DEF PushedIn
<1>7. new = Unassoc(map, In(map, {RetReg, FpRetReg}))
  <2>1. OpOK(prog, live_in, live_out, at, regmap[at - 1], regmap[at], moves[at], eliminated \cap {at}, {})
    BY <1>2, <1>3, ReadyOp
  <2>2. QED
    BY <1>2, <1>4, <2>1, Zenon DEF OpOK, Still
<1>8. map \in RegMaps
  BY <1>4, ReadyFacts
<1>9. live_out[at] \subseteq live_in[at] /\ live_in[at] \subseteq live_out[q]
  <2>1. at \in q + 1 .. at
    BY <1>3, <1>4 DEF During
  <2>2. QED
    BY <1>2, <1>3, <1>4, <2>1, CallMakesNone
<1> HIDE DEF new, map, s
<1>10. /\ \A v \in DOMAIN map : v \in DOMAIN new <=> map[v] \notin {RetReg, FpRetReg}
       /\ \A v \in DOMAIN new : v \in DOMAIN map /\ new[v] = map[v] /\ new[v] \in HwReg
  <2>1. \A v : v \in DOMAIN new <=> v \in DOMAIN map /\ map[v] \notin {RetReg, FpRetReg}
    BY <1>7 DEF Unassoc, Only, In
  <2>2. \A v \in DOMAIN new : new[v] = map[v]
    BY <1>7 DEF Unassoc, Only
  <2>3. \A v \in DOMAIN map : map[v] \in HwReg
    BY <1>8, IsMap
  <2>4. QED
    BY <2>1, <2>2, <2>3
<1>11. Home(s, new, live_out[at], hw', frame', ref')
  <2> SUFFICES ASSUME NEW v \in live_out[at], ref[v] # Undefined
               PROVE  \/ v \in DOMAIN new /\ ref[v] = hw'[new[v]]
                      \/ v \notin DOMAIN new /\ v \in DOMAIN s /\ ref[v] = frame[s[v]]
    BY <1>1, Zenon DEF Home
  <2>1. v \in live_in[at] /\ v \in live_out[q]
    BY <1>9
  <2>2. /\ v \notin DOMAIN map => v \in DOMAIN s /\ ref[v] = frame[s[v]]
        /\ v \in DOMAIN map =>
             /\ map[v] # RetReg => ref[v] = hw[map[v]]
             /\ map[v] \in {RetReg, FpRetReg} => v \in DOMAIN s /\ ref[v] = frame[s[v]]
             /\ map[v] \in DOMAIN pushed => ref[v] = pushed[map[v]]
    <3>1. Prepared(s, map, live_out[q], hw, frame, pushed, ref)
      BY <1>4, Zenon DEF map
    <3>2. QED
      BY <2>1, <3>1, Zenon DEF Prepared
  <2>3. CASE v \notin DOMAIN new
    BY <1>10, <2>2, <2>3
  <2>4. CASE v \in DOMAIN new
    <3> DEFINE h == new[v]
    <3>1. /\ v \in DOMAIN map /\ h = map[v] /\ h \in HwReg /\ h # RetReg /\ h # FpRetReg
      BY <1>10, <2>4
    <3>2. h \in DOMAIN pushed \/ h \in CalleeSaved
      BY <1>6, <2>1, <2>4, <3>1
    <3> HIDE DEF h
    <3>3. hw'[h] = ref[v]
      BY <1>1, <2>2, <3>1, <3>2
    <3>4. QED
      BY <2>4, <3>3 DEF h
  <2>5. QED
    BY <2>3, <2>4
<1>12. hw'[RetReg] = result' /\ hw'[FpRetReg] = result'
  <2>1. /\ RetReg \in HwReg /\ FpRetReg \in HwReg
        /\ RetReg \notin CalleeSaved /\ FpRetReg \notin CalleeSaved
    BY Hardware
  <2>2. RetReg \notin DOMAIN pushed /\ FpRetReg \notin DOMAIN pushed
    BY <1>6
  <2>3. QED
    BY <1>1, <2>1, <2>2
<1>13. /\ DOMAIN hw' = HwReg /\ DOMAIN frame' = FrameIn(prog, at) /\ DOMAIN ref' = Reg
       /\ ArgsHeld(ArgsOf(prog, at), ref')
  BY <1>1, <1>3, InFunctionFacts
<1>14. Home(SlotsHere(at), regmap[at], live_out[at], hw', frame', ref')
  BY <1>11 DEF s, new
<1>15. prog[at].code \notin {"ret", "jmp", "prepare", "putarg"}
  BY <1>2
<1>16. QED
  BY <1>1, <1>3, <1>12, <1>13, <1>14, <1>15, GoesOn, Zenon

-----------------------------------------------------------------------------
(* The invariant holds                                                     *)

\* There is code to run only when the allocator is done, and then it steps no more.
LEMMA ExecutesWhenDone ==
  ASSUME EInv, Execute
  PROVE  phase = "done"
<1>1. ASSUME NEW i \in Ops, CallFunction(i) PROVE phase = "done"
  BY <1>1 DEF CallFunction, CodeGenerated
<1>2. run \in {"running", "calling"} => phase = "done"
  BY DEF EInv
<1>3. CASE Move
  BY <1>2, <1>3 DEF Move
<1>4. CASE ReturnFromCall
  BY <1>2, <1>4 DEF ReturnFromCall
<1>5. ASSUME NEW i \in Ops,
             \/ Compute(i) \/ GetArgument(i) \/ PrepareCall(i) \/ PutArgument(i)
             \/ PassArgument(i) \/ Transfer(i) \/ ReadResult(i) \/ Jump(i)
             \/ FallThrough(i) \/ Return(i)
      PROVE  phase = "done"
  <2>1. run = "running"
    BY <1>5 DEF Compute, GetArgument, PrepareCall, PutArgument, PassArgument, Transfer,
                ReadResult, Jump, FallThrough, Return, Runs
  <2>2. QED
    BY <1>2, <2>1
<1>6. QED
  BY <1>1, <1>3, <1>4, <1>5, Zenon DEF Execute

LEMMA DoneIsLast ==
  ASSUME IInv, Next
  PROVE  phase # "done"
<1>1. todo # {} => phase = "assign"
  BY DEF IInv, Calls
<1>2. ASSUME NEW i \in Ops,
             \/ Prolog(i) \/ Plain(i) \/ Putarg(i) \/ Getarg(i) \/ Prepare(i) \/ Call(i) \/ Retval(i)
      PROVE  phase = "assign"
  BY <1>2 DEF Prolog, Plain, Putarg, Getarg, Prepare, Call, Retval, Start
<1>3. QED
  BY <1>1, <1>2 DEF Next, KeepRegister, TakeRegister, AssignDone, AdjustBranches, AdjustJumps

LEMMA ExecuteKeeps ==
  ASSUME Given, IInv, LInv, MInv, JumpsAgree, SlotsApart, EInv, Execute, UNCHANGED alloc
  PROVE  EInv'
<1>1. phase = "done"
  BY ExecutesWhenDone
<1>2. Ready
  BY <1>1 DEF Ready
<1>3. CASE Move
  BY <1>2, <1>3, MoveStep
<1>4. CASE ReturnFromCall
  BY <1>2, <1>4, ReturnFromCallStep
<1>5. ASSUME NEW i \in Ops,
             \/ CallFunction(i) \/ Compute(i) \/ GetArgument(i)
             \/ PrepareCall(i) \/ PutArgument(i) \/ PassArgument(i)
             \/ Transfer(i) \/ ReadResult(i) \/ Jump(i) \/ FallThrough(i) \/ Return(i)
      PROVE  EInv'
  <2>1. CASE CallFunction(i)
    BY <1>2, <2>1, CallFunctionStep
  <2>2. CASE Compute(i)
    BY <1>2, <2>2, ComputeStep
  <2>3. CASE GetArgument(i)
    BY <1>2, <2>3, GetArgumentStep
  <2>4. CASE PrepareCall(i)
    BY <1>2, <2>4, PrepareCallStep
  <2>5. CASE PutArgument(i)
    BY <1>2, <2>5, PutArgumentStep
  <2>6. CASE PassArgument(i)
    BY <1>2, <2>6, PassArgumentStep
  <2>7. CASE Transfer(i)
    BY <1>2, <2>7, TransferStep
  <2>8. CASE ReadResult(i)
    BY <1>2, <2>8, ReadResultStep
  <2>9. CASE Jump(i)
    BY <1>2, <2>9, JumpStep
  <2>10. CASE FallThrough(i)
    BY <1>2, <2>10, FallThroughStep
  <2>11. CASE Return(i)
    BY <2>11, ReturnStep
  <2>12. QED
    BY <1>5, <2>1, <2>2, <2>3, <2>4, <2>5, <2>6, <2>7, <2>8, <2>9, <2>10, <2>11, Zenon
<1>6. QED
  BY <1>3, <1>4, <1>5, Zenon DEF Execute

\* The allocator runs no more when there is code to run.
LEMMA AllocatorKeeps ==
  ASSUME Given, IInv, EInv, Next, UNCHANGED machine
  PROVE  Given' /\ EInv'
<1>1. phase # "done"
  BY DoneIsLast
<1>2. prog' = prog /\ live_in' = live_in /\ live_out' = live_out
  BY DEF Next, Prolog, Plain, Putarg, Getarg, Prepare, PrepareWith, Call, Retval, Enter,
         KeepRegister, TakeRegister, AssignDone, AdjustBranches, AdjustJumps, input
<1>3. Given'
  BY <1>2 DEF Given
<1>4. run' \notin {"running", "calling"}
  <2>1. run' = run
    BY DEF machine
  <2>2. QED
    BY <1>1, <2>1 DEF EInv
<1>5. QED
  BY <1>3, <1>4 DEF EInv

JInv == Given /\ IInv /\ LInv /\ MInv /\ EInv

LEMMA InitJInv == ExecInit => JInv
<1> SUFFICES ASSUME ExecInit PROVE JInv
  OBVIOUS
<1>1. Init /\ run = "compiling"
  BY DEF ExecInit, MachineInit
<1>2. IInv /\ LInv /\ MInv
  BY <1>1, InitIInv, InitLInv, InitMInv
<1>3. Given
  BY <1>1 DEF Init, Given
<1>4. QED
  BY <1>1, <1>2, <1>3 DEF JInv, EInv

LEMMA NextJInv == JInv /\ JumpsAgree /\ SlotsApart /\ [ExecNext]_vars => JInv'
<1> SUFFICES ASSUME JInv, JumpsAgree, SlotsApart, [ExecNext]_vars
             PROVE  JInv'
  OBVIOUS
<1>1. Given /\ IInv /\ LInv /\ MInv /\ EInv
  BY DEF JInv
<1>2. [Next]_alloc
  BY DEF ExecNext, vars
<1>3. IInv' /\ LInv' /\ MInv'
  BY <1>1, <1>2, NextIInv, NextLInv, NextMInv
<1>4. CASE Next /\ UNCHANGED machine
  BY <1>1, <1>3, <1>4, AllocatorKeeps DEF JInv
<1>5. CASE Execute /\ UNCHANGED alloc
  <2>1. EInv'
    BY <1>1, <1>5, ExecuteKeeps
  <2>2. Given'
    BY <1>1, <1>5 DEF Given, alloc, input
  <2>3. QED
    BY <1>3, <2>1, <2>2 DEF JInv
<1>6. CASE UNCHANGED vars
  <2>1. UNCHANGED alloc /\ UNCHANGED machine
    BY <1>6 DEF vars
  <2>2. /\ prog' = prog /\ live_in' = live_in /\ live_out' = live_out /\ regmap' = regmap
        /\ moves' = moves /\ eliminated' = eliminated /\ edge' = edge /\ phase' = phase
        /\ run' = run /\ at' = at /\ k' = k /\ hw' = hw /\ frame' = frame /\ pushed' = pushed
        /\ result' = result /\ ref' = ref
    BY <2>1 DEF alloc, input, machine
  <2>3. EInv'
    <3>1. SlotsHere(at)' = SlotsHere(at)
      BY <2>2 DEF SlotsHere
    <3>2. QED
      BY <1>1, <2>2, <3>1, Zenon DEF EInv
  <2>4. Given'
    BY <1>1, <2>2 DEF Given
  <2>5. QED
    BY <1>3, <2>3, <2>4 DEF JInv
<1>7. QED
  BY <1>4, <1>5, <1>6 DEF ExecNext

-----------------------------------------------------------------------------
(* What the invariant says of the properties                               *)

LEMMA RunningIsReady == JInv /\ run \in {"running", "calling"} => Ready
BY DEF JInv, EInv, Ready

LEMMA HomeHolds == JInv => AliveAtHome
<1> SUFFICES ASSUME JInv, run = "running", k = 1, prog[at].code \notin {"putarg", "call"},
                    NEW v \in live_in[at], ref[v] # Undefined
             PROVE  ref[v] = IF v \in DOMAIN regmap[at - 1] THEN hw[regmap[at - 1][v]]
                             ELSE frame[Slot(at, v)]
  BY DEF AliveAtHome
<1>1. Ready /\ EInv
  BY RunningIsReady DEF JInv
<1>2. AtOp(prog, live_in, regmap, moves, eliminated, SlotsHere(at), at, k, hw, frame, result, ref)
  BY <1>1, AtOpHere
<1>3. Home(SlotsHere(at), regmap[at - 1], live_in[at], hw, frame, ref)
  BY <1>2, Zenon DEF AtOp, Way
<1>4. \/ v \in DOMAIN regmap[at - 1] /\ ref[v] = hw[regmap[at - 1][v]]
      \/ v \notin DOMAIN regmap[at - 1] /\ v \in DOMAIN SlotsHere(at) /\ ref[v] = frame[SlotsHere(at)[v]]
  BY <1>3, Zenon DEF Home
<1>5. v \in DOMAIN SlotsHere(at) => SlotsHere(at)[v] = Slot(at, v)
  BY SlotsHereAre
<1>6. QED
  BY <1>4, <1>5

\* What an operation reads is alive before it.
LEMMA UseAlive ==
  ASSUME Ready, NEW i \in Ops
  PROVE  prog[i].use \subseteq live_in[i]
<1>1. Flow /\ Ops = 1 .. Len(prog)
  BY ReadyFacts
<1>2. live_in[i] = (live_out[i] \ Kill(prog, i)) \cup Gen(prog, i)
  BY <1>1 DEF Flow, Solves, InOf
<1>3. prog[i].use \subseteq Gen(prog, i)
  BY DEF Gen
<1>4. QED
  BY <1>2, <1>3

LEMMA ReadsHold == JInv => ReadsRight
<1> SUFFICES ASSUME JInv, run = "running", k = Len(moves[at]) + 1,
                    prog[at].code \in {"op", "branch", "bms", "ret"},
                    NEW v \in prog[at].use, ref[v] # Undefined
             PROVE  ref[v] = hw[regmap[at][v]]
  BY DEF ReadsRight
<1>1. Ready /\ EInv
  BY RunningIsReady DEF JInv
<1>2. prog[at].code \notin {"putarg", "call", "getarg", "prepare"} /\ prog[at].code \in Ordinary
  BY DEF Ordinary
<1>3. /\ InFunction(prog, at, hw, frame, ref)
      /\ AtOp(prog, live_in, regmap, moves, eliminated, SlotsHere(at), at, k, hw, frame, result, ref)
  BY <1>1, <1>2, AtOpHere
<1>4. at \in Ops
  BY <1>1, <1>3, InFunctionFacts
<1>5. Walked(prog, eliminated, at) /\ OperandsOf(prog, at) \subseteq DOMAIN regmap[at]
  BY <1>1, <1>2, <1>4, OrdinaryOp
<1>6. Home(SlotsHere(at), regmap[at], live_in[at], hw, frame, ref)
  BY <1>1, <1>3, <1>4, <1>5, AtEnd
<1>7. v \in live_in[at] /\ v \in DOMAIN regmap[at]
  BY <1>1, <1>4, <1>5, UseAlive DEF OperandsOf
<1>8. QED
  BY <1>6, <1>7, Zenon DEF Home

LEMMA CallsHold == JInv => CallsRight
<1> SUFFICES ASSUME JInv, run = "calling", NEW v \in prog[at].use, ref[v] # Undefined
             PROVE  ref[v] = IF v \in DOMAIN regmap[at] THEN hw[regmap[at][v]]
                             ELSE frame[Slot(at, v)]
  BY DEF CallsRight
<1>1. Ready /\ EInv /\ prog[at].code = "call"
  <2>1. run # "running"
    OBVIOUS
  <2>2. QED
    BY <2>1, RunningIsReady DEF JInv, EInv
<1>2. at \in Ops /\ at \in Nat
  BY <1>1, AtCall
<1>3. PICK q \in Ops :
        /\ During(prog, q, at)
        /\ regmap[at - 1] = regmap[q]
        /\ \A m \in q + 1 .. at : live_in[m] \subseteq live_out[q]
        /\ Prepared(SlotsHere(at), regmap[q], live_out[q], hw, frame, pushed, ref)
  BY <1>1, AtCall
<1> DEFINE map == regmap[q]
           new == regmap[at]
           s == SlotsHere(at)
<1>4. new = Unassoc(map, In(map, {RetReg, FpRetReg}))
  <2>1. OpOK(prog, live_in, live_out, at, regmap[at - 1], regmap[at], moves[at], eliminated \cap {at}, {})
    BY <1>1, <1>2, ReadyOp
  <2>2. QED
    BY <1>1, <1>3, <2>1, Zenon DEF OpOK, Still
<1>5. v \in live_out[q]
  <2>1. at \in q + 1 .. at
    BY <1>2, <1>3 DEF During
  <2>2. v \in live_in[at]
    BY <1>1, <1>2, UseAlive
  <2>3. QED
    BY <1>3, <2>1, <2>2
<1>6. v \in DOMAIN s => s[v] = Slot(at, v)
  BY SlotsHereAre
<1> HIDE DEF map, new, s
<1>7. /\ v \in DOMAIN new <=> v \in DOMAIN map /\ map[v] \notin {RetReg, FpRetReg}
      /\ v \in DOMAIN new => new[v] = map[v]
  BY <1>4 DEF Unassoc, Only, In
<1>8. /\ v \notin DOMAIN map => v \in DOMAIN s /\ ref[v] = frame[s[v]]
      /\ v \in DOMAIN map =>
           /\ map[v] # RetReg => ref[v] = hw[map[v]]
           /\ map[v] \in {RetReg, FpRetReg} => v \in DOMAIN s /\ ref[v] = frame[s[v]]
  <2>1. Prepared(s, map, live_out[q], hw, frame, pushed, ref)
    BY <1>3, Zenon DEF map, s
  <2>2. QED
    BY <1>5, <2>1, Zenon DEF Prepared
<1>9. ref[v] = IF v \in DOMAIN new THEN hw[new[v]] ELSE frame[Slot(at, v)]
  BY <1>6, <1>7, <1>8
<1>10. QED
  BY <1>9 DEF new

-----------------------------------------------------------------------------
(* The arguments of a call                                                 *)

\* The register a PUTARG is passed in, and what is there when it has been; p is the
\* program, q the PREPARE, h and r the registers of the machine and of the source.
OutIn(p, q, n) ==
  LET type == p[n].args[1]
      outs == {m \in q .. CallIn(p, q) : p[m].code = "putarg" /\ p[m].args = <<type>>}
  IN  ArgRegs(type)[Cardinality({m \in outs : m <= n})]

Handed(p, q, n, h, r) ==
  IF p[n].use = {} THEN h[OutIn(p, q, n)] = Constant(n)
  ELSE \A v \in p[n].use : r[v] # Undefined => r[v] = h[OutIn(p, q, n)]

\* A number that goes through RAX.
IsNumber(p, n) == p[n].code = "putarg" /\ p[n].use = {} /\ p[n].args = <<"FLOAT">>

ResultHeld(map, L, h, r) ==
  \A v \in L \cap DOMAIN map : map[v] = RetReg /\ r[v] # Undefined => r[v] = h[RetReg]

\* The arguments of the last n - 1 operations before the CALL a are passed; until a
\* number is, what the map has in ret_reg is there.
Passing(p, maps, out, q, a, n, h, r) ==
  /\ During(p, q, a)
  /\ p[a].code = "call" => \A m \in q + 1 .. a - 1 : m > a - n => Handed(p, q, m, h, r)
  /\ (p[a].code = "call" => \A m \in q + 1 .. a - 1 : m > a - n => ~IsNumber(p, m)) =>
       ResultHeld(maps[q], out[q], h, r)

AllHanded(p, q, a, h, r) == During(p, q, a) /\ \A m \in q + 1 .. a - 1 : Handed(p, q, m, h, r)

PassInv ==
  /\ run = "running" /\ prog[at].code \in {"putarg", "call"} =>
       \E q \in Ops : Passing(prog, regmap, live_out, q, at, k, hw, ref)
  /\ run = "calling" => \E q \in Ops : AllHanded(prog, q, at, hw, ref)

\* No number is passed as a constant while an argument that is passed after it is
\* still in ret_reg.
ResultSpared ==
  phase = "done" => \A q, c \in Ops :
    prog[c].code = "call" /\ During(prog, q, c) =>
      \A n \in q + 1 .. c - 1 : IsNumber(prog, n) =>
        \A m \in q + 1 .. n - 1 : \A v \in prog[m].use :
          v \in DOMAIN regmap[q] => regmap[q][v] # RetReg

LEMMA OutIs ==
  ASSUME Ready, NEW q \in Ops, NEW c \in Ops, During(prog, q, c), prog[c].code = "call", NEW n
  PROVE  OutReg(c, n) = OutIn(prog, q, n)
<1>1. PrepareOf(c) = q /\ CallOf(q) = c /\ CallIn(prog, q) = c
  BY CallFound
<1>2. QED
  BY <1>1, Zenon DEF OutReg, OutIn, Putargs

\* The PUTARGs of a call.
LEMMA ArgumentsOf ==
  ASSUME Ready, NEW q \in Ops, NEW c \in Ops, During(prog, q, c)
  PROVE  /\ q \in Nat /\ c \in Nat /\ q < c /\ prog[q].code = "prepare"
         /\ \A m \in q + 1 .. c - 1 :
              m \in Nat /\ m \in Ops /\ m \in q .. c /\ prog[m].code = "putarg"
<1>1. Ops = 1 .. Len(prog) /\ Len(prog) \in Nat
  BY ReadyFacts
<1>2. q \in Nat /\ c \in Nat /\ c <= Len(prog) /\ q >= 1
  BY <1>1
<1>3. /\ q \in 2 .. c - 1 /\ prog[q].code = "prepare"
      /\ \A m \in q + 1 .. c - 1 : prog[m].code = "putarg"
  BY DEF During
<1>4. \A m \in q + 1 .. c - 1 : m \in Nat /\ m \in Ops /\ m \in q .. c
  BY <1>1, <1>2
<1>5. QED
  BY <1>2, <1>3, <1>4

\* The first operation of a call, or the next before the CALL itself.
LEMMA PassingBegins ==
  ASSUME NEW p, NEW maps, NEW out, NEW q, NEW a \in Nat, NEW h, NEW r,
         During(p, q, a), ResultHeld(maps[q], out[q], h, r)
  PROVE  Passing(p, maps, out, q, a, 1, h, r)
<1>1. \A m \in q + 1 .. a - 1 : ~(m > a - 1)
  <2>1. q \in Int
    BY DEF During
  <2>2. QED
    BY <2>1
<1>2. QED
  BY <1>1, Zenon DEF Passing

LEMMA PrepareCallPasses ==
  ASSUME Ready, EInv, NEW i \in Ops, PrepareCall(i), UNCHANGED alloc
  PROVE  PassInv'
<1> DEFINE codes == {"prepare"}
<1>1. /\ Runs(i, codes) /\ run = "running" /\ run' = run
      /\ at' = i + 1 /\ k' = 1 /\ ref' = ref /\ hw' = hw
  BY DEF PrepareCall, Goto, Runs
<1>2. "putarg" \notin codes /\ "call" \notin codes
  OBVIOUS
<1> HIDE DEF codes
<1>3. /\ prog[i].code \in codes /\ prog[i].code # "prolog" /\ i \in Nat
      /\ Walked(prog, eliminated, i) => Home(SlotsHere(i), regmap[i], live_in[i], hw, frame, ref)
  BY <1>1, <1>2, OpHere
<1>4. prog[i].code = "prepare" /\ prog[i].code \in Ordinary
  BY <1>3 DEF codes, Ordinary
<1>5. Home(SlotsHere(i), regmap[i], live_in[i], hw, frame, ref)
  BY <1>3, <1>4, OrdinaryOp
<1>6. i + 1 \in Nat /\ prog[i + 1].code \in {"putarg", "call"} /\ i \in 2 .. Len(prog)
  <2>1. i + 1 \in Nat
    BY <1>3
  <2>2. prog[i + 1].code \in {"putarg", "call"}
    BY <1>4, NextOp
  <2>3. i \in 2 .. Len(prog)
    BY <1>3, ReadyOp
  <2>4. QED
    BY <2>1, <2>2, <2>3
<1>7. live_out[i] \subseteq live_in[i]
  BY <1>4, CallMakesNone
<1>8. ResultHeld(regmap[i], live_out[i], hw, ref)
  BY <1>5, <1>7, Zenon DEF ResultHeld, Home
<1>9. During(prog, i, i + 1)
  BY <1>3, <1>4, <1>6 DEF During
<1>10. Passing(prog, regmap, live_out, i, i + 1, 1, hw, ref)
  BY <1>6, <1>8, <1>9, PassingBegins
<1>11. Passing(prog, regmap, live_out, i, at', k', hw', ref')
  BY <1>1, <1>10, Zenon
<1>12. prog' = prog /\ regmap' = regmap /\ live_out' = live_out /\ Ops' = Ops
  BY DEF alloc, input, Ops
<1>13. run' # "calling"
  BY <1>1
<1>14. QED
  BY <1>11, <1>12, <1>13, Zenon DEF PassInv

LEMMA PutArgumentPasses ==
  ASSUME Ready, EInv, PassInv, NEW i \in Ops, PutArgument(i), UNCHANGED alloc
  PROVE  PassInv'
<1>1. /\ run = "running" /\ run' = run /\ at = i /\ prog[i].code = "putarg"
      /\ at' = i + 1 /\ k' = 1 /\ ref' = ref /\ hw' = hw
  BY DEF PutArgument, Goto, Runs
<1>2. PICK q \in Ops : Passing(prog, regmap, live_out, q, i, k, hw, ref)
  BY <1>1 DEF PassInv
<1>3. During(prog, q, i) /\ ResultHeld(regmap[q], live_out[q], hw, ref)
  BY <1>1, <1>2 DEF Passing
<1>4. i + 1 \in Ops /\ prog[i + 1].code \in {"putarg", "call"} /\ i \in Nat /\ i + 1 \in Nat
  BY <1>1, NextOp, ReadyFacts
<1>5. During(prog, q, i + 1)
  BY <1>1, <1>3, <1>4 DEF During
<1>6. Passing(prog, regmap, live_out, q, i + 1, 1, hw, ref)
  BY <1>3, <1>4, <1>5, PassingBegins
<1>7. Passing(prog, regmap, live_out, q, at', k', hw', ref')
  BY <1>1, <1>6, Zenon
<1>8. prog' = prog /\ regmap' = regmap /\ live_out' = live_out /\ Ops' = Ops
  BY DEF alloc, input, Ops
<1>9. run' # "calling"
  BY <1>1
<1>10. QED
  BY <1>7, <1>8, <1>9, Zenon DEF PassInv

\* A handed argument stays where it is.
LEMMA StaysHanded ==
  ASSUME NEW p, NEW q, NEW m, NEW h, NEW r, NEW h2, Handed(p, q, m, h, r),
         h2[OutIn(p, q, m)] = h[OutIn(p, q, m)]
  PROVE  Handed(p, q, m, h2, r)
BY Zenon DEF Handed

LEMMA TransferPasses ==
  ASSUME Ready, EInv, PassInv, NEW i \in Ops, Transfer(i), UNCHANGED alloc
  PROVE  PassInv'
<1>1. /\ run = "running" /\ run' = "calling" /\ at = i /\ at' = at /\ prog[i].code = "call"
      /\ prog[i - k].code = "prepare"
      /\ hw' = [hw EXCEPT ![RetReg] = Junk] /\ ref' = ref
  BY DEF Transfer
<1>2. PICK q \in Ops : Passing(prog, regmap, live_out, q, i, k, hw, ref)
  BY <1>1 DEF PassInv
<1>3. During(prog, q, i)
  BY <1>2 DEF Passing
<1>4. /\ q \in Nat /\ i \in Nat /\ q < i /\ prog[q].code = "prepare"
      /\ \A m \in q + 1 .. i - 1 :
           m \in Nat /\ m \in Ops /\ m \in q .. i /\ prog[m].code = "putarg"
  BY <1>3, ArgumentsOf
<1>5. k \in Nat /\ k >= 1 /\ q <= i - k
  <2>1. PICK x \in Ops : During(prog, x, i) /\ k \in 1 .. i - x
    BY <1>1, AtCall
  <2>2. x = q
    BY <1>1, <1>3, <2>1, CallFound
  <2>3. QED
    BY <1>4, <2>1, <2>2
<1>6. i - k = q
  <2>1. i - k \notin q + 1 .. i - 1
    BY <1>1, <1>4
  <2>2. QED
    BY <1>4, <1>5, <2>1
<1>7. \A m \in q + 1 .. i - 1 : m > i - k
  BY <1>4, <1>6
<1>8. DOMAIN hw = HwReg
  BY <1>1, AtCall, InFunctionFacts
<1>9. ASSUME NEW m \in q + 1 .. i - 1
      PROVE  Handed(prog, q, m, hw', ref')
  <2>1. Handed(prog, q, m, hw, ref)
    BY <1>1, <1>2, <1>7 DEF Passing
  <2>2. m \in q .. i /\ prog[m].code = "putarg"
    BY <1>4
  <2>3. OutReg(i, m) = OutIn(prog, q, m) /\ OutReg(i, m) # RetReg
    BY <1>1, <1>3, <2>2, OutIs, OutRegGiven
  <2>4. hw'[OutIn(prog, q, m)] = hw[OutIn(prog, q, m)]
    BY <1>1, <2>3
  <2>5. Handed(prog, q, m, hw', ref)
    BY <2>1, <2>4, StaysHanded, Zenon
  <2>6. QED
    BY <1>1, <2>5, Zenon
<1>10. AllHanded(prog, q, at', hw', ref')
  BY <1>1, <1>3, <1>9, Zenon DEF AllHanded
<1>11. prog' = prog /\ Ops' = Ops
  BY DEF alloc, input, Ops
<1>12. run' # "running"
  BY <1>1
<1>13. QED
  BY <1>10, <1>11, <1>12, Zenon DEF PassInv

\* The PREPARE has moved what it gave up: no value that is alive is where an argument
\* is passed.
LEMMA SourcesApart ==
  ASSUME Ready, NEW q \in Ops, NEW c \in Ops, During(prog, q, c), prog[c].code = "call",
         NEW n \in q .. c, prog[n].code = "putarg"
  PROVE  \A v \in DOMAIN regmap[q] : regmap[q][v] # OutReg(c, n) /\ regmap[q][v] \in HwReg
<1>1. OutReg(c, n) \in GivenOf(prog, q)
  BY OutRegGiven
<1>2. In(regmap[q], GivenOf(prog, q)) = {} /\ regmap[q] \in RegMaps
  <2>1. prog[q].code = "prepare"
    BY DEF During
  <2>2. prog[q].code \in Ordinary /\ prog[q].code # "getarg" /\ prog[q].code # "prolog"
    BY <2>1 DEF Ordinary
  <2>3. QED
    BY <2>1, <2>2, OrdinaryOp, ReadyFacts
<1>3. \A v \in DOMAIN regmap[q] : regmap[q][v] \in HwReg
  BY <1>2, IsMap
<1>4. QED
  BY <1>1, <1>2, <1>3 DEF In

LEMMA PassArgumentPasses ==
  ASSUME Ready, EInv, PassInv, ResultSpared, NEW i \in Ops, PassArgument(i), UNCHANGED alloc
  PROVE  PassInv'
<1> DEFINE n == i - k
<1>1. /\ run = "running" /\ run' = run /\ at = i /\ at' = at /\ prog[i].code = "call"
      /\ prog[n].code = "putarg" /\ k' = k + 1 /\ ref' = ref
  BY DEF PassArgument
<1>2. PICK q \in Ops : Passing(prog, regmap, live_out, q, i, k, hw, ref)
  BY <1>1 DEF PassInv
<1> DEFINE map == regmap[q]
           s == SlotsHere(i)
           out == OutIn(prog, q, n)
<1>3. During(prog, q, i)
  BY <1>2 DEF Passing
<1>4. /\ q \in Nat /\ i \in Nat /\ q < i /\ prog[q].code = "prepare"
      /\ \A m \in q + 1 .. i - 1 :
           m \in Nat /\ m \in Ops /\ m \in q .. i /\ prog[m].code = "putarg"
  BY <1>3, ArgumentsOf
<1>5. /\ k \in 1 .. i - q
      /\ \A m \in q + 1 .. i : live_in[m] \subseteq live_out[q]
      /\ Prepared(s, map, live_out[q], hw, frame, pushed, ref)
  <2>1. PICK x \in Ops : /\ During(prog, x, i) /\ k \in 1 .. i - x
                         /\ \A m \in x + 1 .. i : live_in[m] \subseteq live_out[x]
                         /\ Prepared(s, regmap[x], live_out[x], hw, frame, pushed, ref)
    BY <1>1, AtCall
  <2>2. x = q
    BY <1>1, <1>3, <2>1, CallFound
  <2>3. QED
    BY <2>1, <2>2
<1>6. n \in q + 1 .. i - 1 /\ n \in Nat /\ i - k' = n - 1 /\ n = i - k
  <2>1. n # q
    BY <1>1, <1>4
  <2>2. QED
    BY <1>1, <1>4, <1>5, <2>1
<1>7. prog[n].code = "putarg" /\ n \in q .. i /\ n \in Ops
  BY <1>4, <1>6
<1> HIDE DEF n
<1>8. DOMAIN hw = HwReg
  BY <1>1, AtCall, InFunctionFacts
<1>9. /\ OutReg(i, n) = out /\ out \in HwReg /\ out # RetReg
      /\ \A v \in DOMAIN map : map[v] # out /\ map[v] \in HwReg
  BY <1>1, <1>3, <1>7, OutIs, OutRegGiven, SourcesApart
<1> HIDE DEF out
<1>10. \/ /\ prog[n].use = {}
          /\ hw' = [h \in HwReg |->
               IF h = out THEN Constant(n)
               ELSE IF h = RetReg /\ prog[n].args = <<"FLOAT">> THEN Constant(n)
               ELSE hw[h]]
       \/ \E v \in prog[n].use :
            hw' = [hw EXCEPT ![out] = IF v \in DOMAIN regmap[PrepareOf(i)]
                                      THEN hw[regmap[PrepareOf(i)][v]] ELSE frame[Slot(i, v)]]
  BY <1>6, <1>9 DEF PassArgument
<1>11. PrepareOf(i) = q
  BY <1>1, <1>3, CallFound
<1>12. /\ \A h \in HwReg : h # out /\ h # RetReg => hw'[h] = hw[h]
       /\ ~IsNumber(prog, n) => hw'[RetReg] = hw[RetReg]
  <2>1. RetReg \in HwReg
    BY Hardware
  <2>2. CASE /\ prog[n].use = {}
             /\ hw' = [h \in HwReg |->
                  IF h = out THEN Constant(n)
                  ELSE IF h = RetReg /\ prog[n].args = <<"FLOAT">> THEN Constant(n)
                  ELSE hw[h]]
    BY <1>7, <1>9, <2>1, <2>2 DEF IsNumber
  <2>3. CASE \E x : hw' = [hw EXCEPT ![out] = x]
    BY <1>8, <1>9, <2>1, <2>3
  <2>4. QED
    BY <1>10, <2>2, <2>3
<1>13. Handed(prog, q, n, hw', ref)
  <2>1. CASE prog[n].use = {}
    <3>1. hw'[out] = Constant(n)
      BY <1>9, <1>10, <2>1
    <3>2. QED
      BY <2>1, <3>1, Zenon DEF Handed, out
  <2>2. CASE prog[n].use # {}
    <3>1. PICK v \in prog[n].use :
            hw' = [hw EXCEPT ![out] = IF v \in DOMAIN map THEN hw[map[v]] ELSE frame[Slot(i, v)]]
      BY <1>10, <1>11, <2>2
    <3>2. prog[n].use = {v}
      <4>1. prog[n].use = {} \/ \E w : prog[n].use = {w}
        BY <1>7, ReadyFacts DEF ProgOK, Typed
      <4>2. QED
        BY <2>2, <4>1
    <3>3. hw'[out] = IF v \in DOMAIN map THEN hw[map[v]] ELSE frame[Slot(i, v)]
      BY <1>8, <1>9, <3>1
    <3>4. v \in live_out[q]
      <4>1. n \in q + 1 .. i
        BY <1>4, <1>6
      <4>2. v \in live_in[n]
        BY <1>7, <3>2, UseAlive
      <4>3. QED
        BY <1>5, <4>1, <4>2
    <3>5. ASSUME ref[v] # Undefined, v \in DOMAIN map
          PROVE  ref[v] = hw[map[v]]
      <4>1. CASE map[v] # RetReg
        BY <1>5, <3>4, <3>5, <4>1, Zenon DEF Prepared
      <4>2. CASE map[v] = RetReg
        <5>1. ASSUME NEW m \in q + 1 .. i - 1, m > i - k
              PROVE  ~IsNumber(prog, m)
          <6>1. n \in q + 1 .. m - 1
            BY <1>4, <1>6, <5>1
          <6>2. IsNumber(prog, m) => map[v] # RetReg
            BY <1>1, <1>3, <3>1, <3>5, <6>1 DEF ResultSpared, Ready
          <6>3. QED
            BY <4>2, <6>2
        <5>2. ResultHeld(map, live_out[q], hw, ref)
          BY <1>2, <5>1, Zenon DEF Passing
        <5>3. QED
          BY <3>4, <3>5, <4>2, <5>2, Zenon DEF ResultHeld
      <4>3. QED
        BY <4>1, <4>2
    <3>6. ASSUME ref[v] # Undefined, v \notin DOMAIN map
          PROVE  ref[v] = frame[Slot(i, v)]
      <4>1. v \in DOMAIN s /\ ref[v] = frame[s[v]]
        BY <1>5, <3>4, <3>6, Zenon DEF Prepared
      <4>2. s[v] = Slot(i, v)
        BY <4>1, SlotsHereAre
      <4>3. QED
        BY <4>1, <4>2
    <3>7. ref[v] # Undefined => ref[v] = hw'[out]
      BY <3>3, <3>5, <3>6
    <3>8. QED
      BY <2>2, <3>2, <3>7, Zenon DEF Handed, out
  <2>3. QED
    BY <2>1, <2>2
<1>14. ASSUME NEW m \in q + 1 .. i - 1, m > n - 1
       PROVE  Handed(prog, q, m, hw', ref)
  <2>1. CASE m = n
    BY <1>13, <2>1
  <2>2. CASE m # n
    <3>1. m > i - k /\ n < m
      BY <1>4, <1>6, <1>14, <2>2
    <3>2. Handed(prog, q, m, hw, ref)
      BY <1>1, <1>2, <3>1 DEF Passing
    <3>3. m \in q .. i /\ prog[m].code = "putarg"
      BY <1>4
    <3>4. /\ OutReg(i, m) = OutIn(prog, q, m) /\ OutReg(i, m) # RetReg /\ OutReg(i, m) \in HwReg
          /\ OutReg(i, n) # OutReg(i, m)
      BY <1>1, <1>3, <1>7, <3>1, <3>3, OutIs, OutRegGiven, OutsApart
    <3>5. hw'[OutIn(prog, q, m)] = hw[OutIn(prog, q, m)]
      BY <1>9, <1>12, <3>4
    <3>6. QED
      BY <3>2, <3>5, StaysHanded, Zenon
  <2>3. QED
    BY <2>1, <2>2
<1>15. ASSUME \A m \in q + 1 .. i - 1 : m > n - 1 => ~IsNumber(prog, m)
       PROVE  ResultHeld(map, live_out[q], hw', ref)
  <2>1. n > n - 1 /\ \A m \in q + 1 .. i - 1 : m > n => m > n - 1
    BY <1>4, <1>6
  <2>2. hw'[RetReg] = hw[RetReg]
    BY <1>6, <1>12, <1>15, <2>1
  <2>3. \A m \in q + 1 .. i - 1 : m > i - k => ~IsNumber(prog, m)
    BY <1>6, <1>15, <2>1
  <2>4. ResultHeld(map, live_out[q], hw, ref)
    BY <1>2, <2>3, Zenon DEF Passing
  <2>5. QED
    BY <2>2, <2>4, Zenon DEF ResultHeld
<1>16. Passing(prog, regmap, live_out, q, i, k', hw', ref)
  <2>1. \A m \in q + 1 .. i - 1 : m > i - k' => Handed(prog, q, m, hw', ref)
    BY <1>6, <1>14
  <2>2. (\A m \in q + 1 .. i - 1 : m > i - k' => ~IsNumber(prog, m)) =>
          ResultHeld(map, live_out[q], hw', ref)
    BY <1>6, <1>15
  <2>3. QED
    BY <1>1, <1>3, <2>1, <2>2, Zenon DEF Passing
<1>17. Passing(prog, regmap, live_out, q, at', k', hw', ref')
  BY <1>1, <1>16, Zenon
<1>18. prog' = prog /\ regmap' = regmap /\ live_out' = live_out /\ Ops' = Ops
  BY DEF alloc, input, Ops
<1>19. run' # "calling"
  BY <1>1
<1>20. QED
  BY <1>17, <1>18, <1>19, Zenon DEF PassInv

\* No other operation leads into a call.
LEMMA OutsideCalls ==
  ASSUME run' = "running" => prog'[at'].code \notin {"putarg", "call"}, run' # "calling"
  PROVE  PassInv'
BY DEF PassInv

LEMMA ElsewherePasses ==
  ASSUME Ready, EInv, Execute, UNCHANGED alloc,
         \A i \in Ops : ~PrepareCall(i) /\ ~PutArgument(i) /\ ~PassArgument(i) /\ ~Transfer(i)
  PROVE  PassInv'
<1>1. prog' = prog
  BY DEF alloc, input
<1>2. CASE Move
  <2>1. run = "running" /\ run' = "running" /\ at' = at /\ k <= Len(moves[at])
    BY <1>2 DEF Move
  <2>2. ASSUME prog[at].code \in {"putarg", "call"}
        PROVE  FALSE
    <3>1. /\ InFunction(prog, at, hw, frame, ref)
          /\ InCall(prog, live_in, live_out, regmap, SlotsHere(at), at, k, hw, frame, pushed, ref)
      BY <2>1, <2>2, InCallHere
    <3>2. at \in Ops /\ at \in Nat /\ k \in Nat /\ k >= 1
      BY <3>1, InFunctionFacts DEF InCall, During
    <3>3. moves[at] = <<>>
      BY <2>2, <3>2, NoMovesInCalls
    <3>4. QED
      BY <2>1, <3>2, <3>3
  <2>3. QED
    BY <1>1, <2>1, <2>2, OutsideCalls
<1>3. CASE ReturnFromCall
  <2>1. run = "calling" /\ run' = "running" /\ at' = at + 1
    BY <1>3 DEF ReturnFromCall, Goto
  <2>2. prog[at].code = "call"
    <3>1. run # "running"
      BY <2>1
    <3>2. QED
      BY <2>1, <3>1 DEF EInv
  <2>3. at \in Ops
    BY <2>1, <2>2, AtCall
  <2>4. prog[at + 1].code \notin {"putarg", "call"}
    BY <2>2, <2>3, NextOp
  <2>5. QED
    BY <1>1, <2>1, <2>4, OutsideCalls
<1>4. ASSUME NEW i \in Ops, at' = i + 1, run' = "running",
             prog[i].code \notin {"ret", "jmp", "prepare", "putarg"}
      PROVE  PassInv'
  <2>1. prog[i + 1].code \notin {"putarg", "call"}
    BY <1>4, NextOp
  <2>2. QED
    BY <1>1, <1>4, <2>1, OutsideCalls
<1>5. ASSUME NEW i \in Ops, CallFunction(i) PROVE PassInv'
  <2>1. at' = i + 1 /\ run' = "running" /\ prog[i].code = "prolog"
    BY <1>5 DEF CallFunction
  <2>2. QED
    BY <1>4, <2>1
<1>6. ASSUME NEW i \in Ops, Compute(i) \/ GetArgument(i) \/ ReadResult(i) \/ FallThrough(i)
      PROVE  PassInv'
  <2>1. at' = i + 1 /\ run' = "running"
    BY <1>6 DEF Compute, GetArgument, ReadResult, FallThrough, Runs, Goto
  <2>2. prog[i].code \in {"op", "label", "getarg", "retval", "fretval", "branch", "bms"}
    BY <1>6 DEF Compute, GetArgument, ReadResult, FallThrough, Runs
  <2>3. QED
    BY <1>4, <2>1, <2>2
<1>7. ASSUME NEW i \in Ops, Jump(i) PROVE PassInv'
  <2>1. prog[i].code \in {"jmp", "branch", "bms"} /\ at' = Target(i) /\ run' = "running"
    BY <1>7 DEF Jump, Runs, Goto
  <2>2. prog[Target(i)].code = "label"
    BY <2>1, JumpEnds, ReadyFacts DEF Ready
  <2>3. QED
    BY <1>1, <2>1, <2>2, OutsideCalls
<1>8. ASSUME NEW i \in Ops, Return(i) PROVE PassInv'
  <2>1. run' = "returned"
    BY <1>8 DEF Return
  <2>2. QED
    BY <2>1, OutsideCalls
<1>9. QED
  BY <1>2, <1>3, <1>5, <1>6, <1>7, <1>8, Zenon DEF Execute

LEMMA ExecutePasses ==
  ASSUME JInv, PassInv, ResultSpared, Execute, UNCHANGED alloc
  PROVE  PassInv'
<1>1. phase = "done"
  BY ExecutesWhenDone DEF JInv
<1>2. Ready /\ EInv
  BY <1>1 DEF JInv, Ready
<1>3. ASSUME NEW i \in Ops, PrepareCall(i) PROVE PassInv'
  BY <1>2, <1>3, PrepareCallPasses
<1>4. ASSUME NEW i \in Ops, PutArgument(i) PROVE PassInv'
  BY <1>2, <1>4, PutArgumentPasses
<1>5. ASSUME NEW i \in Ops, PassArgument(i) PROVE PassInv'
  BY <1>2, <1>5, PassArgumentPasses
<1>6. ASSUME NEW i \in Ops, Transfer(i) PROVE PassInv'
  BY <1>2, <1>6, TransferPasses
<1>7. QED
  BY <1>2, <1>3, <1>4, <1>5, <1>6, ElsewherePasses, Zenon

LEMMA NextPasses ==
  ASSUME JInv, PassInv, ResultSpared, [ExecNext]_vars
  PROVE  PassInv'
<1>1. CASE UNCHANGED vars
  BY <1>1 DEF PassInv, vars, alloc, input, machine, Ops
<1>2. CASE Next /\ UNCHANGED machine
  <2>1. phase # "done"
    BY <1>2, DoneIsLast DEF JInv
  <2>2. run' = run /\ run \notin {"running", "calling"}
    BY <1>2, <2>1 DEF machine, JInv, EInv
  <2>3. QED
    BY <2>2, OutsideCalls
<1>3. CASE Execute /\ UNCHANGED alloc
  BY <1>3, ExecutePasses
<1>4. QED
  BY <1>1, <1>2, <1>3 DEF ExecNext

\* What the called function finds.
LEMMA ArgumentsHold == JInv /\ PassInv => ArgumentsPassed
<1> SUFFICES ASSUME JInv, PassInv, run = "calling", NEW n \in Outgoing(at)
             PROVE  IF prog[n].use = {} THEN hw[OutReg(at, n)] = Constant(n)
                    ELSE \A v \in prog[n].use : ref[v] # Undefined => ref[v] = hw[OutReg(at, n)]
  BY Zenon DEF ArgumentsPassed
<1>1. Ready /\ EInv /\ prog[at].code = "call"
  <2>1. run # "running"
    OBVIOUS
  <2>2. QED
    BY <2>1, RunningIsReady DEF JInv, EInv
<1>2. at \in Ops
  BY <1>1, AtCall
<1>3. PICK q \in Ops : AllHanded(prog, q, at, hw, ref)
  BY DEF PassInv
<1>4. During(prog, q, at) /\ \A m \in q + 1 .. at - 1 : Handed(prog, q, m, hw, ref)
  BY <1>3, Zenon DEF AllHanded
<1>5. PrepareOf(at) = q /\ CallOf(q) = at
  BY <1>1, <1>2, <1>4, CallFound
<1>6. n \in q .. at /\ prog[n].code = "putarg"
  BY <1>5 DEF Outgoing, Putargs
<1>7. q \in Nat /\ at \in Nat /\ prog[q].code = "prepare"
  BY <1>1, <1>2, <1>4, ArgumentsOf
<1>8. n \in q + 1 .. at - 1
  <2>1. n # q /\ n # at
    BY <1>1, <1>6, <1>7
  <2>2. QED
    BY <1>6, <1>7, <2>1
<1>9. Handed(prog, q, n, hw, ref)
  BY <1>4, <1>8
<1>10. OutReg(at, n) = OutIn(prog, q, n)
  BY <1>1, <1>2, <1>4, OutIs
<1>11. QED
  BY <1>9, <1>10, Zenon DEF Handed

-----------------------------------------------------------------------------
(* Theorems                                                                *)

LEMMA CodeInvariant == ExecSpec /\ [](JumpsAgree /\ SlotsApart) => []JInv
<1>1. ExecInit => JInv
  BY InitJInv
<1>2. JInv /\ (JumpsAgree /\ SlotsApart) /\ [ExecNext]_vars => JInv'
  BY NextJInv
<1>3. QED
  BY <1>1, <1>2, PTL DEF ExecSpec

\* The code that is generated keeps every value that is alive where the map of the
\* allocator has it or in its slot of the frame, through moves, jumps and calls, as
\* long as the two ends of jumps agree and no two registers share a slot: nothing
\* else that the allocator or the generator does can break it.
THEOREM ValuesAreHome == ExecSpec /\ [](JumpsAgree /\ SlotsApart) => []AliveAtHome
BY CodeInvariant, HomeHolds, PTL

\* Every operation of the code reads what the source program reads, under the same
\* conditions.
THEOREM OperandsAreRight == ExecSpec /\ [](JumpsAgree /\ SlotsApart) => []ReadsRight
BY CodeInvariant, ReadsHold, PTL

\* A CALL through a register finds the address of the function, under the same
\* conditions, although the register may be one that the CALL gives up.
THEOREM CalleesAreRight == ExecSpec /\ [](JumpsAgree /\ SlotsApart) => []CallsRight
BY CodeInvariant, CallsHold, PTL

\* A called function gets its arguments, under the same conditions and if no number is
\* passed as a constant, through ret_reg, before an argument that is still there.
THEOREM ArgumentsArePassed ==
  ExecSpec /\ [](JumpsAgree /\ SlotsApart /\ ResultSpared) => []ArgumentsPassed
<1>1. ExecInit => JInv /\ PassInv
  <2>1. ExecInit => PassInv
    BY DEF ExecInit, MachineInit, PassInv
  <2>2. QED
    BY <2>1, InitJInv
<1>2. JInv /\ PassInv /\ (JumpsAgree /\ SlotsApart /\ ResultSpared) /\ [ExecNext]_vars
        => JInv' /\ PassInv'
  BY NextJInv, NextPasses
<1>3. JInv /\ PassInv => ArgumentsPassed
  BY ArgumentsHold
<1>4. QED
  BY <1>1, <1>2, <1>3, PTL DEF ExecSpec

\* No two registers that a function of p names have the same slot.
NamedApart(p) ==
  \A s \in 1 .. Len(p) : p[s].code = "prolog" =>
    \A v, w : Named(p, s, v) /\ Named(p, s, w)
                /\ SlotIn(p, FunctionOf(p, s), v) = SlotIn(p, FunctionOf(p, s), w) => v = w

LEMMA ApartWithNames ==
  ASSUME Given, IInv, LInv, MInv, NamedApart(prog)
  PROVE  SlotsApart
<1> SUFFICES ASSUME phase = "done", NEW i \in Ops, prog[i].code = "prolog",
                    NEW v \in Spilled(i), NEW w \in Spilled(i), Slot(i, v) = Slot(i, w)
             PROVE  v = w
  BY DEF SlotsApart
<1>1. Ready
  BY DEF Ready
<1>2. i \in 1 .. Len(prog)
  BY DEF Ops
<1>3. Named(prog, i, v) /\ Named(prog, i, w)
  BY <1>1, SpilledNamed
<1>4. SlotIn(prog, FunctionOf(prog, i), v) = SlotIn(prog, FunctionOf(prog, i), w)
  BY SlotIs
<1>5. QED
  BY <1>2, <1>3, <1>4, Zenon DEF NamedApart

\* The last slot of the registers is free if argument 0 of a function is saved to it.
LastSlotFree(p) ==
  \A s \in 1 .. Len(p) :
    p[s].code = "prolog" /\ (\E v : Named(p, s, v) /\ v[2] = "ARG" /\ v[3] = 0) =>
      LET F == FunctionOf(p, s)
      IN  FpIn(p, F) = 0 /\ (LastIn(p, F, "INT") = 0 \/ LastIn(p, F, "INT") % 2 = 1)

LEMMA LastSlotApart ==
  ASSUME ProgOK, LastSlotFree(prog)
  PROVE  NamedApart(prog)
<1> SUFFICES ASSUME NEW s \in Ops, prog[s].code = "prolog",
                    NEW v, NEW w, Named(prog, s, v), Named(prog, s, w),
                    SlotIn(prog, FunctionOf(prog, s), v) = SlotIn(prog, FunctionOf(prog, s), w)
             PROVE  v = w
  BY DEF NamedApart, Ops
<1> DEFINE F == FunctionOf(prog, s)
           last == LastIn(prog, F, "INT")
           gp == GpIn(prog, F)
           fp == FpIn(prog, F)
           args == ArgsOf(prog, s)
           slot(x) == SlotIn(prog, F, x)
<1>1. F \in SUBSET Ops
  BY FunctionIs DEF Ops
<1>2. gp \in Nat /\ fp \in Nat /\ last <= gp /\ last \in Nat /\ gp = last + ((last + fp) % 2)
  BY <1>1, CountsType, LastInIs DEF GpIn
<1>3. slot(v) = slot(w)
  OBVIOUS
<1>4. \A x : Named(prog, s, x) => IsOperand(prog, s, x) \/ x \in DOMAIN ArgMap(args)
  BY DEF Named
<1>5. ASSUME NEW x, IsOperand(prog, s, x)
      PROVE  /\ x \in VReg /\ x[1] \in {"INT", "FLOAT"} /\ x[3] \in Nat
             /\ x[1] = "INT" => slot(x) = x[3] + 1 /\ x[3] + 1 <= last
             /\ x[1] = "FLOAT" => slot(x) = gp + x[3] + 1 /\ x[3] + 1 <= fp
  BY <1>5, SlotOfOperand
<1>6. ASSUME NEW x \in DOMAIN ArgMap(args)
      PROVE  /\ x[2] = "ARG" /\ slot(x) = x[3] + gp + fp
             /\ \E j \in 1 .. Len(args) : x = ArgReg(args[j], j - 1)
  BY SlotOfArgument, Zenon
<1>7. ASSUME NEW x \in DOMAIN ArgMap(args), x[3] = 0
      PROVE  fp = 0 /\ (last = 0 \/ last % 2 = 1)
  <2>1. Named(prog, s, x) /\ x[2] = "ARG" /\ s \in 1 .. Len(prog)
    BY <1>6 DEF Named, Ops
  <2>2. QED
    BY <1>7, <2>1 DEF LastSlotFree
<1> HIDE DEF F, last, gp, fp, args, slot
<1>8. ASSUME NEW x, IsOperand(prog, s, x), NEW y, IsOperand(prog, s, y), slot(x) = slot(y)
      PROVE  x = y
  <2>1. x[1] = y[1] /\ x[3] = y[3]
    BY <1>2, <1>5, <1>8
  <2>2. x \in {"INT", "FLOAT"} \X {"REG"} \X Nat /\ y \in {"INT", "FLOAT"} \X {"REG"} \X Nat
    BY <1>5, <1>8, AllocAssumption
  <2>3. QED
    BY <2>1, <2>2
<1>9. ASSUME NEW x \in DOMAIN ArgMap(args), NEW y \in DOMAIN ArgMap(args), slot(x) = slot(y)
      PROVE  x = y
  <2>1. PICK j \in 1 .. Len(args) : x = ArgReg(args[j], j - 1)
    BY <1>6
  <2>2. PICK n \in 1 .. Len(args) : y = ArgReg(args[n], n - 1)
    BY <1>6
  <2>3. x[3] = j - 1 /\ y[3] = n - 1 /\ j \in Int /\ n \in Int
    BY <2>1, <2>2 DEF ArgReg
  <2>4. slot(x) = x[3] + gp + fp /\ slot(y) = y[3] + gp + fp
    BY <1>6, <1>9, Zenon
  <2>5. x[3] + gp + fp = y[3] + gp + fp
    BY <1>9, <2>4
  <2>6. j = n
    BY <1>2, <2>3, <2>5
  <2>7. QED
    BY <2>1, <2>2, <2>6
<1>10. ASSUME NEW x, IsOperand(prog, s, x), NEW y \in DOMAIN ArgMap(args)
       PROVE  slot(x) # slot(y)
  <2>1. slot(x) \in Nat /\ slot(x) > 0 /\ slot(x) <= gp + fp
    BY <1>2, <1>5, <1>10
  <2>2. PICK n \in 1 .. Len(args) : y = ArgReg(args[n], n - 1)
    BY <1>6
  <2>3. y[3] = n - 1 /\ n \in Nat /\ n >= 1
    BY <2>2 DEF ArgReg
  <2>4. slot(y) = n - 1 + gp + fp
    BY <1>6, <2>3
  <2>5. CASE n > 1
    BY <1>2, <2>1, <2>3, <2>4, <2>5
  <2>6. CASE n = 1
    <3>1. fp = 0 /\ (last = 0 \/ last % 2 = 1)
      BY <1>7, <2>3, <2>6
    <3>2. slot(x) <= last
      BY <1>2, <1>5, <1>10, <3>1
    <3>3. last = 0 \/ gp > last
      BY <1>2, <3>1
    <3>4. QED
      BY <1>2, <2>1, <2>4, <2>6, <3>1, <3>2, <3>3
  <2>7. QED
    BY <2>3, <2>5, <2>6
<1>11. QED
  BY <1>3, <1>4, <1>8, <1>9, <1>10

\* What the compiled list is, whatever the generated code does.
Compiled == Given /\ IInv /\ LInv /\ MInv

LEMMA StaysCompiled == ExecSpec => []Compiled
<1>1. ExecInit => Compiled
  BY InitJInv DEF JInv, Compiled
<1>2. Compiled /\ [ExecNext]_vars => Compiled'
  <2> SUFFICES ASSUME Compiled, [ExecNext]_vars
               PROVE  Compiled'
    OBVIOUS
  <2>1. [Next]_alloc
    BY DEF ExecNext, vars
  <2>2. IInv' /\ LInv' /\ MInv'
    BY <2>1, NextIInv, NextLInv, NextMInv DEF Compiled
  <2>3. Given'
    BY <2>1 DEF Compiled, Given, Next, Prolog, Plain, Putarg, Getarg, Prepare, PrepareWith, Call,
                Retval, Enter, KeepRegister, TakeRegister, AssignDone, AdjustBranches,
                AdjustJumps, input, alloc
  <2>4. QED
    BY <2>2, <2>3 DEF Compiled
<1>3. QED
  BY <1>1, <1>2, PTL DEF ExecSpec

\* The slots of a function are apart if the last one of its registers is free when
\* argument 0 is saved (the arguments are counted from it, amd64-specific.h:36-39).
THEOREM SlotsStayApart ==
  ASSUME \A p \in Programs : LastSlotFree(p)
  PROVE  ExecSpec => []SlotsApart
<1>1. Compiled => SlotsApart
  <2> SUFFICES ASSUME Compiled
               PROVE  SlotsApart
    OBVIOUS
  <2>1. ProgOK /\ LastSlotFree(prog)
    BY DEF Compiled, Given, IInv, Shape
  <2>2. QED
    BY <2>1, LastSlotApart, ApartWithNames DEF Compiled
<1>2. QED
  BY <1>1, StaysCompiled, PTL

\* Nothing but the program decides: of programs without the conditional jumps that
\* branch_adjustment leaves out, and whose functions have slots enough, the generated
\* code keeps and reads every value, and calls what it should.
THEOREM CodeIsRight ==
  ASSUME \A p \in Programs : LastSlotFree(p) /\ \A i \in 1 .. Len(p) : p[i].code # "bms"
  PROVE  ExecSpec => [](AliveAtHome /\ ReadsRight /\ CallsRight)
<1>1. JInv => JumpsAgree /\ SlotsApart
  <2> SUFFICES ASSUME JInv PROVE JumpsAgree /\ SlotsApart
    OBVIOUS
  <2>1. prog \in Programs
    BY DEF JInv, Given
  <2>2. LastSlotFree(prog) /\ ProgOK /\ \A i \in Ops : prog[i].code # "bms"
    BY <2>1 DEF Ops, JInv, IInv, Shape
  <2>3. QED
    BY <2>2, AgreeWithoutOthers, LastSlotApart, ApartWithNames DEF JInv
<1>2. ExecInit => JInv
  BY InitJInv
<1>3. JInv /\ [ExecNext]_vars => JInv'
  BY <1>1, NextJInv
<1>4. JInv => AliveAtHome /\ ReadsRight /\ CallsRight
  BY HomeHolds, ReadsHold, CallsHold
<1>5. QED
  BY <1>2, <1>3, <1>4, PTL DEF ExecSpec
=============================================================================
