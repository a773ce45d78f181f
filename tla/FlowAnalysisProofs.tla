------------------------ MODULE FlowAnalysisProofs ------------------------
(***************************************************************************)
(* Proofs about FlowAnalysis.tla, for all well-formed programs.            *)
(*                                                                         *)
(* The analysis reads sets that are partly old, so what it has computed is *)
(* not a solution of the equations until the end.  What holds all along is *)
(* that every set is below what its equation gives (Below): from it the    *)
(* sets can only grow, and once a pass has changed nothing the operations  *)
(* behind pc satisfy their equations exactly (Settled).                    *)
(***************************************************************************)
EXTENDS FlowAnalysis, Numbers

LEMMA SuccInProgram ==
  ASSUME NEW p, WellFormed(p), NEW i \in 1 .. Len(p)
  PROVE  Len(p) \in Nat /\ Succ(p, i) \subseteq 1 .. Len(p)
<1>1. /\ Len(p) \in Nat /\ p[i] \in Operation
      /\ p[i].jmp <= Len(p) /\ (p[i].code = "jmp" => p[i].jmp # 0)
  BY DEF WellFormed
<1>2. p[i].jmp \in Nat
  BY <1>1 DEF Operation
<1>3. QED
  BY <1>1, <1>2 DEF Succ

\* The right sides of the equations are monotone.
LEMMA InMonotone ==
  ASSUME NEW p, NEW i, NEW s, NEW t, s \subseteq t
  PROVE  InOf(p, i, s) \subseteq InOf(p, i, t)
BY DEF InOf

LEMMA OutMonotone ==
  ASSUME NEW p, WellFormed(p), NEW i \in 1 .. Len(p), NEW f, NEW g,
         \A j \in 1 .. Len(p) : f[j] \subseteq g[j]
  PROVE  OutOf(p, i, f) \subseteq OutOf(p, i, g)
BY SuccInProgram, Zenon DEF OutOf

-----------------------------------------------------------------------------
\* What does not depend on the registers: the shape of the state.
Shape ==
  /\ WellFormed(prog)
  /\ Len(prog) \in Nat
  /\ live_in = [i \in Ops |-> live_in[i]]
  /\ live_out = [i \in Ops |-> live_out[i]]
  /\ pc \in 1 .. Len(prog) + 1
  /\ changed \in BOOLEAN
  /\ done \in BOOLEAN

\* No set is above what its equation gives.
Below ==
  \A i \in Ops : /\ live_in[i] \subseteq InOf(prog, i, live_out[i])
                 /\ live_out[i] \subseteq OutOf(prog, i, live_in)

\* As long as a pass has changed nothing, the operations it has analysed
\* satisfy their equations.
Settled ==
  ~changed => \A i \in Ops : i < pc =>
                /\ live_in[i] = InOf(prog, i, live_out[i])
                /\ live_out[i] = OutOf(prog, i, live_in)

Returned == done => pc = Len(prog) + 1 /\ ~changed

IInv == Shape /\ Below /\ Settled /\ Returned

LEMMA InitIInv == Init => IInv
<1> SUFFICES ASSUME Init PROVE IInv
  OBVIOUS
<1>1. WellFormed(prog) /\ Len(prog) \in Nat /\ Len(prog) > 0
  BY OpsAssumption DEF Init, WellFormed
<1>2. Shape
  <2>1. live_in = [i \in Ops |-> live_in[i]] /\ live_out = [i \in Ops |-> live_out[i]]
    BY DEF Init
  <2>2. pc \in 1 .. Len(prog) + 1
    BY <1>1 DEF Init
  <2>3. changed \in BOOLEAN /\ done \in BOOLEAN
    BY DEF Init
  <2>4. QED
    BY <1>1, <2>1, <2>2, <2>3, Zenon DEF Shape
<1>3. QED
  BY <1>1, <1>2 DEF Init, IInv, Below, Settled, Returned, Ops

\* What one operation's analysis does to the sets.
LEMMA AnalyzeGrows ==
  ASSUME IInv, AnalyzeOp
  PROVE  /\ pc \in Ops /\ prog' = prog
         /\ live_in'[pc] = InOf(prog, pc, live_out[pc])
         /\ live_out'[pc] = OutOf(prog, pc, live_in')
         /\ \A i \in Ops : /\ live_in[i] \subseteq live_in'[i]
                           /\ live_out[i] \subseteq live_out'[i]
                           /\ i # pc => live_in'[i] = live_in[i]
                                        /\ live_out'[i] = live_out[i]
<1>1. /\ pc \in Ops /\ prog' = prog
      /\ live_in' = [live_in EXCEPT ![pc] = InOf(prog, pc, live_out[pc])]
      /\ live_out' = [live_out EXCEPT ![pc] = OutOf(prog, pc, live_in')]
  BY DEF AnalyzeOp
<1>2. DOMAIN live_in = Ops /\ DOMAIN live_out = Ops /\ WellFormed(prog)
  BY DEF IInv, Shape
<1>3. /\ live_in'[pc] = InOf(prog, pc, live_out[pc])
      /\ live_out'[pc] = OutOf(prog, pc, live_in')
      /\ \A i \in Ops : i # pc => live_in'[i] = live_in[i] /\ live_out'[i] = live_out[i]
  BY <1>1, <1>2
<1>4. \A i \in Ops : live_in[i] \subseteq live_in'[i]
  BY <1>1, <1>3 DEF IInv, Below
<1>5. OutOf(prog, pc, live_in) \subseteq OutOf(prog, pc, live_in')
  <2>1. \A j \in 1 .. Len(prog) : live_in[j] \subseteq live_in'[j]
    BY <1>4 DEF Ops
  <2>2. pc \in 1 .. Len(prog)
    BY <1>1 DEF Ops
  <2>3. QED
    BY <1>2, <2>1, <2>2, OutMonotone, Zenon
<1>6. \A i \in Ops : live_out[i] \subseteq live_out'[i]
  BY <1>1, <1>3, <1>5 DEF IInv, Below
<1>7. QED
  BY <1>1, <1>3, <1>4, <1>6

LEMMA NextIInv == IInv /\ [Next]_vars => IInv'
<1> SUFFICES ASSUME IInv, [Next]_vars PROVE IInv'
  OBVIOUS
<1>0. /\ WellFormed(prog) /\ Len(prog) \in Nat /\ pc \in Int
      /\ changed \in BOOLEAN /\ done \in BOOLEAN
  BY DEF IInv, Shape
<1>1. CASE AnalyzeOp
  <2>1. /\ pc \in Ops /\ prog' = prog /\ pc' = pc + 1 /\ done' = done /\ Ops' = Ops
        /\ changed' = (changed \/ live_in' # live_in \/ live_out' # live_out)
    BY <1>1 DEF AnalyzeOp, Ops
  <2>2. /\ live_in'[pc] = InOf(prog, pc, live_out[pc])
        /\ live_out'[pc] = OutOf(prog, pc, live_in')
        /\ \A i \in Ops : /\ live_in[i] \subseteq live_in'[i]
                          /\ live_out[i] \subseteq live_out'[i]
                          /\ i # pc => live_in'[i] = live_in[i]
                                       /\ live_out'[i] = live_out[i]
    BY <1>1, AnalyzeGrows
  <2>3. Shape'
    <3>1. live_in' = [i \in Ops |-> live_in'[i]] /\ live_out' = [i \in Ops |-> live_out'[i]]
      BY <1>1 DEF AnalyzeOp, IInv, Shape
    <3>2. pc' \in 1 .. Len(prog) + 1
      BY <1>0, <2>1 DEF Ops
    <3>3. changed' \in BOOLEAN /\ done' \in BOOLEAN
      BY <1>0, <2>1
    <3>4. QED
      BY <1>0, <2>1, <3>1, <3>2, <3>3, Zenon DEF Shape
  <2>4. Below'
    <3> SUFFICES ASSUME NEW i \in Ops
                 PROVE  /\ live_in'[i] \subseteq InOf(prog, i, live_out'[i])
                        /\ live_out'[i] \subseteq OutOf(prog, i, live_in')
      BY <2>1, Zenon DEF Below
    <3>1. InOf(prog, i, live_out[i]) \subseteq InOf(prog, i, live_out'[i])
      BY <2>2, InMonotone, Zenon
    <3>2. OutOf(prog, i, live_in) \subseteq OutOf(prog, i, live_in')
      <4>1. \A j \in 1 .. Len(prog) : live_in[j] \subseteq live_in'[j]
        BY <2>2 DEF Ops
      <4>2. i \in 1 .. Len(prog)
        BY DEF Ops
      <4>3. QED
        BY <1>0, <4>1, <4>2, OutMonotone, Zenon
    <3>3. /\ live_in[i] \subseteq InOf(prog, i, live_out[i])
          /\ live_out[i] \subseteq OutOf(prog, i, live_in)
      BY Zenon DEF IInv, Below
    <3>4. CASE i = pc
      BY <2>2, <3>1, <3>4
    <3>5. CASE i # pc
      BY <2>2, <3>1, <3>2, <3>3, <3>5
    <3>6. QED
      BY <3>4, <3>5
  <2>5. Settled'
    <3> SUFFICES ASSUME ~changed', NEW i \in Ops, i < pc'
                 PROVE  /\ live_in'[i] = InOf(prog, i, live_out'[i])
                        /\ live_out'[i] = OutOf(prog, i, live_in')
      BY <2>1, Zenon DEF Settled
    <3>1. ~changed /\ live_in' = live_in /\ live_out' = live_out
      BY <2>1
    <3>2. i = pc \/ i < pc
      BY <1>0, <2>1 DEF Ops
    <3>3. CASE i = pc
      BY <2>2, <3>1, <3>3, Zenon
    <3>4. CASE i < pc
      BY <3>1, <3>4, Zenon DEF IInv, Settled
    <3>5. QED
      BY <3>2, <3>3, <3>4
  <2>6. Returned'
    BY <1>0, <2>1 DEF IInv, Returned, Ops
  <2>7. QED
    BY <2>3, <2>4, <2>5, <2>6 DEF IInv
<1>2. CASE EndPass
  <2>1. /\ UNCHANGED <<prog, live_in, live_out, done>> /\ pc' = 1 /\ changed' = FALSE
        /\ pc = Len(prog) + 1 /\ changed
    BY <1>2 DEF EndPass
  <2>2. Shape'
    <3>1. pc' \in 1 .. Len(prog) + 1
      <4>1. Len(prog) \in Nat /\ pc' = 1 /\ prog' = prog
        BY <1>0, <2>1, Zenon
      <4>2. QED
        BY <4>1
    <3>2. changed' \in BOOLEAN
      BY <2>1, Zenon
    <3>3. QED
      BY <2>1, <3>1, <3>2, Zenon DEF IInv, Shape, Ops
  <2>3. Below'
    BY <2>1, Zenon DEF IInv, Below, Ops
  <2>4. Settled' /\ Returned'
    BY <1>0, <2>1 DEF IInv, Settled, Returned, Ops
  <2>5. QED
    BY <2>2, <2>3, <2>4 DEF IInv
<1>3. CASE Return
  <2>1. /\ UNCHANGED <<prog, live_in, live_out, pc, changed>> /\ done' = TRUE
        /\ pc = Len(prog) + 1 /\ ~changed
    BY <1>3 DEF Return
  <2>2. Shape'
    <3>1. done' \in BOOLEAN
      BY <2>1
    <3>2. QED
      BY <2>1, <3>1, Zenon DEF IInv, Shape, Ops
  <2>3. Below' /\ Settled' /\ Returned'
    BY <2>1, Zenon DEF IInv, Below, Settled, Returned, Ops
  <2>4. QED
    BY <2>2, <2>3 DEF IInv
<1>4. CASE UNCHANGED vars
  BY <1>4, Zenon DEF vars, IInv, Shape, Below, Settled, Returned, Ops
<1>5. QED
  BY <1>1, <1>2, <1>3, <1>4 DEF Next

THEOREM FlowInvariant == Spec => []IInv
BY InitIInv, NextIInv, PTL DEF Spec

\* When jit_flw_analysis returns (flow-analysis.h:136), the sets solve the
\* data-flow equations, for every program.
THEOREM ReturnsASolution == Spec => []ReturnsSolution
<1>1. IInv => ReturnsSolution
  <2> SUFFICES ASSUME IInv, done, NEW i \in 1 .. Len(prog)
               PROVE  /\ live_in[i] = InOf(prog, i, live_out[i])
                      /\ live_out[i] = OutOf(prog, i, live_in)
    BY DEF ReturnsSolution, Solves
  <2>1. ~changed /\ i < pc
    BY DEF IInv, Returned, Shape
  <2>2. QED
    BY <2>1 DEF IInv, Settled, Ops
<1>2. QED
  BY <1>1, FlowInvariant, PTL

\* No step of the analysis takes a register out of a set (flow-analysis.h:31-119).
THEOREM SetsOnlyGrow == Spec => OnlyGrow
<1>1. IInv /\ [Next]_vars =>
        [\A i \in Ops : /\ live_in[i] \subseteq live_in'[i]
                        /\ live_out[i] \subseteq live_out'[i]]_vars
  <2> SUFFICES ASSUME IInv, Next
               PROVE  \A i \in Ops : /\ live_in[i] \subseteq live_in'[i]
                                     /\ live_out[i] \subseteq live_out'[i]
    OBVIOUS
  <2>1. CASE AnalyzeOp
    BY <2>1, AnalyzeGrows
  <2>2. CASE EndPass
    BY <2>2 DEF EndPass
  <2>3. CASE Return
    BY <2>3 DEF Return
  <2>4. QED
    BY <2>1, <2>2, <2>3 DEF Next
<1>2. QED
  BY <1>1, FlowInvariant, PTL DEF Spec, OnlyGrow

-----------------------------------------------------------------------------
(* The solution is the least one.                                          *)

\* No set is above that of a solution in, out of the equations of prog.
BelowSolution(in, out) ==
  Solves(prog, in, out) => \A i \in Ops : /\ live_in[i] \subseteq in[i]
                                          /\ live_out[i] \subseteq out[i]

LEMMA AnalyzeBelowSolution ==
  ASSUME IInv, AnalyzeOp, NEW in, NEW out, BelowSolution(in, out)
  PROVE  BelowSolution(in, out)'
<1>1. pc \in Ops /\ prog' = prog /\ Ops' = Ops /\ WellFormed(prog)
  BY DEF AnalyzeOp, Ops, IInv, Shape
<1>2. /\ live_in'[pc] = InOf(prog, pc, live_out[pc])
      /\ live_out'[pc] = OutOf(prog, pc, live_in')
      /\ \A i \in Ops : i # pc => live_in'[i] = live_in[i] /\ live_out'[i] = live_out[i]
  BY AnalyzeGrows
<1> SUFFICES ASSUME Solves(prog, in, out)
             PROVE  \A i \in Ops : /\ live_in'[i] \subseteq in[i]
                                   /\ live_out'[i] \subseteq out[i]
  BY <1>1, Zenon DEF BelowSolution
<1>3. \A i \in Ops : live_in[i] \subseteq in[i] /\ live_out[i] \subseteq out[i]
  BY DEF BelowSolution
<1>4. in[pc] = InOf(prog, pc, out[pc]) /\ out[pc] = OutOf(prog, pc, in)
  BY <1>1, Zenon DEF Solves, Ops
<1>5. live_in'[pc] \subseteq in[pc]
  BY <1>1, <1>2, <1>3, <1>4, InMonotone
<1>6. \A i \in 1 .. Len(prog) : live_in'[i] \subseteq in[i]
  BY <1>1, <1>2, <1>3, <1>5 DEF Ops
<1>7. OutOf(prog, pc, live_in') \subseteq OutOf(prog, pc, in)
  BY <1>1, <1>6, OutMonotone, Zenon DEF Ops
<1>8. \A i \in Ops : live_out'[i] \subseteq out[i]
  BY <1>1, <1>2, <1>3, <1>4, <1>7
<1>9. QED
  BY <1>6, <1>8 DEF Ops

\* What jit_flw_analysis returns (flow-analysis.h:121-137) is inside every
\* solution of the equations: no register is alive for nothing.
THEOREM LeastSolution ==
  ASSUME NEW CONSTANT in, NEW CONSTANT out
  PROVE  Spec => []BelowSolution(in, out)
<1>1. Init => BelowSolution(in, out)
  BY DEF Init, BelowSolution, Ops
<1>2. IInv /\ BelowSolution(in, out) /\ [Next]_vars => BelowSolution(in, out)'
  <2> SUFFICES ASSUME IInv, BelowSolution(in, out), [Next]_vars
               PROVE  BelowSolution(in, out)'
    OBVIOUS
  <2>1. CASE AnalyzeOp
    BY <2>1, AnalyzeBelowSolution
  <2>2. CASE EndPass
    BY <2>2, Zenon DEF EndPass, BelowSolution, Ops
  <2>3. CASE Return
    BY <2>3, Zenon DEF Return, BelowSolution, Ops
  <2>4. CASE UNCHANGED vars
    BY <2>4, Zenon DEF vars, BelowSolution, Ops
  <2>5. QED
    BY <2>1, <2>2, <2>3, <2>4 DEF Next
<1>3. QED
  BY <1>1, <1>2, FlowInvariant, PTL DEF Spec

-----------------------------------------------------------------------------
(* The sets hold registers of the program: the arguments a GETARG reads are *)
(* those of a PROLOG before it.                                            *)

LEMMA RegHas ==
  /\ VReg \subseteq Reg
  /\ \A t \in {"INT", "FLOAT"}, j \in 0 .. MaxArgs - 1 : ArgReg(t, j) \in Reg
BY DEF Reg

LEMMA GenReg ==
  ASSUME NEW p, WellFormed(p), NEW i \in 1 .. Len(p)
  PROVE  Gen(p, i) \subseteq Reg
<1>1. /\ p \in Seq(Operation) /\ p[i] \in Operation /\ p[1].code = "prolog"
      /\ Len(p) \in Nat /\ MaxArgs \in Nat
  BY OpsAssumption DEF WellFormed
<1>2. p[i].use \subseteq VReg
  BY <1>1 DEF Operation
<1>3. SUFFICES ASSUME p[i].code = "getarg"
               PROVE  ArgReg(FuncOf(p, i).args[p[i].arg + 1], p[i].arg) \in Reg
  <2>1. p[i].use \subseteq Reg
    BY <1>2, RegHas, Zenon
  <2>2. QED
    BY <1>3, <2>1 DEF Gen
<1> DEFINE P == {j \in 1 .. i : p[j].code = "prolog"}
<1>4. PICK j \in P : FuncOf(p, i) = p[j]
  <2>1. \E j \in P : \A k \in P : k <= j
    <3>1. 1 \in P /\ P \in SUBSET (1 .. i) /\ i \in Nat
      BY <1>1
    <3> HIDE DEF P
    <3>2. QED
      BY <3>1, LastPosition, Zenon
  <2>2. (CHOOSE j \in P : \A k \in P : k <= j) \in P
    <3> HIDE DEF P
    <3>1. QED
      BY <2>1, Zenon
  <2>3. FuncOf(p, i) = p[CHOOSE j \in P : \A k \in P : k <= j]
    BY Zenon DEF FuncOf
  <2>4. QED
    BY <2>2, <2>3, Zenon
<1>5. j \in 1 .. Len(p) /\ p[j].code = "prolog" /\ p[j] \in Operation
  BY <1>1
<1>6. p[j].args \in Seq({"INT", "FLOAT"}) /\ Len(p[j].args) <= MaxArgs
  BY <1>5 DEF WellFormed, Operation
<1>7. p[i].arg \in Nat /\ p[i].arg < Len(p[j].args)
  BY <1>1, <1>3, <1>4 DEF WellFormed, Operation
<1>8. p[i].arg \in 0 .. MaxArgs - 1 /\ p[i].arg + 1 \in 1 .. Len(p[j].args)
  BY <1>1, <1>6, <1>7
<1>9. p[j].args[p[i].arg + 1] \in {"INT", "FLOAT"}
  BY <1>6, <1>8
<1>10. ArgReg(p[j].args[p[i].arg + 1], p[i].arg) \in Reg
  BY <1>8, <1>9, RegHas, Zenon
<1>11. QED
  BY <1>4, <1>10, Zenon

LEMMA RegConstant == Reg' = Reg
BY DEF Reg, ArgReg

SetsOK == \A i \in Ops : live_in[i] \subseteq Reg /\ live_out[i] \subseteq Reg

LEMMA AnalyzeSetsOK == IInv /\ SetsOK /\ AnalyzeOp => SetsOK'
<1> SUFFICES ASSUME IInv, SetsOK, AnalyzeOp PROVE SetsOK'
  OBVIOUS
<1>1. pc \in Ops /\ prog' = prog /\ Ops' = Ops /\ WellFormed(prog)
  BY DEF AnalyzeOp, Ops, IInv, Shape
<1>2. /\ live_in'[pc] = InOf(prog, pc, live_out[pc])
      /\ live_out'[pc] = OutOf(prog, pc, live_in')
      /\ \A i \in Ops : i # pc => live_in'[i] = live_in[i] /\ live_out'[i] = live_out[i]
  BY AnalyzeGrows
<1>3. Gen(prog, pc) \subseteq Reg
  BY <1>1, GenReg, Zenon DEF Ops
<1>4. live_in'[pc] \subseteq Reg
  BY <1>1, <1>2, <1>3, Zenon DEF InOf, SetsOK
<1>5. \A i \in Ops : live_in'[i] \subseteq Reg
  BY <1>2, <1>4 DEF SetsOK
<1>6. live_out'[pc] \subseteq Reg
  <2>1. Succ(prog, pc) \subseteq Ops
    BY <1>1, SuccInProgram, Zenon DEF Ops
  <2>2. QED
    BY <1>2, <1>5, <2>1, Zenon DEF OutOf
<1>7. QED
  <2>1. \A i \in Ops : live_out'[i] \subseteq Reg
    BY <1>2, <1>6 DEF SetsOK
  <2>2. QED
    BY <1>1, <1>5, <2>1, RegConstant, Zenon DEF SetsOK

\* The variables keep their types: in particular the analysis never makes a
\* set with a register the program does not have (flow-analysis.h:31-119).
THEOREM TypeCorrect == Spec => []TypeOK
<1>1. Init => SetsOK
  BY DEF Init, SetsOK, Ops
<1>2. IInv /\ SetsOK /\ [Next]_vars => SetsOK'
  <2> SUFFICES ASSUME IInv, SetsOK, [Next]_vars
               PROVE  SetsOK'
    OBVIOUS
  <2>1. CASE AnalyzeOp
    BY <2>1, AnalyzeSetsOK
  <2>2. CASE EndPass
    BY <2>2, RegConstant, Zenon DEF EndPass, SetsOK, Ops
  <2>3. CASE Return
    BY <2>3, RegConstant, Zenon DEF Return, SetsOK, Ops
  <2>4. CASE UNCHANGED vars
    BY <2>4, RegConstant, Zenon DEF vars, SetsOK, Ops
  <2>5. QED
    BY <2>1, <2>2, <2>3, <2>4 DEF Next
<1>3. IInv /\ SetsOK => TypeOK
  <2> SUFFICES ASSUME IInv, SetsOK PROVE TypeOK
    OBVIOUS
  <2>1. live_in \in [Ops -> SUBSET Reg] /\ live_out \in [Ops -> SUBSET Reg]
    BY DEF IInv, Shape, SetsOK
  <2>2. QED
    BY <2>1, Zenon DEF IInv, Shape, TypeOK
<1>4. QED
  BY <1>1, <1>2, <1>3, FlowInvariant, PTL DEF Spec

-----------------------------------------------------------------------------
(* Liveness by paths.                                                      *)

\* The operations from which a reader of r is reached in n steps or fewer, for every
\* n up to m.
Reaching(p, r, m, f) ==
  f = [n \in 0 .. m |-> IF n = 0 THEN Readers(p, r) ELSE Before(p, r, f[n - 1])]

LEMMA ReachingExists ==
  ASSUME NEW p, NEW r, NEW m \in Nat
  PROVE  \E f : Reaching(p, r, m, f)
<1> DEFINE P == {n \in Nat : \E f : Reaching(p, r, n, f)}
<1>1. 0 \in P
  <2> DEFINE f == [n \in 0 .. 0 |-> Readers(p, r)]
  <2>1. f = [n \in 0 .. 0 |-> IF n = 0 THEN Readers(p, r) ELSE Before(p, r, f[n - 1])]
    OBVIOUS
  <2>2. QED
    BY <2>1 DEF Reaching
<1>2. ASSUME NEW n \in P
      PROVE  n + 1 \in P
  <2>1. n \in Nat /\ n + 1 \in Nat
    OBVIOUS
  <2>2. PICK f : Reaching(p, r, n, f)
    OBVIOUS
  <2> DEFINE g == [l \in 0 .. n + 1 |-> IF l = 0 THEN Readers(p, r) ELSE Before(p, r, f[l - 1])]
  <2>3. ASSUME NEW l \in 0 .. n
        PROVE  g[l] = f[l]
    BY <2>1, <2>2 DEF Reaching
  <2>4. ASSUME NEW l \in 0 .. n + 1
        PROVE  g[l] = IF l = 0 THEN Readers(p, r) ELSE Before(p, r, g[l - 1])
    <3>1. l # 0 => l - 1 \in 0 .. n
      BY <2>1
    <3>2. g[l] = IF l = 0 THEN Readers(p, r) ELSE Before(p, r, f[l - 1])
      OBVIOUS
    <3> HIDE DEF g
    <3>3. QED
      BY <2>3, <3>1, <3>2
  <2>5. g = [l \in 0 .. n + 1 |-> g[l]]
    OBVIOUS
  <2> HIDE DEF g
  <2>6. Reaching(p, r, n + 1, g)
    BY <2>4, <2>5 DEF Reaching
  <2>7. QED
    BY <2>1, <2>6
<1>3. P \in SUBSET Nat
  OBVIOUS
<1> HIDE DEF P
<1>4. m \in P
  BY <1>1, <1>2, <1>3, EveryNumber
<1>5. QED
  BY <1>4 DEF P

LEMMA AliveIs ==
  ASSUME NEW p, NEW r, Len(p) \in Nat
  PROVE  \E f : Reaching(p, r, Len(p), f) /\ Alive(p, r) = f[Len(p)]
<1> DEFINE f == CHOOSE g : Reaching(p, r, Len(p), g)
<1>1. Reaching(p, r, Len(p), f)
  BY ReachingExists
<1>2. Alive(p, r) = f[Len(p)]
  BY DEF Alive, Reaching
<1>3. QED
  BY <1>1, <1>2

\* As many steps as the program is long reach all there is: until one brings nothing,
\* each brings another operation.
LEMMA ReachingEnds ==
  ASSUME NEW p, NEW r, Len(p) \in Nat, NEW f, Reaching(p, r, Len(p), f)
  PROVE  Before(p, r, f[Len(p)]) \subseteq f[Len(p)]
<1> DEFINE L == Len(p)
           Ends(S) == Before(p, r, S) \subseteq S
           P == {n \in Nat : n <= L =>
                   /\ f[n] \in SUBSET (1 .. L)
                   /\ Ends(f[n]) \/ n <= Cardinality(f[n])}
<1>1. /\ f[0] = Readers(p, r)
      /\ \A n \in 1 .. L : f[n] = Before(p, r, f[n - 1])
  BY DEF Reaching
<1>2. \A S \in SUBSET (1 .. L) : /\ IsFiniteSet(S) /\ Cardinality(S) \in Nat
                                 /\ S \subseteq Before(p, r, S)
                                 /\ Before(p, r, S) \in SUBSET (1 .. L)
  <2> SUFFICES ASSUME NEW S \in SUBSET (1 .. L)
               PROVE  /\ IsFiniteSet(S) /\ Cardinality(S) \in Nat
                      /\ S \subseteq Before(p, r, S)
                      /\ Before(p, r, S) \in SUBSET (1 .. L)
    OBVIOUS
  <2>1. IsFiniteSet(1 .. L)
    BY FS_Interval
  <2>2. IsFiniteSet(S)
    BY <2>1, FS_Subset
  <2>3. Cardinality(S) \in Nat
    BY <2>2, FS_CardinalityType
  <2>4. QED
    BY <2>2, <2>3 DEF Before
<1>3. 0 \in P
  <2>1. f[0] \in SUBSET (1 .. L)
    BY <1>1 DEF Readers
  <2>2. 0 <= Cardinality(f[0])
    BY <1>2, <2>1
  <2>3. QED
    BY <2>1, <2>2
<1>4. ASSUME NEW n \in P
      PROVE  n + 1 \in P
  <2> SUFFICES ASSUME n + 1 <= L
               PROVE  /\ f[n + 1] \in SUBSET (1 .. L)
                      /\ Ends(f[n + 1]) \/ n + 1 <= Cardinality(f[n + 1])
    OBVIOUS
  <2> DEFINE S == f[n]
             T == f[n + 1]
  <2>1. /\ n \in Nat /\ S \in SUBSET (1 .. L)
        /\ Ends(S) \/ n <= Cardinality(S)
    OBVIOUS
  <2>2. T = Before(p, r, S)
    BY <1>1, <2>1
  <2> HIDE DEF S, T, P, L
  <2>3. T \in SUBSET (1 .. L) /\ S \subseteq T
    BY <1>2, <2>1, <2>2
  <2>4. CASE Ends(S)
    <3>1. T = S
      BY <2>2, <2>3, <2>4
    <3>2. QED
      BY <2>3, <2>4, <3>1 DEF S, T
  <2>5. CASE ~Ends(S) /\ n <= Cardinality(S)
    <3>1. S # T
      BY <2>2, <2>5
    <3>2. IsFiniteSet(T) /\ Cardinality(T) \in Nat /\ Cardinality(S) \in Nat
      BY <1>2, <2>1, <2>3
    <3>3. Cardinality(S) <= Cardinality(T) /\ (Cardinality(S) = Cardinality(T) => S = T)
      BY <2>3, <3>2, FS_Subset, Zenon
    <3>4. n + 1 <= Cardinality(T)
      BY <2>1, <2>5, <3>1, <3>2, <3>3
    <3>5. QED
      BY <2>3, <3>4 DEF S, T
  <2>6. QED
    BY <2>1, <2>4, <2>5
<1>5. P \in SUBSET Nat
  OBVIOUS
<1> HIDE DEF P
<1>6. L \in P
  BY <1>3, <1>4, <1>5, EveryNumber
<1>7. f[L] \in SUBSET (1 .. L) /\ (Ends(f[L]) \/ L <= Cardinality(f[L]))
  BY <1>6 DEF P
<1> HIDE DEF L
<1>8. CASE L <= Cardinality(f[L])
  <2>1. IsFiniteSet(1 .. L) /\ Cardinality(1 .. L) = L /\ L \in Nat
    <3>1. L \in Nat /\ 1 \in Int /\ L \in Int
      BY DEF L
    <3>2. /\ IsFiniteSet(1 .. L)
          /\ Cardinality(1 .. L) = IF 1 > L THEN 0 ELSE L - 1 + 1
      BY <3>1, FS_Interval
    <3>3. QED
      BY <3>1, <3>2
  <2>2. /\ Cardinality(f[L]) <= Cardinality(1 .. L)
        /\ Cardinality(1 .. L) = Cardinality(f[L]) => 1 .. L = f[L]
    BY <1>7, <2>1, FS_Subset
  <2>3. Cardinality(f[L]) \in Nat
    BY <1>2, <1>7
  <2>4. f[L] = 1 .. L
    BY <1>8, <2>1, <2>2, <2>3
  <2>5. Ends(f[L])
    BY <1>2, <1>7, <2>4
  <2>6. QED
    BY <2>5 DEF L
<1>9. QED
  BY <1>7, <1>8 DEF L

\* What reads a register has it alive before, and so has what goes on to where it is,
\* unless it makes it.
LEMMA AliveClosed ==
  ASSUME NEW p, NEW r, Len(p) \in Nat
  PROVE  /\ \A i \in 1 .. Len(p) : r \in Gen(p, i) => i \in Alive(p, r)
         /\ \A i \in 1 .. Len(p) : \A s \in Succ(p, i) :
              r \notin Kill(p, i) /\ s \in Alive(p, r) => i \in Alive(p, r)
<1>1. PICK f : Reaching(p, r, Len(p), f) /\ Alive(p, r) = f[Len(p)]
  BY AliveIs
<1>2. Before(p, r, Alive(p, r)) \subseteq Alive(p, r)
  BY <1>1, ReachingEnds
<1>3. Readers(p, r) \subseteq Alive(p, r)
  <2> DEFINE P == {n \in Nat : n <= Len(p) => Readers(p, r) \subseteq f[n]}
  <2>1. f[0] = Readers(p, r) /\ \A n \in 1 .. Len(p) : f[n] = Before(p, r, f[n - 1])
    BY <1>1 DEF Reaching
  <2>2. 0 \in P
    BY <2>1
  <2>3. ASSUME NEW n \in P PROVE n + 1 \in P
    <3>1. n \in Nat
      OBVIOUS
    <3>2. ASSUME n + 1 <= Len(p) PROVE Readers(p, r) \subseteq f[n + 1]
      <4>1. f[n + 1] = Before(p, r, f[n]) /\ Readers(p, r) \subseteq f[n]
        BY <2>1, <3>1, <3>2
      <4>2. QED
        BY <4>1 DEF Before
    <3>3. QED
      BY <3>1, <3>2
  <2>4. P \in SUBSET Nat
    OBVIOUS
  <2> HIDE DEF P
  <2>5. Len(p) \in P
    BY <2>2, <2>3, <2>4, EveryNumber
  <2>6. QED
    BY <1>1, <2>5 DEF P
<1>4. QED
  BY <1>2, <1>3 DEF Readers, Before

\* A solution of the equations has every register that is alive.
LEMMA AliveInSolution ==
  ASSUME NEW p, NEW r, Len(p) \in Nat, NEW in, NEW out, Solves(p, in, out),
         NEW i \in Alive(p, r)
  PROVE  i \in 1 .. Len(p) /\ r \in in[i]
<1>1. PICK f : Reaching(p, r, Len(p), f) /\ Alive(p, r) = f[Len(p)]
  BY AliveIs
<1> DEFINE A == {l \in 1 .. Len(p) : r \in in[l]}
           P == {n \in Nat : n <= Len(p) => f[n] \subseteq A}
<1>2. f[0] = Readers(p, r) /\ \A n \in 1 .. Len(p) : f[n] = Before(p, r, f[n - 1])
  BY <1>1 DEF Reaching
<1>3. Readers(p, r) \subseteq A
  BY DEF Readers, Solves, InOf
<1>4. Before(p, r, A) \subseteq A
  <2> SUFFICES ASSUME NEW l \in 1 .. Len(p), r \notin Kill(p, l), NEW s \in Succ(p, l), r \in in[s]
               PROVE  r \in in[l]
    BY DEF Before
  <2>1. out[l] = UNION {in[x] : x \in Succ(p, l)} /\ in[l] = (out[l] \ Kill(p, l)) \cup Gen(p, l)
    BY DEF Solves, InOf, OutOf
  <2>2. QED
    BY <2>1
<1>5. \A S : S \subseteq A => Before(p, r, S) \subseteq A
  <2>1. \A S : S \subseteq A => Before(p, r, S) \subseteq Before(p, r, A)
    BY DEF Before
  <2> HIDE DEF A
  <2>2. QED
    BY <1>4, <2>1
<1> HIDE DEF A
<1>6. 0 \in P
  BY <1>2, <1>3
<1>7. ASSUME NEW n \in P PROVE n + 1 \in P
  <2>1. n \in Nat
    OBVIOUS
  <2>2. ASSUME n + 1 <= Len(p) PROVE f[n + 1] \subseteq A
    <3>1. f[n + 1] = Before(p, r, f[n]) /\ f[n] \subseteq A
      BY <1>2, <2>1, <2>2
    <3>2. QED
      BY <1>5, <3>1
  <2>3. QED
    BY <2>1, <2>2
<1>8. P \in SUBSET Nat
  OBVIOUS
<1> HIDE DEF P
<1>9. Len(p) \in P
  BY <1>6, <1>7, <1>8, EveryNumber
<1>10. i \in A
  BY <1>1, <1>9 DEF P
<1>11. QED
  BY <1>10 DEF A

\* The analysis puts no register in a set but along a way to a reader.
OnlyAlive ==
  \A i \in Ops : /\ \A r \in live_in[i] : i \in Alive(prog, r)
                 /\ \A r \in live_out[i] : \E s \in Succ(prog, i) : s \in Alive(prog, r)

LEMMA AnalyzeOnlyAlive ==
  ASSUME IInv, AnalyzeOp, OnlyAlive
  PROVE  OnlyAlive'
<1>1. pc \in 1 .. Len(prog) /\ prog' = prog /\ Ops' = Ops /\ Ops = 1 .. Len(prog)
        /\ Len(prog) \in Nat /\ WellFormed(prog)
  BY DEF AnalyzeOp, Ops, IInv, Shape
<1>2. /\ live_in'[pc] = InOf(prog, pc, live_out[pc])
      /\ live_out'[pc] = OutOf(prog, pc, live_in')
      /\ \A i \in Ops : i # pc => live_in'[i] = live_in[i] /\ live_out'[i] = live_out[i]
  BY AnalyzeGrows
<1>3. ASSUME NEW r \in live_in'[pc]
      PROVE  pc \in Alive(prog, r)
  <2>1. r \in Gen(prog, pc) \/ (r \in live_out[pc] /\ r \notin Kill(prog, pc))
    BY <1>2, <1>3 DEF InOf
  <2>2. CASE r \in Gen(prog, pc)
    BY <1>1, <2>2, AliveClosed
  <2>3. CASE r \in live_out[pc] /\ r \notin Kill(prog, pc)
    <3>1. PICK s \in Succ(prog, pc) : s \in Alive(prog, r)
      BY <1>1, <2>3 DEF OnlyAlive
    <3>2. QED
      BY <1>1, <2>3, <3>1, AliveClosed
  <2>4. QED
    BY <2>1, <2>2, <2>3
<1>4. \A i \in Ops : \A r \in live_in'[i] : i \in Alive(prog, r)
  BY <1>2, <1>3 DEF OnlyAlive
<1>5. ASSUME NEW r \in live_out'[pc]
      PROVE  \E s \in Succ(prog, pc) : s \in Alive(prog, r)
  <2>1. PICK s \in Succ(prog, pc) : r \in live_in'[s]
    BY <1>2, <1>5 DEF OutOf
  <2>2. s \in Ops
    BY <1>1, SuccInProgram
  <2>3. QED
    BY <1>4, <2>1, <2>2
<1>6. \A i \in Ops : \A r \in live_out'[i] : \E s \in Succ(prog, i) : s \in Alive(prog, r)
  BY <1>2, <1>5 DEF OnlyAlive
<1>7. QED
  BY <1>1, <1>4, <1>6, Zenon DEF OnlyAlive

LEMMA NextOnlyAlive ==
  ASSUME IInv, OnlyAlive, [Next]_vars
  PROVE  OnlyAlive'
<1>1. CASE AnalyzeOp
  BY <1>1, AnalyzeOnlyAlive
<1>2. CASE EndPass
  BY <1>2, Zenon DEF EndPass, OnlyAlive, Ops
<1>3. CASE Return
  BY <1>3, Zenon DEF Return, OnlyAlive, Ops
<1>4. CASE UNCHANGED vars
  BY <1>4, Zenon DEF vars, OnlyAlive, Ops
<1>5. QED
  BY <1>1, <1>2, <1>3, <1>4 DEF Next

\* For every program, the analysis finds the registers that are alive along some way
\* through it, and no other: solving the equations by passes over sets that are partly
\* old gives what liveness means.
THEOREM FindsAlive == Spec => []FindsLiveness
<1>1. Init => OnlyAlive
  BY DEF Init, OnlyAlive, Ops
<1>2. IInv /\ OnlyAlive /\ [Next]_vars => OnlyAlive'
  BY NextOnlyAlive
<1>3. IInv /\ OnlyAlive /\ ReturnsSolution => FindsLiveness
  <2> SUFFICES ASSUME IInv, OnlyAlive, ReturnsSolution, done, NEW i \in Ops, NEW r \in Reg
               PROVE  r \in live_in[i] <=> i \in Alive(prog, r)
    BY DEF FindsLiveness
  <2>1. Len(prog) \in Nat /\ Solves(prog, live_in, live_out)
    BY DEF IInv, Shape, ReturnsSolution
  <2>2. i \in Alive(prog, r) => r \in live_in[i]
    BY <2>1, AliveInSolution
  <2>3. QED
    BY <2>2 DEF OnlyAlive
<1>4. QED
  BY <1>1, <1>2, <1>3, FlowInvariant, ReturnsASolution, PTL DEF Spec

-----------------------------------------------------------------------------
(* The analysis ends.  That it goes on until it ends is liveness; that it  *)
(* cannot go on for ever is that something gets less with every step: what *)
(* no set has yet, counted in passes, and the operations left in the pass. *)

LEMMA RegFinite ==
  ASSUME IsFiniteSet(VReg)
  PROVE  IsFiniteSet(Reg)
<1> DEFINE types == {"INT", "FLOAT"}
           places == 0 .. MaxArgs - 1
           args == {ArgReg(t, j) : t \in types, j \in places}
           f == [c \in types \X places |-> ArgReg(c[1], c[2])]
<1>1. IsFiniteSet(types) /\ IsFiniteSet(places)
  <2>1. IsFiniteSet(types)
    BY PairFinite
  <2>2. MaxArgs \in Nat
    BY OpsAssumption
  <2>3. IsFiniteSet(places)
    BY <2>2, FS_Interval
  <2>4. QED
    BY <2>1, <2>3
<1>2. IsFiniteSet(types \X places)
  BY <1>1, FS_Product
<1>3. f \in Surjection(types \X places, args)
  <2>1. f \in [types \X places -> args]
    OBVIOUS
  <2>2. ASSUME NEW r \in args
        PROVE  \E c \in types \X places : f[c] = r
    <3>1. PICK t \in types, j \in places : r = ArgReg(t, j)
      OBVIOUS
    <3>2. <<t, j>> \in types \X places /\ f[<<t, j>>] = r
      BY <3>1
    <3>3. QED
      BY <3>2
  <2> HIDE DEF f, args
  <2>3. QED
    BY <2>1, <2>2 DEF Surjection
<1>4. IsFiniteSet(args)
  BY <1>2, <1>3, FS_Surjection
<1>5. Reg = VReg \cup args
  BY DEF Reg
<1> HIDE DEF args
<1>6. QED
  BY <1>4, <1>5, FS_Union, Zenon

\* The registers of p that a set does not have, for each set.
Slots(p) == {"in", "out"} \X (1 .. Len(p)) \X Reg
Absent(p, in, out) ==
  {c \in Slots(p) : c[3] \notin (IF c[1] = "in" THEN in[c[2]] ELSE out[c[2]])}

LEMMA SlotsFinite ==
  ASSUME IsFiniteSet(VReg), NEW p, Len(p) \in Nat
  PROVE  IsFiniteSet(Slots(p))
<1> DEFINE sides == {"in", "out"}
           ops == 1 .. Len(p)
           f == [c \in (sides \X ops) \X Reg |-> <<c[1][1], c[1][2], c[2]>>]
<1>1. IsFiniteSet(sides) /\ IsFiniteSet(ops) /\ IsFiniteSet(Reg)
  <2>1. IsFiniteSet(sides)
    BY PairFinite
  <2>2. IsFiniteSet(ops)
    BY FS_Interval
  <2>3. QED
    BY <2>1, <2>2, RegFinite
<1>2. IsFiniteSet(sides \X ops)
  BY <1>1, FS_Product
<1>3. IsFiniteSet((sides \X ops) \X Reg)
  BY <1>1, <1>2, FS_Product
<1>4. f \in Surjection((sides \X ops) \X Reg, sides \X ops \X Reg)
  <2>1. f \in [(sides \X ops) \X Reg -> sides \X ops \X Reg]
    OBVIOUS
  <2>2. ASSUME NEW c \in sides \X ops \X Reg
        PROVE  \E d \in (sides \X ops) \X Reg : f[d] = c
    <3>1. << <<c[1], c[2]>>, c[3]>> \in (sides \X ops) \X Reg
      OBVIOUS
    <3>2. f[<< <<c[1], c[2]>>, c[3]>>] = c
      BY <3>1
    <3>3. QED
      BY <3>1, <3>2
  <2>3. QED
    BY <2>1, <2>2 DEF Surjection
<1>5. IsFiniteSet(sides \X ops \X Reg)
  BY <1>3, <1>4, FS_Surjection
<1>6. QED
  BY <1>5 DEF Slots

LEMMA AbsentFewer ==
  ASSUME IsFiniteSet(VReg), NEW p, Len(p) \in Nat, NEW in, NEW out, NEW in2, NEW out2,
         \A i \in 1 .. Len(p) : in[i] \subseteq in2[i] /\ out[i] \subseteq out2[i]
  PROVE  /\ Cardinality(Absent(p, in, out)) \in Nat /\ Cardinality(Absent(p, in2, out2)) \in Nat
         /\ Cardinality(Absent(p, in2, out2)) <= Cardinality(Absent(p, in, out))
         /\ \A i \in 1 .. Len(p) : \A r \in Reg :
              (r \in in2[i] /\ r \notin in[i]) \/ (r \in out2[i] /\ r \notin out[i]) =>
                Cardinality(Absent(p, in2, out2)) < Cardinality(Absent(p, in, out))
<1> DEFINE before == Absent(p, in, out)
           after == Absent(p, in2, out2)
<1>1. after \in SUBSET before
  <2> SUFFICES ASSUME NEW c \in after PROVE c \in before
    OBVIOUS
  <2>1. c \in Slots(p) /\ c[3] \notin (IF c[1] = "in" THEN in2[c[2]] ELSE out2[c[2]])
    BY DEF Absent
  <2>2. c[2] \in 1 .. Len(p)
    BY <2>1 DEF Slots
  <2>3. QED
    BY <2>1, <2>2 DEF Absent
<1>2. IsFiniteSet(before)
  <2>1. IsFiniteSet(Slots(p))
    BY SlotsFinite
  <2>2. before \in SUBSET Slots(p)
    BY DEF Absent
  <2>3. QED
    BY <2>1, <2>2, FS_Subset
<1>3. ASSUME NEW i \in 1 .. Len(p), NEW r \in Reg,
             (r \in in2[i] /\ r \notin in[i]) \/ (r \in out2[i] /\ r \notin out[i])
      PROVE  after # before
  <2>1. <<"in", i, r>> \in Slots(p) /\ <<"out", i, r>> \in Slots(p)
    BY DEF Slots
  <2>2. CASE r \in in2[i] /\ r \notin in[i]
    BY <2>1, <2>2 DEF Absent
  <2>3. CASE r \in out2[i] /\ r \notin out[i]
    BY <2>1, <2>3 DEF Absent
  <2>4. QED
    BY <1>3, <2>2, <2>3
<1> HIDE DEF before, after
<1>4. /\ Cardinality(before) \in Nat /\ Cardinality(after) \in Nat
      /\ Cardinality(after) <= Cardinality(before)
      /\ after # before => Cardinality(after) < Cardinality(before)
  BY <1>1, <1>2, FewerInPart
<1>5. QED
  BY <1>3, <1>4 DEF before, after

\* A pass that has changed something has made up for another pass.
StepsLeft ==
  (Cardinality(Absent(prog, live_in, live_out)) + (IF changed THEN 1 ELSE 0)) * (Len(prog) + 2)
    + (Len(prog) + 1 - pc) + (IF done THEN 0 ELSE 1)

LEMMA AnalyzeLess ==
  ASSUME IsFiniteSet(VReg), IInv, SetsOK, SetsOK', AnalyzeOp
  PROVE  StepsLeft' < StepsLeft
<1> DEFINE n == Len(prog)
           a == Cardinality(Absent(prog, live_in, live_out))
           b == Cardinality(Absent(prog, live_in', live_out'))
           c == IF changed THEN 1 ELSE 0
           d == IF changed' THEN 1 ELSE 0
           e == IF done THEN 0 ELSE 1
<1>1. /\ pc \in Ops /\ pc' = pc + 1 /\ prog' = prog /\ done' = done /\ Ops = 1 .. n /\ n \in Nat
      /\ changed' = (changed \/ live_in' # live_in \/ live_out' # live_out)
      /\ changed \in BOOLEAN
  BY DEF AnalyzeOp, Ops, IInv, Shape
<1>2. \A i \in 1 .. n : live_in[i] \subseteq live_in'[i] /\ live_out[i] \subseteq live_out'[i]
  BY <1>1, AnalyzeGrows
<1>3. /\ a \in Nat /\ b \in Nat /\ b <= a
      /\ \A i \in 1 .. n : \A r \in Reg :
           (r \in live_in'[i] /\ r \notin live_in[i]) \/ (r \in live_out'[i] /\ r \notin live_out[i]) =>
             b < a
  BY <1>1, <1>2, AbsentFewer
<1>4. live_in' # live_in \/ live_out' # live_out => b < a
  <2> SUFFICES ASSUME live_in' # live_in \/ live_out' # live_out PROVE b < a
    OBVIOUS
  <2>1. \E i \in 1 .. n : live_in'[i] # live_in[i] \/ live_out'[i] # live_out[i]
    <3>1. /\ live_in = [i \in Ops |-> live_in[i]] /\ live_in' = [i \in Ops |-> live_in'[i]]
          /\ live_out = [i \in Ops |-> live_out[i]] /\ live_out' = [i \in Ops |-> live_out'[i]]
      BY <1>1 DEF AnalyzeOp, IInv, Shape
    <3>2. QED
      BY <1>1, <3>1
  <2>2. PICK i \in 1 .. n : live_in'[i] # live_in[i] \/ live_out'[i] # live_out[i]
    BY <2>1
  <2>3. \E r : (r \in live_in'[i] /\ r \notin live_in[i]) \/ (r \in live_out'[i] /\ r \notin live_out[i])
    BY <1>2, <2>2
  <2>4. live_in'[i] \subseteq Reg /\ live_out'[i] \subseteq Reg
    BY <1>1, RegConstant DEF SetsOK, Ops
  <2>5. QED
    BY <1>3, <2>3, <2>4
<1>5. /\ StepsLeft = (a + c) * (n + 2) + (n + 1 - pc) + e
      /\ StepsLeft' = (b + d) * (n + 2) + (n + 1 - (pc + 1)) + e
  <2>1. Absent(prog, live_in, live_out)' = Absent(prog, live_in', live_out')
    BY <1>1, RegConstant DEF Absent, Slots
  <2>2. QED
    BY <1>1, <2>1 DEF StepsLeft
<1>6. c \in Nat /\ d \in Nat /\ b + d <= a + c
  BY <1>1, <1>3, <1>4
<1>7. e \in Nat /\ pc \in Nat
  BY <1>1
<1> HIDE DEF n, a, b, c, d, e
<1>8. (b + d) * (n + 2) <= (a + c) * (n + 2) /\ (b + d) * (n + 2) \in Nat /\ (a + c) * (n + 2) \in Nat
  <2>1. n + 2 \in Nat /\ a + c \in Nat /\ b + d \in Nat
    BY <1>1, <1>3, <1>6
  <2>2. CASE b + d = a + c
    BY <2>1, <2>2
  <2>3. CASE b + d < a + c
    BY <2>1, <2>3, RoundLess
  <2>4. QED
    BY <1>6, <2>1, <2>2, <2>3
<1>9. QED
  BY <1>1, <1>5, <1>7, <1>8

LEMMA PassLess ==
  ASSUME IsFiniteSet(VReg), IInv, EndPass \/ Return
  PROVE  StepsLeft' < StepsLeft
<1> DEFINE n == Len(prog)
           a == Cardinality(Absent(prog, live_in, live_out))
           e == IF done THEN 0 ELSE 1
<1>1. /\ pc = n + 1 /\ n \in Nat /\ UNCHANGED <<prog, live_in, live_out>> /\ a \in Nat
      /\ changed \in BOOLEAN
  <2>1. pc = n + 1 /\ n \in Nat /\ UNCHANGED <<prog, live_in, live_out>> /\ changed \in BOOLEAN
    BY DEF EndPass, Return, IInv, Shape
  <2>2. a \in Nat
    BY <2>1, AbsentFewer
  <2>3. QED
    BY <2>1, <2>2
<1>2. Absent(prog, live_in, live_out)' = Absent(prog, live_in, live_out)
  BY <1>1, RegConstant DEF Absent, Slots
<1>3. CASE EndPass
  <2>1. /\ StepsLeft = (a + 1) * (n + 2) + (n + 1 - (n + 1)) + e
        /\ StepsLeft' = (a + 0) * (n + 2) + (n + 1 - 1) + e
    BY <1>1, <1>2, <1>3 DEF EndPass, StepsLeft
  <2>2. e \in Nat
    OBVIOUS
  <2> HIDE DEF n, a, e
  <2>3. a * (n + 2) + (n + 2) <= (a + 1) * (n + 2) /\ a * (n + 2) \in Nat /\ (a + 1) * (n + 2) \in Nat
    <3>1. a + 1 \in Nat /\ a < a + 1 /\ n + 2 \in Nat
      BY <1>1
    <3>2. QED
      BY <1>1, <3>1, RoundLess
  <2>4. a + 0 = a
    BY <1>1
  <2>5. QED
    BY <1>1, <2>1, <2>2, <2>3, <2>4
<1>4. CASE Return
  <2> DEFINE most == (a + 0) * (n + 2)
  <2>1. /\ StepsLeft = most + (n + 1 - (n + 1)) + 1
        /\ StepsLeft' = most + (n + 1 - (n + 1)) + 0
    BY <1>1, <1>2, <1>4 DEF Return, StepsLeft
  <2>2. most \in Int
    BY <1>1
  <2> HIDE DEF most, n
  <2>3. QED
    BY <1>1, <2>1, <2>2
<1>5. QED
  BY <1>3, <1>4

\* Every step of the analysis leaves fewer steps to be made: the loop of
\* flow-analysis.h:126-136 is left, however the operations jump, after at most as many
\* passes as all sets together can have registers, and one.
THEOREM AnalysisEnds ==
  ASSUME IsFiniteSet(VReg)
  PROVE  Spec => [](StepsLeft \in Nat) /\ [][StepsLeft' < StepsLeft]_vars
<1>1. IInv => StepsLeft \in Nat
  <2> SUFFICES ASSUME IInv PROVE StepsLeft \in Nat
    OBVIOUS
  <2> DEFINE n == Len(prog)
             a == Cardinality(Absent(prog, live_in, live_out))
             c == IF changed THEN 1 ELSE 0
  <2>1. n \in Nat /\ pc \in 1 .. n + 1
    BY DEF IInv, Shape
  <2>2. a \in Nat
    BY <2>1, AbsentFewer
  <2>3. n + 2 \in Nat /\ a + c \in Nat
    BY <2>1, <2>2
  <2>4. (a + c) * (n + 2) \in Nat
    BY <2>3
  <2> DEFINE most == (a + c) * (n + 2)
  <2>5. StepsLeft = most + (n + 1 - pc) + (IF done THEN 0 ELSE 1)
    BY DEF StepsLeft
  <2> HIDE DEF most, n
  <2>6. most \in Nat
    BY <2>4 DEF most, n
  <2>7. QED
    BY <2>1, <2>5, <2>6
<1>2. IInv /\ SetsOK /\ SetsOK' /\ [Next]_vars => [StepsLeft' < StepsLeft]_vars
  BY AnalyzeLess, PassLess DEF Next
<1>3. TypeOK => SetsOK
  BY DEF TypeOK, SetsOK
<1>4. QED
  BY <1>1, <1>2, <1>3, FlowInvariant, TypeCorrect, PTL DEF Spec
=============================================================================
