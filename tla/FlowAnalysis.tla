--------------------------- MODULE FlowAnalysis ---------------------------
(***************************************************************************)
(* The data-flow analysis of MyJIT (jsdos/myjit/flow-analysis.h): which    *)
(* registers are alive before and after each operation.  The allocator     *)
(* saves and loads only what is alive, so a register missing from a set is *)
(* a value lost, and one too many is a register it cannot use.             *)
(*                                                                         *)
(* jit_flw_analysis walks the operations forward, over and over, until a   *)
(* pass changes nothing.  Each operation is analysed from the sets the     *)
(* others have at that moment, some of this pass and some of the last.     *)
(***************************************************************************)
EXTENDS JitOps

VARIABLES
  prog,       \* the operations, from jit_op_first(jit->ops) on
  live_in,    \* live_in[i], live_out[i]: the sets of operation i
  live_out,
  pc,         \* the operation analysed next; Len(prog) + 1 after the last
  changed,    \* a set has changed in this pass
  done        \* the analysis has returned

vars == <<prog, live_in, live_out, pc, changed, done>>

Ops == 1 .. Len(prog)

-----------------------------------------------------------------------------
\* jit_flw_initialize: empty sets.
Init ==
  /\ prog \in Programs
  /\ live_in = [i \in Ops |-> {}]
  /\ live_out = [i \in Ops |-> {}]
  /\ pc = 1
  /\ changed = FALSE
  /\ done = FALSE

\* Mutant: a pass remembers only whether its last operation has changed.
AnalyzeOpForgets ==
  /\ pc \in Ops
  /\ live_in' = [live_in EXCEPT ![pc] = InOf(prog, pc, live_out[pc])]
  /\ live_out' = [live_out EXCEPT ![pc] = OutOf(prog, pc, live_in')]
  /\ changed' = (live_in' # live_in \/ live_out' # live_out)
  /\ pc' = pc + 1
  /\ UNCHANGED <<prog, done>>

\* __flw_analyze_op: live_in from the old live_out, then live_out from the
\* live_in of the operations that may follow.
AnalyzeOp ==
  /\ pc \in Ops
  /\ live_in' = [live_in EXCEPT ![pc] = InOf(prog, pc, live_out[pc])]
  /\ live_out' = [live_out EXCEPT ![pc] = OutOf(prog, pc, live_in')]
  /\ changed' = (changed \/ live_in' # live_in \/ live_out' # live_out)
  /\ pc' = pc + 1
  /\ UNCHANGED <<prog, done>>

\* Mutants: each pass starts from empty sets; "changed" is never reset.
EndPassEmpties ==
  /\ pc = Len(prog) + 1
  /\ changed
  /\ pc' = 1
  /\ changed' = FALSE
  /\ live_in' = [i \in Ops |-> {}]
  /\ live_out' = [i \in Ops |-> {}]
  /\ UNCHANGED <<prog, done>>

EndPassKeepsChanged ==
  /\ pc = Len(prog) + 1
  /\ changed
  /\ pc' = 1
  /\ UNCHANGED <<prog, live_in, live_out, changed, done>>

\* The end of a pass: another one if anything has changed.
EndPass ==
  /\ pc = Len(prog) + 1
  /\ changed
  /\ pc' = 1
  /\ changed' = FALSE
  /\ UNCHANGED <<prog, live_in, live_out, done>>

Return ==
  /\ pc = Len(prog) + 1
  /\ ~changed
  /\ ~done
  /\ done' = TRUE
  /\ UNCHANGED <<prog, live_in, live_out, pc, changed>>

Next == AnalyzeOp \/ EndPass \/ Return

\* One thread runs the loop, and nothing in it waits.
Spec == Init /\ [][Next]_vars /\ WF_vars(Next)

-----------------------------------------------------------------------------
(* Properties.                                                             *)

Reg == VReg \cup {ArgReg(t, j) : t \in {"INT", "FLOAT"}, j \in 0 .. MaxArgs - 1}

\* The types of the variables (the sets of flow-analysis.h:25-26).
TypeOK ==
  /\ WellFormed(prog)
  /\ live_in \in [Ops -> SUBSET Reg]
  /\ live_out \in [Ops -> SUBSET Reg]
  /\ pc \in 1 .. Len(prog) + 1
  /\ changed \in BOOLEAN
  /\ done \in BOOLEAN

\* When a pass has changed nothing (flow-analysis.h:136), the sets solve the
\* equations, although no operation saw the sets of that pass's end.
ReturnsSolution == done => Solves(prog, live_in, live_out)

\* Liveness by paths.  The operations from which one that reads r can be reached
\* along operations that do not make r, in as many steps as the program is long or
\* fewer: those that r is alive before.
Readers(p, r) == {i \in 1 .. Len(p) : r \in Gen(p, i)}
Before(p, r, S) == S \cup {i \in 1 .. Len(p) : r \notin Kill(p, i) /\ Succ(p, i) \cap S # {}}
Alive(p, r) ==
  LET reaching[n \in 0 .. Len(p)] ==
        IF n = 0 THEN Readers(p, r) ELSE Before(p, r, reaching[n - 1])
  IN  reaching[Len(p)]

\* The analysis finds the registers that are alive along some way through the
\* program, and no other (flow-analysis.h:31-137).
FindsLiveness ==
  done => \A i \in Ops, r \in Reg : r \in live_in[i] <=> i \in Alive(prog, r)

\* Sets only grow, from the empty ones, so that the passes come to an end
\* (flow-analysis.h:115: "result" tells a change, not a growth).
OnlyGrow ==
  [][\A i \in Ops : /\ live_in[i] \subseteq live_in'[i]
                    /\ live_out[i] \subseteq live_out'[i]]_vars

\* jit_flw_analysis returns (the loop of flow-analysis.h:126-136).
Terminates == <>done
=============================================================================
