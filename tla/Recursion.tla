----------------------------- MODULE Recursion -----------------------------
(***************************************************************************)
(* A recursive function of a number is what its definition says: the       *)
(* function defined by f[n] == Step(n, f[n - 1]) satisfies this equation,  *)
(* if Step(0, x) does not depend on x.  The library has this with Step as  *)
(* the parameter of a theorem; here it is a constant of the module, which  *)
(* is instantiated for each function.  Induction over numbers (Numbers.tla)*)
(* is a hypothesis, so that an instance does not bring in the library.     *)
(***************************************************************************)
EXTENDS Integers

CONSTANT Step(_, _)

\* g is the part of the function up to n.
Upto(n, g) ==
  /\ g = [m \in 0 .. n |-> g[m]]
  /\ g[0] = Step(0, 0) /\ \A m \in 0 .. n : m > 0 => g[m] = Step(m, g[m - 1])

Induction == \A P \in SUBSET Nat : 0 \in P /\ (\A n \in P : n + 1 \in P) => P = Nat

\* There is such a part for every n, and a longer one says the same.
LEMMA UptoExists ==
  ASSUME Induction
  PROVE  \A n \in Nat : \E g : Upto(n, g)
<1> DEFINE P == {n \in Nat : \E g : Upto(n, g)}
<1>1. 0 \in P
  <2>1. Upto(0, [m \in 0 .. 0 |-> Step(0, 0)])
    BY DEF Upto
  <2>2. QED
    BY <2>1
<1>2. ASSUME NEW n \in P
      PROVE  n + 1 \in P
  <2>1. PICK g : Upto(n, g)
    OBVIOUS
  <2> DEFINE h == [m \in 0 .. n + 1 |-> IF m = n + 1 THEN Step(n + 1, g[n]) ELSE g[m]]
  <2>2. h = [m \in 0 .. n + 1 |-> h[m]]
    OBVIOUS
  <2>3. h[0] = Step(0, 0)
    BY <2>1 DEF Upto
  <2>4. ASSUME NEW m \in 0 .. n + 1, m > 0
        PROVE  h[m] = Step(m, h[m - 1])
    <3>1. h[m - 1] = g[m - 1]
      BY <2>4
    <3>2. CASE m = n + 1
      <4>1. m - 1 = n /\ h[m] = Step(n + 1, g[n])
        BY <3>2
      <4>2. QED
        BY <3>1, <3>2, <4>1
    <3>3. CASE m # n + 1
      <4>1. m \in 0 .. n /\ h[m] = g[m]
        BY <3>3, <2>4
      <4>2. QED
        BY <2>1, <2>4, <3>1, <4>1 DEF Upto
    <3>4. QED
      BY <3>2, <3>3
  <2> HIDE DEF h
  <2>5. Upto(n + 1, h)
    BY <2>2, <2>3, <2>4 DEF Upto
  <2>6. QED
    BY <2>5
<1>3. P \in SUBSET Nat
  OBVIOUS
<1> HIDE DEF P
<1>4. P = Nat
  BY <1>1, <1>2, <1>3 DEF Induction
<1>5. QED
  BY <1>4 DEF P

LEMMA UptoAgree ==
  ASSUME Induction, NEW n \in Nat, NEW k \in Nat, NEW g, NEW h, Upto(n, g), Upto(k, h), n <= k
  PROVE  \A m \in 0 .. n : g[m] = h[m]
<1> DEFINE P == {m \in Nat : m <= n => g[m] = h[m]}
<1>1. 0 \in P
  BY DEF Upto
<1>2. ASSUME NEW m \in P
      PROVE  m + 1 \in P
  <2> SUFFICES ASSUME m + 1 <= n PROVE g[m + 1] = h[m + 1]
    OBVIOUS
  <2>1. g[m] = h[m] /\ (m + 1) - 1 = m /\ m + 1 \in 0 .. n /\ m + 1 \in 0 .. k /\ m + 1 > 0
    OBVIOUS
  <2>2. g[m + 1] = Step(m + 1, g[(m + 1) - 1]) /\ h[m + 1] = Step(m + 1, h[(m + 1) - 1])
    BY <2>1 DEF Upto
  <2>3. QED
    BY <2>1, <2>2
<1>3. P \in SUBSET Nat
  OBVIOUS
<1> HIDE DEF P
<1>4. P = Nat
  BY <1>1, <1>2, <1>3 DEF Induction
<1>5. QED
  BY <1>4 DEF P

\* The equation has a solution, which is therefore what the CHOOSE of a recursive
\* definition stands for.
THEOREM Recursive ==
  ASSUME Induction, \A x : Step(0, x) = Step(0, 0),
         NEW f, f = CHOOSE g : g = [n \in Nat |-> Step(n, g[n - 1])]
  PROVE  f = [n \in Nat |-> Step(n, f[n - 1])]
<1> DEFINE part(n) == CHOOSE g : Upto(n, g)
           whole == [n \in Nat |-> part(n)[n]]
<1>1. ASSUME NEW n \in Nat
      PROVE  Upto(n, part(n))
  BY UptoExists
<1> HIDE DEF part
<1>2. ASSUME NEW n \in Nat
      PROVE  whole[n] = Step(n, whole[n - 1])
  <2>1. CASE n = 0
    <3>1. whole[0] = Step(0, 0)
      BY <1>1 DEF Upto
    <3>2. Step(0, whole[0 - 1]) = Step(0, 0)
      OBVIOUS
    <3>3. QED
      BY <2>1, <3>1, <3>2
  <2>2. CASE n > 0
    <3>1. n - 1 \in Nat /\ n - 1 <= n /\ n - 1 \in 0 .. (n - 1) /\ n \in 0 .. n
      BY <2>2
    <3>2. part(n - 1)[n - 1] = part(n)[n - 1]
      BY <1>1, <3>1, UptoAgree
    <3>3. part(n)[n] = Step(n, part(n)[n - 1])
      BY <1>1, <2>2, <3>1 DEF Upto
    <3>4. whole[n - 1] = part(n - 1)[n - 1] /\ whole[n] = part(n)[n]
      BY <3>1
    <3>5. QED
      BY <2>2, <3>2, <3>3, <3>4
  <2>3. QED
    BY <2>1, <2>2
<1>3. whole = [n \in Nat |-> Step(n, whole[n - 1])]
  BY <1>2
<1> HIDE DEF whole
<1>4. \E g : g = [n \in Nat |-> Step(n, g[n - 1])]
  BY <1>3
<1>5. QED
  BY <1>4
=============================================================================
