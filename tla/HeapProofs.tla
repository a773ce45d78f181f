---------------------------- MODULE HeapProofs ----------------------------
(***************************************************************************)
(* Proofs about Heap.tla, for memories of any size and blocks of any sizes.*)
(*                                                                         *)
(* TypeOK and the properties are not inductive: what a header says matters *)
(* as soon as free reads it, and whether anything has overwritten it       *)
(* depends on where all the blocks ever given out are.  IInv says that the *)
(* headers, from MEM_DATA to mem_next, are a chain: each ends where the    *)
(* next begins, none reaches into another, and each tells whether its      *)
(* block is live.                                                          *)
(***************************************************************************)
EXTENDS Heap, TLAPS, FiniteSetTheorems

\* The size in the header of the block at p, and where the block ends.
SizeIn(m, p) == Allocated(m, HeaderOf(p))
EndIn(m, p) == p + SizeIn(m, p)

\* The memory, the end of the chain, the blocks ever given and those held.
ChainTypes(m, end, G, H) ==
  /\ m \in [Addr -> Word]
  /\ end \in Addr
  /\ G \subseteq Addr
  /\ DOMAIN H \subseteq G
  /\ H \in [DOMAIN H -> Sizes]

\* The chain is inside the memory and ends with an empty header.
ChainEnds(m, end, G) ==
  /\ end + HeaderSize <= MemSize
  /\ G = {} => end = 0
  /\ G # {} => HeaderSize \in G /\ Allocated(m, end) = 0

\* Every block ends where the next header, or the last one, begins.
ChainLinks(m, end, G) ==
  \A p \in G :
    /\ p >= HeaderSize
    /\ SizeIn(m, p) \in Sizes
    /\ EndIn(m, p) <= end
    /\ EndIn(m, p) = end \/ EndIn(m, p) + HeaderSize \in G

\* No block reaches into the header of a later one.
ChainOrdered(m, G) == \A p, q \in G : p < q => EndIn(m, p) <= HeaderOf(q)

\* A header tells whether its block is live.
HeadersTell(m, G, H) ==
  \A p \in G :
    /\ p \in DOMAIN H => SizeIn(m, p) = H[p] /\ Freed(m, HeaderOf(p)) = 0
    /\ p \notin DOMAIN H =>
         SizeIn(m, p) > 0 /\ Freed(m, HeaderOf(p)) = SizeIn(m, p)

Chain(m, end, G, H) ==
  /\ ChainTypes(m, end, G, H)
  /\ ChainEnds(m, end, G)
  /\ ChainLinks(m, end, G)
  /\ ChainOrdered(m, G)
  /\ HeadersTell(m, G, H)

\* The walk is at a header, and has listed the live blocks before it.
WalkSoFar ==
  walk # Idle =>
    /\ given # {}
    /\ walk = mem_next \/ walk + HeaderSize \in given
    /\ report = {p \in DOMAIN held : HeaderOf(p) < walk}

IInv ==
  /\ TypeOK
  /\ Chain(mem, mem_next, given, held)
  /\ WalkSoFar
  /\ AssertsHoldForWords

USE HeapAssumption DEF HeapAssumption, HeaderSize, Addr, Idle

-----------------------------------------------------------------------------
(* The memory after malloc and free.                                       *)

\* What malloc_dbg writes (stdlib.c:14-32) and what it leaves alone.
LEMMA MallocWrites ==
  ASSUME NEW m \in [Addr -> Word], NEW r \in Addr, NEW n \in Nat,
         r + 2 + n + 2 <= MemSize
  PROVE  /\ MallocMem(m, r, n) \in [Addr -> Word]
         /\ MallocMem(m, r, n)[r] = n
         /\ MallocMem(m, r, n)[r + 1] = 0
         /\ MallocMem(m, r, n)[r + 2 + n] = 0
         /\ \A a \in Addr : a < r => MallocMem(m, r, n)[a] = m[a]
BY DEF MallocMem

\* What free_dbg writes (stdlib.c:51, 59) and what it leaves alone.
LEMMA FreeWrites ==
  ASSUME NEW m \in [Addr -> Word], NEW p \in Addr, p >= 2,
         p + m[p - 2] <= MemSize
  PROVE  /\ FreeMem(m, p) \in [Addr -> Word]
         /\ FreeMem(m, p)[p - 2] = m[p - 2]
         /\ FreeMem(m, p)[p - 1] = m[p - 2]
         /\ \A a \in Addr : (a < p - 1 \/ a >= p + m[p - 2])
                               => FreeMem(m, p)[a] = m[a]
<1> DEFINE n == m[p - 2]
<1>0. p - 2 \in Addr
  OBVIOUS
<1>1. n \in Nat /\ n \in Word
  BY <1>0
<1>2. FreeMem(m, p) = [a \in Addr |-> IF a \in p .. p + n - 1 THEN Fill
                                      ELSE IF a = p - 1 THEN n ELSE m[a]]
  BY DEF FreeMem, Allocated, HeaderOf
<1>3. QED
  BY <1>1, <1>2

-----------------------------------------------------------------------------
(* The chain after malloc, free and a write.                               *)

\* malloc_dbg makes the chain longer by one block, at its end.
LEMMA ChainMalloc ==
  ASSUME NEW m, NEW end, NEW G, NEW H, Chain(m, end, G, H),
         NEW n \in Sizes, end + 2 + n + 2 <= MemSize
  PROVE  Chain(MallocMem(m, end, n), end + 2 + n, G \cup {end + 2},
               With(H, end + 2, n))
<1> DEFINE ptr == end + 2
           m1 == MallocMem(m, end, n)
           end1 == ptr + n
           G1 == G \cup {ptr}
           H1 == With(H, ptr, n)
<1>1. /\ n \in Nat /\ end \in Addr /\ ptr \in Addr /\ end1 \in Addr
      /\ m \in [Addr -> Word] /\ G \subseteq Addr
  <2>1. end \in Addr /\ m \in [Addr -> Word] /\ G \subseteq Addr
    BY Zenon DEF Chain, ChainTypes
  <2>2. n \in Nat
    OBVIOUS
  <2>3. ptr \in Addr /\ end1 \in Addr
    BY <2>1, <2>2 DEF Addr
  <2>4. QED
    BY <2>1, <2>2, <2>3
<1>2. /\ m1 \in [Addr -> Word]
      /\ m1[end] = n /\ m1[end + 1] = 0 /\ m1[end1] = 0
      /\ \A a \in Addr : a < end => m1[a] = m[a]
  <2>1. end + 2 + n + 2 <= MemSize
    OBVIOUS
  <2>2. m1 \in [Addr -> Word] /\ m1[end] = n
    BY <1>1, <2>1, MallocWrites
  <2>3. m1[end + 1] = 0 /\ m1[end1] = 0
    BY <1>1, <2>1, MallocWrites
  <2>4. ASSUME NEW a \in Addr, a < end
        PROVE  m1[a] = m[a]
    BY <1>1, <2>1, <2>4, MallocWrites
  <2>5. QED
    BY <2>2, <2>3, <2>4
<1> USE DEF SizeIn, EndIn, Allocated, Freed, HeaderOf
<1>3. \A p \in G : /\ p \in Addr /\ p >= 2 /\ p <= end
                   /\ m1[p - 2] = m[p - 2] /\ m1[p - 1] = m[p - 1]
                   /\ m[p - 2] \in Nat
  <2> SUFFICES ASSUME NEW p \in G
               PROVE  /\ p \in Addr /\ p >= 2 /\ p <= end
                      /\ m1[p - 2] = m[p - 2] /\ m1[p - 1] = m[p - 1]
                      /\ m[p - 2] \in Nat
    OBVIOUS
  <2>1. p \in Addr /\ p >= 2 /\ p + m[p - 2] <= end /\ m[p - 2] \in Nat
    BY <1>1 DEF Chain, ChainLinks
  <2>2. p - 2 \in Addr /\ p - 1 \in Addr /\ p - 1 < end
    BY <1>1, <2>1
  <2>3. QED
    BY <1>1, <1>2, <2>1, <2>2
<1> HIDE DEF m1
<1>4. ChainTypes(m1, end1, G1, H1)
  <2>1. H1 \in [DOMAIN H1 -> Sizes] /\ DOMAIN H1 \subseteq G1
    BY <1>1 DEF With, Chain, ChainTypes
  <2>2. QED
    BY <1>1, <1>2, <2>1 DEF ChainTypes
<1>5. ChainEnds(m1, end1, G1)
  BY <1>1, <1>2 DEF Chain, ChainEnds
<1>6. ChainLinks(m1, end1, G1)
  <2> SUFFICES ASSUME NEW p \in G1
               PROVE  /\ p >= 2 /\ m1[p - 2] \in Sizes /\ p + m1[p - 2] <= end1
                      /\ p + m1[p - 2] = end1 \/ p + m1[p - 2] + 2 \in G1
    BY DEF ChainLinks
  <2>1. CASE p = ptr
    BY <1>1, <1>2, <2>1
  <2>2. CASE p \in G
    <3>1. /\ m[p - 2] \in Sizes /\ p + m[p - 2] <= end
          /\ p + m[p - 2] = end \/ p + m[p - 2] + 2 \in G
      BY <2>2 DEF Chain, ChainLinks
    <3>2. m1[p - 2] = m[p - 2] /\ p \in Int /\ p >= 2 /\ m[p - 2] \in Int
      BY <1>3, <2>2
    <3>3. p + m[p - 2] <= end1
      BY <1>1, <3>1, <3>2
    <3>4. QED
      BY <3>1, <3>2, <3>3
  <2>3. QED
    BY <2>1, <2>2
<1>7. ChainOrdered(m1, G1)
  BY <1>1, <1>2, <1>3 DEF Chain, ChainOrdered, ChainLinks
<1>8. HeadersTell(m1, G1, H1)
  <2>1. /\ DOMAIN H1 = DOMAIN H \cup {ptr} /\ H1[ptr] = n
        /\ \A p \in DOMAIN H : p # ptr => H1[p] = H[p]
    BY DEF With
  <2>2. HeadersTell(m, G, H)
    BY DEF Chain
  <2>3. m1[ptr - 2] = n /\ m1[ptr - 1] = 0
    BY <1>1, <1>2
  <2>4. \A p \in G : p # ptr
    BY <1>1, <1>3
  <2> HIDE DEF H1, ptr
  <2>5. ASSUME NEW p \in G
        PROVE  /\ p \in DOMAIN H1 => m1[p - 2] = H1[p] /\ m1[p - 1] = 0
               /\ p \notin DOMAIN H1 => m1[p - 2] > 0 /\ m1[p - 1] = m1[p - 2]
    <3>1. m1[p - 2] = m[p - 2] /\ m1[p - 1] = m[p - 1] /\ p # ptr
      BY <1>3, <2>4
    <3>2. /\ p \in DOMAIN H => m[p - 2] = H[p] /\ m[p - 2 + 1] = 0
          /\ p \notin DOMAIN H => m[p - 2] > 0 /\ m[p - 2 + 1] = m[p - 2]
      BY <2>2 DEF HeadersTell
    <3>3. p - 2 + 1 = p - 1
      BY <1>3
    <3>4. QED
      BY <2>1, <3>1, <3>2, <3>3
  <2>6. ptr - 2 + 1 = ptr - 1 /\ \A p \in G : p - 2 + 1 = p - 1
    BY <1>1, <1>3
  <2>7. QED
    BY <2>1, <2>3, <2>5, <2>6 DEF HeadersTell
<1>9. QED
  BY <1>4, <1>5, <1>6, <1>7, <1>8 DEF Chain, m1

\* free_dbg changes one header and the words of its block, and no other header.
LEMMA ChainFree ==
  ASSUME NEW m, NEW end, NEW G, NEW H, Chain(m, end, G, H),
         NEW p \in DOMAIN H, FreeAsserts(m, p)
  PROVE  Chain(FreeMem(m, p), end, G, Without(H, p))
<1> DEFINE m1 == FreeMem(m, p)
           H1 == Without(H, p)
<1> USE DEF SizeIn, EndIn, Allocated, Freed, HeaderOf
<1>1. /\ end \in Addr /\ p \in G /\ m \in [Addr -> Word]
      /\ G \subseteq Addr
  BY DEF Chain, ChainTypes
<1>2. \A q \in G : /\ q \in Addr /\ q >= 2 /\ q - 2 \in Addr /\ q - 1 \in Addr
                   /\ m[q - 2] \in Nat /\ q + m[q - 2] <= end
  <2> TAKE q \in G
  <2>1. q \in Addr /\ q >= 2 /\ m[q - 2] \in Nat /\ q + m[q - 2] <= end
    BY <1>1 DEF Chain, ChainLinks
  <2>2. QED
    BY <2>1
<1>3. m[p - 2] > 0 /\ p + m[p - 2] <= MemSize
  BY <1>1, <1>2 DEF FreeAsserts
<1>4. /\ m1 \in [Addr -> Word]
      /\ m1[p - 2] = m[p - 2] /\ m1[p - 1] = m[p - 2]
      /\ \A a \in Addr : (a < p - 1 \/ a >= p + m[p - 2]) => m1[a] = m[a]
  BY <1>1, <1>2, <1>3, FreeWrites
<1>5. \A q \in G : q # p => m1[q - 2] = m[q - 2] /\ m1[q - 1] = m[q - 1]
  <2> SUFFICES ASSUME NEW q \in G, q # p
               PROVE  m1[q - 2] = m[q - 2] /\ m1[q - 1] = m[q - 1]
    OBVIOUS
  <2>1. q < p => q + m[q - 2] <= p - 2
    BY <1>1 DEF Chain, ChainOrdered
  <2>2. p < q => p + m[p - 2] <= q - 2
    BY <1>1 DEF Chain, ChainOrdered
  <2>3. /\ p \in Int /\ m[p - 2] \in Nat
        /\ q \in Int /\ m[q - 2] \in Nat
    BY <1>1, <1>2
  <2>4. \/ q - 2 < p - 1 /\ q - 1 < p - 1
        \/ q - 2 >= p + m[p - 2] /\ q - 1 >= p + m[p - 2]
    BY <2>1, <2>2, <2>3
  <2>5. QED
    BY <1>2, <1>4, <2>4
<1>6. m1[end] = m[end]
  BY <1>1, <1>2, <1>4
<1> HIDE DEF m1
<1>7. ChainTypes(m1, end, G, H1)
  BY <1>1, <1>4 DEF Chain, ChainTypes, Without
<1>8. ChainEnds(m1, end, G)
  BY <1>1, <1>6 DEF Chain, ChainEnds
<1>9. \A q \in G : m1[q - 2] = m[q - 2]
  BY <1>4, <1>5
<1>10. ChainLinks(m1, end, G) /\ ChainOrdered(m1, G)
  BY <1>9 DEF Chain, ChainLinks, ChainOrdered
<1>11. HeadersTell(m1, G, H1)
  <2>1. DOMAIN H1 = DOMAIN H \ {p} /\ \A q \in DOMAIN H \ {p} : H1[q] = H[q]
    BY DEF Without
  <2>2. HeadersTell(m, G, H)
    BY DEF Chain
  <2> HIDE DEF H1
  <2> SUFFICES ASSUME NEW q \in G
               PROVE  /\ q \in DOMAIN H1 => m1[q - 2] = H1[q] /\ m1[q - 2 + 1] = 0
                      /\ q \notin DOMAIN H1 => m1[q - 2] > 0 /\ m1[q - 2 + 1] = m1[q - 2]
    BY DEF HeadersTell
  <2>3. q - 2 + 1 = q - 1
    BY <1>2
  <2>4. CASE q = p
    BY <1>3, <1>4, <2>1, <2>3, <2>4
  <2>5. CASE q # p
    BY <1>5, <2>1, <2>2, <2>3, <2>5 DEF HeadersTell
  <2>6. QED
    BY <2>4, <2>5
<1>12. QED
  BY <1>7, <1>8, <1>10, <1>11 DEF Chain, m1

\* The owner of a block writes in no header.
LEMMA ChainWrite ==
  ASSUME NEW m, NEW end, NEW G, NEW H, Chain(m, end, G, H),
         NEW p \in DOMAIN H, NEW i \in 0 .. H[p] - 1, NEW v \in Word
  PROVE  /\ p + i \in Addr
         /\ Chain([m EXCEPT ![p + i] = v], end, G, H)
<1> DEFINE m1 == [m EXCEPT ![p + i] = v]
<1> USE DEF SizeIn, EndIn, Allocated, Freed, HeaderOf
<1>1. /\ end \in Addr /\ p \in G /\ m \in [Addr -> Word]
      /\ G \subseteq Addr /\ end + 2 <= MemSize
  BY DEF Chain, ChainTypes, ChainEnds
<1>2. \A q \in G : /\ q \in Addr /\ q >= 2 /\ q - 2 \in Addr /\ q - 1 \in Addr
                   /\ m[q - 2] \in Nat /\ q + m[q - 2] <= end
  <2> TAKE q \in G
  <2>1. q \in Addr /\ q >= 2 /\ m[q - 2] \in Nat /\ q + m[q - 2] <= end
    BY <1>1 DEF Chain, ChainLinks
  <2>2. QED
    BY <2>1
<1>3. m[p - 2] = H[p]
  BY <1>1 DEF Chain, HeadersTell
<1>4. i \in Nat /\ i < m[p - 2] /\ p \in Int /\ m[p - 2] \in Nat
  BY <1>1, <1>2, <1>3
<1>5. p + i \in Addr /\ p + i < end
  BY <1>1, <1>2, <1>4
<1>6. m1 \in [Addr -> Word] /\ \A a \in Addr : a # p + i => m1[a] = m[a]
  BY <1>1
<1>7. \A q \in G : m1[q - 2] = m[q - 2] /\ m1[q - 1] = m[q - 1]
  <2> SUFFICES ASSUME NEW q \in G
               PROVE  m1[q - 2] = m[q - 2] /\ m1[q - 1] = m[q - 1]
    OBVIOUS
  <2>1. q < p => q + m[q - 2] <= p - 2
    BY <1>1 DEF Chain, ChainOrdered
  <2>2. p < q => p + m[p - 2] <= q - 2
    BY <1>1 DEF Chain, ChainOrdered
  <2>3. q \in Int /\ m[q - 2] \in Nat
    BY <1>2
  <2>4. q - 2 # p + i /\ q - 1 # p + i
    BY <1>4, <2>1, <2>2, <2>3
  <2>5. QED
    BY <1>2, <1>6, <2>4
<1>8. m1[end] = m[end]
  BY <1>1, <1>5, <1>6
<1> HIDE DEF m1
<1>9. ChainTypes(m1, end, G, H)
  BY <1>6 DEF Chain, ChainTypes
<1>10. ChainEnds(m1, end, G)
  BY <1>8 DEF Chain, ChainEnds
<1>11. ChainLinks(m1, end, G) /\ ChainOrdered(m1, G)
  BY <1>7 DEF Chain, ChainLinks, ChainOrdered
<1>12. HeadersTell(m1, G, H)
  <2>1. \A q \in G : q - 2 + 1 = q - 1
    BY <1>2
  <2>2. QED
    BY <1>7, <2>1 DEF Chain, HeadersTell
<1>13. QED
  BY <1>5, <1>9, <1>10, <1>11, <1>12 DEF Chain, m1

-----------------------------------------------------------------------------
(* The invariant.                                                          *)

LEMMA InitIInv == Init => IInv
<1> SUFFICES ASSUME Init PROVE IInv
  OBVIOUS
<1> USE DEF Init
<1>1. DOMAIN held = {}
  OBVIOUS
<1>2. mem \in [Addr -> Word] /\ held \in [DOMAIN held -> Sizes]
  BY <1>1
<1>3. TypeOK
  <2>1. halted \in BOOLEAN
    OBVIOUS
  <2>2. mem_next \in Addr /\ mem_alloced \in Int
    OBVIOUS
  <2>3. QED
    BY <1>1, <1>2, <2>1, <2>2, Zenon DEF TypeOK
<1>4. Chain(mem, mem_next, given, held)
  <2>1. ChainTypes(mem, mem_next, given, held)
    BY <1>1, <1>3 DEF ChainTypes, TypeOK
  <2>2. QED
    BY <2>1 DEF Chain, ChainEnds, ChainLinks, ChainOrdered, HeadersTell
<1>5. QED
  BY <1>3, <1>4 DEF IInv, WalkSoFar, AssertsHoldForWords

\* TypeOK says no more of the memory than the chain does.
LEMMA TypeFromChain ==
  ASSUME TypeOK, UNCHANGED <<walk, report, halted>>, mem_alloced' \in Int,
         Chain(mem, mem_next, given, held)'
  PROVE  TypeOK'
<1>1. /\ mem' \in [Addr -> Word] /\ mem_next' \in Addr /\ given' \subseteq Addr
      /\ DOMAIN held' \subseteq given' /\ held' \in [DOMAIN held' -> Sizes]
  BY Zenon DEF Chain, ChainTypes
<1>2. walk' \in Addr \cup {Idle} /\ report' \subseteq Addr /\ halted' \in BOOLEAN
  BY Zenon DEF TypeOK
<1>3. DOMAIN held' \subseteq Addr
  BY <1>1, Zenon
<1>4. QED
  BY <1>1, <1>2, <1>3, Zenon DEF TypeOK

LEMMA NextIInv == IInv /\ [Next]_vars => IInv'
<1> SUFFICES ASSUME IInv, [Next]_vars PROVE IInv'
  OBVIOUS
<1> USE DEF IInv
<1>0. mem_alloced \in Int /\ mem \in [Addr -> Word]
  BY DEF TypeOK
<1>1. ASSUME NEW n \in Sizes, Malloc(n) PROVE IInv'
  <2>1. /\ mem_next + 2 + n + 2 <= MemSize
        /\ mem' = MallocMem(mem, mem_next, n)
        /\ mem_next' = mem_next + 2 + n
        /\ given' = given \cup {mem_next + 2}
        /\ held' = With(held, mem_next + 2, n)
        /\ mem_alloced' = mem_alloced + n
        /\ UNCHANGED <<walk, report, halted>> /\ walk = Idle /\ ~halted
    BY <1>1 DEF Malloc, Room, Running, walker
  <2>2. Chain(mem, mem_next, given, held)'
    BY <2>1, ChainMalloc
  <2>3. TypeOK'
    BY <1>0, <2>1, <2>2, TypeFromChain
  <2>4. QED
    BY <2>1, <2>2, <2>3 DEF WalkSoFar, AssertsHoldForWords
<1>2. ASSUME NEW p \in DOMAIN held, Free(p) PROVE IInv'
  <2>1. /\ FreeAsserts(mem, p)
        /\ mem' = FreeMem(mem, p)
        /\ held' = Without(held, p)
        /\ mem_alloced' = mem_alloced - mem[p - 2]
        /\ UNCHANGED <<mem_next, given, walk, report, halted>>
        /\ walk = Idle /\ ~halted
    BY <1>2 DEF Free, Running, walker, Allocated, HeaderOf
  <2>2. Chain(mem, mem_next, given, held)'
    BY <2>1, ChainFree
  <2>3. mem[p - 2] \in Nat
    BY DEF Chain, ChainTypes, ChainLinks, SizeIn, Allocated, HeaderOf
  <2>4. TypeOK'
    BY <1>0, <2>1, <2>2, <2>3, TypeFromChain
  <2>5. QED
    BY <2>1, <2>2, <2>4 DEF WalkSoFar, AssertsHoldForWords
<1>3. ASSUME NEW p \in DOMAIN held, AssertFails(p) PROVE IInv'
  <2>1. /\ ~FreeAsserts(mem, p) /\ halted'
        /\ UNCHANGED <<mem, mem_next, mem_alloced, held, given, walk, report>>
    BY <1>3 DEF AssertFails, heap, walker
  <2>2. held[p] = 0
    <3>1. SizeIn(mem, p) = held[p] /\ Freed(mem, HeaderOf(p)) = 0
      BY DEF Chain, ChainTypes, HeadersTell
    <3>2. held[p] \in Nat
      BY DEF Chain, ChainTypes
    <3>3. QED
      BY <2>1, <3>1, <3>2 DEF FreeAsserts, SizeIn
  <2>3. TypeOK' /\ WalkSoFar' /\ Chain(mem, mem_next, given, held)'
    BY <1>3, <2>1 DEF TypeOK, WalkSoFar, AssertFails
  <2>4. QED
    BY <2>1, <2>2, <2>3 DEF AssertsHoldForWords
<1>4. ASSUME NEW p \in DOMAIN held, NEW n \in Sizes, Realloc(p, n) PROVE IInv'
  <2>1. /\ mem_next + 2 + n + 2 <= MemSize
        /\ FreeAsserts(mem, p)
        /\ mem' = MallocMem(FreeMem(mem, p), mem_next, n)
        /\ mem_next' = mem_next + 2 + n
        /\ given' = given \cup {mem_next + 2}
        /\ held' = With(Without(held, p), mem_next + 2, n)
        /\ mem_alloced' = mem_alloced - mem[p - 2] + n
        /\ UNCHANGED <<walk, report, halted>> /\ walk = Idle /\ ~halted
    BY <1>4 DEF Realloc, Room, Running, walker, Allocated, HeaderOf
  <2>2. Chain(FreeMem(mem, p), mem_next, given, Without(held, p))
    BY <2>1, ChainFree
  <2>3. Chain(mem, mem_next, given, held)'
    BY <2>1, <2>2, ChainMalloc
  <2>4. mem[p - 2] \in Nat
    BY DEF Chain, ChainTypes, ChainLinks, SizeIn, Allocated, HeaderOf
  <2>5. TypeOK'
    BY <1>0, <2>1, <2>3, <2>4, TypeFromChain
  <2>6. QED
    BY <2>1, <2>3, <2>5 DEF WalkSoFar, AssertsHoldForWords
<1>5. ASSUME NEW p \in DOMAIN held, NEW v \in Values,
             NEW i \in 0 .. held[p] - 1, Write(p, i, v)
      PROVE  IInv'
  <2>1. /\ mem' = [mem EXCEPT ![p + i] = v] /\ walk = Idle /\ ~halted
        /\ UNCHANGED <<mem_next, mem_alloced, held, given, walk, report, halted>>
    BY <1>5 DEF Write, Running, walker
  <2>2. Chain(mem, mem_next, given, held)'
    BY <2>1, ChainWrite
  <2>3. TypeOK'
    BY <1>0, <2>1, <2>2, TypeFromChain
  <2>4. QED
    BY <2>1, <2>2, <2>3 DEF WalkSoFar, AssertsHoldForWords
<1>6. CASE WalkStart
  <2>1. /\ walk' = 0 /\ report' = {} /\ given # {} /\ ~halted
        /\ UNCHANGED <<mem, mem_next, mem_alloced, held, given, halted>>
    BY <1>6 DEF WalkStart, Running, heap
  <2>2. TypeOK' /\ Chain(mem, mem_next, given, held)' /\ AssertsHoldForWords'
    BY <2>1 DEF TypeOK, AssertsHoldForWords
  <2>3. 2 \in given /\ \A p \in given : p \in Int /\ p >= 2
    BY <2>1 DEF Chain, ChainEnds, ChainLinks, ChainTypes
  <2>4. {p \in DOMAIN held : HeaderOf(p) < 0} = {}
    BY <2>3 DEF Chain, ChainTypes, HeaderOf
  <2>5. QED
    BY <2>1, <2>2, <2>3, <2>4 DEF WalkSoFar
<1>7. CASE WalkStep
  <2>1. /\ walk # Idle /\ mem[walk] # 0
        /\ walk' = walk + 2 + mem[walk]
        /\ report' = IF mem[walk + 1] = 0 THEN report \cup {walk + 2} ELSE report
        /\ UNCHANGED <<mem, mem_next, mem_alloced, held, given, halted>>
    BY <1>7 DEF WalkStep, heap, Allocated, Freed
  <2> DEFINE p == walk + 2
  <2>2. walk \in Int /\ p \in given /\ p - 2 = walk /\ p - 2 + 1 = walk + 1
    <3>1. given # {} /\ (walk = mem_next \/ walk + 2 \in given)
      BY <2>1 DEF WalkSoFar
    <3>2. mem[mem_next] = 0
      BY <3>1 DEF Chain, ChainEnds, Allocated
    <3>3. walk \in Int
      BY <2>1 DEF TypeOK
    <3>4. QED
      BY <2>1, <3>1, <3>2, <3>3
  <2>3. /\ mem[walk] \in Nat /\ walk' = p + mem[walk] /\ walk' <= mem_next
        /\ walk' = mem_next \/ walk' + 2 \in given
    BY <2>1, <2>2 DEF Chain, ChainLinks, EndIn, SizeIn, Allocated, HeaderOf
  <2>4. p \in DOMAIN held <=> mem[walk + 1] = 0
    <3>1. /\ p \in DOMAIN held => mem[walk + 1] = 0
          /\ p \notin DOMAIN held => mem[walk] > 0 /\ mem[walk + 1] = mem[walk]
      BY <2>2 DEF Chain, HeadersTell, SizeIn, Allocated, Freed, HeaderOf
    <3>2. QED
      BY <2>1, <3>1
  <2>5. \A q \in DOMAIN held : q - 2 < walk' <=> (q - 2 < walk \/ q = p)
    <3> SUFFICES ASSUME NEW q \in DOMAIN held
                 PROVE  q - 2 < walk' <=> (q - 2 < walk \/ q = p)
      OBVIOUS
    <3>1. q \in given /\ q \in Int
      BY DEF Chain, ChainTypes
    <3>2. p < q => p + mem[walk] <= q - 2
      BY <2>2, <3>1 DEF Chain, ChainOrdered, EndIn, SizeIn, Allocated, HeaderOf
    <3>3. QED
      BY <2>2, <2>3, <3>1, <3>2
  <2>6. report = {q \in DOMAIN held : q - 2 < walk}
    BY <2>1 DEF WalkSoFar, HeaderOf
  <2>7. report' = {q \in DOMAIN held : q - 2 < walk'}
    BY <2>1, <2>4, <2>5, <2>6
  <2>8. WalkSoFar'
    BY <2>1, <2>2, <2>3, <2>7, Zenon DEF WalkSoFar, HeaderOf
  <2>9. TypeOK'
    <3>1. walk' \in Addr
      <4>1. walk' = mem_next \/ walk' + 2 \in Addr
        BY <2>3 DEF TypeOK
      <4>2. mem_next \in Addr /\ walk' \in Int /\ walk' >= 0
        <5>1. mem_next \in Addr /\ walk \in Addr \cup {Idle} /\ walk # Idle
          BY <2>1 DEF TypeOK
        <5>2. QED
          BY <2>1, <2>2, <2>3, <5>1 DEF Addr
      <4>3. QED
        BY <4>1, <4>2, <2>3 DEF Addr
    <3>2. report' \subseteq Addr
      BY <2>1, <2>7 DEF TypeOK
    <3>3. QED
      BY <2>1, <3>1, <3>2, Zenon DEF TypeOK
  <2>10. QED
    BY <2>1, <2>8, <2>9 DEF AssertsHoldForWords
<1>8. CASE WalkEnd
  BY <1>8 DEF WalkEnd, heap, TypeOK, WalkSoFar, AssertsHoldForWords
<1>9. CASE UNCHANGED vars
  BY <1>9 DEF vars, heap, walker, TypeOK, WalkSoFar, AssertsHoldForWords
<1>10. QED
  <2>1. \A v \in Values : v \in Word
    OBVIOUS
  <2>2. QED
    BY <1>1, <1>2, <1>3, <1>4, <1>5, <1>6, <1>7, <1>8, <1>9, Zenon DEF Next

\* Every reachable heap is a chain of headers (stdlib.c:11-60).
THEOREM HeapInvariant == Spec => []IInv
BY InitIInv, NextIInv, PTL DEF Spec

\* The types hold in every reachable state.
THEOREM TypeCorrect == Spec => []TypeOK
BY HeapInvariant, PTL DEF IInv

\* No sequence of calls and writes destroys the header of a live block:
\* malloc's headers, free's marks and fills and the owners' writes never meet
\* (stdlib.c:14-16, 30-32, 51, 59).
THEOREM HeadersStayIntact == Spec => []HeadersIntact
<1>1. IInv => HeadersIntact
  BY DEF IInv, Chain, ChainTypes, HeadersTell, HeadersIntact, SizeIn
<1>2. QED
  BY <1>1, HeapInvariant, PTL

\* free_dbg's assertions (stdlib.c:46-47) fail only for a block of no words.
THEOREM OnlyEmptyBlocksAssert == Spec => []AssertsHoldForWords
BY HeapInvariant, PTL DEF IInv

\* A heap that is never asked for a block of no words never halts the system.
THEOREM NoHaltWithoutEmptyBlocks ==
  ASSUME 0 \notin Sizes PROVE Spec => []AssertsHold
<1>1. IInv => AssertsHold
  BY DEF IInv, AssertsHoldForWords, AssertsHold, TypeOK
<1>2. QED
  BY <1>1, HeapInvariant, PTL

\* mem_walk_leaked lists the blocks still allocated, all of them and no other,
\* up to the first block of no words (stdlib.c:72-105).
THEOREM WalkListsLeaks == Spec => []WalkExact
<1>1. IInv => WalkExact
  <2> SUFFICES ASSUME IInv, walk # Idle, Allocated(mem, walk) = 0
               PROVE  walk = mem_next \/ 0 \in {held[p] : p \in DOMAIN held}
    BY DEF IInv, WalkSoFar, WalkExact
  <2> SUFFICES ASSUME walk # mem_next
               PROVE  \E p \in DOMAIN held : held[p] = 0
    OBVIOUS
  <2> DEFINE p == walk + 2
  <2>1. p \in given /\ walk \in Int /\ p - 2 = walk
    BY DEF IInv, WalkSoFar, TypeOK
  <2>2. SizeIn(mem, p) = 0
    BY <2>1 DEF SizeIn, HeaderOf
  <2>3. p \in DOMAIN held /\ held[p] = 0
    BY <2>1, <2>2 DEF IInv, Chain, HeadersTell
  <2>4. QED
    BY <2>3
<1>2. QED
  BY <1>1, HeapInvariant, PTL

-----------------------------------------------------------------------------
(* Heap implements HeapSpec.                                               *)

\* Where the blocks of a chain are: inside the memory, before its end, and
\* apart from each other and from each other's headers.
LEMMA BlocksApart ==
  ASSUME NEW m, NEW end, NEW G, NEW H, Chain(m, end, G, H)
  PROVE  /\ end \in Addr
         /\ \A p \in DOMAIN H : /\ p \in Addr /\ p >= 2 /\ p \in G
                               /\ H[p] \in Sizes /\ H[p] \in Nat
                               /\ m[p - 2] = H[p] /\ p + H[p] <= end
         /\ \A p, q \in DOMAIN H : p < q => p + H[p] <= q - 2
<1>1. /\ end \in Addr /\ G \subseteq Addr /\ DOMAIN H \subseteq G
      /\ \A p \in DOMAIN H : H[p] \in Sizes
  BY DEF Chain, ChainTypes
<1>2. ASSUME NEW p \in DOMAIN H
      PROVE  /\ p \in Addr /\ p >= 2 /\ p \in G /\ H[p] \in Sizes /\ H[p] \in Nat
             /\ m[p - 2] = H[p] /\ p + H[p] <= end
  <2>1. p \in G /\ p \in Addr
    BY <1>1
  <2>2. m[p - 2] = H[p]
    BY <2>1 DEF Chain, HeadersTell, SizeIn, Allocated, HeaderOf
  <2>3. p >= 2 /\ p + m[p - 2] <= end
    BY <2>1 DEF Chain, ChainLinks, EndIn, SizeIn, Allocated, HeaderOf
  <2>4. QED
    BY <1>1, <2>1, <2>2, <2>3
<1>3. ASSUME NEW p \in DOMAIN H, NEW q \in DOMAIN H, p < q
      PROVE  p + H[p] <= q - 2
  <2>1. p + m[p - 2] <= q - 2
    BY <1>1, <1>3 DEF Chain, ChainOrdered, EndIn, SizeIn, Allocated, HeaderOf
  <2>2. QED
    BY <1>2, <2>1
<1>4. QED
  BY <1>1, <1>2, <1>3

\* Two memories that agree on the words of a block give it the same contents.
LEMMA SameContents ==
  ASSUME NEW m, NEW m1, NEW p, NEW n,
         \A i \in 0 .. n - 1 : m1[p + i] = m[p + i]
  PROVE  [i \in 0 .. n - 1 |-> m1[p + i]] = [i \in 0 .. n - 1 |-> m[p + i]]
OBVIOUS

\* The store new is old with another block of n words, at ptr.
BlockAdded(new, old, ptr, n) ==
  /\ ptr \in Addr /\ ptr \notin DOMAIN old /\ ptr \in DOMAIN new
  /\ new = [q \in DOMAIN old \cup {ptr} |-> IF q = ptr THEN new[ptr] ELSE old[q]]
  /\ new[ptr] \in [0 .. n - 1 -> Word]
  /\ \A q \in DOMAIN old :
       StoreSpec!Cells(ptr, new[ptr]) \cap StoreSpec!Cells(q, old[q]) = {}

LEMMA StoreMalloc ==
  ASSUME NEW m, NEW end, NEW G, NEW H, Chain(m, end, G, H),
         NEW n \in Sizes, end + 2 + n + 2 <= MemSize
  PROVE  BlockAdded(StoreOf(With(H, end + 2, n), MallocMem(m, end, n)),
                    StoreOf(H, m), end + 2, n)
<1> DEFINE ptr == end + 2
           m1 == MallocMem(m, end, n)
           H1 == With(H, ptr, n)
           new == StoreOf(H1, m1)
           old == StoreOf(H, m)
<1>1. /\ end \in Addr /\ n \in Nat /\ ptr \in Addr
      /\ \A p \in DOMAIN H : p \in Addr /\ H[p] \in Nat /\ p + H[p] <= end
  <2>1. /\ end \in Addr
        /\ \A p \in DOMAIN H : p \in Addr /\ H[p] \in Nat /\ p + H[p] <= end
    BY BlocksApart, Zenon
  <2>2. n \in Nat /\ ptr \in Addr
    BY <2>1
  <2>3. QED
    BY <2>1, <2>2, Zenon
<1>2. m \in [Addr -> Word]
  BY DEF Chain, ChainTypes
<1>3. m1 \in [Addr -> Word] /\ \A a \in Addr : a < end => m1[a] = m[a]
  BY <1>1, <1>2, MallocWrites
<1>4. DOMAIN H1 = DOMAIN H \cup {ptr} /\ H1[ptr] = n
      /\ \A q \in DOMAIN H : q # ptr => H1[q] = H[q]
  BY DEF With
<1>5. \A q \in DOMAIN H : q # ptr
  BY <1>1
<1> HIDE DEF m1, H1, ptr
<1>6. /\ DOMAIN old = DOMAIN H /\ DOMAIN new = DOMAIN H \cup {ptr}
      /\ new[ptr] = [i \in 0 .. n - 1 |-> m1[ptr + i]]
      /\ \A q \in DOMAIN H : old[q] = [i \in 0 .. H[q] - 1 |-> m[q + i]]
      /\ \A q \in DOMAIN H : new[q] = [i \in 0 .. H[q] - 1 |-> m1[q + i]]
  BY <1>4, <1>5 DEF StoreOf
<1> HIDE DEF new, old
<1>7. ASSUME NEW q \in DOMAIN H PROVE new[q] = old[q]
  <2>1. \A i \in 0 .. H[q] - 1 : q + i \in Addr /\ q + i < end
    BY <1>1
  <2>2. \A i \in 0 .. H[q] - 1 : m1[q + i] = m[q + i]
    BY <1>3, <2>1
  <2>3. [i \in 0 .. H[q] - 1 |-> m1[q + i]] = [i \in 0 .. H[q] - 1 |-> m[q + i]]
    BY <2>2, SameContents
  <2>4. /\ new[q] = [i \in 0 .. H[q] - 1 |-> m1[q + i]]
        /\ old[q] = [i \in 0 .. H[q] - 1 |-> m[q + i]]
    BY <1>6
  <2>5. QED
    BY <2>3, <2>4
<1>8. new = [q \in DOMAIN new |-> new[q]]
  BY DEF StoreOf, new
<1>9. new = [q \in DOMAIN old \cup {ptr} |-> IF q = ptr THEN new[ptr] ELSE old[q]]
  BY <1>5, <1>6, <1>7, <1>8, Zenon
<1>10. new[ptr] \in [0 .. n - 1 -> Word]
  <2>1. \A i \in 0 .. n - 1 : ptr + i \in Addr
    BY <1>1 DEF ptr
  <2>2. QED
    BY <1>3, <1>6, <2>1
<1>11. ASSUME NEW q \in DOMAIN H
       PROVE  StoreSpec!Cells(ptr, new[ptr]) \cap StoreSpec!Cells(q, old[q]) = {}
  <2>1. DOMAIN new[ptr] = 0 .. n - 1 /\ DOMAIN old[q] = 0 .. H[q] - 1
    BY <1>6
  <2>2. \A i \in 0 .. n - 1, j \in 0 .. H[q] - 1 : ptr + i # q + j
    BY <1>1 DEF ptr
  <2>3. QED
    BY <2>1, <2>2 DEF StoreSpec!Cells
<1>12. QED
  <2>1. ptr \in Addr /\ ptr \notin DOMAIN old /\ ptr \in DOMAIN new
    BY <1>1, <1>5, <1>6
  <2>2. \A q \in DOMAIN old :
          StoreSpec!Cells(ptr, new[ptr]) \cap StoreSpec!Cells(q, old[q]) = {}
    BY <1>6, <1>11, Zenon
  <2>3. BlockAdded(new, old, ptr, n)
    BY <1>9, <1>10, <2>1, <2>2, Zenon DEF BlockAdded
  <2>4. QED
    BY <2>3, Zenon DEF m1, H1, ptr, new, old

LEMMA StoreFree ==
  ASSUME NEW m, NEW end, NEW G, NEW H, Chain(m, end, G, H),
         NEW p \in DOMAIN H, FreeAsserts(m, p)
  PROVE  StoreOf(Without(H, p), FreeMem(m, p)) = Without(StoreOf(H, m), p)
<1> DEFINE m1 == FreeMem(m, p)
           H1 == Without(H, p)
<1>1. /\ end \in Addr
      /\ \A q \in DOMAIN H : /\ q \in Addr /\ q >= 2 /\ H[q] \in Nat
                            /\ q + H[q] <= end /\ m[q - 2] = H[q]
      /\ \A q, r \in DOMAIN H : q < r => q + H[q] <= r - 2
  BY BlocksApart
<1>2. m \in [Addr -> Word]
  BY DEF Chain, ChainTypes
<1>3. p \in Addr /\ p >= 2 /\ p + m[p - 2] <= MemSize
  BY <1>1
<1>4. \A a \in Addr : (a < p - 1 \/ a >= p + m[p - 2]) => m1[a] = m[a]
  BY <1>2, <1>3, FreeWrites
<1>5. DOMAIN H1 = DOMAIN H \ {p} /\ \A q \in DOMAIN H \ {p} : H1[q] = H[q]
  BY DEF Without
<1> HIDE DEF m1, H1
<1>6. ASSUME NEW q \in DOMAIN H \ {p}
      PROVE  [i \in 0 .. H1[q] - 1 |-> m1[q + i]] = [i \in 0 .. H[q] - 1 |-> m[q + i]]
  <2> SUFFICES \A i \in 0 .. H[q] - 1 : m1[q + i] = m[q + i]
    BY <1>5, SameContents
  <2> TAKE i \in 0 .. H[q] - 1
  <2>1. /\ q \in Int /\ H[q] \in Nat /\ p \in Int /\ H[p] \in Nat /\ m[p - 2] = H[p]
        /\ q < p => q + H[q] <= p - 2
        /\ p < q => p + H[p] <= q - 2
    BY <1>1
  <2>2. q + i < p - 1 \/ q + i >= p + m[p - 2]
    BY <2>1
  <2>3. q + i \in Addr
    BY <1>1
  <2>4. QED
    BY <1>4, <2>2, <2>3
<1>7. StoreOf(H1, m1) = [q \in DOMAIN H \ {p} |-> [i \in 0 .. H1[q] - 1 |-> m1[q + i]]]
  BY <1>5 DEF StoreOf
<1>8. Without(StoreOf(H, m), p)
        = [q \in DOMAIN H \ {p} |-> [i \in 0 .. H[q] - 1 |-> m[q + i]]]
  BY DEF StoreOf, Without
<1>9. QED
  BY <1>6, <1>7, <1>8, Zenon DEF m1, H1

LEMMA InitStore == Init => StoreSpec!SInit
<1> SUFFICES ASSUME Init PROVE StoreSpec!SInit
  OBVIOUS
<1>1. DOMAIN held = {} /\ mem_alloced = 0
  BY DEF Init
<1>2. StoreOf(held, mem) = [p \in {} |-> {}]
  BY <1>1 DEF StoreOf
<1>3. QED
  BY <1>1, <1>2 DEF StoreSpec!SInit

LEMMA NextStore == IInv /\ [Next]_vars => [StoreSpec!SNext]_(StoreSpec!svars)
<1> SUFFICES ASSUME IInv, [Next]_vars
             PROVE  StoreSpec!SNext \/ UNCHANGED StoreSpec!svars
  OBVIOUS
<1> DEFINE old == StoreOf(held, mem)
           new == StoreOf(held', mem')
<1>1. Chain(mem, mem_next, given, held)
  BY DEF IInv
<1>2. /\ mem_next \in Addr
      /\ \A p \in DOMAIN held : /\ p \in Addr /\ held[p] \in Sizes /\ held[p] \in Nat
                               /\ mem[p - 2] = held[p]
  BY <1>1, BlocksApart
<1>3. /\ DOMAIN old = DOMAIN held
      /\ \A p \in DOMAIN held : DOMAIN old[p] = 0 .. held[p] - 1
  BY DEF StoreOf
<1>4. ASSUME NEW n \in Sizes, Malloc(n) PROVE StoreSpec!SNext
  <2> DEFINE ptr == mem_next + 2
  <2>1. /\ mem_next + 2 + n + 2 <= MemSize
        /\ mem' = MallocMem(mem, mem_next, n)
        /\ held' = With(held, ptr, n)
        /\ mem_alloced' = mem_alloced + n
    BY <1>4 DEF Malloc, Room
  <2>2. BlockAdded(new, old, ptr, n)
    BY <1>1, <2>1, StoreMalloc
  <2>3. StoreSpec!SMalloc(ptr, n)
    BY <2>1, <2>2, Zenon
       DEF BlockAdded, StoreSpec!SMalloc, StoreSpec!NewBlock
  <2>4. QED
    BY <2>2, <2>3, Zenon DEF BlockAdded, StoreSpec!SNext
<1>5. ASSUME NEW p \in DOMAIN held, Free(p) PROVE StoreSpec!SNext
  <2>1. /\ FreeAsserts(mem, p) /\ mem' = FreeMem(mem, p) /\ held' = Without(held, p)
        /\ mem_alloced' = mem_alloced - held[p]
    BY <1>2, <1>5 DEF Free, Allocated, HeaderOf
  <2>2. new = Without(old, p)
    BY <1>1, <2>1, StoreFree
  <2>3. StoreSpec!SFree(p, held[p])
    BY <1>3, <2>1, <2>2, Zenon DEF StoreSpec!SFree, Without
  <2>4. QED
    BY <1>2, <1>3, <2>3, Zenon DEF StoreSpec!SNext
<1>6. ASSUME NEW p \in DOMAIN held, NEW n \in Sizes, Realloc(p, n)
      PROVE  StoreSpec!SNext
  <2> DEFINE ptr == mem_next + 2
             mid == StoreOf(Without(held, p), FreeMem(mem, p))
  <2>1. /\ mem_next + 2 + n + 2 <= MemSize
        /\ FreeAsserts(mem, p)
        /\ mem' = MallocMem(FreeMem(mem, p), mem_next, n)
        /\ held' = With(Without(held, p), ptr, n)
        /\ mem_alloced' = mem_alloced - held[p] + n
    BY <1>2, <1>6 DEF Realloc, Room, Allocated, HeaderOf
  <2>2. mid = Without(old, p)
    BY <1>1, <2>1, StoreFree
  <2>3. Chain(FreeMem(mem, p), mem_next, given, Without(held, p))
    BY <1>1, <2>1, ChainFree
  <2>4. BlockAdded(new, mid, ptr, n)
    BY <2>1, <2>3, StoreMalloc
  <2> HIDE DEF mid, old, new, ptr
  <2>5. DOMAIN mid = DOMAIN old \ {p} /\ \A q \in DOMAIN old \ {p} : mid[q] = old[q]
    BY <2>2 DEF Without
  <2>6. new = [q \in (DOMAIN old \ {p}) \cup {ptr} |->
                 IF q = ptr THEN new[ptr] ELSE old[q]]
    BY <2>4, <2>5 DEF BlockAdded
  <2>7. \A q \in DOMAIN old \ {p} :
          StoreSpec!Cells(ptr, new[ptr]) \cap StoreSpec!Cells(q, old[q]) = {}
    BY <2>4, <2>5 DEF BlockAdded
  <2>8. StoreSpec!SRealloc(p, held[p], ptr, n)
    BY <1>3, <2>1, <2>4, <2>5, <2>6, <2>7, Zenon
       DEF BlockAdded, StoreSpec!SRealloc, StoreSpec!NewBlock, old, new
  <2>9. QED
    BY <1>2, <1>3, <2>4, <2>8, Zenon DEF BlockAdded, StoreSpec!SNext, old
<1>7. ASSUME NEW p \in DOMAIN held, NEW v \in Values,
             NEW i \in 0 .. held[p] - 1, Write(p, i, v)
      PROVE  StoreSpec!SNext
  <2>1. /\ mem' = [mem EXCEPT ![p + i] = v]
        /\ held' = held /\ mem_alloced' = mem_alloced
    BY <1>7 DEF Write
  <2>2. v \in Word /\ p + i \in Addr /\ i \in Addr /\ p \in Int /\ i \in Int
    <3>1. p + i \in Addr /\ v \in Word
      BY <1>1, ChainWrite
    <3>2. i \in Nat /\ i < held[p] /\ p \in Addr
      BY <1>2
    <3>3. QED
      BY <3>1, <3>2
  <2>3. \A q \in DOMAIN held, j \in Int :
          j \in 0 .. held[q] - 1 /\ ~(q = p /\ j = i) => q + j # p + i
    <3>1. \A q \in DOMAIN held : q < p => q + held[q] <= p - 2
      BY <1>1, BlocksApart
    <3>2. \A q \in DOMAIN held : p < q => p + held[p] <= q - 2
      BY <1>1, BlocksApart
    <3>3. QED
      BY <1>2, <2>2, <3>1, <3>2
  <2>4. mem \in [Addr -> Word]
    BY DEF IInv, TypeOK
  <2>5. \A q \in DOMAIN held : \A j \in 0 .. held[q] - 1 :
          mem'[q + j] = IF q = p /\ j = i THEN v ELSE mem[q + j]
    BY <2>1, <2>2, <2>3, <2>4
  <2>6. new = [q \in DOMAIN held |-> [j \in 0 .. held[q] - 1 |-> mem'[q + j]]]
    BY <2>1 DEF StoreOf
  <2>7. new = [q \in DOMAIN held |-> [j \in 0 .. held[q] - 1 |->
                 IF q = p /\ j = i THEN v ELSE mem[q + j]]]
    BY <2>5, <2>6
  <2>8. [old EXCEPT ![p][i] = v]
          = [q \in DOMAIN held |-> [j \in 0 .. held[q] - 1 |->
               IF q = p /\ j = i THEN v ELSE mem[q + j]]]
    BY DEF StoreOf
  <2>9. StoreSpec!SWrite(p, i, v)
    BY <1>3, <2>1, <2>7, <2>8, Zenon DEF StoreSpec!SWrite
  <2>10. QED
    BY <1>3, <2>2, <2>9, Zenon DEF StoreSpec!SNext
<1>8. ASSUME UNCHANGED <<mem, held, mem_alloced>> PROVE UNCHANGED StoreSpec!svars
  BY <1>8, Zenon DEF StoreSpec!svars
<1>9. ASSUME \/ \E p \in DOMAIN held : AssertFails(p)
             \/ WalkStart \/ WalkStep \/ WalkEnd \/ UNCHANGED vars
      PROVE  UNCHANGED <<mem, held, mem_alloced>>
  BY <1>9 DEF AssertFails, WalkStart, WalkStep, WalkEnd, vars, heap
<1>10. QED
  BY <1>4, <1>5, <1>6, <1>7, <1>8, <1>9, Zenon DEF Next

\* malloc, free and realloc (stdlib.c:11-60) keep the promise of HeapSpec: a
\* block has a place of its own and changes only when its owner writes into
\* it, and mem_get_alloced counts what was asked for, whatever the sizes.
THEOREM HeapImplementsStore == Spec => ImplementsStore
BY InitStore, NextStore, HeapInvariant, PTL
   DEF Spec, ImplementsStore, StoreSpec!SSpec

-----------------------------------------------------------------------------
(* The accounting: each live block has the words it was asked for, and no  *)
(* word belongs to two of them, so a block more or less is as many words   *)
(* more or less.                                                           *)

LEMMA WordsOf ==
  ASSUME NEW p \in Nat, NEW n \in Nat
  PROVE  IsFiniteSet(p .. p + n - 1) /\ Cardinality(p .. p + n - 1) = n
<1>1. /\ IsFiniteSet(p .. p + n - 1)
      /\ Cardinality(p .. p + n - 1) = IF p > p + n - 1 THEN 0 ELSE p + n - 1 - p + 1
  BY FS_Interval
<1>2. QED
  BY <1>1

\* The live words of a chain are words of the memory before its end.
LEMMA LiveWordsIn ==
  ASSUME NEW m, NEW end, NEW G, NEW H, Chain(m, end, G, H)
  PROVE  /\ \A a \in LiveWords(H) : a \in Nat /\ a < end
         /\ IsFiniteSet(LiveWords(H))
<1>1. /\ end \in Addr
      /\ \A p \in DOMAIN H : p \in Addr /\ H[p] \in Nat /\ p + H[p] <= end
  BY BlocksApart
<1>2. \A a \in LiveWords(H) : a \in Nat /\ a < end
  BY <1>1 DEF LiveWords
<1>3. LiveWords(H) \in SUBSET (0 .. end) /\ IsFiniteSet(0 .. end)
  BY <1>1, <1>2, FS_Interval
<1>4. QED
  BY <1>2, <1>3, FS_Subset

\* A block more, where no live block reaches.
LEMMA WordsMore ==
  ASSUME NEW m, NEW end, NEW G, NEW H, Chain(m, end, G, H),
         NEW p \in Nat, p >= end, p \notin DOMAIN H, NEW n \in Nat
  PROVE  Cardinality(LiveWords(With(H, p, n))) = Cardinality(LiveWords(H)) + n
<1> DEFINE block == p .. p + n - 1
           old == LiveWords(H)
<1>1. LiveWords(With(H, p, n)) = old \cup block
  <2>1. DOMAIN With(H, p, n) = DOMAIN H \cup {p}
    BY DEF With
  <2>2. \A q \in DOMAIN H \cup {p} : With(H, p, n)[q] = IF q = p THEN n ELSE H[q]
    BY DEF With
  <2> HIDE DEF block
  <2>3. \A a : a \in LiveWords(With(H, p, n)) <=>
               \E q \in DOMAIN H \cup {p} : a \in q .. q + With(H, p, n)[q] - 1
    BY <2>1 DEF LiveWords
  <2>4. \A a : a \in old <=> \E q \in DOMAIN H : a \in q .. q + H[q] - 1
    BY DEF LiveWords
  <2>5. \A a : a \in LiveWords(With(H, p, n)) <=> a \in old \/ a \in p .. p + n - 1
    BY <2>2, <2>3, <2>4, p \notin DOMAIN H
  <2>6. QED
    BY <2>5 DEF block
<1>2. IsFiniteSet(old) /\ \A a \in old : a \in Nat /\ a < end
  BY LiveWordsIn
<1>3. IsFiniteSet(block) /\ Cardinality(block) = n
  BY WordsOf
<1>4. old \cap block = {}
  BY <1>2, p >= end, end \in Addr DEF Chain, ChainTypes
<1> HIDE DEF old, block
<1>5. /\ Cardinality(old \cup block)
           = Cardinality(old) + Cardinality(block) - Cardinality(old \cap block)
      /\ Cardinality({}) = 0 /\ Cardinality(old) \in Nat
  BY <1>2, <1>3, FS_Union, FS_EmptySet, FS_CardinalityType
<1>6. Cardinality(old \cup block) = Cardinality(old) + n - 0
  BY <1>3, <1>4, <1>5, Zenon
<1>7. Cardinality(old) + n - 0 = Cardinality(old) + n
  BY <1>5
<1>8. QED
  BY <1>1, <1>6, <1>7, Zenon DEF old

\* A block less.
LEMMA WordsLess ==
  ASSUME NEW m, NEW end, NEW G, NEW H, Chain(m, end, G, H), NEW p \in DOMAIN H
  PROVE  Cardinality(LiveWords(Without(H, p))) = Cardinality(LiveWords(H)) - H[p]
<1> DEFINE block == p .. p + H[p] - 1
           all == LiveWords(H)
           rest == LiveWords(Without(H, p))
<1>1. /\ \A q \in DOMAIN H : q \in Nat /\ H[q] \in Nat
      /\ \A q, r \in DOMAIN H : q < r => q + H[q] <= r - 2
  BY BlocksApart
<1>2. /\ DOMAIN Without(H, p) = DOMAIN H \ {p}
      /\ \A q \in DOMAIN H \ {p} : Without(H, p)[q] = H[q]
  BY DEF Without
<1>3. \A a : a \in all <=> \E q \in DOMAIN H : a \in q .. q + H[q] - 1
  BY DEF LiveWords
<1>4. \A a : a \in rest <=> \E q \in DOMAIN H \ {p} : a \in q .. q + H[q] - 1
  BY <1>2 DEF LiveWords
<1>5. all = rest \cup block
  BY <1>3, <1>4
<1>6. rest \cap block = {}
  <2> SUFFICES ASSUME NEW q \in DOMAIN H, q # p, NEW a \in q .. q + H[q] - 1,
                      a \in p .. p + H[p] - 1
               PROVE  FALSE
    BY <1>4
  <2>1. q < p \/ p < q
    BY <1>1
  <2>2. QED
    BY <1>1, <2>1
<1>7. IsFiniteSet(all) /\ IsFiniteSet(block) /\ Cardinality(block) = H[p]
  BY <1>1, LiveWordsIn, WordsOf
<1> HIDE DEF all, rest, block
<1>8. IsFiniteSet(rest)
  BY <1>5, <1>7, FS_Subset
<1>9. /\ Cardinality(rest \cup block)
           = Cardinality(rest) + Cardinality(block) - Cardinality(rest \cap block)
      /\ Cardinality({}) = 0 /\ Cardinality(rest) \in Nat
  BY <1>7, <1>8, FS_Union, FS_EmptySet, FS_CardinalityType
<1>10. Cardinality(all) = Cardinality(rest) + H[p] - 0
  BY <1>5, <1>6, <1>7, <1>9, Zenon
<1>11. Cardinality(rest) = Cardinality(all) - H[p]
  BY <1>1, <1>9, <1>10
<1>12. QED
  BY <1>11, Zenon DEF rest, all

LEMMA NextAccounting == IInv /\ AccountingExact /\ [Next]_vars => AccountingExact'
<1> SUFFICES ASSUME IInv, AccountingExact, [Next]_vars PROVE AccountingExact'
  OBVIOUS
<1>1. /\ Chain(mem, mem_next, given, held) /\ mem_next \in Addr
      /\ \A p \in DOMAIN held : p \in Addr /\ held[p] \in Nat /\ p + held[p] <= mem_next
  BY BlocksApart DEF IInv
<1>2. mem_next + 2 \in Nat /\ mem_next + 2 >= mem_next /\ mem_next + 2 \notin DOMAIN held
  BY <1>1
<1>3. mem_alloced = Cardinality(LiveWords(held)) /\ mem_alloced \in Int
  BY DEF AccountingExact, IInv, TypeOK
<1>4. ASSUME NEW n \in Sizes, Malloc(n) PROVE AccountingExact'
  <2>1. /\ held' = With(held, mem_next + 2, n) /\ mem_alloced' = mem_alloced + n
    BY <1>4 DEF Malloc
  <2>2. Cardinality(LiveWords(held')) = Cardinality(LiveWords(held)) + n
    BY <1>1, <1>2, <2>1, WordsMore
  <2>3. QED
    BY <1>3, <2>1, <2>2 DEF AccountingExact
<1>5. ASSUME NEW p \in DOMAIN held, Free(p) PROVE AccountingExact'
  <2>1. /\ held' = Without(held, p) /\ mem_alloced' = mem_alloced - mem[p - 2]
    BY <1>5 DEF Free, Allocated, HeaderOf
  <2>2. mem[p - 2] = held[p]
    BY <1>1, BlocksApart
  <2>3. Cardinality(LiveWords(held')) = Cardinality(LiveWords(held)) - held[p]
    BY <1>1, <2>1, WordsLess
  <2>4. QED
    BY <1>3, <2>1, <2>2, <2>3 DEF AccountingExact
<1>6. ASSUME NEW p \in DOMAIN held, NEW n \in Sizes, Realloc(p, n) PROVE AccountingExact'
  <2>1. /\ held' = With(Without(held, p), mem_next + 2, n)
        /\ mem_alloced' = mem_alloced - mem[p - 2] + n /\ FreeAsserts(mem, p)
    BY <1>6 DEF Realloc, Allocated, HeaderOf
  <2>2. mem[p - 2] = held[p] /\ held[p] \in Nat /\ n \in Nat
    BY <1>1, BlocksApart
  <2>3. Chain(FreeMem(mem, p), mem_next, given, Without(held, p))
    BY <1>1, <2>1, ChainFree
  <2>4. mem_next + 2 \notin DOMAIN Without(held, p)
    BY <1>2 DEF Without
  <2>5. Cardinality(LiveWords(held')) = Cardinality(LiveWords(Without(held, p))) + n
    BY <1>1, <1>2, <2>1, <2>2, <2>3, <2>4, WordsMore
  <2>6. Cardinality(LiveWords(Without(held, p))) = Cardinality(LiveWords(held)) - held[p]
    BY <1>1, WordsLess
  <2>7. QED
    BY <1>3, <2>1, <2>2, <2>5, <2>6 DEF AccountingExact
<1>7. ASSUME UNCHANGED <<held, mem_alloced>> PROVE AccountingExact'
  BY <1>7 DEF AccountingExact
<1>8. QED
  BY <1>4, <1>5, <1>6, <1>7
     DEF Next, AssertFails, Write, WalkStart, WalkStep, WalkEnd, vars, heap

\* mem_alloced counts the words of the live blocks, none twice (stdlib.c:24, 50).
THEOREM AccountsForEveryWord == Spec => []AccountingExact
<1>1. Init => AccountingExact
  <2> SUFFICES ASSUME Init PROVE AccountingExact
    OBVIOUS
  <2>1. LiveWords(held) = {} /\ mem_alloced = 0
    BY DEF Init, LiveWords
  <2>2. QED
    BY <2>1, FS_EmptySet DEF AccountingExact
<1>2. QED
  BY <1>1, NextAccounting, HeapInvariant, PTL DEF Spec
=============================================================================
