----------------------------- MODULE HeapSpec -----------------------------
(***************************************************************************)
(* What the heap of JSDOS promises the code that calls it, with no headers *)
(* and no addresses but those of the blocks: a store of blocks, each with  *)
(* its contents, and the number that mem_get_alloced returns.  Heap.tla    *)
(* (jsdos/stdlib.c) is shown to implement it.                              *)
(***************************************************************************)
EXTENDS Integers

CONSTANTS
  Addr,    \* the words of the heap's memory
  Sizes,   \* the sizes blocks are asked for
  Word     \* what a word of memory can hold

VARIABLES
  store,   \* store[p] is the contents of the block at p, word by word
  total    \* the words in blocks, as mem_get_alloced reports them

svars == <<store, total>>

\* The words of a block at p with contents c.
Cells(p, c) == {p + i : i \in DOMAIN c}

SInit == store = [p \in {} |-> {}] /\ total = 0

\* A new block of n words at p beside the blocks of kept, which do not change:
\* it may go anywhere that none of them is, and holds whatever is there.
NewBlock(p, n, kept) ==
  /\ p \notin kept /\ p \in DOMAIN store'
  /\ store' = [q \in kept \cup {p} |-> IF q = p THEN store'[p] ELSE store[q]]
  /\ store'[p] \in [0 .. n - 1 -> Word]
  /\ \A q \in kept : Cells(p, store'[p]) \cap Cells(q, store[q]) = {}

SMalloc(p, n) ==
  /\ NewBlock(p, n, DOMAIN store)
  /\ total' = total + n

SFree(p, n) ==
  /\ DOMAIN store[p] = 0 .. n - 1
  /\ store' = [q \in DOMAIN store \ {p} |-> store[q]]
  /\ total' = total - n

\* realloc: another block for an old one.  It promises nothing of the
\* contents: the code copies none.
SRealloc(p, n, q, m) ==
  /\ DOMAIN store[p] = 0 .. n - 1
  /\ NewBlock(q, m, DOMAIN store \ {p})
  /\ total' = total - n + m

\* The owner of a block changes one word of it, and nothing else changes.
SWrite(p, i, v) ==
  /\ i \in DOMAIN store[p]
  /\ store' = [store EXCEPT ![p][i] = v]
  /\ UNCHANGED total

SNext ==
  \/ \E p \in Addr, n \in Sizes : SMalloc(p, n)
  \/ \E p \in DOMAIN store, n \in Sizes : SFree(p, n)
  \/ \E p \in DOMAIN store, q \in Addr, n, m \in Sizes : SRealloc(p, n, q, m)
  \/ \E p \in DOMAIN store, i \in Addr, v \in Word : SWrite(p, i, v)

SSpec == SInit /\ [][SNext]_svars
=============================================================================
