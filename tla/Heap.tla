------------------------------- MODULE Heap -------------------------------
(***************************************************************************)
(* The heap of JSDOS (jsdos/stdlib.c), "the dumbest malloc ever": a bump   *)
(* allocator that writes a header before each block, marks a freed block   *)
(* in its header, fills it and never gives its memory out again.  Headers  *)
(* and blocks share one memory, so what the owner of a block writes and    *)
(* what free fills could destroy a header: nothing but the arithmetic of   *)
(* the allocator keeps them apart.                                         *)
(*                                                                         *)
(* Address 0 stands for MEM_DATA.  A word of the model is the size of one  *)
(* header field (size_t); sizes are counted in words.                      *)
(***************************************************************************)
EXTENDS Integers, FiniteSets

CONSTANTS
  MemSize,   \* BOUND: words of memory after MEM_DATA (the code checks none)
  Sizes,     \* the sizes callers ask for
  Values,    \* what the owner of a block writes into it
  Fill,      \* what free fills a block with (0xFC)
  Word,      \* what a word can hold
  Junk       \* what memory holds before anything is written there

Addr == 0 .. MemSize - 1

ASSUME HeapAssumption ==
  /\ MemSize \in Nat
  /\ MemSize >= 2
  /\ 0 .. MemSize \subseteq Word
  /\ Word \subseteq Nat
  /\ Sizes \subseteq Nat
  /\ Values \subseteq Word
  /\ Fill \in Word
  /\ Junk \in Word

VARIABLES
  mem,          \* the memory from MEM_DATA on
  mem_next,     \* where the next header goes
  mem_alloced,  \* what mem_get_alloced returns
  held,         \* held[p]: the size its owner asked for, for each live block
  given,        \* history: the pointers malloc has returned so far
  walk,         \* mem_walk_leaked's cursor, or Idle when it does not run
  report,       \* the blocks the walk has listed
  halted        \* an assertion failed: the system sleeps for ever

heap == <<mem, mem_next, mem_alloced>>
walker == <<walk, report>>
vars == <<heap, held, given, walker, halted>>

\* mem_alloc_t: the words of a header, and its fields by their offset.
HeaderSize == 2
Allocated(m, r) == m[r]
Freed(m, r) == m[r + 1]
HeaderOf(p) == p - HeaderSize

Idle == -1

-----------------------------------------------------------------------------
(* malloc_dbg and free_dbg as functions of the memory.                     *)

\* Mutants: without the header after the block; without "freed = 0".
MallocMemNoEnd(m, r, n) == [m EXCEPT ![r] = n, ![r + 1] = 0]

MallocMemKeepFreed(m, r, n) ==
  [m EXCEPT ![r] = n, ![r + HeaderSize + n] = 0, ![r + HeaderSize + n + 1] = 0]

\* The header at r, the empty header that marks the end after the block.
MallocMem(m, r, n) ==
  [m EXCEPT ![r] = n, ![r + 1] = 0,
            ![r + HeaderSize + n] = 0, ![r + HeaderSize + n + 1] = 0]

\* The two assertions of free_dbg.
FreeAsserts(m, p) ==
  /\ Allocated(m, HeaderOf(p)) > 0
  /\ Freed(m, HeaderOf(p)) = 0

\* Mutants: the memset is a word too long; "allocated = 0" frees a block.
FreeMemLongFill(m, p) ==
  LET n == Allocated(m, HeaderOf(p))
  IN  [a \in Addr |-> IF a \in p .. p + n THEN Fill
                      ELSE IF a = HeaderOf(p) + 1 THEN n
                      ELSE m[a]]

FreeMemNoSize(m, p) == [m EXCEPT ![HeaderOf(p)] = 0]

\* freed = allocated, then the memset of the block.
FreeMem(m, p) ==
  LET n == Allocated(m, HeaderOf(p))
  IN  [a \in Addr |-> IF a \in p .. p + n - 1 THEN Fill
                      ELSE IF a = HeaderOf(p) + 1 THEN n
                      ELSE m[a]]

\* BOUND: the block and the header after it are inside the memory.
Room(n) == mem_next + HeaderSize + n + HeaderSize <= MemSize

\* A caller gets the block at p, or gives it back.
With(h, p, n) == [q \in DOMAIN h \cup {p} |-> IF q = p THEN n ELSE h[q]]
Without(h, p) == [q \in DOMAIN h \ {p} |-> h[q]]

-----------------------------------------------------------------------------
Init ==
  /\ mem = [a \in Addr |-> Junk]
  /\ mem_next = 0
  /\ mem_alloced = 0
  /\ held = [p \in {} |-> 0]
  /\ given = {}
  /\ walk = Idle
  /\ report = {}
  /\ halted = FALSE

\* One processor runs the kernel: no call begins during a walk, or after a halt.
Running == ~halted /\ walk = Idle

\* Mutant: the next header is not placed after the block but a header earlier.
MallocOverlapping(n) ==
  LET ptr == mem_next + HeaderSize
  IN  /\ Running
      /\ Room(n)
      /\ mem' = MallocMem(mem, mem_next, n)
      /\ mem_alloced' = mem_alloced + n
      /\ mem_next' = mem_next + n
      /\ held' = With(held, ptr, n)
      /\ given' = given \cup {ptr}
      /\ UNCHANGED <<walker, halted>>

Malloc(n) ==
  LET ptr == mem_next + HeaderSize
  IN  /\ Running
      /\ Room(n)
      /\ mem' = MallocMem(mem, mem_next, n)
      /\ mem_alloced' = mem_alloced + n
      /\ mem_next' = ptr + n
      /\ held' = With(held, ptr, n)
      /\ given' = given \cup {ptr}
      /\ UNCHANGED <<walker, halted>>

Free(p) ==
  /\ Running
  /\ FreeAsserts(mem, p)
  /\ mem_alloced' = mem_alloced - Allocated(mem, HeaderOf(p))
  /\ mem' = FreeMem(mem, p)
  /\ held' = Without(held, p)
  /\ UNCHANGED <<mem_next, given, walker, halted>>

\* assert() prints and sleeps for ever (__assert_fail, sys_sleep).
AssertFails(p) ==
  /\ Running
  /\ ~FreeAsserts(mem, p)
  /\ halted' = TRUE
  /\ UNCHANGED <<heap, held, given, walker>>

\* Mutant: realloc does not free.
ReallocKeepsOld(p, n) ==
  LET ptr == mem_next + HeaderSize
  IN  /\ Running
      /\ FreeAsserts(mem, p)
      /\ Room(n)
      /\ mem' = MallocMem(mem, mem_next, n)
      /\ mem_alloced' = mem_alloced + n
      /\ mem_next' = ptr + n
      /\ held' = With(Without(held, p), ptr, n)
      /\ given' = given \cup {ptr}
      /\ UNCHANGED <<walker, halted>>

\* realloc: free, then malloc.
Realloc(p, n) ==
  LET ptr == mem_next + HeaderSize
  IN  /\ Running
      /\ FreeAsserts(mem, p)
      /\ Room(n)
      /\ mem' = MallocMem(FreeMem(mem, p), mem_next, n)
      /\ mem_alloced' = mem_alloced - Allocated(mem, HeaderOf(p)) + n
      /\ mem_next' = ptr + n
      /\ held' = With(Without(held, p), ptr, n)
      /\ given' = given \cup {ptr}
      /\ UNCHANGED <<walker, halted>>

\* The owner of a block writes inside what it asked for.
Write(p, i, v) ==
  /\ Running
  /\ mem' = [mem EXCEPT ![p + i] = v]
  /\ UNCHANGED <<mem_next, mem_alloced, held, given, walker, halted>>

\* mem_walk_leaked, from MEM_DATA.  It is called after the first malloc.
WalkStart ==
  /\ Running
  /\ given # {}
  /\ walk' = 0
  /\ report' = {}
  /\ UNCHANGED <<heap, held, given, halted>>

WalkStep ==
  /\ walk # Idle
  /\ Allocated(mem, walk) # 0
  /\ report' = IF Freed(mem, walk) = 0 THEN report \cup {walk + HeaderSize}
               ELSE report
  /\ walk' = walk + HeaderSize + Allocated(mem, walk)
  /\ UNCHANGED <<heap, held, given, halted>>

WalkEnd ==
  /\ walk # Idle
  /\ Allocated(mem, walk) = 0
  /\ walk' = Idle
  /\ UNCHANGED <<heap, held, given, report, halted>>

Next ==
  \/ \E n \in Sizes : Malloc(n)
  \/ \E p \in DOMAIN held : Free(p)
  \/ \E p \in DOMAIN held : AssertFails(p)
  \/ \E p \in DOMAIN held, n \in Sizes : Realloc(p, n)
  \/ \E p \in DOMAIN held, v \in Values :
       \E i \in 0 .. held[p] - 1 : Write(p, i, v)
  \/ WalkStart
  \/ WalkStep
  \/ WalkEnd

Spec == Init /\ [][Next]_vars

-----------------------------------------------------------------------------
(* Properties.                                                             *)

\* The types of the variables (stdlib.c:8-9; mem_alloc_t, kernel.h:35-44).
TypeOK ==
  /\ mem \in [Addr -> Word]
  /\ mem_next \in Addr
  /\ mem_alloced \in Int
  /\ DOMAIN held \subseteq Addr
  /\ held \in [DOMAIN held -> Sizes]
  /\ given \subseteq Addr
  /\ walk \in Addr \cup {Idle}
  /\ report \subseteq Addr
  /\ halted \in BOOLEAN

\* The words of the live blocks.
LiveWords(h) == UNION {p .. p + h[p] - 1 : p \in DOMAIN h}

\* mem_alloced, which malloc_dbg and free_dbg only ever add to and subtract
\* from (stdlib.c:24, 50), is the number of words in the live blocks, no word
\* counted for two of them, although free reads the amount it subtracts back
\* from memory its caller can reach.
AccountingExact == mem_alloced = Cardinality(LiveWords(held))

\* The header before every live block is as malloc_dbg left it, whatever was
\* allocated, freed, filled and written since (stdlib.c:14-16, 30-32, 59).
HeadersIntact ==
  \A p \in DOMAIN held :
    /\ Allocated(mem, HeaderOf(p)) = held[p]
    /\ Freed(mem, HeaderOf(p)) = 0

\* free_dbg's assertions (stdlib.c:46-47) never fail for a caller that frees
\* each of its blocks once.
AssertsHold == ~halted

\* They fail for nothing but a block of no words.
AssertsHoldForWords == halted => \E p \in DOMAIN held : held[p] = 0

\* When mem_walk_leaked's loop ends (stdlib.c:72), it has listed every block
\* still allocated below its cursor and no other (the comment at stdlib.c:74),
\* and nothing but a block of no words has stopped it before mem_next.
WalkExact ==
  walk # Idle /\ Allocated(mem, walk) = 0 =>
    /\ report = {p \in DOMAIN held : HeaderOf(p) < walk}
    /\ walk = mem_next \/ 0 \in {held[p] : p \in DOMAIN held}

\* The heap's promise, with the blocks' contents read from the memory.
StoreOf(h, m) == [p \in DOMAIN h |-> [i \in 0 .. h[p] - 1 |-> m[p + i]]]

StoreSpec == INSTANCE HeapSpec WITH
  store <- StoreOf(held, mem),
  total <- mem_alloced

\* The headers, the fill and the bookkeeping never show through: a block
\* changes only when its owner writes into it, and no two blocks share a
\* word (stdlib.c:11-60 implements HeapSpec).
ImplementsStore == StoreSpec!SSpec
=============================================================================
