# A verification development for JSDOS

JSDOS (`jsdos/`) is a small 64-bit kernel, started by the Pure64 loader
(`deps/pure64/`), that carries MyJIT (`jsdos/myjit/`), a just-in-time compiler
with its own data-flow analysis and register allocator. The kernel has one
thread; the loader starts every processor and has a timer interrupt.

This directory holds TLA+ models of that code, TLC configurations that check
them on small instances, and theorems checked by TLAPS.

    tlc -workers 2 -config Heap.cfg MCHeap.tla      # a run
    tlapm HeapProofs.tla                            # the proofs of a module

`PROJECT.json` lists the runs, the source lines behind every definition
(`map`), the hazards of the code with the properties that cover them, the
findings, the theorems, and for each property a mutant: a plausible bug in a
mapped definition that makes the run fail.

## 1. The system

| component | source | state | operations | talks to |
|---|---|---|---|---|
| Heap | `jsdos/stdlib.c`, `kernel.h` | memory from `MEM_DATA`, `mem_next`, `mem_alloced` | `malloc`, `free`, `realloc`, `mem_get_alloced`, `mem_walk_leaked`, `__assert_fail` | everything in MyJIT allocates here |
| JIT front end and life cycle | `myjit/jitlib-core.[ch]` | list of operations, labels, code buffer, options | `jit_add_op`, register counts, `jit_generate_code`, patches, `jit_free` | runs the passes below in order |
| Data-flow analysis | `myjit/flow-analysis.h`, `set.h` | `live_in`, `live_out` of each operation | `jit_flw_analysis` | sets read by the allocator |
| Register allocator | `myjit/reg-allocator.h`, `rmap.h` | `regmap` of each operation, hints, inserted operations | `jit_assign_regs`: assignment, branch adjustment, jump adjustment | maps read by the generator |
| AMD64 generator | `myjit/amd64-specific.h`, `common86-specific.h` | `prepared_args`, `push_count`, the code | one `emit_*` per kind of operation | runs on the hardware registers and a stack frame |
| Peephole optimisations | `myjit/x86-common-stuff.c`, `jitlib-core.c` | operations, options | unused assignments removed, MUL/ADD joined into LEA, constants stored at once | reads the sets of the analysis, changes the list before allocation |
| Instruction encoders | `myjit/x86-codegen.h`, `amd64-codegen.h` | the code buffer | one macro per form of an instruction, `amd64_patch` | called by the generator |
| Balanced trees | `myjit/llrb.c` | left-leaning red-black trees | insert, delete, search, clone | every set of the analysis, every map of the allocator |
| Console | `jsdos/kernel.c` | screen, cursor, color, count of scrolled rows | `hw_txt_*`, `printf` | heap dump, JIT demonstration |
| System start | `jsdos/sys.c`, `main.c` | none | one sequence of calls | all |
| Multiprocessor start, interrupts | `pure64/src/init_smp*.asm`, `interrupt.asm` | CPU counts, tick counter, APIC | IPIs, waits, timer handler | loader |
| FAT16 loading | `pure64/src/fat16.asm`, `pure64.asm`, `bootsector/*` | cluster chain, load address | find file, read cluster, retry | loader |

### What is hard in it, and what makes each part correct

**Heap.** Headers and blocks share one memory: a fill or a clear one word too
long damages a header that only a later `free` or walk reads. Correct when:
blocks never overlap and change only by their owners; the header of a live
block says what its owner asked for; `mem_alloced` is the sum of the live
blocks; the walk lists exactly the leaks; the assertions fail on misuse only.

**Analysis.** The sets are updated in place, in the order of the list, so an
operation is computed from a mixture of this pass and the last; the loop ends
only if nothing ever shrinks. Correct when: what it returns solves the
equations of every operation, is the least solution, equals liveness along
paths, and it returns.

**Allocator and generator.** Three walks over one list, each inserting moves
that the earlier ones did not foresee; the places of values are known only
from maps of neighbouring operations; which register is taken is a heuristic.
Correct when: no two values share a register; wherever control comes from, each
value that is alive is where the map says; every operation, call and return
finds its operands; callee-saved registers are given back; the walks finish.

**Loader.** A timer interrupt between any two instructions, processors that
start late, waits without limit, signed comparisons of cluster numbers.

**Console.** A newline, a full row and the bottom of the screen can meet in one
character; the screen moves within itself. Correct when: it shows the end of all
that was printed, and no row leaves before `printf` has waited with it there.

**Trees.** Every set and map of the compiler is a red-black tree whose deletion
moves red links through nodes that may be missing. Correct when: after any
history the trees are balanced, hold what the history says, and compare equal
exactly when they hold the same.

**Peephole passes, operations, encoders.** One operation becomes a different
sequence of instructions depending on which of its registers coincide, which of
AX, CX, DX are needed by others, and which constants fit in 8, 31, 32 bits; the
passes before change the list on the strength of sets that get stale; an
instruction's bytes depend on which registers are above 7. Correct when: the
passes keep what the list means; the bytes, executed, do what the operations
mean, never fault, pop what they push, and stay in the buffer.

**Life cycle.** Counts of shared objects; options in memory that is not
cleared; a buffer that grows by a `realloc` that copies nothing.

The list of hazards with their lines is in `PROJECT.json`.

## 2. Modules

    HeapSpec  <-refines-  Heap  <-  MCHeap
                           ^------  HeapProofs
    Terminal  <-refines-  Console  <-  MCConsole
                             ^-------  ConsoleProofs
    JitOps  <-  FlowAnalysis  <-  MCFlowAnalysis
      ^              ^----------  FlowAnalysisProofs
      '------  RegAlloc  <-  JitExec  <-  MCJitExec
                  ^           ^-----------  JitExecProofs
                  '--------  RegAllocProofs  <-------'
    MapSpec  <-refines-  Llrb  <-  MCLlrb
                          ^-----  LlrbProofs  -uses->  Recursion
    Numbers  <-  FlowAnalysisProofs, RegAllocProofs, LlrbProofs
    Words  <-  X86Encode  <-  JitCode  <-  Emit  <-  EmitSse  <-.
      ^                          ^----  Passes  <--------------  CodeGen  <-  MCCodeGen
      '------  X86Machine  <------------------------------------'               |
                    ^------------------  JitMeaning  <--------------------------'

**HeapSpec** is what a heap promises: a store of blocks that do not overlap,
each changed by its owner's writes only, and a total. It says nothing of the
contents `realloc` returns, because the code copies none (`stdlib.c:37-41`).

**Heap** is the code: memory as a function from words to values, headers
written into it. `Malloc`, `Free`, `Realloc` are the three functions with their
assertions; `WalkStart`, `WalkStep`, `WalkEnd` are `mem_walk_leaked`, one step
per header, in which nothing else runs. `Write` is the owner of a block writing
into it. A failed assertion sets `halted` (`sys_sleep` never returns). A word of
the model is one `size_t`; sizes are in words, and all fields are one word
wide. Alignment, line numbers and the file name kept in a header are left out.

**Terminal** is what a console promises: a tape of lines that grows at its end;
nothing on it moves, and a line that is full is left only when a character more
is to go into it. **Console** is the code: one array of cells addressed by
`row * Cols + col`, a cursor, `PutChar` for one round of the loop of `printf`
with the scroll and the wait it may contain, `SetColor`, `Clear`. `gone` and
`seen` are history: the rows that have left the screen, and which rows have been
on it during a wait. A cell stands for its two bytes. The cursor starts in the
last row and nothing moves it up again, so `printf`'s branch for rows above the
last is never taken; it is in the model all the same.

**JitOps** has what the passes share: an operation as a record (its code, the
registers it makes and reads, its jump target), the control flow `Succ`, the
per-operation equations `InOf` and `OutOf`, and `Solves`, a set of sets that
satisfies all of them. Kinds of operation that the passes treat alike share one
code: `op` is all arithmetic, memory accesses and moves; `branch` is BEQ..BLE;
`bms` is every other conditional jump. `WellFormed` says what a caller of the
library may write.

**FlowAnalysis** is the loop of `jit_flw_analysis`: `AnalyzeOp` is one call of
`__flw_analyze_op`, `EndPass` the test of `changed`, `Return` what follows.

**RegAlloc** is `jit_assign_regs`. Every action appends the `regmap` of one more
operation, together with the batch of moves (`UREG`, `LREG`, `SYNCREG`,
`RENAMEREG`) inserted before it: `Prolog`, `Plain`, `Putarg`, `Getarg`,
`Prepare`, `Call`, `Retval` by kind; an operation with operands is entered
(`Enter`) and then its operands get registers one at a time, keeping the one
they have (`KeepRegister`) or taking one (`TakeRegister`). `AdjustBranches` and
`AdjustJumps` are the two later walks. Which register is taken is any register
the scores of `rmap_spill_candidate` could prefer (`Candidates`): all free ones,
or if there is none, all that this operation does not use. The allocator takes
the live sets as any solution of the equations of `JitOps` (`AllocAssumption`):
that, and that the sets are sets of registers, is what `FlowAnalysis` is proved to
return (`ReturnsASolution`, `TypeCorrect`). `NothingLost` relates each map to
the one before and to the moves in between: what is needed later is kept, saved or
moved.

**JitExec** runs the generated code next to its source program. Values are
names of where they were made (argument, constant, operation and round of the
loop), `ref` is the meaning of the virtual registers, and `hw`, `frame` and
`pushed` are the machine. One action executes one operation (`Compute`,
`GetArgument`, `PrepareCall`, `PutArgument`, `Jump`, ...), one batch of inserted
moves (`Move`), the placing of one argument (`PassArgument`, in the order of
`__configure_args`, constants by way of RAX), the transfer of control and the
return of the called function, which destroys every caller-saved register.
Both ways of every branch are taken. The first half of a behaviour compiles,
the second runs the function. `JumpsAgree` and `SlotsApart` say of the compiled
list what the second half depends on and two findings show is not always so.
`JumpsAgree` is checked where it fails (`jit_branch`): of BEQ..BLE and JMP it says
no more than the condition under which the adjustment leaves a jump alone.
`Runnable` names the programs that are run: control does not run past the end of
a function, arguments in registers have the type of those before them, and no
call passes arguments on the stack.

**Numbers** has facts of arithmetic that several proofs need: the least and the
largest number of a set, induction, stated for the set of the numbers that
satisfy a predicate, and how finite sets are counted (`FewerInPart`, `PairFinite`,
`RoundLess`). **Recursion** says of a recursive function of a number that it is
what its definition says.

The operators `Slot`, `Location`, `SavedByProlog` follow the arithmetic of
the macros they are mapped to, off-by-ones included.

**MapSpec** is what sets and register maps promise: maps from keys to values.
**Llrb** is the trees of `llrb.c` as nested records, with the operations of
`set.h` and `rmap.h` on them. Nodes are never shared between trees, so a function
that writes into nodes and returns a tree is an operator that returns the tree.
A set and its clone, or two sets of neighbouring operations, are two `Owners`.
A C function that calls itself is a function of a number, the calls that may
still nest, which gives the function of the arguments: `delete_node[n][h][key]`.
`Depth`, twice the number of keys, is enough of them: a tree with *b* black nodes
on each way down has at least *b* keys and no way of more than 2*b* nodes, which
`LlrbProofs` proves (`DepthEnough`, `EvenLevel`) and the theorems about whole
operations rest on.

**CodeGen** composes the second half of `jit_generate_code`: the passes over the
list (`RunPasses`), one action per kind of operation that appends to the buffer
(`GenerateOp`, `GenerateProlog`, `GenerateJump`, `GenerateLabel`,
`GeneratePatch`), the growth of the buffer (`Expand`), and then the bytes
executed one instruction at a time (`Execute`). What it is composed of:

- **Words**: 64-bit arithmetic on sequences of eight bytes, as the processor
  does it. Widths matter here: 32-bit operands, sign extension, carries.
- **X86Encode**: each macro of the encoders as the bytes it writes, REX prefix,
  ModRM and SIB byte, displacement and immediate; `patch` is `amd64_patch`.
- **JitCode**: an operation as a record, the macros that make operations, and
  `jit_get_unused_reg`.
- **Emit**, **EmitSse**: every `emit_*` and `sse_*` function under its own name,
  as the bytes it emits for an operation.
- **Passes**: `jit_correct_long_imms`, `jit_correct_float_imms`, the removal of
  unused assignments, stores of constants, the joins into `ADDMUL` and `ADDIMM`.
- **X86Machine**: a processor that takes instructions from bytes. It shares
  nothing with `X86Encode`, so a wrong bit in an encoder shows. It faults on a
  form it does not know, on a division that overflows and on memory that is not
  mapped. It is external: no source here describes it. Doubles are multiples of
  a quarter in a word whose highest bit is the sign; no claim depends on
  rounding.
- **JitMeaning**: what a list of operations means to the user of the library,
  without registers being saved, encoded or reused. It is the specification
  `CodeGen` is checked against, on the property side.

The virtual registers of these programs stand for the hardware registers they
are assigned to; allocation is the subject of `RegAlloc` and `JitExec`. The two
halves meet in what is alive: `live_in` and `live_out` say here which registers
an operation must leave alone.

## 3. Runs

| run | instance | shows |
|---|---|---|
| `heap` | 14 words; blocks of 0, 1, 2 words | up to six blocks, all orders of malloc, free, realloc, write and walk: `HeadersIntact`, `AccountingExact`, `WalkExact`, `AssertsHoldForWords`, and that the heap implements `HeapSpec` (`ImplementsStore`) |
| `flow` | all programs of two shapes, 8 and 9 operations, 2 registers, loops, skips, dead code, two functions | `ReturnsSolution`; `FindsLiveness`: equal to a definition by paths; `OnlyGrow`; `Terminates` |
| `jit` | 4 GP registers (1 callee-saved, 2 for arguments), 2 FP; families of programs with 5 values, calls with arguments in swapped places, calls through a register, constants, loops with exits, loops over calls, stack arguments, two functions | `TypeOK`, `OneEach`, `NothingLost`, `SlotsApart`, `AliveAtHome`, `ReadsRight`, `ArgumentsPassed`, `CallsRight`, `NoArgLoads`, `Allocates`, for every choice of registers and both ways of every branch |
| `console` | 8 rows of 2 columns, a color set once | every text until a whole screen has been scrolled away, with clears: `TypeOK`, `EveryRowSeen`, `ShowsTape` (implements `Terminal`) |
| `trees` | keys 1..7 in a tree of up to seven nodes, a second one of two | every history of insertions, deletions, unions, copies and releases: `Balanced`, `FindsExactly`, `EqualSets`, and that the trees implement `MapSpec` (`ImplementsMap`) |
| `codegen` | 12,197 programs: each operation with its operands in coinciding, low and high registers, with immediates around the ends of 8, 31, 32 and 64 bits, with all or no other registers alive; loops, carries, joins, stores of constants, functions with frames that save any number of registers, a buffer that overflows | `PassesKeepMeaning`, `ComputesRight`, `NeverFaults`, `StackRestored`, `RoomLeft` |
| `heap_zero`, `jit_branch`, `jit_getarg`, `jit_slot`, `jit_saved`, `jit_constant` | the smallest program for each | violations: section 5 |

**Why the bounds are enough.** *Heap*: six empty blocks or three of two words,
with every adjacency of empty, short and long blocks, and every word after the
last one; the theorems remove the bound. *Flow*: the list is walked from its
first operation to its last while liveness spreads from the last to the first,
so a pass carries a register over one operation and, at a jump back, to its end
at once: programs of eight operations take up to eight passes, with both kinds
of progress in them; every pair of a kill and a read with a loop, a skip or a
jump between them is in the sets; the theorems remove the bound but for
`Terminates`. *Jit*: with
four registers and five values every operation that takes a register meets a
full map, with the free ones, the spilled ones and its own operands in all
combinations; a loop whose top and end disagree needs one round to show it, and
`lap` makes the values of one round differ from the next. *Console*: eight rows
make a quarter of the screen two rows, so that waits are counted; every kind of
line (empty, short, full, full and then a newline) follows every other, and the
first row written has left; the theorems remove the bound. *Trees*: seven nodes
make trees of three levels, full and thin, in which every branch of the deletion
is taken at the root and below it; the theorems remove the bound. *Codegen*: the registers are those an encoder
or an `emit_*` function treats differently (AX, CX, DX; SP, BP, R12, R13 as
bases; byte registers; one above 7), and all combinations of coinciding operands
occur; most defects listed in section 5 were found in these runs. The buffer
has 256 bytes and 76 of them must be free, where the code has 4096 and 1024
(`jitlib-core.h`), so that programs are short enough to grow it. `RoomLeft` bounds
every operation by the 76 bytes, wherever in the buffer its code begins (the
longest, a `ROUND` with far constants and no register free, has 73), and so by
1024; calls and the moves the allocator inserts are not among the operations of
this run, and not covered. A run takes at most `MaxSteps` = 60 instructions,
and `NeverFaults` fails if that is not enough. Two argument
registers are enough for arguments in each other's place. Not covered by the
bounds: scores that grow with distance past 10000 operations (named in
`Candidates`).

**Programs in `jit` and findings.** The passing programs avoid the five
situations of section 5, each by the smallest change: loops over a call are
closed by BEQ..BLE, a function that saves argument 0 does not use its last slot,
and so on. Each such situation has a run of its own.

**Deadlock** is off where the code stops: the heap after a failed assertion, the
analysis after it returns, the machine after the function returns (`jit` and
`codegen`). `Terminates`
and `Allocates` say that the passes do not stop early.

**Fairness.** `FlowAnalysis!Spec` has weak fairness of `Next`, `ExecSpec` of the
allocator's steps: each is one loop of one thread, which nothing makes wait.
No fairness is assumed of the generated code or of the callers of the heap.

## 4. Theorems

All by TLAPS, for every value of the constants under the named assumptions.

**Heap** (`HeapProofs`; `HeapAssumption`: at least two words, sizes and fill
values are values a word can hold). The property that headers stay intact is not
inductive: nothing in it says where the next header starts. The invariant `IInv`
adds the *chain*: the headers are at the set of places given by the history of
allocations, each follows the end of the block before, the last empty header is
at `mem_next`, and no two blocks share a word. `Malloc` extends the chain at its
end (`ChainMalloc`), `Free` fills within one block (`ChainFree`), an owner's
write stays in its block (`ChainWrite`). From it: `TypeCorrect`,
`HeadersStayIntact`, `OnlyEmptyBlocksAssert`, `NoHaltWithoutEmptyBlocks` (if
callers never ask for 0, no assertion ever fails), `WalkListsLeaks`,
`HeapImplementsStore`, the refinement of `HeapSpec`, and `AccountsForEveryWord`:
`mem_alloced` is the number of words in live blocks (`LiveWords`), which grow by
the words of a new block because blocks do not overlap.

**Analysis** (`FlowAnalysisProofs`; `OpsAssumption`: programs are well formed).
`FlowInvariant`: every set is below what its equation gives (`Below`), and if
nothing has changed in this pass, the operations already visited satisfy their
equations (`Settled`). Because the equations are monotone, in-place updates keep
both. From it: `ReturnsASolution`, `SetsOnlyGrow` (an action property),
`LeastSolution` (the sets are within every solution, at all times), `TypeCorrect`.
`ReturnsASolution` and `TypeCorrect` are what `RegAlloc` assumes of its input.
`FindsAlive` is `FindsLiveness`: what is returned is liveness along paths, which a
solution of the equations need not be. One way, the sets never hold more than is
alive (`OnlyAlive`, inductive because an operation before one where a register is
alive is such a one too, unless it writes it: `AliveClosed`). The other way, every solution holds what is alive
(`AliveInSolution`): along a path to a reader, by induction on its length. The
reference definition takes as many steps as the program has operations; a path
without repetitions has no more (`ReachingEnds`). `AnalysisEnds` is the part of
`Terminates` that does not depend on fairness: every step lowers `StepsLeft`, a
number made of the registers still missing from the sets, the pass that a change
asks for, and the rest of this pass. Because sets only grow, a pass that changes
something lowers the first of these; `IsFiniteSet(VReg)` is its one hypothesis.

**Allocator** (`RegAllocProofs`; `AllocAssumption`: what
the machine's tables say of its registers, among it that no callee-saved register
passes arguments; live sets that solve the equations; programs that call in the
order `PREPARE`, `PUTARG`s, `CALL` and whose operations have the operands of
their kind, `Protocol` and `Typed`, the latter with the bound on arguments of both
types that `Typed` names). `OneEach` is not inductive: a `RETVAL` notes its
register in `ret_reg` without asking what is there. `IInv` adds that a `CALL`
leaves `ret_reg` to nobody (`ResultsFree`), which lasts because its operands are
given no register (`Calls`). From it: `TypeCorrect`, `NoRegisterTwice`.
`NothingIsLost` says more: whenever a value that is needed later leaves its
register, it has been saved from there or moved. The hard case is the `CALL`, which
takes `ret_reg` and `fpret_reg` and saves nothing, because the `PREPARE` did,
several operations before. The invariant `LInv` adds `ResultsSaved`: after each
operation of a call, what is alive in these registers has been saved. It lasts over
a `PUTARG` only because of the equations of liveness: what is alive before an
operation is alive after the one before it. A `GETARG` and a `RETVAL` may drop what
they make themselves, which the same equations say is not alive before.

What is inserted follows the maps (`MovesFollowMaps`):
before every operation and on every edge, the batches lead from the map before to
the map after. Only the last map of an operation is kept, so the invariant `MInv`
says that there have been maps in between (`Path`), and of each batch that every
value that is alive after it stays, is moved, or is loaded after having been saved
(`Leads`).

`NoArgumentIsLoaded` is `NoArgLoads`, the assertion of `emit_lreg`. It rests on the
direction of control: an argument comes into a map with the `PROLOG` and never
again, so along the list the maps have fewer and fewer of them (`ArgsFollow`), and
a batch or an edge that leads forward loads none. An edge that leads back can; the
hypothesis `LoopsTakeNone`, that no jump back is taken with an argument alive, is
what the program of finding 3 lacks. All 85 programs of `jit` have it, 30 of them
with loops.

`Allocates` has two parts besides fairness. A register is always found
(`RegistersAreFound`): if all registers of the type held operands of the operation,
and the operand that waits is one more, the operation would have more operands
than there are registers (`FewOperands`; three at most, where AMD64 has more of
either type). And the walks end (`AllocationEnds`): every step lowers `StepsLeft`,
made of the operations not yet entered, each with its operands, the operands that
wait, and the walks to come.

**The code at work** (`JitExecProofs`; `ExecAssumption`: programs are `Runnable`).
`ValuesAreHome`, `OperandsAreRight` and `CalleesAreRight` are `AliveAtHome`,
`ReadsRight` and `CallsRight`, of compiled code for every program, every choice of
registers and every path, loops included, from `JumpsAgree` and `SlotsApart`; the
theorems have these two as hypotheses because findings 2 and 4 are programs for
which they fail. A program without other conditional jumps than BEQ..BLE has the
first (`AgreeWithoutOthers`). `SlotsStayApart` is
`SlotsApart` from the program alone: if argument 0 is passed in a register, the
function uses no FP register and an odd number of the others or none
(`LastSlotFree`; 62 of the 85 programs of `jit`, and the program of finding 4 is
none of them). The registers have the slots from 1 to their number, rounded to an
even one, and argument 0 has the last of these slots: it is free only as padding.
`CodeIsRight` has the three properties from `LastSlotFree` and from the absence of
jumps of the kind of finding 2.

`AliveAtHome` speaks of the points between operations only. The invariant `JInv`
joins the three invariants of the compiled list with `EInv`, which says where
control is and what holds there:

- before an operation or between two of its batches (`AtOp`): every value alive is
  where some map on the path has it, or in its slot (`Home`), and what the batches
  so far have saved stays in its slot (`Backed`), which a later batch relies on;
- between a `PREPARE` and the return from its `CALL` (`InCall`): the map is that
  of the `PREPARE`, and a value whose register the call destroys is in its slot
  or pushed (`Prepared`). Passing arguments overwrites registers before the `CALL`
  does, but none that the map uses: the `PREPARE` has cleared them (`Served`).

A batch brings every value home because `Leads` is what `MovesFollowMaps` proves
and because its slots are those of no other register (`BatchBringsHome`). At the
return, `ResultsSaved` of the allocator says that what is not restored by a pop
has been saved.

`ArgumentsArePassed` (`ArgumentsPassed`) has one hypothesis more, `ResultSpared`:
no number is passed as a constant, by way of RAX, while an argument that is passed
after it is still there. Finding 6 is a program that does. The invariant `PassInv`
adds that the arguments passed so far are in the registers of the called function,
and that RAX has what the map says until a number goes through it.

**Console** (`ConsoleProofs`; `ConsoleAssumption`: at least one row and one
column). `EveryRowSeen` is an action property that says nothing of the rows
between; the invariant `IInv` adds that the cursor is in the last row, that the
count of scrolled rows is below a quarter of the screen, and that rows nobody has
had time to read are the last ones, as many as were scrolled since the wait, and
one (`UnseenAtEnd`). The refinement `ShowsATape` rests on lemmas about the linear
addresses: rows do not overlap (`AtDistinct`), and a scroll moves each whole row
to the one above (`ScrollRows`); both need products of two parameters, which
`TimesMonotone` and `RowFits` reduce to sums. Also `TypeCorrect`.

**Trees** (`LlrbProofs`; `KeysAssumption`: finitely many keys, which are
integers). `StaysBalanced`, `SearchesFindExactly` and `EqualityIsOfSets` are
`Balanced`, `FindsExactly` and `EqualSets`, and `TreesImplementMaps` is the
refinement of `MapSpec`, for every set of keys and every history. `Balanced` says
that an owner's tree has as many black nodes on each way down and no red node to
the right or below a red one. It says nothing of the keys, and nothing of the trees
in the middle of a deletion, which goes down through nodes it has made red, over
trees that are not balanced, and repairs them on its way back. So the proof speaks
of pairs of a tree and what it holds: `Joins(c, L, R)` are the trees with a root of
color `c`, a left part from `L`, a right part from `R` and the keys in order, and
`Even[b]` the trees owners have, with `b` black nodes on each way. `IInv`, the
inductive invariant, is that each owner's tree is in some `Even[b]`, with some
contents. TLC checks it by its parts, `Balanced` for the shape, `FindsExactly` for the
order of the keys and `ImplementsMap` for the contents.

Each helper of `llrb.c` is a lemma on what it makes of a tree of a kind:
`fixup` of a tree with a left part that may be red on red (`FixupEither`),
`move_red_left` and `move_red_right` of the shapes `delete` can meet
(`MoveRedLeft`, `MoveRedRight`), a step down (`SinkLeft`, `SinkRight`). The
inductions over nested calls use one of them per level: `InsertGood`, `MinGood`,
`DeleteGood`, `AddAllGood`. What a reader of the code would doubt is proved on the
way: a rotation or a color flip only touches nodes that are there; a node without a
right part, which `delete` drops as a whole, has no left part either; and the tree
that the least key is taken from is the right part after the way down has changed
it.

**Numbers, Recursion.** The library states induction and recursion for an
operator, which these provers cannot instantiate. `Numbers` states induction for a
set instead (`EveryNumber`, from the least number not in it). `Recursion` is a
module with the operator as its constant, instantiated once for each recursive
function (`Of_search`, `Of_delete_node`, ...): the function exists, by induction on
the part of it up to a number, so that the definition, a `CHOOSE`, satisfies its
equation.

**Only model-checked.** What the bytes of the code do (`codegen`:
`PassesKeepMeaning`, `ComputesRight`, `NeverFaults`, `StackRestored`, `RoomLeft`):
the specification they are checked against, `JitMeaning`, and the processor use
`RECURSIVE` operators and lists of bytes, and what is claimed is a fact of some
twelve thousand programs with named exceptions, not of all. That `Terminates` and
`Allocates` follow, under fairness, from the theorems that count the steps left
(`ENABLED` is out of the provers' reach).
`NoArgumentIsLoaded` and the theorems of `JitExecProofs` have hypotheses about the
program, each with the finding that shows it is needed.

## 5. Findings

1. `heap_zero`: `malloc(0)` returns a block that `free` asserts against
   (`stdlib.c:46`); the JIT itself allocates and frees such blocks for functions
   and calls without arguments.
2. `jit_branch`: branches other than BEQ..BLE are not adjusted
   (`reg-allocator.h:476`), so a value can be in another register at the target.
3. `jit_getarg`: a loop that reads an argument and calls asks for an `LREG` of
   an argument, which `emit_lreg` asserts against (`common86-specific.h:186`).
4. `jit_slot`: the slot of saved argument 0 is the slot of the last register of
   the function (`amd64-specific.h:36-39`).
5. `jit_saved`: a callee-saved register used by inserted moves only is not saved
   by the prolog (`common86-specific.h:81-97`).
6. `jit_constant`: a floating-point constant goes through RAX while an argument
   may still be there (`amd64-specific.h:124-131`).

**Operations whose code does something else.** The run `codegen` excludes them by
name, in `Miscoded`, `LosesCarry`, `Misoptimized` (`MCCodeGen`) and `Misdivides`
(`JitMeaning`), one disjunct for each; dropping a disjunct gives TLC's
counterexample. In `myjit/`:

- *Carry*: `SUBC`, `SUBX` with dest = second operand drop a pushed register with
  an ADD; a `MOV` of 0 (an XOR) between the two halves of a long sum clears it.
- *Division*: an unsigned one sign-extends its dividend; a signed one by 2, 4 or
  8 shifts or masks a negative dividend.
- *Shifts*: value and count both in CX with another destination; destination CX
  with the count in AX and no register free.
- *Immediates*: `SUB`, `RSB` of -2^31.
- *High registers* (`x86-codegen.h`, `amd64-codegen.h`): `BMS`, `BMC` with one
  operand above 7, or R8 and an immediate; 8- and 16-bit loads from R12; 16-bit
  stores and 4-byte floating-point stores at an index; `FDIV` with dest = second
  operand.
- *Addresses*: `ADDMUL` without a base register, `ADDIMM` with more than 8 bits,
  a constant stored at a constant address (relative to the code).
- *Passes* (`x86-common-stuff.c`): the joins do not ask whether the second
  operation reads what the first makes, and negate the constant of an ADD; a
  store of a constant loses the address if it was the same register, and
  constants of more than 31 bits.
- *Buffer*: what was generated before the buffer grew is lost
  (`jitlib-core.c:272` over `stdlib.c:37-41`); the run excludes results after it.

## 6. Not modelled

- Other architectures (`sparc-*`, `x86-specific.h`), and those macros of the
  encoders that no modelled operation uses.
- `emit_msg_op`, `jit_free`, the bytes of calls and of inserted moves (what they
  do is in `JitExec`), floating-point constants at addresses from 2^31 to
  2^32 - 1, NaN and rounding.
- `sys.c`, `main.c`: one straight sequence of calls; port I/O.
- `jitlib-debug.c`: text. `cpu-detect.h`, `jitlib.h`: preprocessor selection.
- `txt_format_hex_*`: pure functions of fixed width.
- Device set-up and screen output of the loader: fixed values written once.
- In what is modelled: arguments of both types in one function, jumps through
  registers, stack arguments of calls, `JIT_FP`/`JIT_RETREG` aliases as operands,
  reference counts of hints.

## 7. Plan

In this order, the most important first.

1. **Encoder proofs**: `X86Encode` and `Emit` use no recursive operator. That a
   REX prefix and a ModRM byte determine their registers; that a patched
   displacement leads to the target.
2. **Mixed arguments**: functions with arguments of both types in `FlowAnalysis`
   and `RegAlloc` (`flow-analysis.h:88`, `reg-allocator.h:89`).
3. **AllocatorHints**: the counted, shared hint trees; freed once, never used
   after. `jit_free` over `HeapSpec`.
4. **SmpBoot**: boot processor, others, timer interrupt; counts and waits, under
   fairness of the hardware.
5. **Fat16**: cluster chains with 16-bit arithmetic and retries, for the loader
   and the boot sector, against the file a chain denotes.
