# ManiT: formal models and proofs

ManiT (`src/`) is a compiler for a language of balanced-ternary values, with two
backends, LLVM with a C runtime and the T3 instruction set with its emulator, and
a reference interpreter. This directory models two halves of it in TLA+:

- the **concurrent core**: how tasks are scheduled, how channels and the
  structured-waiting objects block and wake them, and how three independent
  implementations of the same rules (`docs/semantics.md`, section 11) agree;
- the **compiler**: from a parsed program through the analyser, lowering to IR and
  every pass of the optimiser, to either target: register allocation, assembly and
  the emulated T3 machine, or LLVM IR and what it does when built. The reference
  interpreter says what the result should print. The move checker is modelled beside it.

Paths below are relative to the repository root.

## Inventory

| Component | State | Operations | What makes it correct |
|---|---|---|---|
| Reference scheduler, `src/reference/eval.rs` | `Shared`: run queue, channels, blocked queues, trap, stopping; one OS thread per task | new channel, spawn, yield, send, recv, close, finish, trap | one task evaluates at a time; every thread ends; the deadlock verdict is true |
| T3 scheduler, `src/codegen_t3/emulator/sched.rs` and syscalls 70-82, 108, 137-140 | `Sched`: run queue, waiting queues, saved contexts, task states; the machine's registers | fork, yield, exit, await, block, wake, end of program | the machine always holds the context of the head of the queue |
| C scheduler, `runtime/sched.c` | run queue, blocked count, live count, handles; one POSIX thread per task, a baton | spawn, yield, await, block_on, wake_one, wake_all, main_done | the baton holder is alone; counts are exact; the process ends with the right verdict |
| C channels, `runtime/sync.c` | a ring, its lock, its waiter queues | new, bounded, send, recv, close | FIFO, bounded, nothing lost when it grows |
| Mutex, Semaphore, Barrier: `runtime/sync.c` and syscalls 109-121 | held or holder, permits, arrived and releases, waiters | lock, unlock, acquire, try_acquire, release, wait | the contract of section 11.9 |
| T3 regions, syscalls 141-142; C regions, `runtime/core.c` | mark stack, bump pointer, live count | push, pop | memory of a live task is not handed out again |
| Semantic analyser, `src/semantic/analyzer/`, `diverges.rs` | scope stack, the function's return type | one rule per construct | what it accepts does not fail in the ways it rules out |
| Borrow checker, `src/borrow/mod.rs` | moved flags per scope, region depths | use, move, rebind, branch join, loop, task | no use of a moved value; nothing leaves a region |
| IR lowering, `src/ir/lower/` | blocks so far, the flat map of locals, scopes, loop targets | one method per construct | the IR does what the program means |
| SSA and mem2reg, `src/ir/ssa.rs`, `mem2reg.rs` | dominators, phis, rename stacks | build, rename | the same values before and after |
| Optimiser, `optimize.rs`, `inline.rs`, `hoist_const.rs`, `merge_blocks.rs` | a function's blocks, the inlining budget | one pass each | observable behaviour is kept |
| T3 register allocation, `regalloc.rs` | intervals, the free pool, spill slots, save sites | allocate | values alive together lie apart; nothing alive is destroyed |
| T3 emitter, assembler | frame, literals, labels | one template per instruction; two passes | copies of an edge happen together; everything fits its field |
| T3 emulator core, `emulator/mod.rs`, `execute.rs`, `isa.rs` | 27 registers, memory, call stack | one instruction each | word arithmetic, the stack discipline of CALL and RET |
| LLVM backend, `src/codegen_llvm/` | the type of every temporary, substitutions, what each slot holds, predecessors as emitted | one template per instruction; conversions between widths | clang takes the module; it does what the IR means |
| Ternary arithmetic: `lang.rs`, `eval.rs` 43-60, 585-634 | none | lane operators, rounding division | agreement of the two backends and the reference |
| Debugger, profiler | breakpoints, step mode, counters | commands, before and after a step | a step lands where it says |
| Intervals, compile-time evaluation, unused names: `src/semantic/` | none | pure functions | sound against execution |
| Lexer, parser, LSP, driver's I/O, lints, standard library, collections, system calls | text, files | | tested; out of a model checker's reach or of interest |

**How they interact.** A program's `spawn`, `yield`, `await`, `send`, `recv`,
`close`, `lock`, `acquire` and `wait` are lowered to IR, and each backend turns
them into calls of its own scheduler. The objects of structured waiting are not
schedulers: they test a condition, call `block_on` with their own queue, and test
again when woken. A region asks the scheduler how many tasks are alive. `main` is
task 0; its end does not end the program, the emptying of the run queue does.
The compiler is a pipeline: each stage reads only what the one before it left, so a
stage is right when it keeps what its input meant and leaves the form the next one
relies on. Those forms are implicit in the code (split edges, a phi's arms, one
definition per name, scope-free locals) and are stated here as invariants.

**What is hard.** Every block and wake is a pair of steps by different tasks, and
a woken task must test again because a third may have been there first. The
interpreter and the C runtime do it with real threads that must never run
together; the C runtime with two locks that it never holds at once. The emulator
does it in one thread by swapping contexts and rewinding the program counter.
The three reach the same verdict at the end of the program from different
counters. In the compiler it is the composition: twelve passes that each rewrite
blocks, labels and phis by hand, an allocator whose liveness has to go round loops,
an emitter that must move many values at once, another that has to find the width
of a value again after it was lost. `PROJECT.json` lists the hazards, each at its line.

## Modules

### The concurrent core

| Module | Models | State and actions |
|---|---|---|
| `CoopSched` | what all three promise: one operation of the head of `run` is one step | the run queue, the waiting queues, channel lengths, task states; one action per rule (SEND), (SEND-BLOCK), ... |
| `RefSched` | the interpreter's threads | `Shared`'s fields by name; `pc` per thread; a critical section is a step, a `notify_all` after an unlock is another |
| `T3Sched` | the emulator's scheduler and the channel and task syscalls | `Sched`'s fields by name; `live` is the machine, `saved` the contexts; a syscall is a step |
| `CSched` | the C scheduler and the channel operations that call it | the globals of `sched.c` by name; `pc` per thread; one step per critical section of either lock |
| `SyncContract` | what a program observes of a mutex, a semaphore and a barrier, and the contract | holders, permits taken, waits begun and passed, leaders |
| `CSync`, `T3Sync` | the objects on either backend | the fields of `ManitMutex`, `ManitSemaphore`, `ManitBarrier`; the `HeapObj`s and `Sched::active` |
| `Sync` | a program on one backend or the other, held to the same contract | `impl` chooses |
| `ChanRing`, `Fifo` | the ring of a C channel, and the queue it implements | `ManitChan`'s fields; send with its growing loop, recv, close |
| `Regions` | the mark stack of `region { }` on either backend, under tasks that interleave freely | `marks`, `arena` (what the bump pointer has passed, or the tracked pointers), `held` (who can reach a cell); push, pop, `?`, allocation, spawn, exit, await |
| `CoopSched_proofs`, `RefSched_proofs`, `T3Sched_proofs`, `CSched_proofs`, `Sync_proofs`, `Regions_proofs` | the theorems about those modules; those about `ChanRing` are in `Sync_proofs` | |
| `QueueLemmas` | what the operators on queues do (append, head and tail, concatenation, cutting), and what that does to who waits where | |

`RefSched`, `T3Sched` and `CSched` implement `CoopSched` under the refinement
mapping at the end of each. The interesting parts of the mappings: in `T3Sched`
the operation a task will re-execute is read off the context its pc was rewound
in; in `CSched` a wake-up that is still to come, after the channel's lock has been
released, counts as done. `CSync` and `T3Sync` take an operation up to its block
or return as one step, which `OnlyBatonRuns` and `ContextsInOrder` justify.

Abstractions: a channel's contents are a length in the scheduler modules
(`ChanRing` has the values); what a task computes between operations is left out,
but it may trap anywhere; handles and tasks are the same set; the value of an
awaited task and the value a mutex protects are left out. A task may start an
operation only on an object that exists, and unlocks or releases only what it
has taken: the analyser and the lowering give a program no other way, except for
`Semaphore::release`, whose unmatched calls raise the number of permits by design
and are not in the contract's scope. In `Regions` a cell is one allocation of any
size, values in channels are left out (they outlive a region as an untaken task
value does), and a task yields anywhere, so that its regions interleave with the
others' in any order.

### The compiler

The modules follow the source's files and build on each other; each pass is an
operator from functions to functions, and the pipeline is the state machine. The
register allocator is a state machine of its own, and so is the ordering of copies; the
pipeline steps through them, and each stands alone (`AllocSpec`, `CopySpec`) for the proofs.

| Module | Models | Contents |
|---|---|---|
| `IR` | `src/ir/types.rs`, the uses of `ssa.rs` | instructions, terminators, blocks, functions, what each reads, and the arithmetic of the word |
| `IRMeaning` | | `Meaning`, what running a module prints: what both backends take the IR to mean |
| `Source` | `reference/ast.rs`, `eval.rs` | the trees of the core language and `Observe`, what the reference interpreter does with a program |
| `Types` | `semantic/analyzer/`, `diverges.rs` | the type of every construct, `Accepts`, divergence |
| `Lower` | `src/ir/lower/` | one operator per lowering method, over a state of blocks, counters, locals and scopes |
| `Ssa`, `Mem2Reg` | `ssa.rs`, `mem2reg.rs` | flow graph, dominators, frontiers, edge splitting, `Verify`; promotion and renaming |
| `Optimize`, `Inline`, `Passes` | `optimize.rs`, `inline.rs`, `merge_blocks.rs`, `hoist_const.rs` | every pass, and their order with the fixed-point rounds |
| `Compile` | the driver, front half | `stage`, `mod`; actions `Check`, `LowerStep`, `Pass` |
| `RegAlloc` | `regalloc.rs` | a state machine with one action per turn of each loop of the allocator: `NumberBlock`, `SolveBlock` and `NextRound` (liveness), `Solved` (intervals), `Explore` (arrays that escape), `BindParam`, `PlaceNext` (expire, spill, evict); and what is alive by paths, which the code never computes |
| `Copies` | `emit_phi_copies`, `emit_call_operands` | copies that mean to happen together, a step per turn of the loop: `CopyReady`, `ParkSource` (on an edge), `ParkTarget` (in a call); `held`, what every place holds by then, which the emitter does not know |
| `RegAlloc_proofs` | | that the allocator keeps what is alive apart, and that copies end as if made together |
| `T3Isa`, `T3Emit` | `isa.rs`, `emitter/`, `assembler.rs` | encodings, frames, templates, two-pass assembly |
| `T3Machine` | `emulator/execute.rs`, `syscalls.rs` | the machine, one action per step |
| `Llvm` | `codegen_llvm/` and the guards of `runtime/core.c` | the emitter with its typing state; `Builds`, what clang checks; `NativeRun`, an evaluation at the width of every type |
| `Toolchain` | the driver, both targets | actions `AllocateStep` (a step of `RegAlloc` for the function that is next), `OrderStep` (a step of `Copies` for the instruction or edge that is next) and `SiteDone`, `EmitStep`, `LoadStep`, `RunStep` (T3), `HostStep` (clang and the run of what it built) |
| `Borrow` | `borrow/mod.rs` | `Accepts`, the checker over a body; the state machine runs a body in every way its branches and loops may go |
| `MCCompile`, `MCBorrow` | | the corpora of programs |

`Compile` keeps two things the compiler does not know: `means`, what the module
would do as it now stands, and `asked`, what the interpreter says. `Toolchain` adds
what the machine cannot see, which words of the stack have been written
(`fresh`) and where each function lies (`homes`).

Abstractions: names are made of what the code makes them of, without its
numbering being significant; a string is a number that can only be printed; the
word has `WordTrits` trits and the registers' fields `RegTrits` and `ImmTrits`, so
that overflow, a constant no field holds and a branch too far occur at small numbers
(the source has 27, 5 and 3). The per-function rounds of
`run_passes_with` are taken over the whole module: the passes of a round do not
look at other functions. The order of blocks the passes insert is as in the code, except that
two critical edges of one block are split in either order (the code goes by label),
and the allocator's numbering depends on it: `AllocatorFed` says what it and the ordering of copies need. In `Llvm` a
function's text is a list of typed instructions; an i1 that is `and`ed is one bit;
the wrapper around main, the status of the process and the narrowing of natives'
results are left out. Arrays are of ints, or of arrays of ints, sized or not, in the frame or
(where they escape, on T3) on the heap; `Source` gives them no meaning, so for them the IR as
lowered is the reference. Iterating an array of no known length is not modelled. Not in the
language that is compiled here: floats, strings as values, structs, closures, tasks,
generics, indirect and variadic calls.

In `Borrow` a program carries the type of each expression, as the analyser leaves
it; operators, casts, ranges, `?` and `await` are one form with operands. The
dynamic side (a step per statement, with a moved mark on values and not on names) is a
definition of what the checker is to rule out, read off its header and `docs/language-reference.md`.

## Runs

| Run | Checks | Shows |
|---|---|---|
| `coop` | `TypeOK`, `NoLostWakeup`, `TrueDeadlock`, `WithinCapacity` | the rules themselves: one wake per value suffices; a deadlock is reported only when nobody could go on |
| `ref` | `OnlyHeadRuns`, `EndIsFinal`, `ImplementsCoop`, `AllThreadsEnd` | the interpreter's one condition variable is enough, spurious wake-ups included |
| `t3` | `ContextsInOrder`, `EndReported`, `ImplementsCoop` | contexts are never mixed up, also with `try_recv` and with `return` in a task; the exit status and the deadlock message are right |
| `c` | `OnlyBatonRuns`, `CountersRight`, `ReportsTheEnd`, `ImplementsCoop`, `ProcessEnds` | the two locks and the condition variables never let two threads run, and the process ends with the right verdict |
| `sync` | `KeepsContract`, `NoStrandedWaiter`, `RoundsWhole` | both backends keep section 11.9, each barrier used for one round per task; every complete round has one leader, and all of it gets through |
| `ring` | `RingIntact`, `ImplementsFifo` | wrapping and growing lose and reorder nothing |
| `regions` | `TypeOK`, `MarksAscend`, `FreedOnce`, `SoundWhenAlone` | however tasks interleave and abandon regions the stack stays in order; a region opened by the program's only task is sound whatever is spawned in it, unless a push got no memory while there were marks on the stack |
| `compile` | `AcceptedIsSafe`, `CompiledAsDefined`, `SSAForm`, `DominatorsExact`, `GrowthBounded`, `MeaningKept`, `AllocatorFed`, `LiveApart`, `CopiesTogether`, `NeverRefused`, `FramesKept`, `RunsAsMeant` | what is accepted prints on both targets what the interpreter defines, and each stage keeps what the one before it meant |
| `borrow` | `MovedNeverRead`, `NothingEscapes`, `NoFalseAlarm` | what the move checker accepts reads nothing moved and leaves nothing of a region behind; a straight body it refuses does read what was moved |
| `match_leak`, `print_clobber`, `regions_shared` | one property each, violated | the findings below |

Bounds of the concurrent runs: `main` and two more tasks (two in all for
`regions_shared`) and, for the schedulers, one channel; `ref` and `c` check
liveness and so use no symmetry. With three tasks there can be one that runs, one
that was woken and one that overtakes it, which is what the wake-one discipline
is about; the second waiter of a queue, needed to see order, exists as well.
`MaxOps` bounds the operations of a task (channel creation and exit are not
counted), `Rounds` its barrier waits; capacities are 0 (unbounded) and 1, a ring
has at most `MaxCap` slots; `MaxDepth` regions of a task and `MaxMarks` marks in all
let one task nest two regions, two tasks interleave one each, and a region lie above or below a
mark that `?` abandoned; the theorems hold for any number. Any push and any tracked
allocation of the C runtime may fail. Two cells are
enough to have one on each side of a mark; `regions_shared` needs one.

The corpus of `compile` (`All` in `MCCompile`) has over two hundred programs, each compiled
with every optional pass and with none. `Arithmetic` has the operators at
the edge of the word; `Logic` every operator on every two types, of which most must
be refused; `Control`, `Loops`, `Results` and `Calls` the shapes passes act on: values that meet, loops
that rotate variables, matches, `?`, inlining beyond the budget, recursion; `Scopes` hides
names and has programs that must be refused; `Arrayed` passes arrays, returns them, nests,
writes, iterates and makes them again in a loop, with indices on and past the end; `Spilling` has more values than registers, constants no
immediate holds, and a function of as many parameters as there may be that permutes them. A
main runs the function on every value of a range, so that neither folding nor
inlining settles it. `Fuel` bounds a run; no program of the corpus reaches it.
Where the interpreter lacks a construct (`for`, `loop`, `break`, `continue`, arrays), the IR
as lowered is the reference. `Leaks`, `Printing`, `Evicting`, `Widths`, `RowWritten`,
`RowsGiven`, `RowsKept` and `Ragged` are not in `All`: they are programs that go wrong,
for the findings below.

The corpus of `borrow` has five thousand bodies: every short sequence of reads, moves,
rebindings and shadowings before, in and after every construct, and what a region's cell
may be given to, enums excepted. `Rounds` is how often a loop may go round: twice shows
a value moved in the round before. `Revived` and `Escaping` are outside `All`.

Deadlock checking is off because programs end: the outcome of a program that ended,
trapped, deadlocked or was refused is a state with no successor.

**Fairness.** `RefSched` and `CSched` assume weak fairness of each thread's steps:
the operating system eventually runs a thread that can run. A spurious wake-up is
not a fair action. That evaluation between two operations ends is the interpreter's
step budget (`tick`); for the C runtime it is an assumption on the program, which
`MaxOps` bounds. Nothing is assumed about who gets a lock first.

## Findings

- `match_leak`: the lowering of `match` enters an arm's binding in the flat map of
  locals and nothing takes it out; a local of the same name reads the arm's
  slot afterwards, which on another path was never made.
- `print_clobber`: `abi_clobber_sites` has no print, which the emitter does with
  MOV R1; a parameter that stays in R1 across one is destroyed.
- `regions_shared`: a region asks whether another task is alive only when it
  ends. `main` opens one while a task is alive; the task allocates its value and
  finishes; `main` leaves the region, alone, and the value is released before
  `main` awaits it. The cells of a task whose region outlives another's are lost in
  the same way. Both backends do it; `SoundWhenAlone` says what does hold.

More disagreements are visible in the models and have no run of their own. In the
runtimes:

- `try_recv` (syscall 108) takes a value from a bounded channel and wakes no sender
  (`syscall_proc.rs` 877, against the comment at 457).
- `return` in a spawned block of `main` reaches RET with an empty call stack and ends
  the task without completing its handle; its awaiter waits for ever and the program
  ends in a deadlock (`execute.rs` 518, against `eval.rs` 511).
- `manit_hand_off` releases the lock before it faults. If main, asleep on
  `manit_quiesce`, wakes spuriously then, it sees an empty run queue and the process
  exits with status 0 (`Spurious = {"wake", "manit_quiesce"}` in `CSched` violates
  `ReportsTheEnd`; `sched.c` 374).
- A barrier used again lets a fast task through with the release meant for a slow one
  of the last round, on both backends: it never waits for its own round (`Rounds = 2` in `Sync` violates
  `KeepsContract`; `semantics.md` 1017).
- On the emulator, before the first spawn, an exhausted semaphore admits its
  caller (`Early = TRUE` in `T3Sync` violates `AtMostPermits`; `semantics.md` 1015).
- If the bigger ring of a channel cannot be allocated, the value is written over
  the oldest one (`MallocMayFail = TRUE` in `ChanRing` violates `RingIntact`;
  `sync.c` 266 says it is dropped).
- If `__region_push` gets no memory it leaves no mark (`core.c` 36, "out of memory: do not track"), and
  the pop at that region's end takes the outer region's (`core.c` 47) and frees what that still
  holds, with no second task anywhere (`Tasks = {t0}`, `ReallocMayFail = TRUE` and two nested
  regions in `MCRegionsShared.cfg` violate `NothingHeldIsLost`; `language-reference.md` 2540). The first push may
  fail without harm. The code asks for memory when 0, 8, 16, ... marks are on the stack.
- In C `main`'s end is not counted, so no region of a task reclaims after it.
- `manit_hand_off` says "nothing can fill those channels" also when every blocked
  task is a sender (`sched.c` 120-126, against 107-110).
- Syscall 118 does not count the arrival of a task that takes a pending release,
  `Barrier_wait` does.

In the front end:

- Compiled code short-circuits `tand` and `tor` (`lower_expr.rs` 212-295); the
  interpreter evaluates both sides, and `semantics.md` 5 and 6.3 name only `&&` and `||`.
- `tnot` of a `bool` is lowered to a bare negation (`lower_expr.rs` 538-543): `tnot
  false` is 0, and +1 by `semantics.md` 6.4.
- The word operators take a trit or a bool, on which the interpreter traps (`eval.rs` 684-691).
- `fn f() -> int { print(1) }` is accepted: a void tail counts as a value (`diverges.rs` 207-209).
- A `bool` given to a `bool3` name becomes 2b-1, and is clamped by the interpreter;
  branches of an `if` that mix the two are not converted at all.
- The elements of an array literal are not checked against each other: `[[1, 2], [3]]` is an
  `[[int; 2]; 2]`, and `m[1][1]` passes its bounds check and reads past the row
  (`expressions.rs` 1127-1140; `Programs <- Ragged` violates `AcceptedIsSafe`).
- Dead-code elimination drops an operation that would trap (`optimize.rs` 644-668,
  773-788; `semantics.md` 4 and 8). `MeaningKept` allows for it.
- Constants are folded at 64 bits in v1 without the check of the word (`semantics.md` 10.1).
- The move checker forgets that a name was moved when it is given a new value in a loop
  that may not go round (`Programs <- Revived` violates `MovedNeverRead`), and lets a cell
  leave its region through another name of a channel, through a call that stores its
  argument, or, abandoning the mark, by `return` in expression position (`Programs <- Escaping`
  violates `NothingEscapes`; `language-reference.md` 2543). A block or an `if` as an
  initialiser does not consume the name it ends in. `is_region_storage` counts no enum
  (`borrow/mod.rs` 303-350), where its comment at 289 names an enum's payload.
- `?` leaves a region without popping it, which is what `return` there is refused
  for. In `Regions` this only leaks: an outer pop takes the abandoned, newer mark.

In the backends:

- A parameter in a register of the pool that is evicted because the pool is full gets
  a slot the prologue does not store (`regalloc.rs` 925, against the comment at 832):
  `Programs <- Evicting` violates `FramesKept`.
- LLVM: the arms of a phi are not brought to its type. `a == 0 && tposs t` merges the i1 of the one with the i8 that
  `tposs` is recorded as (`emit_instr.rs` 966-1000, 1055-1121), and clang refuses the module, though
  the comment at `emit_instr.rs` 759 has every use consistent, "the phi included": `Programs <- Widths` violates
  `NeverRefused`.
- LLVM: writing a whole row of a nested array steps by the size of the row
  (`lower_expr.rs` 1698-1703 gives the GetPtr the array's type, which `emit_instr.rs` 883-918 strides by),
  where the rows are kept as pointers of a word, as a comment at `lower_expr.rs` 1318 says; the
  row read afterwards is the old one. T3 steps by a word: `Programs <- RowWritten` violates `RunsAsMeant`.
- T3: an array a function returns is copied word by word into its caller's buffer, for which
  `regalloc.rs` 553-570 lets it live in the callee's frame. The words of a nested array are pointers to
  rows in that frame, and the next call overwrites them: `Programs <- RowsGiven` violates `RunsAsMeant`.
- T3: an array literal has one storage in the frame, so in a loop the value made in one
  round is overwritten by the next although another name still holds it; natively every
  round has its own: `Programs <- RowsKept` violates `RunsAsMeant`.
- T3: a cast of an int to `bool` is a bare MOV (`emit_instr.rs` 1755-1862; `semantics.md` 6.7
  makes it 0 or 1). Neither backend clamps a cast of an int to `bool3`; the interpreter does.
- The label of the block `entry` of `main` is that of a function called `main_entry`; the
  assembler keeps the later one (`emitter/mod.rs` 122 calls labels globally unique).

## Proofs

The theorems hold for any finite set of tasks, any channels and capacities, any number
of operations, any nesting: the configurations of the runs are instances. Each follows
from an inductive invariant, which TLC checked first on the instance of the run. The
proofs have one lemma per queue operation or helper of the code, one step per
action, and below it one per conjunct the action can disturb.

**`CoopSched_proofs`**, of the rules all three schedulers implement:

- `TypeCorrect`: `[]TypeOK`;
- `ChannelsAreBounded`: `[]WithinCapacity`, the bound that `(SEND-BLOCK)` exists for;
- `NoWakeupIsLost`: `[]NoLostWakeup`, that waking one waiter per value is enough for any
  number of tasks;
- `DeadlockIsTrue`: `[]TrueDeadlock`.

The invariant for the first two adds to the types that a channel that does not exist
yet holds nothing, without which creating one with a small capacity could exceed it.
The other two need `WInv` (`EverybodyPlaced`): the queues have no task twice and share
none, a waiting task's operation is the one its queue stands for, and what is waited for
can still come (the channel exists, the awaited task is alive). With it, how many receivers of a channel were woken and have not run is a count of the run
queue. A receive that takes a value reduces the count and the values by one; one that
finds none was overtaken, and whoever overtook took the value it was woken for. A
deadlock is then true because with an empty run queue nobody is woken, so the
waiting receivers' channel is empty and the waiting senders' full.

**`RefSched_proofs`**, of the interpreter:

- `TypeCorrect`: `[]TypeOK`;
- `OneTaskEvaluates`: `[]OnlyHeadRuns`, that threads never evaluate together;
- `NothingAfterTheEnd`: `EndIsFinal`, that no thread changes the shared
  configuration once the end of the program has been recorded;
- `InterpreterImplementsCoop`: `ImplementsCoop`, the refinement of `CoopSched`.

The invariant is the types, `OnlyHeadRuns` and `Quiet`
(once the program is stopping no thread is where it could still act as its
task). `OnlyHeadRuns` alone is nearly inductive: a step changes the head of `run`
only in an action of the head itself, which leaves evaluation in the same step.
`Quiet` is what makes a recorded end final: `stopping` is set by the one thread that was
evaluating, as it stops.

The refinement needs one invariant more, `Orderly` (`QueuesInOrder`): nobody is in two
queues, a waiting task's operation is the one its queue stands for, a task is queued only
once it is born. The state `CoopSched` gives a task is read off the queues (`ByQueue`), and
the code's `retain(|x| x != me)` is what `CoopSched` calls the rest of the run queue only
because nobody stands there twice (`WithoutHead`). The wake of the threads after an unlock is
a stutter: which thread runs was decided by the queue before.

**`CSched_proofs`**, of the C runtime:

- `BatonIsExclusive`: `[]OnlyBatonRuns`;
- `CountsAreRight`: `[]CountersRight`;
- `EndIsReported`: `[]ReportsTheEnd`, if `manit_quiesce` does not wake by itself (a
  finding above says what happens if it does);
- `RuntimeImplementsCoop`: `ImplementsCoop`, the refinement of `CoopSched`, whichever
  condition variables wake by themselves.

The invariant `IInv` has a conjunct per thing the code relies on: `Placed` (each task in
one queue), `Counts` (the counters against the queues), `Baton` (who may be outside
a waiting loop), `Stages`, `Args` and `Handles` (what a thread between two critical sections has
already done and still has to do), `Finish` (what is true once main has reported). For
the refinement the state that `CoopSched` sees is read off `pc`: between the critical section
that changes a channel and the one that wakes a waiter, the waiter counts as woken.
One lemma per action says that what is seen changes as one action of `CoopSched` does
or not at all.

**`T3Sched_proofs`**, of the emulator's scheduler:

- `ContextsStayInOrder`: `[]ContextsInOrder`, that no syscall returns into another task;
- `EndIsReported`: `[]EndReported`;
- `EmulatorImplementsCoop`: `ImplementsCoop`, the refinement of `CoopSched` up to the
  first `try_recv` or `return` in a spawned block.

The heart of the invariant `IInv` is `Standing`: nobody is in two queues, a task that
waits will execute the syscall of its queue again, and `saved` has the contexts of exactly the
queued tasks other than the head of R. Both halves are needed at once, because `restore`
finds a context only if it was saved when its task left the machine, and what it restores
re-executes only if the pc was rewound for the queue it waits in. `Forked` and
`Faced` say why a fork finds a new task and a wait something that can still come; `Alone`, that before
the first fork there is nobody to wake, which is why the code need not look; `MainsEnd`,
that main's status is there once main is gone. The lemmas are few because the code has few ways to change
the queues: `WakesAndGoes`, `WakesAllAndGoes`, `BlocksAndSwitches`, `LeavesAndSwitches`.

**`Sync_proofs`**, first part, of the ring of a channel, while malloc succeeds:

- `RingStaysIntact`: `[]RingIntact`;
- `RingIsAQueue`: `ImplementsFifo`, through any wrapping and doubling.

The hypothesis `~MallocMayFail` is needed: a finding above is what happens without it.

**`Sync_proofs`**, second part, of the mutex, semaphore and barrier on either backend, for any
number of tasks, permits, parties and rounds:

- `NobodyIsStranded`: `[]NoStrandedWaiter`;
- `HoldersAreFew`: `[](MutualExclusion /\ AtMostPermits)`;
- `RoundsAreWhole`: `[]RoundsWhole`;
- `ContractKept`: `[]KeepsContract`, if each task uses the barrier once.

All assume `~Early`, no operation from before the first spawn. The invariant
(`Accounted`) relates the fields of the objects to what the tasks hold and have been
promised: permits left and taken add up to those there were (`Balanced`), waits passed and
releases pending to what the rounds so far allow (`Gate`), and while anybody waits for a
permit or a release there are no more of them than tasks woken for one (`Served`). `Rounds <= 1` is needed for the
contract alone, because in a barrier that is used again a fast task may take a
release meant for a slow one; `RoundsWhole`, which counts who gets through and not who, holds
for any number of rounds.

**`Regions_proofs`**, of the regions of both backends:

- `TypeCorrect`: `[]TypeOK`;
- `MarksStayInOrder`: `[]MarksAscend`, that no pop moves the bump pointer up or
  reaches past the list, whichever task's mark it takes;
- `NoDoubleFree`: `[]FreedOnce`;
- `LoneRegionsAreSound`: `[]SoundWhenAlone`, that a region opened by the only task there was
  releases nothing still held, unless (in C) a region was opened without a mark while another
  mark was on the stack.

The invariant for the first three adds to the types and `MarksAscend` that the arena holds
each allocated cell at most once and none that was released (`ArenaInOrder`): a
pop releases exactly what it cuts off, and the cells it keeps differ from those
because the arena has no duplicates.

For the last, `Known` says who may hold anything, and while every region was opened by a
lone task, and none without a mark while there were others, `Nested` and `Low` hold: one task is inside regions, and a task
still running was spawned where its handle's holder still is; what outlives the `i`-th
region of a task lies below the mark the end of that region will take. A running task's
own cells need not: they are safe because nothing is released while it runs, and when it ends
what it hands over belongs to the region it was spawned in. When the outermost regions got no
mark, their ends take none, and what is held in them is not on the list, because in C the list starts
with the first mark (`ListFromFirstMark`). `?` leaves a mark too many,
so a later end takes a newer mark than its own, which is no lower because marks ascend.
`SoundWhenAlone` alone is not inductive in any of these steps.

The assumptions on constants are those of the modules: main is a task, there are
finitely many tasks, capacities, bounds and the numbers of registers are naturals, `Nobody` is not a task
(0 and NULL are no handle), and what `malloc` leaves in a slot is no value
anybody sent.

**`RegAlloc_proofs`**, of the register allocator, for every function that fits it
(`FitsAllocator`), any number of registers, parameters, blocks and temporaries, and of
copies that mean to happen together:

- `AllocPrepared`: `[]Prepared`, about everything before the scan;
- `AllocPlaced`: `[]Placed`, the bookkeeping of the scan;
- `AllocPlacesApart`: `[]PlacesApart`, that two temporaries whose ranges meet never share a
  register or a slot;
- `AllocLiveApart`: `[](PrintsApart(func) => LiveApart)`, that no instruction writes over, or
  destroys in passing, a value that some path from it still reads;
- `AllocCopiesFit`: `[](FitsEmitter(func) => CopiesFitHere)`, that the copies of every call and every
  edge of a function just allocated have different targets and leave R23 alone;
- `CopiesTogetherHolds`: `[]CopiesTogether` from `CopySpec`, that any such copies, made one
  by one, end as if all had been made at once.

`LiveApart` says what is alive by paths: `Wanted` follows the edges backwards from each
read, once per block of the function. The allocator computes something else, a fixed point of
sets per block and then one interval per temporary, so the argument has four parts. (1) When
a round has changed nothing, `liveIn` is closed under a step backwards, and the reads
themselves are in it, so whatever number of steps `Wanted` takes stays inside
(`IterateInside`). (2) The interval of a temporary is the hull of the places it is
touched at (`HullCovers`); what is alive after an instruction is touched at it or before and at
the end of its block or later, so its interval spans the instruction (`AliveSpans`,
`AliveAcross`). Where a value is alive at the start of a block, the write before it is found
through `LaidOut`. (3) The scan gives values whose intervals meet different places. Its invariant
(`Placed`) has to say of each value in a register whether it is still counted as holding it,
that what was expired ended before everything still to be placed starts, and that a slot
is given out once (`SoundSlot`, `SoundRegister`, `SoundEvict`, `SoundExpire`, one per
branch of the scan). (4) What an instruction destroys besides its result belongs to the
ABI registers, which only parameters can be in, or is a call's, and `Lost` kept those apart
(`NotDestroyed`). A phi is written at the end of each block it comes from, with the other phis
of its block, so for these the argument is made at that place (`ApartAtPhi`).

Two hypotheses are visible in the statements. `PrintsApart`, that nothing is printed while the
parameter that arrived in R1 is alive, is the finding `print_clobber` and nothing more: the
proof goes through for every other instruction. `FitsAllocator` is the form the allocator relies on without
checking it: the phis of a block stand together at its head and write a temporary each of its own, every value is written in
a block laid out before any block at whose start it is alive, parameters have different names
and are no more than the registers they come in (`emit_function` refuses more). It is the guard of `AllocSpec`'s first step, and the
run `compile` checks that the compiler hands over no other function (`AllocatorFed`).

The argument for copies is about the states in which none can be made. There every target
is the source of another copy, so each target has a reader of its own; that is an injection
of the finite set of pending copies into itself, which is onto. So what is read is exactly
what is to be written: no literal is pending, nothing is parked, and parking one source is
possible and enough. This is what the comments in `emit_phi_copies` claim without proof, that
only one cycle is ever open and that the arm without a victim is unreachable
(`emit_instr.rs` 1950-1953, 1977-1978). The invariant `CopyInv` says that a pending copy's source still holds what
it held at first (`CopiesSound`). A literal that fits no immediate is put together in R23
itself, so it destroys what is parked there; but nothing is ever parked while a literal is pending.

`FitsEmitter` is the assertion in `emit_call_operands`, no more operands than registers for them, and that a
jump leads to a block; `AllocatorFed` checks both. The assumption on R23 is that neither the pool nor
the parameters reach it. System calls whose operands go to fixed registers up to R25
(`emit_syscall_args`) are not modelled, and the theorems say nothing of a template with
R23 for a target. The sentence "Slots never block anything" above `emit_phi_copies` is stale (`emit_instr.rs` 1895):
the test a few lines below it has slots block, and `CopiesTogether` fails without (`ReadySlots`).

Both the number of steps of `Wanted` and the least and greatest member of a set
are inductions over the naturals; the prover cannot instantiate the library's induction
theorem, so the set of numbers for which the claim fails is shown to have no least member
(`LeastNatural`, `AllNaturals`). An address of an array that escapes in more rounds than one
changes only which allocations are system calls; the proof uses `HeapAllocas` as it is found,
in the emitter's choice and the allocator's list alike.

Only model-checked: liveness (out of the prover's reach) and the rest of the compiler and
the move checker, whose operators recurse over trees, blocks and instructions: what
a recursive definition computes for every input is beyond the prover.

## Not modelled, and the plan

Next, most important first:

1. Structs and arrays of other types in `Lower`, and tasks in lowered programs, so that `Toolchain`
   meets `T3Sched`.
2. Intervals and compile-time evaluation (`interval.rs`, `const_fold.rs`) against execution; the
   debugger's stepping; the ordered containers of the emulator.

Left out for good: text (lexer, parser, formatting, messages), floats, I/O, the
language server, the graphical and network runtime, the collections of the C runtime,
and the condition-variable paths of `sync.c` that run only without a scheduler, where a
single thread would wait for itself.
