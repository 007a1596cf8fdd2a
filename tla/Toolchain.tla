------------------------------ MODULE Toolchain -------------------------------
(***************************************************************************)
(* From a parsed program to the end of its run on either target, in the    *)
(* order src/src/main.rs calls the parts: the compiler of Compile, then    *)
(* for the T3 machine the emitter, the assembler and the emulator, which   *)
(* takes one step for each instruction; for the host the LLVM emitter, and *)
(* a step that stands for clang and for the run of what it builds.         *)
(***************************************************************************)
EXTENDS Compile, T3Emit, T3Machine, Llvm

\* ctxs and code are what the emitter decided and wrote for the functions of
\* mod; homes says where each function came to lie, and fresh which words of
\* the stack hold what was written there, neither known to the program; native is
\* what the host's build of the program did.
VARIABLES turns,    \* the moves of this function's instructions that have their order
          ctxs, code, homes, fresh, native
written == <<ctxs, code, homes, fresh, native>>
backend == <<written, turns, copier>>

ToolInit == Init /\ Off /\ AllocIdle /\ CopyIdle /\ turns = << >> /\ ctxs = << >> /\ code = << >> /\ homes = << >> /\ fresh = {} /\ native = Unknown

CompileStep == Next /\ UNCHANGED <<machine, backend, allocator>>

\* The functions are allocated in their order.  When one has its places the
\* copies of its instructions are put in theirs, and it is emitted.
EmitStart == /\ Optimised
             /\ stage' = "emitting"
             /\ UNCHANGED <<prog, opt, round, mod, before, asked, means, machine, backend, allocator>>
AllocateStep == /\ stage = "emitting"
                /\ (Len(ctxs) < Len(mod) /\ Start(mod[Len(ctxs) + 1])) \/ AllocStep
                /\ UNCHANGED <<vars, machine, backend>>

Sites == {s \in UNION {{b} \X (1..Len(func.bs[b].is) + 1) : b \in DOMAIN func.bs} :
            Number(s[1], s[2]) \notin DOMAIN turns /\ InstrCopies(func, locs, s[1], s[2]) # << >>}
First(ss) == {s \in ss : \A r \in ss : Number(s[1], s[2]) <= Number(r[1], r[2])}
SiteStart == /\ Allocated /\ plan = << >>
             /\ \E s \in First(Sites) : CopyStart(InstrCopies(func, locs, s[1], s[2]), CopyKind(func, s[1], s[2]))
OrderStep == /\ stage = "emitting"
             /\ SiteStart \/ CopyStep
             /\ UNCHANGED <<vars, machine, written, turns, allocator>>
SiteDone == /\ stage = "emitting"
            /\ CopyRelease
            /\ \E s \in First(Sites) : turns' = turns @@ (Number(s[1], s[2]) :> moves)
            /\ UNCHANGED <<vars, machine, written, allocator>>

EmitStep == /\ stage = "emitting"
            /\ Allocated /\ plan = << >> /\ Sites = {} /\ Release
            /\ ctxs' = Append(ctxs, Context(func, Allocation, turns)) /\ turns' = << >>
            /\ IF Len(ctxs') < Len(mod) THEN UNCHANGED <<stage, code>> ELSE stage' = "emitted" /\ code' = EmitModule(mod, ctxs')
            /\ UNCHANGED <<prog, opt, round, mod, before, asked, means, machine, homes, fresh, native, copier>>

\* The first word and the frame of every function.
Homes(map) == [n \in DOMAIN mod |-> [at |-> map[mod[n].name], frame |-> ctxs[n].frame]]

LoadStep == /\ stage = "emitted"
            /\ IF Encodes(code)
               THEN /\ stage' = "loaded" /\ Boot(Assemble(code))
                    /\ homes' = Homes(LabelMap(code, 0))
               ELSE stage' = "rejected" /\ UNCHANGED <<machine, homes>>
            /\ mod' = << >> /\ before' = << >> /\ ctxs' = << >> /\ code' = << >>
            /\ UNCHANGED <<prog, opt, round, asked, means, fresh, native, turns, copier, allocator>>

\* The stack in use is what lies between R26 and StackBase.  What a return
\* releases stays as it is until something is pushed over it.
Written == IF Op = "STORE" /\ Address < StackBase THEN {Address} ELSE {}
RunStep == /\ MachineStep
           /\ fresh' = {n \in fresh \union Written : ~(regs'[SP] <= n /\ n < regs[SP])}
           /\ UNCHANGED <<vars, ctxs, code, homes, native, turns, copier, allocator>>

\* The other target: what clang refuses goes no further.
HostStep == /\ Optimised
            /\ LET ll == LlvmModule(mod)
               IN  IF Builds(ll) THEN stage' = "native" /\ native' = NativeRun(ll, Fuel)
                   ELSE stage' = "rejected" /\ UNCHANGED native
            /\ mod' = << >> /\ before' = << >>
            /\ UNCHANGED <<prog, opt, round, asked, means, machine, ctxs, code, homes, fresh, turns, copier, allocator>>

ToolNext == CompileStep \/ EmitStart \/ AllocateStep \/ OrderStep \/ SiteDone \/ EmitStep \/ LoadStep \/ RunStep \/ HostStep
ToolSpec == ToolInit /\ [][ToolNext]_<<vars, machine, backend, allocator>>
-----------------------------------------------------------------------------
\* What the compiler hands to the register allocator is what that relies on:
\* the phis of a block together at its head, and every value written, in the
\* order of the blocks, before it is needed.  A call has no more operands than
\* there are registers for them, and jumps lead to blocks.
AllocatorFed == (phase = "number" /\ starts = << >>) => FitsAllocator(func) /\ FitsEmitter(func)

\* What the compiler accepts both targets build: whatever the sizes of its
\* constants, frames and functions, the assembly fits the fields of the
\* instructions, and the LLVM module gives every operand the type it is used at
\* and every name one definition.
NeverRefused == stage # "rejected"

\* Both targets print what the optimised IR means, and end as it does.
RunsAsMeant ==
  /\ status \in {"halted", "trap"} => out = means.out /\ (status = "halted") = (means.end = "normal")
  /\ stage = "native" => native = means

HomeOf(at) == CHOOSE n \in DOMAIN homes : homes[n].at <= at /\ \A m \in DOMAIN homes : homes[m].at <= at => homes[m].at <= homes[n].at
Base == StackBase - Len(calls) - FoldLeft(LAMBDA sum, at : sum + homes[HomeOf(at)].frame, 0, calls)
\* At its first word and at each return a function has the stack pointer its
\* caller had, less the word a call takes, and in between less its frame.
FramesBalanced ==
  (status = "running" /\ \E n \in DOMAIN homes : homes[n].at <= pc) =>
    IF Op = "RET" \/ pc = homes[HomeOf(pc)].at THEN regs[SP] = Base
    ELSE regs[SP] \in {Base, Base - homes[HomeOf(pc)].frame}

\* Every word of the stack a function reads has been written since the frame it
\* is a word of was made, and if that frame is gone nothing has been pushed over
\* it; every other word it reads has been allocated.
ReadsWritten == (status = "running" /\ Op = "LOAD") => Address \in fresh \union HeapBase..heap-1

\* The stack on every path through every call: whatever was saved, spilled or
\* passed, SP comes back and no slot is read that was not stored.
FramesKept == FramesBalanced /\ ReadsWritten
=============================================================================
