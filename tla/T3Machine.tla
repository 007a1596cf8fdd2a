------------------------------ MODULE T3Machine -------------------------------
(***************************************************************************)
(* The T3 machine (src/src/codegen_t3/emulator/execute.rs): 27 registers,  *)
(* R0 always zero and R26 the stack pointer, a memory that holds the       *)
(* program, the stack and the heap, and a stack of return addresses that   *)
(* is not in that memory.  One action is one instruction.                  *)
(*                                                                         *)
(* A program here starts no tasks, so ending its only one halts the        *)
(* machine.  mem has the words that were written; any other is zero.       *)
(***************************************************************************)
EXTENDS T3Isa, Bitwise

CONSTANTS HeapBase, MemWords,   \* where the heap starts and memory ends (63000, 65536 in the source)
          DepthMax              \* the deepest calls may nest (10000 in the source)

VARIABLES image, pc, regs, mem, calls, heap, out, status
machine == <<image, pc, regs, mem, calls, heap, out, status>>

Regs == 0..26
ClampWord(v) == Max({-T27Max, Min({T27Max, v})})
WriteReg(r, v) == IF r = 0 THEN regs ELSE [regs EXCEPT ![r] = ClampWord(v)]

\* Memory as an instruction sees it.
MemAt(n) == IF n \in DOMAIN mem THEN mem[n] ELSE IF n + 1 \in DOMAIN image THEN image[n + 1] ELSE 0

\* Before a program is loaded, and as it starts.
Off == /\ image = << >> /\ pc = 0 /\ regs = [r \in Regs |-> 0] /\ mem = << >>
       /\ calls = << >> /\ heap = 0 /\ out = << >> /\ status = "off"
Boot(words) == /\ image' = words /\ pc' = 0
               /\ regs' = [r \in Regs |-> IF r = SP THEN StackBase ELSE 0]
               /\ mem' = << >> /\ calls' = << >> /\ heap' = HeapBase /\ out' = << >>
               /\ status' = "running"

-----------------------------------------------------------------------------
\* The instruction at pc and its operands: the third is a register plus the
\* immediate.
Word == MemAt(pc)
Fields == IF OpOf(Word) \in WideOps THEN {R1Of(Word)} ELSE {R1Of(Word), R2Of(Word), R3Of(Word)}
Op   == IF pc >= MemWords THEN "HALT"
        ELSE IF Word \div P18 \in DOMAIN OpName /\ Fields \subseteq Regs THEN OpOf(Word) ELSE "unknown"
Lhs  == regs[R2Of(Word)]
Rhs  == regs[R3Of(Word)] + ImmOf(Word)
Address == regs[R2Of(Word)] + ImmOf(Word)

TrapStep == status' = "trap" /\ UNCHANGED <<regs, mem, calls, heap, out>>

\* Sums, differences, products and shifts that leave the word trap, and so
\* does a division by zero; nothing else can.
Narrow == {"TADD", "TSUB", "TMUL", "TSHI", "TDIVN", "TMODN"}
Divisions == {"TDIV", "TMOD", "TDIVN", "TMODN"}
ShiftBy(n) == Pow(3, Max({0, Min({WordTrits - 1, n})}))
Unsigned(v) == v % Pow(2, I64Bits)
LaneName == [TANDW |-> "And", TORW |-> "Or", TXORW |-> "Xor", TIMPW |-> "Imp", TCMPW |-> "Cmp"]
Computes(op, l, r) ==
  CASE op = "TADD"  -> l + r
    [] op = "TSUB"  -> l - r
    [] op = "TMUL"  -> l * r
    [] op = "TDIV"  -> DivTrunc(l, r)
    [] op = "TMOD"  -> RemTrunc(l, r)
    [] op = "TDIVN" -> DivNearest(l, r)
    [] op = "TMODN" -> RemBalanced(l, r)
    [] op = "TSHI"  -> l * ShiftBy(r)
    [] op = "TSHR"  -> (l + (ShiftBy(r) - 1) \div 2) \div ShiftBy(r)
    [] op = "TMIN"  -> Min({l, r})
    [] op = "TMAX"  -> Max({l, r})
    [] op = "TCMP"  -> SignOf(l - r)
    [] op = "BAND"  -> I64Wrap(Unsigned(l) & Unsigned(r))
    [] op = "BOR"   -> I64Wrap(Unsigned(l) | Unsigned(r))
    [] op = "BXOR"  -> I64Wrap(Unsigned(l) ^^ Unsigned(r))
    [] OTHER        -> LaneWise(LaneName[op], l, r)
AluOps == Narrow \union Divisions \union DOMAIN LaneName
          \union {"TSHR", "TMIN", "TMAX", "TCMP", "BAND", "BOR", "BXOR"}
Alu == /\ Op \in AluOps
       /\ pc' = pc + 1
       /\ IF Op \in Divisions /\ Rhs = 0 THEN TrapStep
          ELSE IF Op \in Narrow /\ ~InWord(Computes(Op, Lhs, Rhs)) THEN TrapStep
          ELSE regs' = WriteReg(R1Of(Word), Computes(Op, Lhs, Rhs)) /\ UNCHANGED <<mem, calls, heap, out, status>>

Transfers == {"TNEG", "TLIT", "MOV", "LOAD"}
Carries == CASE Op = "TNEG" -> -Lhs
             [] Op = "TLIT" -> LitOf(Word)
             [] Op = "MOV"  -> Lhs
             [] Op = "LOAD" -> MemAt(Address)
Transfer == /\ Op \in Transfers
            /\ pc' = pc + 1
            /\ regs' = WriteReg(R1Of(Word), Carries)
            /\ UNCHANGED <<mem, calls, heap, out, status>>

\* A store into the program traps; one past the memory is lost.
StoreStep == /\ Op = "STORE"
             /\ pc' = pc + 1
             /\ IF Address < Len(image) THEN TrapStep
                ELSE /\ mem' = IF Address < MemWords THEN (Address :> regs[R1Of(Word)]) @@ mem ELSE mem
                     /\ UNCHANGED <<regs, calls, heap, out, status>>

Jumps == CASE Op = "JUMP"     -> TRUE
           [] Op = "TBR_POS"  -> regs[R1Of(Word)] > 0
           [] Op = "TBR_ZERO" -> regs[R1Of(Word)] = 0
           [] OTHER           -> FALSE
Branch == /\ Op \in {"NOP", "JUMP", "TBR_POS", "TBR_ZERO"}
          /\ pc' = IF Jumps THEN AddrOf(Word) ELSE pc + 1
          /\ UNCHANGED <<regs, mem, calls, heap, out, status>>

\* The return address is not put in memory, but R26 moves as if it were.
CallStep == /\ Op = "CALL"
            /\ IF Len(calls) = DepthMax \/ regs[SP] = 0 THEN pc' = pc + 1 /\ TrapStep
               ELSE /\ calls' = Append(calls, pc + 1)
                    /\ regs' = WriteReg(SP, regs[SP] - 1)
                    /\ pc' = AddrOf(Word)
                    /\ UNCHANGED <<mem, heap, out, status>>
\* A return with no call to go back to is the end of the program.
ReturnStep == /\ Op \in {"RET", "HALT"}
              /\ IF Op = "HALT" \/ calls = << >>
                 THEN status' = "halted" /\ pc' = pc + 1 /\ UNCHANGED <<regs, calls>>
                 ELSE /\ pc' = Last(calls) /\ calls' = Front(calls)
                      /\ regs' = WriteReg(SP, regs[SP] + 1)
                      /\ UNCHANGED status
              /\ UNCHANGED <<mem, heap, out>>

\* 1 prints R1; 218 gives R1 words of the heap; 560, 561 and 562 are the bounds
\* check, the unwrap check and the end of a path that has no value.  A word that
\* is no instruction traps as well.
Faults == \/ Op = "unknown"
          \/ LitOf(Word) = 560 /\ regs[1] \notin 0..(regs[2] - 1)
          \/ LitOf(Word) = 561 /\ regs[1] # 1
          \/ LitOf(Word) = 562
Asked == Max({1, regs[1]})
Allocates == IF heap + Asked > MemWords THEN TrapStep
             ELSE /\ heap' = heap + Asked
                  /\ mem' = [n \in heap..heap + Asked - 1 |-> 0] @@ mem
                  /\ regs' = WriteReg(1, heap)
                  /\ UNCHANGED <<calls, out, status>>
SyscallStep == /\ Op \in {"SYSCALL", "unknown"}
               /\ pc' = pc + 1
               /\ IF Faults THEN TrapStep
                  ELSE IF LitOf(Word) = 218 THEN Allocates
                  ELSE /\ out' = IF LitOf(Word) = 1 THEN Append(out, regs[1]) ELSE out
                       /\ UNCHANGED <<regs, mem, calls, heap, status>>

MachineStep == /\ status = "running"
               /\ Alu \/ Transfer \/ StoreStep \/ Branch \/ CallStep \/ ReturnStep \/ SyscallStep
               /\ UNCHANGED image
=============================================================================
