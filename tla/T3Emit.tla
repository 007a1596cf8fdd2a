-------------------------------- MODULE T3Emit --------------------------------
(***************************************************************************)
(* The T3 emitter (src/src/codegen_t3/emitter): assembly from IR.  Each    *)
(* function is allocated once; an instruction becomes the reloads and      *)
(* literals it needs, its body, and the store of a result that lives in    *)
(* the frame.  The T3 assembler (src/src/codegen_t3/assembler.rs): words   *)
(* from assembly.                                                          *)
(***************************************************************************)
EXTENDS Copies, T3Isa

CONSTANTS LitBase,    \* what a large literal is split by (1000 in the source)
          StringGap   \* the words left free after the code (1024 in the source)

\* A line of assembly: its operation, result and operand registers, constant,
\* and the labels it names.
Line(op, r, x, y, k) == [op |-> op, r |-> r, a |-> x, b |-> y, k |-> k, to |-> << >>]
\* A third operand is a register or, with R0, a constant: both are added.
InRegister(r) == <<r, 0>>
Immediate(k)  == <<0, k>>
Three(op, r, x, y) == Line(op, r, x, y[1], y[2])
Mov(r, x)       == Line("MOV", r, x, 0, 0)
Tlit(r, k)      == Line("TLIT", r, 0, 0, k)
Tneg(r, x)      == Line("TNEG", r, x, 0, 0)
MoveTo(d, x) == IF d = x THEN << >> ELSE <<Mov(d, x)>>
LoadAt(r, x, k) == Line("LOAD", r, x, 0, k)
StoreAt(r, x, k) == Line("STORE", r, x, 0, k)
Syscall(n)      == Line("SYSCALL", 0, 0, 0, n)
ToLabel(op, r, ls) == [Line(op, r, 0, 0, 0) EXCEPT !.to = ls]
LabelLine(l)    == ToLabel("label", 0, <<l>>)

-----------------------------------------------------------------------------
(* Registers for one instruction                                           *)

ScratchRegs == <<21, 22, 24, 25>>
Xfer        == 22      \* carries a value from slot to slot

\* The scratch registers an instruction may use, in the order they are taken:
\* those of the pool that hold nothing here, then the four kept for it.
InOrder(rs) == SelectSeq([n \in 1..PoolHi |-> n], LAMBDA r : r \in rs)
ScratchOrder(a, at) == InOrder(FreeRegsAt(a, at)) \o ScratchRegs
Scratch(order, n) == IF n <= Len(order) THEN order[n] ELSE 25

\* A constant into register r, with n scratch registers taken; the lines, and
\* how many are taken after.
RECURSIVE EmitLit(_, _, _, _)
SplitLit(hi, r, tmp, lo) ==
  <<hi[1] \o <<Tlit(r, LitBase), Three("TMUL", r, tmp, InRegister(r))>>
          \o (IF lo = 0 THEN << >> ELSE <<Tlit(tmp, lo), Three("TADD", r, r, InRegister(tmp))>>), hi[2]>>
EmitLit(order, n, r, k) ==
  IF AbsOf(k) <= WideMax THEN <<<<Tlit(r, k)>>, n>>
  ELSE SplitLit(EmitLit(order, n + 1, Scratch(order, n + 1), DivTrunc(k, LitBase)),
                r, Scratch(order, n + 1), RemTrunc(k, LitBase))

\* The same where there are no scratch registers to ask for.
RECURSIVE EmitLitCur(_, _, _)
EmitLitCur(r, k, depth) ==
  IF AbsOf(k) <= WideMax THEN <<Tlit(r, k)>>
  ELSE LET tmp == <<23, 21, 22>>[Min({depth, 3})]
       IN  SplitLit(<<EmitLitCur(tmp, DivTrunc(k, LitBase), depth + 1), 0>>, r, tmp, RemTrunc(k, LitBase))[1]

\* A word of the frame; beyond the immediate's reach through a register.
SlotLoad(r, n)  == IF n <= ImmMax THEN <<LoadAt(r, SP, n)>>
                   ELSE <<Tlit(r, n), Three("TADD", r, SP, InRegister(r)), LoadAt(r, r, 0)>>
SlotStore(r, n) == IF n <= ImmMax THEN <<StoreAt(r, SP, n)>>
                   ELSE <<Tlit(21, n), Three("TADD", 21, SP, InRegister(21)), StoreAt(r, 21, 0)>>
SpAdj(op, n)    == IF n = 0 THEN << >>
                   ELSE IF n <= ImmMax THEN <<Three(op, SP, SP, Immediate(n))>>
                   ELSE <<Tlit(21, n), Three(op, SP, SP, InRegister(21))>>

LocOf(c, v) == c.a.locs[v[2]]
DstReg(c, d) == IF c.a.locs[d][1] = "reg" THEN c.a.locs[d][2] ELSE DstScratch
SpillOf(c, d) == IF d = "" \/ c.a.locs[d][1] = "reg" THEN << >> ELSE SlotStore(DstScratch, c.a.locs[d][2])

\* The registers an instruction reads its operands from, the lines that bring
\* them there, and the scratch registers that took.
WithLit(s, r, lit) == [regs |-> Append(s.regs, r), pre |-> s.pre \o lit[1], taken |-> lit[2]]
ValReg(c, order, s, v) ==
  CASE IsTemp(v) /\ LocOf(c, v)[1] = "reg" -> [s EXCEPT !.regs = Append(@, LocOf(c, v)[2])]
    [] IsTemp(v) -> WithLit(s, Scratch(order, s.taken + 1), <<SlotLoad(Scratch(order, s.taken + 1), LocOf(c, v)[2]), s.taken + 1>>)
    [] IsConst(v) -> WithLit(s, Scratch(order, s.taken + 1), EmitLit(order, s.taken + 1, Scratch(order, s.taken + 1), v[2]))
    [] OTHER -> [s EXCEPT !.regs = Append(@, 0)]
RECURSIVE ValRegs(_, _, _, _)
ValRegs(c, order, s, vs) ==
  IF vs = << >> THEN s ELSE ValRegs(c, order, ValReg(c, order, s, Head(vs)), Tail(vs))
NoneRead == [regs |-> << >>, pre |-> << >>, taken |-> 0]

-----------------------------------------------------------------------------
(* Copies that happen together                                             *)

\* The operands of a call that are in no register, after those that are.
RECURSIVE Reloads(_, _)
ReloadOf(r, src) == CASE src[1] = "slot" -> SlotLoad(r, src[2])
                      [] src[1] = "lit"  -> EmitLitCur(r, src[2], 1)
                      [] OTHER           -> << >>
Reloads(srcs, n) == IF n > Len(srcs) THEN << >> ELSE ReloadOf(n, srcs[n]) \o Reloads(srcs, n + 1)

\* One copy, and those of an instruction in the order that was found for them.
IntoReg(d, src) == IF src[1] = "reg" THEN MoveTo(d, src[2]) ELSE ReloadOf(d, src)
IntoSlot(n, src) == IF src[1] = "reg" THEN SlotStore(src[2], n) ELSE ReloadOf(Xfer, src) \o SlotStore(Xfer, n)
CopyOne(dst, src) == IF dst[1] = "reg" THEN IntoReg(dst[2], src) ELSE IntoSlot(dst[2], src)
RECURSIVE CopyLines(_)
CopyLines(ms) == IF ms = << >> THEN << >> ELSE CopyOne(Head(ms)[1], Head(ms)[2]) \o CopyLines(Tail(ms))
CopiesAt(c, at) == IF at \in DOMAIN c.turns THEN CopyLines(c.turns[at]) ELSE << >>
EmitCallOperands(c, i, at) == CopiesAt(c, at) \o Reloads(CallSrcs(c.a.locs, i), 1)

-----------------------------------------------------------------------------
(* Instructions                                                            *)

AluOf == [Add |-> "TADD", AddT27 |-> "TADD", Sub |-> "TSUB", SubT27 |-> "TSUB", Mul |-> "TMUL", MulT27 |-> "TMUL",
          Div |-> "TDIV", Rem |-> "TMOD", DivNear |-> "TDIVN", RemNear |-> "TMODN",
          And |-> "BAND", Or |-> "BOR", Xor |-> "BXOR", TShl |-> "TSHI", TShlT27 |-> "TSHI", TShr |-> "TSHR"]
LaneOpOf == [And |-> "TANDW", Or |-> "TORW", Xor |-> "TXORW", Imp |-> "TIMPW", Cmp |-> "TCMPW"]
Shifts == {"TShl", "TShlT27", "TShr"}

\* A constant that rides in the instruction: any operator's that fits, but a
\* shift's only from 0 up.
\* Mutant: one more than the field holds.
Imm3Wide(v) == IsConst(v) /\ AbsOf(v[2]) <= ImmMax + 1
Imm3(v) == IsConst(v) /\ AbsOf(v[2]) <= ImmMax
RidesAlong(op, v) == IF op \in Shifts THEN v[1] = "int" /\ v[2] \in 0..ImmMax ELSE Imm3(v)

\* Comparisons leave 0 or 1, through R0, which is always zero, and registers t
\* and o that hold nothing.
OneMinus(d, o) == <<Tlit(o, 1), Three("TSUB", d, o, InRegister(d))>>
Clip(d) == Three("TMAX", d, d, InRegister(0))
CompareLines(op, d, l, r, t, o) ==
  <<Three("TCMP", d, l, r)>> \o
  CASE op = "IEq" -> <<Tneg(t, d), Three("TMAX", d, d, InRegister(t))>> \o OneMinus(d, o)
    [] op = "INe" -> <<Tneg(t, d), Three("TMAX", d, d, InRegister(t))>>
    [] op = "ILt" -> <<Tneg(d, d), Clip(d)>>
    [] op = "IGt" -> <<Clip(d)>>
    [] op = "ILe" -> <<Clip(d)>> \o OneMinus(d, t)
    [] op = "IGe" -> <<Tneg(d, d), Clip(d)>> \o OneMinus(d, t)
BinLines(op, d, l, r, t, o) == IF op \in DOMAIN AluOf THEN <<Three(AluOf[op], d, l, r)>> ELSE CompareLines(op, d, l, r, t, o)

\* The negation of a truth value is its difference from one.
UnLines(op, d, x, t) == IF op = "Neg" THEN <<Tneg(d, x)>> ELSE <<Tlit(t, 1), Three("TSUB", d, t, InRegister(x))>>

TritKinds == {"TritMin", "TritMax", "TritNeg", "TritSign", "TritLane"}
TritLine(i, d, x, y) ==
  CASE i.k = "TritMin"  -> Three("TMIN", d, x, y)
    [] i.k = "TritMax"  -> Three("TMAX", d, x, y)
    [] i.k = "TritNeg"  -> Tneg(d, x)
    [] i.k = "TritSign" -> Three("TCMP", d, x, InRegister(0))
    [] i.k = "TritLane" -> Three(LaneOpOf[i.op], d, x, y)

PrintLines(x) == MoveTo(1, x) \o <<Syscall(1)>>

\* A Result is two words of the heap, its tag and its payload.
ResultLines(d, tag, raw) ==
  LET x == IF raw \in {1, 21, 22, 23} THEN 25 ELSE raw
  IN  MoveTo(x, raw)
      \o <<Mov(21, 1), Tlit(1, 2), Syscall(218), Tlit(22, tag), StoreAt(22, 1, 0), StoreAt(x, 1, 1), Mov(d, 1), Mov(1, 21)>>

\* An alloca's address: of the heap, or of its words of the frame.
AllocaLines(c, i, d) ==
  IF i.d \in c.a.heap THEN <<Tlit(1, i.n), Syscall(218), Mov(d, 1)>>
  ELSE IF c.off[i.d] = 0 THEN <<Mov(d, SP)>>
  ELSE IF c.off[i.d] <= ImmMax THEN <<Three("TADD", d, SP, Immediate(c.off[i.d]))>>
  ELSE EmitLitCur(d, c.off[i.d], 1) \o <<Three("TADD", d, SP, InRegister(d))>>

\* A word of the frame is addressed from R26, whatever register its alloca has.
InFrame(c, v) == IsTemp(v) /\ v[2] \in DOMAIN c.off
FrameLines(op, r, n, t) ==
  IF n <= ImmMax THEN <<Line(op, r, SP, 0, n)>>
  ELSE <<Tlit(t, n), Three("TADD", t, SP, InRegister(t)), Line(op, r, t, 0, 0)>>

CastLines(i, d, x) ==
  IF i.op = "I64" /\ i.ty = "Trit" THEN <<Three("TMIN", d, x, Immediate(1)), Three("TMAX", d, d, Immediate(-1))>>
  ELSE MoveTo(d, x)

CallLines(c, i, at, d) ==
  EmitCallOperands(c, i, at) \o <<ToLabel("CALL", 0, <<i.op>>)>>
  \o (IF i.d = "" THEN << >> ELSE MoveTo(d, 1))

\* The operands brought to registers before the body; the others ride along,
\* are frame words, or are placed by the call.
Reading(c, i) ==
  CASE i.k = "BinOp" /\ RidesAlong(i.op, i.as[2]) -> <<i.as[1]>>
    [] i.k = "GetPtr" /\ Imm3(i.as[2]) -> <<i.as[1]>>
    [] i.k = "Store" /\ InFrame(c, i.as[1]) -> <<i.as[2]>>
    [] i.k = "Load" /\ InFrame(c, i.as[1]) -> << >>
    [] OrdinaryCall(i) -> << >>
    [] i.k \in {"Phi", "Alloca", "BoundsCheck"} -> << >>
    [] OTHER -> i.as

\* The body, given its result register d, the registers of what it reads, and
\* two more it may use.
BodyOf(c, i, at, d, rs, t, o) ==
  LET Third == IF Len(rs) = 2 THEN InRegister(rs[2]) ELSE Immediate(ConstOf(i.as[2]))
  IN CASE i.k = "BinOp"   -> BinLines(i.op, d, rs[1], Third, t, o)
       [] i.k = "GetPtr"  -> <<Three("TADD", d, rs[1], Third)>>
       [] i.k = "UnOp"    -> UnLines(i.op, d, rs[1], t)
       [] i.k = "Assign"  -> MoveTo(d, rs[1])
       [] i.k = "Cast"    -> CastLines(i, d, rs[1])
       [] i.k = "Alloca"  -> AllocaLines(c, i, d)
       [] i.k = "Store"   -> IF InFrame(c, i.as[1]) THEN FrameLines("STORE", rs[1], c.off[i.as[1][2]], t)
                             ELSE <<StoreAt(rs[2], rs[1], 0)>>
       [] i.k = "Load"    -> IF InFrame(c, i.as[1]) THEN FrameLines("LOAD", d, c.off[i.as[1][2]], t)
                             ELSE <<LoadAt(d, rs[1], 0)>>
       [] i.k = "BoundsCheck" -> EmitCallOperands(c, i, at) \o <<Syscall(560)>>
       [] i.k \in TritKinds -> <<TritLine(i, d, rs[1], Third)>>
       [] i.k = "PrintInt" -> PrintLines(rs[1])
       [] i.k = "Phi"      -> << >>
       [] i.k = "Call" /\ i.op \in DOMAIN Tags -> ResultLines(d, Tags[i.op], rs[1])
       [] i.k = "Call" /\ i.op = UnwrapGuard   -> MoveTo(1, rs[1]) \o <<Syscall(561)>>
       [] i.k = "Call"     -> CallLines(c, i, at, d)

ResultReg(c, i) == IF i.d = "" THEN 0 ELSE DstReg(c, i.d)
\* A phi's value is put in its place on the way in, so it has nothing to store.
StoresOf(c, i) == IF IsPhi(i) THEN << >> ELSE SpillOf(c, i.d)
EmitWith(c, i, at, order, read) ==
  read.pre \o BodyOf(c, i, at, ResultReg(c, i), read.regs, Scratch(order, read.taken + 1), Scratch(order, read.taken + 2))
           \o StoresOf(c, i)
EmitInstrIn(c, i, at, order) == EmitWith(c, i, at, order, ValRegs(c, order, NoneRead, Reading(c, i)))
EmitInstr(c, i, at) == EmitInstrIn(c, i, at, ScratchOrder(c.a, at))

-----------------------------------------------------------------------------
(* Blocks, functions, the module                                           *)

QLabel(c, l) == c.name \o "_" \o l

\* A conditional branch carries no copies.
TermLines(c, f, blk, at, rs) ==
  LET t  == blk.term
      ls == [n \in DOMAIN t.to |-> QLabel(c, t.to[n])]
  IN CASE t.k = "Return" -> (IF t.as = << >> THEN (IF c.name = "main" THEN <<Mov(1, 0)>> ELSE << >>) ELSE MoveTo(1, rs[1]))
                            \o SpAdj("TADD", c.frame) \o <<Line("RET", 0, 0, 0, 0)>>
       [] t.k = "Jump" -> CopiesAt(c, at) \o <<ToLabel("JUMP", 0, ls)>>
       [] t.k = "BinBranch"  -> <<ToLabel("TBRANCH", rs[1], <<ls[1], ls[2], ls[2]>>)>>
       [] t.k = "TritBranch" -> <<ToLabel("TBRANCH", rs[1], ls)>>
       [] t.k = "Unreachable" -> <<Syscall(562), Line("HALT", 0, 0, 0, 0)>>
TermWith(c, f, blk, at, read) == read.pre \o TermLines(c, f, blk, at, read.regs)
EmitTerm(c, f, blk, at) == TermWith(c, f, blk, at, ValRegs(c, ScratchOrder(c.a, at), NoneRead, blk.term.as))

RECURSIVE EmitInstrs(_, _, _)
EmitInstrs(c, is, at) == IF is = << >> THEN << >> ELSE EmitInstr(c, Head(is), at) \o EmitInstrs(c, Tail(is), at + 1)
EmitBlock(c, f, b) ==
  <<LabelLine(QLabel(c, f.bs[b].label))>> \o EmitInstrs(c, f.bs[b].is, c.a.starts[b])
  \o EmitTerm(c, f, f.bs[b], BlockEnd(f, c.a.starts, b))
RECURSIVE EmitBlocks(_, _, _)
EmitBlocks(c, f, b) == IF b > Len(f.bs) THEN << >> ELSE EmitBlock(c, f, b) \o EmitBlocks(c, f, b + 1)

\* The frame: the slots, then the words of each alloca that is not on the heap.
RECURSIVE LayOut(_, _, _)
LayOut(is, off, next) ==
  IF is = << >> THEN [off |-> off, size |-> next]
  ELSE LayOut(Tail(is), (Head(is).d :> next) @@ off, next + Head(is).n)
FrameAllocas(f, heap) == SelectSeq(FlattenSeq([b \in DOMAIN f.bs |-> f.bs[b].is]), LAMBDA i : i.k = "Alloca" /\ i.d \notin heap)
ContextOf(f, a, ts, laid) == [name |-> f.name, a |-> a, turns |-> ts, off |-> laid.off, frame |-> laid.size]
Context(f, a, ts) == ContextOf(f, a, ts, LayOut(FrameAllocas(f, a.heap), << >>, a.slots))

ParamStores(ps) == FlattenSeq([n \in DOMAIN ps |-> SlotStore(ps[n][1], ps[n][2])])
EmitFunction(f, c) ==
  <<LabelLine(f.name)>> \o SpAdj("TSUB", c.frame) \o ParamStores(c.a.params) \o EmitBlocks(c, f, 1)

\* The whole program; execution starts at its first line.
RECURSIVE EmitFunctions(_, _)
EmitFunctions(mod, cs) ==
  IF mod = << >> THEN << >> ELSE EmitFunction(Head(mod), Head(cs)) \o EmitFunctions(Tail(mod), Tail(cs))
EmitModule(mod, cs) ==
  (IF mod[1].name = "main" THEN << >> ELSE <<ToLabel("JUMP", 0, <<"main">>)>>) \o EmitFunctions(mod, cs)

-----------------------------------------------------------------------------
(* The assembler: a first pass gives every label the number of the word    *)
(* after it, a second encodes.  A three-way branch is three words.         *)

WordsOf(line) == CASE line.op = "label" -> 0 [] line.op = "TBRANCH" -> 3 [] OTHER -> 1

\* Where each label is; of two with one name, the later.
RECURSIVE LabelMap(_, _)
LabelMap(lines, at) ==
  IF lines = << >> THEN << >>
  ELSE LabelMap(Tail(lines), at + WordsOf(Head(lines)))
       @@ (IF Head(lines).op = "label" THEN Head(lines).to[1] :> at ELSE << >>)
CodeSize(lines) == FoldLeft(LAMBDA n, l : n + WordsOf(l), 0, lines)

\* What cannot be encoded: a label that is nowhere, an address or a constant
\* its field does not hold.
Refused(line, map) ==
  \/ \E l \in Range(line.to) : l \notin DOMAIN map \/ map[l] \notin 0..P13-1
  \/ line.op = "TLIT" /\ AbsOf(line.k) > WideMax
  \/ line.op \notin {"TLIT", "label", "SYSCALL"} /\ AbsOf(line.k) > ImmMax
TooLong(lines) == CodeSize(lines) + StringGap >= StackBase

Encoded(line, map) ==
  CASE line.op = "label"   -> << >>
    [] line.op = "TBRANCH" -> <<EncodeWide("TBR_POS", line.r, map[line.to[1]]),
                                EncodeWide("TBR_ZERO", line.r, map[line.to[2]]),
                                EncodeWide("JUMP", 0, map[line.to[3]])>>
    [] line.op \in {"JUMP", "CALL"}    -> <<EncodeWide(line.op, 0, map[line.to[1]])>>
    [] line.op \in {"TLIT", "SYSCALL"} -> <<EncodeWide(line.op, line.r, line.k)>>
    [] OTHER                           -> <<Encode(line.op, line.r, line.a, line.b, line.k)>>
RECURSIVE EncodeAll(_, _)
EncodeAll(lines, map) == IF lines = << >> THEN << >> ELSE Encoded(Head(lines), map) \o EncodeAll(Tail(lines), map)

Encodes(lines)  == ~TooLong(lines) /\ \A n \in DOMAIN lines : ~Refused(lines[n], LabelMap(lines, 0))
Assemble(lines) == EncodeAll(lines, LabelMap(lines, 0))
=============================================================================
