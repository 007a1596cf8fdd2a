------------------------------- MODULE Lower --------------------------------
(***************************************************************************)
(* From a checked program to IR (src/src/ir/lower/).  A lowering state l   *)
(* holds the counters of temporaries and labels, the blocks so far, the    *)
(* current one, locals (the flat map from names to their slots), vars (the *)
(* scopes of the analyser, whose types the tree carries), what function it *)
(* is, and v, the value of what was lowered last.                          *)
(*                                                                         *)
(* Every local is a slot in memory: Mem2Reg is what makes values of them.  *)
(***************************************************************************)
EXTENDS Types

\* An array's value is its address.  "Array" stands for all the sized types of
\* the IR; where the size and the element matter a sized array type is its own
\* IR type.
FromMani(ty) == CASE IsSized(ty) -> "Array" [] IsUnsized(ty) -> "Ptr"
                  [] ty = "int" -> "I64" [] ty = "bool" -> "Bool" [] ty = "bool3" -> "I8" [] ty = "trit" -> "Trit"
                  [] ty \in {"str", "res"} -> "Ptr" [] ty = "void" -> "Void"
IrType(ty)         == IF IsSized(ty) THEN ty ELSE FromMani(ty)
ArrayValueTy(irty) == IF IsSized(irty) THEN "Ptr" ELSE irty
StoredAs(irty)     == IF IsSized(irty) THEN "Array" ELSE irty

\* Under version 2 the arithmetic of an int is checked against the word, and
\* division rounds to the nearest.
BinopToIr(op, ty, lang) ==
  LET word == lang = "v2" /\ ty = "int"
      near == lang = "v2"
  IN CASE op = "+" -> IF word THEN "AddT27" ELSE "Add"
       [] op = "-" -> IF word THEN "SubT27" ELSE "Sub"
       [] op = "*" -> IF word THEN "MulT27" ELSE "Mul"
       [] op = "/" -> IF near THEN "DivNear" ELSE "Div"
       [] op = "%" -> IF near THEN "RemNear" ELSE "Rem"
       [] op = "==" -> "IEq" [] op = "!=" -> "INe" [] op = "<" -> "ILt"
       [] op = ">" -> "IGt" [] op = "<=" -> "ILe" [] op = ">=" -> "IGe"

-----------------------------------------------------------------------------
(* The state                                                               *)

Emit(l, i)   == [l EXCEPT !.bs[l.cur].is = Append(@, i), !.v = Void]
\* The k-th temporary from here.
Fresh(l, k)  == Temp("t" \o ToString(l.t + k - 1))
\* Emits what defines a fresh temporary, which becomes the value.
Def(l, i)    == [Emit(l, [i EXCEPT !.d = Fresh(l, 1)[2]]) EXCEPT !.t = @ + 1, !.v = Fresh(l, 1)]
\* Several, each of which may read those before it.
RECURSIVE DefEach(_, _)
DefEach(l, is)  == IF is = << >> THEN l ELSE DefEach(Def(l, Head(is)), Tail(is))
SetTerm(l, t) == [l EXCEPT !.bs[l.cur].term = t]
Open(l, label) == [l EXCEPT !.bs = Append(@, Block(label, << >>, Unreachable)), !.cur = Len(l.bs) + 1]
Label(l, prefix) == prefix \o ToString(l.l)
Numbered(l)  == [l EXCEPT !.l = @ + 1]
Here(l)      == l.bs[l.cur].label
Yield(l, v)  == [l EXCEPT !.v = v]
Falls(l)     == l.bs[l.cur].term = Unreachable

OpenScope(l)  == [l EXCEPT !.vars = Append(@, << >>)]
CloseScope(l) == [l EXCEPT !.vars = SubSeq(@, 1, Len(@) - 1)]
Declare(l, x, ty) == [l EXCEPT !.vars[Len(l.vars)] = (x :> <<ty, TRUE>>) @@ @]
Typing(l)     == [fns |-> l.fns, vars |-> l.vars, ret |-> l.ret, ty |-> "void"]
TypeIn(l, e, hint) == TypeOf(Typing(l), e, hint)

\* A slot of one word for a name: its address in locals, under its type.
NewSlot(l, x, irty) == [Def(l, Alloca("", ArrayValueTy(irty), 1)) EXCEPT !.locals = (x :> <<Fresh(l, 1), irty>>) @@ @]
AllocaFor(irty)     == IF IsSized(irty) THEN Alloca("", "Array", LengthOf(irty)) ELSE Alloca("", irty, 1)
\* What is known of the variable an expression is, when it is one.
LocalType(l, e)     == IF e[1] = "Var" /\ e[2] \in DOMAIN l.locals THEN l.locals[e[2]][2] ELSE ""
\* Under what the hidden length of a parameter without one is entered.
LenKey(x)           == "#len:" \o x
HasLen(l, e)        == e[1] = "Var" /\ LenKey(e[2]) \in DOMAIN l.locals
Loads(l, p, ty)     == Def(l, Load("", p, ty))

-----------------------------------------------------------------------------
(* Conversions                                                             *)

\* The one implicit conversion that changes a value: a bool to a bool3.
Coerce(l, from, to) ==
  IF from = "bool" /\ to = "bool3"
  THEN DefEach(l, <<BinOp("", "Mul", l.v, IntC(2), "I8"), BinOp("", "Sub", Fresh(l, 1), IntC(1), "I8")>>)
  ELSE l

NormalizeToBool(l) == Def(l, Trits("TritMax", "", <<l.v, IntC(0)>>))
NormalizedIf(l, both) == IF both THEN NormalizeToBool(l) ELSE l

PhiOf(l, ty, vs, ls) == Def(l, Phi("", ty, SanitizePhi(vs), ls))

\* a timp b, of two values.
Timp(l, a, b) ==
  DefEach(l, <<BinOp("", "Sub", IntC(1), a, "I8"),
            BinOp("", "Add", Fresh(l, 1), b, "I8"),
            Trits("TritMin", "", <<Fresh(l, 2), IntC(1)>>)>>)

Txor(l, a, b) ==
  DefEach(l, <<BinOp("", "Add", a, b, "I64"),
            Trits("TritMin", "", <<Fresh(l, 1), IntC(1)>>),
            Trits("TritMax", "", <<Fresh(l, 2), IntC(-1)>>),
            BinOp("", "Mul", Fresh(l, 3), IntC(3), "I64"),
            BinOp("", "Mul", Fresh(l, 1), IntC(2), "I64"),
            BinOp("", "Sub", Fresh(l, 4), Fresh(l, 5), "I64"),
            Trits("TritMin", "", <<Fresh(l, 6), IntC(1)>>)>>)

Tcon(l, a, b) ==
  DefEach(l, <<Trits("TritMax", "", <<a, b>>),
            Trits("TritMin", "", <<a, b>>),
            Trits("TritMin", "", <<Fresh(l, 1), IntC(0)>>),
            Trits("TritMax", "", <<Fresh(l, 2), IntC(0)>>),
            BinOp("", "Add", Fresh(l, 3), Fresh(l, 4), "I8")>>)

Tany(l, a, b) ==
  DefEach(l, <<Trits("TritMax", "", <<a, b>>),
            Trits("TritMin", "", <<a, b>>),
            Trits("TritMax", "", <<Fresh(l, 1), IntC(0)>>),
            Trits("TritMin", "", <<Fresh(l, 2), IntC(0)>>),
            BinOp("", "Sub", IntC(1), Fresh(l, 3), "I8"),
            BinOp("", "Mul", Fresh(l, 4), Fresh(l, 5), "I8"),
            BinOp("", "Add", Fresh(l, 3), Fresh(l, 6), "I8")>>)

Teq(l, a, b) == Def(Timp(Timp(l, a, b), b, a), Trits("TritMin", "", <<Fresh(l, 3), Fresh(l, 6)>>))

Tposs(l) ==
  NormalizeToBool(DefEach(l, <<BinOp("", "Add", l.v, l.v, "I8"),
                            BinOp("", "Add", Fresh(l, 1), IntC(1), "I8"),
                            Trits("TritMin", "", <<Fresh(l, 2), IntC(1)>>)>>))
Tnec(l) ==
  NormalizeToBool(DefEach(l, <<BinOp("", "Add", l.v, l.v, "I8"), BinOp("", "Sub", Fresh(l, 1), IntC(1), "I8")>>))

-----------------------------------------------------------------------------
(* Results: a pointer to a tag and a payload                               *)

TagOf(l, recv)     == Loads(l, recv, "I64")
TagEquals(l, tag, want) == Def(l, BinOp("", "IEq", tag, IntC(want), "Bool"))
LoadPayload(l, recv) == DefEach(l, <<GetPtr("", recv, IntC(1), "I64"), Load("", Fresh(l, 1), "I64")>>)

Select(l, cond, yes, no, ty) ==
  LET t == Label(l, "res_sel_t")
      f == Label(l, "res_sel_f")
      m == Label(l, "res_sel_m")
      a == SetTerm(Open(SetTerm(Numbered(l), BinBranch(cond, t, f)), t), Jump(m))
  IN  PhiOf(Open(SetTerm(Open(a, f), Jump(m)), m), ty, <<yes, no>>, <<t, f>>)

\* A name an arm binds: a slot of its own, entered in the flat map.
BindPatternLocals(l, x, scrutinee) ==
  IF x = "" THEN l
  ELSE Emit(NewSlot(LoadPayload(l, scrutinee), x, "I64"), Store(Fresh(l, 3), Fresh(l, 2), "I64"))

-----------------------------------------------------------------------------
(* Expressions                                                             *)

RECURSIVE Lower(_, _, _)         \* an expression or a statement
RECURSIVE LowerStmts(_, _)
RECURSIVE LowerArgs(_, _, _)
RECURSIVE LowerArms(_, _, _, _)
RECURSIVE LowerMatchArms(_, _, _, _)
RECURSIVE LowerElements(_, _, _, _, _)
RECURSIVE SizedArrayIrType(_, _, _)

LowerStmts(l, body) == IF body = << >> THEN l ELSE LowerStmts(Lower(l, Head(body), ""), Tail(body))

\* Mutant: the slots of the block's names stay in the map.
LowerBlockLeaks(l, body) == CloseScope(LowerStmts([OpenScope(l) EXCEPT !.v = Void], body))
\* A block is a scope: what it declared is forgotten, what it hid is back.
LowerBlock(l, body) == [CloseScope(LowerStmts([OpenScope(l) EXCEPT !.v = Void], body)) EXCEPT !.locals = l.locals]

LowerTernaryOperand(l, e, hint) == Coerce(Lower(l, e, hint), TypeIn(l, e, hint), "bool3")

LowerLit(e, hint) ==
  CASE e[1] = "BoolLit" -> IF hint = "bool3" THEN TritC(2 * e[2] - 1) ELSE BoolC(e[2])
    [] e[1] \in {"TritLit", "Bool3Lit"} -> TritC(e[2])
    [] OTHER -> IntC(e[2])

\* cut is the edge that does without the second operand.
ShortCircuitRight(l, and, cut, end) ==
  PhiOf(Open(SetTerm(l, Jump(end)), end), "Bool", <<IntC(B(~and)), l.v>>, <<cut, Here(l)>>)
ShortCircuitLeft(l, e, and, cut, rhs, end) ==
  LET b == SetTerm(l, IF and THEN BinBranch(l.v, rhs, cut) ELSE BinBranch(l.v, cut, rhs))
  IN  ShortCircuitRight(Lower(Open(SetTerm(Open(b, cut), Jump(end)), rhs), e[4], "bool"), and, cut, end)

\* e1 && e2 and e1 || e2: the second is evaluated on one edge only, and the
\* other edge brings the constant the operator is absorbed by.
LowerShortCircuit(l, e, and) ==
  LET pre == IF and THEN "sc_and_" ELSE "sc_or_"
  IN  ShortCircuitLeft(Lower(Numbered(l), e[3], "bool"), e, and,
                       Label(l, pre \o (IF and THEN "false" ELSE "true")), Label(l, pre \o "rhs"), Label(l, pre \o "end"))

\* tand and tor short-circuit too: on -1, on +1.
TritShortCircuitRight(l, and, cut, end) ==
  PhiOf(Open(SetTerm(l, Jump(end)), end), "Trit", <<TritC(IF and THEN -1 ELSE 1), l.v>>, <<cut, Here(l)>>)
TritShortCircuitBoth(l, x, and, cut, end) ==
  TritShortCircuitRight(Def(l, Trits(IF and THEN "TritMin" ELSE "TritMax", "", <<x, l.v>>)), and, cut, end)
TritShortCircuitLeft(l, e, and, hintR, cut, rhs, end) ==
  LET b == SetTerm(l, IF and THEN TritBranch(l.v, rhs, rhs, cut) ELSE TritBranch(l.v, cut, rhs, rhs))
  IN  TritShortCircuitBoth(LowerTernaryOperand(Open(SetTerm(Open(b, cut), Jump(end)), rhs), e[4], hintR), l.v, and, cut, end)
LowerTritShortCircuit(l, e, and, hintR) ==
  LET pre == IF and THEN "sc_tand_" ELSE "sc_tor_"
  IN  TritShortCircuitLeft(LowerTernaryOperand(Numbered(l), e[3], "trit"), e, and, hintR,
                           Label(l, pre \o (IF and THEN "neg" ELSE "pos")), Label(l, pre \o "rhs"), Label(l, pre \o "end"))

\* The three-valued operators that evaluate both operands.
TritOp(l, op, x, both) ==
  CASE op = "txor" -> Txor(l, x, l.v)
    [] op = "tcon" -> Tcon(l, x, l.v)
    [] op = "tany" -> Tany(l, x, l.v)
    [] op = "timp" -> NormalizedIf(Timp(l, x, l.v), both)
    [] op = "teq"  -> NormalizedIf(Teq(l, x, l.v), both)
LowerTritOp(l, e, op, hintR, both) ==
  LET a == LowerTernaryOperand(l, e[3], "trit")
  IN  TritOp(LowerTernaryOperand(a, e[4], hintR), op, a.v, both)

\* Anything else: both operands, then the operator.
PlainOp(l, op, x, lt, rt) ==
  IF op \in DOMAIN LaneNames
  THEN Def(l, [Trits("TritLane", "", <<x, l.v>>) EXCEPT !.op = LaneNames[op], !.ty = "I64"])
  ELSE Def(l, BinOp("", BinopToIr(op, lt, l.lang), x, l.v, FromMani(BinopType(op, lt, rt))))
LowerPlain(l, e, want, hintR, lt, rt) ==
  LET a == Lower(l, e[3], want)
  IN  PlainOp(Lower(a, e[4], hintR), e[2], a.v, lt, rt)

\* On two bools the closed connectives are the two-valued ones.
LowerTyped(l, e, want, hintR, lt, rt) ==
  LET both == lt = "bool" /\ rt = "bool"
  IN CASE e[2] = "&&" \/ (both /\ e[2] = "tand") -> LowerShortCircuit(l, e, TRUE)
       [] e[2] = "||" \/ (both /\ e[2] \in {"tor", "tany"}) -> LowerShortCircuit(l, e, FALSE)
       [] ~both /\ e[2] \in {"tand", "tor"} -> LowerTritShortCircuit(l, e, e[2] = "tand", hintR)
       [] e[2] \in TLogicOps \ {"tand", "tor", IF both THEN "tany" ELSE ""} -> LowerTritOp(l, e, e[2], hintR, both)
       [] OTHER -> LowerPlain(l, e, want, hintR, lt, rt)

LowerBinOp(l, e) ==
  LET want  == IF e[2] \in TLogicOps THEN "trit" ELSE IF e[2] \in {"&&", "||"} THEN "bool" ELSE ""
      lt    == TypeIn(l, e[3], want)
      hintR == IF want # "" /\ lt = "bool3" THEN "bool3" ELSE IF want # "" THEN want ELSE lt
  IN  LowerTyped(l, e, want, hintR, lt, TypeIn(l, e[4], hintR))

UnOp(l, op, ty) ==
  CASE op = "tnot"  -> Def(l, Trits("TritNeg", "", <<l.v>>))
    [] op = "tnotw" -> Def(l, Instr("UnOp", "Neg", "", <<l.v>>, "I64"))
    [] op = "-"     -> Def(l, Instr("UnOp", "Neg", "", <<l.v>>, FromMani(ty)))
LowerUnOp(l, e, hint) ==
  CASE e[2] = "tposs" -> Tposs(LowerTernaryOperand(l, e[3], hint))
    [] e[2] = "tnec"  -> Tnec(LowerTernaryOperand(l, e[3], hint))
    [] OTHER -> UnOp(Lower(l, e[3], hint), e[2], TypeIn(l, e[3], hint))

\* The arguments, left to right; v becomes the sequence of their values.
Collect(l, vs) == Yield(l, Append(vs, l.v))
LowerArgs(l, es, tys) ==
  IF es = << >> THEN l
  ELSE LowerArgs(Collect(Coerce(Lower(l, Head(es), Head(tys)), TypeIn(l, Head(es), Head(tys)), Head(tys)), l.v),
                 Tail(es), Tail(tys))

\* The length of an argument whose parameter has none: known, handed on, that
\* of the local's initialiser, or taken for 0.
Appended(l, v) == Yield(l, Append(l.v, v))
UnsizedArrayLen(l, e, t) ==
  CASE IsSized(t)               -> Appended(l, IntC(LengthOf(t)))
    [] HasLen(l, e)             -> Collect(Loads(l, l.locals[LenKey(e[2])][1], "I64"), l.v)
    [] IsSized(LocalType(l, e)) -> Appended(l, IntC(LengthOf(LocalType(l, e))))
    [] OTHER                    -> Appended(l, IntC(0))
UnsizedParams(f) == SelectSeq([n \in DOMAIN f.params |-> n], LAMBDA n : IsUnsized(f.params[n][2]))
AppendUnsizedLenArgs(l, es, f) ==
  FoldLeft(LAMBDA acc, n : UnsizedArrayLen(acc, es[n], TypeIn(l, es[n], f.params[n][2])), l, UnsizedParams(f))

\* An array a function gives is copied before another call is made: in its
\* frame it is dead.
CopyElement(l, from, to, n, ty) ==
  Emit(DefEach(l, <<GetPtr("", from, IntC(n), ty), Load("", Fresh(l, 1), ty), GetPtr("", to, IntC(n), ty)>>),
       Store(Fresh(l, 3), Fresh(l, 2), ty))
CopyInto(l, from, t) ==
  Yield(FoldLeft(LAMBDA acc, n : CopyElement(acc, from, l.v, n - 1, ArrayValueTy(IrType(ElemOf(t)))), l, [n \in 1..LengthOf(t) |-> n]), l.v)
CopyArrayResult(l, t) == IF IsSized(t) THEN CopyInto(Def(l, AllocaFor(t)), l.v, t) ELSE l

CallWith(l, f, ret) == IF ret = "Void" THEN Emit(l, Call("", f, l.v, "Void")) ELSE Def(l, Call("", f, l.v, ret))
PrintOf(l) == Emit(l, PrintInt(l.v))
CallFn(l, e, f) ==
  LET as == LowerArgs(Yield(l, << >>), e[3], [n \in DOMAIN f.params |-> f.params[n][2]])
  IN  CopyArrayResult(CallWith(AppendUnsizedLenArgs(as, e[3], f), e[2], FromMani(f.ret)), f.ret)
LowerCall(l, e) ==
  CASE e[2] = "print" -> PrintOf(Lower(l, e[3][1], ""))
    [] e[2] \in DOMAIN Constructors -> CallWith(LowerArgs(Yield(l, << >>), e[3], <<PayloadType(e[2])>>), e[2], "Ptr")
    [] OTHER -> CallFn(l, e, FnNamed(l, e[2]))

\* The default is evaluated whatever the tag is, before the payload is read.
UnwrapOr(l, recv, tag) ==
  Select(TagEquals(LoadPayload(l, recv), tag, 1), Fresh(l, 3), Fresh(l, 2), l.v, "I64")
\* l has just read the tag of recv.
ResultOp(l, e, recv) ==
  CASE e[3] = "is_ok"      -> TagEquals(l, l.v, 1)
    [] e[3] = "is_unknown" -> TagEquals(l, l.v, 0)
    [] e[3] = "is_err"     -> TagEquals(l, l.v, -1)
    [] e[3] = "tag"        -> Def(l, CastTo("", l.v, "I64", "Trit"))
    [] e[3] = "unwrap"     -> LoadPayload(Emit(l, Call("", UnwrapGuard, <<l.v>>, "Void")), recv)
    [] e[3] = "unwrap_or"  -> UnwrapOr(Lower(l, e[4][1], ""), recv, l.v)
TagThen(l, e) == ResultOp(TagOf(l, l.v), e, l.v)
LowerResultMethod(l, e) == TagThen(Lower(l, e[2], ""), e)

\* `?`: what is not Ok is returned as it is.
QuestionEnds(l, end) == Yield(Open(SetTerm(l, Jump(end)), end), l.v)
QuestionOn(l, r) ==   \* l holds, in v, whether the tag it read just before is Ok's
  LET ok  == Label(l, "q_ok")
      err == Label(l, "q_err")
      unk == Label(l, "q_unknown")
      a == TagEquals(Open(SetTerm(Numbered(l), BinBranch(l.v, ok, err)), err), Fresh(l, -1), -1)
      b == Open(SetTerm(a, BinBranch(Fresh(l, 1), err \o "_real", unk)), err \o "_real")
      c == SetTerm(Open(SetTerm(b, Return(r)), unk), Return(r))
  IN  QuestionEnds(LoadPayload(Open(c, ok), r), Label(l, "q_merge"))
Question(l) == QuestionOn(TagEquals(TagOf(l, l.v), Fresh(l, 1), 1), l.v)
LowerQuestion(l, e) == Question(Lower(l, e[2], ""))

\* Blocks that meet: each is lowered under its label and jumps to the end.
ArmEnds(l, end, vs) == [SetTerm(l, Jump(end)) EXCEPT !.v = Append(vs, <<l.v, Here(l)>>)]
LowerArms(l, bodies, labels, end) ==
  IF bodies = << >> THEN l
  ELSE LowerArms(ArmEnds(LowerBlock(Open(l, Head(labels)), Head(bodies)), end, l.v), Tail(bodies), Tail(labels), end)
Meet(l, end, ty) ==
  IF ty = "Void" THEN Yield(Open(l, end), Void)
  ELSE PhiOf(Open(l, end), ty, [n \in DOMAIN l.v |-> l.v[n][1]], [n \in DOMAIN l.v |-> l.v[n][2]])

IfOn(l, then, els, t, f, m, ty) ==
  Meet(LowerArms(Yield(SetTerm(l, BinBranch(l.v, t, f)), << >>), <<then, els>>, <<t, f>>, m), m, FromMani(ty))
LowerIf(l, c, then, els, ty) ==
  IfOn(Lower(Numbered(l), c, "bool"), then, els, Label(l, "if_then"), Label(l, "if_else"), Label(l, "if_merge"), ty)

TifOn(l, s, ls, m, ty) ==
  Meet(LowerArms(Yield(SetTerm(l, TritBranch(l.v, ls[1], ls[2], ls[3])), << >>), <<s[3], s[4], s[5]>>, ls, m), m, FromMani(ty))
LowerTif(l, s, ty) ==
  TifOn(Lower(Numbered(l), s[2], "trit"), s, <<Label(l, "tif_pos"), Label(l, "tif_zero"), Label(l, "tif_neg")>>,
        Label(l, "tif_merge"), ty)

\* An arm tests the tag, binds, and jumps to the end; the next one is tried
\* where the test fails.
MatchArmEnds(l, no, end, vs) == Yield(Open(SetTerm(l, Jump(end)), no), Append(vs, <<l.v, Here(l)>>))
MatchArmBody(l, arm) ==
  CloseScope(LowerBlock(IF arm.binding = "" THEN l ELSE Declare(l, arm.binding, PayloadType(arm.variant)), arm.body))
MatchArmTaken(l, arm, scrutinee, yes, no) ==
  BindPatternLocals(OpenScope(Open(SetTerm(Numbered(l), BinBranch(l.v, yes, no)), yes)), arm.binding, scrutinee)
MatchArmTest(l, arm, scrutinee) ==
  IF arm.variant = "_" THEN Yield(l, BoolC(1))
  ELSE TagEquals(TagOf(l, scrutinee), Fresh(l, 1), Constructors[arm.variant])
LowerMatchArm(l, arm, scrutinee, yes, no, end) ==
  MatchArmEnds(MatchArmBody(MatchArmTaken(MatchArmTest(l, arm, scrutinee), arm, scrutinee, yes, no), arm), no, end, l.v)
LowerMatchArms(l, arms, scrutinee, end) ==
  IF arms = << >> THEN l
  ELSE LowerMatchArms(LowerMatchArm(l, Head(arms), scrutinee, Label(l, "match_arm"), Label(l, "match_next"), end),
                      Tail(arms), scrutinee, end)

\* After the last test fails there is nothing to run.
MatchTags(l, arms, end, ty) ==
  Meet(SetTerm(LowerMatchArms(Yield(Numbered(l), << >>), arms, l.v, end), IF ty = "void" THEN Jump(end) ELSE Unreachable),
       end, FromMani(ty))
MatchFrom(l, e, ty) == MatchTags(l, e[3], Label(l, "match_merge"), ty)
LowerMatch(l, e, ty) == MatchFrom(Lower(l, e[2], ""), e, ty)

CastFrom(l, from, to) == IF from = to THEN l ELSE Def(l, CastTo("", l.v, from, to))

-----------------------------------------------------------------------------
(* Arrays                                                                  *)

\* Where an element is: a word for each, the address where it is an array.  The
\* index is checked when the length is known.
CheckedIndex(l, n) == IF n = Unsized THEN l ELSE Yield(Emit(l, BoundsCheck(l.v, n)), l.v)
ElementAt(l, step, n, arr) == Def(CheckedIndex(l, n), [step EXCEPT !.as = <<arr, l.v>>])
ElementOf(l, e, step, n)   == ElementAt(Lower(l, e[3], "int"), step, n, l.v)
LowerElementPtr(l, e, step) == ElementOf(Lower(l, e[2], ""), e, step, LengthOf(TypeIn(l, e[2], "")))
LoadsHere(l, ty) == Loads(l, l.v, ty)
ReadElement(l, e, ty) == LoadsHere(LowerElementPtr(l, e, GetPtr("", Void, Void, ty)), ty)

\* To write one, the step is the element's own type, all of it.
RowStep(ty) == [GetPtr("", Void, Void, FromMani(ty)) EXCEPT !.n = IF IsSized(ty) THEN LengthOf(ty) ELSE 0]
StoreThere(l, v, irty) == Emit(l, Store(l.v, v, irty))
WriteElement(l, e, ty) == StoreThere(LowerElementPtr(l, e, RowStep(ty)), l.v, FromMani(ty))
LowerAssignAt(l, s) ==
  LET ty == TypeIn(l, s[2], "")
  IN  WriteElement(Coerce(Lower(l, s[3], ty), TypeIn(l, s[3], ty), ty), s[2], ty)

\* A literal is an array of its own, element by element.
PutElement(l, arr, n, ty) == StoreThere(Def(l, GetPtr("", arr, IntC(n), ty)), l.v, ty)
LowerElements(l, arr, es, n, hint) ==
  IF n = Len(es) THEN Yield(l, arr)
  ELSE LowerElements(PutElement(Lower(l, es[n + 1], hint), arr, n, ArrayValueTy(IrType(TypeIn(l, es[n + 1], hint)))), arr, es, n + 1, hint)
LowerArray(l, e, hint) ==
  LowerElements(Def(l, Alloca("", "Array", Len(e[2]))), Fresh(l, 1), e[2], 0, ElemHint(hint, TypeIn(l, e[2][1], "")))

\* The lengths of a literal's rows are the first one's, even where the type of
\* what it initialises leaves them out.
SizedArrayIrType(l, e, hint) ==
  IF e[1] # "Array" THEN TypeIn(l, e, hint)
  ELSE ArrayTy(SizedArrayIrType(l, e[2][1], ElemHint(hint, TypeIn(l, e[2][1], ""))), Len(e[2]))

-----------------------------------------------------------------------------
LowerExpr(l, e, hint) ==
  CASE e[1] \in {"Int", "TritLit", "BoolLit", "Bool3Lit", "Str"} -> Yield(l, LowerLit(e, hint))
    [] e[1] = "Var"    -> IF e[2] \notin DOMAIN l.locals THEN Yield(l, IntC(0))
                          ELSE Loads(l, l.locals[e[2]][1], ArrayValueTy(l.locals[e[2]][2]))
    [] e[1] = "Cast"   -> CastFrom(Lower(l, e[2], ""), FromMani(TypeIn(l, e[2], "")), FromMani(e[3]))
    [] e[1] = "Un"     -> LowerUnOp(l, e, hint)
    [] e[1] = "Bin"    -> LowerBinOp(l, e)
    [] e[1] = "Call"   -> LowerCall(l, e)
    [] e[1] = "Method" -> LowerResultMethod(l, e)
    [] e[1] = "Try"    -> LowerQuestion(l, e)
    [] e[1] = "Match"  -> LowerMatch(l, e, TypeIn(l, e, hint))
    [] e[1] = "Array"  -> LowerArray(l, e, hint)
    [] e[1] = "Index"  -> ReadElement(l, e, ArrayValueTy(IrType(TypeIn(l, e, hint))))
    [] e[1] = "IfExpr" -> LowerIf(l, e[2], e[3], e[4], TypeIn(l, e, hint))

-----------------------------------------------------------------------------
(* Statements and loops                                                    *)

\* A let of a constructor builds the pair in the frame and keeps a pointer.
LetPair(l, x, pair) ==
  Emit(NewSlot(Emit(Def(l, GetPtr("", pair, IntC(1), "I64")), Store(Fresh(l, 1), l.v, "I64")), x, "I64"), Store(Fresh(l, 2), pair, "I64"))
LowerLetResult(l, x, e) ==
  LET made == Emit(Def(l, Alloca("", "Array", 2)), Store(Fresh(l, 1), IntC(Constructors[e[2]]), "I64"))
  IN  LetPair(Lower(made, e[3][1], ""), x, Fresh(l, 1))

\* The slot comes first, but the name means it only after the value.
LetSlot(l, x, slot, irty) == [Emit(l, Store(slot, l.v, StoredAs(irty))) EXCEPT !.locals = (x :> <<slot, irty>>) @@ @]
LetIrType(l, s, ty) == IF s[4][1] = "Array" THEN SizedArrayIrType(l, s[4], s[3]) ELSE IrType(ty)
LowerLetAs(l, s, from, ty, irty) ==
  LetSlot(Coerce(Lower(Def(l, AllocaFor(irty)), s[4], s[3]), from, ty), s[2], Fresh(l, 1), irty)
LowerLetValue(l, s, from, ty) == LowerLetAs(l, s, from, ty, LetIrType(l, s, ty))
LowerLet(l, s) ==
  LET t  == TypeIn(l, s[4], s[3])
      ty == LetType(s[3], t)
  IN  Declare(IF ty = "res" /\ s[4][1] = "Call" /\ s[4][2] \in DOMAIN Constructors
              THEN LowerLetResult(l, s[2], s[4]) ELSE LowerLetValue(l, s, t, ty),
              s[2], ty)

StoreTo(l, x, irty) == Emit(l, Store(l.locals[x][1], l.v, irty))
LowerAssign(l, s) ==
  LET ty == Lookup(Typing(l), s[2])[1]
  IN  StoreTo(Coerce(Lower(l, s[3], ty), TypeIn(l, s[3], ty), ty), s[2], FromMani(ty))

\* Leaves the current block; what follows goes into one nobody reaches.
LeaveBy(l, t, label) == Yield(Open(SetTerm(Numbered(l), t), Label(l, label)), Void)

ReturnValue(l) == LeaveBy(l, Return(l.v), "after_return")
LowerReturn(l, s) ==
  IF Len(s) = 1 THEN LeaveBy(l, ReturnNone, "after_return")
  ELSE ReturnValue(Coerce(Lower(l, s[2], l.ret), TypeIn(l, s[2], l.ret), l.ret))

\* The breaks and continues of the loop whose body starts at block first.
PatchLabels(l, first, exit, again) ==
  LET To(t) == CASE t = Jump("__break__") -> Jump(exit) [] t = Jump("__continue__") -> Jump(again) [] OTHER -> t
  IN  [l EXCEPT !.bs = FoldLeft(LAMBDA acc, b : Append(acc, IF Len(acc) + 1 < first THEN b ELSE [b EXCEPT !.term = To(@)]), << >>, @)]
JumpIfFalls(l, to) == IF Falls(l) THEN SetTerm(l, Jump(to)) ELSE l

\* l is where the body starts: it, the jump back, and the exit.
LoopBody(l, body, again, exit) ==
  Yield(PatchLabels(Open(JumpIfFalls(LowerBlock(l, body), again), exit), l.cur, exit, again), Void)
WhileOn(l, s, cond, body, exit) == LoopBody(Open(SetTerm(l, BinBranch(l.v, body, exit)), body), s[3], cond, exit)
LowerWhile(l, s) ==
  LET cond == Label(l, "while_cond")
  IN  WhileOn(Lower(Open(SetTerm(Numbered(l), Jump(cond)), cond), s[2], "bool"), s,
              cond, Label(l, "while_body"), Label(l, "while_exit"))

LowerLoop(l, s) ==
  LET body == Label(l, "loop_body")
  IN  LoopBody(Open(SetTerm(Numbered(l), Jump(body)), body), s[2], body, Label(l, "loop_exit"))

\* The bounds are evaluated once and the limit is kept in a slot of its own;
\* the variable and the limit are read again for every test.
ForSlots(l, x, lo, end) ==
  LET a == Emit(Def(l, Alloca("", "I64", 1)), Store(Fresh(l, 1), lo, "I64"))
      b == Emit(Def(a, Alloca("", "I64", 1)), Store(Fresh(l, 2), end, "I64"))
  IN  [Declare(OpenScope(b), x, "int") EXCEPT !.locals = (x :> <<Fresh(l, 1), "I64">>) @@ @]
ForTest(l, var, lim, body, exit) ==
  LET c == DefEach(l, <<Load("", var, "I64"), Load("", lim, "I64"), BinOp("", "ILt", Fresh(l, 1), Fresh(l, 2), "Bool")>>)
  IN  Open(SetTerm(c, BinBranch(Fresh(l, 3), body, exit)), body)
ForStep(l, var, cond) ==
  SetTerm(Emit(DefEach(l, <<Load("", var, "I64"), BinOp("", "Add", Fresh(l, 1), IntC(1), "I64")>>), Store(var, Fresh(l, 2), "I64")),
          Jump(cond))
ForBody(l, body, var, cond, inc, exit) ==
  LET h == ForStep(Open(JumpIfFalls(LowerBlock(l, body), inc), inc), var, cond)
  IN  CloseScope(PatchLabels(Open(h, exit), l.cur, exit, inc))
ForLoop(l, s, lo, cond, body, exit) ==
  LET test == Open(SetTerm(Numbered(ForSlots(l, s[2], lo, l.v)), Jump(cond)), cond)
  IN  ForBody(ForTest(test, Fresh(l, 1), Fresh(l, 2), body, exit), s[6], Fresh(l, 1), cond, Label(l, "for_inc"), exit)
ForFrom(l, s, lo) == ForLoop(l, s, lo, Label(l, "for_cond"), Label(l, "for_body"), Label(l, "for_exit"))
Inclusive(l, is) == IF is THEN Def(l, BinOp("", "Add", l.v, IntC(1), "I64")) ELSE l
LowerFor(l, s) ==
  LET lo == Lower(l, s[3], "")
  IN  [ForFrom(Inclusive(Lower(lo, s[4], ""), s[5]), s, lo.v) EXCEPT !.locals = l.locals, !.v = Void]

\* Over an array: its length, recorded, known or handed on, is looked up before
\* its address, and the index is a slot nobody names.
ForInSlots(l, s, bound, elem) ==
  LET at == Emit(Def(l, Alloca("", "I64", 1)), Store(Fresh(l, 1), IntC(0), "I64"))
      to == Emit(Def(at, Alloca("", "I64", 1)), Store(Fresh(l, 2), bound, "I64"))
  IN  NewSlot(Declare(OpenScope(to), s[2], ElemOf(TypeIn(l, s[3], ""))), s[2], elem)
TakeElement(l, arr, at, var, ty) ==
  Emit(DefEach(l, <<Load("", at, "I64"), GetPtr("", arr, Fresh(l, 1), ty), Load("", Fresh(l, 2), ty)>>), Store(var, Fresh(l, 3), ty))
ForInLoop(l, s, bound, elem, cond, body, exit) ==
  LET slots == Numbered(ForInSlots(l, s, bound, elem))
      test  == ForTest(Open(SetTerm(slots, Jump(cond)), cond), Fresh(l, 1), Fresh(l, 2), body, exit)
  IN  ForBody(TakeElement(test, l.v, Fresh(l, 1), Fresh(l, 3), ArrayValueTy(elem)), s[4], Fresh(l, 1), cond, Label(l, "for_inc"), exit)
LowerForArray(l, s, elem, bound) ==
  ForInLoop(Lower(l, s[3], ""), s, bound, elem, Label(l, "for_cond"), Label(l, "for_body"), Label(l, "for_exit"))
\* Where no length is known the program stops, and says so.
ForUnknown(l) == Open(SetTerm(Numbered(l), Unreachable), Label(l, "for_unsized_err"))
LowerForUnsized(l, s, elem) ==
  IF HasLen(l, s[3]) THEN LET n == Loads(l, l.locals[LenKey(s[3][2])][1], "I64") IN LowerForArray(n, s, elem, n.v)
  ELSE ForUnknown(l)
ForInBounds(l, s, t, known) ==
  IF known # "" THEN LowerForArray(l, s, IrType(ElemOf(known)), IntC(LengthOf(known))) ELSE LowerForUnsized(l, s, IrType(ElemOf(t)))
LowerForIn(l, s) ==
  LET t == TypeIn(l, s[3], "")
      r == LocalType(l, s[3])
  IN  [ForInBounds(l, s, t, IF IsSized(r) THEN r ELSE IF IsSized(t) THEN t ELSE "") EXCEPT !.locals = l.locals, !.v = Void]

LowerStmt(l, s) ==
  CASE s[1] \in {"Expr", "Tail"} -> Lower(l, s[2], "")
    [] s[1] = "Let"      -> Yield(LowerLet(l, s), Void)
    [] s[1] = "Assign"   -> LowerAssign(l, s)
    [] s[1] = "AssignAt" -> LowerAssignAt(l, s)
    [] s[1] = "If"       -> LowerIf(l, s[2], s[3], s[4], CheckStmt(Typing(l), s).ty)
    [] s[1] = "Tif"      -> LowerTif(l, s, CheckStmt(Typing(l), s).ty)
    [] s[1] = "While"    -> LowerWhile(l, s)
    [] s[1] = "For"      -> LowerFor(l, s)
    [] s[1] = "ForIn"    -> LowerForIn(l, s)
    [] s[1] = "Loop"     -> LowerLoop(l, s)
    [] s[1] = "Return"   -> LowerReturn(l, s)
    [] s[1] = "Break"    -> LeaveBy(l, Jump("__break__"), "after_break")
    [] s[1] = "Continue" -> LeaveBy(l, Jump("__continue__"), "after_continue")

Lower(l, x, hint) ==
  IF x[1] \in {"Expr", "Tail", "Let", "Assign", "AssignAt", "If", "Tif", "While", "For", "ForIn", "Loop", "Return", "Break", "Continue"}
  THEN LowerStmt(l, x) ELSE LowerExpr(l, x, hint)

-----------------------------------------------------------------------------
(* Functions and programs                                                  *)

StartOf(p, f) ==
  [t |-> 0, l |-> 0, bs |-> <<Block("entry", << >>, Unreachable)>>, cur |-> 1, locals |-> << >>,
   vars |-> ScopeOfFn(p, f).vars, ret |-> f.ret, lang |-> p.lang, fns |-> p.fns, v |-> Void]

\* A parameter is copied into a slot, so that it is a local like any other.
SpillAs(l, q, irty) == Emit(NewSlot(l, q[1], irty), Store(Fresh(l, 1), Temp("param_" \o q[1]), ArrayValueTy(irty)))
Spill(l, q)    == SpillAs(l, q, IrType(q[2]))
\* A parameter whose type leaves its length out is followed by it, after all.
HiddenLen(x)   == "__len_" \o x
Hidden(f)      == LET ns == UnsizedParams(f) IN [n \in DOMAIN ns |-> f.params[ns[n]][1]]
SpillLen(l, x) == Emit(NewSlot(l, LenKey(x), "I64"), Store(Fresh(l, 1), Temp("param_" \o HiddenLen(x)), "I64"))
SpillAll(l, f) == FoldLeft(SpillLen, FoldLeft(Spill, l, f.params), Hidden(f))

ReturnOf(l) == SetTerm(l, Return(l.v))
\* What the body falls off with is what it returns.
ReturnTail(l, p, f) ==
  IF ~Falls(l) THEN l
  ELSE IF f.ret = "void" THEN SetTerm(l, ReturnNone)
  ELSE ReturnOf(Coerce(l, CheckBlock(ScopeOfFn(p, f), f.body), f.ret))

LowerFn(p, f) ==
  Fn(f.name,
     [n \in DOMAIN f.params |-> <<f.params[n][1], FromMani(f.params[n][2])>>]
       \o [n \in DOMAIN Hidden(f) |-> <<HiddenLen(Hidden(f)[n]), "I64">>],
     FromMani(f.ret), ReturnTail(LowerBlock(SpillAll(StartOf(p, f), f), f.body), p, f).bs)

LowerProgram(p) == [n \in DOMAIN p.fns |-> LowerFn(p, p.fns[n])]
=============================================================================
