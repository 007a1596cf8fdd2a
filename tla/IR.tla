--------------------------------- MODULE IR ---------------------------------
(***************************************************************************)
(* The intermediate representation every pass of the compiler works on     *)
(* (src/src/ir/types.rs): functions of labelled blocks of instructions,    *)
(* and the arithmetic its operators stand for, as both backends have it:   *)
(* the machine word holds WordTrits balanced trits, and an addition,       *)
(* subtraction or multiplication that leaves it traps.                     *)
(***************************************************************************)
EXTENDS Integers, Sequences, SequencesExt, FiniteSetsExt, TLC

CONSTANT WordTrits,   \* trits of a machine word (27 in the source)
         I64Bits,     \* bits of the host's integer (64 in the source)
         ImmTrits     \* trits of an instruction's immediate (3 in the source)

Pow(b, n) == b^n
T27Max    == (Pow(3, WordTrits) - 1) \div 2
ImmMax    == (Pow(3, ImmTrits) - 1) \div 2
InWord(v) == -T27Max <= v /\ v <= T27Max
I64Wrap(v) == LET m == Pow(2, I64Bits) IN ((v + m \div 2) % m) - m \div 2

-----------------------------------------------------------------------------
(* Values, instructions, terminators                                       *)

Temp(n)   == <<"temp", n>>
IntC(k)    == <<"int", k>>
BoolC(b)  == <<"bool", b>>       \* 0 or 1
TritC(t)  == <<"trit", t>>
Void      == <<"void">>
IsTemp(v)  == v[1] = "temp"
IsConst(v) == v[1] \in {"int", "bool", "trit"}

\* One shape for every instruction: k its kind, op the operator or callee, d
\* the temporary it defines ("" for none), as its operands, from the labels of
\* a Phi's arms, ty its type, n the words of an Alloca, the length of a
\* BoundsCheck or that of the row a GetPtr points into: one backend steps by it,
\* the other, and Meaning, by a word.
Instr(k, op, d, as, ty) == [k |-> k, op |-> op, d |-> d, as |-> as, from |-> << >>, ty |-> ty, n |-> 0]
BinOp(d, op, a, b, ty)  == Instr("BinOp", op, d, <<a, b>>, ty)
Assign(d, v, ty)        == Instr("Assign", "", d, <<v>>, ty)
Alloca(d, ty, words)    == [Instr("Alloca", "", d, << >>, ty) EXCEPT !.n = words]
Store(p, v, ty)         == Instr("Store", "", "", <<p, v>>, ty)
Load(d, p, ty)          == Instr("Load", "", d, <<p>>, ty)
GetPtr(d, p, i, ty)     == Instr("GetPtr", "", d, <<p, i>>, ty)
BoundsCheck(i, len)     == [Instr("BoundsCheck", "", "", <<i>>, "I64") EXCEPT !.n = len]
Trits(k, d, as)         == Instr(k, "", d, as, "Trit")
Call(d, f, as, ty)      == Instr("Call", f, d, as, ty)
Phi(d, ty, vs, ls)      == [Instr("Phi", "", d, vs, ty) EXCEPT !.from = ls]
SanitizePhi(vs)         == [n \in DOMAIN vs |-> IF vs[n] = Void THEN IntC(0) ELSE vs[n]]
CastTo(d, v, from, to)  == Instr("Cast", from, d, <<v>>, to)
PrintInt(v)             == Instr("PrintInt", "", "", <<v>>, "Void")

IsPhi(i) == i.k = "Phi"

Return(v)       == [k |-> "Return", as |-> <<v>>, to |-> << >>]
ReturnNone      == [k |-> "Return", as |-> << >>, to |-> << >>]
Jump(l)         == [k |-> "Jump", as |-> << >>, to |-> <<l>>]
BinBranch(c, t, f)     == [k |-> "BinBranch", as |-> <<c>>, to |-> <<t, f>>]
TritBranch(c, p, z, n) == [k |-> "TritBranch", as |-> <<c>>, to |-> <<p, z, n>>]
Unreachable     == [k |-> "Unreachable", as |-> << >>, to |-> << >>]

Block(l, is, t) == [label |-> l, is |-> is, term |-> t]
\* A function: params is a sequence of <<name, type>>; extern ones have no blocks.
Fn(n, ps, ret, bs) == [name |-> n, params |-> ps, ret |-> ret, bs |-> bs]

Scalars == {"I64", "I8", "Bool", "Trit", "Char", "Ptr"}

AllInstrs(f) == UNION {Range(f.bs[b].is) : b \in DOMAIN f.bs}
MaxInstrs(f) == Max({0} \union {Len(f.bs[b].is) : b \in DOMAIN f.bs})
BlockNamed(f, l) == CHOOSE b \in DOMAIN f.bs : f.bs[b].label = l /\ \A c \in 1..b-1 : f.bs[c].label # l

-----------------------------------------------------------------------------
(* The arithmetic the operators stand for                                  *)

AbsOf(a)   == IF a < 0 THEN -a ELSE a
SignOf(a)  == IF a > 0 THEN 1 ELSE IF a < 0 THEN -1 ELSE 0
DivTrunc(a, b) == SignOf(a) * SignOf(b) * (AbsOf(a) \div AbsOf(b))
RemTrunc(a, b) == a - DivTrunc(a, b) * b

\* Division to the nearest integer, ties away from zero, compared on negative
\* magnitudes because the positive one of the smallest integer does not exist.
DivNearest(a, b) ==
  LET q  == DivTrunc(a, b)
      nr == -AbsOf(RemTrunc(a, b))
      nb == -AbsOf(b)
  IN  IF nr <= nb - nr THEN IF (a < 0) = (b < 0) THEN q + 1 ELSE q - 1 ELSE q
RemBalanced(a, b) == a - DivNearest(a, b) * b

B(p) == IF p THEN 1 ELSE 0

\* The balanced trits of a word, least significant first, and their value.
Lanes(w)   == [i \in 1..WordTrits |-> (((w + T27Max) \div Pow(3, i - 1)) % 3) - 1]
FromLanes(l) == FoldLeftDomain(LAMBDA acc, i : acc + l[i] * Pow(3, i - 1), 0, l)
LaneOp(op, x, y) ==
  CASE op = "And" -> Min({x, y})
    [] op = "Or"  -> Max({x, y})
    [] op = "Xor" -> ((x + y + 4) % 3) - 1
    [] op = "Imp" -> Min({1, 1 - x + y})
    [] op = "Cmp" -> SignOf(x - y)
LaneWise(op, a, b) ==
  FromLanes([i \in 1..WordTrits |-> LaneOp(op, Lanes(a)[i], Lanes(b)[i])])

BinFails(op, a, b) ==
  \/ op \in {"Div", "Rem", "DivNear", "RemNear"} /\ b = 0
  \/ op \in {"Add", "AddT27"} /\ ~InWord(a + b)
  \/ op \in {"Sub", "SubT27"} /\ ~InWord(a - b)
  \/ op \in {"Mul", "MulT27"} /\ ~InWord(a * b)
  \/ op \in {"TShl", "TShlT27"} /\ ~InWord(a * Pow(3, b))

BinResult(op, a, b) ==
  CASE op \in {"Add", "AddT27"} -> a + b
    [] op \in {"Sub", "SubT27"} -> a - b
    [] op \in {"Mul", "MulT27"} -> a * b
    [] op = "Div"     -> DivTrunc(a, b)
    [] op = "Rem"     -> RemTrunc(a, b)
    [] op = "DivNear" -> DivNearest(a, b)
    [] op = "RemNear" -> RemBalanced(a, b)
    [] op = "IEq" -> B(a = b) [] op = "INe" -> B(a # b)
    [] op = "ILt" -> B(a < b) [] op = "IGt" -> B(a > b)
    [] op = "ILe" -> B(a <= b) [] op = "IGe" -> B(a >= b)
    [] op = "And" -> B(a # 0 /\ b # 0)
    [] op = "Or"  -> B(a # 0 \/ b # 0)
    [] op = "Xor" -> B((a # 0) # (b # 0))
    [] op \in {"TShl", "TShlT27"} -> a * Pow(3, b)
    [] op = "TShr" -> DivNearest(a, Pow(3, b))

-----------------------------------------------------------------------------
(* What both backends and the meaning of the IR share                      *)

\* Functions the backends implement: the constructors of a Result, a pair of
\* words, and the check an unwrap makes.
Tags == [Ok |-> 1, Unknown |-> 0, Err |-> -1]
UnwrapGuard == "manit_check_result_ok"
Undefined == 77777   \* what a temporary that was never assigned reads as

ValueOf(env, v) ==
  CASE v[1] = "temp"   -> IF v[2] \in DOMAIN env THEN env[v[2]] ELSE Undefined
    [] v[1] = "void"   -> Undefined
    [] v[1] = "global" -> 0
    [] OTHER           -> v[2]

Set(env, d, v) == IF d = "" THEN env ELSE (d :> v) @@ env

\* What a condition, 1 when there is none, chooses among the targets.
Chosen(t, cond) == CASE t.k = "Jump" -> 1
                     [] t.k = "BinBranch" -> IF cond # 0 THEN 1 ELSE 2
                     [] t.k = "TritBranch" -> 2 - SignOf(cond)

-----------------------------------------------------------------------------
(* What a function defines and uses                                        *)

TempsOf(vs) == {vs[n][2] : n \in {m \in DOMAIN vs : IsTemp(vs[m])}}
InstrUses(i) == IF IsPhi(i) THEN {} ELSE TempsOf(i.as)
PhiUses(i)   == IF IsPhi(i) THEN {<<i.as[n][2], i.from[n]>> : n \in {m \in DOMAIN i.as : IsTemp(i.as[m])}} ELSE {}
TermUses(t)  == TempsOf(t.as)

Params(f) == {"param_" \o f.params[n][1] : n \in DOMAIN f.params}

\* The block a label names: the first, if several have it; 0 if none.
Index(f, l) == IF \E b \in DOMAIN f.bs : f.bs[b].label = l THEN BlockNamed(f, l) ELSE 0
=============================================================================
