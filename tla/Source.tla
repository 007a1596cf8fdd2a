------------------------------- MODULE Source -------------------------------
(***************************************************************************)
(* The core of the language and what its programs do, as the reference     *)
(* interpreter defines it (src/src/reference/ast.rs, eval.rs), without     *)
(* tasks and channels: RefSched is about those.                            *)
(*                                                                         *)
(* An expression or statement is a tuple, its kind first.  A program is a  *)
(* record of its language version and its functions, "main" among them.    *)
(* The interpreter has no arrays, and no loop but while.                   *)
(* A string is a number above every word: nothing is done with one but to  *)
(* print it.                                                               *)
(***************************************************************************)
EXTENDS IR

Num(n)          == <<"Int", n>>
TritLit(t)      == <<"TritLit", t>>
BoolLit(b)      == <<"BoolLit", b>>
Bool3Lit(t)     == <<"Bool3Lit", t>>
Str(s)          == <<"Str", s>>
Var(x)          == <<"Var", x>>
CallE(f, args)  == <<"Call", f, args>>
Un(op, e)       == <<"Un", op, e>>
Bin(op, l, r)   == <<"Bin", op, l, r>>
CastE(e, ty)    == <<"Cast", e, ty>>
Method(e, m, args)   == <<"Method", e, m, args>>
Try(e)               == <<"Try", e>>
Match(e, arms)       == <<"Match", e, arms>>
Arm(variant, x, body) == [variant |-> variant, binding |-> x, body |-> body]
IfExpr(c, then, els) == <<"IfExpr", c, then, els>>
ArrayE(es)           == <<"Array", es>>
At(arr, idx)         == <<"Index", arr, idx>>

Let(x, ty, e)     == <<"Let", x, ty, e>>
AssignS(x, e)     == <<"Assign", x, e>>
If(c, then, els)  == <<"If", c, then, els>>     \* els = << >>: there is none
Tif(e, p, z, n)   == <<"Tif", e, p, z, n>>
While(c, body)    == <<"While", c, body>>
ReturnS(e)        == <<"Return", e>>
ReturnVoid        == <<"Return">>
ExprS(e)          == <<"Expr", e>>
\* Statements of the language the interpreter does not have.
For(x, lo, hi, incl, body) == <<"For", x, lo, hi, incl, body>>
ForIn(x, arr, body) == <<"ForIn", x, arr, body>>
AssignAt(arr, idx, e) == <<"AssignAt", At(arr, idx), e>>
LoopS(body)       == <<"Loop", body>>
BreakS            == <<"Break">>
ContinueS         == <<"Continue">>
Tail_(e)          == <<"Tail", e>>
Println(e)        == ExprS(CallE("print", <<e>>))

FnDef(name, params, ret, body) == [name |-> name, params |-> params, ret |-> ret, body |-> body]
Program(lang, fns) == [lang |-> lang, fns |-> fns]
FnNamed(p, f) == p.fns[CHOOSE n \in DOMAIN p.fns : p.fns[n].name = f]

-----------------------------------------------------------------------------
(* Values: <<form, carrier>>, and <<"res", tag, payload or message>>       *)

IntV(n)   == <<"int", n>>
BoolV(b)  == <<"bool", b>>
TextV(s)  == <<"text", s>>
Res(tag, x) == <<"res", tag, x>>

\* How a value prints, and what arithmetic sees of it.
AsPrintInt(v) == v[2]

\* What a three-valued operator accepts, and the trit it takes it for.
IsTritOperand(v) == v[1] \in {"trit", "bool3", "bool", "res"}
TritOperand(v)   == IF v[1] = "bool" THEN 2 * v[2] - 1 ELSE v[2]

Truthy(v) == v[2] # 0
ClampTrit(n) == Max({-1, Min({1, n})})

Cast(v, ty) ==
  CASE ty = "int"   -> IntV(AsPrintInt(v))
    [] ty = "trit"  -> <<"trit", ClampTrit(AsPrintInt(v))>>
    [] ty = "bool3" -> <<"bool3", ClampTrit(AsPrintInt(v))>>
    [] ty = "bool"  -> BoolV(B(AsPrintInt(v) # 0))
    [] OTHER        -> v
\* An assignment keeps the form of the value it replaces.
Reshape(v, like) == IF like[1] \in {"int", "trit", "bool3", "bool"} THEN Cast(v, like[1]) ELSE v

TLogic(op, x, y) ==
  CASE op = "tand" -> Min({x, y})
    [] op = "tor"  -> Max({x, y})
    [] op = "txor" -> ((x + y + 4) % 3) - 1
    [] op = "tcon" -> IF x = y THEN x ELSE 0
    [] op = "tany" -> IF 1 \in {x, y} THEN 1 ELSE IF -1 \in {x, y} THEN -1 ELSE 0
    [] op = "timp" -> Min({1, 1 - x + y})
    [] op = "teq"  -> Min({1, 1 - x + y, 1 - y + x})
TLogicOps == {"tand", "tor", "txor", "tcon", "tany", "timp", "teq"}
\* Two booleans give a boolean where the operator cannot leave them.
ClosedOnBool == TLogicOps \ {"txor", "tcon"}
LaneNames == [tandw |-> "And", torw |-> "Or", txorw |-> "Xor", timpw |-> "Imp", tcmpw |-> "Cmp"]
Compare(op, x, y) == B(CASE op = "==" -> x = y [] op = "!=" -> x # y [] op = "<" -> x < y
                         [] op = ">" -> x > y [] op = "<=" -> x <= y [] op = ">=" -> x >= y)

-----------------------------------------------------------------------------
(* Evaluation.  A configuration holds the scopes, innermost last; the      *)
(* output; what is left of the step limit; st, how things go ("run", or    *)
(* "trap", "form", "diverges", "propagate" for what `?` sends up); v, the  *)
(* value; and flow, how a block ended.                                     *)

Then(c, F(_)) == IF c.st = "run" THEN F(c) ELSE c
Give(c, v)    == [c EXCEPT !.v = v]
Trap(c)       == [c EXCEPT !.st = "trap"]
\* The trap of an operator given a value of a form it does not take.
BadForm(c)    == [c EXCEPT !.st = "form"]
Checked(c, n) == IF InWord(n) THEN Give(c, IntV(n)) ELSE Trap(c)
Tick(c)       == IF c.fuel = 0 THEN [c EXCEPT !.st = "diverges"] ELSE [c EXCEPT !.fuel = @ - 1]
PrintV(c)     == [c EXCEPT !.out = Append(@, AsPrintInt(c.v)), !.v = IntV(0)]

ScopeOf(c, x) == Max({0} \union {n \in DOMAIN c.env : x \in DOMAIN c.env[n]})
Bind(c, x, v) == [c EXCEPT !.env[Len(c.env)] = (x :> v) @@ @]
Push(c) == [c EXCEPT !.env = Append(@, << >>)]
Pop(c)  == [c EXCEPT !.env = SubSeq(@, 1, Len(@) - 1)]

\* An operator on values already computed.
Apply(lang, op, a, b, c) ==
  LET x == AsPrintInt(a)
      y == AsPrintInt(b)
      trits == IsTritOperand(a) /\ IsTritOperand(b)
      z == TLogic(op, TritOperand(a), TritOperand(b))
      forms == {a[1], b[1]}
  IN CASE op = "+" -> Checked(c, x + y)
       [] op = "-" -> Checked(c, x - y)
       [] op = "*" -> Checked(c, x * y)
       [] op \in {"/", "%"} /\ y = 0 -> Trap(c)
       [] op = "/" -> Checked(c, IF lang = "v1" THEN DivTrunc(x, y) ELSE DivNearest(x, y))
       [] op = "%" -> Checked(c, IF lang = "v1" THEN RemTrunc(x, y) ELSE RemBalanced(x, y))
       [] op \in {"==", "!=", "<", ">", "<=", ">="} -> Give(c, BoolV(Compare(op, x, y)))
       [] op \in TLogicOps /\ ~trits -> BadForm(c)
       [] op \in TLogicOps /\ trits ->
            Give(c, IF forms = {"bool"} /\ op \in ClosedOnBool THEN BoolV(B(z > 0))
                    ELSE IF forms \subseteq {"bool", "bool3"} THEN <<"bool3", z>> ELSE <<"trit", z>>)
       [] op \in DOMAIN LaneNames ->
            IF forms = {"int"} THEN Give(c, IntV(LaneWise(LaneNames[op], x, y))) ELSE BadForm(c)

ApplyUn(op, a, c) ==
  CASE op = "-"     -> Checked(c, -AsPrintInt(a))
    [] op = "tnotw" -> IF a[1] = "int" THEN Checked(c, -a[2]) ELSE BadForm(c)
    [] ~IsTritOperand(a) -> BadForm(c)
    [] op = "tnot"  -> Give(c, <<IF a[1] = "bool3" THEN "bool3" ELSE "trit", -TritOperand(a)>>)
    [] op = "tposs" -> Give(c, BoolV(B(TritOperand(a) >= 0)))
    [] op = "tnec"  -> Give(c, BoolV(B(TritOperand(a) = 1)))

Constructors == Tags
VariantOf(tag) == CHOOSE n \in DOMAIN Constructors : Constructors[n] = tag

RECURSIVE Eval(_, _, _)
RECURSIVE EvalAll(_, _, _)
RECURSIVE Exec(_, _, _)
RECURSIVE Stmts(_, _, _)
RECURSIVE Loop(_, _, _)

\* A block in a scope of its own.
BlockOf(p, body, c) == Pop(Stmts(p, body, [Push(c) EXCEPT !.flow = "normal"]))

\* A block where a value is wanted: a return leaves the function from it.
BlockValue(p, body, c) ==
  Then(BlockOf(p, body, c), LAMBDA a :
    CASE a.flow = "value"  -> [a EXCEPT !.flow = "normal"]
      [] a.flow = "return" -> [a EXCEPT !.st = "propagate"]
      [] a.flow = "normal" -> Trap(a))

\* The configuration after a call, from the one its body ended in, r.
Returned(r, ret, c) ==
  [r EXCEPT !.env = c.env, !.flow = c.flow,
            !.v = CASE r.st \notin {"run", "propagate"} -> @
                    [] r.st = "run" /\ r.flow = "normal" -> IntV(0)
                    [] OTHER -> Cast(@, ret),
            !.st = IF @ = "propagate" THEN "run" ELSE @]

\* A call: the body runs in fresh scopes and what it propagates is its value.
CallBody(p, f, args, c) ==
  LET params == [x \in {f.params[n][1] : n \in DOMAIN f.params} |->
                   LET n == CHOOSE m \in DOMAIN f.params : f.params[m][1] = x IN Cast(args[n], f.params[n][2])]
  IN  Returned(Stmts(p, f.body, [c EXCEPT !.env = <<params, << >>>>, !.flow = "normal"]), f.ret, c)

ResultMethod(p, e, c) ==
  LET r == c.v IN
  IF r[1] # "res" THEN BadForm(c) ELSE
  CASE e[3] = "tag"        -> Give(c, <<"trit", r[2]>>)
    [] e[3] = "is_ok"      -> Give(c, BoolV(B(r[2] = 1)))
    [] e[3] = "is_unknown" -> Give(c, BoolV(B(r[2] = 0)))
    [] e[3] = "is_err"     -> Give(c, BoolV(B(r[2] = -1)))
    [] e[3] = "unwrap"     -> IF r[2] = 1 THEN Give(c, r[3]) ELSE Trap(c)
    [] e[3] = "unwrap_or"  -> Then(Eval(p, e[4][1], c), LAMBDA d : IF r[2] = 1 THEN Give(d, r[3]) ELSE d)

MatchOn(p, arms, c) ==
  LET r == c.v
      arm == CHOOSE a \in Range(arms) :
               IF \E b \in Range(arms) : b.variant = VariantOf(r[2]) THEN a.variant = VariantOf(r[2]) ELSE a.variant = "_"
      opened == IF arm.binding = "" THEN Push(c) ELSE Bind(Push(c), arm.binding, r[3])
      d == Stmts(p, arm.body, [opened EXCEPT !.flow = "normal"])
  IN  IF r[1] # "res" THEN BadForm(c)
      ELSE Then(Pop(d), LAMBDA a : CASE a.flow = "return" -> [a EXCEPT !.st = "propagate"]
                                     [] a.flow = "value"  -> [a EXCEPT !.flow = "normal"]
                                     [] a.flow = "normal" -> Give(a, IntV(0)))

Eval(p, e, c0) == Then(Tick(c0), LAMBDA c :
  CASE e[1] = "Int"      -> Checked(c, e[2])
    [] e[1] = "TritLit"  -> Give(c, <<"trit", e[2]>>)
    [] e[1] = "BoolLit"  -> Give(c, BoolV(e[2]))
    [] e[1] = "Bool3Lit" -> Give(c, <<"bool3", e[2]>>)
    [] e[1] = "Str"      -> Give(c, TextV(e[2]))
    [] e[1] = "Var"      -> IF ScopeOf(c, e[2]) = 0 THEN BadForm(c) ELSE Give(c, c.env[ScopeOf(c, e[2])][e[2]])
    [] e[1] = "Cast"     -> Then(Eval(p, e[2], c), LAMBDA a : Give(a, Cast(a.v, e[3])))
    [] e[1] = "Un"       -> Then(Eval(p, e[3], c), LAMBDA a : ApplyUn(e[2], a.v, a))
    [] e[1] = "Bin" /\ e[2] \in {"&&", "||"} ->
         Then(Eval(p, e[3], c), LAMBDA a :
           IF Truthy(a.v) = (e[2] = "||") THEN Give(a, BoolV(B(e[2] = "||")))
           ELSE Then(Eval(p, e[4], a), LAMBDA b : Give(b, BoolV(B(Truthy(b.v))))))
    [] e[1] = "Bin" ->
         Then(Eval(p, e[3], c), LAMBDA a : Then(Eval(p, e[4], a), LAMBDA b : Apply(p.lang, e[2], a.v, b.v, b)))
    [] e[1] = "Method"   -> Then(Eval(p, e[2], c), LAMBDA a : ResultMethod(p, e, a))
    [] e[1] = "Try"      -> Then(Eval(p, e[2], c), LAMBDA a :
                              IF a.v[1] # "res" THEN BadForm(a)
                              ELSE IF a.v[2] = 1 THEN Give(a, a.v[3]) ELSE [a EXCEPT !.st = "propagate"])
    [] e[1] = "Match"    -> Then(Eval(p, e[2], c), LAMBDA a : MatchOn(p, e[3], a))
    [] e[1] = "IfExpr"   -> Then(Eval(p, e[2], c), LAMBDA a : BlockValue(p, IF Truthy(a.v) THEN e[3] ELSE e[4], a))
    [] e[1] = "Call" /\ e[2] \in DOMAIN Constructors ->
         Then(Eval(p, e[3][1], c), LAMBDA a : Give(a, Res(Constructors[e[2]], a.v)))
    [] e[1] = "Call" /\ e[2] = "print" -> Then(Eval(p, e[3][1], c), PrintV)
    [] e[1] = "Call" -> Then(EvalAll(p, e[3], [c EXCEPT !.v = << >>]), LAMBDA a : CallBody(p, FnNamed(p, e[2]), a.v, a)))

\* Arguments, left to right: v becomes the sequence of their values.
EvalAll(p, es, c) ==
  IF es = << >> THEN c
  ELSE Then(Eval(p, Head(es), c), LAMBDA a : EvalAll(p, Tail(es), Give(a, Append(c.v, a.v))))

Stmts(p, body, c) ==
  IF body = << >> \/ c.st # "run" \/ c.flow # "normal" THEN c
  ELSE Stmts(p, Tail(body), Exec(p, Head(body), c))

Loop(p, s, c0) == Then(Tick(c0), LAMBDA c :
  Then(Eval(p, s[2], c), LAMBDA a :
    IF ~Truthy(a.v) THEN a
    ELSE Then(BlockOf(p, s[3], a), LAMBDA b :
           IF b.flow = "return" THEN b ELSE Loop(p, s, [b EXCEPT !.flow = "normal"]))))

Exec(p, s, c0) == Then(Tick(c0), LAMBDA c :
  CASE s[1] = "Tail" -> Then(Eval(p, s[2], c), LAMBDA a : [a EXCEPT !.flow = "value"])
    [] s[1] = "Let"  -> Then(Eval(p, s[4], c), LAMBDA a : Bind(a, s[2], IF s[3] = "" THEN a.v ELSE Cast(a.v, s[3])))
    [] s[1] = "Assign" ->
         Then(Eval(p, s[3], c), LAMBDA a :
           LET n == ScopeOf(a, s[2]) IN IF n = 0 THEN BadForm(a) ELSE [a EXCEPT !.env[n][s[2]] = Reshape(a.v, @)])
    [] s[1] = "If" -> Then(Eval(p, s[2], c), LAMBDA a : IF Truthy(a.v) THEN BlockOf(p, s[3], a) ELSE BlockOf(p, s[4], a))
    [] s[1] = "Tif" ->
         Then(Eval(p, s[2], c), LAMBDA a :
           IF ~IsTritOperand(a.v) THEN BadForm(a)
           ELSE BlockOf(p, s[IF TritOperand(a.v) > 0 THEN 3 ELSE IF TritOperand(a.v) = 0 THEN 4 ELSE 5], a))
    [] s[1] = "While"  -> Loop(p, s, c)
    [] s[1] = "Return" /\ Len(s) = 1 -> [c EXCEPT !.flow = "return", !.v = IntV(0)]
    [] s[1] = "Return" /\ Len(s) = 2 -> Then(Eval(p, s[2], c), LAMBDA a : [a EXCEPT !.flow = "return"])
    [] s[1] = "Expr"   -> Eval(p, s[2], c))

\* The observable behaviour of a program, as the IR's Meaning gives it.
Observe(p, fuel) ==
  LET r == CallBody(p, FnNamed(p, "main"), << >>,
                    [env |-> << >>, out |-> << >>, fuel |-> fuel, st |-> "run", v |-> IntV(0), flow |-> "normal"])
  IN  [out |-> r.out, end |-> IF r.st = "run" THEN "normal" ELSE r.st]
=============================================================================
