------------------------------- MODULE Types --------------------------------
(***************************************************************************)
(* The types the semantic analyser gives a program of the core, and what   *)
(* it refuses (src/src/semantic/analyzer/type_inference.rs, stmts.rs,      *)
(* expressions.rs).  A type is "int", "trit", "bool3", "bool", "str",      *)
(* "res", "void" or an array's; "reject" is the type of what does not      *)
(* check.                                                                  *)
(*                                                                         *)
(* A scope record sc holds the functions of the program, the return type   *)
(* of the one being checked, and vars, the scopes of its names, innermost  *)
(* last; an immutable name is written with its flag in the binding.        *)
(***************************************************************************)
EXTENDS Source

Numeric(t)    == t \in {"int", "trit"}
Comparable(t) == t \in {"int", "trit", "bool", "bool3"}
Ternary(t)    == t \in {"trit", "bool3"}

\* Arrays are of ints, or of arrays of ints: "[t; n]", n a digit, or "[t]"
\* where the length is left out.
Unsized == 0
ArrayTy(t, n) == "[" \o t \o (IF n = Unsized THEN "]" ELSE "; " \o ToString(n) \o "]")
IsArray(t)   == SubSeq(t \o " ", 1, 1) = "["
IsSized(t)   == IsArray(t) /\ SubSeq(t, Len(t) - 3, Len(t) - 2) = "; "
IsUnsized(t) == IsArray(t) /\ ~IsSized(t)
ElemOf(t)    == SubSeq(t, 2, Len(t) - (IF IsSized(t) THEN 4 ELSE 1))
LengthOf(t)  == IF IsSized(t) THEN CHOOSE n \in 1..9 : ToString(n) = SubSeq(t, Len(t) - 1, Len(t) - 1) ELSE Unsized

\* A pair of types one of which may stand where the other is wanted.
RECURSIVE TypesCompatible(_, _)
TypesCompatible(a, b) ==
  \/ a = b
  \/ Numeric(a) /\ Numeric(b)
  \/ {a, b} \in {{"bool", "bool3"}, {"trit", "bool3"}}
  \/ /\ IsArray(a) /\ IsArray(b)
     /\ Cardinality({LengthOf(a), LengthOf(b)} \ {Unsized}) <= 1
     /\ TypesCompatible(ElemOf(a), ElemOf(b))

\* A literal's type follows what is wanted of it.
InferLitType(e, hint) ==
  CASE e[1] = "Int"      -> IF hint = "trit" THEN "trit" ELSE "int"
    [] e[1] = "BoolLit"  -> IF hint = "bool3" THEN "bool3" ELSE "bool"
    [] e[1] = "Bool3Lit" -> "bool3"
    [] e[1] = "TritLit"  -> "trit"
    [] e[1] = "Str"      -> "str"

BinopType(op, l, r) ==
  CASE "reject" \in {l, r} -> "reject"
    [] op \in {"+", "-", "*", "/", "%"} ->
         IF op = "+" /\ {l, r} = {"str"} THEN "str" ELSE IF Numeric(l) /\ Numeric(r) THEN l ELSE "reject"
    [] op \in {"<", ">", "<=", ">="} ->
         IF Comparable(l) /\ Comparable(r) /\ TypesCompatible(l, r) THEN "bool" ELSE "reject"
    [] op \in {"==", "!="} -> IF TypesCompatible(l, r) THEN "bool" ELSE "reject"
    [] op \in {"&&", "||"} -> IF {l, r} = {"bool"} THEN "bool" ELSE "reject"
    [] op \in TLogicOps ->
         CASE ~({l, r} \subseteq {"trit", "bool3", "bool"}) -> "reject"
           [] {l, r} = {"bool"} /\ op \in ClosedOnBool -> "bool"
           [] {l, r} \subseteq {"bool", "bool3"} -> "bool3"
           [] OTHER -> "trit"
    [] op \in DOMAIN LaneNames -> IF Numeric(l) /\ Numeric(r) THEN l ELSE "reject"

\* Nothing is asked of the operand but that it is no wider ternary number.
UnopType(op, t) ==
  CASE t = "reject" -> "reject"
    [] op \in {"-", "tnotw"} -> t
    [] op = "tnot" -> IF t = "bool3" THEN "bool3" ELSE "trit"
    [] op \in {"tposs", "tnec"} -> "bool"

ResolveMethodType(t, m) ==
  CASE t # "res" -> "reject"
    [] m \in {"is_ok", "is_unknown", "is_err"} -> "bool"
    [] m = "tag" -> "trit"
    [] m \in {"unwrap", "unwrap_or"} -> "int"

\* What the payload of a variant is bound as.
PayloadType(variant) == IF variant = "Ok" THEN "int" ELSE "str"

PushScope(sc) == [sc EXCEPT !.vars = Append(@, << >>)]
Define(sc, x, ty, mut) == [sc EXCEPT !.vars[Len(sc.vars)] = (x :> <<ty, mut>>) @@ @]
Depth(sc, x)  == Max({0} \union {n \in DOMAIN sc.vars : x \in DOMAIN sc.vars[n]})
Lookup(sc, x) == sc.vars[Depth(sc, x)][x]
Knows(sc, f)  == \E g \in Range(sc.fns) : g.name = f

\* The types of branches that meet.
BranchesAgree(tys) ==
  LET known == SelectSeq(tys, LAMBDA t : t # "void")
  IN  "reject" \notin Range(tys) /\ \A n \in DOMAIN known : TypesCompatible(known[1], known[n])
\* A branch that ends in a literal trit does not make the whole an int.
UnifyBranchType(bs, tys, fallback) ==
  LET TritLiteral(b) == b # << >> /\ Last(b)[1] \in {"Expr", "Tail"} /\ Last(b)[2][1] = "Int" /\ AbsOf(Last(b)[2][2]) <= 1
      ternary == SelectSeq(tys, Ternary)
  IN  IF ternary # << >> /\ \A n \in DOMAIN tys : tys[n] \in {"trit", "bool3", "void"} \/ (tys[n] = "int" /\ TritLiteral(bs[n]))
      THEN ternary[1] ELSE fallback

\* What the compiler can compute of an index by itself, casts apart, as a sequence
\* of one or none; it divides as version 1 does.
RECURSIVE FoldInt(_)
FoldInt(e) ==
  LET l == FoldInt(e[3])
      r == FoldInt(e[4])
  IN CASE e[1] = "Int" -> <<e[2]>>
       [] e[1] = "Un" /\ e[2] = "-" -> IF l = << >> THEN l ELSE <<-l[1]>>
       [] e[1] = "Bin" /\ e[2] \in {"+", "-", "*", "/", "%"} ->
            IF << >> \in {l, r} \/ (e[2] \in {"/", "%"} /\ r = <<0>>) THEN << >>
            ELSE <<CASE e[2] = "+" -> l[1] + r[1] [] e[2] = "-" -> l[1] - r[1] [] e[2] = "*" -> l[1] * r[1]
                     [] e[2] = "/" -> DivTrunc(l[1], r[1]) [] e[2] = "%" -> RemTrunc(l[1], r[1])>>
       [] OTHER -> << >>

\* The element of an array that is indexed; an index known to be out of it is
\* refused.
IndexType(t, known) ==
  IF ~IsArray(t) \/ (IsSized(t) /\ \E n \in Range(known) : n \notin 0..LengthOf(t) - 1) THEN "reject" ELSE ElemOf(t)
\* The elements of a literal are wanted as what it is wanted of, or as the first is.
ElemHint(hint, first) == IF IsArray(hint) THEN ElemOf(hint) ELSE first
\* A let of an array whose length is left out has its initialiser's.
LetType(hint, t) ==
  IF hint = "" \/ (IsUnsized(hint) /\ IsSized(t) /\ ElemOf(hint) = ElemOf(t)) THEN t ELSE hint

RECURSIVE TypeOf(_, _, _)
RECURSIVE CheckAll(_, _)
RECURSIVE CheckStmt(_, _)

\* A block: the type of its last statement, if that is an expression.
CheckAll(sc, body) ==
  IF body = << >> \/ sc.ty = "reject" THEN sc.ty ELSE CheckAll(CheckStmt(sc, Head(body)), Tail(body))
CheckBlock(sc, body) == CheckAll([PushScope(sc) EXCEPT !.ty = "void"], body)

\* Branches that meet, under the type the last of them or all together give.
Unified(bs, tys, fallback)    == IF BranchesAgree(tys) THEN UnifyBranchType(bs, tys, tys[fallback]) ELSE "reject"
BranchType(sc, bs, fallback) == Unified(bs, [n \in DOMAIN bs |-> CheckBlock(sc, bs[n])], fallback)

ArmScope(sc, arm) ==
  IF arm.binding = "" THEN PushScope(sc) ELSE Define(PushScope(sc), arm.binding, PayloadType(arm.variant), FALSE)
Exhaustive(arms) == \/ \E a \in Range(arms) : a.variant = "_"
                    \/ DOMAIN Constructors \subseteq {a.variant : a \in Range(arms)}
MatchType(t, arms, tys) == IF t = "res" /\ BranchesAgree(tys) /\ Exhaustive(arms) THEN Last(tys) ELSE "reject"

TypeOf(sc, e, hint) ==
  CASE e[1] \in {"Int", "TritLit", "BoolLit", "Bool3Lit", "Str"} -> InferLitType(e, hint)
    [] e[1] = "Var"    -> IF Depth(sc, e[2]) = 0 THEN "reject" ELSE Lookup(sc, e[2])[1]
    [] e[1] = "Cast"   -> LET t == TypeOf(sc, e[2], "") IN IF t = "reject" \/ ("res" \in {t, e[3]} /\ t # e[3]) THEN "reject" ELSE e[3]
    [] e[1] = "Un"     -> UnopType(e[2], TypeOf(sc, e[3], hint))
    [] e[1] = "Bin"    ->
         LET want == IF e[2] \in TLogicOps THEN "trit" ELSE IF e[2] \in {"&&", "||"} THEN "bool" ELSE ""
             l == TypeOf(sc, e[3], want)
             wantR == IF want # "" /\ l = "bool3" THEN "bool3" ELSE IF want # "" THEN want ELSE l
         IN  IF e[2] \in {"/", "%"} /\ e[4] = Num(0) THEN "reject" ELSE BinopType(e[2], l, TypeOf(sc, e[4], wantR))
    [] e[1] = "Method" -> IF \E n \in DOMAIN e[4] : TypeOf(sc, e[4][n], "") = "reject" THEN "reject"
                          ELSE ResolveMethodType(TypeOf(sc, e[2], ""), e[3])
    [] e[1] = "Try"    -> LET t == TypeOf(sc, e[2], hint) IN IF t = "res" THEN "int" ELSE t
    [] e[1] = "Match"  ->
         MatchType(TypeOf(sc, e[2], ""), e[3], [n \in DOMAIN e[3] |-> CheckBlock(ArmScope(sc, e[3][n]), e[3][n].body)])
    [] e[1] = "Array"  ->
         LET elem == ElemHint(hint, TypeOf(sc, e[2][1], ""))
         IN  IF "reject" \in {elem} \union {TypeOf(sc, x, elem) : x \in Range(e[2])} THEN "reject" ELSE ArrayTy(elem, Len(e[2]))
    [] e[1] = "Index"  -> IF TypeOf(sc, e[3], "int") = "reject" THEN "reject" ELSE IndexType(TypeOf(sc, e[2], ""), FoldInt(e[3]))
    [] e[1] = "IfExpr" -> IF TypeOf(sc, e[2], "bool") # "bool" THEN "reject" ELSE BranchType(sc, <<e[3], e[4]>>, 2)
    [] e[1] = "Call" /\ e[2] \in DOMAIN Constructors -> IF TypeOf(sc, e[3][1], "") = PayloadType(e[2]) THEN "res" ELSE "reject"
    [] e[1] = "Call" /\ e[2] = "print" -> IF TypeOf(sc, e[3][1], "") = "reject" THEN "reject" ELSE "void"
    [] e[1] = "Call" ->
         IF ~Knows(sc, e[2]) THEN "reject" ELSE
         LET f == FnNamed(sc, e[2])
         IN  IF /\ Len(f.params) = Len(e[3])
                /\ \A n \in DOMAIN e[3] : TypesCompatible(f.params[n][2], TypeOf(sc, e[3][n], f.params[n][2]))
             THEN f.ret ELSE "reject"

\* The name a let gives: of the type it is declared with, or of its initialiser's.
CheckLet(sc, x, want, t) ==
  IF t = "reject" \/ (want # "" /\ ~TypesCompatible(want, t)) THEN [sc EXCEPT !.ty = "reject"]
  ELSE Define([sc EXCEPT !.ty = "void"], x, LetType(want, t), TRUE)

\* One statement: the scopes after it, and its type if it is an expression.
CheckStmt(sc, s) ==
  LET Typed(ty)  == [sc EXCEPT !.ty = ty]
      If_(ok)    == Typed(IF ok THEN "void" ELSE "reject")
      Checks(b)  == CheckBlock(sc, b) # "reject"
  IN CASE s[1] \in {"Expr", "Tail"} -> Typed(TypeOf(sc, s[2], ""))
       [] s[1] = "Let" -> CheckLet(sc, s[2], s[3], TypeOf(sc, s[4], s[3]))
       [] s[1] = "Assign" ->
            IF Depth(sc, s[2]) = 0 THEN If_(FALSE)
            ELSE If_(Lookup(sc, s[2])[2] /\ TypesCompatible(Lookup(sc, s[2])[1], TypeOf(sc, s[3], Lookup(sc, s[2])[1])))
       [] s[1] = "AssignAt" ->
            LET t == TypeOf(sc, s[2], "") IN If_(t # "reject" /\ TypesCompatible(t, TypeOf(sc, s[3], t)))
       [] s[1] = "ForIn" ->
            LET t == TypeOf(sc, s[3], "")
            IN  If_(IsArray(t) /\ CheckBlock(Define(PushScope(sc), s[2], ElemOf(t), FALSE), s[4]) # "reject")
       [] s[1] = "If" -> IF TypeOf(sc, s[2], "bool") # "bool" THEN If_(FALSE)
                         ELSE IF s[4] = << >> THEN If_(Checks(s[3])) ELSE Typed(BranchType(sc, <<s[3], s[4]>>, 2))
       [] s[1] = "Tif" -> IF Ternary(TypeOf(sc, s[2], "trit")) THEN Typed(BranchType(sc, <<s[3], s[4], s[5]>>, 1)) ELSE If_(FALSE)
       [] s[1] = "While" -> If_(TypeOf(sc, s[2], "bool") = "bool" /\ Checks(s[3]))
       [] s[1] = "For" -> If_(Numeric(TypeOf(sc, s[3], "")) /\ Numeric(TypeOf(sc, s[4], ""))
                              /\ CheckBlock(Define(PushScope(sc), s[2], "int", FALSE), s[6]) # "reject")
       [] s[1] = "Loop" -> If_(Checks(s[2]))
       [] s[1] = "Return" /\ Len(s) = 2 ->
            LET t == TypeOf(sc, s[2], sc.ret) IN If_(t # "reject" /\ (sc.ret = "void" => t = "void"))
       [] OTHER -> If_(TRUE)

-----------------------------------------------------------------------------
(* Does a body leave the function on every path (src/src/semantic/         *)
(* diverges.rs)?                                                           *)

RECURSIVE HasBreak(_)
RECURSIVE Diverges(_)
RECURSIVE HasValueTail(_)

Branches(s) == CASE s[1] \in {"If", "IfExpr"} -> <<s[3], s[4]>>
                 [] s[1] = "Tif"   -> <<s[3], s[4], s[5]>>
                 [] s[1] = "Match" -> [n \in DOMAIN s[3] |-> s[3][n].body]
                 [] OTHER -> << >>
\* What a statement or an expression evaluates whatever happens.
Operands(s) ==
  CASE s[1] \in {"Expr", "Tail", "Try"}     -> <<s[2]>>
    [] s[1] = "Cast"                        -> <<s[2]>>
    [] s[1] \in {"Let"}                     -> <<s[4]>>
    [] s[1] \in {"Assign", "AssignAt", "Un"} -> <<s[3]>>
    [] s[1] = "Index"                       -> <<s[2], s[3]>>
    [] s[1] = "Array"                       -> s[2]
    [] s[1] = "Bin" /\ s[2] \in {"&&", "||"} -> <<s[3]>>
    [] s[1] = "Bin"                         -> <<s[3], s[4]>>
    [] s[1] = "Call"                        -> s[3]
    [] s[1] = "Method"                      -> <<s[2]>> \o s[4]
    [] OTHER -> << >>

\* Mutant: only a break of the loop's own block counts.
HasBreakHere(body) == \E n \in DOMAIN body : body[n][1] = "Break"
\* A break that leaves the loop this block is the body of.
HasBreak(body) ==
  \E n \in DOMAIN body : \/ body[n][1] = "Break"
                        \/ \E b \in Range(Branches(body[n])) : HasBreak(b)
                        \/ \E x \in Range(Operands(body[n])) : HasBreak(<<x>>)

Diverges(body) ==
  \E n \in DOMAIN body :
    LET s == body[n]
    IN  \/ s[1] = "Return"
        \/ s[1] = "Loop" /\ ~HasBreak(s[2])
        \/ /\ Branches(s) # << >> /\ << >> \notin Range(Branches(s))
           /\ \A b \in Range(Branches(s)) : Diverges(b)
        \/ \E x \in Range(Operands(s)) : Diverges(<<x>>)

\* A last expression that stands for the value of the block.
HasValueTail(body) ==
  /\ body # << >>
  /\ LET last == IF Last(body)[1] \in {"Expr", "Tail"} THEN Last(body)[2] ELSE Last(body)
         bs == Branches(last)
     IN  /\ last[1] \notin {"Let", "Assign", "AssignAt", "While", "For", "ForIn", "Loop", "Break", "Continue", "Return"}
         /\ \A b \in Range(bs) : Diverges(b) \/ HasValueTail(b)

-----------------------------------------------------------------------------
(* Functions.  Parameters cannot be assigned.                              *)

ScopeOfFn(p, f) ==
  [fns |-> p.fns, ret |-> f.ret, ty |-> "void",
   vars |-> <<[x \in {f.params[n][1] : n \in DOMAIN f.params} |->
                 <<f.params[CHOOSE n \in DOMAIN f.params : f.params[n][1] = x][2], FALSE>>]>>]

CheckFn(p, f) == /\ f.ret = "void" \/ Diverges(f.body) \/ HasValueTail(f.body)
                 /\ CheckBlock(ScopeOfFn(p, f), f.body) # "reject"

Accepts(p) == \A f \in Range(p.fns) : CheckFn(p, f)
=============================================================================
