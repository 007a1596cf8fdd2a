------------------------------ MODULE MCCompile -------------------------------
(***************************************************************************)
(* The programs the compiler is checked on.  Most are one small function   *)
(* of one or two parameters and a main that runs it on every value of a    *)
(* range, so that neither folding nor inlining can settle it.  Where it    *)
(* prints before it is done with its parameters, these come fourth and     *)
(* fifth, or are put aside first; Printing has what happens otherwise.      *)
(***************************************************************************)
EXTENDS Toolchain

\* main runs f on every pair of values in lo..hi, given as tyA and tyB.
Step(x, lo, hi, body) ==
  <<Let(x, "int", Num(lo)), While(Bin("<=", Var(x), Num(hi)), body \o <<AssignS(x, Bin("+", Var(x), Num(1)))>>)>>
As(x, ty) == CASE ty = "int" -> Var(x) [] ty = "bool" -> Bin("!=", Var(x), Num(0)) [] OTHER -> CastE(Var(x), ty)
None == <<Num(0), Num(0), Num(0)>>
OnPairs(lang, tyA, tyB, lo, hi, fns) ==
  Program(lang, <<FnDef("main", << >>, "void",
    Step("i", lo, hi, Step("j", lo, hi, <<ExprS(CallE("f", None \o <<As("i", tyA), As("j", tyB)>>))>>)))>> \o fns)
OnEach(lang, ty, lo, hi, fns) ==
  Program(lang, <<FnDef("main", << >>, "void", Step("i", lo, hi, <<ExprS(CallE("f", None \o <<As("i", ty)>>))>>))>> \o fns)
Unused == <<<<"u", "int">>, <<"v", "int">>, <<"w", "int">>>>
F(params, body) == FnDef("f", Unused \o params, "void", body)
Prints(e) == Println(e)

AB(tyA, tyB) == <<<<"a", tyA>>, <<"b", tyB>>>>
A(ty) == <<<<"a", ty>>>>
a == Var("a")
b == Var("b")

\* Arithmetic and comparisons, with the same subexpression twice.
Arithmetic ==
  {OnPairs(lang, "int", "int", -2, 2,
     <<F(AB("int", "int"),
         <<Prints(Bin(op, Bin("*", a, Num(3)), Bin("+", Bin("*", b, Num(9)), Num(1)))),
           Prints(Bin("-", Bin("*", a, Num(3)), Bin("/", a, Num(3))))>>)>>) :
     op \in {"+", "-", "/", "%"}, lang \in {"v1", "v2"}}
  \union {OnPairs("v2", "int", "int", -1, 1, <<F(AB("int", "int"), <<Prints(Bin(op, a, b))>>)>>) : op \in {"==", "<", ">="}}
  \union {OnEach("v2", "int", 0, 2, <<F(A("int"), <<Prints(a), Let("x", "int", Bin("*", a, Num(6000))), Prints(Var("x"))>>)>>),
          OnEach("v2", "int", -1, 1, <<F(A("int"), <<Prints(a), Prints(Bin("/", Num(5), a))>>)>>)}

\* Every operator on two values of a type, and some on every two types: most of
\* these are refused.
Types == {"int", "trit", "bool3", "bool"}
Operators == TLogicOps \union {"+", "==", "<", "&&", "tandw"}
OnTypes(op, t, u) == OnPairs("v2", t, u, -1, 1, <<F(AB(t, u), <<Prints(Bin(op, a, b))>>)>>)
Typed == {OnTypes(op, t, t) : op \in Operators, t \in Types \ {"int"}}
         \union {OnTypes(op, t, u) : op \in {"tand", "timp", "txor", "==", "<", "&&", "tandw"}, t \in Types, u \in Types \ {"int"}}
WithoutWordTrits == {p \in Typed : "tandw" # p.fns[2].body[1][2][3][1][2]}

\* The unary ones, the lanes of a word, and short circuits that show.
Unary ==
  {OnEach("v2", ty, -1, 1, <<F(A(ty), <<Prints(Un("tposs", a)), Prints(Un("tnec", a))>>)>>) : ty \in {"trit", "bool3", "bool"}}
  \union {OnEach("v2", ty, -1, 1, <<F(A(ty), <<Prints(Un("tnot", Un("tnot", a))), Prints(Un("tnot", a))>>)>>) : ty \in {"trit", "bool3"}}
  \union {OnPairs("v2", "int", "int", -4, -2, <<F(AB("int", "int"), <<Prints(Bin(op, a, b)), Prints(Un("tnotw", a))>>)>>) :
            op \in DOMAIN LaneNames}
  \union {OnPairs("v2", "bool", "bool", 0, 1,
            <<F(AB("bool", "bool"), <<Prints(Bin(op, a, Bin("==", CallE("g", <<b>>), Num(1))))>>),
              FnDef("g", <<<<"c", "bool">>>>, "int", <<Let("k", "int", CastE(Var("c"), "int")), Prints(Num(7)), ReturnS(Var("k"))>>)>>) : op \in {"&&", "||"}}
Logic == WithoutWordTrits \union Unary

\* main prints what f gives on every value of lo..hi.
Given(lang, ret, lo, hi, body, fns) ==
  Program(lang, <<FnDef("main", << >>, "void", Step("i", lo, hi, <<Prints(CallE("f", <<Var("i")>>))>>)),
                  FnDef("f", A("int"), ret, body)>> \o fns)
x == Var("x")
y == Var("y")
Ret(k) == <<ReturnS(Num(k))>>
Cmp(op, l, k) == Bin(op, l, Num(k))
AddTo(v, k) == AssignS(v, Bin("+", Var(v), Num(k)))
LetN(v, k)  == Let(v, "int", Num(k))

\* Branches: values that meet, assignments on one side, nests, early returns,
\* and the sign tests the peephole makes one branch of.
Control ==
  {Given("v2", "int", -2, 2, body, << >>) : body \in {
     <<LetN("x", 1), If(Cmp(">", a, 0), <<AssignS("x", a)>>, << >>), Tail_(x)>>,
     <<Tail_(IfExpr(Cmp("<", a, 0), <<Tail_(Num(3))>>, <<Tail_(Bin("+", a, Num(1)))>>))>>,
     <<If(Cmp(">", a, 0), Ret(1), <<If(Cmp("==", a, 0), Ret(0), Ret(-1))>>), ReturnS(Num(9))>>,
     <<LetN("x", 0), If(Cmp("==", a, 0), <<LetN("x", 5), AddTo("x", 1), Prints(x)>>, <<If(Cmp("<", a, 0), <<AddTo("x", 2)>>, <<AddTo("x", 9)>>)>>), Tail_(x)>>,
     <<Let("y", "int", Bin("*", a, Num(9))), If(Cmp("<", a, 0), <<Prints(Num(1))>>, <<If(Cmp(">", a, 0), <<Prints(Num(2))>>, <<Prints(Num(3))>>)>>), Tail_(y)>>,
     <<LetN("x", 7), If(Bin("&&", Cmp(">", a, -2), Cmp("<", a, 2)), <<AssignS("x", Bin("/", x, Num(3)))>>, <<AssignS("x", Bin("%", x, Num(3)))>>), Tail_(x)>>,
     <<If(Bin("||", Cmp("==", a, 1), Bin("&&", Cmp("<", a, 0), Cmp("!=", a, -1))), Ret(4), <<Prints(a)>>), Tail_(Num(5))>>,
     <<Let("y", "int", Un("-", a)), Tif(CastE(a, "trit"), Ret(1), <<LetN("x", 2), Prints(x)>>, <<Prints(Num(6))>>), Tail_(y)>>,
     <<Let("t", "trit", CastE(a, "trit")), LetN("x", 4),
       Tif(Var("t"), <<AddTo("x", 1)>>, <<Prints(x)>>, <<AddTo("x", -1)>>),
       Tif(Un("tnot", Var("t")), <<AddTo("x", 10)>>, <<Prints(x)>>, <<AddTo("x", 20)>>), Tail_(x)>>}}

\* Loops: values carried round, a constant worth hoisting, breaks and
\* continues from inner blocks, a loop variable that hides a name.
Loops ==
  {Given("v2", "int", 0, 3, body, << >>) : body \in {
     <<LetN("x", 0), LetN("y", 1), While(Bin("<", x, a), <<AssignS("y", Bin("+", y, Bin("*", x, Num(9)))), AddTo("x", 1)>>), Tail_(y)>>,
     <<LetN("x", 0), LetN("y", 0), While(Cmp("<", x, 3), <<LetN("y", 1), If(Bin("==", x, a), <<ReturnS(Bin("+", x, Num(40)))>>, <<AddTo("y", 1)>>), AddTo("x", 1)>>), Tail_(y)>>,
     <<LetN("x", 5), Let("y", "int", Bin("+", a, Num(1))), For("x", Num(0), y, FALSE, <<Prints(x)>>), Tail_(x)>>,
     <<LetN("x", 0), For("k", Num(0), Num(3), TRUE, <<If(Bin("==", Var("k"), a), <<ContinueS>>, << >>), If(Cmp("==", Var("k"), 3), <<AddTo("x", 50), BreakS>>, << >>), AddTo("x", 7)>>), Tail_(x)>>,
     <<LetN("x", 0), Let("y", "int", Bin("-", a, Num(1))), LoopS(<<AddTo("x", 1), If(Bin(">", x, y), <<BreakS>>, <<If(Cmp("==", x, 2), <<ContinueS>>, << >>)>>), Prints(x)>>), Tail_(x)>>,
     <<LetN("x", 0), LetN("y", 9), Let("n", "int", Bin("-", a, Num(1))), While(Bin("<", x, Var("n")), <<LetN("k", 0), While(Bin("<", Var("k"), x), <<AssignS("y", Bin("-", y, Var("k"))), AddTo("k", 1)>>), Prints(y), AddTo("x", 1)>>), Tail_(y)>>,
     <<LetN("x", 1), LetN("y", 2), While(Bin(">", Bin("+", a, Num(2)), x), <<LetN("k", 0), AssignS("k", x), AssignS("x", y), AssignS("y", Var("k")), AssignS("x", Bin("+", x, y))>>), Tail_(Bin("-", x, y))>>,
     <<LoopS(<<If(Cmp("==", a, 1), Ret(8), <<ReturnS(a)>>)>>)>>}}

\* Results: a function that gives each variant, and what is done with one.
G == FnDef("g", <<<<"c", "int">>>>, "res",
       <<If(Cmp(">", Var("c"), 0), <<ReturnS(CallE("Ok", <<Bin("+", Var("c"), Num(10))>>))>>, << >>),
         If(Cmp("==", Var("c"), 0), <<ReturnS(CallE("Unknown", <<Str(100)>>))>>, << >>),
         Tail_(CallE("Err", <<Str(101)>>))>>)
R == CallE("g", <<a>>)
Results ==
  {Given("v2", "int", -1, 1, body, <<G>>) : body \in {
     <<Tail_(Match(R, <<Arm("Ok", "v", <<Tail_(Bin("+", Var("v"), Num(1)))>>), Arm("Unknown", "m", <<Tail_(Num(2))>>), Arm("Err", "m", <<Prints(Var("m")), Tail_(Num(3))>>)>>))>>,
     <<LetN("v", 5), LetN("x", 0), AssignS("x", Match(R, <<Arm("Ok", "w", <<Tail_(Bin("*", Var("w"), Var("v")))>>), Arm("_", "", <<Tail_(Var("v"))>>)>>)), Tail_(x)>>,
     <<Let("r", "res", R), Prints(CastE(Method(Var("r"), "is_ok", << >>), "int")), Prints(Method(Var("r"), "tag", << >>)), Tail_(Method(Var("r"), "unwrap_or", <<Num(9)>>))>>,
     <<Let("r", "res", CallE("Ok", <<a>>)), If(Method(Var("r"), "is_ok", << >>), <<Prints(Num(1))>>, <<Prints(Num(0))>>), Tail_(Method(Var("r"), "unwrap", << >>))>>,
     <<Prints(Method(R, "is_err", << >>)), Prints(Method(R, "is_unknown", << >>)), Tail_(Method(R, "unwrap", << >>))>>,
     <<Tail_(Match(CallE("h", <<a>>), <<Arm("Ok", "v", <<Tail_(Var("v"))>>), Arm("Unknown", "", <<Tail_(Num(20))>>), Arm("Err", "", <<Tail_(Num(30))>>)>>))>>}
   }
Asks == FnDef("h", <<<<"c", "int">>>>, "res",
          <<Let("v", "int", Try(CallE("g", <<Var("c")>>))), Prints(Var("v")), Tail_(CallE("Ok", <<Bin("*", Var("v"), Num(2))>>))>>)
WithH(p) == [p EXCEPT !.fns = Append(@, Asks)]

\* Calls: bodies of one block and of several, twice in one caller, nested,
\* recursive, with a result nobody wants, and more of them than the budget has.
Abs  == FnDef("g", <<<<"c", "int">>>>, "int", <<If(Cmp("<", Var("c"), 0), <<ReturnS(Un("-", Var("c")))>>, << >>), Tail_(Var("c"))>>)
Dbl  == FnDef("d", <<<<"c", "int">>>>, "int", <<Tail_(Bin("+", Var("c"), Var("c")))>>)
Say  == FnDef("s", <<<<"c", "int">>>>, "void", <<Let("k", "int", Bin("*", Var("c"), Num(27))), If(Cmp("==", Var("c"), 4), <<ReturnVoid>>, << >>), Prints(Var("c")), Prints(Var("k"))>>)
Fact == FnDef("r", <<<<"c", "int">>>>, "int", <<If(Cmp("<=", Var("c"), 0), Ret(1), << >>), Tail_(Bin("*", Var("c"), CallE("r", <<Bin("-", Var("c"), Num(1))>>)))>>)
G_(e) == CallE("g", <<e>>)
D(e)  == CallE("d", <<e>>)
Calls ==
  {Given("v2", "int", -2, 3, body, <<Abs, Dbl, Say, Fact>>) : body \in {
     <<Tail_(Bin("+", D(a), D(Bin("+", a, Num(1)))))>>,
     <<Tail_(Bin("-", G_(a), G_(Bin("-", a, Num(1)))))>>,
     <<ExprS(CallE("s", <<G_(D(a))>>)), ExprS(D(a)), Tail_(CallE("r", <<a>>))>>,
     <<LetN("x", 0), LetN("y", 0), While(Cmp("<", x, 2), <<AssignS("y", Bin("+", y, G_(Bin("-", a, x)))), AddTo("x", 1)>>), Tail_(y)>>,
     <<Let("y", "int", G_(a)), If(Cmp("==", y, 2), <<ReturnS(D(a))>>, <<ExprS(CallE("s", <<y>>))>>), Tail_(G_(y))>>,
     <<Tail_(Bin("+", D(D(D(D(a)))), D(D(D(Num(1))))))>>}}
  \union {OnPairs("v2", "int", "int", -1, 1,
    <<F(AB("int", "int"), <<ExprS(CallE("g", None \o <<b, a>>))>>), FnDef("g", Unused \o AB("int", "int"), "void", <<Prints(Bin("-", a, b))>>)>>)}


\* Scopes: a name hidden and seen again, a binding that ends with its arm, and
\* programs that must be refused.
Scopes ==
  {Given("v2", "int", 0, 1, body, << >>) : body \in {
     <<LetN("x", 1), If(Cmp("==", a, 0), <<LetN("x", 2), Prints(x), LetN("x", 3), AddTo("x", 1), Prints(x)>>, <<AddTo("x", 5)>>), Tail_(x)>>,
     <<LetN("x", 1), Let("x", "int", Bin("+", x, Num(1))), Prints(x), Let("x", "trit", CastE(x, "trit")), Tail_(CastE(x, "int"))>>,
     <<If(Cmp("==", a, 0), <<LetN("x", 2)>>, << >>), Tail_(x)>>,
     <<AssignS("a", Num(1)), Tail_(a)>>,
     <<While(Cmp("<", a, 1), Ret(1))>>,
     <<LoopS(<<If(Cmp("==", a, 1), <<BreakS>>, <<ReturnS(a)>>)>>)>>,
     <<Let("x", "bool", a), Tail_(a)>>,
     <<If(a, Ret(1), Ret(2))>>}}

\* A name an arm binds has the name of a local that is used after the match.
Leaks ==
  {Given("v2", "int", -1, 1, <<LetN("v", 5), LetN("x", 0), AssignS("x", Match(R, <<Arm("Ok", "v", <<Tail_(Var("v"))>>), Arm("_", "", <<Tail_(Num(0))>>)>>)), Tail_(Bin("+", x, Var("v")))>>, <<G>>)}

\* More values than the pool has registers, alive across calls, in loops that
\* rotate them and in both at once; constants no immediate or literal holds; a
\* function of as many parameters as there may be that permutes them.
Vs == <<"p", "q", "s", "t", "o">>
Many(k) == [n \in 1..k |-> Let(Vs[n], "int", Bin("+", Bin("*", a, Num(n)), Num(n)))]
Sum(k) == FoldLeft(LAMBDA e, v : Bin("-", Var(v), e), a, SubSeq(Vs, 1, k))
Turn(k) == <<Let("k", "int", Var(Vs[1]))>> \o [n \in 1..k-1 |-> AssignS(Vs[n], Var(Vs[n + 1]))] \o <<AssignS(Vs[k], Var("k"))>>
Round(body) == <<LetN("x", 0), While(Bin("<", x, a), body \o <<AddTo("x", 1)>>)>>
Five(gives) ==
  FnDef("e", [n \in 1..5 |-> <<Vs[n], "int">>], "int",
    <<If(Cmp("<=", Var("o"), 0), <<ReturnS(gives)>>, << >>),
      Tail_(CallE("e", <<Var("q"), Var("t"), Var("p"), Var("s"), Bin("-", Var("o"), Num(1))>>))>>)
OfFive == <<Tail_(CallE("e", <<a, Num(7001), Bin("*", a, Num(4)), Num(-5003), a>>))>>
Spilling ==
  {Given("v2", "int", 0, 3, body, <<Fact, Five(Var("p"))>>) : body \in {
     Many(5) \o <<Let("y", "int", CallE("r", <<a>>)), Tail_(Bin("+", y, Sum(5)))>>,
     Many(4) \o Round(Turn(4)) \o <<Tail_(Sum(4))>>,
     Many(3) \o Round(Turn(3) \o <<AssignS("q", CallE("r", <<Bin("%", Var("q"), Num(4))>>))>>) \o <<Tail_(Sum(3))>>,
     OfFive,
     <<LetN("x", 9000), If(Cmp("<", a, 2), <<AssignS("x", Num(-9001))>>, << >>), Tail_(Bin("+", x, Bin("*", a, Num(5000))))>>,
     <<LetN("x", 0), LetN("y", 4000), While(Bin("<", x, a), <<Let("k", "int", x), AssignS("x", Bin("+", y, Num(-3999))), AssignS("y", Bin("+", Var("k"), Num(4000)))>>), Tail_(y)>>}}

\* A parameter that is still needed after a print, and one that is needed
\* where the pool is full.
Printing == {Given("v2", "int", 0, 2, <<For("x", Num(0), a, FALSE, <<Prints(x)>>), Tail_(Num(9))>>, << >>)}
Evicting == {Given("v2", "int", 0, 3, OfFive, <<Five(Bin("+", Bin("*", Var("p"), Num(9)), Bin("-", Var("q"), Var("s"))))>>)}

\* A bool that comes from a trit meets one that comes from a comparison.
Widths ==
  {Given("v2", "int", -1, 1, <<Let("c", "trit", CastE(a, "trit")), Let("k", "bool", Bin("&&", Cmp("==", a, 0), Un("tposs", Var("c")))), Tail_(CastE(Var("k"), "int"))>>, << >>)}

\* Arrays: an index the length is checked against, once and again; a length left
\* out and handed on; one that is written through, given back and copied; rows.
V(n)     == At(Var("v"), n)
Lit(ks)  == ArrayE([n \in DOMAIN ks |-> Num(ks[n])])
Plus(e, f)  == Bin("+", e, f)
SumOf(ty) == FnDef("s", <<<<"v", ty>>>>, "int", <<LetN("x", 0), ForIn("e", Var("v"), <<AssignS("x", Plus(x, Var("e")))>>), Tail_(x)>>)
HandOn  == FnDef("p", <<<<"v", "[int]">>, <<"w", "int">>>>, "int", <<Tail_(Plus(CallE("s", <<Var("v")>>), Var("w")))>>)
Pair    == FnDef("m", <<<<"c", "int">>>>, "[int; 2]", <<Let("r", "[int; 2]", ArrayE(<<Var("c"), Bin("*", Var("c"), Num(4))>>)), Tail_(Var("r"))>>)
Put     == FnDef("t", <<<<"v", "[int; 2]">>, <<"w", "int">>>>, "void", <<AssignAt(Var("v"), Num(1), Plus(V(Num(0)), Var("w")))>>)
Open_   == FnDef("o", <<<<"c", "int">>>>, "[int]", <<Let("r", "", ArrayE(<<Var("c"), Num(8)>>)), ReturnS(Var("r"))>>)
Row(k)  == At(Var("g"), k)
Rows    == Let("g", "", ArrayE(<<ArrayE(<<a, Num(2)>>), ArrayE(<<Num(3), Num(4)>>)>>))
ForRows(body) == ForIn("r", Var("g"), <<ForIn("e", Var("r"), body)>>)
Arrayed ==
  {Given("v2", "int", 0, 2, with[1], with[2]) : with \in {
     <<<<Let("v", "", ArrayE(<<Num(7), a>>)), Tail_(V(a))>>, << >>>>,
     <<<<Let("v", "[int]", ArrayE(<<Num(1), Num(2), a>>)), LetN("x", 0), If(Cmp(">", a, 0), <<AssignS("x", V(Num(1)))>>, <<AssignS("x", V(Num(2)))>>), Tail_(Plus(x, Plus(V(a), V(a))))>>, << >>>>,
     <<<<Let("v", "", ArrayE(<<a, Num(5)>>)), Tail_(Plus(CallE("p", <<Var("v"), a>>), CallE("p", <<Lit(<<1, 2, 3>>), Num(1)>>)))>>, <<SumOf("[int]"), HandOn>>>>,
     <<<<Let("v", "[int; 2]", ArrayE(<<a, Num(5)>>)), ExprS(CallE("t", <<Var("v"), Num(1)>>)), Tail_(V(Num(1)))>>, <<Put>>>>,
     <<<<Let("v", "", CallE("m", <<a>>)), Let("w", "", CallE("m", <<Num(3)>>)), Tail_(Plus(V(Num(1)), At(Var("w"), Num(1))))>>, <<Pair>>>>,
     <<<<LetN("x", 0), Rows, AssignAt(Row(Num(1)), Num(0), Num(9)), ForRows(<<AssignS("x", Plus(Bin("*", x, Num(3)), Var("e")))>>), Tail_(Plus(x, At(Row(a), Num(1))))>>, << >>>>,
     <<<<LetN("x", 0), Let("g", "[[int]]", ArrayE(<<ArrayE(<<a, Num(1)>>), Lit(<<2, 3>>)>>)), ForRows(<<If(Bin("==", Var("e"), a), <<ContinueS>>, << >>), If(Cmp("==", Var("e"), 3), <<BreakS>>, << >>), AssignS("x", Plus(x, Var("e")))>>), Tail_(x)>>, << >>>>,
     <<<<LetN("x", 0), LetN("y", 0), While(Bin("<", y, a), <<Let("v", "", ArrayE(<<y, a>>)), AssignS("x", Plus(x, Plus(V(y), CallE("s", <<Var("v")>>)))), AddTo("y", 1)>>), Tail_(x)>>, <<SumOf("[int]")>>>>,
     <<<<Let("v", "", CallE("o", <<a>>)), Let("w", "", CallE("o", <<Num(1)>>)), Tail_(Plus(V(Num(0)), At(Var("w"), Num(0))))>>, <<Open_>>>>,
     <<<<Let("v", "", Lit(<<1, 2>>)), Tail_(V(Num(2)))>>, << >>>>,
     <<<<Let("v", "[int; 3]", Lit(<<1, 2>>)), Tail_(V(Num(0)))>>, << >>>>,
     <<<<Tail_(CallE("t", <<Lit(<<1, 2, 3>>), a>>))>>, <<Put>>>>}}

\* Rows where the targets part: one that is written whole, those of an array a
\* function gives, those a loop makes again and keeps, and one shorter than the
\* first.
Nested  == FnDef("m", <<<<"c", "int">>>>, "[[int; 2]; 2]", <<If(Cmp(">", Var("c"), 90), <<ReturnS(CallE("m", <<Num(1)>>))>>, << >>), Let("r", "", ArrayE(<<ArrayE(<<Var("c"), Num(1)>>), ArrayE(<<Num(2), Var("c")>>)>>)), ReturnS(Var("r"))>>)
RowsOf(body) == {Given("v2", "int", 0, 1, body, <<Nested>>)}
RowWritten == RowsOf(<<Rows, AssignAt(Var("g"), Num(1), ArrayE(<<Num(5), Num(6)>>)), Tail_(At(Row(Num(1)), a))>>)
RowsGiven  == RowsOf(<<Let("g", "", CallE("m", <<a>>)), Let("v", "", CallE("m", <<Num(7)>>)), Tail_(At(Row(a), a))>>)
RowsKept   == RowsOf(<<LetN("x", 0), Let("v", "", Lit(<<8>>)), Let("w", "", Lit(<<9>>)),
                       While(Cmp("<", x, 2), <<AssignS("w", Var("v")), AssignS("v", ArrayE(<<x>>)), AddTo("x", 1)>>),
                       Tail_(At(Var("w"), Num(0)))>>)
Ragged     == RowsOf(<<Let("g", "", ArrayE(<<Lit(<<1, 2>>), Lit(<<3>>)>>)), Tail_(At(Row(Num(1)), Num(1)))>>)

MainLast(p) == [p EXCEPT !.fns = Tail(@) \o <<Head(@)>>]
Small == {MainLast(p) : p \in Spilling} \union Control \union Loops \union Calls \union Scopes \union Arrayed \union {WithH(p) : p \in Results}
All == Arithmetic \union Logic \union Small
Both == {[mem2reg |-> TRUE, merge |-> TRUE, hoist |-> TRUE, rounds |-> 2],
         [mem2reg |-> FALSE, merge |-> FALSE, hoist |-> FALSE, rounds |-> 1]}
=============================================================================
