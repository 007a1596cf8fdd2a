------------------------------- MODULE MCBorrow -------------------------------
(***************************************************************************)
(* The bodies the move checker is tried on: two values, or a cell and what *)
(* may hold it, with every short sequence of steps before, inside and      *)
(* after every construct.                                                  *)
(***************************************************************************)
EXTENDS Borrow

INT == <<"Int">>
STR == <<"Str">>
VEC(ty)  == <<"Generic", "Vec", <<ty>>>>
CHAN(ty) == <<"Generic", "Channel", <<ty>>>>
Point  == <<"Struct", "Point">>
Token  == <<"Struct", "Token">>
Lock   == <<"Struct", "Barrier">>
Pair   == <<"Tuple">>
List   == <<"Array">>

s == Ident("s", STR)
t == Ident("t", STR)
New == Ops(STR, << >>)
Cond == Lit(INT)
Use(e) == Do(CallE(INT, "f", <<e>>))
Eat(e) == Do(CallE(INT, "eat", <<e>>))
Fns == [f |-> [takes |-> <<FALSE, FALSE>>, does |-> "reads"], eat |-> [takes |-> <<TRUE>>, does |-> "reads"],
        same |-> [takes |-> <<FALSE>>, does |-> "gives"], put |-> [takes |-> <<FALSE, FALSE>>, does |-> "stores"]]
Prog(body) == [fns |-> Fns, aggregates |-> {"Point"}, affine |-> {"Token"}, body |-> body]

\* Steps on s and t that read, move, rebind and hide them.
Steps ==
  {<<Use(s)>>, <<Eat(s)>>, <<Let("u", s)>>, <<Let("s", New)>>, <<Let("s", t)>>, <<Let("t", s)>>,
   <<Assign(t, s, FALSE)>>, <<Let("u", Literal("Tuple", Pair, <<s, t>>))>>, <<Use(Literal("Array", List, <<s>>))>>,
   <<Use(Literal("Array", List, <<Literal("Array", List, <<s>>)>>))>>, <<Let("u", Literal("Array", List, <<t, Lit(STR)>>))>>}
\* A new value where a branch or a task gives it.
Anew == {<<Assign(s, New, FALSE)>>, <<Assign(s, s, TRUE)>>}
Inner == Steps \union Anew

\* Constructs around a step.
Around(b) ==
  {<<Do(BlockE(b))>>, <<Do(IfE(<<Cond>>, <<b>>, FALSE))>>, <<Do(IfE(<<Cond>>, <<b, <<Use(t)>>>>, TRUE))>>,
   <<Do(MatchE(Cond, <<[binds |-> {"s"}, guard |-> << >>, body |-> b], [binds |-> {}, guard |-> <<s>>, body |-> <<Eat(t)>>]>>))>>,
   <<Do(SpawnE(b, <<<<"s", STR>>, <<"t", STR>>>>))>>, <<Let("u", Ops(INT, <<Cond, BlockE(b)>>))>>}
Around2(b) ==
  {<<Do(WhileE(Cond, b))>>, <<Do(WhileE(s, b \o <<Do(IfE(<<Cond>>, <<<<Jump("break", << >>)>>>>, FALSE))>>))>>,
   <<Do(ForE("s", t, b))>>, <<Do(LoopE(<<Do(IfE(<<Cond>>, <<<<Jump("break", << >>)>>>>, FALSE))>> \o b))>>,
   <<Do(IfE(<<Cond>>, <<b \o <<Jump("return", <<t>>)>>>>, FALSE))>>}
Moves ==
  {Prog(<<Let("s", New), Let("t", New)>> \o x \o y \o z) : x \in Steps, y \in UNION {Around(b) : b \in Inner}, z \in {<<Use(s)>>, <<Use(t)>>}}
  \union {Prog(<<Let("s", New), Let("t", New)>> \o x \o y \o z) : x \in Steps, y \in UNION {Around2(b) : b \in Steps}, z \in {<<Use(s)>>, <<Use(t)>>}}
  \union {Prog(<<Let("s", New), Let("t", New)>> \o x \o y \o z) : x \in Inner, y \in Inner, z \in Inner}

-----------------------------------------------------------------------------
(* Regions and tasks: what a cell may be given to, inside and outside.     *)

Types == {INT, STR, Point, Lock, VEC(STR), VEC(INT), CHAN(STR)}
Make(ty) == IF ty = INT THEN Lit(INT) ELSE Ops(ty, << >>)
o == "o"
Given(ty) ==
  {<<Let("c", Make(ty)), Assign(Ident(o, ty), Ident("c", ty), FALSE)>>,
   <<Let("c", Make(ty)), Let("o", Ident("c", ty))>>,
   <<Assign(Ident(o, ty), Make(ty), FALSE)>>,
   <<Do(BlockE(<<Assign(Ident(o, ty), Make(ty), FALSE)>>))>>,
   <<Do(WhileE(Cond, <<Assign(Ident(o, ty), Make(ty), FALSE)>>))>>,
   <<Let("d", Ident(o, ty)), Assign(Ident("d", ty), Make(ty), FALSE)>>}
Kept(holder, ty) ==
  {<<Let("c", Make(ty)), Do(Method(INT, Ident("h", holder), <<Ident("c", ty)>>))>>,
   <<Do(Method(INT, Part(holder, Ident("h", holder), << >>), <<Make(ty)>>))>>,
   <<Let("h", Make(holder)), Do(Method(INT, Ident("h", holder), <<Make(ty)>>))>>,
   <<Assign(Part(ty, Ident("h", holder), <<Cond>>), Make(ty), FALSE)>>,
   <<Let("k", Make(holder)), Do(Method(INT, Ident("k", holder), <<Make(ty)>>)), Assign(Ident("h", holder), Ident("k", holder), FALSE)>>,
   <<Do(SpawnE(<<Do(Method(INT, Ident("h", holder), <<Make(ty)>>))>>, <<<<"h", holder>>>>))>>,
   <<Do(SpawnE(<<Assign(Part(ty, Ident("h", holder), <<Cond>>), Make(ty), FALSE)>>, <<<<"h", holder>>>>))>>}
Exits == {<<Jump("return", << >>)>>, <<Jump("break", << >>)>>, <<Jump("continue", << >>)>>}
In(b) == {b, <<Do(IfE(<<Cond>>, <<b>>, FALSE))>>, <<Region(b)>>, <<Region(<<Do(LoopE(b))>>)>>,
          <<Do(LoopE(<<Region(b), Jump("break", << >>)>>))>>, <<Do(ForE("i", Cond, <<Region(b)>>))>>}
Regions ==
  {Prog(<<Let("o", Make(ty)), Region(b), Use(Ident("o", ty))>>) : ty \in {INT}, b \in Given(INT)}
  \union UNION {UNION {{Prog(<<Let("o", Make(ty)), Region(b), Use(Ident("o", ty))>>), Prog(<<Let("o", Make(ty)), Region(<<Region(b)>>)>>)} : b \in Given(ty)} : ty \in Types}
  \union UNION {UNION {UNION {{Prog(<<Let("h", Make(h)), Region(b), Use(Ident("h", h))>>), Prog(<<Let("h", Make(h))>> \o b)} : b \in Kept(h, ty)} :
                  h \in {VEC(ty), CHAN(ty), Point}} : ty \in {INT, STR, Point}}
  \union {Prog(<<Do(LoopE(<<Region(x)>> \o <<Jump("break", << >>)>>))>>) : x \in UNION {In(b) : b \in Exits}}

All == Moves \union Regions

-----------------------------------------------------------------------------
(* What the checker lets pass.                                             *)

\* A name is given a new value in a loop that may not go round at all.
Revived == {Prog(<<Let("s", New), Let("t", s), Do(WhileE(Cond, <<Assign(s, New, FALSE)>>)), Use(s)>>)}
\* A cell leaves a region by another name for a channel, by a call, or by an
\* expression that returns.
Escaping ==
  {Prog(<<Let("h", Make(CHAN(STR))), Region(<<Let("d", Ident("h", CHAN(STR))), Do(Method(INT, Ident("d", CHAN(STR)), <<New>>))>>)>>),
   Prog(<<Let("h", Make(VEC(STR))), Region(<<Do(CallE(INT, "put", <<Ident("h", VEC(STR)), New>>))>>)>>),
   Prog(<<Region(<<Do(IfE(<<Cond>>, <<<<Do(Leave("return", << >>))>>>>, FALSE))>>)>>)}
=============================================================================
