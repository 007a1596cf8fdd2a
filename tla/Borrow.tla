-------------------------------- MODULE Borrow --------------------------------
(***************************************************************************)
(* The move checker (src/src/borrow/mod.rs), and what it is there to rule  *)
(* out: one function body is checked, and run in every way it may go.      *)
(*                                                                         *)
(* A program is [fns, aggregates, affine, body]: what each function        *)
(* consumes and does with its arguments, the structs that have fields,     *)
(* those declared affine, and the body.  Expressions carry their type, as  *)
(* the analyser leaves them; operators, casts, ranges, `?' and await are   *)
(* all "Ops", which only have operands.                                    *)
(***************************************************************************)
EXTENDS Naturals, Sequences, FiniteSets, SequencesExt

CONSTANTS Programs,   \* the programs to check
          Rounds      \* how often a loop of a run may go round

VARIABLES prog, verdict, may
vars == <<prog, verdict, may>>

Ident(x, ty)        == [k |-> "Ident", ty |-> ty, x |-> x]
Lit(ty)             == [k |-> "Lit", ty |-> ty]
Ops(ty, es)         == [k |-> "Ops", ty |-> ty, es |-> es]
CallE(ty, f, es)    == [k |-> "Call", ty |-> ty, f |-> f, es |-> es]
Method(ty, recv, es) == [k |-> "Method", ty |-> ty, recv |-> recv, es |-> es]
\* `base.f', or `base[i]' with es = <<i>>.
Part(ty, base, es)  == [k |-> "Part", ty |-> ty, base |-> base, es |-> es]
BlockE(body)        == [k |-> "Block", body |-> body]
\* An if with its elifs, or a tif; whole: one of the blocks is always taken.
IfE(conds, blocks, whole) == [k |-> "If", es |-> conds, blocks |-> blocks, whole |-> whole]
\* A match or tresult; an arm is [binds, guard, body].
MatchE(e, arms)     == [k |-> "Match", e |-> e, arms |-> arms]
ForE(x, e, body)    == [k |-> "For", x |-> x, e |-> e, body |-> body]
WhileE(e, body)     == [k |-> "While", e |-> e, body |-> body]
LoopE(body)         == [k |-> "Loop", body |-> body]
\* kind is "Array", "Tuple" or "Struct".
Literal(kind, ty, es) == [k |-> kind, ty |-> ty, es |-> es]
SpawnE(body, caught) == [k |-> "Spawn", body |-> body, caught |-> caught]
\* The expression forms of return, break and continue.
Leave(flow, es)     == [k |-> "Leave", flow |-> flow, es |-> es]

Let(x, e)           == [s |-> "Let", x |-> x, e |-> e]
Assign(to, e, op)   == [s |-> "Assign", to |-> to, e |-> e, op |-> op]
Do(e)               == [s |-> "Expr", e |-> e]
Region(body)        == [s |-> "Region", body |-> body]
Jump(flow, es)      == [s |-> "Jump", flow |-> flow, es |-> es]

-----------------------------------------------------------------------------
(* What the types say.                                                     *)

Named(ty) == ty[1] \in {"Struct", "Generic"}
IsMoveType(ty) ==
  /\ ty[1] \notin {"Int", "Trit", "Void", "Unknown", "Fn"}
  /\ ty[1] = "Struct"  => ty[2] \notin {"AtomicTrit", "Barrier", "Semaphore", "MutexGuard"}
  /\ ty[1] = "Generic" => ty[2] \notin {"Mutex", "Channel", "Task"}
IsMoveTypeIn(p, ty) == (Named(ty) /\ ty[2] \in p.affine) \/ IsMoveType(ty)
IsAggregate(ty) == ty[1] \in {"Struct", "Tuple", "Array"}
ReachesThroughAPointer(p, ty) == IsAggregate(ty) /\ (ty[1] = "Struct" => ty[2] \in p.aggregates)

\* A type whose values live in the region's allocator, or that holds such.
RECURSIVE IsRegionStorage(_)
IsRegionStorage(ty) ==
  \/ ty[1] \in {"Str", "Unknown"} \/ IsAggregate(ty)
  \/ ty[1] = "Generic" /\ (ty[3] = << >> \/ \E a \in Range(ty[3]) : IsRegionStorage(a))

-----------------------------------------------------------------------------
(* MoveEnv: the declared names by scope; the moved bindings as <<depth,    *)
(* name>>; the depth at which the innermost region begins, 0 outside one;  *)
(* and whether all is well so far.                                         *)

NewEnv == [scopes |-> <<{}>>, moved |-> {}, region |-> 0, ok |-> TRUE]
Depth(env) == Len(env.scopes)
Fail(env)  == [env EXCEPT !.ok = FALSE]
Require(env, fact) == IF fact THEN env ELSE Fail(env)

PushScope(env) == [env EXCEPT !.scopes = Append(@, {})]
PopScope(env) == [env EXCEPT !.scopes = Front(@), !.moved = {m \in @ : m[1] # Depth(env)}]
Declare(env, x) == [env EXCEPT !.scopes[Depth(env)] = @ \union {x}, !.moved = @ \ {<<Depth(env), x>>}]
DeclareAll(env, xs) == [env EXCEPT !.scopes[Depth(env)] = @ \union xs, !.moved = @ \ ({Depth(env)} \X xs)]
DepthOf(env, x) ==
  LET ds == {d \in DOMAIN env.scopes : x \in env.scopes[d]}
  IN  IF ds = {} THEN 1 ELSE CHOOSE d \in ds : \A c \in ds : c <= d
IsMoved(env, x) == <<DepthOf(env, x), x>> \in env.moved
MarkMoved(env, x)  == [env EXCEPT !.moved = @ \union {<<DepthOf(env, x), x>>}]
ClearMoved(env, x) == [env EXCEPT !.moved = @ \ {<<DepthOf(env, x), x>>}]

\* Mutant of ConsumeIfMove: a loop is walked as if it went round once.
ConsumeIfMoveOnce(p, e, env, loop) ==
  IF ~env.ok \/ e.k # "Ident" \/ ~IsMoveTypeIn(p, e.ty) THEN env
  ELSE IF IsMoved(env, e.x) THEN Fail(env)
  ELSE MarkMoved(env, e.x)
\* loop is the depth at which the innermost loop's body begins, 0 outside one.
ConsumeIfMove(p, e, env, loop) ==
  IF ~env.ok \/ e.k # "Ident" \/ ~IsMoveTypeIn(p, e.ty) THEN env
  ELSE IF DepthOf(env, e.x) < loop \/ IsMoved(env, e.x) THEN Fail(env)
  ELSE MarkMoved(env, e.x)

RECURSIVE RootBinding(_)
RootBinding(e) == CASE e.k = "Ident" -> {e.x} [] e.k = "Part" -> RootBinding(e.base) [] OTHER -> {}

\* Mutant of RegionEscapes: only what the outermost scope declared outlives it.
RegionEscapesOuter(env, holder, value) ==
  env.region # 0 /\ DepthOf(env, holder) = 1 /\ IsRegionStorage(value.ty)
\* What outlives the region may not be given what lives in it.
RegionEscapes(env, holder, value) ==
  env.region # 0 /\ DepthOf(env, holder) < env.region /\ IsRegionStorage(value.ty)
HoldersMayTake(env, holders, es) == \A x \in holders, e \in Range(es) : ~RegionEscapes(env, x, e)

Consumes(p, f, n) == f \in DOMAIN p.fns /\ n \in DOMAIN p.fns[f].takes /\ p.fns[f].takes[n]

-----------------------------------------------------------------------------
(* The walk.                                                               *)

RECURSIVE CheckExpr(_, _, _, _)
RECURSIVE CheckAll(_, _, _, _)
RECURSIVE CheckElements(_, _, _, _, _)
RECURSIVE CheckArgs(_, _, _, _, _)
RECURSIVE CheckStmts(_, _, _, _)
RECURSIVE CheckBlocks(_, _, _, _, _)

CheckBlock(p, body, env, loop) == PopScope(CheckStmts(p, body, PushScope(env), loop))

\* Expressions one after another.
CheckAll(p, es, env, loop) ==
  IF es = << >> \/ ~env.ok THEN env ELSE CheckAll(p, Tail(es), CheckExpr(p, Head(es), env, loop), loop)

\* The elements of a literal, each consumed unless it is a list of arguments.
CheckElements(p, es, env, loop, consumed) ==
  IF es = << >> \/ ~env.ok THEN env
  ELSE LET read == CheckExpr(p, Head(es), env, loop)
       IN  CheckElements(p, Tail(es), IF consumed THEN ConsumeIfMove(p, Head(es), read, loop) ELSE read, loop, consumed)

\* The arguments of f from the n-th; an array literal here is a list of them.
CheckArgs(p, f, n, es, env_loop) ==
  LET env  == env_loop[1]
      loop == env_loop[2]
      read == IF es[n].k = "Array" THEN CheckElements(p, es[n].es, env, loop, FALSE) ELSE CheckExpr(p, es[n], env, loop)
  IN  IF n > Len(es) \/ ~env.ok THEN env
      ELSE CheckArgs(p, f, n + 1, es, <<IF Consumes(p, f, n) THEN ConsumeIfMove(p, es[n], read, loop) ELSE read, loop>>)

\* One arm, its bindings in a scope of their own.
CheckArm(p, a, env, loop) ==
  IF a.binds = {} THEN CheckBlock(p, a.body, CheckAll(p, a.guard, env, loop), loop)
  ELSE PopScope(CheckBlock(p, a.body, CheckAll(p, a.guard, DeclareAll(PushScope(env), a.binds), loop), loop))

\* Every arm from the same moved set; what any of them moved is moved.
\* Mutant of CheckBlocks: an arm sees what the one before it moved.
CheckBlocksChained(p, arms, env, moved, loop) ==
  IF arms = << >> \/ ~env.ok THEN env
  ELSE CheckBlocks(p, Tail(arms), CheckArm(p, Head(arms), env, loop), moved, loop)
CheckBlocks(p, arms, env, moved, loop) ==
  IF arms = << >> \/ ~env.ok THEN [env EXCEPT !.moved = @ \union moved]
  ELSE LET after == CheckArm(p, Head(arms), env, loop)
       IN  CheckBlocks(p, Tail(arms), [after EXCEPT !.moved = env.moved], moved \union after.moved, loop)

\* A for's variable is inside the loop; its condition is not.
CheckLoop(p, e, env, loop) ==
  LET inner == Declare(PushScope(CheckExpr(p, e.e, env, loop)), e.x)
  IN  CASE e.k = "For"   -> PopScope(CheckBlock(p, e.body, inner, Depth(inner)))
        [] e.k = "While" -> CheckBlock(p, e.body, CheckExpr(p, e.e, env, loop), Depth(env) + 1)
        [] e.k = "Loop"  -> CheckBlock(p, e.body, env, Depth(env) + 1)

\* A task gets copies: it may catch neither what is reached through a pointer
\* nor what may exist once only, and what it moves is its own.
CheckSpawn(p, e, env, loop) ==
  IF \E c \in Range(e.caught) : ReachesThroughAPointer(p, c[2]) \/ (Named(c[2]) /\ c[2][2] \in p.affine)
  THEN Fail(env)
  ELSE [CheckBlock(p, e.body, env, loop) EXCEPT !.moved = env.moved]

CheckExpr(p, e, env, loop) ==
  CASE e.k = "Ident"   -> Require(env, ~IsMoved(env, e.x))
    [] e.k = "Lit"     -> env
    [] e.k \in {"Ops", "Leave"} -> CheckAll(p, e.es, env, loop)
    [] e.k = "Part"    -> CheckAll(p, <<e.base>> \o e.es, env, loop)
    [] e.k = "Call"    -> CheckArgs(p, e.f, 1, e.es, <<env, loop>>)
    [] e.k = "Method"  ->
         LET got == CheckExpr(p, e.recv, env, loop)
         IN  IF got.ok /\ HoldersMayTake(got, RootBinding(e.recv), e.es)
             THEN CheckArgs(p, "", 1, e.es, <<got, loop>>) ELSE Fail(got)
    [] e.k = "Block"   -> CheckBlock(p, e.body, env, loop)
    [] e.k = "If"      -> CheckBlocks(p, [n \in DOMAIN e.blocks |-> [binds |-> {}, guard |-> << >>, body |-> e.blocks[n]]],
                                      CheckAll(p, e.es, env, loop), {}, loop)
    [] e.k = "Match"   -> CheckBlocks(p, e.arms, CheckExpr(p, e.e, env, loop), {}, loop)
    [] e.k \in {"For", "While", "Loop"} -> CheckLoop(p, e, env, loop)
    [] e.k \in {"Array", "Tuple", "Struct"} -> CheckElements(p, e.es, env, loop, TRUE)
    [] e.k = "Spawn"   -> CheckSpawn(p, e, env, loop)

\* A name is rebound without being read, unless it is a compound assignment.
CheckTarget(p, s, env, loop) ==
  IF ~env.ok THEN env
  ELSE IF ~HoldersMayTake(env, RootBinding(s.to), <<s.e>>) THEN Fail(env)
  ELSE IF s.to.k # "Ident" THEN CheckExpr(p, s.to, env, loop)
  ELSE ClearMoved(Require(env, s.op => ~IsMoved(env, s.to.x)), s.to.x)

CheckStmt(p, s, env, loop) ==
  CASE s.s = "Let"    -> Declare(ConsumeIfMove(p, s.e, CheckExpr(p, s.e, env, loop), loop), s.x)
    [] s.s = "Assign" -> CheckTarget(p, s, ConsumeIfMove(p, s.e, CheckExpr(p, s.e, env, loop), loop), loop)
    [] s.s = "Expr"   -> CheckExpr(p, s.e, env, loop)
    [] s.s = "Region" -> [CheckBlock(p, s.body, [env EXCEPT !.region = Depth(env) + 1], loop) EXCEPT !.region = env.region]
    [] s.s = "Jump" /\ s.flow = "return" -> IF env.region # 0 THEN Fail(env) ELSE CheckAll(p, s.es, env, loop)
    [] s.s = "Jump" /\ s.flow # "return" -> Require(env, env.region # 0 => loop >= env.region)

CheckStmts(p, body, env, loop) ==
  IF body = << >> \/ ~env.ok THEN env ELSE CheckStmts(p, Tail(body), CheckStmt(p, Head(body), env, loop), loop)

Accepts(p) == CheckBlock(p, p.body, NewEnv, 0).ok

-----------------------------------------------------------------------------
(* Running a body (docs/language-reference.md, sections 22 and 23).  A     *)
(* configuration has the bindings by scope, each [v, gone]; the cells      *)
(* allocated so far, each with what it holds, whether it is a handle and   *)
(* so outside every region, and whether it has been released; the values   *)
(* just computed, each 0 or a cell; how control flows; and what has gone wrong.  Which  *)
(* way a branch or a loop goes is open, so a step has a set of outcomes.   *)

Start == [env |-> <<[x \in {} |-> 0]>>, cells |-> << >>, v |-> <<0>>, flow |-> "normal", bad |-> {}]
Blame(c, what) == [c EXCEPT !.bad = @ \union {what}]
Open(c)  == [c EXCEPT !.env = Append(@, [x \in {} |-> 0])]
Close(c) == [c EXCEPT !.env = SubSeq(@, 1, Len(@) - 1)]
Bind(c, x, v) ==
  [c EXCEPT !.env[Len(c.env)] = [y \in DOMAIN @ \union {x} |-> IF y = x THEN [v |-> v, gone |-> FALSE] ELSE @[y]]]
BindAll(c, xs, v) ==
  [c EXCEPT !.env[Len(c.env)] = [y \in DOMAIN @ \union xs |-> IF y \in xs THEN [v |-> v, gone |-> FALSE] ELSE @[y]]]

Holding(c, x) == {n \in DOMAIN c.env : x \in DOMAIN c.env[n]}
Innermost(c, x) == CHOOSE n \in Holding(c, x) : \A m \in Holding(c, x) : m <= n
ReadName(c, x) ==
  IF Holding(c, x) = {} THEN [c EXCEPT !.v = <<0>>]
  ELSE LET b == c.env[Innermost(c, x)][x]
       IN  [c EXCEPT !.v = <<b.v>>, !.bad = IF b.gone THEN @ \union {"moved"} ELSE @]
SetName(c, x, b) == IF Holding(c, x) = {} THEN c ELSE [c EXCEPT !.env[Innermost(c, x)][x] = b]

\* What a binding of move type loses when its value is given away.
GiveAway(p, e, c) ==
  IF e.k = "Ident" /\ IsMoveTypeIn(p, e.ty) /\ Holding(c, e.x) # {}
  THEN [c EXCEPT !.env[Innermost(c, e.x)][e.x].gone = TRUE] ELSE c

\* Handles live in tables of the runtimes, other values in the heap.
IsCell(ty)   == ty[1] \in {"Str", "Struct", "Generic", "Tuple", "Array"}
IsHandle(p, ty) == ty[1] = "Generic" \/ (ty[1] = "Struct" /\ ty[2] \notin p.aggregates)
Fresh(p, c, ty, parts) ==
  IF ~IsCell(ty) THEN [c EXCEPT !.v = <<0>>]
  ELSE [c EXCEPT !.cells = Append(@, [parts |-> parts \ {0}, handle |-> IsHandle(p, ty), dead |-> FALSE]),
                 !.v = <<Len(c.cells) + 1>>]
PutIn(c, holder, vs) == IF holder = 0 THEN c ELSE [c EXCEPT !.cells[holder].parts = @ \union (vs \ {0})]

\* The cells reached from a set of them, and those the bindings reach.
RECURSIVE Reach(_, _)
Reach(c, ns) ==
  LET more == ns \union UNION {c.cells[n].parts : n \in ns} IN IF more = ns THEN ns ELSE Reach(c, more)
Held(c) == Reach(c, UNION {{c.env[n][x].v : x \in DOMAIN c.env[n]} : n \in DOMAIN c.env} \ {0})

\* The end of a region: what was allocated above the mark is released.
Release(c, mark) ==
  LET d == [c EXCEPT !.cells = [n \in DOMAIN @ |-> IF n > mark /\ ~@[n].handle THEN [@[n] EXCEPT !.dead = TRUE] ELSE @[n]]]
  IN  IF \E n \in Held(d) : d.cells[n].dead THEN Blame(d, "held") ELSE d

\* A task works on its own copy of the bindings; what it writes into a cell
\* that is no handle is seen outside it.
Written(before, after) ==
  \E n \in DOMAIN before.cells : ~before.cells[n].handle /\ before.cells[n].parts # after.cells[n].parts
EndTask(before, after) ==
  LET back == [after EXCEPT !.env = before.env, !.flow = "normal", !.v = <<0>>]
  IN  IF Written(before, after) THEN Blame(back, "shared") ELSE back

\* What function f does with the values vs of its arguments.
Effect(p, f, ty, vs, c) ==
  LET does == IF f \in DOMAIN p.fns THEN p.fns[f].does ELSE "reads"
      made == Fresh(p, c, ty, {})
  IN  CASE does = "reads"  -> made
        [] does = "gives"  -> [c EXCEPT !.v = <<vs[1]>>]
        [] does = "stores" -> [PutIn(c, vs[1], {vs[2]}) EXCEPT !.v = <<0>>]

RECURSIVE Run(_, _, _)
RECURSIVE RunAll(_, _, _, _)
RECURSIVE RunStmts(_, _, _)
RECURSIVE Turns(_, _, _, _)

\* The configurations a set of them goes on to, those that left it as they are.
Normal(cs) == {c \in cs : c.flow = "normal"}
Others(cs) == {c \in cs : c.flow # "normal"}

RunBlock(p, body, c) == {Close(d) : d \in RunStmts(p, body, Open(c))}

\* Expressions in turn; v becomes the sequence of their values.  Each is given
\* away if gives says so of its place.
RunAll(p, es, gives, c) ==
  IF es = << >> THEN {c}
  ELSE LET cs == Run(p, Head(es), c)
           Took(d) == [IF Head(gives) THEN GiveAway(p, Head(es), d) ELSE d EXCEPT !.v = c.v \o d.v]
       IN  Others(cs) \union UNION {RunAll(p, Tail(es), Tail(gives), Took(d)) : d \in Normal(cs)}
Values(p, es, gives, c) == RunAll(p, es, gives, [c EXCEPT !.v = << >>])
None(es) == [n \in DOMAIN es |-> FALSE]

\* A list of arguments is not a container: its elements are read where it is.
Flat(e) == IF e.k = "Array" THEN Ops(<<"Array">>, e.es) ELSE e

RunArm(p, a, v, c) ==
  LET opened == BindAll(Open(c), a.binds, v)
  IN  {Close(d) : d \in Others(Values(p, a.guard, None(a.guard), opened))
                        \union UNION {RunBlock(p, a.body, g) : g \in Normal(Values(p, a.guard, None(a.guard), opened))}}

\* The turns a loop still takes, left of them; x is the loop's variable.
Turns(p, e, left, c) ==
  LET asked == IF e.k = "While" THEN Run(p, e.e, c) ELSE {c}
      Body(d) == IF e.k = "For" THEN {Close(b) : b \in RunBlock(p, e.body, Bind(Open(d), e.x, 0))} ELSE RunBlock(p, e.body, d)
      ran == UNION {Body(d) : d \in Normal(asked)}
      back == {[d EXCEPT !.flow = "normal"] : d \in {b \in ran : b.flow \in {"normal", "continue"}}}
  IN  Others(asked)
        \union (IF e.k = "Loop" THEN {} ELSE Normal(asked))
        \union {[d EXCEPT !.flow = "normal"] : d \in {b \in ran : b.flow = "break"}}
        \union {d \in ran : d.flow \in {"return", "stuck"}}
        \union (IF left = 1 THEN {[d EXCEPT !.flow = "stuck"] : d \in back} ELSE UNION {Turns(p, e, left - 1, d) : d \in back})

Run(p, e, c) ==
  CASE e.k = "Ident"  -> {ReadName(c, e.x)}
    [] e.k = "Lit"    -> {Fresh(p, c, e.ty, {})}
    [] e.k = "Ops"    -> {IF d.flow = "normal" THEN Fresh(p, d, e.ty, {}) ELSE d : d \in Values(p, e.es, None(e.es), c)}
    [] e.k = "Leave"  -> {IF d.flow = "normal" THEN [d EXCEPT !.flow = e.flow] ELSE d : d \in Values(p, e.es, None(e.es), c)}
    [] e.k = "Part"   ->
         LET cs == Values(p, <<e.base>> \o e.es, None(<<e.base>> \o e.es), c)
             Inside(d) == IF d.v[1] = 0 \/ d.cells[d.v[1]].parts = {} THEN {0} ELSE d.cells[d.v[1]].parts
         IN  Others(cs) \union UNION {{[d EXCEPT !.v = <<part>>] : part \in Inside(d)} : d \in Normal(cs)}
    [] e.k = "Call"   ->
         LET cs == Values(p, [n \in DOMAIN e.es |-> Flat(e.es[n])], [n \in DOMAIN e.es |-> Consumes(p, e.f, n)], c)
         IN  Others(cs) \union {Effect(p, e.f, e.ty, d.v, d) : d \in Normal(cs)}
    [] e.k = "Method" ->
         LET cs == Values(p, <<e.recv>> \o [n \in DOMAIN e.es |-> Flat(e.es[n])], None(<<e.recv>> \o e.es), c)
         IN  Others(cs) \union {[PutIn(d, d.v[1], Range(Tail(d.v))) EXCEPT !.v = <<0>>] : d \in Normal(cs)}
    [] e.k = "Block"  -> RunBlock(p, e.body, c)
    [] e.k = "If"     ->
         LET cs == Values(p, e.es, None(e.es), c)
         IN  Others(cs) \union UNION {UNION {RunBlock(p, b, d) : b \in Range(e.blocks)}
                                        \union (IF e.whole THEN {} ELSE {[d EXCEPT !.v = <<0>>]}) : d \in Normal(cs)}
    [] e.k = "Match"  ->
         LET cs == Run(p, e.e, c)
         IN  Others(cs) \union UNION {UNION {RunArm(p, a, d.v[1], d) : a \in Range(e.arms)} : d \in Normal(cs)}
    [] e.k = "For"    -> LET cs == Run(p, e.e, c) IN Others(cs) \union UNION {Turns(p, e, Rounds, d) : d \in Normal(cs)}
    [] e.k \in {"While", "Loop"} -> Turns(p, e, Rounds, c)
    [] e.k \in {"Array", "Tuple", "Struct"} ->
         LET cs == Values(p, e.es, [n \in DOMAIN e.es |-> TRUE], c)
         IN  Others(cs) \union {Fresh(p, d, e.ty, Range(d.v)) : d \in Normal(cs)}
    [] e.k = "Spawn"  -> {EndTask(c, d) : d \in RunBlock(p, e.body, c)}

RunStmt(p, s, c) ==
  CASE s.s = "Expr" -> Run(p, s.e, c)
    [] s.s = "Jump" -> {IF d.flow = "normal" THEN [d EXCEPT !.flow = s.flow] ELSE d : d \in Values(p, s.es, None(s.es), c)}
    [] s.s = "Let"  ->
         LET cs == Run(p, s.e, c) IN Others(cs) \union {Bind(GiveAway(p, s.e, d), s.x, d.v[1]) : d \in Normal(cs)}
    [] s.s = "Assign" /\ s.to.k = "Ident" ->
         LET cs == Run(p, s.e, c)
             Read(d) == IF s.op THEN [ReadName(d, s.to.x) EXCEPT !.v = d.v] ELSE d
         IN  Others(cs) \union {SetName(Read(GiveAway(p, s.e, d)), s.to.x, [v |-> d.v[1], gone |-> FALSE]) : d \in Normal(cs)}
    [] s.s = "Assign" /\ s.to.k # "Ident" ->
         LET cs == Run(p, s.e, c)
             Into(d) == {PutIn(t, t.v[1], {d.v[1]}) : t \in Run(p, s.to.base, GiveAway(p, s.e, d))}
         IN  Others(cs) \union UNION {Into(d) : d \in Normal(cs)}
    [] s.s = "Region" ->
         {IF d.flow = "normal" THEN Release(d, Len(c.cells))
          ELSE IF d.flow = "stuck" THEN d ELSE Blame(d, "left") : d \in RunBlock(p, s.body, c)}

RunStmts(p, body, c) ==
  IF body = << >> \/ c.flow # "normal" THEN {c}
  ELSE UNION {RunStmts(p, Tail(body), d) : d \in RunStmt(p, Head(body), c)}

\* What may go wrong in a run of the program.
MayGoWrong(p) == UNION {c.bad : c \in RunBlock(p, p.body, Start)}

-----------------------------------------------------------------------------
Init == prog \in Programs /\ verdict = "unchecked" /\ may = MayGoWrong(prog)
CheckBorrows == /\ verdict = "unchecked"
                /\ verdict' = IF Accepts(prog) THEN "accepted" ELSE "refused"
                /\ UNCHANGED <<prog, may>>
Next == CheckBorrows
Spec == Init /\ [][Next]_vars

\* The file's own promise: in an accepted program no run reads a binding after
\* its value was moved out of it, whatever branches it took, however often its
\* loops went round, and whatever names were hidden or seen again.
MovedNeverRead == verdict = "accepted" => "moved" \notin may

\* The region rules and the capture rule: no run of an accepted program leaves
\* a region without releasing it, can reach a released cell when one ends, or
\* sees what a task did to its own copy of a value.
NothingEscapes == verdict = "accepted" => may \cap {"left", "held", "shared"} = {}

\* Without a loop, a region or a branch that gives a name a new value the
\* checker does not cry wolf: what it refuses, some run would have done.
RECURSIVE Straight(_, _)
Straight(body, within) ==
  \A n \in DOMAIN body :
    LET s == body[n] IN
    /\ s.s \in {"Let", "Assign", "Expr"}
    /\ s.s = "Assign" => ~within
    /\ s.e.k \notin {"For", "While", "Loop", "Spawn"}
    /\ s.e.k = "Block" => Straight(s.e.body, within)
    /\ s.e.k = "If"    => \A b \in Range(s.e.blocks) : Straight(b, TRUE)
    /\ s.e.k = "Match" => \A a \in Range(s.e.arms) : Straight(a.body, TRUE)
NoFalseAlarm == (verdict = "refused" /\ Straight(prog.body, FALSE)) => "moved" \in may
=============================================================================
