------------------------------ MODULE IRMeaning ------------------------------
(***************************************************************************)
(* What a module of the IR does when run: a configuration is the memory,   *)
(* the values printed, how it ended ("run" while it goes on) and the steps *)
(* it has.  The compiler never runs its IR; its meaning here is the one    *)
(* both backends give it.                                                  *)
(***************************************************************************)
EXTENDS IR

RECURSIVE RunFn(_, _, _, _)
RECURSIVE RunBlock(_, _, _, _, _, _)
RECURSIVE RunInstrs(_, _, _, _)
RECURSIVE RunInstr(_, _, _, _)
RECURSIVE Follow(_, _, _, _, _)

\* One instruction, in environment env and configuration c: <<env, c>>.
RunInstr(mod, i, env, c) ==
  LET a(n) == ValueOf(env, i.as[n])
      Gives(v) == <<Set(env, i.d, v), c>>
      Traps == <<env, [c EXCEPT !.end = "trap"]>>
  IN CASE i.k = "BinOp" -> IF BinFails(i.op, a(1), a(2)) THEN Traps ELSE Gives(BinResult(i.op, a(1), a(2)))
       [] i.k = "UnOp"  -> Gives(IF i.op = "Neg" THEN -a(1) ELSE 1 - a(1))
       [] i.k = "Assign" -> Gives(a(1))
       [] i.k = "Cast" -> Gives(CASE i.ty = "Trit" /\ i.op = "I64" -> Max({-1, Min({1, a(1)})})
                                  [] i.ty = "Bool" -> B(a(1) # 0)
                                  [] OTHER -> a(1))
       [] i.k = "Alloca" -> <<Set(env, i.d, Len(c.mem) + 1), [c EXCEPT !.mem = @ \o [n \in 1..i.n |-> 0]]>>
       [] i.k = "Store" -> <<env, IF a(1) \in DOMAIN c.mem THEN [c EXCEPT !.mem[a(1)] = a(2)] ELSE [c EXCEPT !.end = "stray"]>>
       [] i.k = "Load" -> IF a(1) \in DOMAIN c.mem THEN Gives(c.mem[a(1)]) ELSE <<env, [c EXCEPT !.end = "stray"]>>
       [] i.k = "GetPtr" -> Gives(a(1) + a(2))
       [] i.k = "BoundsCheck" -> IF a(1) \in 0..(i.n - 1) THEN <<env, c>> ELSE Traps
       [] i.k = "TritMin" -> Gives(Min({a(1), a(2)}))
       [] i.k = "TritMax" -> Gives(Max({a(1), a(2)}))
       [] i.k = "TritNeg" -> Gives(-a(1))
       [] i.k = "TritSign" -> Gives(SignOf(a(1)))
       [] i.k = "TritLane" -> Gives(LaneWise(i.op, a(1), a(2)))
       [] i.k = "PrintInt" -> <<env, [c EXCEPT !.out = Append(@, a(1))]>>
       [] i.k = "Call" /\ i.op \in DOMAIN Tags ->
            <<Set(env, i.d, Len(c.mem) + 1), [c EXCEPT !.mem = @ \o <<Tags[i.op], a(1)>>]>>
       [] i.k = "Call" /\ i.op = UnwrapGuard -> IF a(1) = 1 THEN <<env, c>> ELSE Traps
       [] i.k = "Call" ->
            LET r == RunFn(mod, i.op, [n \in DOMAIN i.as |-> a(n)], c)
            IN  <<Set(env, i.d, r.ret), [r EXCEPT !.ret = 0]>>

RunInstrs(mod, is, env, c) ==
  IF is = << >> \/ c.end # "run" THEN <<env, c>>
  ELSE LET s == RunInstr(mod, Head(is), env, c) IN RunInstrs(mod, Tail(is), s[1], s[2])

\* The phis of a block read their arms together, in the environment at the end
\* of the block they come from.
ReadPhis(block, prev, env) ==
  LET Arm(p) == IF prev \notin Range(p.from) THEN Undefined
                ELSE ValueOf(env, p.as[CHOOSE n \in DOMAIN p.from : p.from[n] = prev])
  IN  FoldLeft(LAMBDA e, p : Set(e, p.d, Arm(p)), env, SelectSeq(block.is, IsPhi))

\* A block, reached from the block labelled prev.
RunBlock(mod, f, b, prev, env, c) ==
  IF c.fuel = 0 THEN [c EXCEPT !.end = "diverges"]
  ELSE LET s == RunInstrs(mod, SelectSeq(f.bs[b].is, LAMBDA i : ~IsPhi(i)), ReadPhis(f.bs[b], prev, env), [c EXCEPT !.fuel = @ - 1])
       IN  IF s[2].end # "run" THEN s[2] ELSE Follow(mod, f, b, s[1], s[2])

Follow(mod, f, b, env, c) ==
  LET t == f.bs[b].term
      cond == IF t.as = << >> THEN 1 ELSE ValueOf(env, t.as[1])
  IN  CASE t.k = "Unreachable" \/ (t.k = "Return" /\ t.as = <<Void>> /\ f.ret # "Void") -> [c EXCEPT !.end = "fell off"]
        [] t.k = "Return" -> [c EXCEPT !.ret = IF t.as = << >> THEN 0 ELSE cond]
        [] OTHER -> RunBlock(mod, f, BlockNamed(f, t.to[Chosen(t, cond)]), f.bs[b].label, env, c)

RunFn(mod, name, args, c) ==
  LET f == mod[CHOOSE n \in DOMAIN mod : mod[n].name = name]
      env == [p \in {"param_" \o f.params[n][1] : n \in DOMAIN f.params} |->
                args[CHOOSE n \in DOMAIN f.params : "param_" \o f.params[n][1] = p]]
  IN  RunBlock(mod, f, 1, "", env, c)

\* The observable behaviour of a module: what main prints and returns, and how
\* it ends.
Meaning(mod, fuel) ==
  LET c == RunFn(mod, "main", << >>, [mem |-> << >>, out |-> << >>, end |-> "run", fuel |-> fuel, ret |-> 0])
  IN  [out |-> c.out, end |-> IF c.end = "run" THEN "normal" ELSE c.end]
=============================================================================
