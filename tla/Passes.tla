------------------------------- MODULE Passes -------------------------------
(***************************************************************************)
(* Merging straight-line blocks (src/src/ir/merge_blocks.rs), hoisting     *)
(* constants out of loops (src/src/ir/hoist_const.rs), and the order in    *)
(* which the compiler runs its passes (run_passes_with of optimize.rs).    *)
(***************************************************************************)
EXTENDS Inline

CONSTANT LoopLimit   \* the most constants hoisted out of one loop (16 in the source)

-----------------------------------------------------------------------------
(* Merging blocks                                                          *)

\* How many edges lead to block b, a branch that names it twice counting twice.
EdgesTo(f, b) ==
  FoldLeft(LAMBDA acc, x : acc + Len(SelectSeq(x.term.to, LAMBDA l : l = f.bs[b].label)), 0, f.bs)

\* Block a only jumps to block l, and nothing else leads there.
MergePairs(f) ==
  {p \in (DOMAIN f.bs) \X (2..Len(f.bs)) :
     LET a == f.bs[p[1]]
         l == f.bs[p[2]]
     IN  /\ a.term = Jump(l.label) /\ p[1] # p[2]
         /\ EdgesTo(f, p[2]) = 1
         /\ \A i \in Range(l.is) : IsPhi(i) => i.from = <<a.label>>}

Merge(f, p) ==
  LET a == f.bs[p[1]]
      l == f.bs[p[2]]
      Copy(i) == IF IsPhi(i) THEN Assign(i.d, i.as[1], i.ty) ELSE i
      joined == Block(a.label, a.is \o [n \in DOMAIN l.is |-> Copy(l.is[n])], l.term)
      bs == RemoveAt(ReplaceAt(f.bs, p[1], joined), p[2])
  IN  [f EXCEPT !.bs = [b \in DOMAIN bs |-> [bs[b] EXCEPT !.is = RenameArms(@, l.label, a.label)]]]

RECURSIVE MergeBlocks(_)
MergeBlocks(f) ==
  LET pairs == MergePairs(f)
  IN  IF pairs = {} THEN f ELSE MergeBlocks(Merge(f, CHOOSE p \in pairs : \A q \in pairs : p[1] <= q[1]))

-----------------------------------------------------------------------------
(* Hoisting constants                                                      *)

RECURSIVE Above(_, _)
Above(cfg, bs) ==   \* the blocks of a loop, from its header and tails up
  LET more == bs.body \union UNION {cfg.preds[b] : b \in bs.body \ {bs.header}}
  IN  IF more = bs.body THEN more ELSE Above(cfg, [bs EXCEPT !.body = more])

Hoistable(v) == IsInt(v) /\ AbsOf(v[2]) > ImmMax

\* The constants of one loop become temporaries of the block before it.
HoistLoop(f, cfg, header, tails, k) ==
  LET body    == Above(cfg, [header |-> header, body |-> {header} \union tails])
      outside == cfg.preds[header] \ body
      pre     == CHOOSE p \in outside : TRUE
      Ops(b)  == FoldLeft(LAMBDA acc, i : IF IsPhi(i) THEN acc ELSE acc \o i.as, << >>, f.bs[b].is)
      uses    == SelectSeq(FoldLeftDomain(LAMBDA acc, b : IF b \in body THEN acc \o Ops(b) ELSE acc, << >>, f.bs), Hoistable)
      Count(v) == Len(SelectSeq(uses, LAMBDA u : u = v))
      \* The most used first.
      ranked  == SortSeq(Listed(Range(uses)), LAMBDA u, v : Count(u) > Count(v) \/ (Count(u) = Count(v) /\ u[2] < v[2]))
      keys    == SubSeq(ranked, 1, Min({LoopLimit, Len(ranked)}))
      Name(v) == "hc" \o ToString(k + CHOOSE n \in DOMAIN keys : keys[n] = v)
      Into(i) == IF IsPhi(i) THEN i
                 ELSE [i EXCEPT !.as = [n \in DOMAIN @ |-> IF @[n] \in Range(keys) THEN Temp(Name(@[n])) ELSE @[n]]]
      Replaced(b) == IF b \in body THEN [f.bs[b] EXCEPT !.is = [n \in DOMAIN @ |-> Into(@[n])]] ELSE f.bs[b]
      bs == [b \in DOMAIN f.bs |-> Replaced(b)]
  IN  IF \/ Cardinality(outside) # 1 \/ f.bs[pre].term.k # "Jump"
         \/ \E b \in body : \E i \in Range(f.bs[b].is) : i.k = "Call"
      THEN [f |-> f, k |-> k]
      ELSE [f |-> [f EXCEPT !.bs = [bs EXCEPT ![pre].is =
                     @ \o [n \in DOMAIN keys |-> Assign(Name(keys[n]), keys[n], "I64")]]],
            k |-> k + Len(keys)]

HoistConstants(f) ==
  LET cfg  == Cfg(f)
      doms == Dominators(cfg)
      Tails(h) == {b \in DOMAIN f.bs : h \in Range(cfg.succs[b]) /\ (h = b \/ Dominates(doms, h, b))}
      headers == SelectSeq(doms.rpo, LAMBDA h : Tails(h) # {})
  IN  IF Len(f.bs) < 2 THEN f
      ELSE FoldLeft(LAMBDA a, h : HoistLoop(a.f, cfg, h, Tails(h), a.k), [f |-> f, k |-> 0], headers).f

-----------------------------------------------------------------------------
(* The passes, in their order                                              *)

PassOrder == <<"dead_block_eliminate", "split_critical_edges", "mem2reg", "inline", "merge_blocks",
               "constant_fold", "constant_propagate", "ternary_peephole", "common_subexpression_eliminate",
               "strength_reduce", "dead_code_eliminate", "dead_block_eliminate_again", "hoist_const">>

RunOnFn(p, f) ==
  CASE p \in {"dead_block_eliminate", "dead_block_eliminate_again"} -> DeadBlockEliminate(f)
    [] p = "split_critical_edges" -> SplitCriticalEdges(f)
    [] p = "mem2reg"              -> Promote(f)
    [] p = "merge_blocks"         -> MergeBlocks(f)
    [] p = "constant_fold"        -> ConstantFold(f)
    [] p = "constant_propagate"   -> ConstantPropagate(f)
    [] p = "ternary_peephole"     -> TernaryPeephole(f)
    [] p = "common_subexpression_eliminate" -> CommonSubexpressionEliminate(f)
    [] p = "strength_reduce"      -> StrengthReduce(f)
    [] p = "dead_code_eliminate"  -> DeadCodeEliminate(f)
    [] p = "hoist_const"          -> HoistConstants(f)

\* Inlining is over the module; every other pass takes its functions one by one.
RunPass(p, m, std) ==
  IF p = "inline" THEN InlineModule(m, std)
  ELSE [n \in DOMAIN m |-> IF m[n].bs = << >> THEN m[n] ELSE RunOnFn(p, m[n])]
=============================================================================
