-------------------------------- MODULE Ssa ---------------------------------
(***************************************************************************)
(* The structure the optimiser reads off a function (src/src/ir/ssa.rs):   *)
(* its flow graph, dominators and dominance frontiers, the splitting of    *)
(* critical edges, the allocas that may become values, and the verifier.   *)
(* Blocks are their positions; 0 is "none".                                *)
(***************************************************************************)
EXTENDS IR

Cfg(f) ==
  LET Edges(b) == SelectSeq([n \in DOMAIN f.bs[b].term.to |-> Index(f, f.bs[b].term.to[n])], LAMBDA s : s # 0)
      succs == [b \in DOMAIN f.bs |->
                  FoldLeft(LAMBDA acc, s : IF s \in Range(acc) THEN acc ELSE Append(acc, s), << >>, Edges(b))]
  IN [succs    |-> succs,
      preds    |-> [b \in DOMAIN f.bs |-> {p \in DOMAIN f.bs : b \in Range(succs[p])}],
      dangling |-> {<<b, l>> \in (DOMAIN f.bs) \X (UNION {Range(f.bs[c].term.to) : c \in DOMAIN f.bs}) :
                      l \in Range(f.bs[b].term.to) /\ Index(f, l) = 0}]

\* A set as a sequence, in an order that does not matter or is sorted next.  (The
\* library's SetToSeq searches every function into the set.)
RECURSIVE Listed(_)
Listed(S) == IF S = {} THEN << >> ELSE LET x == CHOOSE y \in S : TRUE IN <<x>> \o Listed(S \ {x})

-----------------------------------------------------------------------------
(* Dominators                                                              *)

RECURSIVE Visit(_, _, _)
RECURSIVE VisitAll(_, _, _)
Visit(succs, b, acc) == [VisitAll(succs, succs[b], [acc EXCEPT !.seen = @ \union {b}]) EXCEPT !.post = Append(@, b)]
VisitAll(succs, bs, acc) ==
  IF bs = << >> THEN acc
  ELSE VisitAll(succs, Tail(bs), IF Head(bs) \in acc.seen THEN acc ELSE Visit(succs, Head(bs), acc))

ReversePostorder(cfg) == Reverse(Visit(cfg.succs, 1, [seen |-> {}, post |-> << >>]).post)

\* The nearest common ancestor of two blocks in the tree built so far.
RECURSIVE Intersect(_, _, _, _)
\* Mutant: the higher of the two, as if one were always above the other.
IntersectHigher(idom, pos, a, b) == IF pos[a] > pos[b] THEN b ELSE a
Intersect(idom, pos, a, b) ==
  IF a = b THEN a
  ELSE IF pos[a] > pos[b] THEN Intersect(idom, pos, idom[a], b) ELSE Intersect(idom, pos, a, idom[b])

\* Rounds of the reverse postorder until nothing changes; the entry is its own
\* dominator meanwhile.
RECURSIVE Rounds(_, _, _, _)
Rounds(cfg, rpo, pos, idom) ==
  LET Step(id, b) ==
        LET done == Listed({p \in cfg.preds[b] : id[p] # 0})
        IN  IF done = << >> THEN id
            ELSE [id EXCEPT ![b] = FoldLeft(LAMBDA acc, p : Intersect(id, pos, p, acc), done[1], Tail(done))]
      next == FoldLeft(Step, idom, Tail(rpo))
  IN  IF next = idom THEN idom ELSE Rounds(cfg, rpo, pos, next)

Dominators(cfg) ==
  IF cfg.succs = << >> THEN [idom |-> << >>, rpo |-> << >>]
  ELSE LET rpo  == ReversePostorder(cfg)
           pos  == [b \in Range(rpo) |-> CHOOSE n \in DOMAIN rpo : rpo[n] = b]
           idom == Rounds(cfg, rpo, pos, [b \in DOMAIN cfg.succs |-> IF b = 1 THEN 1 ELSE 0])
       IN  [idom |-> [idom EXCEPT ![1] = 0], rpo |-> rpo]

Reachable(doms, b) == b \in Range(doms.rpo)

\* A block and the blocks that dominate it, up the tree.
RECURSIVE Chain(_, _)
Chain(doms, b) == IF b = 0 THEN {} ELSE {b} \union Chain(doms, doms.idom[b])

Dominates(doms, a, b) == Reachable(doms, a) /\ Reachable(doms, b) /\ a \in Chain(doms, b)

Frontiers(doms, cfg) ==
  [a \in DOMAIN cfg.succs |->
     {b \in Range(doms.rpo) :
        /\ Cardinality(cfg.preds[b]) >= 2
        /\ \E p \in cfg.preds[b] : Reachable(doms, p) /\ a \in Chain(doms, p) \ Chain(doms, doms.idom[b])}]

-----------------------------------------------------------------------------
(* Definitions and uses                                                    *)

Comparisons == {"IEq", "INe", "ILt", "IGt", "ILe", "IGe"}
ResultType(i) ==
  CASE i.k = "BinOp" /\ i.op \in Comparisons -> "Bool"
    [] i.k \in {"Alloca", "GetPtr"}          -> "Ptr"
    [] i.k = "TritLane"                      -> "I64"
    [] OTHER                                 -> i.ty

ValueTypes(f) ==
  LET defs == {i \in AllInstrs(f) : i.d # ""}
  IN  [p \in Params(f) |-> (CHOOSE q \in Range(f.params) : "param_" \o q[1] = p)[2]]
      @@ [t \in {i.d : i \in defs} |-> ResultType(CHOOSE i \in defs : i.d = t)]

-----------------------------------------------------------------------------
(* Critical edges                                                          *)

Retarget(t, from, to) == [t EXCEPT !.to = [n \in DOMAIN @ |-> IF @[n] = from THEN to ELSE @[n]]]
\* Mutant: the phis of the target are not told of the new block.
RenameArmsNot(is, from, to) == is
RenameArms(is, from, to) ==
  [n \in DOMAIN is |-> [is[n] EXCEPT !.from = [m \in DOMAIN @ |-> IF @[m] = from THEN to ELSE @[m]]]]

RECURSIVE FreshLabel(_, _)
FreshLabel(used, l) == IF l \in used THEN FreshLabel(used, l \o "_") ELSE l
Labels(f) == {f.bs[b].label : b \in DOMAIN f.bs}

\* Puts a block of its own on the edge from the block at position p to label s.
SplitEdge(f, p, s) ==
  LET pred == f.bs[p].label
      new  == FreshLabel(Labels(f), "edge_" \o pred \o "_" \o s)
      si   == Index(f, s)
      bs1  == [f.bs EXCEPT ![p].term = Retarget(@, s, new)]
      bs2  == [bs1 EXCEPT ![si].is = RenameArms(@, pred, new)]
  IN  [f EXCEPT !.bs = InsertAt(bs2, p + 1, Block(new, << >>, Jump(s)))]

CriticalEdges(f) ==
  LET cfg == Cfg(f)
  IN  {<<p, f.bs[s].label>> : <<p, s>> \in
         {e \in (DOMAIN f.bs) \X (DOMAIN f.bs) :
            /\ Len(cfg.succs[e[1]]) >= 2
            /\ e[2] \in Range(cfg.succs[e[1]])
            /\ Cardinality(cfg.preds[e[2]]) > 1}}

\* From the last block to the first, so that no position still to be used moves.
SplitCriticalEdges(f) ==
  IF Len(f.bs) < 2 THEN f
  ELSE FoldLeft(LAMBDA g, e : SplitEdge(g, e[1], e[2]), f,
                SortSeq(Listed(CriticalEdges(f)), LAMBDA a, b : a[1] > b[1]))

-----------------------------------------------------------------------------
(* The verifier: the set of what is wrong with a function                  *)

Verify(f) ==
  IF f.bs = << >> THEN {} ELSE
  LET cfg   == Cfg(f)
      doms  == Dominators(cfg)
      Sites == {<<b, n>> \in (DOMAIN f.bs) \X (1..MaxInstrs(f)) : n \in DOMAIN f.bs[b].is /\ f.bs[b].is[n].d # ""}
      DefAt(s) == f.bs[s[1]].is[s[2]].d
      defined  == {DefAt(s) : s \in Sites} \union Params(f)
      \* The first definition, in the order of the blocks; a parameter is
      \* defined before the first instruction of the entry.
      Home(t) == IF t \in {DefAt(s) : s \in Sites}
                 THEN CHOOSE s \in Sites : DefAt(s) = t
                        /\ \A r \in Sites : DefAt(r) = t => s[1] < r[1] \/ (s[1] = r[1] /\ s[2] <= r[2])
                 ELSE <<1, 0>>
      home  == [t \in defined |-> Home(t)]
      \* A use of t at position n of block b (n past the end: its terminator).
      BadUse(t, b, n) ==
        IF t \notin defined THEN {<<"Undefined", t, f.bs[b].label>>}
        ELSE IF IF home[t][1] = b THEN home[t][2] < n ELSE Dominates(doms, home[t][1], b) THEN {}
        ELSE {<<"NotDominated", t, f.bs[b].label>>}
      BadPhi(i, b) ==
        (IF \/ Range(i.from) # {f.bs[p].label : p \in cfg.preds[b]}
            \/ Len(i.from) # Cardinality(cfg.preds[b])
         THEN {<<"PhiEdges", i.d, f.bs[b].label>>} ELSE {})
        \union {<<"VoidPhiArm", i.d, f.bs[b].label>> : v \in {w \in Range(i.as) : w = Void}}
        \union UNION {IF u[1] \notin defined THEN {<<"Undefined", u[1], f.bs[b].label>>}
                      ELSE IF Dominates(doms, home[u[1]][1], Index(f, u[2])) THEN {}
                      ELSE {<<"NotDominated", u[1], u[2]>>}
                      : u \in {v \in PhiUses(i) : Index(f, v[2]) # 0}}
      BadInstr(b, n) ==
        UNION {BadUse(t, b, n) : t \in InstrUses(f.bs[b].is[n])}
        \union (IF IsPhi(f.bs[b].is[n]) THEN BadPhi(f.bs[b].is[n], b) ELSE {})
  IN {<<"DuplicateLabel", l, "">> : l \in {f.bs[b].label : b \in {c \in DOMAIN f.bs : Index(f, f.bs[c].label) # c}}}
     \union {<<"DanglingTarget", d[2], f.bs[d[1]].label>> : d \in cfg.dangling}
     \union {<<"MultiplyDefined", DefAt(s), "">> : s \in {r \in Sites : home[DefAt(r)] # r}}
     \union UNION {UNION {BadInstr(b, n) : n \in DOMAIN f.bs[b].is}
                   \union UNION {BadUse(t, b, Len(f.bs[b].is) + 1) : t \in TermUses(f.bs[b].term)}
                   : b \in {c \in DOMAIN f.bs : Reachable(doms, c)}}

\* As verify sees it: no temporary is defined twice.
SingleAssignment(f) ==
  LET Sites(b) == {n \in DOMAIN f.bs[b].is : f.bs[b].is[n].d # ""}
  IN  /\ \A b \in DOMAIN f.bs : \A n \in Sites(b) :
           /\ f.bs[b].is[n].d \notin Params(f)
           /\ \A c \in DOMAIN f.bs : \A m \in Sites(c) : f.bs[c].is[m].d = f.bs[b].is[n].d => b = c /\ n = m

-----------------------------------------------------------------------------
(* Allocas that hold nothing but a value                                   *)

StoreMatchesSlot(v, slot, types) ==
  CASE v[1] = "temp"   -> v[2] \in DOMAIN types /\ types[v[2]] = slot
    [] v[1] = "global" -> slot \in {"Ptr", "I64"}
    [] v[1] = "void"   -> FALSE
    [] OTHER           -> TRUE

PromotableAllocas(f) ==
  LET types == ValueTypes(f)
      all   == AllInstrs(f)
      slots == {i \in all : i.k = "Alloca" /\ i.ty \in Scalars}
      SlotOf(p) == {s \in slots : p = Temp(s.d)}
      Disqualified(i) ==
        CASE i.k = "Load"  -> {s.d : s \in {t \in SlotOf(i.as[1]) : t.ty # i.ty}}
          [] i.k = "Store" -> {s.d : s \in {t \in SlotOf(i.as[1]) : t.ty # i.ty \/ ~StoreMatchesSlot(i.as[2], t.ty, types)}}
                              \union TempsOf(<<i.as[2]>>)
          [] OTHER         -> TempsOf(i.as)
      out == UNION {Disqualified(i) : i \in all} \union UNION {TermUses(f.bs[b].term) : b \in DOMAIN f.bs}
  IN  {s \in slots : s.d \notin out}
=============================================================================
