------------------------------ MODULE Optimize ------------------------------
(***************************************************************************)
(* The per-function passes (src/src/ir/optimize.rs), each a function from  *)
(* functions to functions, in the order run_passes_with runs them.         *)
(***************************************************************************)
EXTENDS Mem2Reg

MapInstrs(f, Op(_)) ==
  [f EXCEPT !.bs = [b \in DOMAIN f.bs |-> [f.bs[b] EXCEPT !.is = [n \in DOMAIN @ |-> Op(@[n])]]]]
MapTerms(f, Op(_)) == [f EXCEPT !.bs = [b \in DOMAIN f.bs |-> [f.bs[b] EXCEPT !.term = Op(@)]]]
KeepInstrs(f, Keep(_)) ==
  [f EXCEPT !.bs = [b \in DOMAIN f.bs |-> [f.bs[b] EXCEPT !.is = SelectSeq(@, Keep)]]]

IsInt(v)  == v[1] = "int"
IsBool(v) == v[1] = "bool"
IsTrit(v) == v[1] = "trit"

-----------------------------------------------------------------------------
(* Constants                                                               *)

\* The constant a binary operation on constants folds to; << >> when it must
\* stay for the backend to run, because it traps or does not fold.
FoldBinop(op, a, b) ==
  CASE IsInt(a) /\ IsInt(b) /\ op \in {"AddT27", "SubT27", "MulT27", "Div", "Rem", "DivNear", "RemNear"} ->
         IF BinFails(op, a[2], b[2]) THEN << >> ELSE IntC(BinResult(op, a[2], b[2]))
    [] IsInt(a) /\ IsInt(b) /\ op \in {"Add", "Sub", "Mul"} -> IntC(I64Wrap(BinResult(op, a[2], b[2])))
    [] IsInt(a) /\ IsInt(b) /\ op \in Comparisons -> BoolC(BinResult(op, a[2], b[2]))
    [] IsBool(a) /\ IsBool(b) /\ op \in {"And", "Or", "Xor", "IEq", "INe"} -> BoolC(BinResult(op, a[2], b[2]))
    [] OTHER -> << >>

FoldInstruction(i) ==
  LET a == i.as[1]
      folded ==
        CASE i.k = "BinOp" -> FoldBinop(i.op, a, i.as[2])
          [] i.k = "UnOp" /\ i.op = "Neg" /\ IsInt(a)  -> IntC(I64Wrap(-a[2]))
          [] i.k = "UnOp" /\ i.op = "Not" /\ IsBool(a) -> BoolC(1 - a[2])
          [] i.k = "TritMin" /\ IsTrit(a) /\ IsTrit(i.as[2]) -> TritC(Min({a[2], i.as[2][2]}))
          [] i.k = "TritMax" /\ IsTrit(a) /\ IsTrit(i.as[2]) -> TritC(Max({a[2], i.as[2][2]}))
          [] i.k = "TritNeg" /\ IsTrit(a) -> TritC(-a[2])
          [] OTHER -> << >>
  IN IF folded = << >> THEN i ELSE Assign(i.d, folded, i.ty)

ConstantFold(f) == MapInstrs(f, FoldInstruction)

\* The arms of a phi are left alone: only a copy on the edge may replace them.
ConstantPropagate(f) ==
  LET known == {i \in AllInstrs(f) : i.k = "Assign" /\ IsConst(i.as[1])}
      map   == [t \in {i.d : i \in known} |-> (CHOOSE i \in known : i.d = t).as[1]]
      Into(i) == SubstituteInInstr(i, map)
      IntoTerm(t) == SubstituteInTerm(t, map)
  IN  IF known = {} THEN f ELSE ConstantFold(MapTerms(MapInstrs(f, Into), IntoTerm))

-----------------------------------------------------------------------------
(* Dead code and dead blocks                                               *)

SideEffecting(i) == i.k \in {"Store", "Call", "PrintInt"}

\* What an instruction defines, as this file sees it: a call defines nothing.
DstName(i) == IF i.k = "Call" THEN "" ELSE i.d

UsedTemps(f) == UNION {TempsOf(i.as) : i \in AllInstrs(f)} \union UNION {TermUses(f.bs[b].term) : b \in DOMAIN f.bs}

RECURSIVE DeadCodeEliminate(_)
DeadCodeEliminate(f) ==
  LET used == UsedTemps(f)
      Kept(i) == SideEffecting(i) \/ DstName(i) = "" \/ i.d \in used
      g == KeepInstrs(f, Kept)
  IN  IF g = f THEN f ELSE DeadCodeEliminate(g)

\* Live: reached from the entry, or named by the arm of a live block's phi.
RECURSIVE LiveFrom(_, _)
LiveFrom(f, ls) ==
  LET live == {f.bs[b] : b \in {c \in DOMAIN f.bs : f.bs[c].label \in ls}}
      next == ls \union UNION {Range(b.term.to) \union UNION {Range(i.from) : i \in Range(b.is)} : b \in live}
  IN  IF next = ls THEN ls ELSE LiveFrom(f, next)

DeadBlockEliminate(f) ==
  IF Len(f.bs) <= 1 THEN f
  ELSE LET live == LiveFrom(f, {f.bs[1].label})
       IN  [f EXCEPT !.bs = SelectSeq(@, LAMBDA b : b.label \in live)]

-----------------------------------------------------------------------------
(* Ternary rewrites                                                        *)

TritIdentities(f) ==
  LET negs == {i \in AllInstrs(f) : i.k = "TritNeg" /\ IsTemp(i.as[1])}
      Double(v) == {i \in negs : v = Temp(i.d)}
      Rewrite(i) ==
        LET a == i.as[1]
            b == i.as[Len(i.as)]
            As(v) == Assign(i.d, v, "Trit")
            unit == IF i.k = "TritMin" THEN TritC(1) ELSE TritC(-1)
            zero == IF i.k = "TritMin" THEN TritC(-1) ELSE TritC(1)
        IN CASE i.k = "TritNeg" /\ Double(a) # {} -> As((CHOOSE j \in Double(a) : TRUE).as[1])
             [] i.k \in {"TritMin", "TritMax"} /\ b = unit -> As(a)
             [] i.k \in {"TritMin", "TritMax"} /\ a = unit -> As(b)
             [] i.k \in {"TritMin", "TritMax"} /\ (a = zero \/ b = zero) -> As(zero)
             [] OTHER -> i
  IN MapInstrs(f, Rewrite)

\* The word an instruction compares with zero and the sign it asks for:
\* << >>, or <<word, 1>>, <<word, 0>>, <<word, -1>>.
SignTest(i, types) ==
  LET x == IF i.as[2] = IntC(0) THEN i.as[1] ELSE i.as[2]
      left == i.as[2] = IntC(0)
      IsWord == IsInt(x) \/ (IsTemp(x) /\ x[2] \in DOMAIN types /\ types[x[2]] = "I64")
  IN  IF i.k # "BinOp" \/ ~(\E n \in 1..2 : i.as[n] = IntC(0)) \/ ~IsWord THEN << >>
      ELSE CASE i.op = (IF left THEN "IGt" ELSE "ILt") -> <<x, 1>>
             [] i.op = (IF left THEN "ILt" ELSE "IGt") -> <<x, -1>>
             [] i.op = "IEq" -> <<x, 0>>
             [] OTHER -> << >>

\* The block an else edge really leads to: empty blocks that only jump on are
\* walked through, as long as each has one predecessor.  0 if it is not to be
\* absorbed; chain is what was walked through.
RECURSIVE ElseOf(_, _, _, _)
ElseOf(f, cfg, cur, chain) ==
  IF cur = 0 \/ Len(chain) > Len(f.bs) THEN [at |-> 0, chain |-> chain]
  ELSE IF Cardinality(cfg.preds[cur]) # 1 THEN [at |-> 0, chain |-> chain]
  ELSE IF f.bs[cur].is = << >> /\ f.bs[cur].term.k = "Jump"
       THEN ElseOf(f, cfg, Index(f, f.bs[cur].term.to[1]), Append(chain, cur))
       ELSE [at |-> cur, chain |-> chain]

(***************************************************************************)
(* `if x > 0 .. else if x == 0 .. else ..` as one three-way branch: block  *)
(* b and the block its else edge leads to both branch on the sign of one   *)
(* word, the second block does nothing else, nobody else reads its test,   *)
(* and the three targets differ.                                           *)
(***************************************************************************)
SignPlan(f, cfg, types, b) ==
  LET TestOf(v) == LET defs == {i \in AllInstrs(f) : DstName(i) # "" /\ v = Temp(i.d)}
                   IN  IF defs = {} THEN << >> ELSE SignTest(CHOOSE i \in defs : TRUE, types)
      t1 == f.bs[b].term
      e  == ElseOf(f, cfg, Index(f, t1.to[2]), << >>)
      t2 == f.bs[e.at].term
      s1 == TestOf(t1.as[1])
      s2 == TestOf(t2.as[1])
      c2 == t2.as[1][2]
      UsedElsewhere == \/ \E i \in AllInstrs(f) : c2 \in TempsOf(i.as)
                       \/ \E c \in DOMAIN f.bs \ {e.at} : c2 \in TermUses(f.bs[c].term)
      targets == <<t1.to[1], t2.to[1], t2.to[2]>>
      For(sign) == IF s1[2] = sign THEN targets[1] ELSE IF s2[2] = sign THEN targets[2] ELSE targets[3]
  IN IF /\ t1.k = "BinBranch" /\ s1 # << >>
        /\ e.at \notin {0, b}
        /\ t2.k = "BinBranch" /\ s2 # << >>
        /\ s1[1] = s2[1] /\ s1[2] # s2[2]
        /\ \A i \in Range(f.bs[e.at].is) : DstName(i) = c2
        /\ ~UsedElsewhere
        /\ IsInjective(targets)
     THEN {[at |-> b, x |-> s1[1], to |-> <<For(1), For(0), For(-1)>>,
            absorbed |-> f.bs[e.at].label, claims |-> {b, e.at} \union Range(e.chain)]}
     ELSE {}

\* One plan at a time, in the order of the blocks; no block is in two.
SignPlans(f) ==
  LET cfg == Cfg(f)
      types == ValueTypes(f)
      Add(ps, b) == LET new == SignPlan(f, cfg, types, b)
                    IN  IF \E p \in new : \E q \in Range(ps) : p.claims \intersect q.claims # {} THEN ps
                        ELSE ps \o Listed(new)
  IN IF Len(f.bs) < 2 \/ ~SingleAssignment(f) THEN << >>
     ELSE FoldLeftDomain(LAMBDA acc, b : Add(acc, b), << >>, f.bs)

ApplySign(f, p, k) ==
  LET s == "tsg" \o ToString(k)
      here == f.bs[p.at].label
      bs1 == [f.bs EXCEPT ![p.at] = [@ EXCEPT !.is = Append(@, Trits("TritSign", s, <<p.x>>)),
                                              !.term = TritBranch(Temp(s), p.to[1], p.to[2], p.to[3])]]
  IN [f EXCEPT !.bs = [b \in DOMAIN bs1 |->
        IF bs1[b].label \in Range(p.to) THEN [bs1[b] EXCEPT !.is = RenameArms(@, p.absorbed, here)] ELSE bs1[b]]]

CollapseSignTrichotomy(f, plans) == FoldLeftDomain(LAMBDA g, k : ApplySign(g, plans[k], k), f, plans)

\* What the collapse leaves unreached goes, and new critical edges are split.
SignBranches(f, plans) ==
  IF plans = << >> THEN f ELSE SplitCriticalEdges(DeadBlockEliminate(CollapseSignTrichotomy(f, plans)))
PeepholeAfter(f) == SignBranches(f, SignPlans(f))
TernaryPeephole(f) == PeepholeAfter(TritIdentities(f))

-----------------------------------------------------------------------------
(* Common subexpressions, down the dominator tree                          *)

CseKey(i) == IF i.k \in {"BinOp", "UnOp", "TritMin", "TritMax", "TritNeg", "TritSign", "TritLane", "GetPtr",
                         "Cast", "BoundsCheck"}
             THEN <<i.k, i.op, i.as, i.ty, i.n>> ELSE << >>

\* What block b and the blocks below it may drop: [subst, drop], given the
\* expressions available on entry (key to the temporary that holds it).
RECURSIVE CseBelow(_, _, _, _, _)
CseBelow(f, doms, b, avail, acc) ==
  LET Step(a, n) ==
        LET i == f.bs[b].is[n]
            key == CseKey(i)
        IN CASE key = << >> -> a
             [] key \in DOMAIN a.avail ->
                  [a EXCEPT !.drop = @ \union {<<b, n>>},
                            !.subst = IF i.d = "" THEN @ ELSE (i.d :> Temp(a.avail[key])) @@ @]
             [] OTHER -> [a EXCEPT !.avail = (key :> i.d) @@ @]
      here == FoldLeftDomain(Step, [avail |-> avail, subst |-> acc.subst, drop |-> acc.drop], f.bs[b].is)
  IN  FoldLeft(LAMBDA a, c : CseBelow(f, doms, c, here.avail, a),
               [subst |-> here.subst, drop |-> here.drop],
               Listed({c \in DOMAIN f.bs : doms.idom[c] = b}))

CommonSubexpressionEliminate(f) ==
  LET doms == Dominators(Cfg(f))
      cse  == CseBelow(f, doms, 1, << >>, [subst |-> << >>, drop |-> {}])
      Left(b) == LET ns == SelectSeq([n \in DOMAIN f.bs[b].is |-> n], LAMBDA n : <<b, n>> \notin cse.drop)
                 IN  [n \in DOMAIN ns |-> [f.bs[b].is[ns[n]] EXCEPT !.as = SubstituteAll(@, cse.subst)]]
  IN IF f.bs = << >> \/ ~SingleAssignment(f) THEN f
     ELSE [f EXCEPT !.bs = [b \in DOMAIN f.bs |->
             Block(f.bs[b].label, Left(b), SubstituteInTerm(f.bs[b].term, cse.subst))]]

-----------------------------------------------------------------------------
(* Cheaper operations                                                      *)

\* k when a value is 3^k with k at least 1, else 0.
Log3(v) == IF \E k \in 1..WordTrits-1 : v = Pow(3, k) THEN CHOOSE k \in 1..WordTrits-1 : v = Pow(3, k) ELSE 0
\* Mutant: a truncating division is taken for a shift too.
Pow3ShiftDiv(op, v) == IF op \in {"Mul", "MulT27", "DivNear", "Div"} /\ IsInt(v) THEN Log3(v[2]) ELSE 0
Pow3Shift(op, v) == IF op \in {"Mul", "MulT27", "DivNear"} /\ IsInt(v) THEN Log3(v[2]) ELSE 0
ShiftFor(op) == CASE op = "Mul" -> "TShl" [] op = "MulT27" -> "TShlT27" [] OTHER -> "TShr"

StrengthReduceInstr(i) ==
  IF i.k # "BinOp" THEN i ELSE
  LET a == i.as[1]
      b == i.as[2]
      k == Pow3Shift(i.op, b)
  IN CASE i.op = "Mul" /\ IntC(0) \in {a, b} -> Assign(i.d, IntC(0), i.ty)
       [] \/ i.op = "Mul" /\ b = IntC(1)
          \/ i.op \in {"Add", "Sub"} /\ b = IntC(0) -> Assign(i.d, a, i.ty)
       [] \/ i.op = "Mul" /\ a = IntC(1)
          \/ i.op = "Add" /\ a = IntC(0) -> Assign(i.d, b, i.ty)
       [] k # 0 -> BinOp(i.d, ShiftFor(i.op), a, IntC(k), i.ty)
       [] OTHER -> i

StrengthReduce(f) == MapInstrs(f, StrengthReduceInstr)
=============================================================================
