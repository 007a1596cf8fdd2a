------------------------------- MODULE Mem2Reg -------------------------------
(***************************************************************************)
(* Turning local variables into values (src/src/ir/mem2reg.rs): phis at    *)
(* the iterated dominance frontier of the stores, then one walk of the     *)
(* dominator tree that replaces every load by the value the slot holds.    *)
(***************************************************************************)
EXTENDS Ssa

ZeroOf(ty) == CASE ty = "Bool" -> BoolC(0) [] ty = "Trit" -> TritC(0) [] OTHER -> IntC(0)

Substitute(v, ren) == IF IsTemp(v) /\ v[2] \in DOMAIN ren THEN ren[v[2]] ELSE v
SubstituteAll(vs, ren) == [n \in DOMAIN vs |-> Substitute(vs[n], ren)]
SubstituteInInstr(i, ren) == IF IsPhi(i) THEN i ELSE [i EXCEPT !.as = SubstituteAll(@, ren)]
SubstituteInTerm(t, ren)  == [t EXCEPT !.as = SubstituteAll(@, ren)]

\* The allocas to promote: not those a block nobody reaches mentions.
Candidates(f, doms) ==
  LET dead == {b \in DOMAIN f.bs : ~Reachable(doms, b)}
      InDeadCode(s) == \E b \in dead : \E i \in Range(f.bs[b].is) : i.d = s.d \/ s.d \in InstrUses(i)
  IN  {s \in PromotableAllocas(f) : ~InDeadCode(s)}

StoresTo(s, i) == i.k = "Store" /\ i.as[1] = Temp(s)

\* The iterated dominance frontier of a set of blocks.
RECURSIVE PhiBlocks(_, _)
PhiBlocks(df, bs) ==
  LET at == UNION {df[b] : b \in bs}
  IN  IF at \subseteq bs THEN at ELSE PhiBlocks(df, bs \union at)

(***************************************************************************)
(* The renaming walk below block b.  x holds the function, its structure   *)
(* and phi[<<b, s>>], the name of the phi of slot s at block b; cur the    *)
(* value each slot holds on entry; st what has been rewritten so far: the  *)
(* blocks, the loads' replacements and the arms of the new phis.           *)
(***************************************************************************)
RECURSIVE Rename(_, _, _, _)
Rename(x, b, cur, st) ==
  LET entry == [s \in DOMAIN cur |-> IF <<b, s>> \in DOMAIN x.phi THEN Temp(x.phi[<<b, s>>]) ELSE cur[s]]
      Slot(i) == i.k \in {"Load", "Store"} /\ IsTemp(i.as[1]) /\ i.as[1][2] \in DOMAIN cur
      Step(a, i) ==
        CASE i.k = "Alloca" /\ i.d \in DOMAIN cur -> a
          [] i.k = "Store" /\ Slot(i) -> [a EXCEPT !.cur[i.as[1][2]] = Substitute(i.as[2], a.ren)]
          [] i.k = "Load" /\ Slot(i)  -> [a EXCEPT !.ren = (i.d :> a.cur[i.as[1][2]]) @@ @]
          [] OTHER -> [a EXCEPT !.kept = Append(@, SubstituteInInstr(i, a.ren))]
      done  == FoldLeft(Step, [kept |-> << >>, cur |-> entry, ren |-> st.ren], x.f.bs[b].is)
      block == Block(x.f.bs[b].label, done.kept, SubstituteInTerm(x.f.bs[b].term, done.ren))
      arms  == [p \in DOMAIN st.arms |->
                  IF p[1] \in Range(x.cfg.succs[b])
                  THEN Append(st.arms[p], <<done.cur[p[2]], block.label>>) ELSE st.arms[p]]
      below == SortSeq(Listed({c \in DOMAIN x.f.bs : x.doms.idom[c] = b}), <)
  IN  FoldLeft(LAMBDA s, c : Rename(x, c, done.cur, s),
               [bs |-> [st.bs EXCEPT ![b] = block], ren |-> done.ren, arms |-> arms], below)

\* The slots to promote, with their types.
SlotTypes(f, doms) ==
  LET cands == Candidates(f, doms)
  IN  [s \in {c.d : c \in cands} |-> (CHOOSE c \in cands : c.d = s).ty]

\* The phis to be made, as pairs of a block and a slot, and their names.
PhiSites(f, doms, df, ty) ==
  Listed(UNION {PhiBlocks(df, {b \in Range(doms.rpo) : \E i \in Range(f.bs[b].is) : StoresTo(s, i)}) \X {s} : s \in DOMAIN ty})
PhiNames(at) == [p \in Range(at) |-> "m2r" \o ToString(CHOOSE n \in DOMAIN at : at[n] = p)]

\* Mutant: the phis are put where they are first seen to be needed.
PhisBehind(phis, is) == is \o phis
PhisAhead(phis, is)  == phis \o is

\* The blocks as the walk st left them, with the phis in front.  The arms of
\* the phis that were there already are renamed last, when all is known.
WithPhis(f, ty, at, phi, st) ==
  LET Arm(p, k) == [n \in DOMAIN st.arms[p] |-> st.arms[p][n][k]]
      New(b) == LET here == SelectSeq(at, LAMBDA p : p[1] = b)
                IN  [n \in DOMAIN here |-> Phi(phi[here[n]], ty[here[n][2]], Arm(here[n], 1), Arm(here[n], 2))]
      AllRenamed(i) == IF IsPhi(i) THEN [i EXCEPT !.as = SubstituteAll(@, st.ren)] ELSE i
      Renamed(is) == [n \in DOMAIN is |-> AllRenamed(is[n])]
  IN  [f EXCEPT !.bs = [b \in DOMAIN f.bs |-> [st.bs[b] EXCEPT !.is = Renamed(PhisAhead(New(b), @))]]]

PlacePhis(f, cfg, doms, ty, at) ==
  WithPhis(f, ty, at, PhiNames(at),
    Rename([f |-> f, cfg |-> cfg, doms |-> doms, phi |-> PhiNames(at)], 1, [s \in DOMAIN ty |-> ZeroOf(ty[s])],
           [bs |-> f.bs, ren |-> << >>, arms |-> [p \in Range(at) |-> << >>]]))

PromoteSlots(f, cfg, doms, ty) ==
  IF DOMAIN ty = {} THEN f ELSE PlacePhis(f, cfg, doms, ty, PhiSites(f, doms, Frontiers(doms, cfg), ty))
PromoteUnder(f, cfg, doms) == PromoteSlots(f, cfg, doms, SlotTypes(f, doms))
PromoteOn(f, cfg) == PromoteUnder(f, cfg, Dominators(cfg))
Promote(f) == IF f.bs = << >> THEN f ELSE PromoteOn(f, Cfg(f))
=============================================================================
