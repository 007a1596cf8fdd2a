------------------------------- MODULE Inline -------------------------------
(***************************************************************************)
(* Copying small functions into their callers (src/src/ir/inline.rs).  A   *)
(* function of one block replaces the call in place; one of several blocks *)
(* splits the calling block.  Growth is bounded by one budget per module,  *)
(* first come, first served.                                               *)
(***************************************************************************)
EXTENDS Optimize

CONSTANTS InlineLimit,   \* the largest body copied (16 in the source)
          GrowthFloor    \* the least a module may grow (64 in the source)

\* Mutant: blocks are counted for instructions.
SizeBlocks(f) == Len(f.bs)
Size(f) == FoldLeft(LAMBDA acc, b : acc + Len(b.is), 0, f.bs)

Returns(f) == {b \in DOMAIN f.bs : f.bs[b].term.k = "Return"}

HasBackEdge(f) ==
  LET cfg == Cfg(f)
      doms == Dominators(cfg)
  IN  \E u \in DOMAIN f.bs : \E v \in Range(cfg.succs[u]) : Dominates(doms, v, u)

\* What may be copied.  std is the set of functions a backend may implement.
IsCandidate(f, std) ==
  /\ f.bs # << >> /\ f.name \notin std
  /\ Returns(f) # {}
  /\ Size(f) <= InlineLimit
  /\ ~HasBackEdge(f)
  /\ \A i \in AllInstrs(f) : /\ i.k # "Alloca"
                             /\ ~(i.k = "Call" /\ i.op = f.name)
                             /\ IsPhi(i) => Len(f.bs) > 1

Defs(f) == {i.d : i \in {j \in AllInstrs(f) : j.d # ""}}
Prefix(site) == "il" \o ToString(site) \o "_"

\* The callee's temporaries under the names they take at a call site.
Renames(c, args, site) ==
  [t \in Defs(c) \union Params(c) |->
     IF t \in Params(c) THEN args[CHOOSE n \in DOMAIN c.params : "param_" \o c.params[n][1] = t]
     ELSE Temp(Prefix(site) \o t)]
CopyInstr(i, ren) ==
  [i EXCEPT !.d = IF @ \in DOMAIN ren THEN ren[@][2] ELSE @, !.as = SubstituteAll(@, ren)]

\* The body of a one-block function, in place of the call.
Splice(c, call, site) ==
  LET ret  == c.bs[1].term.as
      own  == ret # << >> /\ IsTemp(ret[1]) /\ ret[1][2] \in Defs(c) /\ c.ret = call.ty
      ren0 == Renames(c, call.as, site)
      ren  == IF call.d # "" /\ own THEN [ren0 EXCEPT ![ret[1][2]] = Temp(call.d)] ELSE ren0
      body == [n \in DOMAIN c.bs[1].is |-> CopyInstr(c.bs[1].is[n], ren)]
  IN  IF call.d # "" /\ ~own THEN Append(body, Assign(call.d, Substitute(ret[1], ren), call.ty)) ELSE body

\* The first call at or after position n of block b that may be replaced.
Fits(m, f, i, std, blocks) ==
  \E c \in Range(m) : /\ i.k = "Call" /\ c.name = i.op /\ i.op # f.name
                      /\ IsCandidate(c, std) /\ blocks = (Len(c.bs) = 1)
                      /\ Len(c.params) = Len(i.as)
Callee(m, i) == m[CHOOSE n \in DOMAIN m : m[n].name = i.op]

(***************************************************************************)
(* One block's calls, in place.  m is the module as it was before inlining *)
(* (the candidates), st = [added, sites] what has been spent so far.       *)
(***************************************************************************)
SpliceBlock(m, f, is, std, budget, st) ==
  FoldLeft(LAMBDA a, i :
     LET c == Callee(m, i)
     IN  IF /\ Fits(m, f, i, std, TRUE)
            /\ i.d # "" => c.bs[1].term.as # << >>
            /\ a.added + Size(c) <= budget
         THEN [is |-> a.is \o Splice(c, i, a.sites), added |-> a.added + Size(c), sites |-> a.sites + 1]
         ELSE [a EXCEPT !.is = Append(@, i)],
     [is |-> << >>, added |-> st.added, sites |-> st.sites], is)

\* The body of a function of several blocks: the calling block is cut at the
\* call, every return jumps to the rest, and the results meet in a phi.
SpliceCfg(f, b, n, c, site) ==
  LET call == f.bs[b].is[n]
      L(l) == Prefix(site) \o l
      cont == L("cont")
      ren  == Renames(c, call.as, site)
      CopyTerm(t) == IF t.k = "Return" THEN Jump(cont)
                     ELSE SubstituteInTerm([t EXCEPT !.to = [k \in DOMAIN @ |-> L(@[k])]], ren)
      CopyBlock(x) == Block(L(x.label),
                            [k \in DOMAIN x.is |-> [CopyInstr(x.is[k], ren) EXCEPT !.from = [j \in DOMAIN @ |-> L(@[j])]]],
                            CopyTerm(x.term))
      copies == [k \in DOMAIN c.bs |-> CopyBlock(c.bs[k])]
      arms == SelectSeq(c.bs, LAMBDA x : x.term.k = "Return" /\ x.term.as # << >>)
      values == SanitizePhi([k \in DOMAIN arms |-> Substitute(arms[k].term.as[1], ren)])
      result == IF call.d = "" \/ arms = << >> THEN << >>
                ELSE IF Len(arms) = 1 THEN <<Assign(call.d, values[1], call.ty)>>
                ELSE <<Phi(call.d, call.ty, values, [k \in DOMAIN arms |-> L(arms[k].label)])>>
      head == Block(f.bs[b].label, SubSeq(f.bs[b].is, 1, n - 1), Jump(L(c.bs[1].label)))
      rest == Block(cont, result \o SubSeq(f.bs[b].is, n + 1, Len(f.bs[b].is)), f.bs[b].term)
      Renamed(x) == [x EXCEPT !.is = RenameArms(@, f.bs[b].label, cont)]
      others == [k \in DOMAIN f.bs |-> Renamed(IF k = b THEN head ELSE f.bs[k])]
  IN  [f EXCEPT !.bs = SubSeq(others, 1, b) \o copies \o <<rest>> \o SubSeq(others, b + 1, Len(others))]

\* Call sites of functions with several blocks, outside the blocks that were
\* copied in.
CfgSites(m, f, std, budget, added, copied) ==
  LET Fit(i, c) == /\ Fits(m, f, i, std, FALSE)
                   /\ added + Size(c) <= budget
                   /\ c.ret = i.ty
                   /\ i.d # "" => \E r \in Returns(c) : c.bs[r].term.as # << >>
  IN  {s \in (DOMAIN f.bs) \X (1..MaxInstrs(f)) :
         /\ s[2] \in DOMAIN f.bs[s[1]].is /\ f.bs[s[1]].label \notin copied
         /\ f.bs[s[1]].is[s[2]].k = "Call" /\ Fit(f.bs[s[1]].is[s[2]], Callee(m, f.bs[s[1]].is[s[2]]))}
FirstSite(sites) == CHOOSE s \in sites : \A r \in sites : s[1] < r[1] \/ (s[1] = r[1] /\ s[2] <= r[2])

\* They are taken one after the other until none is left that fits.
RECURSIVE SpliceCfgs(_, _, _, _, _, _)
SpliceSite(m, f, std, budget, st, copied, s, c) ==
  SpliceCfgs(m, SpliceCfg(f, s[1], s[2], c, st.sites), std, budget,
             [added |-> st.added + Size(c), sites |-> st.sites + 1],
             copied \union {Prefix(st.sites) \o c.bs[k].label : k \in DOMAIN c.bs})
SpliceFirst(m, f, std, budget, st, copied, s) ==
  SpliceSite(m, f, std, budget, st, copied, s, Callee(m, f.bs[s[1]].is[s[2]]))
SpliceIfAny(m, f, std, budget, st, copied, sites) ==
  IF sites = {} THEN [f |-> f, added |-> st.added, sites |-> st.sites]
  ELSE SpliceFirst(m, f, std, budget, st, copied, FirstSite(sites))
SpliceCfgs(m, f, std, budget, st, copied) ==
  SpliceIfAny(m, f, std, budget, st, copied, CfgSites(m, f, std, budget, st.added, copied))

\* Calls in place first, over all the blocks; then the others.
Taken(a, b, r) == [bs |-> Append(a.bs, [b EXCEPT !.is = r.is]), added |-> r.added, sites |-> r.sites]
SpliceBlocks(m, f, std, budget, st) ==
  LET StepBlock(a, b) == Taken(a, b, SpliceBlock(m, f, b.is, std, budget, a))
  IN  FoldLeft(StepBlock, [bs |-> << >>, added |-> st.added, sites |-> st.sites], f.bs)
InlineFlat(m, f, std, budget, flat) ==
  SpliceCfgs(m, [f EXCEPT !.bs = flat.bs], std, budget, [added |-> flat.added, sites |-> flat.sites], {})
InlineFn(m, f, std, budget, st) == InlineFlat(m, f, std, budget, SpliceBlocks(m, f, std, budget, st))

RECURSIVE InlineFns(_, _, _, _, _)
Inlined(a, r) == [m |-> Append(a.m, r.f), added |-> r.added, sites |-> r.sites]
InlineFns(m, fs, std, budget, a) ==
  IF fs = << >> THEN a.m
  ELSE InlineFns(m, Tail(fs), std, budget, Inlined(a, InlineFn(m, Head(fs), std, budget, a)))

SizeOfModule(m) == FoldLeft(LAMBDA acc, f : acc + Size(f), 0, m)
InlineModule(m, std) ==
  InlineFns(m, m, std, Max({GrowthFloor, (SizeOfModule(m) * 20) \div 100}), [m |-> << >>, added |-> 0, sites |-> 0])
=============================================================================
