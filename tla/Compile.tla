------------------------------- MODULE Compile --------------------------------
(***************************************************************************)
(* The compiler, from a parsed program to the IR its backends take: the    *)
(* driver (src/src/main.rs) checks, lowers, and runs the passes in the     *)
(* order run_passes_with gives them.  One step is one pass over the whole  *)
(* module.                                                                 *)
(*                                                                         *)
(* means is what the module would do if it were run as it now stands, and  *)
(* asked what the reference interpreter says the program does: neither is  *)
(* anything the compiler knows.                                            *)
(***************************************************************************)
EXTENDS Passes, Lower, IRMeaning

CONSTANTS Programs,      \* the programs to compile
          Options,       \* [mem2reg, merge, hoist : BOOLEAN, rounds : Nat], the flags of a run
          Fuel           \* how many blocks, or nodes, a run may visit

VARIABLES prog, opt, stage, round, mod, before, asked, means
vars == <<prog, opt, stage, round, mod, before, asked, means>>

\* Functions the backends implement natively are not inlined: here, none.
Std == {}

Stages == <<"lowered">> \o PassOrder

\* What a run of the driver does not do.
Skipped(p) == \/ p \in {"split_critical_edges", "mem2reg"} /\ ~opt.mem2reg
              \/ p = "merge_blocks" /\ ~opt.merge
              \/ p = "hoist_const" /\ ~opt.hoist

\* The interpreter has no for, loop, break or continue and no arrays: where a
\* program uses one, what it does is what its unoptimised IR does.
RECURSIVE HasArray(_)
HasArray(s) == s[1] \in {"Array", "Index"} \/ \E x \in Range(Operands(s)) : HasArray(x)
InReference(p) ==
  LET RECURSIVE Known(_)
      Known(body) == \A n \in DOMAIN body :
        /\ body[n][1] \notin {"For", "ForIn", "Loop", "Break", "Continue"} /\ ~HasArray(body[n])
        /\ \A b \in Range(Branches(body[n]) \o (IF body[n][1] = "While" THEN <<body[n][3]>> ELSE << >>)) : Known(b)
  IN  \A f \in Range(p.fns) : Known(f.body)

Unknown == [out |-> << >>, end |-> "unknown"]

-----------------------------------------------------------------------------
Init == /\ prog \in Programs /\ opt \in Options
        /\ stage = "parsed" /\ round = 0
        /\ mod = << >> /\ before = << >>
        /\ asked = IF InReference(prog) THEN Observe(prog, Fuel) ELSE Unknown
        /\ means = Unknown

\* A program the analyser refuses goes no further.
Check == /\ stage = "parsed"
         /\ stage' = IF Accepts(prog) THEN "checked" ELSE "refused"
         /\ UNCHANGED <<prog, opt, round, mod, before, asked, means>>

LowerStep == /\ stage = "checked"
             /\ mod' = LowerProgram(prog)
             /\ stage' = "lowered" /\ means' = Meaning(mod', Fuel)
             /\ UNCHANGED <<prog, opt, round, before, asked>>

\* The pass after the one that ran last.
After(p) == Stages[(CHOOSE n \in DOMAIN Stages : Stages[n] = p) + 1]
FirstOfRound == "constant_fold"
LastOfRound  == "dead_code_eliminate"

\* Whether the functions go through the passes between FirstOfRound and
\* LastOfRound once more: not if the last time changed nothing.
Again == stage = LastOfRound /\ round < opt.rounds /\ mod # before
Next1 == IF Again THEN FirstOfRound ELSE After(stage)

PassTo(p) == /\ mod' = IF Skipped(p) THEN mod ELSE RunPass(p, mod, Std)
             /\ stage' = p
             /\ round' = IF p = FirstOfRound THEN round + 1 ELSE round
             /\ before' = IF p = FirstOfRound THEN mod ELSE before
             /\ means' = IF mod' = mod THEN means ELSE Meaning(mod', Fuel)
             /\ UNCHANGED <<prog, opt, asked>>
Pass == stage \in Range(Stages) /\ stage # Last(Stages) /\ PassTo(Next1)

Next == Check \/ LowerStep \/ Pass
Spec == Init /\ [][Next]_vars

-----------------------------------------------------------------------------
Compiled == stage \in Range(Stages)
Optimised == stage = Last(Stages)

\* The shape of the state.
TypeOK == /\ prog \in Programs /\ opt \in Options
          /\ stage \in {"parsed", "refused", "checked"} \union Range(Stages)
          /\ round \in 0..opt.rounds
          /\ (mod = << >>) <=> ~Compiled
          /\ Compiled => [n \in DOMAIN mod |-> mod[n].name] = [n \in DOMAIN prog.fns |-> prog.fns[n].name]

\* Once edges are split and slots promoted, a block with a phi is not reached
\* from a branch: the T3 emitter can place copies on plain jumps only.
PhisHaveAnEdge(f) ==
  \A b \in DOMAIN f.bs : (\E i \in Range(f.bs[b].is) : IsPhi(i)) => \A p \in Cfg(f).preds[b] : f.bs[p].term.k = "Jump"

\* After every pass the IR of every function is in SSA form as the compiler's
\* own verifier (ssa.rs, run with --verify-ssa) defines it: every label once,
\* every target there, every temporary defined once and on all paths to its
\* use, every phi with one arm for each edge; and what is optimised is in the
\* shape the emitter needs.
SSAForm ==
  Compiled => \A f \in Range(mod) : Verify(f) = {} /\ ((opt.mem2reg /\ Optimised) => PhisHaveAnEdge(f))

\* What lowering makes of an accepted program does what the reference
\* interpreter says it does: it prints the same values and ends the same way.
CompiledAsDefined == (stage = "lowered" /\ asked # Unknown) => means = asked

\* No pass changes what the module does.  One that ends in a trap may lose the
\* trap, because dead-code elimination drops operations nobody reads, but it
\* still prints all it printed.
MeaningKept ==
  [][Compiled => IF means.end = "normal" THEN means' = means ELSE IsPrefix(means.out, means'.out)]_vars

\* The types the analyser gives exclude what the interpreter refuses while it
\* runs: no accepted program applies an operator to a value of a form it does
\* not take, or uses a name that is not there.
NoFormTrap == stage = "checked" => asked.end # "form"

\* No compiled program runs off the end of a function that has to give a value,
\* or reads or writes outside the slots it made.
StaysInside == means.end \notin {"fell off", "stray"}

\* What the analyser accepts cannot go wrong in the ways it is there to rule out.
AcceptedIsSafe == NoFormTrap /\ StaysInside

\* The dominator tree, built by iteration over the reverse postorder, is the
\* relation it stands for: a dominates b when every path from the entry to b
\* goes through a.
RECURSIVE ReachedWithout(_, _, _)
ReachedWithout(cfg, a, bs) ==
  LET more == bs \union ((UNION {Range(cfg.succs[c]) : c \in bs}) \ {a})
  IN  IF more = bs THEN bs ELSE ReachedWithout(cfg, a, more)
DominatorsExact ==
  stage \in {"lowered", "split_critical_edges", "inline"} =>
    \A f \in Range(mod) :
      LET cfg  == Cfg(f)
          doms == Dominators(cfg)
      IN  \A c, d \in Range(doms.rpo) :
            Dominates(doms, c, d) <=> (c \in {1, d} \/ d \notin ReachedWithout(cfg, c, {1}))

\* Inlining adds no more instructions than its budget, and what one site adds
\* beyond the body it copies: the value the call gave.
Instructions(m) == FoldLeft(LAMBDA acc, f : acc + FoldLeft(LAMBDA n, b : n + Len(b.is), 0, f.bs), 0, m)
GrowthBounded ==
  [][stage' = "inline" =>
       Instructions(mod') <= Instructions(mod) + Max({GrowthFloor, (Instructions(mod) * 20) \div 100})]_vars
=============================================================================
