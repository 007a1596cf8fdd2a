-------------------------------- MODULE Copies --------------------------------
(***************************************************************************)
(* The order of moves that mean to happen together: the copies of the phis *)
(* on an edge (emit_phi_copies of src/src/codegen_t3/emitter/emit_instr.rs)*)
(* and the operands of a call that are in registers (emit_call_operands of *)
(* emitter/mod.rs).  A step is one turn of either loop.                    *)
(***************************************************************************)
EXTENDS RegAlloc

\* The one register that breaks cycles, of none that the allocator gives out.
DstScratch == 23
ASSUME ScratchAssumption == PoolHi < DstScratch /\ ParamMax < DstScratch
Parking == Reg(DstScratch)

LitSrc(n) == <<"lit", n>>
ConstOf(v) == IF IsConst(v) THEN v[2] ELSE 0
NoValue == <<"none", 0>>
\* Where a value is, given the places of temporaries.
PlaceOf(places, v) == IF IsTemp(v) THEN places[v[2]] ELSE LitSrc(ConstOf(v))

\* What the phis of block s take from block blk, each copy <<place, source>>
\* at the position of its phi.
EdgeCopies(places, blk, s) ==
  LET Arm(i) == i.as[CHOOSE m \in DOMAIN i.from : i.from[m] = blk.label]
  IN  [n \in {k \in DOMAIN s.is : IsPhi(s.is[k]) /\ blk.label \in Range(s.is[k].from)} |->
         <<places[s.is[n].d], PlaceOf(places, Arm(s.is[n]))>>]

\* Where the operands are that a call, or a bounds check, has in R1, R2, ...
OrdinaryCall(i) == i.k = "Call" /\ i.op \notin DOMAIN Tags \union {UnwrapGuard}
CallSrcs(places, i) ==
  CASE OrdinaryCall(i)       -> [n \in DOMAIN i.as |-> PlaceOf(places, i.as[n])]
    [] i.k = "BoundsCheck"   -> <<PlaceOf(places, i.as[1]), LitSrc(i.n)>>
    [] OTHER                 -> << >>
\* Those in a register that is not theirs.
OperandCopies(srcs) ==
  [n \in {k \in DOMAIN srcs : srcs[k][1] = "reg" /\ srcs[k][2] # k} |-> <<Reg(n), srcs[n]>>]

\* The copies of instruction k of block b; after the last, of the terminator.  A
\* conditional branch carries none.
InstrCopies(f, places, b, k) ==
  IF k <= Len(f.bs[b].is) THEN OperandCopies(CallSrcs(places, f.bs[b].is[k]))
  ELSE IF f.bs[b].term.k = "Jump" THEN EdgeCopies(places, f.bs[b], f.bs[Index(f, f.bs[b].term.to[1])])
  ELSE << >>
CopyKind(f, b, k) == IF k <= Len(f.bs[b].is) THEN "call" ELSE "edge"

\* What is relied on: a call has no more operands than there are registers for
\* them, a bounds check has an index, and a jump leads to a block of the function.
Callable(i) == /\ OrdinaryCall(i) => DOMAIN i.as \subseteq 1..ParamMax
               /\ i.k = "BoundsCheck" => 1 \in DOMAIN i.as
FitsEmitter(f) ==
  \A b \in DOMAIN f.bs : /\ \A i \in Range(f.bs[b].is) : Callable(i)
                         /\ f.bs[b].term.k = "Jump" => Index(f, f.bs[b].term.to[1]) \in DOMAIN f.bs

VARIABLES plan,     \* the copies, each <<place, source>>
          kind,     \* "edge" or "call"
          pending,  \* which of them are still to be made
          from,     \* where what each copies is now
          moves,    \* the moves so far, in their order
          held      \* what every place holds by then, named by where it was; the emitter does not know it
copier == <<plan, kind, pending, from, moves, held>>

\* Before the first move every place holds what it holds.
Untouched(cs) == [p \in {Parking} \union (UNION {{c[1], c[2]} : c \in Range(cs)}) |-> p]
CopyIdle == plan = << >> /\ kind = "edge" /\ pending = {} /\ from = << >> /\ moves = << >> /\ held = Untouched(<< >>)

CopyBegin(cs, how) ==
  /\ plan' = cs /\ kind' = how /\ pending' = DOMAIN cs
  /\ from' = [n \in DOMAIN cs |-> cs[n][2]]
  /\ moves' = << >> /\ held' = Untouched(cs)
CopyStart(cs, how) == plan = << >> /\ CopyBegin(cs, how)

Target(n) == plan[n][1]
\* A copy that nobody else still needs the target of; a call's test counts the
\* copy itself, whose source is never its target.
\* Mutant: a slot is written without asking who still reads it.
ReadySlots == {n \in pending : Target(n)[1] = "slot" \/ \A m \in pending \ {n} : from[m] # Target(n)}
Ready == {n \in pending : \A m \in (IF kind = "edge" THEN pending \ {n} ELSE pending) : from[m] # Target(n)}

\* A literal that no instruction has room for is put together in the parking
\* register, whatever that held.
CopyReady ==
  /\ Ready # {}
  /\ LET n == Min(Ready)
     IN  /\ moves' = Append(moves, <<Target(n), from[n]>>)
         /\ held' = [held EXCEPT ![Target(n)] = held[from[n]], ![Parking] = IF from[n][1] = "lit" THEN NoValue ELSE @]
         /\ pending' = pending \ {n}
  /\ UNCHANGED <<plan, kind, from>>

\* On an edge that is stuck a source is parked, and its copy waits its turn.
Victims == {n \in pending : from[n] # Parking /\ from[n][1] \in {"reg", "slot"}}
ParkSource ==
  /\ kind = "edge" /\ pending # {} /\ Ready = {} /\ Victims # {}
  /\ LET n == Min(Victims)
     IN  /\ moves' = Append(moves, <<Parking, from[n]>>)
         /\ held' = [held EXCEPT ![Parking] = held[from[n]]]
         /\ from' = [from EXCEPT ![n] = Parking]
  /\ UNCHANGED <<plan, kind, pending>>

\* In a call the first target is parked, for all who read it, and written.
ParkTarget ==
  /\ kind = "call" /\ pending # {} /\ Ready = {}
  /\ LET n == Min(pending)
         parked == [held EXCEPT ![Parking] = held[Target(n)]]
     IN  /\ moves' = moves \o <<<<Parking, Target(n)>>, <<Target(n), from[n]>>>>
         /\ held' = [parked EXCEPT ![Target(n)] = parked[from[n]]]
         /\ pending' = pending \ {n}
         /\ from' = [m \in DOMAIN from |-> IF m \in pending \ {n} /\ from[m] = Target(n) THEN Parking ELSE from[m]]
  /\ UNCHANGED <<plan, kind>>

CopyStep == CopyReady \/ ParkSource \/ ParkTarget

Copied == plan # << >> /\ pending = {}
CopyRelease == Copied /\ CopyBegin(<< >>, "edge")

-----------------------------------------------------------------------------

\* What is relied on: no two copies have one target, and none has to do with
\* the register that breaks cycles.
AnyPlace == {"reg", "slot"} \X Nat
CopiesFit(cs) ==
  /\ DOMAIN cs \subseteq Nat /\ IsFiniteSet(DOMAIN cs)
  /\ \A n \in DOMAIN cs : /\ cs[n] = <<cs[n][1], cs[n][2]>>
                          /\ cs[n][1] \in AnyPlace \ {Parking} /\ cs[n][2] # Parking
  /\ \A m, n \in DOMAIN cs : cs[m][1] = cs[n][1] => m = n

CopyNext == (\E cs, how : CopiesFit(cs) /\ how \in {"edge", "call"} /\ CopyStart(cs, how)) \/ CopyStep \/ CopyRelease
CopySpec == CopyIdle /\ [][CopyNext]_copier

\* Copies put in an order do what they would do together: in the end every
\* place holds what its source held before the first of them, and until then
\* there is always one that can be made or a cycle that can be broken: one
\* register is enough for all of them.
CopiesTogether ==
  /\ pending = {} => \A n \in DOMAIN plan : held[Target(n)] = plan[n][2]
  /\ pending # {} /\ kind = "edge" => Ready # {} \/ Victims # {}
=============================================================================
