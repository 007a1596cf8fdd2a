------------------------------ MODULE RegAlloc -------------------------------
(***************************************************************************)
(* The T3 register allocator (src/src/codegen_t3/regalloc.rs): one place,  *)
(* a register or a word of the frame, for every temporary of a function,   *)
(* for the whole of it.  Instructions are numbered in the order the        *)
(* emitter walks them, a block's terminator after its instructions; 0 is   *)
(* the function's entry.                                                   *)
(*                                                                         *)
(* A step is one turn of one of the allocator's loops: a block numbered, a *)
(* block's liveness worked out, a round of the search for arrays that      *)
(* escape, a parameter bound, a temporary placed.                          *)
(***************************************************************************)
EXTENDS IR

CONSTANTS PoolHi,     \* the highest register given to a temporary (20 in the source)
          ParamMax    \* the most parameters a function may have (8 in the source)

ASSUME RegistersAssumption == PoolHi \in Nat /\ ParamMax \in Nat

PoolLo == 4           \* R1 to R3 belong to calls
Pool   == PoolLo..PoolHi

Reg(r)  == <<"reg", r>>
Slot(n) == <<"slot", n>>

\* A live range is its first and last number.
Covers(iv, at) == iv[1] <= at /\ at <= iv[2]
Spans(iv, at)  == iv[1] < at /\ at < iv[2]

VARIABLES func,             \* the function, and where its allocation stands
          phase,            \* "idle", "number", "solve", "escape", "bind" or "place"
          starts,           \* the number of each block's first instruction
          info,             \* what each block writes, reads first, hands on and leads to
          liveIn, liveOut,  \* what is alive where a block starts and where it ends
          cursor, changed,  \* the block, or parameter, that is next; if this round learnt anything
          ivs,              \* the live range of each temporary
          known,            \* where addresses of arrays are known to be
          locs,             \* the places given so far
          free, active,     \* pool registers that hold nothing; temporaries that hold one
          slots, stores,    \* slots handed out; what the prologue has to store, <<register, slot>>
          todo              \* what still has no place
allocator == <<func, phase, starts, info, liveIn, liveOut, cursor, changed,
               ivs, known, locs, free, active, slots, stores, todo>>

NoFunction == Fn("", << >>, "", << >>)
AllocIdle ==
  /\ func = NoFunction /\ phase = "idle"
  /\ starts = << >> /\ info = << >> /\ liveIn = << >> /\ liveOut = << >> /\ cursor = 0 /\ changed = FALSE
  /\ ivs = << >> /\ known = << >> /\ locs = << >>
  /\ free = Pool /\ active = {} /\ slots = 0 /\ stores = << >> /\ todo = {}

-----------------------------------------------------------------------------
(* Liveness                                                                *)

\* What the instructions ks of a block write.
Defined(is, ks) == {is[k].d : k \in ks} \ {""}
BlockDefs(f, b) == Defined(f.bs[b].is, DOMAIN f.bs[b].is)
\* What a block reads before it writes it; a phi's operands are not among it.
UpwardExposed(f, b) ==
  (UNION {InstrUses(f.bs[b].is[n]) \ Defined(f.bs[b].is, 1..n-1) : n \in DOMAIN f.bs[b].is})
  \union (TermUses(f.bs[b].term) \ BlockDefs(f, b))
\* The phi operands that leave on the edges out of block b.
EdgeOut(f, b) == {u[1] : u \in {w \in UNION {PhiUses(i) : i \in AllInstrs(f)} : w[2] = f.bs[b].label}}
Succs(f, b) == {s \in DOMAIN f.bs : \E n \in DOMAIN f.bs[b].term.to : s = Index(f, f.bs[b].term.to[n])}

BlockInfo(f, b) == [defs |-> BlockDefs(f, b), uses |-> UpwardExposed(f, b), edge |-> EdgeOut(f, b), succs |-> Succs(f, b)]

BlockEnd(f, at, b) == at[b] + Len(f.bs[b].is)
Number(b, k)       == starts[b] + k - 1

Start(f) ==
  /\ phase = "idle"
  /\ func' = f /\ phase' = "number"
  /\ info' = [b \in DOMAIN f.bs |-> BlockInfo(f, b)]
  /\ UNCHANGED <<starts, liveIn, liveOut, cursor, changed, ivs, known, locs, free, active, slots, stores, todo>>

NumberBlock ==
  /\ phase = "number" /\ Len(starts) < Len(func.bs)
  /\ starts' = Append(starts, IF starts = << >> THEN 1 ELSE BlockEnd(func, starts, Len(starts)) + 1)
  /\ UNCHANGED <<func, phase, info, liveIn, liveOut, cursor, changed, ivs, known, locs, free, active, slots, stores, todo>>

NumberingDone ==
  /\ phase = "number" /\ Len(starts) = Len(func.bs)
  /\ phase' = "solve" /\ cursor' = Len(func.bs) /\ changed' = FALSE
  /\ liveIn' = [b \in DOMAIN func.bs |-> {}] /\ liveOut' = [b \in DOMAIN func.bs |-> {}]
  /\ UNCHANGED <<func, starts, info, ivs, known, locs, free, active, slots, stores, todo>>

OutOf(b) == (UNION {liveIn[s] : s \in info[b].succs}) \union info[b].edge
InOf(b)  == info[b].uses \union (OutOf(b) \ info[b].defs)

\* Whether a round has to be followed by another.
\* Mutant: one is enough.
NothingLearnt(b) == FALSE
Learnt(b) == OutOf(b) # liveOut[b] \/ InOf(b) # liveIn[b]

\* A round goes over the blocks from the last to the first.
SolveBlock ==
  /\ phase = "solve" /\ cursor > 0
  /\ liveOut' = [liveOut EXCEPT ![cursor] = OutOf(cursor)]
  /\ liveIn'  = [liveIn EXCEPT ![cursor] = InOf(cursor)]
  /\ changed' = (changed \/ Learnt(cursor))
  /\ cursor' = cursor - 1
  /\ UNCHANGED <<func, phase, starts, info, ivs, known, locs, free, active, slots, stores, todo>>

NextRound ==
  /\ phase = "solve" /\ cursor = 0 /\ changed
  /\ cursor' = Len(func.bs) /\ changed' = FALSE
  /\ UNCHANGED <<func, phase, starts, info, liveIn, liveOut, ivs, known, locs, free, active, slots, stores, todo>>

\* Where each temporary is written, read, or alive at the edge of a block.  A
\* phi's is written at the end of every block it comes from.
AllAt(ts, n) == {<<t, n>> : t \in ts}
PhiBlocksOf(f, i) == {p \in DOMAIN f.bs : IsPhi(i) /\ \E n \in DOMAIN i.from : p = Index(f, i.from[n])}
InstrTouches(i, n) ==
  AllAt(InstrUses(i) \union ({i.d} \ {""}), n)
  \union UNION {AllAt({i.d} \ {""}, BlockEnd(func, starts, p)) : p \in PhiBlocksOf(func, i)}
BlockTouches(b) ==
  AllAt(liveIn[b], starts[b])
  \union AllAt(liveOut[b] \union TermUses(func.bs[b].term) \union info[b].edge, BlockEnd(func, starts, b))
  \union UNION {InstrTouches(func.bs[b].is[k], Number(b, k)) : k \in DOMAIN func.bs[b].is}
Touches == AllAt(Params(func), 0) \union UNION {BlockTouches(b) : b \in DOMAIN func.bs}
Hull(ns) == <<Min(ns), Max(ns)>>
Intervals(touches) == [t \in {u[1] : u \in touches} |-> Hull({u[2] : u \in {w \in touches : w[1] = t}})]

-----------------------------------------------------------------------------
(* Arrays whose address can outlive the frame                              *)

\* What is known so far: the arrays a temporary may hold the address of, those
\* whose address may be stored in an array, and those that escape.
AddressOf(e, v) == IF IsTemp(v) /\ v[2] \in DOMAIN e.alias THEN e.alias[v[2]] ELSE {}
PointsTo(e, as) == UNION {e.inside[a] : a \in as}
AliasOf(e, i) ==
  CASE i.k = "Alloca"                       -> {i.d}
    [] i.k \in {"Assign", "Cast", "GetPtr"} -> AddressOf(e, i.as[1])
    [] IsPhi(i)                             -> UNION {AddressOf(e, v) : v \in Range(i.as)}
    [] i.k = "Load"                         -> PointsTo(e, AddressOf(e, i.as[1]))
    [] OTHER                                -> {}
\* The addresses that get out: stored through a pointer that is no array of
\* this frame as far as is known, handed to a call, returned to a caller that
\* will not copy the array, or stored in an array that has got out.
LetsOut(e, as) == [e EXCEPT !.escaped = @ \union UNION {AddressOf(e, v) : v \in Range(as)}]
Keeps(e, arrays, as) == [e EXCEPT !.inside = [a \in DOMAIN @ |-> IF a \in arrays THEN @[a] \union as ELSE @[a]]]
EscapeStep(e, i) ==
  CASE i.k = "Store" /\ AddressOf(e, i.as[1]) = {} -> LetsOut(e, <<i.as[2]>>)
    [] i.k = "Store" /\ AddressOf(e, i.as[1]) # {} -> Keeps(e, AddressOf(e, i.as[1]), AddressOf(e, i.as[2]))
    [] i.k = "Call"                                -> LetsOut(e, i.as)
    [] i.k # "Call" /\ i.d # ""                    -> [e EXCEPT !.alias[i.d] = @ \union AliasOf(e, i)]
    [] OTHER                                       -> e
ReturnsOut(e, f, t) == IF t.k = "Return" /\ f.ret # "Array" THEN LetsOut(e, t.as) ELSE e
EscapeRound(f, e) ==
  LET seen == FoldLeft(LAMBDA acc, blk : ReturnsOut(FoldLeft(EscapeStep, acc, blk.is), f, blk.term), e, f.bs)
  IN  [seen EXCEPT !.escaped = @ \union PointsTo(seen, @)]
NothingKnown(f) ==
  LET is     == AllInstrs(f)
      arrays == {i.d : i \in {j \in is : j.k = "Alloca"}}
  IN  [alias   |-> [t \in {i.d : i \in is} \ {""} |-> {t} \cap arrays],
       inside  |-> [a \in arrays |-> {}],
       escaped |-> {}]

Solved ==
  /\ phase = "solve" /\ cursor = 0 /\ ~changed
  /\ phase' = "escape" /\ ivs' = Intervals(Touches) /\ known' = NothingKnown(func)
  /\ UNCHANGED <<func, starts, info, liveIn, liveOut, cursor, changed, locs, free, active, slots, stores, todo>>

\* Rounds over the blocks in their order, until nothing is learnt.
Explore ==
  /\ phase = "escape" /\ known' = EscapeRound(func, known) /\ known' # known
  /\ UNCHANGED <<func, phase, starts, info, liveIn, liveOut, cursor, changed, ivs, locs, free, active, slots, stores, todo>>

Explored ==
  /\ phase = "escape" /\ known = EscapeRound(func, known)
  /\ phase' = "bind" /\ cursor' = 1
  /\ UNCHANGED <<func, starts, info, liveIn, liveOut, changed, ivs, known, locs, free, active, slots, stores, todo>>

\* An array lives on the heap only if its address gets out; what is no array
\* is one word of the frame.
ArrayAlloca(i) == i.k = "Alloca" /\ i.ty = "Array"
HeapAllocas == {t \in known.escaped : \E b \in DOMAIN func.bs : \E i \in Range(func.bs[b].is) : i.d = t /\ ArrayAlloca(i)}

\* The numbers of the calls, and of what may destroy R1 to R3: a call, an
\* allocation on the heap and a bounds check, which are system calls.
IsCall(i)   == i.k = "Call"
Clobbers(i) == IsCall(i) \/ i.k = "BoundsCheck" \/ (i.k = "Alloca" /\ i.d \in HeapAllocas)
CallSites    == UNION {{Number(b, k) : k \in {j \in DOMAIN func.bs[b].is : IsCall(func.bs[b].is[j])}} : b \in DOMAIN func.bs}
ClobberSites == UNION {{Number(b, k) : k \in {j \in DOMAIN func.bs[b].is : Clobbers(func.bs[b].is[j])}} : b \in DOMAIN func.bs}

-----------------------------------------------------------------------------
(* Linear scan                                                             *)

ParamName(f, n) == "param_" \o f.params[n][1]
\* The register the nth parameter arrives in.
ParamReg(n) == IF n < ParamMax THEN n ELSE ParamMax

WithPlace(places, t, p) == [u \in DOMAIN places \union {t} |-> IF u = t THEN p ELSE places[u]]

\* A parameter stays where it arrives unless something on the way to its last
\* use destroys that register: any clobber at all for R1 to R3, a call strictly
\* inside its range for the others.
Lost(n) == LET iv == ivs[ParamName(func, n)]
           IN  IF ParamReg(n) < PoolLo THEN \E c \in ClobberSites : Covers(iv, c) ELSE \E c \in CallSites : Spans(iv, c)

\* Mutant: the prologue is not told.
NotStored(n) == stores
Stored(n)    == Append(stores, <<ParamReg(n), slots>>)

BindParam ==
  /\ phase = "bind" /\ cursor <= Len(func.params)
  /\ LET t == ParamName(func, cursor)
         r == ParamReg(cursor)
     IN  \/ /\ Lost(cursor)
            /\ locs' = WithPlace(locs, t, Slot(slots)) /\ slots' = slots + 1 /\ stores' = Stored(cursor)
            /\ UNCHANGED <<free, active>>
         \/ /\ ~Lost(cursor)
            /\ locs' = WithPlace(locs, t, Reg(r))
            /\ free' = free \ {r} /\ active' = IF r \in free THEN active \union {t} ELSE active
            /\ UNCHANGED <<slots, stores>>
  /\ cursor' = cursor + 1
  /\ UNCHANGED <<func, phase, starts, info, liveIn, liveOut, changed, ivs, known, todo>>

StartScan ==
  /\ phase = "bind" /\ cursor > Len(func.params)
  /\ phase' = "place" /\ todo' = DOMAIN ivs \ DOMAIN locs
  /\ UNCHANGED <<func, starts, info, liveIn, liveOut, cursor, changed, ivs, known, locs, free, active, slots, stores>>

\* The next of the temporaries still to be placed: the first to start, then the
\* first to end.  (Among equals the source takes them by name.)
NextToPlace == CHOOSE t \in todo : \A u \in todo :
  ivs[t][1] < ivs[u][1] \/ (ivs[t][1] = ivs[u][1] /\ ivs[t][2] <= ivs[u][2])

\* What still holds its register when t starts, and the registers that are free
\* by then.
StillActive(t) == {u \in active : ivs[u][2] >= ivs[t][1]}
FreeAt(t)      == free \union {locs[u][2] : u \in active \ StillActive(t)}

\* Of those that hold a register, the one that does the longest; of two, the one
\* that got it last.  (Among equals the source takes them by position or name.)
Longest(us) == CHOOSE v \in us : \A u \in us :
  ivs[u][2] < ivs[v][2] \/ (ivs[u][2] = ivs[v][2] /\ ivs[u][1] <= ivs[v][1])

ToFrame(t, kept, left) ==
  /\ locs' = WithPlace(locs, t, Slot(slots)) /\ slots' = slots + 1
  /\ active' = kept /\ free' = left
ToRegister(t, kept, left) ==
  /\ left # {}
  /\ locs' = WithPlace(locs, t, Reg(Min(left))) /\ slots' = slots
  /\ active' = kept \union {t} /\ free' = left \ {Min(left)}
\* The pool is full: the value that lives longest goes to the frame.
InPlaceOf(t, v, kept, left) ==
  /\ locs' = WithPlace(WithPlace(locs, v, Slot(slots)), t, locs[v]) /\ slots' = slots + 1
  /\ active' = (kept \ {v}) \union {t} /\ free' = left

PlaceAs(t, kept, left) ==
  \/ (\E c \in CallSites : Spans(ivs[t], c)) /\ ToFrame(t, kept, left)
  \/ (\A c \in CallSites : ~Spans(ivs[t], c)) /\ ToRegister(t, kept, left)
  \/ /\ (\A c \in CallSites : ~Spans(ivs[t], c)) /\ left = {}
     /\ \E v \in kept : v = Longest(kept) /\ ivs[v][2] > ivs[t][2] /\ InPlaceOf(t, v, kept, left)
  \/ /\ (\A c \in CallSites : ~Spans(ivs[t], c)) /\ left = {}
     /\ \A v \in kept : ivs[v][2] <= ivs[t][2]
     /\ ToFrame(t, kept, left)
PlaceNext ==
  /\ phase = "place" /\ todo # {}
  /\ PlaceAs(NextToPlace, StillActive(NextToPlace), FreeAt(NextToPlace))
  /\ todo' = todo \ {NextToPlace}
  /\ UNCHANGED <<func, phase, starts, info, liveIn, liveOut, cursor, changed, ivs, known, stores>>

Allocated == phase = "place" /\ todo = {}

\* What the emitter asks for: places, ranges, slots, the numbering, and the
\* parameters the prologue stores.
Allocation == [locs |-> locs, slots |-> slots, params |-> stores, ivs |-> ivs, starts |-> starts, heap |-> HeapAllocas]

\* The pool registers that hold nothing alive at a number.
FreeRegsAt(a, at) == Pool \ {a.locs[t][2] : t \in {u \in DOMAIN a.ivs : a.locs[u][1] = "reg" /\ Covers(a.ivs[u], at)}}

Release ==
  /\ Allocated
  /\ func' = NoFunction /\ phase' = "idle"
  /\ starts' = << >> /\ info' = << >> /\ liveIn' = << >> /\ liveOut' = << >> /\ cursor' = 0 /\ changed' = FALSE
  /\ ivs' = << >> /\ known' = << >> /\ locs' = << >>
  /\ free' = Pool /\ active' = {} /\ slots' = 0 /\ stores' = << >> /\ todo' = {}

AllocStep == \/ NumberBlock \/ NumberingDone \/ SolveBlock \/ NextRound \/ Solved \/ Explore \/ Explored
             \/ BindParam \/ StartScan \/ PlaceNext

-----------------------------------------------------------------------------
(* What is alive, by paths                                                 *)

\* What is alive after the first k instructions of a block, given what is at
\* its end.
Alive(is, end, k) ==
  (UNION {InstrUses(is[n]) \ Defined(is, k+1..n-1) : n \in k+1..Len(is)}) \union (end \ Defined(is, k+1..Len(is)))

\* What a block reads at its end or on the edges out of it.
ReadsLast(f, b) == TermUses(f.bs[b].term) \union EdgeOut(f, b)

\* The pairs <<b, t>> such that from the start of block b a read of t can be
\* reached without a write: along no edge, one, ... as many as there are blocks.
Iterate(G, x, n) == LET it[m \in Nat] == IF m = 0 THEN x ELSE G[it[m - 1]] IN it[n]
CarriesTo(f, ts) == UNION {{b} \X Succs(f, b) \X (ts \ BlockDefs(f, b)) : b \in DOMAIN f.bs}
Backwards(carries, bs, ts) ==
  [W \in SUBSET (bs \X ts) |-> W \union {<<e[1], e[3]>> : e \in {c \in carries : <<c[2], c[3]>> \in W}}]
WantedFrom(f, reads, ts) == Iterate(Backwards(CarriesTo(f, ts), DOMAIN f.bs, ts), reads, Len(f.bs))
WantedBy(f, reads) == WantedFrom(f, reads, {w[2] : w \in reads})
Wanted(f) == WantedBy(f, UNION {{b} \X Alive(f.bs[b].is, ReadsLast(f, b), 0) : b \in DOMAIN f.bs})

LiveAtEnd(f, wanted, b) == ReadsLast(f, b) \union {w[2] : w \in {v \in wanted : v[1] \in Succs(f, b)}}
LiveAtStart(f, wanted, b) == Alive(f.bs[b].is, LiveAtEnd(f, wanted, b), 0)

\* The phis of a block are written together.
DoneBy(is, k) == IF IsPhi(is[k]) THEN Max({n \in DOMAIN is : IsPhi(is[n])}) ELSE k

-----------------------------------------------------------------------------
(* What the allocator relies on                                            *)

\* The phis of a block stand at its head, each writes a temporary of its own,
\* and any two are written on the way in from a block both name.
PhisFirst(f) ==
  \A b \in DOMAIN f.bs : \A k \in DOMAIN f.bs[b].is : IsPhi(f.bs[b].is[k]) =>
    /\ f.bs[b].is[k].d # "" /\ DOMAIN f.bs[b].is[k].as = DOMAIN f.bs[b].is[k].from
    /\ \A n \in 1..k : /\ IsPhi(f.bs[b].is[n])
                       /\ f.bs[b].is[n].d = f.bs[b].is[k].d => n = k
                       /\ PhiBlocksOf(f, f.bs[b].is[n]) \cap PhiBlocksOf(f, f.bs[b].is[k]) # {}
\* What is alive where a block starts is a parameter, or a block laid out
\* before it writes it.
LaidOut(f, wanted) ==
  \A b \in DOMAIN f.bs : \A t \in LiveAtStart(f, wanted, b) : t \in Params(f) \/ \E c \in 1..b-1 : t \in BlockDefs(f, c)
\* Each parameter has a name and a register of its own.
Passable(f) == /\ Len(f.params) <= ParamMax
               /\ \A m, n \in DOMAIN f.params : ParamName(f, m) = ParamName(f, n) => m = n
FitsAllocator(f) ==
  /\ f.bs \in Seq(Range(f.bs)) /\ f.params \in Seq(Range(f.params))
  /\ \A b \in DOMAIN f.bs : f.bs[b].is \in Seq(Range(f.bs[b].is))
  /\ Passable(f) /\ PhisFirst(f) /\ LaidOut(f, Wanted(f))

AllocNext == (\E f : FitsAllocator(f) /\ Start(f)) \/ AllocStep \/ Release
AllocSpec == AllocIdle /\ [][AllocNext]_allocator

-----------------------------------------------------------------------------
(* What it promises                                                        *)

\* The registers of the pool, or that a parameter came in, that an instruction
\* changes besides its result's.
Destroys(i, heaped) ==
  CASE i.k = "Call" /\ i.op \in DOMAIN Tags -> {}
    [] i.k = "Call" /\ i.op = UnwrapGuard   -> {1}
    [] i.k = "Call" /\ i.op \notin DOMAIN Tags \union {UnwrapGuard} -> 1..PoolHi
    [] i.k = "PrintInt" \/ (i.k = "Alloca" /\ i.d \in heaped) -> {1}
    [] i.k = "BoundsCheck"                   -> {1, 2}
    [] OTHER                                 -> {}

ApartAt(i, heaped, live) ==
  \A t \in live \ {i.d} : /\ i.d # "" => locs[t] # locs[i.d]
                          /\ locs[t] \notin {Reg(r) : r \in Destroys(i, heaped)}
ApartInBlock(is, end, heaped) == \A k \in DOMAIN is : ApartAt(is[k], heaped, Alive(is, end, DoneBy(is, k)))
ApartIn(f, wanted, heaped) ==
  /\ \A t, u \in Params(f) : (t # u /\ {t, u} \subseteq LiveAtStart(f, wanted, 1)) => locs[t] # locs[u]
  /\ \A b \in DOMAIN f.bs : ApartInBlock(f.bs[b].is, LiveAtEnd(f, wanted, b), heaped)

\* The register allocator gives two values that are alive together two places,
\* and what is alive across a call, a print or a system call no register that
\* it destroys.
LiveApart == Allocated => ApartIn(func, Wanted(func), HeapAllocas)
=============================================================================
