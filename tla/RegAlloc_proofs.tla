---------------------------- MODULE RegAlloc_proofs ----------------------------
(***************************************************************************)
(* Proofs about the register allocator, and about the order in which the   *)
(* emitter makes copies that are meant together.                           *)
(***************************************************************************)
EXTENDS Copies, FiniteSetTheorems, FunctionTheorems, WellFoundedInduction, TLAPS

-----------------------------------------------------------------------------
(* Natural numbers                                                         *)

\* A set of naturals that is not empty has a least element.
LEMMA LeastNatural ==
  ASSUME NEW S, S \subseteq Nat, S # {}
  PROVE  \E x \in S : \A y \in S : x <= y
<1>1. PICK x \in S : \A y \in S : <<y, x>> \notin OpToRel(<, Nat)
  BY NatLessThanWellFounded, WFMin
<1>2. \A y \in S : ~(y < x)
  BY <1>1, Zenon DEF OpToRel
<1> QED
  BY <1>2

\* Induction, over a set of naturals.
LEMMA AllNaturals ==
  ASSUME NEW S, 0 \in S, \A n \in Nat : n \in S => n + 1 \in S
  PROVE  \A n \in Nat : n \in S
<1> SUFFICES ASSUME NEW n \in Nat, n \notin S PROVE FALSE
  OBVIOUS
<1> DEFINE out == {m \in Nat : m \notin S}
<1>1. PICK x \in out : \A y \in out : x <= y
  BY LeastNatural
<1>2. x # 0 /\ x \in Nat
  OBVIOUS
<1>3. x - 1 \in Nat /\ x - 1 \notin out
  BY <1>1, <1>2
<1> QED
  BY <1>2, <1>3

\* A set of naturals that is bounded and not empty has a greatest element.
LEMMA GreatestNatural ==
  ASSUME NEW S, S \subseteq Nat, S # {}, NEW top \in Nat, \A x \in S : x <= top
  PROVE  \E x \in S : \A y \in S : y <= x
<1> DEFINE gaps == {g \in Nat : \E x \in S : g = top - x}
<1>1. PICK s \in S : TRUE
  OBVIOUS
<1>2. top - s \in gaps
  BY <1>1
<1>3. PICK g \in gaps : \A h \in gaps : g <= h
  BY <1>2, LeastNatural
<1>4. PICK x \in S : g = top - x
  OBVIOUS
<1>5. ASSUME NEW y \in S PROVE y <= x
  <2>1. top - y \in gaps
    OBVIOUS
  <2> QED
    BY <1>3, <1>4, <2>1
<1> QED
  BY <1>5

\* The first and the last number of a bounded set of them.
LEMMA HullCovers ==
  ASSUME NEW S, S \subseteq Nat, S # {}, NEW top \in Nat, \A x \in S : x <= top
  PROVE  /\ Hull(S)[1] \in Nat /\ Hull(S)[2] \in Nat /\ Hull(S)[1] <= Hull(S)[2]
         /\ \A x \in S : Hull(S)[1] <= x /\ x <= Hull(S)[2]
<1>1. Min(S) \in S /\ \A y \in S : Min(S) <= y
  BY LeastNatural DEF Min
<1>2. Max(S) \in S /\ \A y \in S : y <= Max(S)
  BY GreatestNatural DEF Max
<1> QED
  BY <1>1, <1>2 DEF Hull

\* A function may be defined from its value at the number before: what Iterate
\* stays in when G does.
LEMMA IterateInside ==
  ASSUME NEW G, NEW x, NEW Good, x \in Good, \A y \in Good : G[y] \in Good, NEW n \in Nat
  PROVE  Iterate(G, x, n) \in Good
<1> DEFINE Upto(g, k) == g \in [0..k -> Good] /\ g[0] = x /\ \A m \in 1..k : g[m] = G[g[m - 1]]
           Step(g)    == [m \in Nat |-> IF m = 0 THEN x ELSE G[g[m - 1]]]
<1>1. ASSUME NEW k \in Nat PROVE \E g : Upto(g, k)
  <2> DEFINE K == {j \in Nat : \E g : Upto(g, j)}
  <2>1. 0 \in K
    <3>1. Upto([m \in 0..0 |-> x], 0)
      OBVIOUS
    <3> QED
      BY <3>1
  <2>2. ASSUME NEW j \in Nat, j \in K PROVE j + 1 \in K
    <3>1. PICK g : Upto(g, j)
      BY <2>2
    <3>2. \A m \in 0..j : g[m] \in Good
      BY <3>1
    <3> DEFINE h == [m \in 0..j+1 |-> IF m = j + 1 THEN G[g[j]] ELSE g[m]]
    <3>3. h \in [0..j+1 -> Good]
      <4>1. ASSUME NEW m \in 0..j+1 PROVE (IF m = j + 1 THEN G[g[j]] ELSE g[m]) \in Good
        BY <3>2
      <4> QED
        BY <4>1
    <3>4. h[0] = x
      BY <3>1
    <3>5. ASSUME NEW m \in 1..j+1 PROVE h[m] = G[h[m - 1]]
      BY <3>1
    <3> HIDE DEF h
    <3> QED
      BY <3>3, <3>4, <3>5
  <2> HIDE DEF K
  <2>3. k \in K
    BY <2>1, <2>2, AllNaturals
  <2> QED
    BY <2>3 DEF K
<1>2. ASSUME NEW k \in Nat, NEW j \in Nat, NEW g, NEW h, Upto(g, k), Upto(h, j), NEW m \in Nat, m <= k, m <= j
      PROVE  g[m] = h[m]
  <2> DEFINE K == {i \in Nat : i <= k /\ i <= j => g[i] = h[i]}
  <2>1. 0 \in K
    BY <1>2
  <2>2. ASSUME NEW i \in Nat, i \in K PROVE i + 1 \in K
    <3> SUFFICES ASSUME i + 1 <= k, i + 1 <= j PROVE g[i + 1] = h[i + 1]
      OBVIOUS
    <3>1. g[i] = h[i]
      BY <2>2
    <3>2. i + 1 \in 1..k /\ i + 1 \in 1..j /\ (i + 1) - 1 = i
      OBVIOUS
    <3>3. g[i + 1] = G[g[(i + 1) - 1]] /\ h[i + 1] = G[h[(i + 1) - 1]]
      BY <1>2, <3>2
    <3> QED
      BY <3>1, <3>2, <3>3
  <2> HIDE DEF K
  <2>3. m \in K
    BY <2>1, <2>2, AllNaturals
  <2> QED
    BY <1>2, <2>3 DEF K
<1> DEFINE a(k) == CHOOSE g : Upto(g, k)
           f    == [m \in Nat |-> a(m)[m]]
<1>3. \A k \in Nat : Upto(a(k), k)
  BY <1>1
<1> HIDE DEF a, Upto
<1>4. f = Step(f)
  <2>1. ASSUME NEW m \in Nat PROVE f[m] = IF m = 0 THEN x ELSE G[f[m - 1]]
    <3>1. CASE m = 0
      BY <1>3, <3>1 DEF Upto
    <3>2. CASE m # 0
      <4>1. m - 1 \in Nat /\ m \in 1..m
        BY <3>2
      <4>2. Upto(a(m), m) /\ Upto(a(m - 1), m - 1)
        BY <1>3, <4>1
      <4>3. a(m)[m] = G[a(m)[m - 1]]
        BY <4>1, <4>2 DEF Upto
      <4>4. a(m)[m - 1] = a(m - 1)[m - 1]
        BY <1>2, <4>1, <4>2
      <4> QED
        BY <3>2, <4>1, <4>3, <4>4
    <3> QED
      BY <3>1, <3>2
  <2> QED
    BY <2>1
<1> DEFINE it == CHOOSE g : g = Step(g)
<1>5. it = Step(it)
  <2> HIDE DEF f, Step
  <2> QED
    BY <1>4
<1>6. Iterate(G, x, n) = it[n]
  BY DEF Iterate
<1> HIDE DEF it
<1>7. \A m \in Nat : it[m] \in Good
  <2> DEFINE K == {m \in Nat : it[m] \in Good}
  <2>1. 0 \in K
    BY <1>5
  <2>2. ASSUME NEW m \in Nat, m \in K PROVE m + 1 \in K
    <3>1. it[m + 1] = G[it[m]]
      BY <1>5
    <3> QED
      BY <2>2, <3>1
  <2> HIDE DEF K
  <2>3. \A m \in Nat : m \in K
    BY <2>1, <2>2, AllNaturals
  <2> QED
    BY <2>3 DEF K
<1> QED
  BY <1>6, <1>7

-----------------------------------------------------------------------------
(* The inductive invariant                                                 *)

\* The numbers of a block end before those of the next one start.
Ascending(f, at) ==
  /\ at \in Seq(Nat) /\ Len(at) <= Len(f.bs)
  /\ \A b \in 1..Len(at) : at[b] >= 1 /\ \A c \in 1..b-1 : at[c] + Len(f.bs[c].is) < at[b]

\* Block b agrees with its successors.
Agrees(b) == liveOut[b] = OutOf(b) /\ liveIn[b] = InOf(b)

\* Every range covers what touches its temporary.
Ranged(iv) == iv[1] \in Nat /\ iv[2] \in Nat /\ iv[1] <= iv[2]
RangesCover ==
  /\ \A t \in DOMAIN ivs : Ranged(ivs[t])
  /\ \A u \in Touches : u[1] \in DOMAIN ivs /\ Covers(ivs[u[1]], u[2])

\* Nothing has a place yet.
Unplaced == locs = << >> /\ free = Pool /\ active = {} /\ slots = 0 /\ todo = {}

Solving == /\ cursor \in 0..Len(func.bs) /\ changed \in BOOLEAN
           /\ DOMAIN liveIn = DOMAIN func.bs /\ DOMAIN liveOut = DOMAIN func.bs
           /\ ~changed => \A b \in DOMAIN func.bs : b > cursor => Agrees(b)

\* What holds before anything is placed, and goes on holding.
Prepared ==
  /\ phase \in {"idle", "number", "solve", "escape", "bind", "place"}
  /\ phase = "idle" => starts = << >>
  /\ phase # "idle" => /\ FitsAllocator(func) /\ Ascending(func, starts)
                       /\ info = [b \in DOMAIN func.bs |-> BlockInfo(func, b)]
  /\ phase \notin {"idle", "number"} => Len(starts) = Len(func.bs)
  /\ phase = "solve" => Solving
  /\ phase \in {"escape", "bind", "place"} => (\A b \in DOMAIN func.bs : Agrees(b)) /\ RangesCover
  /\ phase \notin {"bind", "place"} => Unplaced

\* What holds of places handed out: n slots, the active temporaries act, the
\* free registers fr, and rest still to come.
\* A place is a slot or a register; no two temporaries have one slot.
PlacesTyped(places, n, act) ==
  /\ n \in Nat /\ DOMAIN places \subseteq DOMAIN ivs /\ act \subseteq DOMAIN places
  /\ \A t \in DOMAIN places : (\E m \in Nat : m < n /\ places[t] = Slot(m)) \/ (\E r \in Nat : places[t] = Reg(r))
  /\ \A t, u \in DOMAIN places : \A m \in Nat : places[t] = Slot(m) /\ places[u] = Slot(m) => t = u
\* A register of the pool is free, or one active temporary holds it; one that is
\* no longer active ended before any that is still to come starts.
PoolShared(places, act, fr, rest) ==
  /\ \A r \in fr : r \in Pool /\ \A t \in act : places[t] # Reg(r)
  /\ \A r \in Pool : r \in fr \/ \E t \in act : places[t] = Reg(r)
  /\ \A t \in act : \E r \in Pool : places[t] = Reg(r)
  /\ \A t, u \in act : places[t] = places[u] => t = u
  /\ \A t \in DOMAIN places \ act : \A r \in Pool : places[t] = Reg(r) => \A u \in rest : ivs[t][2] < ivs[u][1]
Disjoint(iv, jv) == iv[2] < jv[1] \/ jv[2] < iv[1]
RegistersApart(places) ==
  \A t, u \in DOMAIN places : \A r \in Nat : t # u /\ places[t] = Reg(r) /\ places[u] = Reg(r) => Disjoint(ivs[t], ivs[u])
\* A parameter is where it came, and nothing destroys that while it is alive; a
\* register any other temporary has is of the pool, and no call comes while it
\* is alive.
MayHold(t, r) ==
  /\ \A n \in DOMAIN func.params : t = ParamName(func, n) => r = ParamReg(n) /\ ~Lost(n)
  /\ t \notin Params(func) => r \in Pool /\ \A c \in CallSites : ~Spans(ivs[t], c)
RegistersKept(places) == \A t \in DOMAIN places : \A r \in Nat : places[t] = Reg(r) => MayHold(t, r)

Sound(places, n, act, fr, rest) ==
  PlacesTyped(places, n, act) /\ PoolShared(places, act, fr, rest) /\ RegistersApart(places) /\ RegistersKept(places)

Binding == /\ cursor \in 1..Len(func.params)+1 /\ todo = {}
           /\ DOMAIN locs = {ParamName(func, n) : n \in 1..cursor-1}
           /\ \A t \in DOMAIN locs \ active : \A r \in Pool : locs[t] # Reg(r)
Placing == DOMAIN locs \union todo = DOMAIN ivs /\ DOMAIN locs \cap todo = {} /\ Params(func) \subseteq DOMAIN locs

Placed ==
  /\ phase \in {"bind", "place"} => Sound(locs, slots, active, free, todo)
  /\ phase = "bind" => Binding
  /\ phase = "place" => Placing

-----------------------------------------------------------------------------
(* Numbers and ranges                                                      *)

\* A function that fits has sequences where it should.
LEMMA Shape ==
  ASSUME NEW f, FitsAllocator(f)
  PROVE  /\ Len(f.bs) \in Nat /\ DOMAIN f.bs = 1..Len(f.bs)
         /\ Len(f.params) \in Nat /\ DOMAIN f.params = 1..Len(f.params)
         /\ \A b \in DOMAIN f.bs : Len(f.bs[b].is) \in Nat /\ DOMAIN f.bs[b].is = 1..Len(f.bs[b].is)
<1>1. f.bs \in Seq(Range(f.bs)) /\ f.params \in Seq(Range(f.params))
  BY DEF FitsAllocator
<1>2. \A b \in DOMAIN f.bs : f.bs[b].is \in Seq(Range(f.bs[b].is))
  BY DEF FitsAllocator
<1> QED
  BY <1>1, <1>2

\* The next block is numbered after the one before it.
LEMMA NextAscends ==
  ASSUME NEW f, FitsAllocator(f), NEW at, Ascending(f, at), Len(at) < Len(f.bs)
  PROVE  Ascending(f, Append(at, IF at = << >> THEN 1 ELSE BlockEnd(f, at, Len(at)) + 1))
<1> DEFINE next == IF at = << >> THEN 1 ELSE BlockEnd(f, at, Len(at)) + 1
           more == Append(at, next)
<1>1. at \in Seq(Nat) /\ Len(at) \in Nat /\ DOMAIN at = 1..Len(at)
  BY DEF Ascending
<1>2. at # << >> => Len(at) \in 1..Len(at) /\ Len(at) \in DOMAIN f.bs
  <2>1. Len(f.bs) \in Nat /\ DOMAIN f.bs = 1..Len(f.bs)
    BY Shape
  <2>2. at # << >> => Len(at) >= 1
    BY <1>1
  <2> QED
    BY <1>1, <2>1, <2>2
<1>3. at # << >> => at[Len(at)] \in Nat /\ at[Len(at)] >= 1 /\ Len(f.bs[Len(at)].is) \in Nat
  <2>1. \A n \in DOMAIN at : at[n] \in Nat /\ at[n] >= 1
    BY DEF Ascending
  <2>2. \A b \in DOMAIN f.bs : Len(f.bs[b].is) \in Nat
    BY Shape
  <2> QED
    BY <1>1, <1>2, <2>1, <2>2
<1>4. next \in Nat /\ next >= 1
  BY <1>3 DEF BlockEnd
<1> HIDE DEF next
<1>5. /\ more \in Seq(Nat) /\ Len(more) = Len(at) + 1 /\ Len(more) <= Len(f.bs)
      /\ \A b \in 1..Len(at) : more[b] = at[b]
      /\ more[Len(at) + 1] = next
  BY <1>1, <1>4, Shape
<1>6. ASSUME NEW c \in 1..Len(at) PROVE at[c] + Len(f.bs[c].is) < next
  <2>1. c \in DOMAIN f.bs /\ Len(f.bs[c].is) \in Nat /\ at[c] \in Nat /\ at # << >>
    BY <1>1, Shape
  <2>2. next = at[Len(at)] + Len(f.bs[Len(at)].is) + 1
    BY <2>1 DEF next, BlockEnd
  <2>3. c < Len(at) => at[c] + Len(f.bs[c].is) < at[Len(at)]
    BY <1>1 DEF Ascending
  <2>4. c < Len(at) \/ c = Len(at)
    <3>1. Len(at) \in Nat
      BY <1>1
    <3> HIDE <1>1
    <3> QED
      BY <3>1
  <2>5. CASE c = Len(at)
    BY <1>3, <2>1, <2>2, <2>5
  <2>6. CASE c < Len(at)
    <3>1. at[c] + Len(f.bs[c].is) < at[Len(at)]
      BY <2>3, <2>6
    <3>2. at[Len(at)] < next
      BY <1>3, <2>1, <2>2
    <3>3. at[c] + Len(f.bs[c].is) \in Nat /\ at[Len(at)] \in Nat
      BY <1>3, <2>1
    <3> QED
      BY <1>4, <3>1, <3>2, <3>3
  <2> QED
    BY <2>4, <2>5, <2>6
<1> HIDE DEF more
<1>7. ASSUME NEW b \in 1..Len(more) PROVE more[b] >= 1 /\ \A c \in 1..b-1 : more[c] + Len(f.bs[c].is) < more[b]
  <2>1. CASE b \in 1..Len(at)
    <3>1. more[b] = at[b] /\ \A c \in 1..b-1 : more[c] = at[c]
      BY <1>1, <1>5, <2>1
    <3> QED
      BY <2>1, <3>1 DEF Ascending
  <2>2. CASE b = Len(at) + 1
    <3>1. more[b] = next /\ \A c \in 1..b-1 : c \in 1..Len(at) /\ more[c] = at[c]
      BY <1>1, <1>5, <2>2
    <3> QED
      BY <1>4, <1>6, <3>1
  <2> QED
    BY <1>1, <1>5, <2>1, <2>2
<1> QED
  BY <1>5, <1>7 DEF Ascending, more, next

\* The numbers of a numbered function.
AllNumbered(f, at) == FitsAllocator(f) /\ Ascending(f, at) /\ Len(at) = Len(f.bs)

LEMMA NumbersAscend ==
  ASSUME NEW f, NEW at, AllNumbered(f, at)
  PROVE  /\ \A b \in DOMAIN f.bs : at[b] \in Nat /\ at[b] >= 1 /\ BlockEnd(f, at, b) \in Nat
         /\ \A b, c \in DOMAIN f.bs : c < b => BlockEnd(f, at, c) < at[b]
<1>1. DOMAIN f.bs = 1..Len(at) /\ Len(at) \in Nat
  BY Shape DEF AllNumbered
<1>2. ASSUME NEW b \in DOMAIN f.bs PROVE at[b] \in Nat /\ at[b] >= 1 /\ Len(f.bs[b].is) \in Nat
  BY <1>1, Shape DEF AllNumbered, Ascending
<1>3. ASSUME NEW b \in DOMAIN f.bs, NEW c \in DOMAIN f.bs, c < b PROVE at[c] + Len(f.bs[c].is) < at[b]
  <2>1. b \in 1..Len(at) /\ c \in 1..b-1
    BY <1>1, <1>3
  <2> QED
    BY <2>1 DEF AllNumbered, Ascending
<1> QED
  BY <1>2, <1>3 DEF BlockEnd

\* The last number.
Top(f, at) == IF Len(f.bs) = 0 THEN 0 ELSE BlockEnd(f, at, Len(f.bs))
LEMMA EndsBelowTop ==
  ASSUME NEW f, NEW at, AllNumbered(f, at)
  PROVE  /\ Top(f, at) \in Nat
         /\ \A b \in DOMAIN f.bs : BlockEnd(f, at, b) <= Top(f, at)
         /\ \A b \in DOMAIN f.bs : \A k \in DOMAIN f.bs[b].is : at[b] + k - 1 \in Nat /\ at[b] + k - 1 < BlockEnd(f, at, b)
<1>1. Len(f.bs) \in Nat /\ DOMAIN f.bs = 1..Len(f.bs)
  BY Shape DEF AllNumbered
<1>2. Len(f.bs) # 0 => Len(f.bs) \in DOMAIN f.bs
  BY <1>1
<1>3. Top(f, at) \in Nat
  BY <1>2, NumbersAscend DEF Top
<1>4. ASSUME NEW b \in DOMAIN f.bs PROVE BlockEnd(f, at, b) <= Top(f, at)
  <2>1. Len(f.bs) # 0 /\ Top(f, at) = BlockEnd(f, at, Len(f.bs)) /\ Len(f.bs) \in DOMAIN f.bs
    BY <1>1, <1>2 DEF Top
  <2>2. at[Len(f.bs)] <= BlockEnd(f, at, Len(f.bs))
    BY <2>1, Shape, NumbersAscend DEF AllNumbered, BlockEnd
  <2>3. CASE b = Len(f.bs)
    BY <1>3, <2>1, <2>3
  <2>4. CASE b < Len(f.bs)
    <3>1. BlockEnd(f, at, b) < at[Len(f.bs)]
      BY <2>1, <2>4, NumbersAscend
    <3> QED
      BY <2>1, <2>2, <3>1, NumbersAscend
  <2> QED
    BY <1>1, <2>3, <2>4
<1>5. ASSUME NEW b \in DOMAIN f.bs, NEW k \in DOMAIN f.bs[b].is
      PROVE  at[b] + k - 1 \in Nat /\ at[b] + k - 1 < BlockEnd(f, at, b)
  <2>1. Len(f.bs[b].is) \in Nat /\ k \in 1..Len(f.bs[b].is) /\ at[b] \in Nat
    BY Shape, NumbersAscend DEF AllNumbered
  <2> QED
    BY <2>1 DEF BlockEnd
<1> QED
  BY <1>3, <1>4, <1>5

\* Every touch is a temporary and a number up to the last.
LEMMA TouchesBounded ==
  ASSUME AllNumbered(func, starts)
  PROVE  \A u \in Touches : u[2] \in Nat /\ u[2] <= Top(func, starts)
<1> DEFINE top == Top(func, starts)
           Low(n) == n \in Nat /\ n <= top
<1>1. top \in Nat
  BY EndsBelowTop
<1>2. \A b \in DOMAIN func.bs : Low(BlockEnd(func, starts, b)) /\ Low(starts[b])
  <2> SUFFICES ASSUME NEW b \in DOMAIN func.bs PROVE Low(BlockEnd(func, starts, b)) /\ Low(starts[b])
    OBVIOUS
  <2>1. BlockEnd(func, starts, b) \in Nat /\ BlockEnd(func, starts, b) <= top /\ starts[b] \in Nat
    BY EndsBelowTop, NumbersAscend
  <2>2. Len(func.bs[b].is) \in Nat
    BY Shape DEF AllNumbered
  <2>3. starts[b] <= BlockEnd(func, starts, b)
    BY <2>1, <2>2 DEF BlockEnd
  <2> QED
    BY <1>1, <2>1, <2>3
<1>3. \A b \in DOMAIN func.bs : \A k \in DOMAIN func.bs[b].is : Low(Number(b, k))
  <2> SUFFICES ASSUME NEW b \in DOMAIN func.bs, NEW k \in DOMAIN func.bs[b].is PROVE Low(Number(b, k))
    OBVIOUS
  <2>1. Number(b, k) \in Nat /\ Number(b, k) < BlockEnd(func, starts, b)
    BY EndsBelowTop DEF Number
  <2>2. Low(BlockEnd(func, starts, b))
    BY <1>2
  <2> QED
    BY <1>1, <2>1, <2>2
<1>4. Low(0)
  BY <1>1
<1> HIDE DEF Low
<1>5. \A ts, n : Low(n) => \A u \in AllAt(ts, n) : Low(u[2])
  BY DEF AllAt
<1>6. \A i, n : Low(n) => \A u \in InstrTouches(i, n) : Low(u[2])
  <2> SUFFICES ASSUME NEW i, NEW n, Low(n), NEW u \in InstrTouches(i, n) PROVE Low(u[2])
    OBVIOUS
  <2>1. PhiBlocksOf(func, i) \subseteq DOMAIN func.bs
    BY DEF PhiBlocksOf
  <2>2. \/ u \in AllAt(InstrUses(i) \union ({i.d} \ {""}), n)
        \/ \E p \in PhiBlocksOf(func, i) : u \in AllAt({i.d} \ {""}, BlockEnd(func, starts, p))
    BY Zenon DEF InstrTouches
  <2> QED
    BY <1>2, <1>5, <2>1, <2>2
<1>7. \A b \in DOMAIN func.bs : \A u \in BlockTouches(b) : Low(u[2])
  <2> SUFFICES ASSUME NEW b \in DOMAIN func.bs, NEW u \in BlockTouches(b) PROVE Low(u[2])
    OBVIOUS
  <2>1. \/ u \in AllAt(liveIn[b], starts[b])
        \/ u \in AllAt(liveOut[b] \union TermUses(func.bs[b].term) \union info[b].edge, BlockEnd(func, starts, b))
        \/ \E k \in DOMAIN func.bs[b].is : u \in InstrTouches(func.bs[b].is[k], Number(b, k))
    BY DEF BlockTouches
  <2> QED
    BY <1>2, <1>3, <1>5, <1>6, <2>1
<1>8. \A u \in Touches : Low(u[2])
  BY <1>4, <1>5, <1>7 DEF Touches
<1> QED
  BY <1>8 DEF Low

\* A range made of touches covers them.
LEMMA IntervalsCover ==
  ASSUME NEW T, NEW top \in Nat, \A u \in T : u[2] \in Nat /\ u[2] <= top
  PROVE  /\ \A t \in DOMAIN Intervals(T) : Ranged(Intervals(T)[t])
         /\ \A u \in T : u[1] \in DOMAIN Intervals(T) /\ Covers(Intervals(T)[u[1]], u[2])
<1> DEFINE N(t) == {u[2] : u \in {w \in T : w[1] = t}}
<1>1. DOMAIN Intervals(T) = {u[1] : u \in T} /\ \A t \in DOMAIN Intervals(T) : Intervals(T)[t] = Hull(N(t))
  BY DEF Intervals
<1>2. \A t \in DOMAIN Intervals(T) : N(t) \subseteq Nat /\ N(t) # {} /\ \A n \in N(t) : n <= top
  BY <1>1
<1>3. \A u \in T : u[1] \in DOMAIN Intervals(T) /\ u[2] \in N(u[1])
  BY <1>1
<1> HIDE DEF N
<1>4. ASSUME NEW t \in DOMAIN Intervals(T)
      PROVE  /\ Hull(N(t))[1] \in Nat /\ Hull(N(t))[2] \in Nat /\ Hull(N(t))[1] <= Hull(N(t))[2]
             /\ \A x \in N(t) : Hull(N(t))[1] <= x /\ x <= Hull(N(t))[2]
  BY <1>2, HullCovers
<1> QED
  BY <1>1, <1>3, <1>4 DEF Ranged, Covers

-----------------------------------------------------------------------------
(* Before anything is placed                                               *)

Alone == UNCHANGED <<func, starts, info, liveIn, liveOut, ivs>>

\* Placing changes no number, no range and nothing that is known to be alive.
LEMMA RangesStay ==
  ASSUME Alone
  PROVE  RangesCover' = RangesCover /\ \A b : Agrees(b)' = Agrees(b)
<1>1. Touches' = Touches
  BY DEF Alone, Touches, BlockTouches, InstrTouches, Number
<1>2. \A b : Agrees(b)' = Agrees(b)
  BY DEF Alone, Agrees, OutOf, InOf
<1>3. RangesCover' = RangesCover
  BY <1>1 DEF Alone, RangesCover
<1> QED
  BY <1>2, <1>3

Late == {"escape", "bind", "place"}
LEMMA PreparedStays ==
  ASSUME Prepared, Alone, phase \in Late, phase' \in Late,
         phase' = "escape" => phase = "escape" /\ UNCHANGED <<locs, free, active, slots, todo>>
  PROVE  Prepared'
<1>1. /\ FitsAllocator(func) /\ Ascending(func, starts) /\ Len(starts) = Len(func.bs)
      /\ info = [b \in DOMAIN func.bs |-> BlockInfo(func, b)]
      /\ (\A b \in DOMAIN func.bs : Agrees(b)) /\ RangesCover
      /\ phase = "escape" => Unplaced
  BY DEF Prepared, Late
<1>2. (\A b \in DOMAIN func.bs : Agrees(b))' /\ RangesCover'
  BY <1>1, RangesStay DEF Alone
<1>3. phase' = "escape" => Unplaced'
  BY <1>1 DEF Unplaced
<1>4. /\ FitsAllocator(func)' /\ Ascending(func, starts)' /\ (Len(starts) = Len(func.bs))'
      /\ (info = [b \in DOMAIN func.bs |-> BlockInfo(func, b)])'
  BY <1>1 DEF Alone
<1> QED
  BY <1>2, <1>3, <1>4 DEF Prepared, Late

LEMMA PreparedAtStart ==
  ASSUME Prepared, NEW f, FitsAllocator(f), Start(f)
  PROVE  Prepared'
<1>1. starts = << >> /\ Unplaced /\ phase = "idle"
  BY DEF Prepared, Start
<1>2. Len(f.bs) \in Nat
  BY Shape
<1>3. Ascending(func', starts')
  BY <1>1, <1>2 DEF Start, Ascending
<1>4. Unplaced'
  BY <1>1 DEF Unplaced, Start
<1> QED
  BY <1>3, <1>4 DEF Prepared, Start

LEMMA PreparedNumbering ==
  ASSUME Prepared, NumberBlock
  PROVE  Prepared'
<1>1. /\ FitsAllocator(func) /\ Ascending(func, starts) /\ Unplaced
      /\ info = [b \in DOMAIN func.bs |-> BlockInfo(func, b)]
  BY DEF Prepared, NumberBlock
<1>2. Ascending(func, starts')
  <2>1. Len(starts) < Len(func.bs)
    BY DEF NumberBlock
  <2> QED
    BY <1>1, <2>1, NextAscends DEF NumberBlock
<1>3. Unplaced'
  BY <1>1 DEF Unplaced, NumberBlock
<1> QED
  BY <1>1, <1>2, <1>3 DEF Prepared, NumberBlock

LEMMA PreparedToSolve ==
  ASSUME Prepared, NumberingDone
  PROVE  Prepared'
<1>1. /\ FitsAllocator(func) /\ Ascending(func, starts) /\ Unplaced
      /\ info = [b \in DOMAIN func.bs |-> BlockInfo(func, b)]
  BY DEF Prepared, NumberingDone
<1>2. Unplaced'
  BY <1>1 DEF Unplaced, NumberingDone
<1>3. Len(func.bs) \in Nat /\ DOMAIN func.bs = 1..Len(func.bs)
  BY <1>1, Shape
<1>4. Solving'
  <2>1. cursor' \in 0..Len(func'.bs) /\ changed' \in BOOLEAN
    <3>1. cursor' = Len(func.bs) /\ func' = func /\ changed' = FALSE
      BY DEF NumberingDone
    <3>2. Len(func.bs) \in 0..Len(func.bs)
      BY <1>3
    <3> QED
      BY <3>1, <3>2
  <2>2. DOMAIN liveIn' = DOMAIN func'.bs /\ DOMAIN liveOut' = DOMAIN func'.bs
    BY DEF NumberingDone
  <2>3. \A b \in DOMAIN func'.bs : ~(b > cursor')
    <3>1. func' = func /\ cursor' = Len(func.bs)
      BY DEF NumberingDone
    <3> QED
      BY <1>3, <3>1
  <2> QED
    BY <2>1, <2>2, <2>3 DEF Solving
<1> QED
  BY <1>1, <1>2, <1>4 DEF Prepared, NumberingDone

\* A round that learnt nothing so far left every block as it was, so the blocks
\* it is done with still agree with their successors.
LEMMA PreparedSolving ==
  ASSUME Prepared, SolveBlock
  PROVE  Prepared'
<1>1. /\ FitsAllocator(func) /\ Ascending(func, starts) /\ Unplaced /\ Solving
      /\ info = [b \in DOMAIN func.bs |-> BlockInfo(func, b)]
      /\ Len(starts) = Len(func.bs)
  BY DEF Prepared, SolveBlock
<1>2. Unplaced'
  BY <1>1 DEF Unplaced, SolveBlock
<1>3. Len(func.bs) \in Nat /\ DOMAIN func.bs = 1..Len(func.bs) /\ cursor \in 1..Len(func.bs)
  BY <1>1, Shape DEF Solving, SolveBlock
<1>4. Solving'
  <2>1. cursor' \in 0..Len(func'.bs) /\ changed' \in BOOLEAN
    BY <1>1, <1>3 DEF SolveBlock, Learnt
  <2>2. DOMAIN liveIn' = DOMAIN func'.bs /\ DOMAIN liveOut' = DOMAIN func'.bs
    BY <1>1 DEF SolveBlock, Solving
  <2>3. ASSUME ~changed', NEW b \in DOMAIN func'.bs, b > cursor' PROVE Agrees(b)'
    <3>1. ~changed /\ OutOf(cursor) = liveOut[cursor] /\ InOf(cursor) = liveIn[cursor]
      BY <2>3 DEF SolveBlock, Learnt
    <3>2. liveOut' = [liveOut EXCEPT ![cursor] = OutOf(cursor)] /\ liveIn' = [liveIn EXCEPT ![cursor] = InOf(cursor)]
      BY DEF SolveBlock
    <3>3. liveOut' = [c \in DOMAIN liveOut |-> liveOut[c]] /\ liveIn' = [c \in DOMAIN liveIn |-> liveIn[c]]
      BY <3>1, <3>2
    <3>4. \A c \in DOMAIN func.bs : liveOut'[c] = liveOut[c] /\ liveIn'[c] = liveIn[c]
      BY <1>1, <3>3 DEF Solving
    <3>5. \A c \in DOMAIN func.bs : info[c].succs \subseteq DOMAIN func.bs
      BY <1>1 DEF BlockInfo, Succs
    <3>6. info' = info /\ func' = func
      BY DEF SolveBlock
    <3>7. \A c \in DOMAIN func.bs : OutOf(c)' = OutOf(c)
      BY <3>4, <3>5, <3>6 DEF OutOf
    <3>8. \A c \in DOMAIN func.bs : InOf(c)' = InOf(c)
      BY <3>6, <3>7 DEF InOf
    <3>9. Agrees(b)
      <4>1. cursor' = cursor - 1 /\ b \in DOMAIN func.bs
        BY <3>6 DEF SolveBlock
      <4>2. CASE b = cursor
        BY <3>1, <4>2 DEF Agrees
      <4>3. CASE b > cursor
        BY <1>1, <3>1, <4>1, <4>3 DEF Solving
      <4> QED
        BY <1>3, <2>3, <4>1, <4>2, <4>3
    <3> QED
      BY <3>4, <3>6, <3>7, <3>8, <3>9 DEF Agrees
  <2> QED
    BY <2>1, <2>2, <2>3 DEF Solving
<1> QED
  BY <1>1, <1>2, <1>4 DEF Prepared, SolveBlock

LEMMA PreparedNextRound ==
  ASSUME Prepared, NextRound
  PROVE  Prepared'
<1>1. /\ FitsAllocator(func) /\ Ascending(func, starts) /\ Unplaced /\ Solving
      /\ info = [b \in DOMAIN func.bs |-> BlockInfo(func, b)]
      /\ Len(starts) = Len(func.bs)
  BY DEF Prepared, NextRound
<1>2. Unplaced'
  BY <1>1 DEF Unplaced, NextRound
<1>3. Len(func.bs) \in Nat /\ DOMAIN func.bs = 1..Len(func.bs)
  BY <1>1, Shape
<1>4. Solving'
  <2>1. func' = func /\ cursor' = Len(func.bs) /\ changed' = FALSE /\ liveIn' = liveIn /\ liveOut' = liveOut
    BY DEF NextRound
  <2>2. \A b \in DOMAIN func'.bs : ~(b > cursor')
    BY <1>3, <2>1
  <2>3. cursor' \in 0..Len(func'.bs)
    BY <1>3, <2>1
  <2> QED
    BY <1>1, <2>1, <2>2, <2>3 DEF Solving
<1> QED
  BY <1>1, <1>2, <1>4 DEF Prepared, NextRound

LEMMA PreparedSolved ==
  ASSUME Prepared, Solved
  PROVE  Prepared'
<1>1. /\ FitsAllocator(func) /\ Ascending(func, starts) /\ Unplaced /\ Solving
      /\ info = [b \in DOMAIN func.bs |-> BlockInfo(func, b)]
      /\ Len(starts) = Len(func.bs)
  BY DEF Prepared, Solved
<1>2. Unplaced'
  BY <1>1 DEF Unplaced, Solved
<1>3. Len(func.bs) \in Nat /\ DOMAIN func.bs = 1..Len(func.bs)
  BY <1>1, Shape
<1>4. \A b \in DOMAIN func.bs : Agrees(b)
  BY <1>1, <1>3 DEF Solving, Solved
<1>5. (\A b \in DOMAIN func.bs : Agrees(b))'
  BY <1>4 DEF Solved, Agrees, OutOf, InOf
<1>6. Touches' = Touches
  <2>1. UNCHANGED <<func, starts, info, liveIn, liveOut>>
    BY DEF Solved
  <2> QED
    BY <2>1 DEF Touches, BlockTouches, InstrTouches, Number
<1>7. RangesCover'
  <2> DEFINE top == Top(func, starts)
  <2>1. AllNumbered(func, starts)
    BY <1>1 DEF AllNumbered
  <2>2. top \in Nat /\ \A u \in Touches : u[2] \in Nat /\ u[2] <= top
    BY <2>1, TouchesBounded, EndsBelowTop
  <2> HIDE DEF top
  <2>3. /\ \A t \in DOMAIN Intervals(Touches) : Ranged(Intervals(Touches)[t])
        /\ \A u \in Touches : u[1] \in DOMAIN Intervals(Touches) /\ Covers(Intervals(Touches)[u[1]], u[2])
    BY <2>2, IntervalsCover
  <2>4. ivs' = Intervals(Touches)
    BY DEF Solved
  <2> QED
    BY <1>6, <2>3, <2>4 DEF RangesCover
<1> QED
  BY <1>1, <1>2, <1>5, <1>7 DEF Prepared, Solved

LEMMA PreparedInit ==
  ASSUME AllocIdle
  PROVE  Prepared
BY DEF AllocIdle, Prepared, Unplaced

LEMMA PreparedNext ==
  ASSUME Prepared, [AllocNext]_allocator
  PROVE  Prepared'
<1>1. CASE \E f : FitsAllocator(f) /\ Start(f)
  BY <1>1, PreparedAtStart
<1>2. CASE NumberBlock
  BY <1>2, PreparedNumbering
<1>3. CASE NumberingDone
  BY <1>3, PreparedToSolve
<1>4. CASE SolveBlock
  BY <1>4, PreparedSolving
<1>5. CASE NextRound
  BY <1>5, PreparedNextRound
<1>6. CASE Solved
  BY <1>6, PreparedSolved
<1>7. CASE Explore
  BY <1>7, PreparedStays DEF Explore, Alone, Late
<1>8. CASE Explored
  BY <1>8, PreparedStays DEF Explored, Alone, Late
<1>9. CASE BindParam
  BY <1>9, PreparedStays DEF BindParam, Alone, Late
<1>10. CASE StartScan
  BY <1>10, PreparedStays DEF StartScan, Alone, Late
<1>11. CASE PlaceNext
  BY <1>11, PreparedStays DEF PlaceNext, Alone, Late
<1>12. CASE Release
  <2>1. AllocIdle'
    BY <1>12 DEF Release, AllocIdle
  <2> QED
    BY <2>1 DEF AllocIdle, Prepared, Unplaced
<1>13. CASE UNCHANGED allocator
  <2>1. Touches' = Touches
    BY <1>13 DEF allocator, Touches, BlockTouches, InstrTouches, Number
  <2>2. RangesCover' = RangesCover
    BY <1>13, <2>1 DEF allocator, RangesCover
  <2>3. \A b : Agrees(b)' = Agrees(b)
    BY <1>13 DEF allocator, Agrees, OutOf, InOf
  <2>4. Solving' = Solving
    BY <1>13, <2>3 DEF allocator, Solving
  <2>5. Unplaced' = Unplaced
    BY <1>13 DEF allocator, Unplaced
  <2> QED
    BY <1>13, <2>2, <2>3, <2>4, <2>5 DEF allocator, Prepared
<1> QED
  BY <1>1, <1>2, <1>3, <1>4, <1>5, <1>6, <1>7, <1>8, <1>9, <1>10, <1>11, <1>12, <1>13 DEF AllocNext, AllocStep

\* Until the allocator is done with a function, the blocks it has solved agree
\* with their successors and the ranges cover every place a temporary is
\* written, read or alive.
THEOREM AllocPrepared == AllocSpec => []Prepared
<1>1. AllocIdle => Prepared
  BY PreparedInit
<1>2. Prepared /\ [AllocNext]_allocator => Prepared'
  BY PreparedNext
<1> QED
  BY <1>1, <1>2, PTL DEF AllocSpec

-----------------------------------------------------------------------------
(* Placing                                                                 *)

LEMMA Places ==
  /\ \A m, n : Slot(m) = Slot(n) => m = n
  /\ \A q, r : Reg(q) = Reg(r) => q = r
  /\ \A m, r : Slot(m) # Reg(r)
  /\ \A r : Reg(r)[2] = r
  /\ \A r \in Pool : r \in Nat /\ r >= PoolLo
BY RegistersAssumption DEF Slot, Reg, Pool, PoolLo

HasPlace(more, places, t, p) ==
  /\ DOMAIN more = DOMAIN places \union {t} /\ more[t] = p
  /\ \A u \in DOMAIN places : u # t => more[u] = places[u]
LEMMA WithPlaceHas ==
  ASSUME NEW places, NEW t, NEW p
  PROVE  HasPlace(WithPlace(places, t, p), places, t, p)
BY DEF WithPlace, HasPlace

\* A temporary that goes to the frame gets a slot nothing else has.
LEMMA SoundSlot ==
  ASSUME NEW places, NEW n, NEW act, NEW fr, NEW rest, Sound(places, n, act, fr, rest),
         NEW t \in DOMAIN ivs, t \notin DOMAIN places
  PROVE  Sound(WithPlace(places, t, Slot(n)), n + 1, act, fr, rest)
<1> DEFINE more == WithPlace(places, t, Slot(n))
<1>1. /\ DOMAIN more = DOMAIN places \union {t} /\ more[t] = Slot(n)
      /\ \A u \in DOMAIN places : more[u] = places[u]
  <2>1. HasPlace(more, places, t, Slot(n))
    BY WithPlaceHas
  <2> HIDE DEF more
  <2> QED
    BY <2>1 DEF HasPlace
<1> HIDE DEF more
<1>2. PlacesTyped(places, n, act) /\ PoolShared(places, act, fr, rest) /\ RegistersApart(places) /\ RegistersKept(places)
  BY DEF Sound
<1>3. n \in Nat /\ t \notin act
  BY <1>2 DEF PlacesTyped
<1>4. PlacesTyped(more, n + 1, act)
  <2>1. DOMAIN more \subseteq DOMAIN ivs /\ act \subseteq DOMAIN more
    BY <1>1, <1>2 DEF PlacesTyped
  <2>2. \A u \in DOMAIN more : (\E m \in Nat : m < n + 1 /\ more[u] = Slot(m)) \/ (\E r \in Nat : more[u] = Reg(r))
    <3>1. \A u \in DOMAIN places : (\E m \in Nat : m < n /\ more[u] = Slot(m)) \/ (\E r \in Nat : more[u] = Reg(r))
      BY <1>1, <1>2 DEF PlacesTyped
    <3>2. \A m \in Nat : m < n => m < n + 1
      BY <1>3
    <3>3. n < n + 1
      BY <1>3
    <3> HIDE <1>2
    <3> QED
      BY <1>1, <1>3, <3>1, <3>2, <3>3
  <2>3. \A u \in DOMAIN places : places[u] # Slot(n)
    BY <1>2, <1>3, Places DEF PlacesTyped
  <2>4. \A u, v \in DOMAIN more : \A m \in Nat : more[u] = Slot(m) /\ more[v] = Slot(m) => u = v
    <3>1. \A u, v \in DOMAIN places : \A m \in Nat : more[u] = Slot(m) /\ more[v] = Slot(m) => u = v
      BY <1>1, <1>2 DEF PlacesTyped
    <3>2. \A u \in DOMAIN places : more[u] # Slot(n)
      BY <1>1, <2>3
    <3>3. \A m : Slot(m) = Slot(n) => m = n
      BY Places
    <3> QED
      BY <1>1, <3>1, <3>2, <3>3
  <2> QED
    BY <1>3, <2>1, <2>2, <2>4 DEF PlacesTyped
<1>5. act \subseteq DOMAIN places
  BY <1>2 DEF PlacesTyped
<1>6. PoolShared(more, act, fr, rest)
  <2>1. \A u \in act : more[u] = places[u]
    BY <1>1, <1>5
  <2>2. \A u \in DOMAIN more \ act : \A r \in Pool : more[u] = Reg(r) => u \in DOMAIN places \ act /\ places[u] = Reg(r)
    BY <1>1, Places
  <2>3. \A u \in DOMAIN more \ act : \A r \in Pool : more[u] = Reg(r) => \A w \in rest : ivs[u][2] < ivs[w][1]
    BY <1>2, <2>2 DEF PoolShared
  <2> QED
    BY <1>2, <2>1, <2>3 DEF PoolShared
<1>7. \A u \in DOMAIN more : \A r \in Nat : more[u] = Reg(r) => u \in DOMAIN places /\ places[u] = Reg(r)
  BY <1>1, Places
<1>8. RegistersApart(more)
  BY <1>2, <1>7 DEF RegistersApart
<1>9. RegistersKept(more)
  BY <1>2, <1>7 DEF RegistersKept
<1> QED
  BY <1>4, <1>6, <1>8, <1>9 DEF Sound, more

\* A temporary may have a register that was held only by what ended before it.
LEMMA SoundRegister ==
  ASSUME NEW places, NEW n, NEW act, NEW fr, NEW rest, Sound(places, n, act, fr, rest),
         NEW t \in DOMAIN ivs, t \notin DOMAIN places, NEW r \in Nat, MayHold(t, r),
         \A u \in DOMAIN places : places[u] = Reg(r) => Disjoint(ivs[u], ivs[t]),
         NEW took, NEW left,
         \/ r \in fr /\ took = act \union {t} /\ left = fr \ {r}
         \/ r \notin Pool /\ took = act /\ left = fr
  PROVE  Sound(WithPlace(places, t, Reg(r)), n, took, left, rest)
<1> DEFINE more == WithPlace(places, t, Reg(r))
<1>1. /\ DOMAIN more = DOMAIN places \union {t} /\ more[t] = Reg(r)
      /\ \A u \in DOMAIN places : more[u] = places[u]
  <2>1. HasPlace(more, places, t, Reg(r))
    BY WithPlaceHas
  <2> HIDE DEF more
  <2> QED
    BY <2>1 DEF HasPlace
<1> HIDE DEF more
<1>2. PlacesTyped(places, n, act) /\ PoolShared(places, act, fr, rest) /\ RegistersApart(places) /\ RegistersKept(places)
  BY DEF Sound
<1>3. n \in Nat /\ t \notin act /\ act \subseteq DOMAIN places /\ DOMAIN places \subseteq DOMAIN ivs
  BY <1>2 DEF PlacesTyped
<1>4. PlacesTyped(more, n, took)
  <2>1. DOMAIN more \subseteq DOMAIN ivs /\ took \subseteq DOMAIN more
    BY <1>1, <1>3
  <2>2. \A u \in DOMAIN more : (\E m \in Nat : m < n /\ more[u] = Slot(m)) \/ (\E q \in Nat : more[u] = Reg(q))
    BY <1>1, <1>2 DEF PlacesTyped
  <2>3. \A u \in DOMAIN more : \A m \in Nat : more[u] = Slot(m) => u \in DOMAIN places /\ places[u] = Slot(m)
    BY <1>1, Places
  <2>4. \A u, v \in DOMAIN more : \A m \in Nat : more[u] = Slot(m) /\ more[v] = Slot(m) => u = v
    BY <1>2, <2>3 DEF PlacesTyped
  <2> QED
    BY <1>3, <2>1, <2>2, <2>4 DEF PlacesTyped
<1>5. \A u \in act : more[u] = places[u]
  BY <1>1, <1>3
<1>6. \A q : Reg(q) = Reg(r) => q = r
  BY Places
<1>7. PoolShared(more, took, left, rest)
  <2>1. CASE r \in fr /\ took = act \union {t} /\ left = fr \ {r}
    <3>1. r \in Pool /\ \A u \in act : places[u] # Reg(r)
      BY <1>2, <2>1 DEF PoolShared
    <3>2. \A q \in left : q \in Pool /\ \A u \in took : more[u] # Reg(q)
      BY <1>1, <1>2, <1>5, <1>6, <2>1 DEF PoolShared
    <3>3. \A q \in Pool : q \in left \/ \E u \in took : more[u] = Reg(q)
      <4>1. \A q \in Pool : q \in fr \/ \E u \in act : more[u] = Reg(q)
        BY <1>2, <1>5 DEF PoolShared
      <4> QED
        BY <1>1, <2>1, <4>1
    <3>4. \A u \in took : \E q \in Pool : more[u] = Reg(q)
      BY <1>1, <1>2, <1>5, <2>1, <3>1 DEF PoolShared
    <3>5. \A u, v \in took : more[u] = more[v] => u = v
      BY <1>1, <1>2, <1>5, <2>1, <3>1 DEF PoolShared
    <3>6. \A u \in DOMAIN more \ took : u \in DOMAIN places \ act /\ more[u] = places[u]
      BY <1>1, <2>1
    <3>7. \A u \in DOMAIN more \ took : \A q \in Pool : more[u] = Reg(q) => \A w \in rest : ivs[u][2] < ivs[w][1]
      BY <1>2, <3>6 DEF PoolShared
    <3> QED
      BY <3>2, <3>3, <3>4, <3>5, <3>7 DEF PoolShared
  <2>2. CASE r \notin Pool /\ took = act /\ left = fr
    <3>1. \A u \in DOMAIN more \ took : \A q \in Pool : more[u] = Reg(q) => u \in DOMAIN places \ act /\ places[u] = Reg(q)
      BY <1>1, <1>6, <2>2
    <3>2. \A u \in DOMAIN more \ took : \A q \in Pool : more[u] = Reg(q) => \A w \in rest : ivs[u][2] < ivs[w][1]
      BY <1>2, <3>1 DEF PoolShared
    <3> QED
      BY <1>2, <1>5, <2>2, <3>2 DEF PoolShared
  <2> QED
    BY <2>1, <2>2
<1>8. RegistersApart(more)
  <2> SUFFICES ASSUME NEW u \in DOMAIN more, NEW v \in DOMAIN more, NEW q \in Nat, u # v, more[u] = Reg(q), more[v] = Reg(q)
               PROVE  Disjoint(ivs[u], ivs[v])
    BY DEF RegistersApart
  <2>1. CASE u # t /\ v # t
    <3>1. u \in DOMAIN places /\ v \in DOMAIN places /\ places[u] = Reg(q) /\ places[v] = Reg(q)
      BY <1>1, <2>1
    <3> QED
      BY <1>2, <3>1 DEF RegistersApart
  <2>2. CASE u = t
    BY <1>1, <1>6, <2>2 DEF Disjoint
  <2>3. CASE v = t
    BY <1>1, <1>6, <2>3 DEF Disjoint
  <2> QED
    BY <2>1, <2>2, <2>3
<1>9. RegistersKept(more)
  <2> SUFFICES ASSUME NEW u \in DOMAIN more, NEW q \in Nat, more[u] = Reg(q) PROVE MayHold(u, q)
    BY DEF RegistersKept
  <2>1. CASE u = t
    BY <1>1, <1>6, <2>1
  <2>2. CASE u # t
    BY <1>1, <1>2, <2>2 DEF RegistersKept
  <2> QED
    BY <2>1, <2>2
<1> QED
  BY <1>4, <1>7, <1>8, <1>9 DEF Sound, more

\* A register is taken from an active temporary, which goes to the frame.
LEMMA SoundEvict ==
  ASSUME NEW places, NEW n, NEW act, NEW fr, NEW rest, Sound(places, n, act, fr, rest),
         NEW v \in act, NEW r \in Pool, places[v] = Reg(r)
  PROVE  Sound(WithPlace(places, v, Slot(n)), n + 1, act \ {v}, fr \union {r}, rest)
<1> DEFINE more == WithPlace(places, v, Slot(n))
<1>2. PlacesTyped(places, n, act) /\ PoolShared(places, act, fr, rest) /\ RegistersApart(places) /\ RegistersKept(places)
  BY DEF Sound
<1>3. n \in Nat /\ act \subseteq DOMAIN places /\ DOMAIN places \subseteq DOMAIN ivs
  BY <1>2 DEF PlacesTyped
<1>1. /\ DOMAIN more = DOMAIN places /\ more[v] = Slot(n)
      /\ \A u \in DOMAIN places : u # v => more[u] = places[u]
  <2>1. HasPlace(more, places, v, Slot(n))
    BY WithPlaceHas
  <2> HIDE DEF more
  <2> QED
    BY <1>3, <2>1 DEF HasPlace
<1> HIDE DEF more
<1>4. PlacesTyped(more, n + 1, act \ {v})
  <2>2. \A u \in DOMAIN more : (\E m \in Nat : m < n + 1 /\ more[u] = Slot(m)) \/ (\E q \in Nat : more[u] = Reg(q))
    <3>1. \A u \in DOMAIN places : u # v => (\E m \in Nat : m < n /\ more[u] = Slot(m)) \/ (\E q \in Nat : more[u] = Reg(q))
      BY <1>1, <1>2 DEF PlacesTyped
    <3>2. \A m \in Nat : m < n => m < n + 1
      BY <1>3
    <3>3. n < n + 1
      BY <1>3
    <3> HIDE <1>2
    <3> QED
      BY <1>1, <1>3, <3>1, <3>2, <3>3
  <2>3. \A u \in DOMAIN places : places[u] # Slot(n)
    BY <1>2, <1>3, Places DEF PlacesTyped
  <2>4. \A u, w \in DOMAIN more : \A m \in Nat : more[u] = Slot(m) /\ more[w] = Slot(m) => u = w
    <3>1. \A u, w \in DOMAIN places : \A m \in Nat : u # v /\ w # v /\ more[u] = Slot(m) /\ more[w] = Slot(m) => u = w
      BY <1>1, <1>2 DEF PlacesTyped
    <3>2. \A u \in DOMAIN places : u # v => more[u] # Slot(n)
      BY <1>1, <2>3
    <3>3. \A m : Slot(m) = Slot(n) => m = n
      BY Places
    <3> QED
      BY <1>1, <3>1, <3>2, <3>3
  <2> QED
    BY <1>1, <1>3, <2>2, <2>4 DEF PlacesTyped
<1>5. \A u \in act \ {v} : more[u] = places[u]
  BY <1>1, <1>3
<1>6. \A q : Reg(q) = Reg(r) => q = r
  BY Places
<1>7. \A u \in DOMAIN more : \A q : more[u] = Reg(q) => u # v /\ places[u] = Reg(q)
  BY <1>1, Places
<1>8. PoolShared(more, act \ {v}, fr \union {r}, rest)
  <2>1. \A q \in fr \union {r} : q \in Pool /\ \A u \in act \ {v} : more[u] # Reg(q)
    <3>1. \A u \in act \ {v} : places[u] # Reg(r)
      BY <1>2 DEF PoolShared
    <3> QED
      BY <1>2, <1>5, <3>1 DEF PoolShared
  <2>2. \A q \in Pool : q \in fr \union {r} \/ \E u \in act \ {v} : more[u] = Reg(q)
    <3>1. \A q \in Pool : q \in fr \/ \E u \in act : places[u] = Reg(q)
      BY <1>2 DEF PoolShared
    <3> QED
      BY <1>5, <1>6, <3>1
  <2>3. \A u \in act \ {v} : \E q \in Pool : more[u] = Reg(q)
    BY <1>2, <1>5 DEF PoolShared
  <2>4. \A u, w \in act \ {v} : more[u] = more[w] => u = w
    BY <1>2, <1>5 DEF PoolShared
  <2>5. \A u \in DOMAIN more \ (act \ {v}) : \A q \in Pool : more[u] = Reg(q) => u \in DOMAIN places \ act /\ places[u] = Reg(q)
    BY <1>1, <1>7
  <2>6. \A u \in DOMAIN more \ (act \ {v}) : \A q \in Pool : more[u] = Reg(q) => \A w \in rest : ivs[u][2] < ivs[w][1]
    BY <1>2, <2>5 DEF PoolShared
  <2> QED
    BY <2>1, <2>2, <2>3, <2>4, <2>6 DEF PoolShared
<1>9. RegistersApart(more)
  BY <1>1, <1>2, <1>7 DEF RegistersApart
<1>10. RegistersKept(more)
  BY <1>1, <1>2, <1>7 DEF RegistersKept
<1> QED
  BY <1>4, <1>8, <1>9, <1>10 DEF Sound, more

\* What no step of placing changes.
LEMMA SoundStays ==
  ASSUME UNCHANGED <<func, starts, known, ivs>>, Sound(locs', slots', active', free', todo')
  PROVE  Sound(locs, slots, active, free, todo)'
<1>1. CallSites' = CallSites /\ ClobberSites' = ClobberSites
  BY DEF CallSites, ClobberSites, Number, Clobbers, HeapAllocas
<1>2. \A n : Lost(n)' = Lost(n)
  BY <1>1 DEF Lost
<1>3. \A t, r : MayHold(t, r)' = MayHold(t, r)
  BY <1>1, <1>2 DEF MayHold
<1>4. RegistersKept(locs') => RegistersKept(locs)'
  BY <1>3 DEF RegistersKept
<1>5. RegistersApart(locs') => RegistersApart(locs)'
  BY DEF RegistersApart
<1>6. PoolShared(locs', active', free', todo') => PoolShared(locs, active, free, todo)'
  BY DEF PoolShared
<1>7. PlacesTyped(locs', slots', active') => PlacesTyped(locs, slots, active)'
  BY DEF PlacesTyped
<1> QED
  BY <1>4, <1>5, <1>6, <1>7 DEF Sound

\* Each parameter has a name, a range and a register of its own.
LEMMA ParamsDiffer ==
  ASSUME Prepared, phase \in {"bind", "place"}
  PROVE  /\ Len(func.params) \in Nat /\ Len(func.params) <= ParamMax
         /\ Params(func) = {ParamName(func, n) : n \in 1..Len(func.params)}
         /\ Params(func) \subseteq DOMAIN ivs
         /\ \A n \in 1..Len(func.params) : ParamReg(n) = n
         /\ \A m, n \in 1..Len(func.params) : ParamName(func, m) = ParamName(func, n) => m = n
<1>1. FitsAllocator(func) /\ RangesCover
  BY DEF Prepared
<1>2. Len(func.params) \in Nat /\ DOMAIN func.params = 1..Len(func.params) /\ Passable(func)
  BY <1>1, Shape DEF FitsAllocator
<1>3. Len(func.params) <= ParamMax /\ \A m, n \in 1..Len(func.params) : ParamName(func, m) = ParamName(func, n) => m = n
  BY <1>2 DEF Passable
<1>4. Params(func) = {ParamName(func, n) : n \in 1..Len(func.params)}
  BY <1>2 DEF Params, ParamName
<1>5. ASSUME NEW t \in Params(func) PROVE t \in DOMAIN ivs
  <2>1. <<t, 0>> \in Touches
    BY DEF Touches, AllAt
  <2> QED
    BY <1>1, <2>1 DEF RangesCover
<1>6. \A n \in 1..Len(func.params) : ParamReg(n) = n
  BY <1>2, <1>3, RegistersAssumption DEF ParamReg
<1> QED
  BY <1>2, <1>3, <1>4, <1>5, <1>6

LEMMA PlacedAtBind ==
  ASSUME Prepared, Explored
  PROVE  Placed'
<1>1. Unplaced /\ FitsAllocator(func)
  BY DEF Prepared, Explored
<1>2. locs' = << >> /\ free' = Pool /\ active' = {} /\ slots' = 0 /\ todo' = {} /\ cursor' = 1 /\ func' = func /\ phase' = "bind"
  BY <1>1 DEF Unplaced, Explored
<1>3. Sound(locs', slots', active', free', todo')
  <2>1. DOMAIN << >> = {}
    OBVIOUS
  <2> QED
    BY <1>2, <2>1 DEF Sound, PlacesTyped, PoolShared, RegistersApart, RegistersKept
<1>4. Sound(locs, slots, active, free, todo)'
  BY <1>3, SoundStays DEF Explored
<1>5. Binding'
  <2>1. Len(func'.params) \in Nat
    BY <1>1, <1>2, Shape
  <2>2. DOMAIN locs' = {} /\ 1..cursor'-1 = {}
    BY <1>2
  <2>3. cursor' \in 1..Len(func'.params)+1
    BY <1>2, <2>1
  <2> QED
    BY <1>2, <2>2, <2>3 DEF Binding
<1> QED
  BY <1>2, <1>4, <1>5 DEF Placed

LEMMA PlacedBinding ==
  ASSUME Prepared, Placed, BindParam
  PROVE  Placed'
<1> DEFINE t == ParamName(func, cursor)
           r == ParamReg(cursor)
<1>1. phase = "bind" /\ cursor <= Len(func.params) /\ cursor' = cursor + 1
  BY DEF BindParam
<1>2. Binding /\ Sound(locs, slots, active, free, todo) /\ todo = {}
  BY <1>1 DEF Placed, Binding
<1>3. /\ Len(func.params) \in Nat
      /\ cursor \in 1..Len(func.params)
      /\ r = cursor /\ t \in Params(func) /\ t \in DOMAIN ivs
  BY <1>1, <1>2, ParamsDiffer DEF Binding
<1>4. \A n \in 1..Len(func.params) : ParamName(func, n) = t => n = cursor
  BY <1>1, <1>3, ParamsDiffer
<1>5. DOMAIN locs = {ParamName(func, n) : n \in 1..cursor-1}
  BY <1>2 DEF Binding
<1>6. t \notin DOMAIN locs
  <2>1. \A n \in 1..cursor-1 : n \in 1..Len(func.params) /\ n # cursor
    BY <1>3
  <2> QED
    BY <1>4, <1>5, <2>1
<1>7. \A u \in DOMAIN locs : locs[u] # Reg(r)
  <2>1. ASSUME NEW n \in 1..cursor-1, locs[ParamName(func, n)] = Reg(r) PROVE FALSE
    <3>1. n \in DOMAIN func.params /\ n \in 1..Len(func.params) /\ n # cursor
      BY <1>3, Shape DEF Prepared, Placed
    <3>2. MayHold(ParamName(func, n), r)
      BY <1>2, <1>3, <1>5, <2>1 DEF Sound, RegistersKept
    <3>3. r = ParamReg(n)
      BY <3>1, <3>2 DEF MayHold
    <3> QED
      BY <1>1, <1>3, <3>1, <3>3, ParamsDiffer
  <2> QED
    BY <1>5, <2>1
<1>8. UNCHANGED <<func, starts, known, ivs, todo, phase>>
  BY DEF BindParam
<1>9. {ParamName(func, n) : n \in 1..cursor'-1} = DOMAIN locs \union {t}
  <2>1. 1..cursor'-1 = (1..cursor-1) \union {cursor}
    BY <1>1, <1>3
  <2> QED
    BY <1>5, <2>1
<1>10. cursor' \in 1..Len(func.params)+1
  BY <1>1, <1>3
<1> HIDE DEF t, r
<1>11. \A n : n \in DOMAIN func.params /\ t = ParamName(func, n) => n = cursor
  BY <1>1, <1>4, Shape DEF Prepared
<1>12. CASE Lost(cursor)
  <2>1. locs' = WithPlace(locs, t, Slot(slots)) /\ slots' = slots + 1 /\ free' = free /\ active' = active
    BY <1>12 DEF BindParam, t
  <2>2. Sound(locs', slots', active', free', todo')
    <3>1. Sound(WithPlace(locs, t, Slot(slots)), slots + 1, active, free, todo)
      BY <1>2, <1>3, <1>6, SoundSlot
    <3> QED
      BY <1>8, <2>1, <3>1
  <2>3. HasPlace(locs', locs, t, Slot(slots))
    BY <2>1, WithPlaceHas
  <2>4. Binding'
    <3>1. DOMAIN locs' = DOMAIN locs \union {t}
      BY <2>3 DEF HasPlace
    <3>2. \A u \in DOMAIN locs' \ active' : \A q \in Pool : locs'[u] # Reg(q)
      BY <1>2, <1>6, <2>1, <2>3, Places DEF Binding, HasPlace
    <3> QED
      BY <1>2, <1>8, <1>9, <1>10, <3>1, <3>2 DEF Binding
  <2> QED
    BY <1>1, <1>8, <2>2, <2>4, SoundStays DEF Placed
<1>13. CASE ~Lost(cursor)
  <2>1. locs' = WithPlace(locs, t, Reg(r)) /\ slots' = slots /\ free' = free \ {r} /\ active' = IF r \in free THEN active \union {t} ELSE active
    BY <1>13 DEF BindParam, t, r
  <2>2. MayHold(t, r)
    BY <1>3, <1>11, <1>13 DEF MayHold, r
  <2>3. r \in free \/ r \notin Pool
    <3>1. \A u \in active : u \in DOMAIN locs
      BY <1>2 DEF Sound, PlacesTyped
    <3> QED
      BY <1>2, <1>7, <3>1 DEF Sound, PoolShared
  <2>4. \/ r \in free /\ active' = active \union {t} /\ free' = free \ {r}
        \/ r \notin Pool /\ active' = active /\ free' = free
    <3>1. free \subseteq Pool
      BY <1>2 DEF Sound, PoolShared
    <3> QED
      BY <2>1, <2>3, <3>1
  <2>5. r \in Nat
    BY <1>3
  <2>6. Sound(locs', slots', active', free', todo')
    <3>1. Sound(WithPlace(locs, t, Reg(r)), slots, active', free', todo)
      BY <1>2, <1>3, <1>6, <1>7, <2>2, <2>4, <2>5, SoundRegister
    <3> QED
      BY <1>8, <2>1, <3>1
  <2>7. HasPlace(locs', locs, t, Reg(r))
    BY <2>1, WithPlaceHas
  <2>8. Binding'
    <3>1. DOMAIN locs' = DOMAIN locs \union {t}
      BY <2>7 DEF HasPlace
    <3>2. r \in Pool => t \in active'
      BY <2>4 DEF Sound, PoolShared
    <3>3. active \subseteq active'
      BY <2>4
    <3>4. \A u \in DOMAIN locs' \ active' : \A q \in Pool : locs'[u] # Reg(q)
      BY <1>2, <1>6, <2>7, <3>2, <3>3, Places DEF Binding, HasPlace
    <3> QED
      BY <1>2, <1>8, <1>9, <1>10, <3>1, <3>4 DEF Binding
  <2> QED
    BY <1>1, <1>8, <2>6, <2>8, SoundStays DEF Placed
<1> QED
  BY <1>12, <1>13

LEMMA PlacedAtScan ==
  ASSUME Prepared, Placed, StartScan
  PROVE  Placed'
<1>1. phase = "bind" /\ cursor > Len(func.params) /\ phase' = "place" /\ todo' = DOMAIN ivs \ DOMAIN locs
  BY DEF StartScan
<1>2. UNCHANGED <<func, starts, known, ivs, locs, slots, active, free>>
  BY DEF StartScan
<1>3. Binding /\ Sound(locs, slots, active, free, todo)
  BY <1>1 DEF Placed
<1>4. Sound(locs', slots', active', free', todo')
  <2>1. PoolShared(locs, active, free, todo')
    BY <1>3 DEF Sound, PoolShared, Binding
  <2> QED
    BY <1>2, <1>3, <2>1 DEF Sound
<1>5. Placing'
  <2>1. cursor = Len(func.params) + 1 /\ Len(func.params) \in Nat
    BY <1>1, <1>3, ParamsDiffer DEF Binding
  <2>2. 1..cursor-1 = 1..Len(func.params)
    BY <2>1
  <2>3. DOMAIN locs = Params(func)
    BY <1>1, <1>3, <2>2, ParamsDiffer DEF Binding
  <2>4. Params(func) \subseteq DOMAIN ivs
    BY <1>1, ParamsDiffer
  <2> QED
    BY <1>1, <1>2, <2>3, <2>4 DEF Placing
<1> QED
  BY <1>1, <1>2, <1>4, <1>5, SoundStays DEF Placed

\* Some temporary is the first to start.
LEMMA FirstToPlace ==
  ASSUME NEW rest, rest # {}, rest \subseteq DOMAIN ivs, \A t \in DOMAIN ivs : Ranged(ivs[t])
  PROVE  \E t \in rest : \A u \in rest : ivs[t][1] < ivs[u][1] \/ (ivs[t][1] = ivs[u][1] /\ ivs[t][2] <= ivs[u][2])
<1> DEFINE firsts == {ivs[t][1] : t \in rest}
<1>1. firsts \subseteq Nat /\ firsts # {}
  BY DEF Ranged
<1>2. PICK a \in firsts : \A x \in firsts : a <= x
  BY <1>1, LeastNatural
<1> DEFINE early == {t \in rest : ivs[t][1] = a}
           lasts == {ivs[t][2] : t \in early}
<1>3. lasts \subseteq Nat /\ lasts # {}
  BY <1>2 DEF Ranged
<1>4. PICK z \in lasts : \A x \in lasts : z <= x
  BY <1>3, LeastNatural
<1>5. PICK t \in early : ivs[t][2] = z
  BY <1>4
<1>6. ASSUME NEW u \in rest PROVE ivs[t][1] < ivs[u][1] \/ (ivs[t][1] = ivs[u][1] /\ ivs[t][2] <= ivs[u][2])
  <2>1. ivs[u][1] \in firsts /\ ivs[u][1] \in Nat /\ a \in Nat /\ ivs[t][1] = a /\ a <= ivs[u][1]
    BY <1>1, <1>2, <1>5
  <2>2. CASE ivs[u][1] = a
    BY <1>4, <1>5, <2>1, <2>2
  <2>3. CASE ivs[u][1] # a
    BY <2>1, <2>3
  <2> QED
    BY <2>2, <2>3
<1> QED
  BY <1>5, <1>6

\* What ended before a temporary starts gives its register up.
LEMMA SoundExpire ==
  ASSUME NEW places, NEW n, NEW act, NEW fr, NEW rest, Sound(places, n, act, fr, rest),
         NEW kept, kept \subseteq act, \A u \in act \ kept : \A w \in rest : ivs[u][2] < ivs[w][1]
  PROVE  Sound(places, n, kept, fr \union {places[u][2] : u \in act \ kept}, rest)
<1> DEFINE left == fr \union {places[u][2] : u \in act \ kept}
<1>1. PlacesTyped(places, n, act) /\ PoolShared(places, act, fr, rest) /\ RegistersApart(places) /\ RegistersKept(places)
  BY DEF Sound
<1>2. PlacesTyped(places, n, kept)
  BY <1>1 DEF PlacesTyped
<1>3. \A u \in act : \A r : places[u] = Reg(r) => places[u][2] = r
  BY Places
<1>4. \A u \in act : \E r \in Pool : places[u] = Reg(r) /\ places[u][2] = r
  BY <1>1, <1>3 DEF PoolShared
<1>5. \A u \in act : places[u] = Reg(places[u][2]) /\ places[u][2] \in Pool
  BY <1>4
<1>6. \A u, v \in act : places[u] = places[v] => u = v
  BY <1>1 DEF PoolShared
<1>7. \A r \in left : r \in fr \/ \E u \in act \ kept : places[u] = Reg(r) /\ r \in Pool
  BY <1>5
<1>8. \A u \in act \ kept : places[u][2] \in left
  OBVIOUS
<1> HIDE DEF left
<1>9. \A r \in left : r \in Pool /\ \A u \in kept : places[u] # Reg(r)
  <2> SUFFICES ASSUME NEW r \in left PROVE r \in Pool /\ \A u \in kept : places[u] # Reg(r)
    OBVIOUS
  <2>1. CASE r \in fr
    BY <1>1, <2>1 DEF PoolShared
  <2>2. CASE r \notin fr
    <3>1. PICK u \in act \ kept : places[u] = Reg(r) /\ r \in Pool
      BY <1>7, <2>2
    <3> QED
      BY <1>6, <3>1
  <2> QED
    BY <2>1, <2>2
<1>10. \A r \in Pool : r \in left \/ \E u \in kept : places[u] = Reg(r)
  <2> SUFFICES ASSUME NEW r \in Pool, \A u \in kept : places[u] # Reg(r) PROVE r \in left
    OBVIOUS
  <2>1. CASE r \in fr
    BY <2>1 DEF left
  <2>2. CASE r \notin fr
    <3>1. PICK u \in act : places[u] = Reg(r)
      BY <1>1, <2>2 DEF PoolShared
    <3>2. places[u][2] = r
      BY <3>1, Places
    <3> QED
      BY <1>8, <3>1, <3>2
  <2> QED
    BY <2>1, <2>2
<1>11. \A u \in DOMAIN places \ kept : \A r \in Pool : places[u] = Reg(r) => \A w \in rest : ivs[u][2] < ivs[w][1]
  <2> SUFFICES ASSUME NEW u \in DOMAIN places \ kept, NEW r \in Pool, places[u] = Reg(r), NEW w \in rest PROVE ivs[u][2] < ivs[w][1]
    OBVIOUS
  <2>1. CASE u \in act
    BY <2>1
  <2>2. CASE u \notin act
    BY <1>1, <2>2 DEF PoolShared
  <2> QED
    BY <2>1, <2>2
<1>12. PoolShared(places, kept, left, rest)
  BY <1>5, <1>6, <1>9, <1>10, <1>11 DEF PoolShared
<1> QED
  BY <1>1, <1>2, <1>12 DEF Sound, left

LEMMA SoundFewer ==
  ASSUME NEW places, NEW n, NEW act, NEW fr, NEW rest, Sound(places, n, act, fr, rest), NEW fewer, fewer \subseteq rest
  PROVE  Sound(places, n, act, fr, fewer)
BY DEF Sound, PoolShared

\* What the scan does with t, once what ended has given its register up.
LEMMA SoundPlacing ==
  ASSUME NEW kept, NEW left, NEW rest, Sound(locs, slots, kept, left, rest),
         NEW t \in rest, t \in DOMAIN ivs, t \notin DOMAIN locs, t \notin Params(func),
         \A n \in DOMAIN func.params : ParamName(func, n) \in Params(func),
         PlaceAs(t, kept, left)
  PROVE  /\ Sound(locs', slots', active', free', rest)
         /\ DOMAIN locs' = DOMAIN locs \union {t}
<1>1. PlacesTyped(locs, slots, kept) /\ PoolShared(locs, kept, left, rest)
  BY DEF Sound
<1>2. ASSUME NEW r \in Pool, \A u \in kept : locs[u] # Reg(r), NEW u \in DOMAIN locs, locs[u] = Reg(r)
      PROVE  Disjoint(ivs[u], ivs[t])
  BY <1>1, <1>2 DEF PoolShared, Disjoint
<1>3. ASSUME NEW r \in Pool, \A c \in CallSites : ~Spans(ivs[t], c) PROVE MayHold(t, r) /\ r \in Nat
  BY <1>3, Places DEF MayHold
<1>4. CASE ToFrame(t, kept, left)
  <2>1. locs' = WithPlace(locs, t, Slot(slots)) /\ slots' = slots + 1 /\ active' = kept /\ free' = left
    BY <1>4 DEF ToFrame
  <2>2. HasPlace(locs', locs, t, Slot(slots))
    BY <2>1, WithPlaceHas
  <2>3. Sound(WithPlace(locs, t, Slot(slots)), slots + 1, kept, left, rest)
    BY SoundSlot
  <2> QED
    BY <2>1, <2>2, <2>3 DEF HasPlace
<1>5. CASE (\A c \in CallSites : ~Spans(ivs[t], c)) /\ ToRegister(t, kept, left)
  <2> DEFINE r == Min(left)
  <2>1. locs' = WithPlace(locs, t, Reg(r)) /\ slots' = slots /\ active' = kept \union {t} /\ free' = left \ {r} /\ left # {}
    BY <1>5 DEF ToRegister
  <2>2. \A q \in left : q \in Pool /\ q \in Nat /\ \A u \in kept : locs[u] # Reg(q)
    BY <1>1, Places DEF PoolShared
  <2>3. r \in left
    BY <2>1, <2>2, LeastNatural DEF Min
  <2> HIDE DEF r
  <2>4. r \in Pool /\ r \in Nat /\ MayHold(t, r)
    BY <1>3, <1>5, <2>2, <2>3
  <2>5. \A u \in DOMAIN locs : locs[u] = Reg(r) => Disjoint(ivs[u], ivs[t])
    BY <1>2, <2>2, <2>3, <2>4
  <2>6. Sound(WithPlace(locs, t, Reg(r)), slots, active', free', rest)
    BY <2>1, <2>3, <2>4, <2>5, SoundRegister
  <2>7. HasPlace(locs', locs, t, Reg(r))
    BY <2>1, WithPlaceHas
  <2> QED
    BY <2>1, <2>6, <2>7 DEF HasPlace
<1>6. CASE (\A c \in CallSites : ~Spans(ivs[t], c)) /\ \E v \in kept : InPlaceOf(t, v, kept, left)
  <2>1. PICK v \in kept : InPlaceOf(t, v, kept, left)
    BY <1>6
  <2>2. PICK r \in Pool : locs[v] = Reg(r)
    BY <1>1 DEF PoolShared
  <2> DEFINE moved == WithPlace(locs, v, Slot(slots))
  <2>3. locs' = WithPlace(moved, t, Reg(r)) /\ slots' = slots + 1 /\ active' = (kept \ {v}) \union {t} /\ free' = left
    BY <2>1, <2>2 DEF InPlaceOf
  <2>4. Sound(moved, slots + 1, kept \ {v}, left \union {r}, rest)
    BY <2>2, SoundEvict
  <2>5. HasPlace(moved, locs, v, Slot(slots))
    BY WithPlaceHas
  <2> HIDE DEF moved
  <2>6. v \in DOMAIN locs /\ DOMAIN moved = DOMAIN locs /\ t \notin DOMAIN moved
    BY <1>1, <2>5 DEF HasPlace, PlacesTyped
  <2>7. \A u \in DOMAIN moved : moved[u] = Reg(r) => Disjoint(ivs[u], ivs[t])
    <3> SUFFICES ASSUME NEW u \in DOMAIN moved, moved[u] = Reg(r) PROVE Disjoint(ivs[u], ivs[t])
      OBVIOUS
    <3>1. u # v /\ u \in DOMAIN locs /\ locs[u] = Reg(r)
      BY <2>5, <2>6, Places DEF HasPlace
    <3>2. u \notin kept
      BY <1>1, <2>2, <3>1 DEF PoolShared
    <3> QED
      BY <1>1, <3>1, <3>2 DEF PoolShared, Disjoint
  <2>8. MayHold(t, r) /\ r \in Nat
    BY <1>3, <1>6
  <2>9. r \in left \union {r} /\ left = (left \union {r}) \ {r}
    BY <1>1, <2>2 DEF PoolShared
  <2>10. Sound(WithPlace(moved, t, Reg(r)), slots + 1, active', free', rest)
    <3> DEFINE fr == left \union {r}
               act == kept \ {v}
    <3>1. Sound(moved, slots + 1, act, fr, rest) /\ r \in fr /\ active' = act \union {t} /\ free' = fr \ {r}
      BY <2>3, <2>4, <2>9
    <3> HIDE DEF fr, act
    <3> QED
      BY <2>6, <2>7, <2>8, <3>1, SoundRegister
  <2>11. HasPlace(locs', moved, t, Reg(r))
    BY <2>3, WithPlaceHas
  <2> QED
    BY <2>3, <2>6, <2>10, <2>11 DEF HasPlace
<1> QED
  BY <1>4, <1>5, <1>6 DEF PlaceAs

LEMMA PlacedScanning ==
  ASSUME Prepared, Placed, PlaceNext
  PROVE  Placed'
<1>1. /\ phase = "place" /\ phase' = "place" /\ todo # {} /\ todo' = todo \ {NextToPlace}
      /\ PlaceAs(NextToPlace, StillActive(NextToPlace), FreeAt(NextToPlace))
      /\ UNCHANGED <<func, starts, known, ivs>>
  BY DEF PlaceNext
<1>2. Placing /\ Sound(locs, slots, active, free, todo)
  BY <1>1 DEF Placed
<1>3. \A t \in DOMAIN ivs : Ranged(ivs[t])
  BY <1>1 DEF Prepared, RangesCover
<1>4. todo \subseteq DOMAIN ivs /\ active \subseteq DOMAIN locs /\ DOMAIN locs \subseteq DOMAIN ivs
  BY <1>2 DEF Placing, Sound, PlacesTyped
<1> DEFINE t == NextToPlace
<1>5. t \in todo /\ \A u \in todo : ivs[t][1] < ivs[u][1] \/ (ivs[t][1] = ivs[u][1] /\ ivs[t][2] <= ivs[u][2])
  <2>1. \E x \in todo : \A u \in todo : ivs[x][1] < ivs[u][1] \/ (ivs[x][1] = ivs[u][1] /\ ivs[x][2] <= ivs[u][2])
    BY <1>1, <1>3, <1>4, FirstToPlace
  <2> QED
    BY <2>1 DEF NextToPlace
<1> HIDE DEF t
<1>6. \A u \in active \ StillActive(t) : \A w \in todo : ivs[u][2] < ivs[w][1]
  <2> SUFFICES ASSUME NEW u \in active, ~(ivs[u][2] >= ivs[t][1]), NEW w \in todo PROVE ivs[u][2] < ivs[w][1]
    BY DEF StillActive
  <2>1. ivs[u][2] \in Nat /\ ivs[t][1] \in Nat /\ ivs[w][1] \in Nat
    BY <1>3, <1>4, <1>5 DEF Ranged
  <2>2. ivs[t][1] <= ivs[w][1]
    BY <1>5, <2>1
  <2> QED
    BY <2>1, <2>2
<1>7. Sound(locs, slots, StillActive(t), FreeAt(t), todo)
  <2>1. StillActive(t) \subseteq active
    BY DEF StillActive
  <2> QED
    BY <1>2, <1>6, <2>1, SoundExpire DEF FreeAt
<1>8. t \notin DOMAIN locs /\ t \notin Params(func) /\ t \in DOMAIN ivs
  BY <1>2, <1>4, <1>5 DEF Placing
<1>9. \A n \in DOMAIN func.params : ParamName(func, n) \in Params(func)
  BY DEF Params, ParamName
<1>10. Sound(locs', slots', active', free', todo) /\ DOMAIN locs' = DOMAIN locs \union {t}
  <2>1. PlaceAs(t, StillActive(t), FreeAt(t))
    BY <1>1 DEF t
  <2> QED
    BY <1>5, <1>7, <1>8, <1>9, <2>1, SoundPlacing
<1>11. Sound(locs', slots', active', free', todo')
  <2>1. todo' \subseteq todo
    BY <1>1
  <2> QED
    BY <1>10, <2>1, SoundFewer
<1>12. Placing'
  BY <1>1, <1>2, <1>5, <1>8, <1>10 DEF Placing, t
<1> QED
  BY <1>1, <1>11, <1>12, SoundStays DEF Placed

LEMMA PlacedNext ==
  ASSUME Prepared, Placed, [AllocNext]_allocator
  PROVE  Placed'
<1>1. CASE \E f : FitsAllocator(f) /\ Start(f)
  BY <1>1 DEF Start, Placed
<1>2. CASE NumberBlock \/ NumberingDone \/ SolveBlock \/ NextRound \/ Solved \/ Explore
  BY <1>2 DEF NumberBlock, NumberingDone, SolveBlock, NextRound, Solved, Explore, Placed
<1>3. CASE Explored
  BY <1>3, PlacedAtBind
<1>4. CASE BindParam
  BY <1>4, PlacedBinding
<1>5. CASE StartScan
  BY <1>5, PlacedAtScan
<1>6. CASE PlaceNext
  BY <1>6, PlacedScanning
<1>7. CASE Release
  BY <1>7 DEF Release, Placed
<1>8. CASE UNCHANGED allocator
  <2>1. UNCHANGED <<func, phase, starts, cursor, known, ivs, locs, free, active, slots, todo>>
    BY <1>8 DEF allocator
  <2>2. Binding' = Binding /\ Placing' = Placing
    BY <2>1 DEF Binding, Placing
  <2>3. Sound(locs, slots, active, free, todo) => Sound(locs, slots, active, free, todo)'
    BY <2>1, SoundStays
  <2> QED
    BY <2>1, <2>2, <2>3 DEF Placed
<1> QED
  BY <1>1, <1>2, <1>3, <1>4, <1>5, <1>6, <1>7, <1>8 DEF AllocNext, AllocStep

THEOREM AllocPlaced == AllocSpec => []Placed
<1>1. AllocIdle => Placed
  BY DEF AllocIdle, Placed
<1>2. Prepared /\ Placed /\ [AllocNext]_allocator => Placed'
  BY PlacedNext
<1> QED
  BY <1>1, <1>2, AllocPrepared, PTL DEF AllocSpec

-----------------------------------------------------------------------------
(* What is alive is in the sets the rounds settle on                       *)

Writes(is, ks, t) == \E k \in ks : is[k].d = t
LEMMA DefinedIs ==
  ASSUME NEW is, NEW ks, NEW t
  PROVE  t \in Defined(is, ks) <=> t # "" /\ Writes(is, ks, t)
BY DEF Defined, Writes

LEMMA AliveIs ==
  ASSUME NEW is, NEW end, NEW k, NEW t
  PROVE  t \in Alive(is, end, k) <=> \/ \E n \in k+1..Len(is) : t \in InstrUses(is[n]) /\ t \notin Defined(is, k+1..n-1)
                                     \/ t \in end /\ t \notin Defined(is, k+1..Len(is))
<1> DEFINE read == UNION {InstrUses(is[n]) \ Defined(is, k+1..n-1) : n \in k+1..Len(is)}
           past == end \ Defined(is, k+1..Len(is))
<1>1. t \in read <=> \E n \in k+1..Len(is) : t \in InstrUses(is[n]) /\ t \notin Defined(is, k+1..n-1)
  OBVIOUS
<1>2. t \in past <=> t \in end /\ t \notin Defined(is, k+1..Len(is))
  OBVIOUS
<1>3. Alive(is, end, k) = read \union past
  BY DEF Alive
<1> HIDE DEF read, past
<1> QED
  BY <1>1, <1>2, <1>3

\* The numbering is done, and the rounds are.
Settled == AllNumbered(func, starts) /\ info = [b \in DOMAIN func.bs |-> BlockInfo(func, b)] /\ \A b \in DOMAIN func.bs : Agrees(b)

LEMMA AgreesIs ==
  ASSUME Settled, NEW b \in DOMAIN func.bs
  PROVE  /\ liveOut[b] = (UNION {liveIn[s] : s \in Succs(func, b)}) \union EdgeOut(func, b)
         /\ liveIn[b] = UpwardExposed(func, b) \union (liveOut[b] \ BlockDefs(func, b))
<1>1. info[b] = BlockInfo(func, b) /\ Agrees(b)
  BY DEF Settled
<1>2. info[b].defs = BlockDefs(func, b) /\ info[b].uses = UpwardExposed(func, b) /\ info[b].edge = EdgeOut(func, b) /\ info[b].succs = Succs(func, b)
  BY <1>1 DEF BlockInfo
<1>3. liveOut[b] = OutOf(b) /\ liveIn[b] = InOf(b)
  BY <1>1 DEF Agrees
<1>4. OutOf(b) = (UNION {liveIn[s] : s \in Succs(func, b)}) \union EdgeOut(func, b)
  BY <1>2, Zenon DEF OutOf
<1>5. InOf(b) = UpwardExposed(func, b) \union (OutOf(b) \ BlockDefs(func, b))
  BY <1>2, Zenon DEF InOf
<1> QED
  BY <1>3, <1>4, <1>5

\* What is alive at the start of a block given a set of what is at its end: what
\* the rounds say of its start, if they say it of its end.
LEMMA AliveAtStart ==
  ASSUME Settled, NEW b \in DOMAIN func.bs, NEW end, end \subseteq liveOut[b] \union TermUses(func.bs[b].term)
  PROVE  Alive(func.bs[b].is, end, 0) \subseteq liveIn[b]
<1> DEFINE is == func.bs[b].is
<1> SUFFICES ASSUME NEW t \in Alive(is, end, 0) PROVE t \in liveIn[b]
  OBVIOUS
<1>1. liveIn[b] = UpwardExposed(func, b) \union (liveOut[b] \ BlockDefs(func, b))
  BY AgreesIs
<1>2. Len(is) \in Nat /\ DOMAIN is = 1..Len(is)
  BY Shape DEF Settled, AllNumbered
<1>3. BlockDefs(func, b) = Defined(is, 1..Len(is))
  BY <1>2 DEF BlockDefs
<1>4. CASE \E n \in 0+1..Len(is) : t \in InstrUses(is[n]) /\ t \notin Defined(is, 0+1..n-1)
  <2>1. PICK n \in 1..Len(is) : t \in InstrUses(is[n]) /\ t \notin Defined(is, 1..n-1)
    BY <1>4
  <2>2. t \in UNION {InstrUses(is[m]) \ Defined(is, 1..m-1) : m \in DOMAIN is}
    BY <1>2, <2>1
  <2> QED
    BY <1>1, <2>2 DEF UpwardExposed
<1>5. CASE t \in end /\ t \notin Defined(is, 0+1..Len(is))
  <2>1. t \notin BlockDefs(func, b)
    BY <1>3, <1>5
  <2>2. CASE t \in liveOut[b]
    BY <1>1, <2>1, <2>2
  <2>3. CASE t \in TermUses(func.bs[b].term)
    <3>1. TermUses(func.bs[b].term) \ BlockDefs(func, b) \subseteq UpwardExposed(func, b)
      BY DEF UpwardExposed
    <3> QED
      BY <1>1, <2>1, <2>3, <3>1
  <2> QED
    BY <1>5, <2>2, <2>3
<1> QED
  BY <1>4, <1>5, AliveIs

\* A read that can be reached from the start of a block is alive there, says the
\* last round: along each further edge it was handed back.
InLiveIn(W) == \A w \in W : w[1] \in DOMAIN func.bs /\ w[2] \in liveIn[w[1]]
LEMMA WantedAlive ==
  ASSUME Settled
  PROVE  InLiveIn(Wanted(func))
<1> DEFINE bs    == DOMAIN func.bs
           reads == UNION {{b} \X Alive(func.bs[b].is, ReadsLast(func, b), 0) : b \in bs}
           ts    == {w[2] : w \in reads}
           G     == Backwards(CarriesTo(func, ts), bs, ts)
           Good  == {W \in SUBSET (bs \X ts) : InLiveIn(W)}
<1>1. reads \in Good
  <2>1. ASSUME NEW b \in bs PROVE Alive(func.bs[b].is, ReadsLast(func, b), 0) \subseteq liveIn[b]
    <3>1. ReadsLast(func, b) \subseteq liveOut[b] \union TermUses(func.bs[b].term)
      <4>1. liveOut[b] = (UNION {liveIn[x] : x \in Succs(func, b)}) \union EdgeOut(func, b)
        BY AgreesIs
      <4> QED
        BY <4>1 DEF ReadsLast
    <3> QED
      BY <3>1, AliveAtStart
  <2>2. \A w \in reads : \E b \in bs : \E t \in Alive(func.bs[b].is, ReadsLast(func, b), 0) : w = <<b, t>>
    OBVIOUS
  <2>3. \A w \in reads : w \in bs \X ts /\ w[1] \in bs /\ w[2] \in liveIn[w[1]]
    BY <2>1, <2>2
  <2> QED
    BY <2>3 DEF InLiveIn
<1> HIDE DEF reads, ts
<1>2. ASSUME NEW W \in Good PROVE G[W] \in Good
  <2> DEFINE back == {<<e[1], e[3]>> : e \in {c \in CarriesTo(func, ts) : <<c[2], c[3]>> \in W}}
  <2>1. G[W] = W \union back
    BY DEF Backwards
  <2>2. ASSUME NEW v \in back PROVE v \in bs \X ts /\ v[1] \in bs /\ v[2] \in liveIn[v[1]]
    <3>1. PICK e \in CarriesTo(func, ts) : <<e[2], e[3]>> \in W /\ v = <<e[1], e[3]>>
      OBVIOUS
    <3>2. PICK b \in bs : e \in {b} \X Succs(func, b) \X (ts \ BlockDefs(func, b))
      BY <3>1 DEF CarriesTo
    <3>3. e[1] = b /\ e[2] \in Succs(func, b) /\ e[3] \in ts /\ e[3] \notin BlockDefs(func, b)
      BY <3>2
    <3>4. e[3] \in liveIn[e[2]]
      BY <3>1 DEF InLiveIn
    <3>5. e[3] \in liveOut[b]
      BY <3>3, <3>4, AgreesIs
    <3>6. e[3] \in liveIn[b]
      BY <3>3, <3>5, AgreesIs
    <3> QED
      BY <3>1, <3>3, <3>6
  <2> HIDE DEF back, G
  <2>3. \A w \in W \union back : w \in bs \X ts /\ w[1] \in bs /\ w[2] \in liveIn[w[1]]
    BY <2>2 DEF InLiveIn
  <2> QED
    BY <2>1, <2>3 DEF InLiveIn
<1>3. Len(func.bs) \in Nat
  BY Shape DEF Settled, AllNumbered
<1>4. Iterate(G, reads, Len(func.bs)) \in Good
  <2> HIDE DEF G, Good
  <2> QED
    BY <1>1, <1>2, <1>3, IterateInside
<1>5. Wanted(func) = Iterate(G, reads, Len(func.bs))
  BY DEF Wanted, WantedBy, WantedFrom, ts, reads
<1> QED
  BY <1>4, <1>5

LEMMA AtEndAlive ==
  ASSUME Settled, NEW b \in DOMAIN func.bs
  PROVE  /\ LiveAtEnd(func, Wanted(func), b) \subseteq liveOut[b] \union TermUses(func.bs[b].term)
         /\ LiveAtStart(func, Wanted(func), b) \subseteq liveIn[b]
<1>1. InLiveIn(Wanted(func))
  BY WantedAlive
<1>2. liveOut[b] = (UNION {liveIn[s] : s \in Succs(func, b)}) \union EdgeOut(func, b)
  BY AgreesIs
<1> DEFINE W == Wanted(func)
<1> HIDE DEF W
<1>3. InLiveIn(W)
  BY <1>1 DEF W
<1>4. \A w \in W : w[1] \in Succs(func, b) => w[2] \in liveOut[b]
  BY <1>2, <1>3 DEF InLiveIn
<1>5. LiveAtEnd(func, W, b) \subseteq liveOut[b] \union TermUses(func.bs[b].term)
  <2> DEFINE next == {w[2] : w \in {v \in W : v[1] \in Succs(func, b)}}
  <2>1. next \subseteq liveOut[b]
    BY <1>4
  <2>2. LiveAtEnd(func, W, b) = (TermUses(func.bs[b].term) \union EdgeOut(func, b)) \union next
    BY Zenon DEF LiveAtEnd, ReadsLast
  <2>3. EdgeOut(func, b) \subseteq liveOut[b]
    BY <1>2, Zenon
  <2> HIDE DEF next
  <2> QED
    BY <2>1, <2>2, <2>3
<1>6. LiveAtStart(func, W, b) \subseteq liveIn[b]
  BY <1>5, AliveAtStart DEF LiveAtStart
<1> QED
  BY <1>5, <1>6 DEF W

-----------------------------------------------------------------------------
(* What is alive after an instruction is in a range across it              *)

\* A number its range covers.
Touched(t, n) == t \in DOMAIN ivs /\ Ranged(ivs[t]) /\ n \in Nat /\ Covers(ivs[t], n)

Solved4All == Settled /\ RangesCover

LEMMA TouchedIs ==
  ASSUME Solved4All
  PROVE  /\ \A u \in Touches : u[2] \in Nat => Touched(u[1], u[2])
         /\ \A t \in Params(func) : Touched(t, 0)
<1>1. \A u \in Touches : u[1] \in DOMAIN ivs /\ Covers(ivs[u[1]], u[2])
  BY DEF Solved4All, RangesCover
<1>2. \A u \in Touches : u[2] \in Nat => Touched(u[1], u[2])
  BY <1>1 DEF Solved4All, RangesCover, Touched
<1>3. \A t \in Params(func) : <<t, 0>> \in Touches
  BY DEF Touches, AllAt
<1> QED
  BY <1>2, <1>3

LEMMA BlockTouched ==
  ASSUME Solved4All, NEW b \in DOMAIN func.bs
  PROVE  /\ \A t \in liveIn[b] : Touched(t, starts[b])
         /\ \A t \in liveOut[b] \union TermUses(func.bs[b].term) : Touched(t, BlockEnd(func, starts, b))
<1>1. \A u \in BlockTouches(b) : u[2] \in Nat => Touched(u[1], u[2])
  BY TouchedIs DEF Touches
<1>2. starts[b] \in Nat /\ BlockEnd(func, starts, b) \in Nat
  BY NumbersAscend DEF Solved4All, Settled
<1>3. ASSUME NEW t \in liveIn[b] PROVE Touched(t, starts[b])
  <2>1. <<t, starts[b]>> \in AllAt(liveIn[b], starts[b])
    BY DEF AllAt
  <2>2. <<t, starts[b]>> \in BlockTouches(b)
    BY <2>1 DEF BlockTouches
  <2> QED
    BY <1>1, <1>2, <2>2
<1>4. ASSUME NEW t \in liveOut[b] \union TermUses(func.bs[b].term) PROVE Touched(t, BlockEnd(func, starts, b))
  <2> DEFINE last == liveOut[b] \union TermUses(func.bs[b].term) \union info[b].edge
             end == BlockEnd(func, starts, b)
  <2>1. t \in last
    OBVIOUS
  <2> HIDE DEF last, end
  <2>2. <<t, end>> \in AllAt(last, end)
    BY <2>1 DEF AllAt
  <2>3. AllAt(last, end) \subseteq BlockTouches(b)
    BY DEF BlockTouches, last, end
  <2> QED
    BY <1>1, <1>2, <2>2, <2>3 DEF end
<1> QED
  BY <1>3, <1>4

LEMMA InstrTouched ==
  ASSUME Solved4All, NEW b \in DOMAIN func.bs, NEW k \in DOMAIN func.bs[b].is
  PROVE  /\ \A t \in InstrUses(func.bs[b].is[k]) : Touched(t, Number(b, k))
         /\ func.bs[b].is[k].d # "" => Touched(func.bs[b].is[k].d, Number(b, k))
         /\ func.bs[b].is[k].d # "" => \A p \in PhiBlocksOf(func, func.bs[b].is[k]) :
                                           Touched(func.bs[b].is[k].d, BlockEnd(func, starts, p))
<1> DEFINE i == func.bs[b].is[k]
           at == Number(b, k)
<1>1. at \in Nat
  BY EndsBelowTop DEF Solved4All, Settled, Number
<1>2. \A p \in PhiBlocksOf(func, i) : BlockEnd(func, starts, p) \in Nat
  BY NumbersAscend DEF Solved4All, Settled, PhiBlocksOf
<1>3. InstrTouches(i, at) \subseteq BlockTouches(b)
  BY DEF BlockTouches
<1>4. BlockTouches(b) \subseteq Touches
  BY DEF Touches
<1> HIDE DEF i, at
<1>5. \A u \in InstrTouches(i, at) : u[2] \in Nat => Touched(u[1], u[2])
  BY <1>3, <1>4, TouchedIs
<1>6. ASSUME NEW t, t \in InstrUses(i) \/ (t = i.d /\ t # "") PROVE Touched(t, at)
  <2> DEFINE own == InstrUses(i) \union ({i.d} \ {""})
  <2>1. t \in own
    BY <1>6
  <2>2. AllAt(own, at) \subseteq InstrTouches(i, at)
    BY DEF InstrTouches
  <2> HIDE DEF own
  <2>3. <<t, at>> \in AllAt(own, at)
    BY <2>1 DEF AllAt
  <2> QED
    BY <1>1, <1>5, <2>2, <2>3
<1>7. ASSUME i.d # "", NEW p \in PhiBlocksOf(func, i) PROVE Touched(i.d, BlockEnd(func, starts, p))
  <2> DEFINE end == BlockEnd(func, starts, p)
  <2>1. AllAt({i.d} \ {""}, end) \subseteq InstrTouches(i, at)
    BY DEF InstrTouches
  <2>2. end \in Nat
    BY <1>2
  <2> HIDE DEF end
  <2>3. <<i.d, end>> \in AllAt({i.d} \ {""}, end)
    BY <1>7 DEF AllAt
  <2>4. Touched(i.d, end)
    BY <1>5, <2>1, <2>2, <2>3
  <2> QED
    BY <2>4 DEF end
<1> QED
  BY <1>6, <1>7 DEF i, at

\* What is alive after an instruction is touched after it.
Later(t, at)   == \E n \in Nat : at < n /\ Touched(t, n)
Earlier(t, at) == \E n \in Nat : n < at /\ Touched(t, n)
EndOf(b) == LiveAtEnd(func, Wanted(func), b)

LEMMA NumbersOf ==
  ASSUME Settled, NEW b \in DOMAIN func.bs
  PROVE  /\ Len(func.bs[b].is) \in Nat /\ DOMAIN func.bs[b].is = 1..Len(func.bs[b].is)
         /\ starts[b] \in Nat /\ BlockEnd(func, starts, b) \in Nat
         /\ \A k \in 1..Len(func.bs[b].is) : Number(b, k) \in Nat /\ starts[b] <= Number(b, k) /\ Number(b, k) < BlockEnd(func, starts, b)
         /\ \A k, n \in 1..Len(func.bs[b].is) : k < n => Number(b, k) < Number(b, n)
         /\ \A c \in DOMAIN func.bs : c < b => BlockEnd(func, starts, c) < starts[b]
<1>1. Len(func.bs[b].is) \in Nat /\ DOMAIN func.bs[b].is = 1..Len(func.bs[b].is)
  BY Shape DEF Settled, AllNumbered
<1>2. starts[b] \in Nat /\ BlockEnd(func, starts, b) \in Nat /\ \A c \in DOMAIN func.bs : c < b => BlockEnd(func, starts, c) < starts[b]
  BY NumbersAscend DEF Settled
<1>3. ASSUME NEW k \in 1..Len(func.bs[b].is)
      PROVE  Number(b, k) \in Nat /\ starts[b] <= Number(b, k) /\ Number(b, k) < BlockEnd(func, starts, b)
  BY <1>1, <1>2 DEF Number, BlockEnd
<1>4. ASSUME NEW k \in 1..Len(func.bs[b].is), NEW n \in 1..Len(func.bs[b].is), k < n PROVE Number(b, k) < Number(b, n)
  BY <1>1, <1>2, <1>4 DEF Number
<1> QED
  BY <1>1, <1>2, <1>3, <1>4

LEMMA AliveTouchedLater ==
  ASSUME Solved4All, NEW b \in DOMAIN func.bs, NEW k \in 1..Len(func.bs[b].is),
         NEW t, t \in Alive(func.bs[b].is, EndOf(b), k)
  PROVE  Later(t, Number(b, k))
<1> DEFINE is == func.bs[b].is
<1>1. Settled
  BY DEF Solved4All
<1>2. CASE \E n \in k+1..Len(is) : t \in InstrUses(is[n]) /\ t \notin Defined(is, k+1..n-1)
  <2>1. PICK n \in k+1..Len(is) : t \in InstrUses(is[n])
    BY <1>2
  <2>2. n \in 1..Len(is) /\ k < n
    BY <1>1, NumbersOf
  <2>3. Touched(t, Number(b, n))
    BY <1>1, <2>1, <2>2, NumbersOf, InstrTouched
  <2>4. Number(b, k) < Number(b, n) /\ Number(b, n) \in Nat
    BY <1>1, <2>2, NumbersOf
  <2> QED
    BY <2>3, <2>4 DEF Later
<1>3. CASE t \in EndOf(b)
  <2>1. t \in liveOut[b] \union TermUses(func.bs[b].term)
    BY <1>1, <1>3, AtEndAlive DEF EndOf
  <2>2. Touched(t, BlockEnd(func, starts, b))
    BY <2>1, BlockTouched
  <2>3. Number(b, k) < BlockEnd(func, starts, b) /\ BlockEnd(func, starts, b) \in Nat
    BY <1>1, NumbersOf
  <2> QED
    BY <2>2, <2>3 DEF Later
<1> QED
  BY <1>2, <1>3, AliveIs

\* What is alive after the first k instructions is written by one of them, or
\* alive where the block starts.
LEMMA AliveFromStart ==
  ASSUME NEW is, NEW end, Len(is) \in Nat, NEW k \in 1..Len(is), NEW t, t \in Alive(is, end, k), t \notin Defined(is, 1..k)
  PROVE  t \in Alive(is, end, 0)
<1>1. ASSUME NEW n \in k..Len(is), t \notin Defined(is, k+1..n) PROVE t \notin Defined(is, 0+1..n)
  <2>1. 0+1..n = (1..k) \union (k+1..n)
    OBVIOUS
  <2> DEFINE low == 1..k
             high == k+1..n
  <2> HIDE DEF low, high
  <2>2. (t # "" => ~Writes(is, low, t) /\ ~Writes(is, high, t)) /\ 0+1..n = low \union high
    BY <1>1, <2>1, DefinedIs DEF low, high
  <2>3. t # "" => ~Writes(is, low \union high, t)
    BY <2>2 DEF Writes
  <2>4. t \notin Defined(is, low \union high)
    BY <2>3, DefinedIs
  <2> QED
    BY <2>2, <2>4
<1>2. CASE \E n \in k+1..Len(is) : t \in InstrUses(is[n]) /\ t \notin Defined(is, k+1..n-1)
  <2>1. PICK n \in k+1..Len(is) : t \in InstrUses(is[n]) /\ t \notin Defined(is, k+1..n-1)
    BY <1>2
  <2>2. n - 1 \in k..Len(is) /\ n \in 0+1..Len(is)
    OBVIOUS
  <2>3. t \notin Defined(is, 0+1..n-1)
    BY <1>1, <2>1, <2>2
  <2>4. \E m \in 0+1..Len(is) : t \in InstrUses(is[m]) /\ t \notin Defined(is, 0+1..m-1)
    BY <2>1, <2>2, <2>3
  <2> QED
    BY <2>4, AliveIs
<1>3. CASE t \in end /\ t \notin Defined(is, k+1..Len(is))
  <2>1. Len(is) \in k..Len(is)
    OBVIOUS
  <2>2. t \notin Defined(is, 0+1..Len(is))
    BY <1>1, <1>3, <2>1
  <2> QED
    BY <1>3, <2>2, AliveIs
<1> QED
  BY <1>2, <1>3, AliveIs

\* What is alive where a block starts is touched before it.
LEMMA StartTouchedEarlier ==
  ASSUME Solved4All, NEW b \in DOMAIN func.bs, NEW t \in LiveAtStart(func, Wanted(func), b)
  PROVE  Earlier(t, starts[b])
<1>1. Settled /\ AllNumbered(func, starts) /\ FitsAllocator(func)
  BY DEF Solved4All, Settled, AllNumbered
<1>2. t \in Params(func) \/ \E c \in 1..b-1 : t \in BlockDefs(func, c)
  BY <1>1 DEF FitsAllocator, LaidOut
<1>3. CASE t \in Params(func)
  <2>1. Touched(t, 0)
    BY <1>3, TouchedIs
  <2>2. starts[b] \in Nat /\ starts[b] >= 1
    BY <1>1, NumbersAscend
  <2> QED
    BY <2>1, <2>2 DEF Earlier
<1>4. CASE \E c \in 1..b-1 : t \in BlockDefs(func, c)
  <2>1. PICK c \in 1..b-1 : t \in BlockDefs(func, c)
    BY <1>4
  <2>2. c \in DOMAIN func.bs /\ c < b
    BY <1>1, Shape
  <2>3. PICK j \in DOMAIN func.bs[c].is : t # "" /\ func.bs[c].is[j].d = t
    <3>1. t \in Defined(func.bs[c].is, DOMAIN func.bs[c].is)
      BY <2>1 DEF BlockDefs
    <3>2. t # "" /\ Writes(func.bs[c].is, DOMAIN func.bs[c].is, t)
      BY <3>1, DefinedIs
    <3> QED
      BY <3>2 DEF Writes
  <2>4. Touched(t, Number(c, j))
    BY <2>2, <2>3, InstrTouched
  <2>5. j \in 1..Len(func.bs[c].is) /\ Number(c, j) \in Nat /\ Number(c, j) < BlockEnd(func, starts, c) /\ BlockEnd(func, starts, c) \in Nat
    BY <1>1, <2>2, NumbersOf
  <2>6. BlockEnd(func, starts, c) < starts[b] /\ starts[b] \in Nat
    BY <1>1, <2>2, NumbersOf
  <2>7. Number(c, j) < starts[b]
    BY <2>5, <2>6
  <2> QED
    BY <2>4, <2>5, <2>7 DEF Earlier
<1> QED
  BY <1>2, <1>3, <1>4

-----------------------------------------------------------------------------
(* Two places for two values                                               *)

Done == Allocated /\ Placed /\ Solved4All

\* Two temporaries touched at one number have two places.
LEMMA TouchedTogether ==
  ASSUME Done, NEW t, NEW u, t # u, NEW n, Touched(t, n), Touched(u, n)
  PROVE  locs[t] # locs[u]
<1>1. Placing /\ Sound(locs, slots, active, free, todo) /\ todo = {}
  BY DEF Done, Allocated, Placed
<1>2. t \in DOMAIN locs /\ u \in DOMAIN locs
  BY <1>1 DEF Placing, Touched
<1>3. ~Disjoint(ivs[t], ivs[u])
  BY DEF Touched, Ranged, Covers, Disjoint
<1>4. PlacesTyped(locs, slots, active) /\ RegistersApart(locs)
  BY <1>1 DEF Sound
<1>5. \A r \in Nat : locs[t] = Reg(r) => locs[u] # Reg(r)
  BY <1>2, <1>3, <1>4 DEF RegistersApart
<1>6. \A m \in Nat : locs[t] = Slot(m) => locs[u] # Slot(m)
  BY <1>2, <1>4 DEF PlacesTyped
<1>7. (\E m \in Nat : locs[t] = Slot(m)) \/ (\E r \in Nat : locs[t] = Reg(r))
  BY <1>2, <1>4 DEF PlacesTyped
<1> QED
  BY <1>5, <1>6, <1>7

LEMMA BetweenSpans ==
  ASSUME NEW t, NEW at \in Nat, Earlier(t, at), Later(t, at)
  PROVE  Spans(ivs[t], at) /\ Touched(t, at)
<1>1. PICK m \in Nat : m < at /\ Touched(t, m)
  BY DEF Earlier
<1>2. PICK n \in Nat : at < n /\ Touched(t, n)
  BY DEF Later
<1>3. t \in DOMAIN ivs /\ Ranged(ivs[t]) /\ ivs[t][1] <= m /\ n <= ivs[t][2] /\ ivs[t][1] \in Nat /\ ivs[t][2] \in Nat
  BY <1>1, <1>2 DEF Touched, Covers, Ranged
<1>4. ivs[t][1] < at /\ at < ivs[t][2]
  BY <1>1, <1>2, <1>3
<1> QED
  BY <1>3, <1>4 DEF Touched, Spans, Covers

\* What is alive after the first k instructions of a block and written by none
\* of them has a range across each.
LEMMA AliveSpans ==
  ASSUME Solved4All, NEW b \in DOMAIN func.bs, NEW k \in 1..Len(func.bs[b].is), NEW j \in 1..k,
         NEW t, t \in Alive(func.bs[b].is, EndOf(b), k), t \notin Defined(func.bs[b].is, 1..k)
  PROVE  Spans(ivs[t], Number(b, j)) /\ Touched(t, Number(b, j))
<1>1. Settled /\ Len(func.bs[b].is) \in Nat /\ j \in 1..Len(func.bs[b].is)
  BY NumbersOf DEF Solved4All
<1>2. t \in LiveAtStart(func, Wanted(func), b)
  BY <1>1, AliveFromStart DEF LiveAtStart, EndOf
<1>3. Earlier(t, starts[b])
  BY <1>2, StartTouchedEarlier
<1>4. Later(t, Number(b, k))
  BY AliveTouchedLater
<1>5. /\ starts[b] \in Nat /\ Number(b, j) \in Nat /\ Number(b, k) \in Nat
      /\ starts[b] <= Number(b, j) /\ (j < k => Number(b, j) < Number(b, k))
  BY <1>1, NumbersOf
<1>6. Number(b, j) <= Number(b, k)
  BY <1>1, <1>5
<1>7. Earlier(t, Number(b, j))
  <2>1. PICK m \in Nat : m < starts[b] /\ Touched(t, m)
    BY <1>3 DEF Earlier
  <2>2. m < Number(b, j)
    BY <1>5, <2>1
  <2> QED
    BY <2>1, <2>2 DEF Earlier
<1>8. Later(t, Number(b, j))
  <2>1. PICK m \in Nat : Number(b, k) < m /\ Touched(t, m)
    BY <1>4 DEF Later
  <2>2. Number(b, j) < m
    BY <1>5, <1>6, <2>1
  <2> QED
    BY <2>1, <2>2 DEF Later
<1> QED
  BY <1>5, <1>7, <1>8, BetweenSpans

\* What is alive after an instruction, but for its result, has a range across it.
LEMMA AliveAcross ==
  ASSUME Solved4All, NEW b \in DOMAIN func.bs, NEW k \in 1..Len(func.bs[b].is),
         NEW t, t \in Alive(func.bs[b].is, EndOf(b), k), t # func.bs[b].is[k].d
  PROVE  Spans(ivs[t], Number(b, k)) /\ Touched(t, Number(b, k))
<1> DEFINE is == func.bs[b].is
<1>1. Settled /\ Len(is) \in Nat /\ DOMAIN is = 1..Len(is)
  BY NumbersOf DEF Solved4All
<1>2. CASE t \notin Defined(is, 1..k)
  <2>1. k \in 1..k
    BY <1>1
  <2> QED
    BY <1>2, <2>1, AliveSpans
<1>3. CASE t \in Defined(is, 1..k)
  <2>1. t # "" /\ Writes(is, 1..k, t)
    BY <1>3, DefinedIs
  <2>2. PICK j \in 1..k : is[j].d = t
    BY <2>1 DEF Writes
  <2>3. j < k /\ j \in 1..Len(is)
    BY <1>1, <2>2
  <2>4. Touched(t, Number(b, j))
    BY <1>1, <2>1, <2>2, <2>3, InstrTouched
  <2>5. Number(b, j) < Number(b, k) /\ Number(b, j) \in Nat /\ Number(b, k) \in Nat
    BY <1>1, <2>3, NumbersOf
  <2>6. Earlier(t, Number(b, k))
    BY <2>4, <2>5 DEF Earlier
  <2>7. Later(t, Number(b, k))
    BY AliveTouchedLater
  <2> QED
    BY <2>5, <2>6, <2>7, BetweenSpans
<1> QED
  BY <1>2, <1>3

LEMMA DestroysIs ==
  ASSUME NEW i, NEW heaped, NEW r \in Destroys(i, heaped)
  PROVE  /\ r \in Nat
         /\ i.k = "Call" \/ (i.k = "PrintInt" /\ r = 1) \/ (i.k = "Alloca" /\ i.d \in heaped /\ r < PoolLo)
            \/ (i.k = "BoundsCheck" /\ r < PoolLo)
<1>1. CASE i.k = "Call"
  <2>1. 1..PoolHi \subseteq Nat
    BY RegistersAssumption
  <2>2. r \in 1..PoolHi \/ r = 1
    BY <1>1 DEF Destroys
  <2> QED
    BY <1>1, <2>1, <2>2
<1>2. CASE i.k # "Call"
  BY <1>2 DEF Destroys, PoolLo
<1> QED
  BY <1>1, <1>2

\* No print comes while the parameter that arrived in R1 is alive: the emitter
\* moves what it prints there.
PrintsApart(f) ==
  \A b \in DOMAIN f.bs : \A k \in DOMAIN f.bs[b].is : f.bs[b].is[k].k = "PrintInt" =>
    \A n \in DOMAIN f.params : ParamReg(n) = 1 =>
      ParamName(f, n) \notin Alive(f.bs[b].is, LiveAtEnd(f, Wanted(f), b), k)

\* What has a range across an instruction is in no register that it destroys.
LEMMA NotDestroyed ==
  ASSUME Done, PrintsApart(func), NEW b \in DOMAIN func.bs, NEW k \in DOMAIN func.bs[b].is,
         NEW t, Spans(ivs[t], Number(b, k)), Touched(t, Number(b, k)), t \in Alive(func.bs[b].is, EndOf(b), k),
         NEW r \in Destroys(func.bs[b].is[k], HeapAllocas)
  PROVE  locs[t] # Reg(r)
<1> SUFFICES ASSUME locs[t] = Reg(r) PROVE FALSE
  OBVIOUS
<1> DEFINE i == func.bs[b].is[k]
           at == Number(b, k)
<1>1. /\ r \in Nat
      /\ i.k = "Call" \/ (i.k = "PrintInt" /\ r = 1) \/ (i.k = "Alloca" /\ i.d \in HeapAllocas /\ r < PoolLo)
         \/ (i.k = "BoundsCheck" /\ r < PoolLo)
  BY DestroysIs
<1>2. IsCall(i) => at \in CallSites
  BY DEF CallSites
<1>3. Clobbers(i) => at \in ClobberSites
  BY DEF ClobberSites
<1>4. Covers(ivs[t], at)
  BY DEF Touched
<1>5. Placing /\ Sound(locs, slots, active, free, todo) /\ todo = {}
  BY DEF Done, Allocated, Placed
<1>6. t \in DOMAIN locs
  BY <1>5 DEF Placing, Touched
<1>7. MayHold(t, r)
  BY <1>1, <1>5, <1>6 DEF Sound, RegistersKept
<1> HIDE DEF i, at
<1>8. Spans(ivs[t], at)
  BY DEF at
<1>9. CASE t \notin Params(func)
  <2>1. r \in Pool /\ \A c \in CallSites : ~Spans(ivs[t], c)
    BY <1>7, <1>9 DEF MayHold
  <2>2. r >= PoolLo
    BY <2>1, Places
  <2>3. ~IsCall(i)
    BY <1>2, <1>8, <2>1
  <2> QED
    BY <1>1, <2>2, <2>3 DEF IsCall, PoolLo
<1>10. CASE t \in Params(func)
  <2>1. PICK n \in DOMAIN func.params : t = ParamName(func, n)
    BY <1>10 DEF Params, ParamName
  <2>2. r = ParamReg(n) /\ ~Lost(n)
    BY <1>7, <2>1 DEF MayHold
  <2>3. IF r < PoolLo THEN \A c \in ClobberSites : ~Covers(ivs[t], c) ELSE \A c \in CallSites : ~Spans(ivs[t], c)
    BY <2>1, <2>2 DEF Lost
  <2>4. ~IsCall(i)
    BY <1>2, <1>3, <1>4, <1>8, <2>3 DEF Clobbers
  <2>5. r < PoolLo => ~Clobbers(i)
    BY <1>3, <1>4, <2>3
  <2>6. i.k = "PrintInt" /\ r = 1
    BY <1>1, <2>4, <2>5 DEF Clobbers, IsCall
  <2> QED
    BY <2>1, <2>2, <2>6 DEF PrintsApart, i, EndOf
<1> QED
  BY <1>9, <1>10

\* An instruction that is no phi.
LEMMA ApartAtInstr ==
  ASSUME Done, PrintsApart(func), NEW b \in DOMAIN func.bs, NEW k \in DOMAIN func.bs[b].is, ~IsPhi(func.bs[b].is[k])
  PROVE  ApartAt(func.bs[b].is[k], HeapAllocas, Alive(func.bs[b].is, EndOf(b), DoneBy(func.bs[b].is, k)))
<1> DEFINE i == func.bs[b].is[k]
           live == Alive(func.bs[b].is, EndOf(b), k)
<1>1. DoneBy(func.bs[b].is, k) = k
  BY DEF DoneBy
<1>2. Solved4All /\ Settled /\ k \in 1..Len(func.bs[b].is)
  BY NumbersOf DEF Done, Solved4All
<1>3. ASSUME NEW t \in live, t # i.d
      PROVE  /\ i.d # "" => locs[t] # locs[i.d]
             /\ \A r \in Destroys(i, HeapAllocas) : locs[t] # Reg(r)
  <2>1. Spans(ivs[t], Number(b, k)) /\ Touched(t, Number(b, k))
    BY <1>2, <1>3, AliveAcross
  <2>2. i.d # "" => Touched(i.d, Number(b, k))
    BY <1>2, InstrTouched
  <2>3. i.d # "" => locs[t] # locs[i.d]
    BY <1>3, <2>1, <2>2, TouchedTogether
  <2>4. \A r \in Destroys(i, HeapAllocas) : locs[t] # Reg(r)
    BY <2>1, NotDestroyed
  <2> QED
    BY <2>3, <2>4
<1> HIDE DEF live, i
<1>4. ApartAt(i, HeapAllocas, live)
  BY <1>3 DEF ApartAt
<1> QED
  BY <1>1, <1>4 DEF i, live

\* A phi, which is written with the others of its block.
LEMMA ApartAtPhi ==
  ASSUME Done, NEW b \in DOMAIN func.bs, NEW k \in DOMAIN func.bs[b].is, IsPhi(func.bs[b].is[k])
  PROVE  ApartAt(func.bs[b].is[k], HeapAllocas, Alive(func.bs[b].is, EndOf(b), DoneBy(func.bs[b].is, k)))
<1> DEFINE is == func.bs[b].is
           phis == {n \in DOMAIN is : IsPhi(is[n])}
           top == Max(phis)
           live == Alive(is, EndOf(b), top)
<1>1. DoneBy(is, k) = top
  BY DEF DoneBy
<1>2. Solved4All /\ Settled /\ Len(is) \in Nat /\ DOMAIN is = 1..Len(is) /\ PhisFirst(func)
  BY NumbersOf DEF Done, Solved4All, Settled, AllNumbered, FitsAllocator
<1>3. phis \subseteq Nat /\ k \in phis /\ \A n \in phis : n <= Len(is)
  BY <1>2
<1>4. top \in phis /\ \A n \in phis : n <= top
  BY <1>2, <1>3, GreatestNatural DEF Max
<1>5. top \in 1..Len(is) /\ k \in 1..top /\ IsPhi(is[top])
  <2>1. top \in DOMAIN is /\ IsPhi(is[top]) /\ k <= top
    BY <1>3, <1>4
  <2>2. k \in 1..Len(is) /\ top \in 1..Len(is)
    BY <1>2, <2>1
  <2> HIDE DEF top, is
  <2> QED
    BY <1>2, <2>1, <2>2
<1>6. \A n \in 1..top : n \in DOMAIN is /\ IsPhi(is[n])
  <2>1. \A n \in 1..top : n \in DOMAIN is
    BY <1>2, <1>5
  <2> HIDE DEF top
  <2>2. \A n \in 1..top : IsPhi(is[n])
    BY <1>2, <1>5, <2>1 DEF PhisFirst
  <2> QED
    BY <2>1, <2>2
<1>7. ASSUME NEW m \in 1..top, NEW n \in 1..top PROVE PhiBlocksOf(func, is[m]) \cap PhiBlocksOf(func, is[n]) # {}
  <2>1. m \in DOMAIN is /\ n \in DOMAIN is /\ IsPhi(is[m]) /\ IsPhi(is[n])
    BY <1>6
  <2>2. m \in 1..n \/ n \in 1..m
    BY <1>2, <1>5
  <2>3. CASE m \in 1..n
    BY <1>2, <2>1, <2>3 DEF PhisFirst
  <2>4. CASE n \in 1..m
    <3>1. PhiBlocksOf(func, is[n]) \cap PhiBlocksOf(func, is[m]) # {}
      BY <1>2, <2>1, <2>4 DEF PhisFirst
    <3> QED
      BY <3>1
  <2> QED
    BY <2>2, <2>3, <2>4
<1> HIDE DEF top, phis
<1>8. ASSUME NEW t \in live, t # is[k].d, is[k].d # "" PROVE locs[t] # locs[is[k].d]
  <2>1. CASE t \notin Defined(is, 1..top)
    <3>1. Touched(t, Number(b, k))
      BY <1>2, <1>5, <2>1, AliveSpans
    <3>2. Touched(is[k].d, Number(b, k))
      BY <1>2, <1>8, InstrTouched
    <3> QED
      BY <1>8, <3>1, <3>2, TouchedTogether
  <2>2. CASE t \in Defined(is, 1..top)
    <3>1. t # "" /\ Writes(is, 1..top, t)
      BY <2>2, DefinedIs
    <3>2. PICK j \in 1..top : is[j].d = t
      BY <3>1 DEF Writes
    <3>3. PICK p : p \in PhiBlocksOf(func, is[j]) /\ p \in PhiBlocksOf(func, is[k])
      BY <1>5, <1>7
    <3>4. Touched(t, BlockEnd(func, starts, p))
      BY <1>2, <1>6, <3>1, <3>2, <3>3, InstrTouched
    <3>5. Touched(is[k].d, BlockEnd(func, starts, p))
      BY <1>2, <1>8, <3>3, InstrTouched
    <3> QED
      BY <1>8, <3>4, <3>5, TouchedTogether
  <2> QED
    BY <2>1, <2>2
<1>9. Destroys(is[k], HeapAllocas) = {}
  BY DEF Destroys, IsPhi
<1> HIDE DEF live, is
<1>10. ApartAt(is[k], HeapAllocas, live)
  BY <1>8, <1>9 DEF ApartAt
<1> QED
  BY <1>1, <1>10 DEF live, is

LEMMA ApartWhenDone ==
  ASSUME Done, PrintsApart(func)
  PROVE  ApartIn(func, Wanted(func), HeapAllocas)
<1>1. ASSUME NEW t \in Params(func), NEW u \in Params(func), t # u PROVE locs[t] # locs[u]
  <2>1. Touched(t, 0) /\ Touched(u, 0)
    BY TouchedIs DEF Done
  <2> QED
    BY <1>1, <2>1, TouchedTogether
<1>2. ASSUME NEW b \in DOMAIN func.bs PROVE ApartInBlock(func.bs[b].is, LiveAtEnd(func, Wanted(func), b), HeapAllocas)
  <2>1. ASSUME NEW k \in DOMAIN func.bs[b].is
        PROVE  ApartAt(func.bs[b].is[k], HeapAllocas, Alive(func.bs[b].is, EndOf(b), DoneBy(func.bs[b].is, k)))
    BY ApartAtInstr, ApartAtPhi
  <2> QED
    BY <2>1 DEF ApartInBlock, EndOf
<1> QED
  BY <1>1, <1>2 DEF ApartIn

LEMMA AllocatedIsDone ==
  ASSUME Prepared, Placed, Allocated
  PROVE  Done
<1>1. /\ FitsAllocator(func) /\ Ascending(func, starts) /\ Len(starts) = Len(func.bs)
      /\ info = [b \in DOMAIN func.bs |-> BlockInfo(func, b)]
      /\ (\A b \in DOMAIN func.bs : Agrees(b)) /\ RangesCover
  BY DEF Prepared, Allocated
<1> QED
  BY <1>1 DEF Done, Solved4All, Settled, AllNumbered

\* Temporaries whose ranges meet never share a place, register or slot, whatever
\* the function, the pool and its parameters.
PlacesApart == Allocated => \A t, u \in DOMAIN locs : t # u /\ ~Disjoint(ivs[t], ivs[u]) => locs[t] # locs[u]
THEOREM AllocPlacesApart == AllocSpec => []PlacesApart
<1>1. ASSUME Placed, Allocated PROVE PlacesApart
  <2> SUFFICES ASSUME NEW t \in DOMAIN locs, NEW u \in DOMAIN locs, t # u, ~Disjoint(ivs[t], ivs[u]) PROVE locs[t] # locs[u]
    BY DEF PlacesApart
  <2>1. PlacesTyped(locs, slots, active) /\ RegistersApart(locs)
    BY <1>1 DEF Placed, Allocated, Sound
  <2>2. \A r \in Nat : locs[t] = Reg(r) => locs[u] # Reg(r)
    BY <2>1 DEF RegistersApart
  <2>3. \A m \in Nat : locs[t] = Slot(m) => locs[u] # Slot(m)
    BY <2>1 DEF PlacesTyped
  <2>4. (\E m \in Nat : locs[t] = Slot(m)) \/ (\E r \in Nat : locs[t] = Reg(r))
    BY <2>1 DEF PlacesTyped
  <2> QED
    BY <2>2, <2>3, <2>4
<1>2. Placed => PlacesApart
  BY <1>1 DEF PlacesApart
<1> QED
  BY <1>2, AllocPlaced, PTL

\* For every function the allocator is given, whatever its blocks, its
\* parameters and the size of the pool: two values alive together have two
\* places, and what is alive across a call, an allocation or a bounds check no
\* register that it destroys.  Across a print, if no print comes while the
\* parameter that arrived in R1 is alive, which the allocator does not see to.
THEOREM AllocLiveApart == AllocSpec => [](PrintsApart(func) => LiveApart)
<1>1. Prepared /\ Placed => (PrintsApart(func) => LiveApart)
  BY AllocatedIsDone, ApartWhenDone DEF LiveApart
<1> QED
  BY <1>1, AllocPrepared, AllocPlaced, PTL

-----------------------------------------------------------------------------
(* Copies that happen together                                             *)

\* What is copied, and from where to where.
CopyTyped ==
  /\ CopiesFit(plan) /\ kind \in {"edge", "call"} /\ pending \subseteq DOMAIN plan /\ DOMAIN from = DOMAIN plan
  /\ DOMAIN held = {Parking} \union (UNION {{c[1], c[2]} : c \in Range(plan)})
\* A copy that is still to be made finds what it is to copy where it looks for
\* it, in its place or in the parking register; one that was made has it; and
\* while the parking register is read no literal is still to be copied.
CopiesSound ==
  /\ \A n \in pending : from[n] \in {plan[n][2], Parking} /\ held[from[n]] = plan[n][2]
  /\ \A n \in DOMAIN plan \ pending : held[Target(n)] = plan[n][2]
  /\ \A m, n \in pending : from[m] = Parking => from[n][1] # "lit"
CopyInv == CopyTyped /\ CopiesSound

LEMMA LeastOf ==
  ASSUME NEW S, S \subseteq Nat, S # {}
  PROVE  Min(S) \in S
BY LeastNatural DEF Min

\* What the moves are among.
LEMMA CopyShape ==
  ASSUME CopyTyped
  PROVE  /\ pending \subseteq Nat /\ IsFiniteSet(pending) /\ Parking \in DOMAIN held
         /\ \A n \in DOMAIN plan : /\ Target(n) \in DOMAIN held /\ plan[n][2] \in DOMAIN held
                                   /\ Target(n) \in AnyPlace /\ Target(n) # Parking /\ plan[n][2] # Parking
         /\ \A m, n \in DOMAIN plan : Target(m) = Target(n) => m = n
<1>1. pending \subseteq DOMAIN plan /\ DOMAIN plan \subseteq Nat /\ IsFiniteSet(DOMAIN plan)
  BY DEF CopyTyped, CopiesFit
<1>2. IsFiniteSet(pending)
  BY <1>1, FS_Subset
<1>3. ASSUME NEW n \in DOMAIN plan PROVE Target(n) \in DOMAIN held /\ plan[n][2] \in DOMAIN held
  <2>1. plan[n] \in Range(plan)
    BY DEF Range
  <2> QED
    BY <2>1 DEF CopyTyped, Target
<1>4. \A n \in DOMAIN plan : Target(n) \in AnyPlace /\ Target(n) # Parking /\ plan[n][2] # Parking
  BY DEF CopyTyped, CopiesFit, Target
<1>5. \A m, n \in DOMAIN plan : Target(m) = Target(n) => m = n
  BY DEF CopyTyped, CopiesFit, Target
<1> QED
  BY <1>1, <1>2, <1>3, <1>4, <1>5 DEF CopyTyped

\* Where no copy can be made, each target is read by a copy of its own, so what
\* is read is targets, and the parking register is none of them.
LEMMA StuckIsCycles ==
  ASSUME CopyTyped, pending # {}, Ready = {}
  PROVE  \A m \in pending : \E n \in pending : from[m] = Target(n)
<1>1. \A n \in pending : \E m \in pending : from[m] = Target(n)
  BY DEF Ready
<1> DEFINE reader == [n \in pending |-> CHOOSE m \in pending : from[m] = Target(n)]
<1>2. \A n \in pending : reader[n] \in pending /\ from[reader[n]] = Target(n)
  BY <1>1
<1>3. reader \in [pending -> pending]
  BY <1>2
<1> HIDE DEF reader
<1>4. \A a, b \in pending : reader[a] = reader[b] => a = b
  BY <1>2, CopyShape DEF CopyTyped
<1>5. reader \in Injection(pending, pending)
  BY <1>3, <1>4 DEF Injection, IsInjective
<1>6. reader \in Surjection(pending, pending)
  BY <1>5, CopyShape, FS_Injection
<1>7. \A m \in pending : \E n \in pending : reader[n] = m
  BY <1>6 DEF Surjection
<1> QED
  BY <1>2, <1>7

LEMMA StuckReadsPlaces ==
  ASSUME CopyTyped, pending # {}, Ready = {}
  PROVE  \A m \in pending : m \in Victims /\ from[m] # Parking /\ from[m][1] # "lit"
<1> SUFFICES ASSUME NEW m \in pending PROVE m \in Victims /\ from[m] # Parking /\ from[m][1] # "lit"
  OBVIOUS
<1>1. PICK n \in pending : from[m] = Target(n)
  BY StuckIsCycles
<1>2. from[m] \in AnyPlace /\ from[m] # Parking
  BY <1>1, CopyShape DEF CopyTyped
<1> QED
  BY <1>2 DEF Victims, AnyPlace

LEMMA CopyInvBegin ==
  ASSUME NEW cs, NEW how, CopiesFit(cs), how \in {"edge", "call"}, CopyBegin(cs, how)
  PROVE  CopyInv'
<1>1. /\ plan' = cs /\ kind' = how /\ pending' = DOMAIN cs /\ from' = [n \in DOMAIN cs |-> cs[n][2]]
      /\ held' = [p \in {Parking} \union (UNION {{c[1], c[2]} : c \in Range(cs)}) |-> p]
  BY DEF CopyBegin, Untouched
<1>2. CopyTyped'
  BY <1>1 DEF CopyTyped
<1>3. ASSUME NEW n \in DOMAIN cs PROVE from'[n] = cs[n][2] /\ held'[cs[n][2]] = cs[n][2]
  <2>1. cs[n] \in Range(cs)
    BY DEF Range
  <2> QED
    BY <1>1, <2>1
<1>4. CopiesSound'
  BY <1>1, <1>3, <1>2 DEF CopiesSound, CopyTyped, CopiesFit
<1> QED
  BY <1>2, <1>4 DEF CopyInv

\* Nothing to copy is copied, and fits.
LEMMA NothingFits ==
  ASSUME NEW cs, cs = << >>
  PROVE  CopiesFit(cs)
<1>1. DOMAIN cs = {}
  OBVIOUS
<1> QED
  BY <1>1, FS_EmptySet DEF CopiesFit

LEMMA CopyInvIdle ==
  ASSUME CopyIdle
  PROVE  CopyInv
<1>1. CopiesFit(plan)
  BY NothingFits DEF CopyIdle
<1>2. pending = {} /\ kind = "edge" /\ plan = << >> /\ from = << >> /\ DOMAIN plan = {}
  BY DEF CopyIdle
<1>3. CopyTyped
  BY <1>1, <1>2 DEF CopyIdle, CopyTyped, Untouched
<1> QED
  BY <1>2, <1>3 DEF CopyInv, CopiesSound

LEMMA CopyInvReady ==
  ASSUME CopyInv, CopyReady
  PROVE  CopyInv'
<1> DEFINE n == Min(Ready)
<1>1. n \in pending /\ \A m \in pending \ {n} : from[m] # Target(n)
  <2>1. n \in Ready
    BY LeastOf, CopyShape DEF CopyInv, CopyReady, Ready
  <2> QED
    BY <2>1 DEF Ready
<1>2. /\ held' = [held EXCEPT ![Target(n)] = held[from[n]], ![Parking] = IF from[n][1] = "lit" THEN NoValue ELSE @]
      /\ pending' = pending \ {n}
      /\ plan' = plan /\ kind' = kind /\ from' = from
  BY DEF CopyReady
<1> HIDE DEF n
<1>3. /\ CopyTyped /\ CopiesSound /\ n \in DOMAIN plan /\ Target(n) \in DOMAIN held
      /\ \A m \in DOMAIN plan : Target(m)' = Target(m)
      /\ \A m \in DOMAIN plan \ {n} : Target(m) # Target(n)
  BY <1>1, <1>2, CopyShape DEF CopyInv, CopyTyped, Target
<1>4. /\ DOMAIN held' = DOMAIN held /\ held'[Target(n)] = plan[n][2]
      /\ \A p \in DOMAIN held \ {Target(n), Parking} : held'[p] = held[p]
      /\ from[n][1] # "lit" => held'[Parking] = held[Parking]
  <2>1. Parking \in DOMAIN held /\ Target(n) # Parking /\ held[from[n]] = plan[n][2]
    BY <1>1, <1>3, CopyShape DEF CopiesSound
  <2> DEFINE t == Target(n)
             v == held[from[n]]
             p == Parking
             w == IF from[n][1] = "lit" THEN NoValue ELSE held[p]
  <2>2. held' = [[held EXCEPT ![t] = v] EXCEPT ![p] = w]
    BY <1>2, <1>3, <2>1
  <2>3. t \in DOMAIN held /\ p \in DOMAIN held /\ t # p /\ v = plan[n][2] /\ (from[n][1] # "lit" => w = held[p])
    BY <1>3, <2>1
  <2> HIDE DEF t, v, p, w
  <2>4. DOMAIN held' = DOMAIN held /\ held'[t] = v /\ held'[p] = w /\ \A q \in DOMAIN held \ {t, p} : held'[q] = held[q]
    BY <2>2, <2>3
  <2> QED
    BY <2>3, <2>4 DEF t, p
<1>5. CopyTyped'
  BY <1>2, <1>3, <1>4 DEF CopyTyped
<1>6. ASSUME NEW m \in pending' PROVE from'[m] \in {plan'[m][2], Parking} /\ held'[from'[m]] = plan'[m][2]
  <2>1. m \in pending /\ m \in DOMAIN plan /\ from[m] # Target(n) /\ from[m] \in {plan[m][2], Parking} /\ held[from[m]] = plan[m][2]
    BY <1>1, <1>2, <1>3 DEF CopyTyped, CopiesSound
  <2>2. from[m] \in DOMAIN held
    BY <1>3, <2>1, CopyShape
  <2>3. from[m] = Parking => from[n][1] # "lit"
    BY <1>1, <1>3, <2>1 DEF CopiesSound
  <2>4. held'[from[m]] = held[from[m]]
    BY <1>4, <2>1, <2>2, <2>3
  <2> QED
    BY <1>2, <2>1, <2>4
<1>7. ASSUME NEW m \in DOMAIN plan' \ pending' PROVE held'[Target(m)'] = plan'[m][2]
  <2>1. CASE m = n
    BY <1>2, <1>3, <1>4, <2>1
  <2>2. CASE m # n
    <3>1. m \in DOMAIN plan \ pending /\ held[Target(m)] = plan[m][2] /\ Target(m) \in DOMAIN held \ {Target(n), Parking}
      BY <1>2, <1>3, <2>2, CopyShape DEF CopiesSound
    <3> QED
      BY <1>2, <1>3, <1>4, <3>1
  <2> QED
    BY <2>1, <2>2
<1>8. \A l, m \in pending' : from'[l] = Parking => from'[m][1] # "lit"
  BY <1>2, <1>3 DEF CopiesSound
<1> QED
  BY <1>5, <1>6, <1>7, <1>8 DEF CopyInv, CopiesSound

\* On an edge the parking register is free when a source is parked: what is
\* read, if no copy can be made, is targets.
LEMMA CopyInvParkSource ==
  ASSUME CopyInv, ParkSource
  PROVE  CopyInv'
<1> DEFINE n == Min(Victims)
<1>1. n \in pending /\ from[n] # Parking
  <2>1. n \in Victims
    BY LeastOf, CopyShape DEF CopyInv, ParkSource, Victims
  <2> QED
    BY <2>1 DEF Victims
<1>2. /\ held' = [held EXCEPT ![Parking] = held[from[n]]] /\ pending' = pending
      /\ plan' = plan /\ kind' = kind /\ from' = [from EXCEPT ![n] = Parking]
  BY DEF ParkSource
<1> HIDE DEF n
<1>3. \A m \in pending : from[m] # Parking /\ from[m][1] # "lit"
  BY StuckReadsPlaces DEF CopyInv, ParkSource
<1>4. /\ CopyTyped /\ CopiesSound /\ Parking \in DOMAIN held /\ pending \subseteq DOMAIN plan
      /\ \A m \in DOMAIN plan : Target(m)' = Target(m) /\ Target(m) \in DOMAIN held /\ Target(m) # Parking
  BY <1>2, CopyShape DEF CopyInv, CopyTyped, Target
<1>5. held'[Parking] = held[from[n]] /\ \A p \in DOMAIN held \ {Parking} : held'[p] = held[p]
  BY <1>2, <1>4
<1>6. CopyTyped'
  BY <1>2, <1>4 DEF CopyTyped
<1>7. ASSUME NEW m \in pending' PROVE from'[m] \in {plan'[m][2], Parking} /\ held'[from'[m]] = plan'[m][2]
  <2>1. m \in pending /\ m \in DOMAIN from /\ from[m] = plan[m][2] /\ from[m] # Parking /\ held[from[m]] = plan[m][2]
    BY <1>2, <1>3, <1>4 DEF CopyTyped, CopiesSound
  <2>2. from[m] \in DOMAIN held
    BY <1>4, <2>1, CopyShape
  <2>3. CASE m = n
    BY <1>2, <1>5, <2>1, <2>3
  <2>4. CASE m # n
    BY <1>2, <1>5, <2>1, <2>2, <2>4
  <2> QED
    BY <2>3, <2>4
<1>8. ASSUME NEW m \in DOMAIN plan' \ pending' PROVE held'[Target(m)'] = plan'[m][2]
  BY <1>2, <1>4, <1>5 DEF CopiesSound
<1>9. \A m \in pending' : from'[m][1] # "lit"
  BY <1>2, <1>3, <1>4 DEF CopyTyped, Parking, Reg
<1> QED
  BY <1>6, <1>7, <1>8, <1>9 DEF CopyInv, CopiesSound

\* In a call the copy whose target is parked is made at once, and every other
\* that reads the target reads it where it is parked.
LEMMA CopyInvParkTarget ==
  ASSUME CopyInv, ParkTarget
  PROVE  CopyInv'
<1> DEFINE n == Min(pending)
           t == Target(n)
           parked == [held EXCEPT ![Parking] = held[t]]
<1>1. n \in pending
  BY LeastOf, CopyShape DEF CopyInv, ParkTarget
<1>2. /\ held' = [parked EXCEPT ![t] = parked[from[n]]] /\ pending' = pending \ {n}
      /\ from' = [m \in DOMAIN from |-> IF m \in pending \ {n} /\ from[m] = t THEN Parking ELSE from[m]]
      /\ plan' = plan /\ kind' = kind
  BY DEF ParkTarget
<1> HIDE DEF n
<1>3. \A m \in pending : from[m] # Parking /\ from[m][1] # "lit"
  BY StuckReadsPlaces DEF CopyInv, ParkTarget
<1>4. /\ CopyTyped /\ CopiesSound /\ Parking \in DOMAIN held /\ pending \subseteq DOMAIN plan
      /\ DOMAIN from = DOMAIN plan /\ n \in DOMAIN plan
      /\ \A m \in DOMAIN plan : Target(m)' = Target(m) /\ Target(m) \in DOMAIN held /\ Target(m) # Parking
      /\ \A m \in DOMAIN plan \ {n} : Target(m) # t
  BY <1>1, <1>2, CopyShape DEF CopyInv, CopyTyped, Target
<1>5. \A m \in pending : from[m] \in DOMAIN held /\ from[m] = plan[m][2] /\ held[from[m]] = plan[m][2]
  BY <1>3, <1>4, CopyShape DEF CopiesSound
<1>6. t \in DOMAIN held /\ t # Parking
  BY <1>4 DEF t
<1>7. from[n] \in DOMAIN held /\ from[n] # Parking /\ held[from[n]] = plan[n][2]
  BY <1>1, <1>3, <1>5
<1> HIDE DEF t
<1>9. parked[from[n]] = plan[n][2] /\ parked[Parking] = held[t]
  BY <1>4, <1>7
<1>10. /\ DOMAIN held' = DOMAIN held /\ held'[Parking] = held[t] /\ held'[t] = plan[n][2]
       /\ \A p \in DOMAIN held \ {Parking, t} : held'[p] = held[p]
  BY <1>2, <1>4, <1>6, <1>9
<1> HIDE DEF parked
<1>11. CopyTyped'
  BY <1>2, <1>4, <1>10 DEF CopyTyped
<1>12. ASSUME NEW m \in pending' PROVE from'[m] \in {plan'[m][2], Parking} /\ held'[from'[m]] = plan'[m][2]
  <2>1. m \in pending /\ m # n /\ m \in DOMAIN from
    BY <1>2, <1>4
  <2>2. from[m] \in DOMAIN held /\ from[m] = plan[m][2] /\ held[from[m]] = plan[m][2] /\ from[m] # Parking
    BY <1>3, <1>5, <2>1
  <2>3. CASE from[m] = t
    <3>1. from'[m] = Parking
      BY <1>2, <2>1, <2>3
    <3> QED
      BY <1>2, <1>10, <2>2, <2>3, <3>1
  <2>4. CASE from[m] # t
    <3>1. from'[m] = from[m]
      BY <1>2, <2>1, <2>4
    <3> QED
      BY <1>2, <1>10, <2>2, <2>4, <3>1
  <2> QED
    BY <2>3, <2>4
<1>13. ASSUME NEW m \in DOMAIN plan' \ pending' PROVE held'[Target(m)'] = plan'[m][2]
  <2>1. CASE m = n
    BY <1>2, <1>4, <1>10, <2>1 DEF t
  <2>2. CASE m # n
    <3>1. m \in DOMAIN plan \ pending /\ held[Target(m)] = plan[m][2]
      BY <1>2, <1>4, <2>2 DEF CopiesSound
    <3>2. Target(m) \in DOMAIN held \ {Parking, t} /\ Target(m)' = Target(m)
      BY <1>4, <2>2, <3>1
    <3> QED
      BY <1>2, <1>10, <3>1, <3>2
  <2> QED
    BY <2>1, <2>2
<1>14. \A m \in pending' : from'[m][1] # "lit"
  BY <1>2, <1>3, <1>4 DEF Parking, Reg
<1> QED
  BY <1>11, <1>12, <1>13, <1>14 DEF CopyInv, CopiesSound

LEMMA CopyInvStep ==
  ASSUME CopyInv, CopyStep
  PROVE  CopyInv'
BY CopyInvReady, CopyInvParkSource, CopyInvParkTarget DEF CopyStep

LEMMA CopyInvNext ==
  ASSUME CopyInv, [CopyNext]_copier
  PROVE  CopyInv'
<1>1. CASE \E cs, how : CopiesFit(cs) /\ how \in {"edge", "call"} /\ CopyStart(cs, how)
  BY <1>1, CopyInvBegin DEF CopyStart
<1>2. CASE CopyStep
  BY <1>2, CopyInvStep
<1>3. CASE CopyRelease
  <2>1. CopyBegin(<< >>, "edge")
    BY <1>3 DEF CopyRelease
  <2> QED
    BY <2>1, CopyInvBegin, NothingFits
<1>4. CASE UNCHANGED copier
  BY <1>4 DEF copier, CopyInv, CopyTyped, CopiesSound, Target
<1> QED
  BY <1>1, <1>2, <1>3, <1>4 DEF CopyNext

\* However many copies are meant together, and whatever cycles they form, the
\* one register that the emitter keeps for it is enough to make all of them one
\* after another: in the end every target holds what its source held at first.
THEOREM CopiesTogetherHolds == CopySpec => []CopiesTogether
<1>1. CopyIdle => CopyInv
  BY CopyInvIdle
<1>2. CopyInv /\ [CopyNext]_copier => CopyInv'
  BY CopyInvNext
<1>3. CopyInv => CopiesTogether
  BY StuckReadsPlaces DEF CopyInv, CopiesTogether, CopiesSound, CopyTyped
<1> QED
  BY <1>1, <1>2, <1>3, PTL DEF CopySpec

-----------------------------------------------------------------------------
(* The copies of a function fit                                            *)

\* A temporary that was touched has a place, and it is not the parking register.
LEMMA PlaceIsProper ==
  ASSUME Done, NEW t \in DOMAIN ivs
  PROVE  locs[t] \in AnyPlace /\ locs[t] # Parking
<1>1. Sound(locs, slots, active, free, todo) /\ t \in DOMAIN locs
  BY DEF Done, Allocated, Placed, Placing
<1>2. CASE \E m \in Nat : locs[t] = Slot(m)
  BY <1>2 DEF AnyPlace, Parking, Slot, Reg
<1>3. CASE \E r \in Nat : locs[t] = Reg(r)
  <2>1. PICK r \in Nat : locs[t] = Reg(r)
    BY <1>3
  <2>2. MayHold(t, r)
    BY <1>1, <2>1 DEF Sound, RegistersKept
  <2>3. CASE t \in Params(func)
    <3>1. PICK n \in DOMAIN func.params : t = ParamName(func, n)
      BY <2>3 DEF Params, ParamName
    <3>2. r = ParamReg(n) /\ n \in Nat
      BY <2>2, <3>1, Shape DEF MayHold, Done, Solved4All, Settled, AllNumbered
    <3> QED
      BY <2>1, <3>2, ScratchAssumption, RegistersAssumption DEF ParamReg, AnyPlace, Parking, Reg, DstScratch
  <2>4. CASE t \notin Params(func)
    <3>1. r \in PoolLo..PoolHi
      BY <2>2, <2>4 DEF MayHold, Pool
    <3> QED
      BY <2>1, <3>1, ScratchAssumption, RegistersAssumption DEF AnyPlace, Parking, Reg, DstScratch, PoolLo
  <2> QED
    BY <2>3, <2>4
<1> QED
  BY <1>1, <1>2, <1>3 DEF Sound, PlacesTyped

\* So is the place of any value.
LEMMA SourceIsProper ==
  ASSUME Done, NEW v, IsTemp(v) => v[2] \in DOMAIN ivs
  PROVE  PlaceOf(locs, v) # Parking
<1>1. CASE IsTemp(v)
  BY <1>1, PlaceIsProper DEF PlaceOf
<1>2. CASE ~IsTemp(v)
  BY <1>2 DEF PlaceOf, LitSrc, Parking, Reg
<1> QED
  BY <1>1, <1>2

\* Operands in R1, R2, ... up to a register below the parking one.
LEMMA OperandsFit ==
  ASSUME NEW srcs, NEW top \in Nat, top < DstScratch, DOMAIN srcs \subseteq 1..top,
         \A n \in DOMAIN srcs : srcs[n] # Parking
  PROVE  CopiesFit(OperandCopies(srcs))
<1> DEFINE cs == OperandCopies(srcs)
<1>1. DOMAIN cs \subseteq DOMAIN srcs /\ \A n \in DOMAIN cs : cs[n] = <<Reg(n), srcs[n]>>
  BY DEF OperandCopies
<1>2. DOMAIN cs \subseteq 1..top
  BY <1>1
<1> HIDE DEF cs
<1>3. IsFiniteSet(DOMAIN cs)
  BY <1>2, FS_Interval, FS_Subset
<1>4. ASSUME NEW n \in DOMAIN cs PROVE Reg(n) \in AnyPlace /\ Reg(n) # Parking /\ n \in Nat
  BY <1>2 DEF AnyPlace, Parking, Reg, DstScratch
<1>5. \A m, n \in DOMAIN cs : cs[m][1] = cs[n][1] => m = n
  BY <1>1, Places
<1>6. ASSUME NEW n \in DOMAIN cs
      PROVE  cs[n] = <<cs[n][1], cs[n][2]>> /\ cs[n][1] \in AnyPlace \ {Parking} /\ cs[n][2] # Parking
  BY <1>1, <1>4
<1>7. DOMAIN cs \subseteq Nat
  BY <1>4
<1> QED
  BY <1>3, <1>5, <1>6, <1>7 DEF CopiesFit, cs

LEMMA CallCopiesFit ==
  ASSUME Done, FitsEmitter(func), NEW b \in DOMAIN func.bs, NEW k \in DOMAIN func.bs[b].is
  PROVE  CopiesFit(OperandCopies(CallSrcs(locs, func.bs[b].is[k])))
<1> DEFINE i == func.bs[b].is[k]
<1>1. \A t \in InstrUses(i) : t \in DOMAIN ivs
  BY InstrTouched DEF Done, Touched
<1>2. /\ OrdinaryCall(i) => DOMAIN i.as \subseteq 1..ParamMax
      /\ i.k = "BoundsCheck" => 1 \in DOMAIN i.as
  <2>1. i \in Range(func.bs[b].is)
    BY DEF Range
  <2> HIDE DEF i
  <2>2. Callable(i)
    BY <2>1 DEF FitsEmitter
  <2> QED
    BY <2>2 DEF Callable
<1> HIDE DEF i
<1>3. CASE OrdinaryCall(i)
  <2>1. ~IsPhi(i) /\ CallSrcs(locs, i) = [n \in DOMAIN i.as |-> PlaceOf(locs, i.as[n])]
    BY <1>3 DEF CallSrcs, OrdinaryCall, IsPhi
  <2>2. ASSUME NEW n \in DOMAIN i.as PROVE PlaceOf(locs, i.as[n]) # Parking
    <3>1. IsTemp(i.as[n]) => i.as[n][2] \in InstrUses(i)
      BY <2>1 DEF InstrUses, TempsOf
    <3> QED
      BY <1>1, <3>1, SourceIsProper
  <2>3. ParamMax \in Nat /\ ParamMax < DstScratch
    BY ScratchAssumption, RegistersAssumption
  <2> QED
    BY <1>2, <1>3, <2>1, <2>2, <2>3, OperandsFit DEF i
<1>4. CASE i.k = "BoundsCheck" /\ ~OrdinaryCall(i)
  <2>1. CallSrcs(locs, i) = <<PlaceOf(locs, i.as[1]), LitSrc(i.n)>>
    BY <1>4 DEF CallSrcs
  <2>2. PlaceOf(locs, i.as[1]) # Parking
    <3>1. ~IsPhi(i) 
      BY <1>4 DEF IsPhi
    <3>2. IsTemp(i.as[1]) => i.as[1][2] \in InstrUses(i)
      BY <1>2, <1>4, <3>1 DEF InstrUses, TempsOf
    <3> QED
      BY <1>1, <3>2, SourceIsProper
  <2>3. LitSrc(i.n) # Parking
    BY DEF LitSrc, Parking, Reg
  <2>4. 2 \in Nat /\ 2 < DstScratch /\ DOMAIN <<PlaceOf(locs, i.as[1]), LitSrc(i.n)>> \subseteq 1..2
    BY DEF DstScratch
  <2> QED
    BY <2>1, <2>2, <2>3, <2>4, OperandsFit DEF i
<1>5. CASE i.k # "BoundsCheck" /\ ~OrdinaryCall(i)
  <2>1. CallSrcs(locs, i) = << >>
    BY <1>5 DEF CallSrcs
  <2>2. 0 \in Nat /\ 0 < DstScratch /\ DOMAIN << >> \subseteq 1..0
    BY DEF DstScratch
  <2> QED
    BY <2>1, <2>2, OperandsFit DEF i
<1> QED
  BY <1>3, <1>4, <1>5

\* The block a label names.
LEMMA IndexFinds ==
  ASSUME FitsAllocator(func), NEW b \in DOMAIN func.bs
  PROVE  Index(func, func.bs[b].label) \in DOMAIN func.bs
<1> DEFINE l == func.bs[b].label
           named == {c \in DOMAIN func.bs : func.bs[c].label = l}
<1>1. DOMAIN func.bs = 1..Len(func.bs) /\ Len(func.bs) \in Nat
  BY Shape
<1>2. PICK x \in named : \A c \in named : x <= c
  <2>1. b \in named /\ named \subseteq Nat
    BY <1>1
  <2> QED
    BY <2>1, LeastNatural
<1>3. x \in DOMAIN func.bs /\ func.bs[x].label = l /\ \A c \in 1..x-1 : func.bs[c].label # l
  BY <1>1, <1>2
<1>4. BlockNamed(func, l) \in DOMAIN func.bs
  BY <1>3 DEF BlockNamed
<1> QED
  BY <1>4 DEF Index

\* What leaves on an edge is alive at the end of the block.
LEMMA EdgeTouched ==
  ASSUME Solved4All, NEW b \in DOMAIN func.bs, NEW t \in EdgeOut(func, b)
  PROVE  Touched(t, BlockEnd(func, starts, b))
<1> DEFINE last == liveOut[b] \union TermUses(func.bs[b].term) \union info[b].edge
           end == BlockEnd(func, starts, b)
<1>1. info[b].edge = EdgeOut(func, b)
  BY DEF Solved4All, Settled, BlockInfo
<1>2. \A u \in BlockTouches(b) : u[2] \in Nat => Touched(u[1], u[2])
  BY TouchedIs DEF Touches
<1>3. end \in Nat
  BY NumbersAscend DEF Solved4All, Settled
<1>4. AllAt(last, end) \subseteq BlockTouches(b)
  BY DEF BlockTouches
<1>5. t \in last
  BY <1>1
<1> HIDE DEF last, end
<1>6. <<t, end>> \in AllAt(last, end)
  BY <1>5 DEF AllAt
<1>7. Touched(t, end)
  BY <1>2, <1>3, <1>4, <1>6
<1> QED
  BY <1>7 DEF end

\* The phis of one block are alive together at the end of every block they come
\* from, and so is what they take from there.
LEMMA EdgeCopiesFit ==
  ASSUME Done, NEW b \in DOMAIN func.bs, NEW s \in DOMAIN func.bs
  PROVE  CopiesFit(EdgeCopies(locs, func.bs[b], func.bs[s]))
<1> DEFINE is == func.bs[s].is
           label == func.bs[b].label
           phis == {k \in DOMAIN is : IsPhi(is[k]) /\ label \in Range(is[k].from)}
           arm(i) == i.as[CHOOSE m \in DOMAIN i.from : i.from[m] = label]
           cs == EdgeCopies(locs, func.bs[b], func.bs[s])
           p == Index(func, label)
<1>1. DOMAIN cs = phis /\ \A n \in phis : cs[n] = <<locs[is[n].d], PlaceOf(locs, arm(is[n]))>>
  BY DEF EdgeCopies
<1>2. Solved4All /\ Settled /\ Len(is) \in Nat /\ DOMAIN is = 1..Len(is) /\ PhisFirst(func)
  BY NumbersOf DEF Done, Solved4All, Settled, AllNumbered, FitsAllocator
<1>3. p \in DOMAIN func.bs
  BY <1>2, IndexFinds DEF Solved4All, Settled, AllNumbered
<1>4. ASSUME NEW n \in phis
      PROVE  /\ is[n].d # "" /\ is[n].d \in DOMAIN ivs /\ Touched(is[n].d, BlockEnd(func, starts, p))
             /\ IsTemp(arm(is[n])) => arm(is[n])[2] \in DOMAIN ivs
  <2>1. n \in DOMAIN is /\ IsPhi(is[n]) /\ \E m \in DOMAIN is[n].from : is[n].from[m] = label
    BY DEF Range
  <2>2. is[n].d # "" /\ DOMAIN is[n].as = DOMAIN is[n].from
    BY <1>2, <2>1 DEF PhisFirst
  <2>3. p \in PhiBlocksOf(func, is[n])
    BY <1>3, <2>1 DEF PhiBlocksOf
  <2>4. Touched(is[n].d, BlockEnd(func, starts, p))
    BY <1>2, <2>1, <2>2, <2>3, InstrTouched
  <2>5. ASSUME IsTemp(arm(is[n])) PROVE arm(is[n])[2] \in DOMAIN ivs
    <3> DEFINE m == CHOOSE x \in DOMAIN is[n].from : is[n].from[x] = label
               u == <<is[n].as[m][2], is[n].from[m]>>
    <3>1. m \in DOMAIN is[n].from /\ is[n].from[m] = label /\ arm(is[n]) = is[n].as[m]
      BY <2>1
    <3> HIDE DEF m
    <3>2. u \in PhiUses(is[n]) /\ u[2] = label
      <4>1. m \in DOMAIN is[n].as /\ IsTemp(is[n].as[m])
        BY <2>2, <2>5, <3>1
      <4> DEFINE i == is[n]
      <4>2. IsPhi(i) /\ m \in {x \in DOMAIN i.as : IsTemp(i.as[x])} /\ u = <<i.as[m][2], i.from[m]>>
        BY <2>1, <4>1
      <4> HIDE DEF i, u
      <4>3. u \in PhiUses(i)
        BY <4>2 DEF PhiUses
      <4> QED
        BY <3>1, <4>3 DEF i, u
    <3>3. is[n] \in AllInstrs(func)
      <4>1. is[n] \in Range(is) /\ is = func.bs[s].is
        BY <2>1 DEF Range
      <4> HIDE DEF is
      <4> QED
        BY <4>1 DEF AllInstrs
    <3>4. u \in UNION {PhiUses(i) : i \in AllInstrs(func)}
      BY <3>2, <3>3
    <3>5. u[1] \in EdgeOut(func, b)
      BY <3>2, <3>4 DEF EdgeOut
    <3> QED
      BY <3>1, <3>5, EdgeTouched DEF Done, Touched
  <2> QED
    BY <2>2, <2>4, <2>5 DEF Touched
<1>5. IsFiniteSet(phis) /\ phis \subseteq Nat
  <2> DEFINE top == Len(is)
  <2>1. phis \subseteq 1..top /\ top \in Int
    BY <1>2
  <2> HIDE DEF phis, top
  <2>2. IsFiniteSet(1..top)
    BY <2>1, FS_Interval
  <2>3. 1..top \subseteq Nat
    BY <2>1
  <2> QED
    BY <2>1, <2>2, <2>3, FS_Subset
<1>6. ASSUME NEW m \in phis, NEW n \in phis, m # n PROVE is[m].d # is[n].d
  <2>1. m \in DOMAIN is /\ n \in DOMAIN is /\ IsPhi(is[m]) /\ IsPhi(is[n])
    OBVIOUS
  <2>2. m \in 1..n \/ n \in 1..m
    BY <1>2, <2>1
  <2> QED
    BY <1>2, <1>6, <2>1, <2>2 DEF PhisFirst
<1> HIDE DEF cs, phis, arm, is, p
<1>7. ASSUME NEW n \in phis
      PROVE  cs[n] = <<cs[n][1], cs[n][2]>> /\ cs[n][1] \in AnyPlace \ {Parking} /\ cs[n][2] # Parking
  <2> DEFINE d == locs[is[n].d]
             v == PlaceOf(locs, arm(is[n]))
  <2>1. cs[n] = <<d, v>>
    BY <1>1
  <2>2. d \in AnyPlace /\ d # Parking
    BY <1>4, PlaceIsProper
  <2>3. v # Parking
    BY <1>4, SourceIsProper
  <2> HIDE DEF d, v
  <2> QED
    BY <2>1, <2>2, <2>3
<1>8. ASSUME NEW m \in phis, NEW n \in phis, m # n PROVE cs[m][1] # cs[n][1]
  <2>1. cs[m][1] = locs[is[m].d] /\ cs[n][1] = locs[is[n].d]
    BY <1>1
  <2> QED
    BY <1>4, <1>6, <1>8, <2>1, TouchedTogether
<1> QED
  BY <1>1, <1>5, <1>7, <1>8 DEF CopiesFit, cs

\* Wherever a function's copies are made together they fit: what puts them in
\* an order can rely on it that no two have one target, and that none reads or
\* writes the register that breaks cycles.
CopiesFitHere ==
  Allocated => \A b \in DOMAIN func.bs : \A k \in 1..Len(func.bs[b].is)+1 : CopiesFit(InstrCopies(func, locs, b, k))
THEOREM AllocCopiesFit == AllocSpec => [](FitsEmitter(func) => CopiesFitHere)
<1>1. ASSUME Done, FitsEmitter(func), NEW b \in DOMAIN func.bs, NEW k \in 1..Len(func.bs[b].is)+1
      PROVE  CopiesFit(InstrCopies(func, locs, b, k))
  <2>1. Len(func.bs[b].is) \in Nat /\ DOMAIN func.bs[b].is = 1..Len(func.bs[b].is)
    BY <1>1, NumbersOf DEF Done, Solved4All
  <2>2. CASE k <= Len(func.bs[b].is)
    <3>1. k \in DOMAIN func.bs[b].is
      BY <2>1, <2>2
    <3> QED
      BY <1>1, <2>2, <3>1, CallCopiesFit DEF InstrCopies
  <2>3. CASE ~(k <= Len(func.bs[b].is)) /\ func.bs[b].term.k = "Jump"
    <3> DEFINE s == Index(func, func.bs[b].term.to[1])
    <3>1. s \in DOMAIN func.bs
      BY <1>1, <2>3 DEF FitsEmitter
    <3> HIDE DEF s
    <3> QED
      BY <1>1, <2>3, <3>1, EdgeCopiesFit DEF InstrCopies, s
  <2>4. CASE ~(k <= Len(func.bs[b].is)) /\ func.bs[b].term.k # "Jump"
    BY <2>4, NothingFits DEF InstrCopies
  <2> QED
    BY <2>2, <2>3, <2>4
<1>2. Prepared /\ Placed => (FitsEmitter(func) => CopiesFitHere)
  BY <1>1, AllocatedIsDone DEF CopiesFitHere
<1> QED
  BY <1>2, AllocPrepared, AllocPlaced, PTL
=================================================================================
