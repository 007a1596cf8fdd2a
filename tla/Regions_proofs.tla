---------------------------- MODULE Regions_proofs ----------------------------
(***************************************************************************)
(* The bookkeeping of regions stays in order on both backends, for any     *)
(* tasks and cells: marks ascend, and no pointer is freed twice, however   *)
(* tasks interleave their regions.  A region opened by the only task there *)
(* was releases nothing that is still held, unless a mark was refused      *)
(* while there were others.                                                *)
(***************************************************************************)
EXTENDS Regions, SequenceTheorems, FiniteSetTheorems, TLAPS

\* The cells of the arena have been allocated, each is there once, and what was
\* released is not there.
ArenaInOrder ==
  /\ lost \subseteq made
  /\ \A i \in DOMAIN arena : arena[i] \in made /\ arena[i] \notin lost
  /\ \A i, j \in DOMAIN arena : arena[i] = arena[j] => i = j

MemoryOK == MarksAscend /\ ArenaInOrder

IInv == TypeOK /\ MemoryOK

-----------------------------------------------------------------------------
(* What the five operations of the runtimes do to the memory.              *)

\* A prefix of a sequence has its first elements.
LEMMA Prefix ==
  ASSUME NEW S, NEW s \in Seq(S), NEW m \in 0..Len(s)
  PROVE  /\ SubSeq(s, 1, m) \in Seq(S)
         /\ Len(SubSeq(s, 1, m)) = m
         /\ DOMAIN SubSeq(s, 1, m) = 1..m
         /\ \A i \in 1..m : SubSeq(s, 1, m)[i] = s[i]
<1>1. Len(s) \in Nat /\ m \in Nat /\ m <= Len(s)
  OBVIOUS
<1>2. \A i \in 1..m : s[i] \in S
  BY <1>1
<1>3. 1 \in Int /\ m \in Int
  BY <1>1
<1>4. /\ SubSeq(s, 1, m) \in Seq(S)
      /\ Len(SubSeq(s, 1, m)) = IF 1 <= m THEN m - 1 + 1 ELSE 0
      /\ \A i \in 1..(m - 1 + 1) : SubSeq(s, 1, m)[i] = s[1 + i - 1]
  BY ONLY <1>2, <1>3, SubSeqProperties
<1> QED BY <1>1, <1>4

\* Taking the newest mark leaves ascending marks, and none above it.
LEMMA PoppedAscends ==
  ASSUME TypeOK, MarksAscend, marks # <<>>
  PROVE  /\ Popped \in Seq(Nat)
         /\ Mark \in 0..Len(arena)
         /\ \A i \in DOMAIN Popped : Popped[i] <= Mark
         /\ \A i, j \in DOMAIN Popped : i <= j => Popped[i] <= Popped[j]
<1> DEFINE n == Len(marks)
<1>1. marks \in Seq(Nat) /\ n \in Nat /\ n >= 1 /\ DOMAIN marks = 1..n
  BY DEF TypeOK
<1>2. arena \in Seq(Cells) /\ Len(arena) \in Nat
  BY DEF TypeOK
<1>3. /\ \A i, j \in 1..n : i <= j => marks[i] <= marks[j]
      /\ \A i \in 1..n : marks[i] \in Nat /\ marks[i] <= Len(arena)
  BY <1>1 DEF MarksAscend
<1>4. Mark = marks[n] /\ Popped = SubSeq(marks, 1, n - 1)
  BY DEF Mark, Popped
<1>5. n - 1 \in 0..Len(marks)
  BY <1>1
<1>6. /\ Popped \in Seq(Nat) /\ DOMAIN Popped = 1..(n - 1)
      /\ \A i \in 1..(n - 1) : Popped[i] = marks[i]
  BY <1>1, <1>4, <1>5, Prefix
<1>7. 1..(n - 1) \subseteq 1..n /\ n \in 1..n /\ \A i \in 1..(n - 1) : i <= n
  BY <1>1
<1> HIDE DEF n
<1> QED BY <1>2, <1>3, <1>4, <1>6, <1>7

\* An allocation of a new cell.
LEMMA AllocKeeps ==
  ASSUME IInv, NEW c \in Cells \ made,
         AllocT3(c) \/ AllocC(c), made' = made \cup {c},
         UNCHANGED <<marks, lost>>
  PROVE  arena' \in Seq(Cells) /\ MemoryOK'
<1>1. arena \in Seq(Cells) /\ Len(arena) \in Nat /\ marks \in Seq(Nat)
  BY DEF IInv, TypeOK
<1>2. CASE arena' = arena
  BY <1>1, <1>2 DEF IInv, MemoryOK, MarksAscend, ArenaInOrder
<1>3. CASE arena' = Append(arena, c)
  <2>1. /\ arena' \in Seq(Cells) /\ Len(arena') = Len(arena) + 1
        /\ DOMAIN arena' = 1..(Len(arena) + 1)
        /\ \A i \in 1..Len(arena) : arena'[i] = arena[i]
        /\ arena'[Len(arena) + 1] = c
    BY <1>1, <1>3
  <2>2. MarksAscend'
    BY <1>1, <2>1 DEF IInv, MemoryOK, MarksAscend
  <2>3. c \notin lost /\ \A i \in 1..Len(arena) : arena[i] # c
    BY <1>1 DEF IInv, MemoryOK, ArenaInOrder
  <2>4. /\ \A i \in 1..Len(arena) : arena[i] \in made /\ arena[i] \notin lost
        /\ \A i, j \in 1..Len(arena) : arena[i] = arena[j] => i = j
        /\ lost \subseteq made
    BY <1>1 DEF IInv, MemoryOK, ArenaInOrder
  <2>5. \A i \in 1..(Len(arena) + 1) : i \in 1..Len(arena) \/ i = Len(arena) + 1
    BY <1>1
  <2>6. \A i \in DOMAIN arena' : arena'[i] \in made' /\ arena'[i] \notin lost'
    BY <2>1, <2>3, <2>4, <2>5
  <2>7. \A i, j \in DOMAIN arena' : arena'[i] = arena'[j] => i = j
    <3> SUFFICES ASSUME NEW i \in DOMAIN arena', NEW j \in DOMAIN arena',
                        arena'[i] = arena'[j]
                 PROVE  i = j
      OBVIOUS
    <3>1. CASE i \in 1..Len(arena) /\ j \in 1..Len(arena)
      BY <2>1, <2>4, <3>1
    <3>2. CASE i = Len(arena) + 1 \/ j = Len(arena) + 1
      BY <2>1, <2>3, <2>5, <3>2
    <3> QED BY <2>1, <2>5, <3>1, <3>2
  <2>8. ArenaInOrder'
    BY <2>4, <2>6, <2>7 DEF ArenaInOrder
  <2> QED BY <2>1, <2>2, <2>8 DEF MemoryOK
<1> QED BY <1>2, <1>3 DEF AllocT3, AllocC

\* The opening of a region.
LEMMA PushKeeps ==
  ASSUME IInv, PushT3 \/ PushC, UNCHANGED <<arena, lost, made>>
  PROVE  marks' \in Seq(Nat) /\ MemoryOK'
<1>1. arena \in Seq(Cells) /\ Len(arena) \in Nat /\ marks \in Seq(Nat)
  BY DEF IInv, TypeOK
<1>2. ArenaInOrder'
  BY DEF IInv, MemoryOK, ArenaInOrder
<1>3. CASE marks' = marks
  BY <1>1, <1>2, <1>3 DEF IInv, MemoryOK, MarksAscend
<1>4. CASE marks' = Append(marks, Len(arena))
  <2>1. /\ marks' \in Seq(Nat) /\ DOMAIN marks' = 1..(Len(marks) + 1)
        /\ Len(marks) \in Nat
        /\ \A i \in 1..Len(marks) : marks'[i] = marks[i]
        /\ marks'[Len(marks) + 1] = Len(arena)
    BY <1>1, <1>4
  <2>2. /\ \A i, j \in 1..Len(marks) : i <= j => marks[i] <= marks[j]
        /\ \A i \in 1..Len(marks) : marks[i] \in Nat /\ marks[i] <= Len(arena)
    BY <1>1 DEF IInv, MemoryOK, MarksAscend
  <2>3. \A i \in 1..(Len(marks) + 1) : i \in 1..Len(marks) \/ i = Len(marks) + 1
    BY <2>1
  <2>4. \A i \in DOMAIN marks' : marks'[i] \in Nat /\ marks'[i] <= Len(arena)
    <3> SUFFICES ASSUME NEW i \in DOMAIN marks'
                 PROVE  marks'[i] \in Nat /\ marks'[i] <= Len(arena)
      OBVIOUS
    <3>1. CASE i \in 1..Len(marks)
      <4>1. marks'[i] = marks[i]
        BY <2>1, <3>1
      <4> QED BY <2>2, <3>1, <4>1
    <3>2. CASE i = Len(marks) + 1
      <4>1. marks'[i] = Len(arena)
        BY <2>1, <3>2
      <4> QED BY <1>1, <4>1
    <3> QED BY <2>1, <2>3, <3>1, <3>2
  <2>5. \A i, j \in DOMAIN marks' : i <= j => marks'[i] <= marks'[j]
    <3> SUFFICES ASSUME NEW i \in DOMAIN marks', NEW j \in DOMAIN marks', i <= j
                 PROVE  marks'[i] <= marks'[j]
      OBVIOUS
    <3>1. CASE j = Len(marks) + 1
      <4>1. marks'[j] = Len(arena)
        BY <2>1, <3>1
      <4> QED BY <2>4, <4>1
    <3>2. CASE j \in 1..Len(marks)
      BY <2>1, <2>2, <3>2
    <3> QED BY <2>1, <2>3, <3>1, <3>2
  <2>6. MarksAscend'
    BY <2>4, <2>5 DEF MarksAscend
  <2> QED BY <1>2, <2>1, <2>6 DEF MemoryOK
<1> QED BY <1>3, <1>4 DEF PushT3, PushC

\* The end of a region.
LEMMA PopKeeps ==
  ASSUME IInv, PopT3 \/ PopC, UNCHANGED made
  PROVE  /\ marks' \in Seq(Nat) /\ arena' \in Seq(Cells) /\ trap' \in BOOLEAN
         /\ MemoryOK'
<1>1. arena \in Seq(Cells) /\ Len(arena) \in Nat /\ marks \in Seq(Nat)
      /\ trap \in BOOLEAN
  BY DEF IInv, TypeOK
<1>2. CASE UNCHANGED <<marks, arena, lost>>
  <2>1. trap' \in BOOLEAN
    BY <1>1 DEF PopT3, PopC, memory
  <2> QED BY <1>1, <1>2, <2>1 DEF IInv, MemoryOK, MarksAscend, ArenaInOrder
<1>3. CASE /\ marks # <<>> /\ marks' = Popped
           /\ \/ UNCHANGED <<arena, lost>>
              \/ arena' = SubSeq(arena, 1, Mark) /\ lost' = lost
              \/ arena' = SubSeq(arena, 1, Mark) /\ lost' = lost \cup Above
           /\ UNCHANGED trap
  <2>1. /\ Popped \in Seq(Nat) /\ Mark \in 0..Len(arena)
        /\ \A i \in DOMAIN Popped : Popped[i] <= Mark
        /\ \A i, j \in DOMAIN Popped : i <= j => Popped[i] <= Popped[j]
    BY <1>3, PoppedAscends DEF IInv, MemoryOK
  <2>2. \A i \in DOMAIN Popped : Popped[i] \in Nat
    BY <2>1
  <2>3. CASE UNCHANGED <<arena, lost>>
    <3>1. MarksAscend'
      BY <1>1, <1>3, <2>1, <2>2, <2>3 DEF MarksAscend
    <3>2. ArenaInOrder'
      BY <2>3 DEF IInv, MemoryOK, ArenaInOrder
    <3> QED BY <1>1, <1>3, <2>1, <2>3, <3>1, <3>2 DEF MemoryOK
  <2>4. CASE arena' = SubSeq(arena, 1, Mark) /\ lost' \in {lost, lost \cup Above}
    <3>1. /\ arena' \in Seq(Cells) /\ Len(arena') = Mark
          /\ DOMAIN arena' = 1..Mark
          /\ \A i \in 1..Mark : arena'[i] = arena[i]
      BY <1>1, <2>1, <2>4, Prefix
    <3>2. MarksAscend'
      BY <1>3, <2>1, <2>2, <3>1 DEF MarksAscend
    <3>3. 1..Mark \subseteq DOMAIN arena /\ (Mark + 1)..Len(arena) \subseteq DOMAIN arena
      BY <1>1, <2>1
    <3>4. Above \subseteq made
      BY <3>3 DEF Above, IInv, MemoryOK, ArenaInOrder
    <3>5. \A i \in 1..Mark : arena[i] \notin Above
      BY <1>1, <2>1, <3>3 DEF Above, IInv, MemoryOK, ArenaInOrder
    <3>6. ArenaInOrder'
      BY <2>4, <3>1, <3>3, <3>4, <3>5 DEF IInv, MemoryOK, ArenaInOrder
    <3> QED BY <1>1, <1>3, <2>1, <3>1, <3>2, <3>6 DEF MemoryOK
  <2> QED BY <1>3, <2>3, <2>4
<1> QED BY <1>2, <1>3 DEF PopT3, PopC, memory

-----------------------------------------------------------------------------

\* Scopes: what is dropped and what is kept are of the right type.
LEMMA ScopesTyped ==
  ASSUME TypeOK, NEW t \in Tasks, NEW d \in 0..MaxDepth, DropHandles(t, d)
  PROVE  /\ handle' \in [Tasks -> (Tasks \X (0..MaxDepth)) \cup {Nobody}]
         /\ held \ Dropped(t, d) \subseteq held
BY DEF TypeOK, DropHandles

\* The invariant is inductive: each operation keeps the types, and the lemmas
\* above keep the memory in order.
LEMMA Inductive == IInv /\ [Next]_vars => IInv'
<1> SUFFICES ASSUME IInv, [Next]_vars PROVE IInv'
  OBVIOUS
<1> USE RegionsAssumption
<1>T. TypeOK
  BY DEF IInv
<1>D. 0 \in 0..MaxDepth
  OBVIOUS
<1>1. CASE UNCHANGED vars
  BY <1>1 DEF vars, memory, history, IInv, TypeOK, MemoryOK, MarksAscend, ArenaInOrder
<1>2. CASE Next
  <2> PICK t \in Alive : /\ impl' = impl
                         /\ \/ \E c \in Cells : Alloc(t, c)
                            \/ Enter(t)
                            \/ Leave(t)
                            \/ \E c \in Cells : Question(t, c)
                            \/ \E u \in Tasks, captured \in SUBSET Cells :
                                 Spawn(t, u, captured)
                            \/ Exit(t, {})
                            \/ \E c \in Cells : Exit(t, {c})
                            \/ \E u \in Tasks : Await(t, u)
    BY <1>2 DEF Next
  <2>0. t \in Tasks /\ open[t] \in 0..MaxDepth
    BY <1>T DEF Alive, TypeOK
  <2>M. UNCHANGED <<memory, made>> => MemoryOK'
    BY DEF memory, IInv, MemoryOK, MarksAscend, ArenaInOrder
  <2>1. ASSUME NEW c \in Cells, Alloc(t, c) PROVE IInv'
    <3>1. arena' \in Seq(Cells) /\ MemoryOK'
      BY <2>1, AllocKeeps DEF Alloc
    <3>2. made' \subseteq Cells /\ held' \subseteq made' \X Tasks \X (0..MaxDepth)
      BY <1>T, <2>0, <2>1 DEF Alloc, history, TypeOK
    <3>3. TypeOK'
      BY <1>T, <2>1, <3>1, <3>2 DEF Alloc, history, TypeOK
    <3> QED BY <3>1, <3>3 DEF IInv
  <2>2. CASE Enter(t)
    <3>1. marks' \in Seq(Nat) /\ MemoryOK'
      BY <2>2, PushKeeps DEF Enter
    <3>2. open' \in [Tasks -> 0..MaxDepth] /\ lone' \in BOOLEAN /\ unmarked' \in BOOLEAN
      BY <1>T, <2>0, <2>2 DEF Enter, TypeOK
    <3>3. TypeOK'
      BY <1>T, <2>2, <3>1, <3>2 DEF Enter, TypeOK
    <3> QED BY <3>1, <3>3 DEF IInv
  <2>3. CASE Leave(t)
    <3>1. marks' \in Seq(Nat) /\ arena' \in Seq(Cells) /\ trap' \in BOOLEAN /\ MemoryOK'
      BY <2>3, PopKeeps DEF Leave
    <3>2. lost' \subseteq Cells
      BY <1>T, <2>3, <3>1 DEF Leave, MemoryOK, ArenaInOrder, TypeOK
    <3>3. open' \in [Tasks -> 0..MaxDepth]
      BY <1>T, <2>0, <2>3 DEF Leave, TypeOK
    <3>4. handle' \in [Tasks -> (Tasks \X (0..MaxDepth)) \cup {Nobody}] /\ held' \subseteq held
      BY <1>T, <2>0, <2>3, ScopesTyped DEF Leave
    <3>5. TypeOK'
      BY <1>T, <2>3, <3>1, <3>2, <3>3, <3>4 DEF Leave, history, TypeOK
    <3> QED BY <3>1, <3>5 DEF IInv
  <2>4. ASSUME NEW c \in Cells, Question(t, c) PROVE IInv'
    <3>1. open' \in [Tasks -> 0..MaxDepth] /\ open'[t] \in 0..MaxDepth
      BY <1>T, <2>0, <2>4 DEF Question, TypeOK
    <3>2. handle' \in [Tasks -> (Tasks \X (0..MaxDepth)) \cup {Nobody}]
      BY <1>T, <2>0, <2>4, ScopesTyped DEF Question
    <3>3. held' \subseteq held \cup {<<c, t, open'[t]>>} /\ c \in made
      BY <1>T, <2>4 DEF Question, TypeOK
    <3>4. TypeOK'
      BY <1>T, <2>0, <2>4, <3>1, <3>2, <3>3 DEF Question, memory, history, TypeOK
    <3> QED BY <2>4, <2>M, <3>4 DEF IInv, Question
  <2>5. ASSUME NEW u \in Tasks, NEW captured \in SUBSET Cells, Spawn(t, u, captured)
        PROVE  IInv'
    <3>1. captured \subseteq made
      BY <1>T, <2>5 DEF Spawn, Holds, TypeOK
    <3>2. handle' \in [Tasks -> (Tasks \X (0..MaxDepth)) \cup {Nobody}]
      BY <1>T, <2>0, <2>5 DEF Spawn, TypeOK
    <3>3. held' \subseteq made \X Tasks \X (0..MaxDepth)
      BY <1>T, <1>D, <2>5, <3>1 DEF Spawn, TypeOK
    <3>4. TypeOK'
      BY <1>T, <2>5, <3>2, <3>3 DEF Spawn, memory, history, TypeOK
    <3> QED BY <2>5, <2>M, <3>4 DEF IInv, Spawn
  <2>6. ASSUME NEW value \in SUBSET Cells, Exit(t, value) PROVE IInv'
    <3>1. \A c \in value : <<c, t, 0>> \in made \X Tasks \X (0..MaxDepth)
      BY <1>T, <2>6 DEF Exit, TypeOK
    <3>2. handle' \in [Tasks -> (Tasks \X (0..MaxDepth)) \cup {Nobody}]
      BY <1>T, <1>D, <2>0, <2>6, ScopesTyped DEF Exit
    <3>3. held' \subseteq held \cup {<<c, t, 0>> : c \in value}
      BY <2>6 DEF Exit
    <3>4. held' \subseteq made \X Tasks \X (0..MaxDepth)
      BY <1>T, <3>1, <3>3 DEF TypeOK
    <3>5. TypeOK'
      BY <1>T, <2>0, <2>6, <3>2, <3>4 DEF Exit, memory, history, TypeOK
    <3> QED BY <2>6, <2>M, <3>5 DEF IInv, Exit
  <2>7. ASSUME NEW u \in Tasks, Await(t, u) PROVE IInv'
    <3>1. \A h \in Holds(u, 0) : h[1] \in made
      BY <1>T DEF Holds, TypeOK
    <3>2. handle' \in [Tasks -> (Tasks \X (0..MaxDepth)) \cup {Nobody}]
      BY <1>T, <2>7 DEF Await, TypeOK
    <3>3. held' \subseteq made \X Tasks \X (0..MaxDepth)
      BY <1>T, <2>0, <2>7, <3>1 DEF Await, TypeOK
    <3>4. TypeOK'
      BY <1>T, <2>7, <3>2, <3>3 DEF Await, memory, history, TypeOK
    <3> QED BY <2>7, <2>M, <3>4 DEF IInv, Await
  <2> QED BY <2>1, <2>2, <2>3, <2>4, <2>5, <2>6, <2>7
<1> QED BY <1>1, <1>2

\* The initial memory is in order: there is none.
LEMMA Initial == Init => IInv
<1> SUFFICES ASSUME Init PROVE IInv
  OBVIOUS
<1>1. marks = <<>> /\ arena = <<>> /\ lost = {} /\ made = {} /\ held = {}
  BY DEF Init
<1>2. marks \in Seq(Nat) /\ arena \in Seq(Cells)
  BY <1>1
<1>3. /\ state \in [Tasks -> {"none", "alive", "done"}]
      /\ open \in [Tasks -> 0..MaxDepth]
      /\ handle \in [Tasks -> (Tasks \X (0..MaxDepth)) \cup {Nobody}]
  BY RegionsAssumption DEF Init
<1>4. TypeOK
  BY <1>1, <1>2, <1>3 DEF Init, TypeOK
<1>5. MemoryOK
  BY <1>1 DEF MemoryOK, MarksAscend, ArenaInOrder
<1> QED BY <1>4, <1>5 DEF IInv

\* The inductive invariant holds of every behaviour.
THEOREM Invariant == Spec => []IInv
BY Initial, Inductive, PTL DEF Spec

\* Every variable of the region bookkeeping keeps its type, on both backends.
THEOREM TypeCorrect == Spec => []TypeOK
<1>1. IInv => TypeOK
  BY DEF IInv
<1> QED BY <1>1, Invariant, PTL

\* However tasks interleave their regions, the marks ascend to the arena's end.
THEOREM MarksStayInOrder == Spec => []MarksAscend
<1>1. IInv => MarksAscend
  BY DEF IInv, MemoryOK
<1> QED BY <1>1, Invariant, PTL

\* Nothing that has been released can be released again.
THEOREM NoDoubleFree == Spec => []FreedOnce
<1>1. IInv => FreedOnce
  BY DEF IInv, MemoryOK, ArenaInOrder, FreedOnce, Elems
<1> QED BY <1>1, Invariant, PTL

-----------------------------------------------------------------------------
(* A region opened by the only task there was.                             *)

\* A task that holds something: one alive, or one finished whose value can be awaited.
There(u) == state[u] = "alive" \/ (state[u] = "done" /\ handle[u] # Nobody)

\* Only what is alive is inside a region or has a handle, to somebody else; nothing is
\* held for nobody.
Known ==
  /\ IsFiniteSet(Alive)
  /\ \A t \in Tasks : open[t] > 0 => state[t] = "alive"
  /\ \A u \in Tasks : handle[u] # Nobody =>
       handle[u][1] # u /\ state[handle[u][1]] = "alive"
  /\ \A h \in held : There(h[2])

\* Regions of different tasks do not overlap, and what is running was spawned in the
\* region its handle's holder is still in.
Nested ==
  /\ \A t, u \in Tasks : open[t] > 0 /\ open[u] > 0 => t = u
  /\ \A u \in Alive : handle[u] # Nobody => handle[u][2] = open[handle[u][1]]

\* The cell of h outlives the i-th region of t: t holds it further out, or the
\* finished task that holds it is awaited further out.
Outlives(h, t, i) ==
  \/ h[2] = t /\ h[3] < i
  \/ h[2] # t /\ state[h[2]] = "done" /\ handle[h[2]][1] = t /\ handle[h[2]][2] < i

\* The mark that the end of the i-th region of t will take: its own, a later one
\* when `?' left some behind, and none when the first regions got none.
Taken(t, i) == LET j == Len(marks) - open[t] + i IN IF j >= 1 THEN marks[j] ELSE 0

\* Such a cell lies below that mark; with none it is not on the list at all.
Low ==
  \A t \in Tasks : \A i \in 1..open[t] : \A h \in held :
    Outlives(h, t, i) => \A p \in DOMAIN arena : arena[p] = h[1] => p <= Taken(t, i)

Sound == lone /\ ~unmarked => Nested /\ Low /\ NothingHeldIsLost

\* In C, where only what is allocated inside a region is listed, the list starts
\* with the first mark.
ListFromFirstMark == impl = "c" => IF marks = <<>> THEN arena = <<>> ELSE marks[1] = 0

SInv == IInv /\ ListFromFirstMark /\ Known /\ Sound

\* The types in the form the steps use them.
LEMMA Types ==
  ASSUME IInv
  PROVE  /\ state \in [Tasks -> {"none", "alive", "done"}] /\ open \in [Tasks -> Nat]
         /\ \A u \in Tasks :
              handle[u] # Nobody => handle[u][1] \in Tasks /\ handle[u][2] \in Nat
         /\ DOMAIN handle = Tasks
         /\ \A h \in held : h[1] \in made /\ h[2] \in Tasks /\ h[3] \in Nat
         /\ marks \in Seq(Nat) /\ Len(marks) \in Nat /\ Len(arena) \in Nat
         /\ DOMAIN arena = 1..Len(arena) /\ DOMAIN marks = 1..Len(marks)
         /\ Nobody[1] \notin Tasks /\ Alive \subseteq Tasks
<1>1. TypeOK
  BY DEF IInv
<1>2. 0..MaxDepth \subseteq Nat
  BY RegionsAssumption
<1>3. open \in [Tasks -> Nat]
  BY <1>1, <1>2 DEF TypeOK
<1>4. \A u \in Tasks : handle[u] = Nobody \/ handle[u] \in Tasks \X (0..MaxDepth)
  BY <1>1 DEF TypeOK
<1>5. \A h \in held : h \in made \X Tasks \X (0..MaxDepth)
  BY <1>1 DEF TypeOK
<1>6. \A h \in held : h[1] \in made /\ h[2] \in Tasks /\ h[3] \in Nat
  BY <1>2, <1>5
<1>7. \A u \in Tasks :
        handle[u] # Nobody => handle[u][1] \in Tasks /\ handle[u][2] \in Nat
  <2>1. \A x \in Tasks \X (0..MaxDepth) : x[1] \in Tasks /\ x[2] \in Nat
    BY <1>2
  <2>2. ASSUME NEW u \in Tasks, handle[u] # Nobody
        PROVE  handle[u][1] \in Tasks /\ handle[u][2] \in Nat
    <3> DEFINE x == handle[u]
    <3>1. x \in Tasks \X (0..MaxDepth)
      BY <1>4, <2>2
    <3> HIDE DEF x
    <3>2. x[1] \in Tasks /\ x[2] \in Nat
      BY <2>1, <3>1
    <3> QED BY <3>2 DEF x
  <2> QED BY <2>2
<1>8. Nobody[1] \notin Tasks
  BY RegionsAssumption DEF Nobody
<1> QED BY <1>1, <1>3, <1>6, <1>7, <1>8 DEF TypeOK, Alive

\* What t drops: a handle that is left is as it was, and of what is held only
\* what t and those it no longer awaits held is gone.
LEMMA Drops ==
  ASSUME IInv, NEW t \in Tasks, NEW d \in Nat, DropHandles(t, d)
  PROVE  /\ \A u \in Tasks : handle'[u] # Nobody => handle'[u] = handle[u]
         /\ \A u \in Tasks : handle'[u] # Nobody => ~(handle[u][1] = t /\ handle[u][2] >= d)
         /\ \A u \in Tasks : handle'[u] = Nobody /\ handle[u] # Nobody
                               => handle[u][1] = t /\ handle[u][2] >= d
         /\ \A h \in held \ Dropped(t, d) :
              /\ ~(h[2] = t /\ h[3] >= d)
              /\ ~(state[h[2]] = "done" /\ handle[h[2]][1] = t /\ handle[h[2]][2] >= d)
<1>1. \A u \in Tasks : handle'[u] = IF handle[u][1] = t /\ handle[u][2] >= d THEN Nobody
                                    ELSE handle[u]
  BY DEF DropHandles, Awaitable
<1>2. \A h \in held : h[2] \in Tasks /\ h[3] \in Nat
  BY Types
<1>3. ASSUME NEW h \in held \ Dropped(t, d)
      PROVE  /\ ~(h[2] = t /\ h[3] >= d)
             /\ ~(state[h[2]] = "done" /\ handle[h[2]][1] = t /\ handle[h[2]][2] >= d)
  <2>1. h \notin Holds(t, d)
    BY <1>3 DEF Dropped
  <2>2. ~(h[2] = t /\ h[3] >= d)
    BY <1>3, <2>1 DEF Holds
  <2>3. h \in Holds(h[2], 0)
    BY <1>2, <1>3 DEF Holds
  <2>4. h[2] \notin {v \in Awaitable(t, d) : state[v] = "done"}
    BY <1>3, <2>3 DEF Dropped
  <2>5. ~(state[h[2]] = "done" /\ handle[h[2]][1] = t /\ handle[h[2]][2] >= d)
    BY <1>2, <1>3, <2>4 DEF Awaitable
  <2> QED BY <2>2, <2>5
<1>4. \A u \in Tasks : handle'[u] # Nobody => ~(handle[u][1] = t /\ handle[u][2] >= d)
  BY <1>1
<1> QED BY <1>1, <1>3, <1>4

\* The end of a region when nobody else runs.
LEMMA NobodyElse ==
  ASSUME IInv, Known, NEW t \in Alive, MayReclaim
  PROVE  Alive = {t}
<1>1. IsFiniteSet(Alive)
  BY DEF Known
<1>2. CASE impl = "t3"
  <2>1. Cardinality(Alive) <= 1
    BY <1>2 DEF MayReclaim, LiveTasks
  <2>2. Cardinality(Alive \ {t}) = Cardinality(Alive) - 1 /\ IsFiniteSet(Alive \ {t})
    BY <1>1, FS_RemoveElement
  <2>3. Cardinality(Alive \ {t}) \in Nat /\ Cardinality(Alive) \in Nat
    BY <1>1, <2>2, FS_CardinalityType
  <2>4. Cardinality(Alive \ {t}) = 0
    BY <2>1, <2>2, <2>3
  <2>5. Alive \ {t} = {}
    BY <2>2, <2>4, FS_EmptySet
  <2> QED BY <2>5
<1>3. CASE impl # "t3"
  <2>1. IsFiniteSet(Alive \ {Main})
    BY <1>1, FS_Subset
  <2>2. Cardinality(Alive \ {Main}) \in Nat
    BY <2>1, FS_CardinalityType
  <2>3. Cardinality(Alive \ {Main}) + 1 <= 1
    BY <1>3 DEF MayReclaim, LiveTasks
  <2>4. Alive \ {Main} = {}
    BY <2>1, <2>2, <2>3, FS_EmptySet
  <2> QED BY <2>4
<1> QED BY <1>2, <1>3

\* What the end of a region does to the arena and the marks, by position.
LEMMA Pops ==
  ASSUME IInv, PopT3 \/ PopC, marks # <<>>
  PROVE  /\ Len(marks') = Len(marks) - 1
         /\ \A i \in 1..(Len(marks) - 1) : marks'[i] = marks[i]
         /\ \A p \in DOMAIN arena' : p \in DOMAIN arena /\ arena'[p] = arena[p]
         /\ \/ lost' = lost
            \/ MayReclaim /\ lost' = lost \cup Above
<1>1. /\ Len(marks) \in Nat /\ marks \in Seq(Nat) /\ arena \in Seq(Cells)
      /\ Len(arena) \in Nat
  BY Types DEF IInv, TypeOK
<1>2. Mark \in 0..Len(arena)
  BY PoppedAscends DEF IInv, MemoryOK
<1>3. /\ marks' = Popped /\ (arena' = arena \/ arena' = SubSeq(arena, 1, Mark))
      /\ (lost' = lost \/ (MayReclaim /\ lost' = lost \cup Above))
  <2>1. CASE PopT3
    BY <2>1 DEF PopT3
  <2>2. CASE PopC
    BY <2>2 DEF PopC
  <2> QED BY <2>1, <2>2
<1>4. Len(marks) - 1 \in 0..Len(marks)
  BY <1>1, EmptySeq
<1>5. /\ Len(Popped) = Len(marks) - 1
      /\ \A i \in 1..(Len(marks) - 1) : Popped[i] = marks[i]
  BY <1>1, <1>4, Prefix DEF Popped
<1>6. /\ DOMAIN SubSeq(arena, 1, Mark) = 1..Mark
      /\ \A i \in 1..Mark : SubSeq(arena, 1, Mark)[i] = arena[i]
  BY <1>1, <1>2, Prefix
<1>7. 1..Mark \subseteq DOMAIN arena
  BY <1>1, <1>2
<1>8. \A p \in DOMAIN arena' : p \in DOMAIN arena /\ arena'[p] = arena[p]
  BY <1>3, <1>6, <1>7
<1> QED BY <1>3, <1>5, <1>8

\* A new cell is held from inside the innermost region, above its mark.
LEMMA AllocSound ==
  ASSUME SInv, NEW t \in Alive, NEW c \in Cells, Alloc(t, c)
  PROVE  Known' /\ Sound'
<1>1. /\ c \notin made /\ (arena' = arena \/ arena' = Append(arena, c))
      /\ held' = held \cup {<<c, t, open[t]>>}
      /\ UNCHANGED <<marks, lost, state, open, handle, lone, unmarked>>
  BY DEF Alloc, AllocT3, AllocC, history
<1>2. IInv /\ Known /\ Sound /\ t \in Tasks /\ state[t] = "alive" /\ Alive' = Alive
  BY <1>1 DEF SInv, Alive
<1>3. ASSUME NEW h \in held'
      PROVE  \/ h \in held /\ h[1] # c
             \/ h[1] = c /\ h[2] = t /\ h[3] = open[t]
  <2>1. \A g \in held : g[1] # c
    BY <1>1, <1>2, Types
  <2> DEFINE new == <<c, t, open[t]>>
  <2>2. new[1] = c /\ new[2] = t /\ new[3] = open[t]
    OBVIOUS
  <2> HIDE DEF new
  <2>3. h \in held \/ h = new
    BY <1>1 DEF new
  <2>4. CASE h \in held
    BY <2>1, <2>4
  <2>5. CASE h = new
    BY <2>2, <2>5
  <2> QED BY <2>3, <2>4, <2>5
<1>4. Known'
  <2>1. \A u \in Tasks : There(u)' <=> There(u)
    BY <1>1 DEF There
  <2>2. There(t)
    BY <1>2 DEF There
  <2>3. \A h \in held' : There(h[2])'
    BY <1>2, <1>3, <2>1, <2>2, Types DEF Known
  <2> QED BY <1>1, <1>2, <2>3 DEF Known
<1>5. ASSUME lone, ~unmarked PROVE Nested' /\ Low' /\ NothingHeldIsLost'
  <2>1. Nested /\ Low /\ NothingHeldIsLost
    BY <1>2, <1>5 DEF Sound
  <2>2. Nested'
    BY <1>1, <1>2, <2>1 DEF Nested
  <2>3. \A p \in DOMAIN arena' : arena'[p] # c => p \in DOMAIN arena /\ arena'[p] = arena[p]
    <3>1. arena \in Seq(Cells)
      BY <1>2 DEF IInv, TypeOK
    <3> QED BY <1>1, <3>1, AppendProperties
  <2>4. Low'
    <3> SUFFICES ASSUME NEW u \in Tasks, NEW i \in 1..open'[u], NEW h \in held',
                        Outlives(h, u, i)', NEW p \in DOMAIN arena', arena'[p] = h[1]
                 PROVE  p <= Taken(u, i)'
      BY DEF Low
    <3>1. Outlives(h, u, i)
      BY <1>1 DEF Outlives
    <3>2. open[u] \in Nat /\ i <= open[u]
      BY <1>1, <1>2, Types
    <3>3. h \in held /\ h[1] # c
      BY <1>2, <1>3, <3>1, <3>2 DEF Outlives
    <3>4. p \in DOMAIN arena /\ arena[p] = h[1]
      BY <2>3, <3>3
    <3> QED BY <1>1, <2>1, <3>1, <3>3, <3>4 DEF Low, Taken
  <2>5. NothingHeldIsLost'
    <3>1. c \notin lost
      BY <1>1, <1>2 DEF IInv, MemoryOK, ArenaInOrder
    <3> QED BY <1>1, <1>3, <2>1, <3>1 DEF NothingHeldIsLost
  <2> QED BY <2>2, <2>4, <2>5
<1> QED BY <1>1, <1>4, <1>5 DEF Sound

\* A region is opened: while there is nobody else, all there is lies below its mark.
LEMMA EnterSound ==
  ASSUME SInv, NEW t \in Alive, Enter(t)
  PROVE  Known' /\ Sound'
<1>1. /\ open' = [open EXCEPT ![t] = @ + 1]
      /\ marks' = Append(marks, Len(arena)) \/ (marks' = marks /\ impl # "t3")
      /\ lone' = (lone /\ Alive = {t})
      /\ unmarked' = (unmarked \/ (marks # <<>> /\ marks' = marks))
      /\ UNCHANGED <<arena, lost, state, handle, made, held>>
  BY DEF Enter, PushT3, PushC
<1>2. IInv /\ Known /\ Sound /\ t \in Tasks /\ state[t] = "alive" /\ Alive' = Alive
  BY <1>1 DEF SInv, Alive
<1>3. open \in [Tasks -> Nat] /\ \A u \in Tasks : open'[u] = IF u = t THEN open[t] + 1 ELSE open[u]
  BY <1>1, <1>2, Types
<1>4. Known'
  <2>1. \A u \in Tasks : There(u)' <=> There(u)
    BY <1>1 DEF There
  <2>2. \A h \in held' : There(h[2])'
    BY <1>1, <1>2, <2>1, Types DEF Known
  <2>3. \A u \in Tasks : open'[u] > 0 => state'[u] = "alive"
    BY <1>1, <1>2, <1>3 DEF Known
  <2> QED BY <1>1, <1>2, <2>2, <2>3 DEF Known
<1>5. ASSUME lone', ~unmarked' PROVE Nested' /\ Low' /\ NothingHeldIsLost'
  <2>1. /\ Nested /\ Low /\ NothingHeldIsLost /\ Alive = {t}
        /\ marks' = Append(marks, Len(arena)) \/ (marks' = marks /\ marks = <<>> /\ arena = <<>>)
    BY <1>1, <1>2, <1>5 DEF Sound, ListFromFirstMark, SInv, IInv, TypeOK
  <2>3. \A u \in Tasks \ {t} : open[u] = 0
    BY <1>2, <1>3, <2>1 DEF Known, Alive
  <2>4. Nested'
    <3>1. \A u, v \in Tasks : open'[u] > 0 /\ open'[v] > 0 => u = v
      BY <1>3, <2>3
    <3>3. handle[t] = Nobody
      <4>1. SUFFICES ASSUME handle[t] # Nobody PROVE FALSE
        OBVIOUS
      <4>2. handle[t][1] # t /\ state[handle[t][1]] = "alive" /\ handle[t][1] \in Tasks
        BY <1>2, <4>1, Types DEF Known
      <4> QED BY <2>1, <4>2 DEF Alive
    <3>4. \A u \in Alive' : handle'[u] # Nobody => handle'[u][2] = open'[handle'[u][1]]
      BY <1>1, <1>2, <2>1, <3>3
    <3> QED BY <3>1, <3>4 DEF Nested
  <2>5. Low'
    <3> SUFFICES ASSUME NEW u \in Tasks, NEW i \in 1..open'[u], NEW h \in held',
                        Outlives(h, u, i)', NEW p \in DOMAIN arena', arena'[p] = h[1]
                 PROVE  p <= Taken(u, i)'
      BY DEF Low
    <3>1. u = t
      BY <1>3, <2>3
    <3>2. Outlives(h, t, i) /\ h \in held /\ p \in DOMAIN arena /\ arena[p] = h[1]
      BY <1>1, <3>1 DEF Outlives
    <3>3. open[t] \in Nat /\ open'[t] = open[t] + 1 /\ p \in 1..Len(arena) /\ Len(arena) \in Nat
      BY <1>2, <1>3, <3>2, Types
    <3>4. CASE marks' = marks /\ arena = <<>>
      BY <3>3, <3>4
    <3>5. CASE marks' = Append(marks, Len(arena))
      <4> DEFINE n == Len(marks)
                 d == open[t]
                 a == Len(arena)
      <4>1. /\ n \in Nat /\ Len(marks') = n + 1 /\ marks'[n + 1] = a
            /\ \A j \in 1..n : marks'[j] = marks[j]
        <5>1. marks \in Seq(Nat) /\ Len(arena) \in Nat
          BY <1>2, Types
        <5> QED BY <3>5, <5>1, AppendProperties
      <4>2. /\ open'[t] = d + 1 /\ d \in Nat /\ p <= a /\ p \in Nat
            /\ i \in 1..(d + 1) /\ Len(marks) = n /\ open[t] = d
        BY <3>1, <3>3
      <4>3. i \in 1..d => p <= Taken(t, i)
        BY <1>2, <2>1, <3>2 DEF Low
      <4> HIDE DEF n, d, a
      <4>4. CASE i = d + 1
        <5>1. (n + 1) - (d + 1) + i = n + 1
          BY <4>1, <4>2, <4>4
        <5> QED BY <3>1, <4>1, <4>2, <5>1 DEF Taken
      <4>5. CASE i # d + 1
        <5>1. i \in 1..d /\ (n + 1) - (d + 1) + i = n - d + i /\ n - d + i <= n /\ n - d + i \in Int
          BY <4>1, <4>2, <4>5
        <5>2. p <= IF n - d + i >= 1 THEN marks[n - d + i] ELSE 0
          BY <4>2, <4>3, <5>1 DEF Taken
        <5>3. n - d + i >= 1 => marks'[n - d + i] = marks[n - d + i]
          BY <4>1, <5>1
        <5> QED BY <3>1, <4>1, <4>2, <5>1, <5>2, <5>3 DEF Taken
      <4> QED BY <4>4, <4>5
    <3> QED BY <2>1, <3>4, <3>5
  <2>6. NothingHeldIsLost'
    BY <1>1, <2>1 DEF NothingHeldIsLost
  <2> QED BY <2>4, <2>5, <2>6
<1> QED BY <1>4, <1>5 DEF Sound

\* t leaves its innermost region one way or the other: what it held there is dropped.
LEMMA DropsKnown ==
  ASSUME IInv, Known, NEW t \in Alive, open[t] > 0, open' = [open EXCEPT ![t] = @ - 1],
         DropHandles(t, open[t]), UNCHANGED state,
         \A h \in held' : h \in held \ Dropped(t, open[t]) \/ h[2] = t
  PROVE  Known' /\ \A u \in Tasks : open'[u] = IF u = t THEN open[t] - 1 ELSE open[u]
<1>1. t \in Tasks /\ state[t] = "alive" /\ open \in [Tasks -> Nat] /\ Alive' = Alive
  BY Types DEF Alive
<1>2. \A u \in Tasks : open'[u] = IF u = t THEN open[t] - 1 ELSE open[u]
  BY <1>1
<1>3. /\ \A u \in Tasks : handle'[u] # Nobody => handle'[u] = handle[u]
      /\ \A u \in Tasks : handle'[u] = Nobody /\ handle[u] # Nobody
                            => handle[u][1] = t /\ handle[u][2] >= open[t]
      /\ \A h \in held \ Dropped(t, open[t]) :
           ~(state[h[2]] = "done" /\ handle[h[2]][1] = t /\ handle[h[2]][2] >= open[t])
  BY <1>1, Drops
<1>4. \A u \in Tasks : open'[u] > 0 => state'[u] = "alive"
  BY <1>1, <1>2 DEF Known
<1>5. \A u \in Tasks : handle'[u] # Nobody =>
        handle'[u][1] # u /\ state'[handle'[u][1]] = "alive"
  BY <1>3 DEF Known
<1>6. ASSUME NEW h \in held' PROVE There(h[2])'
  <2>1. There(t)'
    BY <1>1 DEF There
  <2>2. CASE h[2] # t
    <3>1. h \in held \ Dropped(t, open[t]) /\ h[2] \in Tasks
      BY <2>2, Types
    <3>2. There(h[2])
      BY <3>1 DEF Known
    <3>3. state[h[2]] = "done" /\ handle[h[2]] # Nobody => handle'[h[2]] # Nobody
      BY <1>3, <3>1
    <3> QED BY <3>2, <3>3 DEF There
  <2> QED BY <2>1, <2>2
<1> QED BY <1>1, <1>2, <1>4, <1>5, <1>6 DEF Known

\* A region ends.  Memory is released only when nobody else is alive, and then all
\* that is held outlives the region, hence lies below the mark taken.
LEMMA LeaveSound ==
  ASSUME SInv, NEW t \in Alive, Leave(t)
  PROVE  Known' /\ Sound'
<1>1. /\ open[t] > 0 /\ open' = [open EXCEPT ![t] = @ - 1]
      /\ PopT3 \/ PopC
      /\ DropHandles(t, open[t]) /\ held' = held \ Dropped(t, open[t])
      /\ UNCHANGED <<state, made, lone, unmarked>>
  BY DEF Leave, history
<1>2. /\ IInv /\ Known /\ Sound /\ t \in Tasks /\ state[t] = "alive" /\ Alive' = Alive
      /\ open[t] \in Nat
  BY <1>1, Types DEF SInv, Alive
<1>3. Known' /\ \A u \in Tasks : open'[u] = IF u = t THEN open[t] - 1 ELSE open[u]
  BY <1>1, <1>2, DropsKnown
<1>4. ASSUME lone, ~unmarked PROVE Nested' /\ Low' /\ NothingHeldIsLost'
  <2> DEFINE n == Len(marks)
             d == open[t]
  <2>1. Nested /\ Low /\ NothingHeldIsLost
    BY <1>2, <1>4 DEF Sound
  <2>2. n \in Nat /\ d \in Nat /\ d > 0
    BY <1>1, <1>2, Types
  <2>4. \/ marks = <<>> /\ UNCHANGED <<marks, arena, lost>>
        \/ /\ marks # <<>> /\ n >= 1 /\ Len(marks') = n - 1
           /\ \A i \in 1..(n - 1) : marks'[i] = marks[i]
           /\ \A p \in DOMAIN arena' : p \in DOMAIN arena /\ arena'[p] = arena[p]
           /\ lost' = lost \/ (MayReclaim /\ lost' = lost \cup Above)
    <3>1. CASE marks = <<>>
      BY <1>1, <3>1 DEF PopT3, PopC, memory
    <3>2. CASE marks # <<>>
      <4>1. n >= 1
        BY <1>2, <2>2, <3>2, Types, EmptySeq
      <4> QED BY <1>1, <1>2, <3>2, <4>1, Pops
    <3> QED BY <3>1, <3>2
  <2>5. /\ \A u \in Tasks : handle'[u] # Nobody => handle'[u] = handle[u]
        /\ \A u \in Tasks : handle'[u] # Nobody => ~(handle[u][1] = t /\ handle[u][2] >= d)
        /\ \A h \in held \ Dropped(t, d) :
              /\ ~(h[2] = t /\ h[3] >= d)
              /\ ~(state[h[2]] = "done" /\ handle[h[2]][1] = t /\ handle[h[2]][2] >= d)
    BY <1>1, <1>2, Drops
  <2>6. \A u \in Tasks : u # t => open[u] = 0 /\ open'[u] = 0
    BY <1>1, <1>2, <1>3, <2>1, Types DEF Nested
  <2>7. d = open[t] /\ open'[t] = d - 1
    BY <1>2, <1>3
  <2>8. n = Len(marks)
    OBVIOUS
  <2> HIDE DEF n, d
  <2>9. Nested'
    <3>1. \A u, v \in Tasks : open'[u] > 0 /\ open'[v] > 0 => u = v
      BY <2>6
    <3>3. ASSUME NEW u \in Alive', handle'[u] # Nobody
          PROVE  handle'[u][2] = open'[handle'[u][1]]
      <4>1. handle'[u] = handle[u] /\ u \in Tasks /\ u \in Alive
        BY <1>2, <2>5, <3>3, Types
      <4>2. handle[u][2] = open[handle[u][1]] /\ handle[u][1] \in Tasks
        BY <1>2, <2>1, <3>3, <4>1, Types DEF Nested
      <4>3. handle[u][1] # t
        BY <2>2, <2>5, <2>7, <3>3, <4>1, <4>2
      <4> QED BY <1>3, <4>1, <4>2, <4>3
    <3> QED BY <3>1, <3>3 DEF Nested
  <2>10. Low'
    <3> SUFFICES ASSUME NEW u \in Tasks, NEW i \in 1..open'[u], NEW h \in held',
                        Outlives(h, u, i)', NEW p \in DOMAIN arena', arena'[p] = h[1]
                 PROVE  p <= Taken(u, i)'
      BY DEF Low
    <3>1. u = t
      BY <2>6
    <3>2. i \in 1..d /\ i <= d - 1
      BY <2>2, <2>7, <3>1
    <3>4. h \in held /\ h[2] \in Tasks
      BY <1>1, <1>2, Types
    <3>5. state'[h[2]] = "done" => handle'[h[2]] # Nobody
      BY <1>3 DEF Known, There
    <3>6. Outlives(h, t, i)
      BY <1>1, <2>5, <3>1, <3>4, <3>5 DEF Outlives
    <3>7. p <= (IF n - d + i >= 1 THEN marks[n - d + i] ELSE 0)
      <4>1. p \in DOMAIN arena /\ arena[p] = h[1]
        BY <2>4
      <4>2. p <= Taken(t, i)
        BY <1>2, <2>1, <2>7, <3>2, <3>4, <3>6, <4>1 DEF Low
      <4> QED BY <2>7, <2>8, <4>2 DEF Taken
    <3>8. CASE marks = <<>> /\ UNCHANGED marks
      <4>1. n = 0
        BY <2>8, <3>8
      <4>2. ~(n - d + i >= 1) /\ ~(n - (d - 1) + i >= 1)
        BY <2>2, <3>2, <4>1
      <4> QED BY <2>7, <2>8, <3>1, <3>7, <3>8, <4>2 DEF Taken
    <3>9. CASE n >= 1 /\ Len(marks') = n - 1 /\ \A k \in 1..(n - 1) : marks'[k] = marks[k]
      <4>1. (n - 1) - (d - 1) + i = n - d + i /\ n - d + i <= n - 1 /\ n - d + i \in Int
        BY <2>2, <3>2
      <4>2. n - d + i >= 1 => marks'[n - d + i] = marks[n - d + i]
        BY <2>2, <3>9, <4>1
      <4> QED BY <2>7, <3>1, <3>7, <3>9, <4>1, <4>2 DEF Taken
    <3> QED BY <2>4, <3>8, <3>9
  <2>11. ASSUME NEW h \in held', h[1] \in lost' PROVE FALSE
    <3>1. h \in held \ Dropped(t, d) /\ h \in held /\ h[1] \notin lost /\ h[2] \in Tasks
          /\ h[3] \in Nat
      BY <1>1, <1>2, <2>1, <2>7, Types DEF NothingHeldIsLost
    <3>2. MayReclaim /\ h[1] \in Above /\ marks # <<>> /\ n >= 1
      BY <2>4, <2>11, <3>1
    <3>3. Alive = {t}
      BY <1>2, <3>2, NobodyElse
    <3>4. PICK p \in (Mark + 1)..Len(arena) : arena[p] = h[1]
      BY <3>2 DEF Above
    <3>5. Mark = marks[n] /\ Mark \in Nat /\ Len(arena) \in Nat
      BY <1>2, <3>2, <2>8, PoppedAscends, Types DEF Mark, IInv, MemoryOK
    <3>6. p \in DOMAIN arena /\ ~(p <= marks[n])
      BY <1>2, <3>4, <3>5, Types
    <3>7. There(h[2])
      BY <1>2, <3>1 DEF Known
    <3>8. Outlives(h, t, d)
      <4>1. CASE state[h[2]] = "alive"
        <5>1. h[2] = t
          BY <3>1, <3>3, <4>1 DEF Alive
        <5> QED BY <2>2, <2>5, <3>1, <5>1 DEF Outlives
      <4>2. CASE state[h[2]] = "done" /\ handle[h[2]] # Nobody
        <5>1. /\ state[handle[h[2]][1]] = "alive" /\ handle[h[2]][1] \in Tasks
              /\ handle[h[2]][2] \in Nat
          BY <1>2, <3>1, <4>2, Types DEF Known
        <5>2. handle[h[2]][1] = t
          BY <3>3, <5>1 DEF Alive
        <5>3. h[2] # t
          BY <1>2, <4>2
        <5> QED BY <2>2, <2>5, <3>1, <4>2, <5>1, <5>2, <5>3 DEF Outlives
      <4> QED BY <3>7, <4>1, <4>2 DEF There
    <3>9. d \in 1..d /\ n - d + d = n
      BY <2>2
    <3>10. p <= Taken(t, d)
      BY <1>2, <2>1, <2>7, <3>1, <3>4, <3>6, <3>8, <3>9 DEF Low
    <3> QED BY <2>7, <2>8, <3>2, <3>6, <3>9, <3>10 DEF Taken
  <2>12. NothingHeldIsLost'
    BY <2>11 DEF NothingHeldIsLost
  <2> QED BY <2>9, <2>10, <2>12
<1> QED BY <1>1, <1>3, <1>4 DEF Sound

\* `?' takes an error value out and leaves a mark behind, which only makes the marks
\* of the outer regions higher.
LEMMA QuestionSound ==
  ASSUME SInv, NEW t \in Alive, NEW c \in Cells, Question(t, c)
  PROVE  Known' /\ Sound'
<1> DEFINE new == <<c, t, open'[t]>>
<1>1. /\ open[t] > 0 /\ open' = [open EXCEPT ![t] = @ - 1]
      /\ DropHandles(t, open[t]) /\ held' = (held \ Dropped(t, open[t])) \cup {new}
      /\ <<c, t, open[t]>> \in held
      /\ UNCHANGED <<marks, arena, lost, state, made, lone, unmarked>>
  BY DEF Question, memory, history
<1>2. /\ IInv /\ Known /\ Sound /\ t \in Tasks /\ state[t] = "alive" /\ Alive' = Alive
      /\ open[t] \in Nat
  BY <1>1, Types DEF SInv, Alive
<1>3. new[1] = c /\ new[2] = t /\ new[3] = open'[t]
  OBVIOUS
<1> HIDE DEF new
<1>4. \A h \in held' : h \in held \ Dropped(t, open[t]) \/ h = new
  BY <1>1
<1>5. \A h \in held' : h \in held \ Dropped(t, open[t]) \/ h[2] = t
  BY <1>3, <1>4
<1>6. Known' /\ \A u \in Tasks : open'[u] = IF u = t THEN open[t] - 1 ELSE open[u]
  BY <1>1, <1>2, <1>5, DropsKnown
<1>7. ASSUME lone, ~unmarked PROVE Nested' /\ Low' /\ NothingHeldIsLost'
  <2> DEFINE n == Len(marks)
             d == open[t]
  <2>1. Nested /\ Low /\ NothingHeldIsLost
    BY <1>2, <1>7 DEF Sound
  <2>2. n \in Nat /\ d \in Nat /\ d > 0
    BY <1>1, <1>2, Types
  <2>3. /\ \A u \in Tasks : handle'[u] # Nobody => handle'[u] = handle[u]
        /\ \A u \in Tasks : handle'[u] # Nobody => ~(handle[u][1] = t /\ handle[u][2] >= d)
    BY <1>1, <1>2, Drops
  <2>4. \A u \in Tasks : u # t => open[u] = 0 /\ open'[u] = 0
    BY <1>1, <1>2, <1>6, <2>1, Types DEF Nested
  <2>5. d = open[t] /\ open'[t] = d - 1 /\ n = Len(marks)
    BY <1>2, <1>6
  <2> HIDE DEF n, d
  <2>6. Nested'
    <3>1. \A u, v \in Tasks : open'[u] > 0 /\ open'[v] > 0 => u = v
      BY <2>4
    <3>3. ASSUME NEW u \in Alive', handle'[u] # Nobody
          PROVE  handle'[u][2] = open'[handle'[u][1]]
      <4>1. handle'[u] = handle[u] /\ u \in Tasks /\ u \in Alive
        BY <1>2, <2>3, <3>3, Types
      <4>2. handle[u][2] = open[handle[u][1]] /\ handle[u][1] \in Tasks
        BY <1>2, <2>1, <3>3, <4>1, Types DEF Nested
      <4>3. handle[u][1] # t
        BY <2>2, <2>3, <2>5, <3>3, <4>1, <4>2
      <4> QED BY <1>6, <4>1, <4>2, <4>3
    <3> QED BY <3>1, <3>3 DEF Nested
  <2>7. Low'
    <3> SUFFICES ASSUME NEW u \in Tasks, NEW i \in 1..open'[u], NEW h \in held',
                        Outlives(h, u, i)', NEW p \in DOMAIN arena', arena'[p] = h[1]
                 PROVE  p <= Taken(u, i)'
      BY DEF Low
    <3>1. u = t
      BY <2>4
    <3>2. i \in 1..d /\ i <= d - 1
      BY <2>2, <2>5, <3>1
    <3>3. h # new
      BY <1>3, <2>2, <2>5, <3>1, <3>2 DEF Outlives
    <3>4. h \in held /\ h[2] \in Tasks
      BY <1>2, <1>4, <3>3, Types
    <3>5. state'[h[2]] = "done" => handle'[h[2]] # Nobody
      BY <1>6 DEF Known, There
    <3>6. Outlives(h, t, i)
      BY <1>1, <2>3, <3>1, <3>4, <3>5 DEF Outlives
    <3>7. p \in DOMAIN arena /\ p <= Taken(t, i)
      BY <1>1, <1>2, <2>1, <2>5, <3>2, <3>4, <3>6 DEF Low
    <3>8. /\ \A k \in 1..n : marks[k] \in Nat
          /\ \A k, m \in 1..n : k <= m => marks[k] <= marks[m]
          /\ p \in Nat
      <4>1. marks \in Seq(Nat) /\ 1..n = DOMAIN marks /\ p \in 1..Len(arena)
        BY <1>2, <2>5, <3>7, Types
      <4>2. \A k, m \in DOMAIN marks : k <= m => marks[k] <= marks[m]
        BY <1>2 DEF IInv, MemoryOK, MarksAscend
      <4>3. \A k \in 1..n : marks[k] \in Nat
        BY <2>5, <4>1
      <4>4. p \in Nat
        BY <4>1
      <4> QED BY <4>1, <4>2, <4>3, <4>4
    <3> DEFINE j == n - d + i
    <3>9. j \in Int /\ n - (d - 1) + i = j + 1 /\ j + 1 <= n
      BY <2>2, <3>2
    <3>10. p <= (IF j >= 1 THEN marks[j] ELSE 0)
      BY <2>5, <3>7 DEF Taken
    <3>11. Taken(u, i)' = IF j + 1 >= 1 THEN marks[j + 1] ELSE 0
      BY <1>1, <2>5, <3>1, <3>9 DEF Taken
    <3> HIDE DEF j
    <3>12. p <= (IF j + 1 >= 1 THEN marks[j + 1] ELSE 0)
      <4>1. CASE j >= 1
        <5>1. j \in 1..n /\ j + 1 \in 1..n /\ j <= j + 1
          BY <2>2, <3>9, <4>1
        <5>2. marks[j] <= marks[j + 1] /\ marks[j] \in Nat /\ marks[j + 1] \in Nat
          BY <3>8, <5>1
        <5> QED BY <3>8, <3>9, <3>10, <4>1, <5>2
      <4>2. CASE j = 0
        <5>1. j + 1 \in 1..n
          BY <2>2, <3>9, <4>2
        <5>2. marks[j + 1] \in Nat
          BY <3>8, <5>1
        <5> QED BY <3>8, <3>10, <4>2, <5>2
      <4>3. CASE j < 0
        BY <3>9, <3>10, <4>3
      <4> QED BY <3>9, <4>1, <4>2, <4>3
    <3> QED BY <3>11, <3>12
  <2>8. NothingHeldIsLost'
    <3> DEFINE old == <<c, t, open[t]>>
    <3>1. old \in held /\ old[1] = c
      BY <1>1
    <3> HIDE DEF old
    <3>2. c \notin lost
      BY <2>1, <3>1 DEF NothingHeldIsLost
    <3> QED BY <1>1, <1>3, <1>4, <2>1, <3>2 DEF NothingHeldIsLost
  <2> QED BY <2>6, <2>7, <2>8
<1> QED BY <1>1, <1>6, <1>7 DEF Sound

\* A task is spawned, in the region its parent is in.
LEMMA SpawnSound ==
  ASSUME SInv, NEW t \in Alive, NEW u \in Tasks, NEW captured \in SUBSET Cells,
         Spawn(t, u, captured)
  PROVE  Known' /\ Sound'
<1> DEFINE hnd == <<t, open[t]>>
<1>1. /\ state[u] = "none" /\ state' = [state EXCEPT ![u] = "alive"]
      /\ handle' = [handle EXCEPT ![u] = hnd]
      /\ held' = held \cup {<<c, u, 0>> : c \in captured}
      /\ \A c \in captured : \E h \in held : h[1] = c
      /\ UNCHANGED <<marks, arena, lost, open, made, lone, unmarked>>
  BY DEF Spawn, memory, history, Holds
<1>2. hnd[1] = t /\ hnd[2] = open[t]
  OBVIOUS
<1> HIDE DEF hnd
<1>3. IInv /\ Known /\ Sound /\ t \in Tasks /\ state[t] = "alive" /\ u # t
  BY <1>1 DEF SInv, Alive
<1>4. /\ \A v \in Tasks : state'[v] = IF v = u THEN "alive" ELSE state[v]
      /\ \A v \in Tasks : handle'[v] = IF v = u THEN hnd ELSE handle[v]
      /\ open[u] = 0 /\ open[t] \in Nat
  BY <1>1, <1>3, Types DEF Known
<1>5. Alive' = Alive \cup {u} /\ hnd # Nobody
  BY <1>2, <1>3, <1>4, Types DEF Alive
<1>6. ASSUME NEW h \in held'
      PROVE  \/ h \in held /\ h[2] # u
             \/ h[1] \in captured /\ h[2] = u /\ h[3] = 0
  <2>1. \A g \in held : g[2] # u
    BY <1>1, <1>3 DEF Known, There
  <2>2. CASE h \in held
    BY <2>1, <2>2
  <2>3. CASE h \notin held
    <3>1. PICK c \in captured : h = <<c, u, 0>>
      BY <1>1, <2>3
    <3> QED BY <3>1
  <2> QED BY <2>2, <2>3
<1>7. Known'
  <2>1. IsFiniteSet(Alive')
    BY <1>3, <1>5, FS_AddElement DEF Known
  <2>2. \A v \in Tasks : open'[v] > 0 => state'[v] = "alive"
    BY <1>1, <1>3, <1>4 DEF Known
  <2>3. ASSUME NEW v \in Tasks, handle'[v] # Nobody
        PROVE  handle'[v][1] # v /\ state'[handle'[v][1]] = "alive"
    <3>1. CASE v = u
      BY <1>2, <1>3, <1>4, <3>1
    <3>2. CASE v # u
      <4>1. handle'[v] = handle[v]
        BY <1>4, <3>2
      <4>2. handle[v][1] # v /\ state[handle[v][1]] = "alive" /\ handle[v][1] \in Tasks
        BY <1>3, <2>3, <4>1, Types DEF Known
      <4> QED BY <1>4, <4>1, <4>2
    <3> QED BY <3>1, <3>2
  <2>4. \A h \in held' : There(h[2])'
    <3>1. There(u)'
      BY <1>4 DEF There
    <3>2. \A v \in Tasks : v # u /\ There(v) => There(v)'
      BY <1>4 DEF There
    <3> QED BY <1>3, <1>6, <3>1, <3>2, Types DEF Known
  <2> QED BY <2>1, <2>2, <2>3, <2>4 DEF Known
<1>8. ASSUME lone, ~unmarked PROVE Nested' /\ Low' /\ NothingHeldIsLost'
  <2>1. Nested /\ Low /\ NothingHeldIsLost
    BY <1>3, <1>8 DEF Sound
  <2>2. Nested'
    <3>1. ASSUME NEW v \in Alive', handle'[v] # Nobody
          PROVE  handle'[v][2] = open'[handle'[v][1]]
      <4>1. CASE v = u
        BY <1>1, <1>2, <1>4, <4>1
      <4>2. CASE v # u
        BY <1>1, <1>4, <1>5, <2>1, <3>1, <4>2, Types, <1>3 DEF Nested
      <4> QED BY <4>1, <4>2
    <3> QED BY <1>1, <2>1, <3>1 DEF Nested
  <2>3. Low'
    <3> SUFFICES ASSUME NEW v \in Tasks, NEW i \in 1..open'[v], NEW h \in held',
                        Outlives(h, v, i)', NEW p \in DOMAIN arena', arena'[p] = h[1]
                 PROVE  p <= Taken(v, i)'
      BY DEF Low
    <3>1. v # u
      BY <1>1, <1>4
    <3>2. h[2] # u
      BY <1>4, <3>1 DEF Outlives
    <3>3. h \in held /\ h[2] \in Tasks
      BY <1>3, <1>6, <3>2, Types
    <3>4. Outlives(h, v, i)
      BY <1>4, <3>2, <3>3 DEF Outlives
    <3> QED BY <1>1, <2>1, <3>3, <3>4 DEF Low, Taken
  <2>4. NothingHeldIsLost'
    <3>1. \A c \in captured : c \notin lost
      BY <1>1, <2>1 DEF NothingHeldIsLost
    <3> QED BY <1>1, <1>6, <2>1, <3>1 DEF NothingHeldIsLost
  <2> QED BY <2>2, <2>3, <2>4
<1> QED BY <1>1, <1>7, <1>8 DEF Sound

\* A task ends: its value is awaited in the region it was spawned in.
LEMMA ExitSound ==
  ASSUME SInv, NEW t \in Alive, NEW value \in SUBSET Cells, Exit(t, value)
  PROVE  Known' /\ Sound'
<1>1. /\ open[t] = 0 /\ \A c \in value : <<c, t, 0>> \in held
      /\ state' = [state EXCEPT ![t] = "done"] /\ DropHandles(t, 0)
      /\ held' = (held \ Dropped(t, 0))
                   \cup (IF handle[t] = Nobody THEN {} ELSE {<<c, t, 0>> : c \in value})
      /\ UNCHANGED <<marks, arena, lost, open, made, lone, unmarked>>
  BY DEF Exit, memory, history
<1>2. IInv /\ Known /\ Sound /\ t \in Tasks /\ state[t] = "alive"
  BY DEF SInv, Alive
<1>3. \A v \in Tasks : state'[v] = IF v = t THEN "done" ELSE state[v]
  BY <1>1, <1>2, Types
<1>4. Alive' = Alive \ {t}
  BY <1>2, <1>3 DEF Alive
<1>5. \A v \in Tasks : handle[v] # Nobody => handle[v][1] \in Tasks /\ handle[v][2] >= 0
  <2>1. \A v \in Tasks : handle[v] # Nobody => handle[v][1] \in Tasks /\ handle[v][2] \in Nat
    BY <1>2, Types
  <2> QED BY <2>1
<1>6. /\ \A v \in Tasks : handle'[v] # Nobody => handle'[v] = handle[v] /\ handle[v][1] # t
      /\ \A v \in Tasks : handle'[v] = Nobody /\ handle[v] # Nobody => handle[v][1] = t
      /\ \A h \in held \ Dropped(t, 0) :
           /\ ~(h[2] = t /\ h[3] >= 0)
           /\ ~(state[h[2]] = "done" /\ handle[h[2]][1] = t /\ handle[h[2]][2] >= 0)
  <2>1. 0 \in Nat
    OBVIOUS
  <2>2. /\ \A v \in Tasks : handle'[v] # Nobody => handle'[v] = handle[v]
        /\ \A v \in Tasks : handle'[v] # Nobody => ~(handle[v][1] = t /\ handle[v][2] >= 0)
        /\ \A v \in Tasks : handle'[v] = Nobody /\ handle[v] # Nobody
                               => handle[v][1] = t /\ handle[v][2] >= 0
        /\ \A h \in held \ Dropped(t, 0) :
              /\ ~(h[2] = t /\ h[3] >= 0)
              /\ ~(state[h[2]] = "done" /\ handle[h[2]][1] = t /\ handle[h[2]][2] >= 0)
    BY <1>1, <1>2, <2>1, Drops
  <2> QED BY <1>5, <2>2
<1>7. handle[t] # Nobody => handle'[t] = handle[t]
  BY <1>2, <1>6 DEF Known
<1>8. ASSUME NEW h \in held'
      PROVE  \/ h \in held \ Dropped(t, 0) /\ h \in held /\ h[2] \in Tasks \ {t}
             \/ h[1] \in value /\ h[2] = t /\ h[3] = 0 /\ handle[t] # Nobody
  <2>1. CASE h \in held \ Dropped(t, 0)
    <3>1. h[2] \in Tasks /\ h[3] \in Nat
      BY <1>2, <2>1, Types
    <3>2. h[3] >= 0
      BY <3>1
    <3> QED BY <1>6, <2>1, <3>1, <3>2
  <2>2. CASE h \notin held \ Dropped(t, 0)
    <3>1. PICK c \in value : h = <<c, t, 0>> /\ handle[t] # Nobody
      BY <1>1, <2>2
    <3> QED BY <3>1
  <2> QED BY <2>1, <2>2
<1>9. Known'
  <2>1. IsFiniteSet(Alive')
    BY <1>2, <1>4, FS_Subset DEF Known
  <2>2. \A v \in Tasks : open'[v] > 0 => state'[v] = "alive"
    BY <1>1, <1>2, <1>3 DEF Known
  <2>3. \A v \in Tasks : handle'[v] # Nobody =>
          handle'[v][1] # v /\ state'[handle'[v][1]] = "alive"
    BY <1>2, <1>3, <1>5, <1>6 DEF Known
  <2>4. ASSUME NEW h \in held' PROVE There(h[2])'
    <3>1. CASE h[2] = t /\ handle[t] # Nobody
      BY <1>2, <1>3, <1>7, <3>1 DEF There
    <3>2. CASE h \in held \ Dropped(t, 0) /\ h \in held /\ h[2] \in Tasks \ {t}
      <4>1. There(h[2])
        BY <1>2, <3>2 DEF Known
      <4>2. state[h[2]] = "done" /\ handle[h[2]] # Nobody => handle'[h[2]] # Nobody
        BY <1>5, <1>6, <3>2
      <4> QED BY <1>3, <3>2, <4>1, <4>2 DEF There
    <3> QED BY <1>8, <3>1, <3>2
  <2> QED BY <2>1, <2>2, <2>3, <2>4 DEF Known
<1>10. ASSUME lone, ~unmarked PROVE Nested' /\ Low' /\ NothingHeldIsLost'
  <2>1. Nested /\ Low /\ NothingHeldIsLost
    BY <1>2, <1>10 DEF Sound
  <2>2. Nested'
    <3>1. \A v \in Alive' : handle'[v] # Nobody => handle'[v][2] = open'[handle'[v][1]]
      BY <1>1, <1>2, <1>4, <1>6, <2>1, Types DEF Nested
    <3> QED BY <1>1, <2>1, <3>1 DEF Nested
  <2>3. Low'
    <3> SUFFICES ASSUME NEW v \in Tasks, NEW i \in 1..open'[v], NEW h \in held',
                        Outlives(h, v, i)', NEW p \in DOMAIN arena', arena'[p] = h[1]
                 PROVE  p <= Taken(v, i)'
      BY DEF Low
    <3>1. v # t /\ open[v] \in Nat /\ i <= open[v] /\ i \in Nat
      BY <1>1, <1>2, Types
    <3>2. CASE h[2] = t /\ handle[t] # Nobody
      <4>1. handle[t][1] = v /\ handle[t][2] < i
        BY <1>7, <3>1, <3>2 DEF Outlives
      <4>2. handle[t][2] = open[v]
        BY <1>2, <2>1, <3>2, <4>1 DEF Nested
      <4> QED BY <3>1, <4>1, <4>2
    <3>3. CASE h \in held \ Dropped(t, 0) /\ h \in held /\ h[2] \in Tasks \ {t}
      <4>1. There(h[2])'
        BY <1>9 DEF Known
      <4>2. Outlives(h, v, i)
        BY <1>3, <1>6, <3>3, <4>1 DEF Outlives, There
      <4> QED BY <1>1, <2>1, <3>3, <4>2 DEF Low, Taken
    <3> QED BY <1>8, <3>2, <3>3
  <2>4. NothingHeldIsLost'
    <3>1. ASSUME NEW c \in value PROVE c \notin lost
      <4> DEFINE old == <<c, t, 0>>
      <4>1. old \in held /\ old[1] = c
        BY <1>1
      <4> HIDE DEF old
      <4> QED BY <2>1, <4>1 DEF NothingHeldIsLost
    <3> QED BY <1>1, <1>8, <2>1, <3>1 DEF NothingHeldIsLost
  <2> QED BY <2>2, <2>3, <2>4
<1> QED BY <1>1, <1>9, <1>10 DEF Sound

\* The value of a finished task moves to the region it is awaited in.
LEMMA AwaitSound ==
  ASSUME SInv, NEW t \in Alive, NEW u \in Tasks, Await(t, u)
  PROVE  Known' /\ Sound'
<1>1. /\ state[u] = "done" /\ handle[u][1] = t /\ handle' = [handle EXCEPT ![u] = Nobody]
      /\ held' = (held \ Holds(u, 0)) \cup {<<h[1], t, open[t]>> : h \in Holds(u, 0)}
      /\ UNCHANGED <<marks, arena, lost, state, open, made, lone, unmarked>>
  BY DEF Await, memory, history
<1>2. IInv /\ Known /\ Sound /\ t \in Tasks /\ state[t] = "alive" /\ t # u
      /\ Alive' = Alive
  BY <1>1 DEF SInv, Alive
<1>3. /\ \A v \in Tasks : handle'[v] = IF v = u THEN Nobody ELSE handle[v]
      /\ open[t] \in Nat
  BY <1>1, <1>2, Types
<1>4. ASSUME NEW h \in held'
      PROVE  \/ h \in held /\ h[2] \in Tasks \ {u}
             \/ h[2] = t /\ h[3] = open[t] /\ \E g \in held : g[1] = h[1]
  <2>1. CASE h \in held \ Holds(u, 0)
    <3>1. h[2] \in Tasks /\ h[3] \in Nat
      BY <1>2, <2>1, Types
    <3> QED BY <2>1, <3>1 DEF Holds
  <2>2. CASE h \notin held \ Holds(u, 0)
    <3>1. PICK g \in Holds(u, 0) : h = <<g[1], t, open[t]>>
      BY <1>1, <2>2
    <3>2. g \in held
      BY DEF Holds
    <3> QED BY <3>1, <3>2
  <2> QED BY <2>1, <2>2
<1>5. Known'
  <2>1. \A v \in Tasks \ {u} : There(v)' <=> There(v)
    BY <1>1, <1>3 DEF There
  <2>2. There(t)
    BY <1>2 DEF There
  <2>3. \A h \in held' : There(h[2])'
    BY <1>2, <1>4, <2>1, <2>2 DEF Known
  <2>4. \A v \in Tasks : handle'[v] # Nobody =>
          handle'[v][1] # v /\ state'[handle'[v][1]] = "alive"
    BY <1>1, <1>2, <1>3 DEF Known
  <2> QED BY <1>1, <1>2, <2>3, <2>4 DEF Known
<1>6. ASSUME lone, ~unmarked PROVE Nested' /\ Low' /\ NothingHeldIsLost'
  <2>1. Nested /\ Low /\ NothingHeldIsLost
    BY <1>2, <1>6 DEF Sound
  <2>2. Nested'
    <3>1. \A v \in Alive' : handle'[v] # Nobody => handle'[v][2] = open'[handle'[v][1]]
      BY <1>1, <1>2, <1>3, <2>1, Types DEF Nested
    <3> QED BY <1>1, <2>1, <3>1 DEF Nested
  <2>3. Low'
    <3> SUFFICES ASSUME NEW v \in Tasks, NEW i \in 1..open'[v], NEW h \in held',
                        Outlives(h, v, i)', NEW p \in DOMAIN arena', arena'[p] = h[1]
                 PROVE  p <= Taken(v, i)'
      BY DEF Low
    <3>1. open[v] \in Nat /\ i <= open[v] /\ i \in Nat
      BY <1>1, <1>2, Types
    <3>2. CASE h[2] = t /\ h[3] = open[t]
      BY <1>1, <1>2, <3>1, <3>2 DEF Outlives
    <3>3. CASE h \in held /\ h[2] \in Tasks \ {u}
      <4>1. Outlives(h, v, i)
        BY <1>1, <1>3, <3>3 DEF Outlives
      <4> QED BY <1>1, <2>1, <3>3, <4>1 DEF Low, Taken
    <3> QED BY <1>4, <3>2, <3>3
  <2>4. NothingHeldIsLost'
    BY <1>1, <1>4, <2>1 DEF NothingHeldIsLost
  <2> QED BY <2>2, <2>3, <2>4
<1> QED BY <1>1, <1>5, <1>6 DEF Sound

\* The list of pointers starts with the first mark: nothing is listed outside
\* regions, and the pop that takes the first mark empties the list.
LEMMA ListKeepsFirstMark ==
  ASSUME IInv, ListFromFirstMark, [Next]_vars
  PROVE  ListFromFirstMark'
<1> SUFFICES ASSUME impl = "c", impl' = impl
             PROVE  IF marks' = <<>> THEN arena' = <<>> ELSE marks'[1] = 0
  BY DEF ListFromFirstMark, Next, vars
<1>1. /\ marks \in Seq(Nat) /\ arena \in Seq(Cells) /\ Len(marks) \in Nat
      /\ IF marks = <<>> THEN arena = <<>> ELSE marks[1] = 0
  BY Types DEF IInv, TypeOK, ListFromFirstMark
<1>2. CASE UNCHANGED <<marks, arena>>
  BY <1>1, <1>2
<1>3. CASE UNCHANGED marks /\ marks # <<>>
  BY <1>1, <1>3
<1>4. CASE marks' = Append(marks, Len(arena)) /\ UNCHANGED arena
  <2>1. marks' # <<>> /\ (marks # <<>> => marks'[1] = marks[1]) /\ (marks = <<>> => marks'[1] = Len(arena))
    BY <1>1, <1>4
  <2> QED BY <1>1, <2>1
<1>5. CASE marks # <<>> /\ marks' = Popped /\ arena' = SubSeq(arena, 1, Mark)
  <2>1. /\ Len(marks) >= 1 /\ Len(marks) - 1 \in 0..Len(marks) /\ Mark = marks[Len(marks)]
        /\ Popped = SubSeq(marks, 1, Len(marks) - 1)
    BY <1>1, <1>5, EmptySeq DEF Mark, Popped
  <2>2. /\ Len(marks') = Len(marks) - 1 /\ marks' \in Seq(Nat)
        /\ \A i \in 1..(Len(marks) - 1) : marks'[i] = marks[i]
    BY <1>1, <1>5, <2>1, Prefix
  <2>3. CASE Len(marks) = 1
    <3>1. Mark = 0 /\ marks' = <<>>
      BY <1>1, <1>5, <2>1, <2>2, <2>3, EmptySeq
    <3>2. arena' = <<>>
      BY <1>1, <1>5, <3>1
    <3> QED BY <3>1, <3>2
  <2>4. CASE Len(marks) # 1
    <3>1. 1 \in 1..(Len(marks) - 1) /\ Len(marks') # 0
      BY <1>1, <2>1, <2>2, <2>4
    <3>2. marks' # <<>> /\ marks'[1] = marks[1]
      BY <2>2, <3>1
    <3> QED BY <1>1, <1>5, <3>2
  <2> QED BY <2>3, <2>4
<1>6. CASE Next
  <2> PICK t \in Alive : \/ \E c \in Cells : Alloc(t, c)
                         \/ Enter(t)
                         \/ Leave(t)
                         \/ \E c \in Cells : Question(t, c)
                         \/ \E u \in Tasks, captured \in SUBSET Cells :
                              Spawn(t, u, captured)
                         \/ Exit(t, {})
                         \/ \E c \in Cells : Exit(t, {c})
                         \/ \E u \in Tasks : Await(t, u)
    BY <1>6 DEF Next
  <2>1. ASSUME NEW c \in Cells, Alloc(t, c)
        PROVE  UNCHANGED <<marks, arena>> \/ (UNCHANGED marks /\ marks # <<>>)
    BY <2>1 DEF Alloc, AllocC
  <2>2. ASSUME Enter(t)
        PROVE  UNCHANGED <<marks, arena>> \/ (marks' = Append(marks, Len(arena)) /\ UNCHANGED arena)
    BY <2>2 DEF Enter, PushC
  <2>3. ASSUME Leave(t)
        PROVE  \/ UNCHANGED <<marks, arena>>
               \/ marks # <<>> /\ marks' = Popped /\ arena' = SubSeq(arena, 1, Mark)
    BY <2>3 DEF Leave, PopC, memory
  <2>4. \/ \E c \in Cells : Alloc(t, c)
        \/ Enter(t)
        \/ Leave(t)
        \/ UNCHANGED <<marks, arena>>
    BY DEF Question, Spawn, Exit, Await, memory
  <2> QED BY <1>2, <1>3, <1>4, <1>5, <2>1, <2>2, <2>3, <2>4
<1> QED BY <1>2, <1>6 DEF vars, memory

\* At first there is one task, which holds nothing.
LEMMA SoundInitial == Init => ListFromFirstMark /\ Known /\ Sound
<1> SUFFICES ASSUME Init PROVE ListFromFirstMark /\ Known /\ Sound
  OBVIOUS
<1>1. /\ state = [t \in Tasks |-> IF t = Main THEN "alive" ELSE "none"]
      /\ open = [t \in Tasks |-> 0] /\ handle = [t \in Tasks |-> Nobody]
      /\ held = {} /\ marks = <<>> /\ arena = <<>>
  BY DEF Init
<1>2. Alive = {Main}
  BY <1>1, RegionsAssumption DEF Alive
<1>3. IsFiniteSet(Alive)
  BY <1>2, FS_Singleton
<1>4. Known
  BY <1>1, <1>3 DEF Known
<1>5. Nested
  BY <1>1, <1>2, RegionsAssumption DEF Nested
<1>6. Low /\ NothingHeldIsLost
  BY <1>1 DEF Low, NothingHeldIsLost
<1>7. ListFromFirstMark
  BY <1>1 DEF ListFromFirstMark
<1> QED BY <1>4, <1>5, <1>6, <1>7 DEF Sound

\* Every step keeps who is known and, while every region was opened by the only
\* task there was, what the regions need.
LEMMA SoundInductive == SInv /\ [Next]_vars => SInv'
<1> SUFFICES ASSUME SInv, [Next]_vars PROVE SInv'
  OBVIOUS
<1>1. IInv' /\ IInv
  BY Inductive DEF SInv
<1>4. ListFromFirstMark'
  BY ListKeepsFirstMark DEF SInv
<1>2. CASE UNCHANGED vars
  <2>1. Known'
    BY <1>2 DEF SInv, Known, There, Alive, vars, memory, history
  <2>2. Sound'
    <3>1. UNCHANGED <<marks, arena, lost, state, open, handle, held, lone, unmarked>>
      BY <1>2 DEF vars, memory, history
    <3>2. (\A h, t, i : Outlives(h, t, i)' <=> Outlives(h, t, i)) /\ Alive' = Alive
      BY <3>1 DEF Outlives, Alive
    <3>3. lone /\ ~unmarked => Nested' /\ Low' /\ NothingHeldIsLost'
      BY <3>1, <3>2 DEF SInv, Sound, Nested, Low, Taken, NothingHeldIsLost
    <3> QED BY <3>1, <3>3 DEF Sound
  <2> QED BY <1>1, <1>4, <2>1, <2>2 DEF SInv
<1>3. CASE Next
  <2> PICK t \in Alive : \/ \E c \in Cells : Alloc(t, c)
                         \/ Enter(t)
                         \/ Leave(t)
                         \/ \E c \in Cells : Question(t, c)
                         \/ \E u \in Tasks, captured \in SUBSET Cells :
                              Spawn(t, u, captured)
                         \/ Exit(t, {})
                         \/ \E c \in Cells : Exit(t, {c})
                         \/ \E u \in Tasks : Await(t, u)
    BY <1>3 DEF Next
  <2>1. ASSUME NEW c \in Cells, Alloc(t, c) PROVE Known' /\ Sound'
    BY <2>1, AllocSound
  <2>2. ASSUME Enter(t) PROVE Known' /\ Sound'
    BY <2>2, EnterSound
  <2>3. ASSUME Leave(t) PROVE Known' /\ Sound'
    BY <2>3, LeaveSound
  <2>4. ASSUME NEW c \in Cells, Question(t, c) PROVE Known' /\ Sound'
    BY <2>4, QuestionSound
  <2>5. ASSUME NEW u \in Tasks, NEW captured \in SUBSET Cells, Spawn(t, u, captured)
        PROVE  Known' /\ Sound'
    BY <2>5, SpawnSound
  <2>6. ASSUME NEW value \in SUBSET Cells, Exit(t, value) PROVE Known' /\ Sound'
    BY <2>6, ExitSound
  <2>7. ASSUME NEW u \in Tasks, Await(t, u) PROVE Known' /\ Sound'
    BY <2>7, AwaitSound
  <2>8. {} \in SUBSET Cells /\ \A c \in Cells : {c} \in SUBSET Cells
    OBVIOUS
  <2>9. Known' /\ Sound'
    BY <2>1, <2>2, <2>3, <2>4, <2>5, <2>6, <2>7, <2>8
  <2> QED BY <1>1, <1>4, <2>9 DEF SInv
<1> QED BY <1>2, <1>3

\* A region opened by the program's only task never releases a cell that is still
\* held: not by a task spawned inside it, not by the one that awaits it, not when
\* `?' has left other regions' marks behind, and not when there was no memory for the
\* first mark; unless a region was opened without a mark while there were others.
THEOREM LoneRegionsAreSound == Spec => []SoundWhenAlone
<1>1. Init => SInv
  BY Initial, SoundInitial DEF SInv
<1>2. SInv => SoundWhenAlone
  BY DEF SInv, Sound, SoundWhenAlone
<1> QED BY <1>1, <1>2, SoundInductive, PTL DEF Spec

=============================================================================
