------------------------------ MODULE Sync_proofs ------------------------------
(***************************************************************************)
(* The contract of the mutex, the semaphore and the barrier on either      *)
(* backend, for any tasks, permits and parties.  What the program does in  *)
(* the T3 emulator before it first spawns is left aside (~Early): nothing  *)
(* blocks there.                                                           *)
(*                                                                         *)
(* The ring of a C channel, of the same file of the C runtime, for any     *)
(* values, capacities and number of doublings: it stays intact, and it     *)
(* implements a queue of values.  Both hold while malloc succeeds:         *)
(* manit_chan_grow returns silently when it does not, and the send that    *)
(* called it then overwrites the oldest value.                             *)
(***************************************************************************)
EXTENDS Sync, ChanRing, QueueLemmas

-----------------------------------------------------------------------------
(* What the two backends have in common.                                   *)

Ops == Objects \cup {"idle"}

QTypes ==
  /\ run \in Seq(Tasks) /\ waiters \in [Objects -> Seq(Tasks)]
  /\ op \in [Tasks -> Ops] /\ spawned \subseteq Tasks

Types ==
  /\ SeenTypeOK /\ QTypes
  /\ used \in [Tasks -> 0..MaxOps]
  /\ permits \in Nat /\ arrived \in 0..(Parties - 1) /\ releases \in 0..(Parties - 1)
  /\ outcome \in {"running", "ended", "deadlock"}

\* A task is in R or waits on the object its operation names, in one place only.
Placed ==
  /\ IsInjective(run)
  /\ \A o \in Objects :
       IsInjective(waiters[o])
       /\ \A t \in Range(waiters[o]) : op[t] = o /\ t \notin Range(run)
  /\ \A t \in Tasks : op[t] # "idle" => t \in Range(run) \cup Range(waiters[op[t]])
  /\ \A t \in Tasks \ spawned : t \notin Range(run) /\ op[t] = "idle"

\* The program runs exactly as long as somebody is in R.
Ends == outcome = "running" <=> run # <<>>

InBarrier == {t \in Tasks : op[t] = "barrier"}

\* Every wait begun has returned or is still in the barrier's loop.
Counted ==
  /\ \A t \in Tasks : begun[t] = passed[t] + (IF op[t] = "barrier" THEN 1 ELSE 0)
  /\ Total(begun) = Total(passed) + Cardinality(InBarrier)

\* Permits are taken or left, never made.
Balanced == permits + Total(taken) = Permits

\* The gate lets through what the leaders' rounds allow.
Gate == Total(passed) + releases = Parties * leads

Awoken(o) == {t \in Range(run) : op[t] = o}

Served ==
  /\ waiters["semaphore"] # <<>> => permits <= Cardinality(Awoken("semaphore"))
  /\ waiters["barrier"] # <<>> => releases <= Cardinality(Awoken("barrier"))

Common == Types /\ Placed /\ Ends /\ Counted /\ Balanced /\ Gate /\ Served

\* The C runtime's flag says whether somebody holds the mutex, and its arrivals
\* count the waits of the round to come, each of which takes a release if there
\* is one.
MutexC ==
  /\ held \in BOOLEAN /\ (held <=> holders # {})
  /\ \A t, u \in holders : t = u
  /\ waiters["mutex"] # <<>> => held \/ Awoken("mutex") # {}

BarrierC ==
  /\ Total(begun) = Parties * leads + arrived
  /\ arrived + releases < Parties

InvC == MutexC /\ BarrierC

\* The emulator names the holder, counts the tasks on the gate as arrived, and
\* never has more releases than tasks woken for them.  While nothing has been
\* spawned nothing has been used.
MutexT3 ==
  /\ holder \in Tasks \cup {T3!Nobody}
  /\ holders = {holder} \ {T3!Nobody}
  /\ waiters["mutex"] # <<>> => holder # T3!Nobody \/ Awoken("mutex") # {}

BarrierT3 ==
  /\ arrived = Len(waiters["barrier"])
  /\ releases <= Cardinality(Awoken("barrier"))

Alone ==
  /\ active \in BOOLEAN
  /\ ~active => \A t \in Tasks : op[t] = "idle"

InvT3 == MutexT3 /\ BarrierT3 /\ Alone

IInv ==
  /\ Common
  /\ impl \in {"c", "t3"}
  /\ impl = "c" => InvC
  /\ impl = "t3" => InvT3

-----------------------------------------------------------------------------
(* Sums over the tasks.                                                    *)

LEMMA MarksFinite ==
  ASSUME NEW f \in [Tasks -> Nat]
  PROVE  IsFiniteSet(Marks(f)) /\ Total(f) \in Nat
<1> DEFINE m == [t \in Tasks |-> {t} \X (1..f[t])]
           M == {m[t] : t \in Tasks}
<1>1. IsFiniteSet(Tasks)
  BY SyncAssumption
<1>2. m \in Surjection(Tasks, M)
  BY DEF Surjection
<1>3. \A X \in M : IsFiniteSet(X)
  <2> SUFFICES ASSUME NEW t \in Tasks PROVE IsFiniteSet({t} \X (1..f[t]))
    OBVIOUS
  <2>1. IsFiniteSet({t}) /\ IsFiniteSet(1..f[t])
    <3>1. 1 \in Int /\ f[t] \in Int
      OBVIOUS
    <3>2. IsFiniteSet(1..f[t])
      BY <3>1, FS_Interval
    <3> QED BY <3>2, FS_Singleton
  <2> QED BY <2>1, FS_Product
<1>4. Marks(f) = UNION M
  BY DEF Marks
<1> HIDE DEF m, M
<1>5. IsFiniteSet(M)
  BY <1>1, <1>2, FS_Surjection
<1>6. IsFiniteSet(Marks(f))
  BY <1>3, <1>4, <1>5, FS_UNION
<1> QED BY <1>6, FS_CardinalityType DEF Total

LEMMA TotalZero == Total([t \in Tasks |-> 0]) = 0
<1>1. Marks([t \in Tasks |-> 0]) = {}
  BY DEF Marks
<1> QED BY <1>1, FS_EmptySet DEF Total

LEMMA TotalUp ==
  ASSUME NEW f \in [Tasks -> Nat], NEW t \in Tasks
  PROVE  Total([f EXCEPT ![t] = @ + 1]) = Total(f) + 1
<1> DEFINE g == [f EXCEPT ![t] = @ + 1]
<1>1. g[t] = f[t] + 1 /\ \A u \in Tasks \ {t} : g[u] = f[u]
  OBVIOUS
<1>2. 1..g[t] = (1..f[t]) \cup {f[t] + 1}
  BY <1>1
<1> HIDE DEF g
<1>3. Marks(g) = Marks(f) \cup {<<t, f[t] + 1>>}
  <2>1. ASSUME NEW p \in Marks(g) PROVE p \in Marks(f) \cup {<<t, f[t] + 1>>}
    <3>1. PICK u \in Tasks : p \in {u} \X (1..g[u])
      BY DEF Marks
    <3>2. CASE u = t
      BY <3>1, <3>2, <1>2 DEF Marks
    <3>3. CASE u # t
      BY <3>1, <3>3, <1>1 DEF Marks
    <3> QED BY <3>2, <3>3
  <2>2. ASSUME NEW p \in Marks(f) PROVE p \in Marks(g)
    <3>1. PICK u \in Tasks : p \in {u} \X (1..f[u])
      BY DEF Marks
    <3>2. p \in {u} \X (1..g[u])
      BY <3>1, <1>1, <1>2
    <3> QED BY <3>2 DEF Marks
  <2>3. <<t, f[t] + 1>> \in Marks(g)
    <3>1. <<t, f[t] + 1>> \in {t} \X (1..g[t])
      BY <1>2
    <3> QED BY <3>1 DEF Marks
  <2> QED BY <2>1, <2>2, <2>3
<1>4. <<t, f[t] + 1>> \notin Marks(f)
  <2> SUFFICES ASSUME NEW u \in Tasks, <<t, f[t] + 1>> \in {u} \X (1..f[u]) PROVE FALSE
    BY DEF Marks
  <2>1. u = t /\ f[t] + 1 \in 1..f[t]
    OBVIOUS
  <2> QED BY <2>1
<1> QED BY <1>3, <1>4, MarksFinite, FS_AddElement DEF Total, g

LEMMA TotalDown ==
  ASSUME NEW f \in [Tasks -> Nat], NEW t \in Tasks, f[t] > 0
  PROVE  Total([f EXCEPT ![t] = @ - 1]) = Total(f) - 1
<1> DEFINE g == [f EXCEPT ![t] = @ - 1]
<1>1. g \in [Tasks -> Nat] /\ f = [g EXCEPT ![t] = @ + 1]
  <2>1. g \in [Tasks -> Nat] /\ g[t] = f[t] - 1 /\ \A u \in Tasks \ {t} : g[u] = f[u]
    OBVIOUS
  <2> HIDE DEF g
  <2>2. \A u \in Tasks : f[u] = [g EXCEPT ![t] = @ + 1][u]
    BY <2>1
  <2> QED BY <2>1, <2>2
<1> HIDE DEF g
<1>2. Total(f) = Total(g) + 1
  BY <1>1, TotalUp
<1> QED BY <1>1, <1>2, MarksFinite DEF g

LEMMA TotalSome ==
  ASSUME NEW f \in [Tasks -> Nat], NEW t \in Tasks, f[t] > 0
  PROVE  Total(f) > 0
<1>1. <<t, 1>> \in Marks(f)
  BY DEF Marks
<1> QED BY <1>1, MarksFinite, FS_EmptySet, FS_CardinalityType DEF Total

-----------------------------------------------------------------------------
(* Where a step leaves the tasks.                                          *)

Runner(t) == run # <<>> /\ Head(run) = t

\* Whoever is in R behind t stays there, in the loop it is in.
Others(t) == \A u \in Range(run) \ {t} : u \in Range(run') /\ op'[u] = op[u]

LEMMA Whereabouts ==
  ASSUME QTypes, Placed, NEW t \in Tasks, Runner(t)
  PROVE  /\ t \in Range(run) /\ t \notin Range(Tail(run))
         /\ Range(run) = {t} \cup Range(Tail(run))
         /\ Tail(run) \in Seq(Tasks) /\ IsInjective(Tail(run))
         /\ \A o \in Objects : t \notin Range(waiters[o])
         /\ Range(run) \subseteq Tasks
         /\ \A o \in Objects : Range(waiters[o]) \subseteq Tasks
         /\ "idle" \notin Objects
<1>1. run \in Seq(Tasks) /\ run # <<>> /\ IsInjective(run) /\ Head(run) = t
  BY DEF QTypes, Placed, Runner
<1>2. /\ t \in Range(run) /\ t \notin Range(Tail(run))
      /\ Range(run) = {t} \cup Range(Tail(run))
      /\ Tail(run) \in Seq(Tasks) /\ IsInjective(Tail(run))
  BY <1>1, OfTail
<1>3. Range(run) \subseteq Tasks /\ \A o \in Objects : Range(waiters[o]) \subseteq Tasks
  BY <1>1, OfMembers DEF QTypes
<1>4. \A o \in Objects : t \notin Range(waiters[o])
  BY <1>2 DEF Placed
<1> QED BY <1>2, <1>3, <1>4 DEF Objects

\* The running task leaves the loop it may be in.
LEMMA Stays ==
  ASSUME QTypes, Placed, NEW t \in Tasks, Runner(t),
         UNCHANGED <<run, waiters, spawned>>, op' = [op EXCEPT ![t] = "idle"]
  PROVE  QTypes' /\ Placed' /\ Others(t)
<1>1. \A u \in Tasks : op'[u] = IF u = t THEN "idle" ELSE op[u]
  BY DEF QTypes
<1>2. QTypes'
  BY DEF QTypes, Ops
<1>3. Placed'
  BY <1>1, Whereabouts DEF Placed
<1> QED BY <1>1, <1>2, <1>3, Whereabouts DEF Others

\* The running task goes to the back of the queue of o.
LEMMA Blocks ==
  ASSUME QTypes, Placed, NEW t \in Tasks, Runner(t), NEW o \in Objects,
         run' = Tail(run), waiters' = [waiters EXCEPT ![o] = Append(@, t)],
         op' = [op EXCEPT ![t] = o], spawned' = spawned
  PROVE  /\ QTypes' /\ Placed' /\ Others(t)
         /\ Len(waiters'[o]) = Len(waiters[o]) + 1
<1>1. \A u \in Tasks : op'[u] = IF u = t THEN o ELSE op[u]
  BY DEF QTypes
<1>2. /\ t \in Range(run) /\ t \notin Range(run')
      /\ Range(run) = {t} \cup Range(run')
      /\ run' \in Seq(Tasks) /\ IsInjective(run')
      /\ \A p \in Objects : t \notin Range(waiters[p])
      /\ Range(run) \subseteq Tasks
      /\ \A p \in Objects : Range(waiters[p]) \subseteq Tasks
      /\ "idle" \notin Objects
  BY Whereabouts
<1>3. /\ waiters'[o] = Append(waiters[o], t) /\ waiters[o] \in Seq(Tasks)
      /\ \A p \in Objects \ {o} : waiters'[p] = waiters[p]
      /\ IsInjective(waiters[o]) /\ t \notin Range(waiters[o])
  BY <1>2 DEF QTypes, Placed
<1>4. /\ waiters'[o] \in Seq(Tasks) /\ IsInjective(waiters'[o])
      /\ Range(waiters'[o]) = Range(waiters[o]) \cup {t}
      /\ Len(waiters'[o]) = Len(waiters[o]) + 1
  BY <1>3, OfAppend
<1>5. QTypes'
  BY <1>2, <1>4 DEF QTypes, Ops
<1>6. Placed'
  <2>1. ASSUME NEW p \in Objects
        PROVE  /\ IsInjective(waiters'[p])
               /\ \A u \in Range(waiters'[p]) : op'[u] = p /\ u \notin Range(run')
    <3>1. CASE p = o
      BY <3>1, <1>1, <1>2, <1>4 DEF Placed
    <3>2. CASE p # o
      BY <3>2, <1>1, <1>2, <1>3 DEF Placed
    <3> QED BY <3>1, <3>2
  <2>2. ASSUME NEW u \in Tasks, op'[u] # "idle"
        PROVE  u \in Range(run') \cup Range(waiters'[op'[u]])
    <3>1. CASE u = t
      BY <3>1, <1>1, <1>4
    <3>2. CASE u # t
      <4>1. op'[u] = op[u] /\ u \in Range(run) \cup Range(waiters[op[u]]) /\ op[u] \in Objects
        BY <3>2, <2>2, <1>1 DEF Placed, QTypes, Ops
      <4> QED BY <3>2, <4>1, <1>2, <1>3, <1>4
    <3> QED BY <3>1, <3>2
  <2>3. \A u \in Tasks \ spawned' : u \notin Range(run') /\ op'[u] = "idle"
    BY <1>1, <1>2 DEF Placed
  <2> QED BY <1>2, <2>1, <2>2, <2>3 DEF Placed
<1> QED BY <1>1, <1>2, <1>4, <1>5, <1>6 DEF Others

\* The task that is spawned waits nowhere.
LEMMA Spawns ==
  ASSUME QTypes, Placed, NEW t \in Tasks, Runner(t), NEW u \in Tasks \ spawned,
         run' = Append(run, u), spawned' = spawned \cup {u},
         UNCHANGED <<waiters, op>>
  PROVE  QTypes' /\ Placed' /\ Others(t) /\ run' # <<>>
<1>1. run \in Seq(Tasks) /\ IsInjective(run) /\ u \notin Range(run) /\ op[u] = "idle"
  BY DEF QTypes, Placed
<1>2. /\ run' \in Seq(Tasks) /\ run' # <<>> /\ IsInjective(run')
      /\ Range(run') = Range(run) \cup {u}
  BY <1>1, OfAppend
<1>3. \A o \in Objects : u \notin Range(waiters[o])
  BY <1>1, Whereabouts DEF Placed
<1>4. QTypes'
  BY <1>2 DEF QTypes
<1>5. Placed'
  BY <1>1, <1>2, <1>3 DEF Placed
<1> QED BY <1>2, <1>4, <1>5 DEF Others

LEMMA Yields ==
  ASSUME QTypes, Placed, NEW t \in Tasks, Runner(t),
         run' = Append(Tail(run), t), UNCHANGED <<waiters, op, spawned>>
  PROVE  QTypes' /\ Placed' /\ Others(t) /\ run' # <<>>
<1> DEFINE rest == Tail(run)
<1>1. /\ rest \in Seq(Tasks) /\ IsInjective(rest) /\ t \notin Range(rest)
      /\ Range(run) = {t} \cup Range(rest) /\ run' = Append(rest, t)
  BY Whereabouts
<1> HIDE DEF rest
<1>2. /\ run' \in Seq(Tasks) /\ run' # <<>> /\ IsInjective(run')
      /\ Range(run') = Range(run)
  <2>1. /\ Append(rest, t) \in Seq(Tasks) /\ Append(rest, t) # <<>>
        /\ IsInjective(Append(rest, t))
        /\ Range(Append(rest, t)) = Range(rest) \cup {t}
    BY <1>1, OfAppend
  <2> QED BY <2>1, <1>1
<1>3. QTypes'
  BY <1>2 DEF QTypes
<1>4. Placed'
  BY <1>2 DEF Placed
<1> QED BY <1>2, <1>3, <1>4 DEF Others

LEMMA Exits ==
  ASSUME QTypes, Placed, NEW t \in Tasks, Runner(t), op[t] = "idle",
         run' = Tail(run), UNCHANGED <<waiters, op, spawned>>
  PROVE  QTypes' /\ Placed' /\ Others(t)
<1>1. /\ run' \in Seq(Tasks) /\ IsInjective(run') /\ t \notin Range(run')
      /\ Range(run) = {t} \cup Range(run')
  BY Whereabouts
<1>2. QTypes'
  BY <1>1 DEF QTypes
<1>3. Placed'
  BY <1>1 DEF Placed
<1> QED BY <1>1, <1>2, <1>3 DEF Others

\* The first n of those who wait on o, or all k of them, come back to R.
Woke(o, n, k) ==
  /\ k \in 0..Len(waiters[o]) /\ (k = n \/ (k = Len(waiters[o]) /\ k < n))
  /\ run' = run \o SubSeq(waiters[o], 1, k)
  /\ waiters' = [waiters EXCEPT ![o] = SubSeq(@, k + 1, Len(@))]

\* What becomes of them.
HasWoken(t, o, n, k) ==
  /\ QTypes' /\ Placed' /\ Others(t) /\ run' # <<>>
  /\ Len(waiters'[o]) = Len(waiters[o]) - k
  /\ waiters'[o] # <<>> => waiters[o] # <<>> /\ k = n
  /\ \A p \in Objects \ {o} : waiters'[p] = waiters[p]
  /\ k \in Nat
  /\ Cardinality(Awoken(o)') >= Cardinality(Awoken(o) \ {t}) + k

LEMMA Wakes ==
  ASSUME QTypes, Placed, NEW t \in Tasks, Runner(t), NEW o \in Objects, NEW n \in Nat,
         NEW k, Woke(o, n, k),
         op' = [op EXCEPT ![t] = "idle"], spawned' = spawned
  PROVE  HasWoken(t, o, n, k)
<1> DEFINE first == SubSeq(waiters[o], 1, k)
           rest == SubSeq(waiters[o], k + 1, Len(waiters[o]))
<1>0. k \in 0..Len(waiters[o]) /\ (k = n \/ (k = Len(waiters[o]) /\ k < n))
  BY DEF Woke
<1>1. /\ waiters[o] \in Seq(Tasks) /\ IsInjective(waiters[o])
      /\ run \in Seq(Tasks) /\ IsInjective(run) /\ Len(waiters[o]) \in Nat
      /\ run # <<>>
  BY LenProperties DEF QTypes, Placed, Runner
<1>2. /\ first \in Seq(Tasks) /\ rest \in Seq(Tasks)
      /\ Len(first) = k /\ Len(rest) = Len(waiters[o]) - k
      /\ Range(waiters[o]) = Range(first) \cup Range(rest)
      /\ Range(first) \cap Range(rest) = {}
      /\ IsInjective(first) /\ IsInjective(rest)
  BY <1>0, <1>1, OfSplit
<1>3. waiters'[o] = rest /\ \A p \in Objects \ {o} : waiters'[p] = waiters[p]
  BY DEF QTypes, Woke
<1>4. run' = run \o first
  BY DEF Woke
<1> HIDE DEF first, rest
<1>5. \A u \in Tasks : op'[u] = IF u = t THEN "idle" ELSE op[u]
  BY DEF QTypes
<1>6. /\ t \in Range(run) /\ Range(run) \subseteq Tasks /\ "idle" \notin Objects
      /\ \A p \in Objects : t \notin Range(waiters[p]) /\ Range(waiters[p]) \subseteq Tasks
  BY Whereabouts
<1>7. Range(run) \cap Range(first) = {}
  BY <1>2 DEF Placed
<1>8. /\ run' \in Seq(Tasks) /\ IsInjective(run') /\ run' # <<>>
      /\ Range(run') = Range(run) \cup Range(first)
  <2>1. /\ run \o first \in Seq(Tasks) /\ IsInjective(run \o first) /\ run \o first # <<>>
        /\ Range(run \o first) = Range(run) \cup Range(first)
    BY <1>1, <1>2, <1>7, OfConcat
  <2> QED BY <2>1, <1>4
<1>9. QTypes'
  <2>1. waiters' \in [Objects -> Seq(Tasks)]
    BY <1>2, <1>3 DEF QTypes, Woke
  <2> QED BY <2>1, <1>8 DEF QTypes, Ops
<1>10. Placed'
  <2>1. ASSUME NEW p \in Objects
        PROVE  /\ IsInjective(waiters'[p])
               /\ \A u \in Range(waiters'[p]) : op'[u] = p /\ u \notin Range(run')
    <3>1. CASE p = o
      <4>1. \A u \in Range(rest) :
              op[u] = o /\ u \notin Range(run) /\ u \notin Range(first) /\ u # t /\ u \in Tasks
        BY <1>2, <1>6 DEF Placed
      <4> QED BY <3>1, <4>1, <1>2, <1>3, <1>5, <1>8
    <3>2. CASE p # o
      <4>1. \A u \in Range(waiters[p]) : op[u] = p /\ u \notin Range(run) /\ u # t /\ u \in Tasks
        BY <1>6 DEF Placed
      <4>2. \A u \in Range(first) : op[u] = o
        BY <1>2 DEF Placed
      <4> QED BY <3>2, <4>1, <4>2, <1>3, <1>5, <1>8 DEF Placed
    <3> QED BY <3>1, <3>2
  <2>2. ASSUME NEW u \in Tasks, op'[u] # "idle"
        PROVE  u \in Range(run') \cup Range(waiters'[op'[u]])
    <3>1. op'[u] = op[u] /\ u \in Range(run) \cup Range(waiters[op[u]]) /\ op[u] \in Objects
      BY <2>2, <1>5 DEF Placed, QTypes, Ops
    <3> QED BY <3>1, <1>2, <1>3, <1>8
  <2>3. ASSUME NEW u \in Tasks \ spawned' PROVE u \notin Range(run') /\ op'[u] = "idle"
    <3>1. u \notin Range(run) /\ op[u] = "idle"
      BY DEF Placed
    <3>2. u \notin Range(first)
      BY <3>1, <1>2, <1>6 DEF Placed
    <3> QED BY <3>1, <3>2, <1>5, <1>8
  <2> QED BY <1>8, <2>1, <2>2, <2>3 DEF Placed
<1>11. Others(t)
  BY <1>5, <1>6, <1>8 DEF Others
<1>12. waiters'[o] # <<>> => waiters[o] # <<>> /\ k = n
  <2>1. waiters'[o] # <<>> => Len(rest) > 0
    BY <1>2, <1>3, EmptySeq
  <2> QED BY <2>1, <1>0, <1>1, <1>2, EmptySeq
<1>13. Cardinality(Awoken(o)') >= Cardinality(Awoken(o) \ {t}) + k
  <2> DEFINE A == Awoken(o) \ {t}
             F == Range(first)
  <2>1. IsFiniteSet(Range(run)) /\ IsFiniteSet(Range(run')) /\ IsFiniteSet(F)
    <3>1. \A q \in Seq(Tasks) : IsFiniteSet(Range(q))
      BY OfMembers
    <3> QED BY <3>1, <1>1, <1>2, <1>8
  <2>2. Cardinality(F) = k /\ k \in Nat
    BY <1>0, <1>1, <1>2, OfLength
  <2>3. A \subseteq Range(run) /\ Awoken(o)' \subseteq Range(run')
    BY DEF Awoken
  <2>4. IsFiniteSet(A) /\ IsFiniteSet(Awoken(o)')
    BY <2>1, <2>3, FS_Subset
  <2>5. A \cap F = {}
    BY <1>7, <2>3
  <2>6. \A u \in F : op'[u] = o /\ u \in Range(run')
    BY <1>2, <1>5, <1>6, <1>8 DEF Placed
  <2>7. A \cup F \subseteq Awoken(o)'
    BY <2>6, <1>11 DEF Awoken, Others
  <2> HIDE DEF A, F
  <2>8. IsFiniteSet(A \cup F) /\ Cardinality(A \cup F) = Cardinality(A) + Cardinality(F) - Cardinality(A \cap F)
    BY <2>1, <2>4, FS_Union
  <2>9. Cardinality(A \cap F) = 0 /\ Cardinality(A) \in Nat
    BY <2>4, <2>5, FS_EmptySet, FS_CardinalityType
  <2>10. Cardinality(A \cup F) <= Cardinality(Awoken(o)')
    BY <2>4, <2>7, FS_Subset
  <2>11. Cardinality(Awoken(o)') \in Nat
    BY <2>4, FS_CardinalityType
  <2>12. Cardinality(Awoken(o)') >= Cardinality(A) + k
    BY <2>2, <2>8, <2>9, <2>10, <2>11
  <2> QED BY <2>12 DEF A
<1> QED BY <1>0, <1>1, <1>2, <1>3, <1>8, <1>9, <1>10, <1>11, <1>12, <1>13 DEF HasWoken

\* Of the tasks woken for an object a step loses at most the running one.
LEMMA AwokenLeft ==
  ASSUME QTypes, QTypes', NEW t \in Tasks, Others(t), NEW o
  PROVE  /\ IsFiniteSet(Awoken(o)) /\ IsFiniteSet(Awoken(o)')
         /\ Cardinality(Awoken(o)) \in Nat /\ Cardinality(Awoken(o)') \in Nat
         /\ Cardinality(Awoken(o) \ {t}) \in Nat
         /\ Cardinality(Awoken(o) \ {t}) >= Cardinality(Awoken(o)) - 1
         /\ op[t] # o => Cardinality(Awoken(o) \ {t}) = Cardinality(Awoken(o))
         /\ Cardinality(Awoken(o)') >= Cardinality(Awoken(o) \ {t})
<1>1. IsFiniteSet(Range(run)) /\ IsFiniteSet(Range(run'))
  BY OfMembers DEF QTypes
<1>2. Awoken(o) \subseteq Range(run) /\ Awoken(o)' \subseteq Range(run')
  BY DEF Awoken
<1>3. IsFiniteSet(Awoken(o)) /\ IsFiniteSet(Awoken(o)')
  BY <1>1, <1>2, FS_Subset
<1>4. Awoken(o) \ {t} \subseteq Awoken(o)'
  BY DEF Awoken, Others
<1>5. /\ IsFiniteSet(Awoken(o) \ {t})
      /\ Cardinality(Awoken(o) \ {t}) <= Cardinality(Awoken(o)')
  BY <1>3, <1>4, FS_Subset
<1>6. Cardinality(Awoken(o) \ {t}) = IF t \in Awoken(o) THEN Cardinality(Awoken(o)) - 1
                                     ELSE Cardinality(Awoken(o))
  BY <1>3, FS_RemoveElement
<1>7. op[t] # o => t \notin Awoken(o)
  BY DEF Awoken
<1> QED BY <1>3, <1>5, <1>6, <1>7, FS_CardinalityType

\* A step of a task that was not woken for o loses none of those who were.
LEMMA NoneLost ==
  ASSUME QTypes, QTypes', NEW t \in Tasks, Others(t), NEW o, op[t] # o
  PROVE  /\ Cardinality(Awoken(o)) \in Nat /\ Cardinality(Awoken(o)') \in Nat
         /\ Cardinality(Awoken(o)') >= Cardinality(Awoken(o))
BY AwokenLeft

LEMMA OneLost ==
  ASSUME QTypes, QTypes', NEW t \in Tasks, Others(t), NEW o
  PROVE  /\ Cardinality(Awoken(o)) \in Nat /\ Cardinality(Awoken(o)') \in Nat
         /\ Cardinality(Awoken(o)') >= Cardinality(Awoken(o)) - 1
<1> DEFINE a == Cardinality(Awoken(o))
           b == Cardinality(Awoken(o) \ {t})
           c == Cardinality(Awoken(o)')
<1>1. a \in Nat /\ b \in Nat /\ c \in Nat
  BY AwokenLeft
<1>2. b >= a - 1 /\ c >= b
  BY AwokenLeft
<1> HIDE DEF a, b, c
<1>3. c >= a - 1
  BY <1>1, <1>2
<1> QED BY <1>1, <1>3 DEF a, c

-----------------------------------------------------------------------------
(* What each kind of step does to what the backends have in common.        *)

\* t calls Barrier::wait or is in its loop.
Arriving(t) ==
  \/ op[t] = "idle" /\ begun[t] < Rounds /\ begun' = [begun EXCEPT ![t] = @ + 1]
  \/ op[t] = "barrier" /\ begun' = begun

LEMMA CountTypes ==
  ASSUME SeenTypeOK
  PROVE  /\ taken \in [Tasks -> Nat] /\ begun \in [Tasks -> Nat] /\ passed \in [Tasks -> Nat]
         /\ Total(taken) \in Nat /\ Total(begun) \in Nat /\ Total(passed) \in Nat
         /\ IsFiniteSet(InBarrier) /\ Cardinality(InBarrier) \in Nat
<1>1. taken \in [Tasks -> Nat] /\ begun \in [Tasks -> Nat] /\ passed \in [Tasks -> Nat]
  BY SyncAssumption DEF SeenTypeOK
<1>2. Total(taken) \in Nat /\ Total(begun) \in Nat /\ Total(passed) \in Nat
  BY <1>1, MarksFinite
<1>3. InBarrier \in SUBSET Tasks /\ IsFiniteSet(Tasks)
  BY SyncAssumption DEF InBarrier
<1>4. IsFiniteSet(InBarrier)
  BY <1>3, FS_Subset
<1> QED BY <1>1, <1>2, <1>4, FS_CardinalityType

\* A wait that returns, whether it has just been called or was in the loop.
LEMMA CountedPass ==
  ASSUME SeenTypeOK, QTypes, Counted, NEW t \in Tasks, Arriving(t),
         passed' = [passed EXCEPT ![t] = @ + 1], op' = [op EXCEPT ![t] = "idle"]
  PROVE  /\ Counted' /\ Total(passed') = Total(passed) + 1
         /\ begun' \in [Tasks -> 0..Rounds] /\ passed' \in [Tasks -> 0..Rounds]
<1>1. /\ begun \in [Tasks -> Nat] /\ passed \in [Tasks -> Nat] /\ Total(begun) \in Nat
      /\ Total(passed) \in Nat /\ IsFiniteSet(InBarrier) /\ Cardinality(InBarrier) \in Nat
  BY CountTypes
<1>2. Total(passed') = Total(passed) + 1
  BY <1>1, TotalUp
<1>3. \A u \in Tasks : /\ op'[u] = IF u = t THEN "idle" ELSE op[u]
                       /\ passed'[u] = IF u = t THEN passed[u] + 1 ELSE passed[u]
  BY <1>1 DEF QTypes
<1>4. \A u \in Tasks : begun[u] = passed[u] + (IF op[u] = "barrier" THEN 1 ELSE 0)
  BY DEF Counted
<1>b. begun \in [Tasks -> 0..Rounds] /\ passed \in [Tasks -> 0..Rounds] /\ Rounds \in Nat
  BY SyncAssumption DEF SeenTypeOK
<1>5. CASE op[t] = "idle" /\ begun[t] < Rounds /\ begun' = [begun EXCEPT ![t] = @ + 1]
  <2>1. Total(begun') = Total(begun) + 1
    BY <1>1, <1>5, TotalUp
  <2>2. InBarrier' = InBarrier
    BY <1>3, <1>5 DEF InBarrier
  <2>3. \A u \in Tasks : begun'[u] = IF u = t THEN begun[u] + 1 ELSE begun[u]
    BY <1>1, <1>5
  <2>4. \A u \in Tasks : begun'[u] = passed'[u] + (IF op'[u] = "barrier" THEN 1 ELSE 0)
    BY <2>3, <1>1, <1>3, <1>4, <1>5
  <2>5. Counted'
    BY <2>1, <2>2, <2>4, <1>1, <1>2 DEF Counted
  <2>6. begun' \in [Tasks -> 0..Rounds]
    BY <1>b, <1>5
  <2>7. passed[t] + 1 \in 0..Rounds
    BY <1>1, <1>b, <1>4, <1>5
  <2> QED BY <2>5, <2>6, <2>7, <1>2, <1>b
<1>6. CASE op[t] = "barrier" /\ begun' = begun
  <2>1. t \in InBarrier /\ InBarrier' = InBarrier \ {t}
    BY <1>3, <1>6 DEF InBarrier
  <2>2. Cardinality(InBarrier') = Cardinality(InBarrier) - 1
    BY <2>1, <1>1, FS_RemoveElement
  <2>3. \A u \in Tasks : begun'[u] = passed'[u] + (IF op'[u] = "barrier" THEN 1 ELSE 0)
    BY <1>1, <1>3, <1>4, <1>6
  <2>4. Counted'
    BY <2>2, <2>3, <1>1, <1>2, <1>6 DEF Counted
  <2>5. passed[t] + 1 \in 0..Rounds
    <3>1. begun[t] = passed[t] + 1
      BY <1>4, <1>6
    <3> QED BY <3>1, <1>b
  <2> QED BY <2>4, <2>5, <1>2, <1>6, <1>b
<1> QED BY <1>5, <1>6 DEF Arriving

\* A wait that blocks.
LEMMA CountedBlock ==
  ASSUME SeenTypeOK, QTypes, Counted, NEW t \in Tasks, Arriving(t),
         passed' = passed, op' = [op EXCEPT ![t] = "barrier"]
  PROVE  Counted' /\ begun' \in [Tasks -> 0..Rounds]
<1>1. /\ begun \in [Tasks -> Nat] /\ passed \in [Tasks -> Nat] /\ Total(begun) \in Nat
      /\ Total(passed) \in Nat /\ IsFiniteSet(InBarrier) /\ Cardinality(InBarrier) \in Nat
  BY CountTypes
<1>2. \A u \in Tasks : op'[u] = IF u = t THEN "barrier" ELSE op[u]
  BY DEF QTypes
<1>3. \A u \in Tasks : begun[u] = passed[u] + (IF op[u] = "barrier" THEN 1 ELSE 0)
  BY DEF Counted
<1>b. begun \in [Tasks -> 0..Rounds] /\ Rounds \in Nat
  BY SyncAssumption DEF SeenTypeOK
<1>4. CASE op[t] = "idle" /\ begun[t] < Rounds /\ begun' = [begun EXCEPT ![t] = @ + 1]
  <2>1. Total(begun') = Total(begun) + 1
    BY <1>1, <1>4, TotalUp
  <2>2. t \notin InBarrier /\ InBarrier' = InBarrier \cup {t}
    BY <1>2, <1>4 DEF InBarrier
  <2>3. Cardinality(InBarrier') = Cardinality(InBarrier) + 1
    BY <2>2, <1>1, FS_AddElement
  <2>4. \A u \in Tasks : begun'[u] = IF u = t THEN begun[u] + 1 ELSE begun[u]
    BY <1>1, <1>4
  <2>5. \A u \in Tasks : begun'[u] = passed'[u] + (IF op'[u] = "barrier" THEN 1 ELSE 0)
    BY <2>4, <1>1, <1>2, <1>3, <1>4
  <2>6. begun' \in [Tasks -> 0..Rounds]
    BY <1>b, <1>4
  <2> QED BY <2>1, <2>3, <2>5, <2>6, <1>1 DEF Counted
<1>5. CASE op[t] = "barrier" /\ begun' = begun
  <2>1. InBarrier' = InBarrier /\ op' = op
    BY <1>2, <1>5 DEF InBarrier, QTypes
  <2> QED BY <2>1, <1>5, <1>b DEF Counted
<1> QED BY <1>4, <1>5 DEF Arriving

\* A step that touches neither permits nor the barrier.
LEMMA Quiet ==
  ASSUME Common, QTypes', Placed', Ends', NEW t \in Tasks, Others(t),
         UNCHANGED <<taken, begun, passed, leads, permits, arrived, releases>>,
         holders' \subseteq Tasks, used' \in [Tasks -> 0..MaxOps],
         outcome' \in {"running", "ended", "deadlock"},
         \A u \in Tasks : op'[u] = "barrier" <=> op[u] = "barrier",
         op[t] # "barrier", waiters'["barrier"] = waiters["barrier"],
         waiters'["semaphore"] # <<>> =>
           permits <= 0 \/ (op[t] # "semaphore" /\ waiters["semaphore"] # <<>>)
  PROVE  Common'
<1>1. Types'
  BY DEF Common, Types, SeenTypeOK
<1>2. InBarrier' = InBarrier
  BY DEF InBarrier
<1>3. Counted'
  BY <1>2 DEF Common, Counted
<1>4. Balanced' /\ Gate'
  BY DEF Common, Balanced, Gate
<1>5. Served'
  <2>1. /\ Cardinality(Awoken("barrier")) \in Nat /\ Cardinality(Awoken("barrier")') \in Nat
        /\ Cardinality(Awoken("barrier")') >= Cardinality(Awoken("barrier"))
    BY AwokenLeft DEF Common, Types
  <2>2. /\ Cardinality(Awoken("semaphore")) \in Nat /\ Cardinality(Awoken("semaphore")') \in Nat
        /\ op[t] # "semaphore" =>
             Cardinality(Awoken("semaphore")') >= Cardinality(Awoken("semaphore"))
    BY AwokenLeft DEF Common, Types
  <2>3. permits \in Nat /\ releases \in Nat
    BY SyncAssumption DEF Common, Types
  <2>4. waiters'["barrier"] # <<>> => releases' <= Cardinality(Awoken("barrier")')
    BY <2>1, <2>3 DEF Common, Served
  <2>5. waiters'["semaphore"] # <<>> => permits' <= Cardinality(Awoken("semaphore")')
    BY <2>2, <2>3 DEF Common, Served
  <2> QED BY <2>4, <2>5 DEF Served
<1> QED BY <1>1, <1>3, <1>4, <1>5 DEF Common

\* An acquire that returns, called or woken.
LEMMA Acquires ==
  ASSUME Common, NEW t \in Tasks, Runner(t), op[t] \in {"idle", "semaphore"}, permits > 0,
         permits' = permits - 1, taken' = [taken EXCEPT ![t] = @ + 1],
         op' = [op EXCEPT ![t] = "idle"], used' \in [Tasks -> 0..MaxOps],
         UNCHANGED <<holders, begun, passed, leads, run, waiters, arrived, releases,
                     spawned, outcome>>
  PROVE  Common' /\ Others(t)
<1>1. QTypes' /\ Placed' /\ Others(t)
  BY Stays DEF Common, Types
<1>2. permits \in Nat /\ taken \in [Tasks -> Nat] /\ Total(taken) \in Nat
  BY CountTypes DEF Common, Types
<1>3. Types'
  BY <1>1, <1>2 DEF Common, Types, SeenTypeOK
<1>4. Ends'
  BY DEF Common, Ends
<1>5. InBarrier' = InBarrier
  BY DEF InBarrier, Common, Types, QTypes
<1>6. Counted' /\ Gate'
  <2>1. \A u \in Tasks : op'[u] = "barrier" <=> op[u] = "barrier"
    BY DEF Common, Types, QTypes
  <2> QED BY <2>1, <1>5 DEF Common, Counted, Gate
<1>7. Balanced'
  <2>1. Total(taken') = Total(taken) + 1
    BY <1>2, TotalUp
  <2> QED BY <2>1, <1>2, SyncAssumption DEF Common, Balanced
<1>8. Served'
  <2>1. /\ Cardinality(Awoken("barrier")) \in Nat /\ Cardinality(Awoken("barrier")') \in Nat
        /\ Cardinality(Awoken("barrier")') >= Cardinality(Awoken("barrier"))
    <3>1. op[t] # "barrier"
      OBVIOUS
    <3> QED BY <3>1, <1>1, NoneLost DEF Common, Types
  <2>2. /\ Cardinality(Awoken("semaphore")) \in Nat /\ Cardinality(Awoken("semaphore")') \in Nat
        /\ Cardinality(Awoken("semaphore")') >= Cardinality(Awoken("semaphore")) - 1
    BY <1>1, OneLost DEF Common, Types
  <2>3. releases \in Nat
    BY SyncAssumption DEF Common, Types
  <2> QED BY <2>1, <2>2, <2>3, <1>2 DEF Common, Served
<1> QED BY <1>1, <1>3, <1>4, <1>6, <1>7, <1>8 DEF Common

\* A release gives its permit to one who waits for it.
LEMMA Releases ==
  ASSUME Common, NEW t \in Tasks, Runner(t), op[t] = "idle", taken[t] > 0,
         permits' = permits + 1, taken' = [taken EXCEPT ![t] = @ - 1],
         op' = op, NEW k, Woke("semaphore", 1, k),
         UNCHANGED <<holders, begun, passed, leads, used, arrived, releases, spawned,
                     outcome>>
  PROVE  Common' /\ Others(t)
<1>0. op' = [op EXCEPT ![t] = "idle"] /\ "semaphore" \in Objects /\ 1 \in Nat
  BY DEF Common, Types, QTypes, Objects
<1>1. /\ QTypes' /\ Placed' /\ Others(t) /\ run' # <<>>
      /\ waiters'["semaphore"] # <<>> => waiters["semaphore"] # <<>> /\ k = 1
      /\ \A p \in Objects \ {"semaphore"} : waiters'[p] = waiters[p]
      /\ k \in Nat
      /\ Cardinality(Awoken("semaphore")') >= Cardinality(Awoken("semaphore") \ {t}) + k
  <2>1. QTypes /\ Placed /\ spawned' = spawned
    BY DEF Common, Types
  <2>2. HasWoken(t, "semaphore", 1, k)
    BY <1>0, <2>1, Wakes
  <2> QED BY <2>2 DEF HasWoken
<1>2. permits \in Nat /\ taken \in [Tasks -> Nat] /\ Total(taken) \in Nat
  BY CountTypes DEF Common, Types
<1>3. Types'
  BY <1>1, <1>2 DEF Common, Types, SeenTypeOK
<1>4. Ends'
  BY <1>1 DEF Common, Ends, Runner
<1>5. Counted' /\ Gate'
  <2>1. InBarrier' = InBarrier
    BY DEF InBarrier
  <2> QED BY <2>1 DEF Common, Counted, Gate
<1>6. Balanced'
  <2>1. Total(taken') = Total(taken) - 1
    BY <1>2, TotalDown
  <2> QED BY <2>1, <1>2, SyncAssumption DEF Common, Balanced
<1>7. Served'
  <2>1. /\ Cardinality(Awoken("barrier")) \in Nat /\ Cardinality(Awoken("barrier")') \in Nat
        /\ Cardinality(Awoken("barrier")') >= Cardinality(Awoken("barrier"))
    <3>1. op[t] # "barrier"
      OBVIOUS
    <3> QED BY <3>1, <1>1, NoneLost DEF Common, Types
  <2>2. /\ Cardinality(Awoken("semaphore")) \in Nat /\ Cardinality(Awoken("semaphore")') \in Nat
        /\ Cardinality(Awoken("semaphore") \ {t}) = Cardinality(Awoken("semaphore"))
    BY <1>1, AwokenLeft DEF Common, Types
  <2>3. releases \in Nat /\ waiters'["barrier"] = waiters["barrier"]
    BY <1>1, SyncAssumption DEF Common, Types, Objects
  <2>4. waiters'["semaphore"] # <<>> => permits' <= Cardinality(Awoken("semaphore")')
    BY <2>2, <1>1, <1>2 DEF Common, Served
  <2>5. waiters'["barrier"] # <<>> => releases' <= Cardinality(Awoken("barrier")')
    BY <2>1, <2>3 DEF Common, Served
  <2> QED BY <2>4, <2>5 DEF Served
<1> QED BY <1>1, <1>3, <1>4, <1>5, <1>6, <1>7 DEF Common

LEMMA GateArithmetic ==
  ASSUME NEW p \in Nat, NEW l \in Nat
  PROVE  p * (l + 1) = p * l + p
OBVIOUS

\* The last party of a round leads it.
LEMMA Leads ==
  ASSUME Common, NEW t \in Tasks, Runner(t), Arriving(t), releases = 0,
         passed' = [passed EXCEPT ![t] = @ + 1], leads' = leads + 1,
         op' = [op EXCEPT ![t] = "idle"], arrived' = 0, releases' = Parties - 1,
         NEW k, Woke("barrier", Parties - 1, k),
         UNCHANGED <<holders, taken, used, permits, spawned, outcome>>
  PROVE  /\ Common' /\ Others(t)
         /\ \A o \in Objects \ {"barrier"} : waiters'[o] = waiters[o]
         /\ Len(waiters'["barrier"]) = Len(waiters["barrier"]) - k
         /\ Cardinality(Awoken("barrier")') >= k
<1>0. "barrier" \in Objects /\ Parties - 1 \in Nat
  BY SyncAssumption DEF Objects
<1>1. /\ QTypes' /\ Placed' /\ Others(t) /\ run' # <<>>
      /\ waiters'["barrier"] # <<>> => waiters["barrier"] # <<>> /\ k = Parties - 1
      /\ \A p \in Objects \ {"barrier"} : waiters'[p] = waiters[p]
      /\ k \in Nat
      /\ Len(waiters'["barrier"]) = Len(waiters["barrier"]) - k
      /\ Cardinality(Awoken("barrier")') >= Cardinality(Awoken("barrier") \ {t}) + k
  <2>1. QTypes /\ Placed /\ spawned' = spawned
    BY DEF Common, Types
  <2>2. HasWoken(t, "barrier", Parties - 1, k)
    BY <1>0, <2>1, Wakes
  <2> QED BY <2>2 DEF HasWoken
<1>2. /\ Counted' /\ Total(passed') = Total(passed) + 1
      /\ begun' \in [Tasks -> 0..Rounds] /\ passed' \in [Tasks -> 0..Rounds]
  BY CountedPass DEF Common, Types
<1>3. leads \in Nat /\ Total(passed) \in Nat
  BY CountTypes DEF Common, Types, SeenTypeOK
<1>4. Types'
  BY <1>0, <1>1, <1>2, <1>3 DEF Common, Types, SeenTypeOK
<1>5. Ends' /\ Balanced'
  BY <1>1 DEF Common, Ends, Runner, Balanced
<1>6. Gate'
  <2>1. Parties * (leads + 1) = Parties * leads + Parties
    BY <1>3, SyncAssumption, GateArithmetic
  <2>2. Total(passed) + 0 = Parties * leads
    BY DEF Common, Gate
  <2> QED BY <2>1, <2>2, <1>2, <1>3, SyncAssumption DEF Gate
<1>7. Cardinality(Awoken("barrier")') \in Nat /\ Cardinality(Awoken("barrier")') >= k
  <2>1. Cardinality(Awoken("barrier") \ {t}) \in Nat /\ Cardinality(Awoken("barrier")') \in Nat
    BY <1>1, AwokenLeft DEF Common, Types
  <2> QED BY <2>1, <1>1
<1>8. Served'
  <2>1. /\ Cardinality(Awoken("semaphore")) \in Nat /\ Cardinality(Awoken("semaphore")') \in Nat
        /\ Cardinality(Awoken("semaphore")') >= Cardinality(Awoken("semaphore"))
    <3>1. op[t] # "semaphore"
      BY DEF Arriving
    <3> QED BY <3>1, <1>1, NoneLost DEF Common, Types
  <2>2. waiters'["semaphore"] = waiters["semaphore"]
    BY <1>1 DEF Objects
  <2>3. permits \in Nat
    BY DEF Common, Types
  <2>4. waiters'["semaphore"] # <<>> => permits' <= Cardinality(Awoken("semaphore")')
    BY <2>1, <2>2, <2>3 DEF Common, Served
  <2> QED BY <2>4, <1>1, <1>7 DEF Served
<1> QED BY <1>1, <1>2, <1>4, <1>5, <1>6, <1>7, <1>8 DEF Common

\* A wait that takes a release and returns.
LEMMA Passes ==
  ASSUME Common, NEW t \in Tasks, Runner(t), Arriving(t), releases > 0,
         passed' = [passed EXCEPT ![t] = @ + 1], op' = [op EXCEPT ![t] = "idle"],
         releases' = releases - 1, arrived' \in 0..(Parties - 1),
         UNCHANGED <<holders, taken, leads, run, waiters, used, permits, spawned, outcome>>
  PROVE  /\ Common' /\ Others(t)
<1>1. QTypes' /\ Placed' /\ Others(t)
  BY Stays DEF Common, Types
<1>2. /\ Counted' /\ Total(passed') = Total(passed) + 1
      /\ begun' \in [Tasks -> 0..Rounds] /\ passed' \in [Tasks -> 0..Rounds]
  BY CountedPass DEF Common, Types
<1>3. leads \in Nat /\ Total(passed) \in Nat /\ releases \in Nat
  BY CountTypes, SyncAssumption DEF Common, Types, SeenTypeOK
<1>4. Types'
  BY <1>1, <1>2, <1>3, SyncAssumption DEF Common, Types, SeenTypeOK
<1>5. Ends' /\ Balanced'
  BY DEF Common, Ends, Balanced
<1>6. Gate'
  BY <1>2, <1>3, SyncAssumption DEF Common, Gate
<1>7. Served'
  <2>1. /\ Cardinality(Awoken("barrier")) \in Nat /\ Cardinality(Awoken("barrier")') \in Nat
        /\ Cardinality(Awoken("barrier")') >= Cardinality(Awoken("barrier")) - 1
    BY <1>1, OneLost DEF Common, Types
  <2>2. /\ Cardinality(Awoken("semaphore")) \in Nat /\ Cardinality(Awoken("semaphore")') \in Nat
        /\ Cardinality(Awoken("semaphore")') >= Cardinality(Awoken("semaphore"))
    <3>1. op[t] # "semaphore"
      BY DEF Arriving
    <3> QED BY <3>1, <1>1, NoneLost DEF Common, Types
  <2>3. permits \in Nat
    BY DEF Common, Types
  <2> QED BY <2>1, <2>2, <2>3, <1>3 DEF Common, Served
<1> QED BY <1>1, <1>2, <1>4, <1>5, <1>6, <1>7 DEF Common

\* A wait that finds no release and blocks.
LEMMA BlocksOnGate ==
  ASSUME Common, NEW t \in Tasks, Runner(t), Arriving(t), releases = 0,
         run' = Tail(run), waiters' = [waiters EXCEPT !["barrier"] = Append(@, t)],
         op' = [op EXCEPT ![t] = "barrier"], arrived' \in 0..(Parties - 1),
         Ends', outcome' \in {"running", "ended", "deadlock"},
         UNCHANGED <<holders, taken, passed, leads, used, permits, releases, spawned>>
  PROVE  /\ Common' /\ Others(t)
         /\ Len(waiters'["barrier"]) = Len(waiters["barrier"]) + 1
<1>1. /\ QTypes' /\ Placed' /\ Others(t)
      /\ Len(waiters'["barrier"]) = Len(waiters["barrier"]) + 1
  BY Blocks DEF Common, Types, Objects
<1>2. Counted' /\ begun' \in [Tasks -> 0..Rounds]
  BY CountedBlock DEF Common, Types
<1>3. Types'
  BY <1>1, <1>2 DEF Common, Types, SeenTypeOK
<1>4. Balanced' /\ Gate'
  BY DEF Common, Balanced, Gate
<1>5. Served'
  <2>1. Cardinality(Awoken("barrier")') \in Nat
    BY <1>1, AwokenLeft DEF Common, Types
  <2>2. /\ Cardinality(Awoken("semaphore")) \in Nat /\ Cardinality(Awoken("semaphore")') \in Nat
        /\ Cardinality(Awoken("semaphore")') >= Cardinality(Awoken("semaphore"))
    <3>1. op[t] # "semaphore"
      BY DEF Arriving
    <3> QED BY <3>1, <1>1, NoneLost DEF Common, Types
  <2>3. permits \in Nat /\ waiters'["semaphore"] = waiters["semaphore"]
    BY DEF Common, Types, QTypes, Objects
  <2> QED BY <2>1, <2>2, <2>3 DEF Common, Served
<1> QED BY <1>1, <1>2, <1>3, <1>4, <1>5 DEF Common

\* A step of a task that is in no loop, and leaves every queue of waiters alone.
LEMMA Idles ==
  ASSUME Common, QTypes', Placed', Ends', NEW t \in Tasks, Others(t), op[t] = "idle",
         UNCHANGED <<seen, permits, arrived, releases, op, waiters>>,
         used' \in [Tasks -> 0..MaxOps], outcome' \in {"running", "ended", "deadlock"}
  PROVE  Common'
<1>1. /\ UNCHANGED <<taken, begun, passed, leads, permits, arrived, releases>>
      /\ holders' \subseteq Tasks
  BY DEF seen, Common, Types, SeenTypeOK
<1>2. waiters'["semaphore"] # <<>> =>
        permits <= 0 \/ (op[t] # "semaphore" /\ waiters["semaphore"] # <<>>)
  OBVIOUS
<1>3. /\ \A u \in Tasks : op'[u] = "barrier" <=> op[u] = "barrier"
      /\ op[t] # "barrier" /\ waiters'["barrier"] = waiters["barrier"]
  OBVIOUS
<1> QED BY <1>1, <1>2, <1>3, Quiet

\* A lock that returns, called or woken.
LEMMA Locks ==
  ASSUME Common, NEW t \in Tasks, Runner(t), op[t] \in {"idle", "mutex"},
         op' = [op EXCEPT ![t] = "idle"], holders' \subseteq Tasks,
         used' \in [Tasks -> 0..MaxOps],
         UNCHANGED <<taken, begun, passed, leads, permits, arrived, releases, run,
                     waiters, spawned, outcome>>
  PROVE  Common' /\ Others(t)
<1>1. QTypes' /\ Placed' /\ Others(t)
  BY Stays DEF Common, Types
<1>2. Ends' /\ outcome' \in {"running", "ended", "deadlock"}
  BY DEF Common, Ends, Types
<1>3. /\ \A u \in Tasks : op'[u] = "barrier" <=> op[u] = "barrier"
      /\ op[t] # "barrier" /\ waiters'["barrier"] = waiters["barrier"]
  BY DEF Common, Types, QTypes
<1>4. waiters'["semaphore"] # <<>> =>
        permits <= 0 \/ (op[t] # "semaphore" /\ waiters["semaphore"] # <<>>)
  OBVIOUS
<1> QED BY <1>1, <1>2, <1>3, <1>4, Quiet

\* An unlock wakes one.
LEMMA Unlocks ==
  ASSUME Common, NEW t \in Tasks, Runner(t), op[t] = "idle", op' = op,
         holders' \subseteq Tasks, NEW k, Woke("mutex", 1, k),
         UNCHANGED <<taken, begun, passed, leads, permits, arrived, releases, used,
                     spawned, outcome>>
  PROVE  /\ Common' /\ Others(t)
         /\ waiters'["mutex"] # <<>> => Awoken("mutex")' # {}
         /\ waiters'["barrier"] = waiters["barrier"]
<1>1. /\ op' = [op EXCEPT ![t] = "idle"] /\ "mutex" \in Objects /\ 1 \in Nat
      /\ QTypes /\ Placed /\ spawned' = spawned
  BY DEF Common, Types, QTypes, Objects
<1>2. HasWoken(t, "mutex", 1, k)
  BY <1>1, Wakes
<1>3. /\ QTypes' /\ Placed' /\ Others(t) /\ run' # <<>>
      /\ waiters'["mutex"] # <<>> => k = 1
      /\ Cardinality(Awoken("mutex")') >= Cardinality(Awoken("mutex") \ {t}) + k
  BY <1>2 DEF HasWoken
<1>4. /\ waiters'["barrier"] = waiters["barrier"]
      /\ waiters'["semaphore"] = waiters["semaphore"]
  BY <1>2 DEF HasWoken, Objects
<1>5. Ends' /\ outcome' \in {"running", "ended", "deadlock"}
  BY <1>3 DEF Common, Ends, Types, Runner
<1>6. used' \in [Tasks -> 0..MaxOps]
  BY DEF Common, Types
<1>7. /\ \A u \in Tasks : op'[u] = "barrier" <=> op[u] = "barrier"
      /\ op[t] # "barrier" /\ op[t] # "semaphore"
  OBVIOUS
<1>8. Common'
  BY <1>3, <1>4, <1>5, <1>6, <1>7, Quiet
<1>9. waiters'["mutex"] # <<>> => Cardinality(Awoken("mutex")') # 0
  <2>1. Cardinality(Awoken("mutex") \ {t}) \in Nat /\ Cardinality(Awoken("mutex")') \in Nat
    BY <1>1, <1>3, AwokenLeft
  <2> QED BY <2>1, <1>3
<1> QED BY <1>3, <1>4, <1>8, <1>9, FS_EmptySet

\* A lock that finds the mutex held blocks, and so does an acquire that finds no
\* permit.
LEMMA BlocksOn ==
  ASSUME Common, NEW t \in Tasks, Runner(t), NEW o \in {"mutex", "semaphore"},
         op[t] \in {"idle", o}, o = "semaphore" => permits <= 0,
         run' = Tail(run), waiters' = [waiters EXCEPT ![o] = Append(@, t)],
         op' = [op EXCEPT ![t] = o], Ends',
         used' \in [Tasks -> 0..MaxOps], outcome' \in {"running", "ended", "deadlock"},
         UNCHANGED <<seen, permits, arrived, releases, spawned>>
  PROVE  /\ Common' /\ Others(t)
         /\ \A p \in Objects \ {o} : waiters'[p] = waiters[p]
<1>1. QTypes /\ Placed /\ o \in Objects
  BY DEF Common, Types, Objects
<1>2. QTypes' /\ Placed' /\ Others(t)
  BY <1>1, Blocks
<1>3. \A p \in Objects \ {o} : waiters'[p] = waiters[p]
  BY <1>1 DEF QTypes
<1>4. /\ \A u \in Tasks : op'[u] = "barrier" <=> op[u] = "barrier"
      /\ op[t] # "barrier"
  BY <1>1 DEF QTypes
<1>5. waiters'["barrier"] = waiters["barrier"]
  BY <1>3 DEF Objects
<1>6. waiters'["semaphore"] # <<>> =>
        permits <= 0 \/ (op[t] # "semaphore" /\ waiters["semaphore"] # <<>>)
  <2>1. CASE o = "semaphore"
    BY <2>1
  <2>2. CASE o = "mutex"
    BY <2>2, <1>3 DEF Objects
  <2> QED BY <2>1, <2>2
<1>7. /\ UNCHANGED <<taken, begun, passed, leads, permits, arrived, releases>>
      /\ holders' \subseteq Tasks
  BY DEF seen, Common, Types, SeenTypeOK
<1>8. Common'
  BY <1>2, <1>4, <1>5, <1>6, <1>7, Quiet
<1> QED BY <1>2, <1>3, <1>8

-----------------------------------------------------------------------------
(* What the actions of both backends come down to.                         *)

LEMMA Turn ==
  ASSUME Common, NEW t \in Tasks, outcome = "running", Head(run) = t
  PROVE  Runner(t)
BY DEF Common, Ends, Runner

LEMMA EndsRight ==
  ASSUME NEW w, outcome' = IF run' # <<>> THEN "running"
                           ELSE IF \E o \in Objects : w[o] # <<>> THEN "deadlock" ELSE "ended"
  PROVE  Ends' /\ outcome' \in {"running", "ended", "deadlock"}
<1>1. CASE run' # <<>>
  BY <1>1 DEF Ends
<1>2. CASE run' = <<>>
  BY <1>2 DEF Ends
<1> QED BY <1>1, <1>2

LEMMA UsedOnce ==
  ASSUME Common, NEW t \in Tasks, used[t] < MaxOps, used' = [used EXCEPT ![t] = @ + 1]
  PROVE  used' \in [Tasks -> 0..MaxOps]
BY SyncAssumption DEF Common, Types

LEMMA WakeUpTo ==
  ASSUME QTypes, NEW o \in Objects, NEW n \in Nat, C!Wake(o, n)
  PROVE  \E k : Woke(o, n, k)
<1> DEFINE k == IF n < Len(waiters[o]) THEN n ELSE Len(waiters[o])
<1>1. Len(waiters[o]) \in Nat
  BY LenProperties DEF QTypes
<1>2. Woke(o, n, k)
  BY <1>1 DEF C!Wake, Woke
<1> QED BY <1>2


-----------------------------------------------------------------------------
(* The C runtime.                                                          *)

LEMMA MutexCKept ==
  ASSUME MutexC, NEW t, Others(t), op[t] # "mutex", UNCHANGED <<held, holders>>,
         waiters'["mutex"] = waiters["mutex"]
  PROVE  MutexC'
<1>1. Awoken("mutex") # {} => Awoken("mutex")' # {}
  BY DEF Awoken, Others
<1> QED BY <1>1 DEF MutexC

LEMMA BarrierCKept ==
  ASSUME BarrierC, UNCHANGED <<begun, leads, arrived, releases>>
  PROVE  BarrierC'
BY DEF BarrierC

LEMMA SpawnC ==
  ASSUME Common, InvC, NEW t \in Tasks, NEW u \in Tasks, C!Spawn(t, u)
  PROVE  Common' /\ InvC'
<1>1. /\ Runner(t) /\ op[t] = "idle" /\ u \in Tasks \ spawned
      /\ run' = Append(run, u) /\ spawned' = spawned \cup {u}
      /\ UNCHANGED <<waiters, op, seen, permits, arrived, releases, held, outcome>>
  BY Turn DEF C!Spawn, C!Begins, C!At, C!seen, seen
<1>2. used' \in [Tasks -> 0..MaxOps]
  BY UsedOnce DEF C!Spawn, C!Begins
<1>3. QTypes' /\ Placed' /\ Others(t) /\ run' # <<>>
  BY <1>1, Spawns DEF Common, Types
<1>4. Ends' /\ outcome' \in {"running", "ended", "deadlock"}
  BY <1>1, <1>3 DEF Common, Types, Ends, Runner
<1>5. Common'
  BY <1>1, <1>2, <1>3, <1>4, Idles
<1>6. InvC'
  <2>1. op[t] # "mutex" /\ UNCHANGED <<holders, begun, leads>>
    BY <1>1 DEF seen
  <2> QED BY <2>1, <1>1, <1>3, MutexCKept, BarrierCKept DEF InvC
<1> QED BY <1>5, <1>6

LEMMA YieldC ==
  ASSUME Common, InvC, NEW t \in Tasks, C!Yield(t)
  PROVE  Common' /\ InvC'
<1>1. /\ Runner(t) /\ op[t] = "idle" /\ run' = Append(Tail(run), t)
      /\ UNCHANGED <<waiters, op, seen, permits, arrived, releases, held, spawned, outcome>>
  BY Turn DEF C!Yield, C!Begins, C!At, C!seen, seen
<1>2. used' \in [Tasks -> 0..MaxOps]
  BY UsedOnce DEF C!Yield, C!Begins
<1>3. QTypes' /\ Placed' /\ Others(t) /\ run' # <<>>
  <2>1. QTypes /\ Placed /\ UNCHANGED <<waiters, op, spawned>>
    BY <1>1 DEF Common, Types
  <2> QED BY <2>1, <1>1, Yields
<1>4. Ends' /\ outcome' \in {"running", "ended", "deadlock"}
  BY <1>1, <1>3 DEF Common, Types, Ends, Runner
<1>5. Common'
  BY <1>1, <1>2, <1>3, <1>4, Idles
<1>6. InvC'
  <2>1. op[t] # "mutex" /\ UNCHANGED <<holders, begun, leads>>
    BY <1>1 DEF seen
  <2> QED BY <2>1, <1>1, <1>3, MutexCKept, BarrierCKept DEF InvC
<1> QED BY <1>5, <1>6

LEMMA ExitC ==
  ASSUME Common, InvC, NEW t \in Tasks, C!Exit(t)
  PROVE  Common' /\ InvC'
<1>1. /\ Runner(t) /\ op[t] = "idle" /\ run' = Tail(run)
      /\ UNCHANGED <<waiters, op, seen, permits, arrived, releases, held, spawned, used>>
  BY Turn DEF C!Exit, C!At, C!seen, seen
<1>2. used' \in [Tasks -> 0..MaxOps]
  BY <1>1 DEF Common, Types
<1>3. QTypes' /\ Placed' /\ Others(t)
  BY <1>1, Exits DEF Common, Types
<1>4. Ends' /\ outcome' \in {"running", "ended", "deadlock"}
  BY EndsRight DEF C!Exit, C!EndIfEmpty, C!Objects, Objects
<1>5. Common'
  BY <1>1, <1>2, <1>3, <1>4, Idles
<1>6. InvC'
  <2>1. op[t] # "mutex" /\ UNCHANGED <<holders, begun, leads>>
    BY <1>1 DEF seen
  <2> QED BY <2>1, <1>1, <1>3, MutexCKept, BarrierCKept DEF InvC
<1> QED BY <1>5, <1>6

LEMMA StartsC ==
  ASSUME Common, NEW t \in Tasks, NEW o \in Objects, C!Starts(t, o)
  PROVE  Runner(t) /\ op[t] \in {"idle", o} /\ used' \in [Tasks -> 0..MaxOps]
<1>1. CASE C!Begins(t)
  BY <1>1, Turn, UsedOnce DEF C!Begins, C!At
<1>2. CASE C!At(t, o) /\ UNCHANGED used
  BY <1>2, Turn DEF C!At, Common, Types
<1> QED BY <1>1, <1>2 DEF C!Starts

LEMMA BlockOnC ==
  ASSUME NEW t \in Tasks, NEW o \in Objects, C!BlockOn(t, o)
  PROVE  /\ run' = Tail(run) /\ waiters' = [waiters EXCEPT ![o] = Append(@, t)]
         /\ op' = [op EXCEPT ![t] = o] /\ Ends'
         /\ outcome' \in {"running", "ended", "deadlock"}
<1>1. Ends' /\ outcome' \in {"running", "ended", "deadlock"}
  BY EndsRight DEF C!BlockOn, C!EndIfEmpty, C!Objects, Objects
<1> QED BY <1>1 DEF C!BlockOn

LEMMA MutexLockC ==
  ASSUME Common, InvC, NEW t \in Tasks, C!MutexLock(t)
  PROVE  Common' /\ InvC'
<1>0. "mutex" \in Objects
  BY DEF Objects
<1>1. Runner(t) /\ op[t] \in {"idle", "mutex"} /\ used' \in [Tasks -> 0..MaxOps]
  BY <1>0, StartsC DEF C!MutexLock
<1>2. UNCHANGED <<taken, begun, passed, leads, permits, arrived, releases, spawned>>
  BY DEF C!MutexLock
<1>3. BarrierC'
  BY <1>2, BarrierCKept DEF InvC
<1>4. CASE held
  <2>1. C!BlockOn(t, "mutex") /\ UNCHANGED <<held, holders>>
    BY <1>4 DEF C!MutexLock
  <2>2. /\ run' = Tail(run) /\ waiters' = [waiters EXCEPT !["mutex"] = Append(@, t)]
        /\ op' = [op EXCEPT ![t] = "mutex"] /\ Ends'
        /\ outcome' \in {"running", "ended", "deadlock"}
    BY <1>0, <2>1, BlockOnC
  <2>3. UNCHANGED <<seen, permits, arrived, releases, spawned>>
    BY <1>2, <2>1 DEF seen
  <2>4. Common'
    BY <1>1, <2>2, <2>3, BlocksOn
  <2>5. MutexC'
    BY <1>4, <2>1 DEF InvC, MutexC
  <2> QED BY <1>3, <2>4, <2>5 DEF InvC
<1>5. CASE ~held
  <2>1. /\ held' = TRUE /\ holders' = holders \cup {t}
        /\ op' = [op EXCEPT ![t] = "idle"] /\ UNCHANGED <<run, waiters, outcome>>
    BY <1>5 DEF C!MutexLock, C!Done
  <2>2. holders = {} /\ holders' \subseteq Tasks
    BY <1>5, <2>1 DEF InvC, MutexC
  <2>3. Common'
    BY <1>1, <1>2, <2>1, <2>2, Locks
  <2>4. MutexC'
    BY <2>1, <2>2 DEF MutexC
  <2> QED BY <1>3, <2>3, <2>4 DEF InvC
<1> QED BY <1>4, <1>5

LEMMA MutexUnlockC ==
  ASSUME Common, InvC, NEW t \in Tasks, C!MutexUnlock(t)
  PROVE  Common' /\ InvC'
<1>1. /\ Runner(t) /\ op[t] = "idle" /\ t \in holders
      /\ held' = FALSE /\ holders' = holders \ {t}
      /\ UNCHANGED <<taken, begun, passed, leads, permits, arrived, releases, op,
                     spawned, used, outcome>>
  BY Turn DEF C!MutexUnlock, C!At
<1>2. PICK k : Woke("mutex", 1, k)
  <2>1. QTypes /\ "mutex" \in Objects /\ 1 \in Nat
    BY DEF Common, Types, Objects
  <2> QED BY <2>1, WakeUpTo DEF C!MutexUnlock
<1>3. holders' = {} /\ holders' \subseteq Tasks
  BY <1>1 DEF InvC, MutexC
<1>4. Common' /\ (waiters'["mutex"] # <<>> => Awoken("mutex")' # {})
  BY <1>1, <1>2, <1>3, Unlocks
<1>5. MutexC'
  BY <1>1, <1>3, <1>4 DEF MutexC
<1> QED BY <1>1, <1>4, <1>5, BarrierCKept DEF InvC


\* A task that leaves the mutex alone leaves what it promises.
LEMMA ElsewhereC ==
  ASSUME InvC, NEW t, Others(t), op[t] # "mutex",
         UNCHANGED <<held, holders, begun, leads, arrived, releases>>,
         waiters'["mutex"] = waiters["mutex"]
  PROVE  InvC'
BY MutexCKept, BarrierCKept DEF InvC

LEMMA SemaphoreAcquireC ==
  ASSUME Common, InvC, NEW t \in Tasks, C!SemaphoreAcquire(t)
  PROVE  Common' /\ InvC'
<1>0. "semaphore" \in Objects
  BY DEF Objects
<1>1. Runner(t) /\ op[t] \in {"idle", "semaphore"} /\ used' \in [Tasks -> 0..MaxOps]
  BY <1>0, StartsC DEF C!SemaphoreAcquire
<1>2. UNCHANGED <<holders, begun, passed, leads, held, arrived, releases, spawned>>
  BY DEF C!SemaphoreAcquire
<1>3. op[t] # "mutex" /\ permits \in Nat
  BY <1>1 DEF Common, Types
<1>4. CASE permits <= 0
  <2>1. C!BlockOn(t, "semaphore") /\ UNCHANGED <<permits, taken>>
    BY <1>4 DEF C!SemaphoreAcquire
  <2>2. /\ run' = Tail(run) /\ waiters' = [waiters EXCEPT !["semaphore"] = Append(@, t)]
        /\ op' = [op EXCEPT ![t] = "semaphore"] /\ Ends'
        /\ outcome' \in {"running", "ended", "deadlock"}
    BY <1>0, <2>1, BlockOnC
  <2>3. UNCHANGED <<seen, permits, arrived, releases, spawned>>
    BY <1>2, <2>1 DEF seen
  <2>4. /\ Common' /\ Others(t)
        /\ \A p \in Objects \ {"semaphore"} : waiters'[p] = waiters[p]
    BY <1>1, <1>4, <2>2, <2>3, BlocksOn
  <2>5. waiters'["mutex"] = waiters["mutex"]
    BY <2>4 DEF Objects
  <2> QED BY <1>2, <1>3, <2>4, <2>5, ElsewhereC
<1>5. CASE ~(permits <= 0)
  <2>1. /\ permits' = permits - 1 /\ taken' = [taken EXCEPT ![t] = @ + 1]
        /\ op' = [op EXCEPT ![t] = "idle"] /\ UNCHANGED <<run, waiters, outcome>>
    BY <1>5 DEF C!SemaphoreAcquire, C!Done
  <2>2. permits > 0
    BY <1>3, <1>5
  <2>3. Common' /\ Others(t)
    BY <1>1, <1>2, <2>1, <2>2, Acquires
  <2> QED BY <1>2, <1>3, <2>1, <2>3, ElsewhereC
<1> QED BY <1>4, <1>5

LEMMA SemaphoreTryAcquireC ==
  ASSUME Common, InvC, NEW t \in Tasks, C!SemaphoreTryAcquire(t)
  PROVE  Common' /\ InvC'
<1>1. /\ Runner(t) /\ op[t] = "idle" /\ permits > 0
      /\ permits' = permits - 1 /\ taken' = [taken EXCEPT ![t] = @ + 1]
      /\ UNCHANGED <<holders, begun, passed, leads, run, waiters, held, arrived,
                     releases, op, spawned, outcome>>
  BY Turn DEF C!SemaphoreTryAcquire, C!Begins, C!At
<1>2. used' \in [Tasks -> 0..MaxOps]
  BY UsedOnce DEF C!SemaphoreTryAcquire, C!Begins
<1>3. op' = [op EXCEPT ![t] = "idle"] /\ op[t] \in {"idle", "semaphore"}
  BY <1>1 DEF Common, Types, QTypes
<1>4. Common' /\ Others(t)
  BY <1>1, <1>2, <1>3, Acquires
<1> QED BY <1>1, <1>4, ElsewhereC

LEMMA SemaphoreReleaseC ==
  ASSUME Common, InvC, NEW t \in Tasks, C!SemaphoreRelease(t)
  PROVE  Common' /\ InvC'
<1>1. /\ Runner(t) /\ op[t] = "idle" /\ taken[t] > 0
      /\ permits' = permits + 1 /\ taken' = [taken EXCEPT ![t] = @ - 1]
      /\ UNCHANGED <<holders, begun, passed, leads, held, arrived, releases, op,
                     spawned, used, outcome>>
  BY Turn DEF C!SemaphoreRelease, C!At
<1>2. PICK k : Woke("semaphore", 1, k)
  <2>1. QTypes /\ "semaphore" \in Objects /\ 1 \in Nat
    BY DEF Common, Types, Objects
  <2> QED BY <2>1, WakeUpTo DEF C!SemaphoreRelease
<1>3. Common' /\ Others(t)
  BY <1>1, <1>2, Releases
<1>4. waiters'["mutex"] = waiters["mutex"]
  BY <1>2 DEF Woke, Common, Types, QTypes, Objects
<1> QED BY <1>1, <1>3, <1>4, ElsewhereC

LEMMA BarrierLeadC ==
  ASSUME Common, InvC, NEW t \in Tasks, C!BarrierLead(t)
  PROVE  Common' /\ InvC'
<1>1. /\ Runner(t) /\ op[t] = "idle" /\ begun[t] < Rounds /\ arrived + 1 >= Parties
      /\ begun' = [begun EXCEPT ![t] = @ + 1]
      /\ arrived' = 0 /\ releases' = Parties - 1
      /\ passed' = [passed EXCEPT ![t] = @ + 1] /\ leads' = leads + 1
      /\ UNCHANGED <<holders, taken, held, permits, op, spawned, used, outcome>>
  BY Turn DEF C!BarrierLead, C!At, C!LastToArrive
<1>2. /\ Parties \in Nat \ {0} /\ arrived \in Nat /\ releases \in Nat /\ leads \in Nat
      /\ begun \in [Tasks -> Nat] /\ Total(begun) \in Nat
  BY CountTypes, SyncAssumption DEF Common, Types, SeenTypeOK
<1>3. releases = 0 /\ arrived + 1 = Parties
  BY <1>1, <1>2 DEF InvC, BarrierC
<1>4. PICK k : Woke("barrier", Parties - 1, k)
  <2>1. QTypes /\ "barrier" \in Objects /\ Parties - 1 \in Nat
    BY <1>2 DEF Common, Types, Objects
  <2> QED BY <2>1, WakeUpTo DEF C!BarrierLead
<1>5. op' = [op EXCEPT ![t] = "idle"] /\ Arriving(t)
  BY <1>1 DEF Common, Types, QTypes, Arriving
<1>6. /\ Common' /\ Others(t)
      /\ \A o \in Objects \ {"barrier"} : waiters'[o] = waiters[o]
  BY <1>1, <1>3, <1>4, <1>5, Leads
<1>7. MutexC'
  <2>1. waiters'["mutex"] = waiters["mutex"] /\ op[t] # "mutex"
    BY <1>1, <1>6 DEF Objects
  <2> QED BY <2>1, <1>1, <1>6, MutexCKept DEF InvC
<1>8. BarrierC'
  <2>1. Total(begun') = Total(begun) + 1 /\ Total(begun) = Parties * leads + arrived
    BY <1>1, <1>2, TotalUp DEF InvC, BarrierC
  <2>2. Parties * leads' = Parties * leads + Parties
    BY <1>1, <1>2, GateArithmetic
  <2>3. Total(begun') = Parties * leads' + arrived'
    BY <2>1, <2>2, <1>1, <1>2, <1>3
  <2> QED BY <2>3, <1>1, <1>2 DEF BarrierC
<1> QED BY <1>6, <1>7, <1>8 DEF InvC

LEMMA BarrierWaitC ==
  ASSUME Common, InvC, NEW t \in Tasks, C!BarrierWait(t)
  PROVE  Common' /\ InvC'
<1>1. /\ Runner(t) /\ Arriving(t) /\ op[t] # "mutex"
      /\ UNCHANGED <<holders, taken, leads, held, permits, spawned, used>>
  BY Turn DEF C!BarrierWait, C!At, Arriving
<1>2. /\ Parties \in Nat \ {0} /\ arrived \in Nat /\ releases \in Nat /\ leads \in Nat
      /\ begun \in [Tasks -> Nat] /\ Total(begun) \in Nat
  BY CountTypes, SyncAssumption DEF Common, Types, SeenTypeOK
<1>3. /\ Total(begun') = Parties * leads' + arrived' /\ arrived' \in 0..(Parties - 1)
      /\ \/ arrived' = arrived
         \/ arrived' = arrived + 1 /\ arrived + 1 < Parties
  <2>1. Total(begun) = Parties * leads + arrived /\ arrived + releases < Parties
    BY DEF InvC, BarrierC
  <2>2. CASE begun' = [begun EXCEPT ![t] = @ + 1] /\ ~C!LastToArrive /\ arrived' = arrived + 1
    <3>1. Total(begun') = Total(begun) + 1
      BY <2>2, <1>2, TotalUp
    <3>2. arrived + 1 < Parties
      BY <2>2, <1>2 DEF C!LastToArrive
    <3>3. Parties * leads' = Parties * leads /\ Parties * leads \in Nat
      BY <1>1, <1>2
    <3> QED BY <3>1, <3>2, <3>3, <2>1, <2>2, <1>2
  <2>3. CASE UNCHANGED <<begun, arrived>>
    BY <2>1, <2>3, <1>1, <1>2
  <2> QED BY <2>2, <2>3 DEF C!BarrierWait
<1>a. arrived' \in Nat /\ arrived' <= arrived + 1 /\ arrived' < Parties
  BY <1>2, <1>3
<1>b. arrived + releases < Parties
  BY DEF InvC, BarrierC
<1>4. CASE releases = 0
  <2>0. "barrier" \in Objects
    BY DEF Objects
  <2>1. C!BlockOn(t, "barrier") /\ UNCHANGED <<releases, passed>>
    BY <1>4 DEF C!BarrierWait
  <2>2. /\ run' = Tail(run) /\ waiters' = [waiters EXCEPT !["barrier"] = Append(@, t)]
        /\ op' = [op EXCEPT ![t] = "barrier"] /\ Ends'
        /\ outcome' \in {"running", "ended", "deadlock"}
    BY <2>0, <2>1, BlockOnC
  <2>3. Common' /\ Others(t)
    BY <1>1, <1>3, <1>4, <2>1, <2>2, BlocksOnGate
  <2>4. waiters'["mutex"] = waiters["mutex"]
    BY <2>2 DEF Common, Types, QTypes, Objects
  <2>5. MutexC'
    BY <1>1, <2>3, <2>4, MutexCKept DEF InvC
  <2>6. arrived' + releases' < Parties
    <3> DEFINE a == arrived'
               r == releases'
    <3>1. /\ a \in Nat /\ r \in Nat /\ Parties \in Nat
          /\ a < Parties /\ r = 0
      BY <1>2, <1>4, <1>a, <2>1
    <3> HIDE DEF a, r
    <3>2. a + r < Parties
      BY <3>1
    <3> QED BY <3>2 DEF a, r
  <2> QED BY <1>3, <2>3, <2>5, <2>6 DEF InvC, BarrierC
<1>5. CASE releases # 0
  <2>1. /\ releases' = releases - 1 /\ passed' = [passed EXCEPT ![t] = @ + 1]
        /\ op' = [op EXCEPT ![t] = "idle"] /\ UNCHANGED <<run, waiters, outcome>>
    BY <1>5 DEF C!BarrierWait, C!Done
  <2>2. releases > 0
    BY <1>2, <1>5
  <2>3. Common' /\ Others(t)
    BY <1>1, <1>3, <2>1, <2>2, Passes
  <2>4. MutexC'
    BY <1>1, <2>1, <2>3, MutexCKept DEF InvC
  <2>5. arrived' + releases' < Parties
    <3> DEFINE a == arrived'
               r == releases'
    <3>1. /\ a \in Nat /\ r \in Nat /\ Parties \in Nat /\ arrived \in Nat /\ releases \in Nat
          /\ a <= arrived + 1 /\ r = releases - 1
      BY <1>2, <1>a, <2>1, <2>2
    <3> HIDE DEF a, r
    <3>2. a + r < Parties
      BY <3>1, <1>b
    <3> QED BY <3>2 DEF a, r
  <2> QED BY <1>3, <2>3, <2>4, <2>5 DEF InvC, BarrierC
<1> QED BY <1>4, <1>5

LEMMA StepC ==
  ASSUME Common, InvC, C!Next
  PROVE  Common' /\ InvC'
BY SpawnC, YieldC, MutexLockC, MutexUnlockC, SemaphoreAcquireC, SemaphoreTryAcquireC,
   SemaphoreReleaseC, BarrierLeadC, BarrierWaitC, ExitC DEF C!Next


-----------------------------------------------------------------------------
(* The T3 emulator.                                                        *)

LEMMA MutexT3Kept ==
  ASSUME MutexT3, NEW t, Others(t), op[t] # "mutex", UNCHANGED <<holder, holders>>,
         waiters'["mutex"] = waiters["mutex"]
  PROVE  MutexT3'
<1>1. Awoken("mutex") # {} => Awoken("mutex")' # {}
  BY DEF Awoken, Others
<1> QED BY <1>1 DEF MutexT3

LEMMA BarrierT3Kept ==
  ASSUME Common, Common', BarrierT3, NEW t \in Tasks, Others(t), op[t] # "barrier",
         UNCHANGED <<arrived, releases>>, waiters'["barrier"] = waiters["barrier"]
  PROVE  BarrierT3'
<1>1. /\ Cardinality(Awoken("barrier")) \in Nat /\ Cardinality(Awoken("barrier")') \in Nat
      /\ Cardinality(Awoken("barrier")') >= Cardinality(Awoken("barrier"))
  BY NoneLost DEF Common, Types
<1>2. releases \in Nat
  BY SyncAssumption DEF Common, Types
<1> QED BY <1>1, <1>2 DEF BarrierT3

\* A step of a task that is in no loop, and leaves every queue of waiters alone.
LEMMA IdlesT3 ==
  ASSUME Common, InvT3, QTypes', Placed', Ends', NEW t \in Tasks, Others(t), op[t] = "idle",
         UNCHANGED <<seen, permits, arrived, releases, holder, op, waiters>>,
         used' \in [Tasks -> 0..MaxOps], outcome' \in {"running", "ended", "deadlock"},
         active' \in {active, TRUE}
  PROVE  Common' /\ InvT3'
<1>1. Common'
  BY Idles
<1>2. MutexT3'
  <2>1. UNCHANGED <<holder, holders>> /\ op[t] # "mutex"
    BY DEF seen
  <2> QED BY <2>1, MutexT3Kept DEF InvT3
<1>3. BarrierT3'
  BY <1>1, BarrierT3Kept DEF InvT3
<1>4. Alone'
  BY DEF InvT3, Alone
<1> QED BY <1>1, <1>2, <1>3, <1>4 DEF InvT3

LEMMA ForkT3 ==
  ASSUME Common, InvT3, NEW t \in Tasks, NEW u \in Tasks, T3!Fork(t, u)
  PROVE  Common' /\ InvT3'
<1>1. /\ Runner(t) /\ op[t] = "idle" /\ u \in Tasks \ spawned
      /\ run' = Append(run, u) /\ spawned' = spawned \cup {u} /\ active' = TRUE
      /\ UNCHANGED <<waiters, op, seen, permits, arrived, releases, holder, outcome>>
  BY Turn DEF T3!Fork, T3!At, T3!seen, seen
<1>2. used' \in [Tasks -> 0..MaxOps]
  BY UsedOnce DEF T3!Fork, T3!Begins
<1>3. QTypes' /\ Placed' /\ Others(t) /\ run' # <<>>
  BY <1>1, Spawns DEF Common, Types
<1>4. Ends' /\ outcome' \in {"running", "ended", "deadlock"}
  BY <1>1, <1>3 DEF Common, Types, Ends, Runner
<1> QED BY <1>1, <1>2, <1>3, <1>4, IdlesT3

LEMMA YieldT3 ==
  ASSUME Common, InvT3, NEW t \in Tasks, T3!Yield(t)
  PROVE  Common' /\ InvT3'
<1>1. /\ Runner(t) /\ op[t] = "idle"
      /\ run' = IF active THEN Append(Tail(run), t) ELSE run
      /\ UNCHANGED <<waiters, op, seen, permits, arrived, releases, active, holder,
                     spawned, outcome>>
  BY Turn DEF T3!Yield, T3!At, T3!seen, seen
<1>2. used' \in [Tasks -> 0..MaxOps]
  BY UsedOnce DEF T3!Yield, T3!Begins
<1>3. QTypes' /\ Placed' /\ Others(t) /\ run' # <<>>
  <2>1. QTypes /\ Placed /\ UNCHANGED <<waiters, op, spawned>>
    BY <1>1 DEF Common, Types
  <2>2. CASE run' = Append(Tail(run), t)
    BY <2>1, <2>2, <1>1, Yields
  <2>3. CASE run' = run
    BY <2>1, <2>3, <1>1 DEF QTypes, Placed, Others, Runner
  <2> QED BY <2>2, <2>3, <1>1
<1>4. Ends' /\ outcome' \in {"running", "ended", "deadlock"}
  BY <1>1, <1>3 DEF Common, Types, Ends, Runner
<1> QED BY <1>1, <1>2, <1>3, <1>4, IdlesT3

LEMMA ExitT3 ==
  ASSUME Common, InvT3, NEW t \in Tasks, T3!Exit(t)
  PROVE  Common' /\ InvT3'
<1>1. /\ Runner(t) /\ op[t] = "idle" /\ run' = Tail(run)
      /\ UNCHANGED <<waiters, op, seen, permits, arrived, releases, active, holder,
                     spawned, used>>
  BY Turn DEF T3!Exit, T3!At, T3!seen, seen
<1>2. used' \in [Tasks -> 0..MaxOps]
  BY <1>1 DEF Common, Types
<1>3. QTypes' /\ Placed' /\ Others(t)
  BY <1>1, Exits DEF Common, Types
<1>4. Ends' /\ outcome' \in {"running", "ended", "deadlock"}
  BY EndsRight DEF T3!Exit, T3!EndIfEmpty, T3!Objects, Objects
<1> QED BY <1>1, <1>2, <1>3, <1>4, IdlesT3

\* A syscall on an object is made by a spawned program only.
LEMMA StartsT3 ==
  ASSUME Common, InvT3, ~Early, NEW t \in Tasks, NEW o \in Objects, T3!Starts(t, o)
  PROVE  Runner(t) /\ op[t] \in {"idle", o} /\ used' \in [Tasks -> 0..MaxOps] /\ active
<1>1. CASE T3!Uses(t) /\ T3!Begins(t)
  BY <1>1, Turn, UsedOnce DEF T3!Uses, T3!Begins, T3!At
<1>2. CASE T3!At(t, o) /\ UNCHANGED used
  BY <1>2, Turn DEF T3!At, Common, Types, InvT3, Alone, Objects
<1> QED BY <1>1, <1>2 DEF T3!Starts

LEMMA BlockOnT3 ==
  ASSUME NEW t \in Tasks, NEW o \in Objects, T3!BlockOn(t, o)
  PROVE  /\ run' = Tail(run) /\ waiters' = [waiters EXCEPT ![o] = Append(@, t)]
         /\ op' = [op EXCEPT ![t] = o] /\ Ends'
         /\ outcome' \in {"running", "ended", "deadlock"}
<1>1. Ends' /\ outcome' \in {"running", "ended", "deadlock"}
  BY EndsRight DEF T3!BlockOn, T3!EndIfEmpty, T3!Objects, Objects
<1> QED BY <1>1 DEF T3!BlockOn

LEMMA WakeUpToT3 ==
  ASSUME QTypes, NEW o \in Objects, NEW n \in Nat, T3!Wake(o, n)
  PROVE  \E k : Woke(o, n, k)
<1>1. C!Wake(o, n)
  BY DEF T3!Wake, C!Wake
<1> QED BY <1>1, WakeUpTo

LEMMA MutexLockT3 ==
  ASSUME Common, InvT3, ~Early, NEW t \in Tasks, T3!MutexLock(t)
  PROVE  Common' /\ InvT3'
<1>0. "mutex" \in Objects
  BY DEF Objects
<1>1. /\ Runner(t) /\ op[t] \in {"idle", "mutex"} /\ op[t] # "barrier"
      /\ used' \in [Tasks -> 0..MaxOps] /\ active
  BY <1>0, StartsT3 DEF T3!MutexLock
<1>2. UNCHANGED <<taken, begun, passed, leads, active, permits, arrived, releases, spawned>>
  BY DEF T3!MutexLock
<1>3. Alone'
  BY <1>1, <1>2 DEF InvT3, Alone
<1>4. CASE holder # T3!Nobody
  <2>1. T3!BlockOn(t, "mutex") /\ UNCHANGED <<holder, holders>>
    BY <1>1, <1>4 DEF T3!MutexLock
  <2>2. /\ run' = Tail(run) /\ waiters' = [waiters EXCEPT !["mutex"] = Append(@, t)]
        /\ op' = [op EXCEPT ![t] = "mutex"] /\ Ends'
        /\ outcome' \in {"running", "ended", "deadlock"}
    BY <1>0, <2>1, BlockOnT3
  <2>3. UNCHANGED <<seen, permits, arrived, releases, spawned>>
    BY <1>2, <2>1 DEF seen
  <2>4. /\ Common' /\ Others(t)
        /\ \A p \in Objects \ {"mutex"} : waiters'[p] = waiters[p]
    BY <1>1, <2>2, <2>3, BlocksOn
  <2>5. MutexT3'
    BY <1>4, <2>1 DEF InvT3, MutexT3
  <2>6. waiters'["barrier"] = waiters["barrier"]
    BY <2>4 DEF Objects
  <2>7. BarrierT3'
    BY <1>1, <1>2, <2>4, <2>6, BarrierT3Kept DEF InvT3
  <2> QED BY <1>3, <2>4, <2>5, <2>7 DEF InvT3
<1>5. CASE holder = T3!Nobody
  <2>1. /\ holder' = t /\ holders' = holders \cup {t}
        /\ op' = [op EXCEPT ![t] = "idle"] /\ UNCHANGED <<run, waiters, outcome>>
    BY <1>5 DEF T3!MutexLock, T3!Done
  <2>2. holders' = {t} /\ t # T3!Nobody
    BY <1>5, <2>1, NobodyIsNoTask DEF InvT3, MutexT3
  <2>3. Common' /\ Others(t)
    <3>1. holders' \subseteq Tasks
      BY <2>2
    <3> QED BY <3>1, <1>1, <1>2, <2>1, Locks
  <2>4. MutexT3'
    BY <2>1, <2>2 DEF MutexT3
  <2>5. BarrierT3'
    BY <1>1, <1>2, <2>1, <2>3, BarrierT3Kept DEF InvT3
  <2> QED BY <1>3, <2>3, <2>4, <2>5 DEF InvT3
<1> QED BY <1>4, <1>5

LEMMA MutexUnlockT3 ==
  ASSUME Common, InvT3, NEW t \in Tasks, T3!MutexUnlock(t)
  PROVE  Common' /\ InvT3'
<1>1. /\ Runner(t) /\ op[t] = "idle" /\ t \in holders
      /\ holder' = T3!Nobody /\ holders' = holders \ {t}
      /\ UNCHANGED <<taken, begun, passed, leads, active, permits, arrived, releases, op,
                     spawned, used, outcome>>
  BY Turn DEF T3!MutexUnlock, T3!Uses, T3!At
<1>2. PICK k : Woke("mutex", 1, k)
  <2>1. QTypes /\ "mutex" \in Objects /\ 1 \in Nat
    BY DEF Common, Types, Objects
  <2> QED BY <2>1, WakeUpToT3 DEF T3!MutexUnlock
<1>3. holders' = {} /\ holders' \subseteq Tasks
  BY <1>1 DEF InvT3, MutexT3
<1>4. /\ Common' /\ Others(t) /\ (waiters'["mutex"] # <<>> => Awoken("mutex")' # {})
      /\ waiters'["barrier"] = waiters["barrier"]
  BY <1>1, <1>2, <1>3, Unlocks
<1>5. MutexT3'
  BY <1>1, <1>3, <1>4 DEF MutexT3
<1>6. BarrierT3' /\ Alone'
  BY <1>1, <1>4, BarrierT3Kept DEF InvT3, Alone
<1> QED BY <1>4, <1>5, <1>6 DEF InvT3


\* A task that leaves the mutex and the barrier alone leaves what they promise.
LEMMA ElsewhereT3 ==
  ASSUME Common, Common', InvT3, NEW t \in Tasks, Others(t), op[t] \in {"idle", "semaphore"},
         UNCHANGED <<holder, holders, arrived, releases, active>>,
         \A o \in Objects \ {"semaphore"} : waiters'[o] = waiters[o],
         active \/ op' = op
  PROVE  InvT3'
<1>1. op[t] # "mutex" /\ op[t] # "barrier"
  OBVIOUS
<1>2. waiters'["mutex"] = waiters["mutex"] /\ waiters'["barrier"] = waiters["barrier"]
  BY DEF Objects
<1>3. Alone'
  BY DEF InvT3, Alone
<1>4. MutexT3'
  BY <1>1, <1>2, MutexT3Kept DEF InvT3
<1>5. BarrierT3'
  BY <1>1, <1>2, BarrierT3Kept DEF InvT3
<1> QED BY <1>3, <1>4, <1>5 DEF InvT3

LEMMA SemaphoreAcquireT3 ==
  ASSUME Common, InvT3, ~Early, NEW t \in Tasks, T3!SemaphoreAcquire(t)
  PROVE  Common' /\ InvT3'
<1>0. "semaphore" \in Objects
  BY DEF Objects
<1>1. /\ Runner(t) /\ op[t] \in {"idle", "semaphore"}
      /\ used' \in [Tasks -> 0..MaxOps] /\ active
  BY <1>0, StartsT3 DEF T3!SemaphoreAcquire
<1>2. UNCHANGED <<holders, begun, passed, leads, active, holder, arrived, releases, spawned>>
  BY DEF T3!SemaphoreAcquire
<1>3. permits \in Nat
  BY DEF Common, Types
<1>4. CASE permits <= 0
  <2>1. T3!BlockOn(t, "semaphore") /\ UNCHANGED <<permits, taken>>
    BY <1>1, <1>4 DEF T3!SemaphoreAcquire
  <2>2. /\ run' = Tail(run) /\ waiters' = [waiters EXCEPT !["semaphore"] = Append(@, t)]
        /\ op' = [op EXCEPT ![t] = "semaphore"] /\ Ends'
        /\ outcome' \in {"running", "ended", "deadlock"}
    BY <1>0, <2>1, BlockOnT3
  <2>3. UNCHANGED <<seen, permits, arrived, releases, spawned>>
    BY <1>2, <2>1 DEF seen
  <2>4. /\ Common' /\ Others(t)
        /\ \A p \in Objects \ {"semaphore"} : waiters'[p] = waiters[p]
    BY <1>1, <1>4, <2>2, <2>3, BlocksOn
  <2> QED BY <1>1, <1>2, <2>4, ElsewhereT3
<1>5. CASE ~(permits <= 0)
  <2>1. permits > 0
    BY <1>3, <1>5
  <2>2. /\ permits' = permits - 1 /\ taken' = [taken EXCEPT ![t] = @ + 1]
        /\ op' = [op EXCEPT ![t] = "idle"] /\ UNCHANGED <<run, waiters, outcome>>
    BY <1>5, <2>1 DEF T3!SemaphoreAcquire, T3!Done
  <2>3. Common' /\ Others(t)
    BY <1>1, <1>2, <2>1, <2>2, Acquires
  <2> QED BY <1>1, <1>2, <2>2, <2>3, ElsewhereT3
<1> QED BY <1>4, <1>5

LEMMA SemaphoreReleaseT3 ==
  ASSUME Common, InvT3, NEW t \in Tasks, T3!SemaphoreRelease(t)
  PROVE  Common' /\ InvT3'
<1>1. /\ Runner(t) /\ op[t] = "idle" /\ taken[t] > 0
      /\ permits' = permits + 1 /\ taken' = [taken EXCEPT ![t] = @ - 1]
      /\ UNCHANGED <<holders, begun, passed, leads, active, holder, arrived, releases,
                     op, spawned, used, outcome>>
  BY Turn DEF T3!SemaphoreRelease, T3!Uses, T3!At
<1>2. PICK k : Woke("semaphore", 1, k)
  <2>1. QTypes /\ "semaphore" \in Objects /\ 1 \in Nat
    BY DEF Common, Types, Objects
  <2> QED BY <2>1, WakeUpToT3 DEF T3!SemaphoreRelease
<1>3. Common' /\ Others(t)
  BY <1>1, <1>2, Releases
<1>4. \A o \in Objects \ {"semaphore"} : waiters'[o] = waiters[o]
  BY <1>2 DEF Woke, Common, Types, QTypes
<1> QED BY <1>1, <1>3, <1>4, ElsewhereT3

LEMMA ArrivesT3 ==
  ASSUME Common, InvT3, ~Early, NEW t \in Tasks, T3!Arrives(t)
  PROVE  Runner(t) /\ Arriving(t) /\ active /\ op[t] # "mutex"
<1>1. CASE T3!Uses(t) /\ begun[t] < Rounds /\ begun' = [begun EXCEPT ![t] = @ + 1]
  BY <1>1, Turn DEF T3!Uses, T3!At, Arriving
<1>2. CASE T3!At(t, "barrier") /\ UNCHANGED begun
  BY <1>2, Turn DEF T3!At, InvT3, Alone, Arriving
<1> QED BY <1>1, <1>2 DEF T3!Arrives

LEMMA BarrierReleasedT3 ==
  ASSUME Common, InvT3, ~Early, NEW t \in Tasks, T3!BarrierReleased(t)
  PROVE  Common' /\ InvT3'
<1>1. Runner(t) /\ Arriving(t) /\ active /\ op[t] # "mutex"
  BY ArrivesT3 DEF T3!BarrierReleased
<1>2. /\ releases > 0 /\ releases' = releases - 1
      /\ passed' = [passed EXCEPT ![t] = @ + 1] /\ op' = [op EXCEPT ![t] = "idle"]
      /\ UNCHANGED <<holders, taken, leads, run, waiters, active, holder, permits,
                     arrived, spawned, used, outcome>>
  BY DEF T3!BarrierReleased, T3!Done
<1>3. Common' /\ Others(t)
  <2>1. arrived' \in 0..(Parties - 1)
    BY <1>2 DEF Common, Types
  <2> QED BY <2>1, <1>1, <1>2, Passes
<1>4. MutexT3' /\ Alone'
  BY <1>1, <1>2, <1>3, MutexT3Kept DEF InvT3, Alone
<1>5. BarrierT3'
  <2>1. /\ Cardinality(Awoken("barrier")) \in Nat /\ Cardinality(Awoken("barrier")') \in Nat
        /\ Cardinality(Awoken("barrier")') >= Cardinality(Awoken("barrier")) - 1
    BY <1>3, OneLost DEF Common, Types
  <2>2. releases \in Nat
    BY SyncAssumption DEF Common, Types
  <2> QED BY <2>1, <2>2, <1>2 DEF InvT3, BarrierT3
<1> QED BY <1>3, <1>4, <1>5 DEF InvT3

LEMMA BarrierLeadT3 ==
  ASSUME Common, InvT3, ~Early, NEW t \in Tasks, T3!BarrierLead(t)
  PROVE  Common' /\ InvT3'
<1>1. Runner(t) /\ Arriving(t) /\ active /\ op[t] # "mutex"
  BY ArrivesT3 DEF T3!BarrierLead
<1>2. /\ releases = 0 /\ arrived + 1 >= Parties
      /\ arrived' = 0 /\ releases' = Parties - 1
      /\ passed' = [passed EXCEPT ![t] = @ + 1] /\ leads' = leads + 1
      /\ op' = [op EXCEPT ![t] = "idle"]
      /\ UNCHANGED <<holders, taken, active, holder, permits, spawned, used, outcome>>
  BY <1>1 DEF T3!BarrierLead, T3!LastToArrive, T3!Done
<1>3. /\ Parties \in Nat \ {0} /\ arrived \in 0..(Parties - 1)
      /\ arrived = Len(waiters["barrier"])
  BY SyncAssumption DEF Common, Types, InvT3, BarrierT3
<1>4. PICK k : Woke("barrier", Parties - 1, k)
  <2>1. QTypes /\ "barrier" \in Objects /\ Parties - 1 \in Nat
    BY <1>3 DEF Common, Types, Objects
  <2>2. T3!Wake("barrier", Parties - 1)
    BY <1>1 DEF T3!BarrierLead
  <2> QED BY <2>1, <2>2, WakeUpToT3
<1>5. /\ Common' /\ Others(t)
      /\ \A o \in Objects \ {"barrier"} : waiters'[o] = waiters[o]
      /\ Len(waiters'["barrier"]) = Len(waiters["barrier"]) - k
      /\ Cardinality(Awoken("barrier")') >= k
  BY <1>1, <1>2, <1>4, Leads
<1>6. k = Parties - 1 /\ Len(waiters["barrier"]) = Parties - 1
  BY <1>2, <1>3, <1>4 DEF Woke
<1>7. MutexT3'
  <2>1. waiters'["mutex"] = waiters["mutex"]
    BY <1>5 DEF Objects
  <2> QED BY <2>1, <1>1, <1>2, <1>5, MutexT3Kept DEF InvT3
<1>8. BarrierT3'
  <2>1. Len(waiters'["barrier"]) = 0
    BY <1>3, <1>5, <1>6
  <2> QED BY <2>1, <1>2, <1>5, <1>6 DEF BarrierT3
<1>9. Alone'
  BY <1>1, <1>2 DEF InvT3, Alone
<1> QED BY <1>5, <1>7, <1>8, <1>9 DEF InvT3

LEMMA BarrierWaitT3 ==
  ASSUME Common, InvT3, ~Early, NEW t \in Tasks, T3!BarrierWait(t)
  PROVE  Common' /\ InvT3'
<1>0. "barrier" \in Objects
  BY DEF Objects
<1>1. Runner(t) /\ Arriving(t) /\ active /\ op[t] # "mutex"
  BY ArrivesT3 DEF T3!BarrierWait
<1>2. /\ releases = 0 /\ ~(arrived + 1 >= Parties) /\ arrived' = arrived + 1
      /\ T3!BlockOn(t, "barrier")
      /\ UNCHANGED <<passed, holders, taken, leads, active, holder, permits, releases,
                     spawned, used>>
  BY <1>1 DEF T3!BarrierWait, T3!LastToArrive
<1>3. Parties \in Nat /\ arrived \in Nat /\ arrived' \in 0..(Parties - 1)
  BY <1>2, SyncAssumption DEF Common, Types
<1>4. /\ run' = Tail(run) /\ waiters' = [waiters EXCEPT !["barrier"] = Append(@, t)]
      /\ op' = [op EXCEPT ![t] = "barrier"] /\ Ends'
      /\ outcome' \in {"running", "ended", "deadlock"}
  BY <1>0, <1>2, BlockOnT3
<1>5. /\ Common' /\ Others(t)
      /\ Len(waiters'["barrier"]) = Len(waiters["barrier"]) + 1
  BY <1>1, <1>2, <1>3, <1>4, BlocksOnGate
<1>6. MutexT3'
  <2>1. waiters'["mutex"] = waiters["mutex"]
    BY <1>4 DEF Common, Types, QTypes, Objects
  <2> QED BY <2>1, <1>1, <1>2, <1>5, MutexT3Kept DEF InvT3
<1>7. BarrierT3'
  <2>1. Cardinality(Awoken("barrier")') \in Nat
    BY <1>5, OneLost DEF Common, Types
  <2> QED BY <2>1, <1>2, <1>5 DEF InvT3, BarrierT3
<1>8. Alone'
  BY <1>1, <1>2 DEF InvT3, Alone
<1> QED BY <1>5, <1>6, <1>7, <1>8 DEF InvT3

LEMMA StepT3 ==
  ASSUME Common, InvT3, ~Early, T3!Next
  PROVE  Common' /\ InvT3'
BY ForkT3, YieldT3, MutexLockT3, MutexUnlockT3, SemaphoreAcquireT3, SemaphoreReleaseT3,
   BarrierReleasedT3, BarrierLeadT3, BarrierWaitT3, ExitT3 DEF T3!Next


-----------------------------------------------------------------------------
(* The invariant.                                                          *)

LEMMA Initially == Init => IInv
<1> SUFFICES ASSUME Init PROVE IInv
  OBVIOUS
<1>1. /\ impl \in {"c", "t3"} /\ run = <<Main>> /\ waiters = [o \in Objects |-> <<>>]
      /\ permits = Permits /\ arrived = 0 /\ releases = 0 /\ op = [t \in Tasks |-> "idle"]
      /\ spawned = {Main} /\ used = [t \in Tasks |-> 0] /\ outcome = "running"
      /\ holders = {} /\ taken = [t \in Tasks |-> 0] /\ begun = [t \in Tasks |-> 0]
      /\ passed = [t \in Tasks |-> 0] /\ leads = 0
      /\ holder = T3!Nobody /\ held = FALSE /\ active \in BOOLEAN
  BY DEF Init, C!Init, T3!Init, C!SeenInit, T3!SeenInit, C!Objects, T3!Objects, Objects
<1>2. /\ Main \in Tasks /\ MaxOps \in Nat /\ Permits \in Nat /\ Rounds \in Nat
      /\ Parties \in Nat \ {0}
  BY SyncAssumption
<1>3. /\ <<Main>> \in Seq(Tasks) /\ <<Main>> # <<>> /\ IsInjective(<<Main>>)
      /\ Range(<<Main>>) = {Main}
  BY <1>2 DEF IsInjective, Range
<1>4. Types
  BY <1>1, <1>2, <1>3 DEF Types, QTypes, SeenTypeOK, Ops, Objects
<1>5. Placed
  <2>1. \A o \in Objects : IsInjective(waiters[o]) /\ Range(waiters[o]) = {}
    BY <1>1, OfEmpty
  <2>2. IsInjective(run) /\ Range(run) = {Main}
    BY <1>1, <1>3
  <2> QED BY <2>1, <2>2, <1>1 DEF Placed
<1>6. Total(taken) = 0 /\ Total(begun) = 0 /\ Total(passed) = 0 /\ Cardinality(InBarrier) = 0
  <2>1. InBarrier = {}
    BY <1>1 DEF InBarrier
  <2> QED BY <2>1, <1>1, TotalZero, FS_EmptySet
<1>7. Ends /\ Balanced
  BY <1>1, <1>2, <1>3, <1>6 DEF Ends, Balanced
<1>8. Counted
  <2>1. \A t \in Tasks : begun[t] = 0 /\ passed[t] = 0 /\ op[t] = "idle"
    BY <1>1
  <2>2. \A t \in Tasks : begun[t] = passed[t] + (IF op[t] = "barrier" THEN 1 ELSE 0)
    BY <2>1
  <2> QED BY <2>2, <1>6 DEF Counted
<1>9. Parties * leads = 0 /\ Gate
  BY <1>1, <1>2, <1>6 DEF Gate
<1>10. waiters["mutex"] = <<>> /\ waiters["semaphore"] = <<>> /\ waiters["barrier"] = <<>>
  BY <1>1 DEF Objects
<1>11. Common
  BY <1>4, <1>5, <1>7, <1>8, <1>9, <1>10 DEF Common, Served
<1>12. InvC
  <2>1. MutexC
    BY <1>1, <1>10 DEF MutexC
  <2>2. Total(begun) = Parties * leads + arrived
    BY <1>1, <1>6, <1>9
  <2>3. arrived + releases < Parties
    BY <1>1, <1>2
  <2> QED BY <2>1, <2>2, <2>3 DEF InvC, BarrierC
<1>13. InvT3
  <2>1. Len(waiters["barrier"]) = 0
    BY <1>10
  <2>2. Cardinality(Awoken("barrier")) = 0
    <3>1. Awoken("barrier") = {}
      BY <1>1, <1>3 DEF Awoken
    <3> QED BY <3>1, FS_EmptySet
  <2>3. MutexT3 /\ Alone
    BY <1>1, <1>10 DEF MutexT3, Alone
  <2>4. BarrierT3
    BY <2>1, <2>2, <1>1 DEF BarrierT3
  <2> QED BY <2>3, <2>4 DEF InvT3
<1> QED BY <1>1, <1>11, <1>12, <1>13 DEF IInv

LEMMA Inductive ==
  ASSUME ~Early
  PROVE  IInv /\ [Next]_vars => IInv'
<1> SUFFICES ASSUME IInv, [Next]_vars PROVE IInv'
  OBVIOUS
<1>1. CASE UNCHANGED vars
  <2>1. Common'
    BY <1>1 DEF vars, seen, IInv, Common, Types, SeenTypeOK, QTypes, Placed, Ends, Counted,
                InBarrier, Balanced, Gate, Served, Awoken
  <2>2. InvC => InvC'
    BY <1>1 DEF vars, seen, InvC, MutexC, BarrierC, Awoken
  <2>3. InvT3 => InvT3'
    BY <1>1 DEF vars, seen, InvT3, MutexT3, BarrierT3, Alone, Awoken
  <2>4. impl' = impl
    BY <1>1 DEF vars
  <2> QED BY <2>1, <2>2, <2>3, <2>4 DEF IInv
<1>2. CASE Next
  <2>1. impl' = impl
    BY <1>2 DEF Next
  <2>2. CASE impl = "c"
    <3>1. C!Next
      BY <1>2, <2>2 DEF Next
    <3>2. Common' /\ InvC'
      BY <2>2, <3>1, StepC DEF IInv
    <3> QED BY <2>1, <2>2, <3>2 DEF IInv
  <2>3. CASE impl = "t3"
    <3>1. T3!Next
      BY <1>2, <2>3 DEF Next
    <3>2. Common' /\ InvT3'
      BY <2>3, <3>1, StepT3 DEF IInv
    <3> QED BY <2>1, <2>3, <3>2 DEF IInv
  <2> QED BY <2>2, <2>3 DEF IInv
<1> QED BY <1>1, <1>2

-----------------------------------------------------------------------------
(* What the invariant says of the contract.                                *)

LEMMA TypesAre == IInv => TypeOK
<1> SUFFICES ASSUME IInv PROVE TypeOK
  OBVIOUS
<1>1. CASE impl = "c"
  <2>1. C!TypeOK
    BY <1>1 DEF IInv, InvC, MutexC, Common, Types, QTypes, Ops, SeenTypeOK, C!TypeOK,
                C!SeenTypeOK, C!Objects, Objects
  <2> QED BY <1>1, <2>1 DEF TypeOK
<1>2. CASE impl = "t3"
  <2>1. T3!TypeOK
    BY <1>2 DEF IInv, InvT3, MutexT3, Alone, Common, Types, QTypes, Ops, SeenTypeOK, T3!TypeOK,
                T3!SeenTypeOK, T3!Objects, Objects
  <2> QED BY <1>2, <2>1 DEF TypeOK
<1> QED BY <1>1, <1>2 DEF IInv

\* FiniteSets, instantiated with the backends, counts as it does here.
LEMMA SameCount == \A S : C!Cardinality(S) = Cardinality(S) /\ T3!Cardinality(S) = Cardinality(S)
BY DEF C!Cardinality, T3!Cardinality, Cardinality

LEMMA NobodyStranded == IInv => NoStrandedWaiter
<1> SUFFICES ASSUME IInv PROVE NoStrandedWaiter
  OBVIOUS
<1>1. \A o : C!Woken(o) = Awoken(o) /\ T3!Woken(o) = Awoken(o)
  BY DEF C!Woken, T3!Woken, Awoken, C!Range, T3!Range, Range
<1>2. /\ C!Woken("mutex") = Awoken("mutex") /\ T3!Woken("mutex") = Awoken("mutex")
      /\ C!Woken("semaphore") = Awoken("semaphore") /\ T3!Woken("semaphore") = Awoken("semaphore")
      /\ C!Woken("barrier") = Awoken("barrier") /\ T3!Woken("barrier") = Awoken("barrier")
  BY <1>1
<1>3. /\ waiters["semaphore"] # <<>> => permits <= Cardinality(Awoken("semaphore"))
      /\ waiters["barrier"] # <<>> => releases <= Cardinality(Awoken("barrier"))
  BY DEF IInv, Common, Served
<1>4. CASE impl = "c"
  <2>1. waiters["mutex"] # <<>> => held \/ Awoken("mutex") # {}
    BY <1>4 DEF IInv, InvC, MutexC
  <2>2. waiters["mutex"] # <<>> => held \/ C!Woken("mutex") # {}
    BY <1>2, <2>1
  <2>3. waiters["semaphore"] # <<>> => permits <= C!Cardinality(C!Woken("semaphore"))
    BY <1>2, <1>3, SameCount
  <2>4. waiters["barrier"] # <<>> => releases <= C!Cardinality(C!Woken("barrier"))
    BY <1>2, <1>3, SameCount
  <2>5. C!NoStrandedWaiter
    BY <2>2, <2>3, <2>4 DEF C!NoStrandedWaiter
  <2> QED BY <1>4, <2>5 DEF NoStrandedWaiter
<1>5. CASE impl = "t3"
  <2>1. waiters["mutex"] # <<>> => holder # T3!Nobody \/ Awoken("mutex") # {}
    BY <1>5 DEF IInv, InvT3, MutexT3
  <2>2. waiters["mutex"] # <<>> => holder # T3!Nobody \/ T3!Woken("mutex") # {}
    BY <1>2, <2>1
  <2>3. waiters["semaphore"] # <<>> => permits <= T3!Cardinality(T3!Woken("semaphore"))
    BY <1>2, <1>3, SameCount
  <2>4. waiters["barrier"] # <<>> => releases <= T3!Cardinality(T3!Woken("barrier"))
    BY <1>2, <1>3, SameCount
  <2>5. T3!NoStrandedWaiter
    BY <2>2, <2>3, <2>4 DEF T3!NoStrandedWaiter
  <2> QED BY <1>5, <2>5 DEF NoStrandedWaiter
<1> QED BY <1>4, <1>5 DEF IInv

LEMMA Excluded == IInv => MutualExclusion /\ AtMostPermits
<1> SUFFICES ASSUME IInv PROVE MutualExclusion /\ AtMostPermits
  OBVIOUS
<1>1. \A t, u \in holders : t = u
  BY DEF IInv, InvC, MutexC, InvT3, MutexT3
<1>2. MutualExclusion
  <2>1. CASE holders = {}
    BY <2>1, FS_EmptySet DEF MutualExclusion
  <2>2. CASE holders # {}
    <3>1. PICK t \in holders : TRUE
      BY <2>2
    <3>2. holders = {t}
      BY <3>1, <1>1
    <3>3. Cardinality({t}) = 1
      BY FS_Singleton
    <3> QED BY <3>2, <3>3 DEF MutualExclusion
  <2> QED BY <2>1, <2>2
<1>3. AtMostPermits
  <2>1. permits \in Nat /\ Total(taken) \in Nat /\ permits + Total(taken) = Permits
    BY CountTypes DEF IInv, Common, Types, Balanced
  <2> QED BY <2>1, SyncAssumption DEF AtMostPermits
<1> QED BY <1>2, <1>3

LEMMA Proportions == IInv => NoneTooMany
<1> SUFFICES ASSUME IInv PROVE NoneTooMany
  OBVIOUS
<1>1. /\ Total(begun) \in Nat /\ Total(passed) \in Nat /\ IsFiniteSet(InBarrier)
      /\ Cardinality(InBarrier) \in Nat
  BY CountTypes DEF IInv, Common, Types
<1>2. /\ leads \in Nat /\ releases \in Nat /\ arrived \in Nat
      /\ Parties \in Nat /\ Parties * leads \in Nat
  BY SyncAssumption DEF IInv, Common, Types, SeenTypeOK
<1>3. /\ Total(begun) = Total(passed) + Cardinality(InBarrier)
      /\ Total(passed) + releases = Parties * leads
  BY DEF IInv, Common, Counted, Gate
<1>4. CASE impl = "c"
  <2>1. Total(begun) = Parties * leads + arrived
    BY <1>4 DEF IInv, InvC, BarrierC
  <2> QED BY <2>1, <1>1, <1>2, <1>3 DEF NoneTooMany
<1>5. CASE impl = "t3"
  <2>1. releases <= Cardinality(Awoken("barrier"))
    BY <1>5 DEF IInv, InvT3, BarrierT3
  <2>2. Awoken("barrier") \subseteq InBarrier
    BY OfMembers DEF Awoken, InBarrier, IInv, Common, Types, QTypes
  <2>3. /\ Cardinality(Awoken("barrier")) <= Cardinality(InBarrier)
        /\ Cardinality(Awoken("barrier")) \in Nat
    BY <2>2, <1>1, FS_Subset, FS_CardinalityType
  <2> QED BY <2>1, <2>3, <1>1, <1>2, <1>3 DEF NoneTooMany
<1> QED BY <1>4, <1>5 DEF IInv

LEMMA Quotient ==
  ASSUME NEW p \in Nat \ {0}, NEW l \in Nat, NEW r \in 0..(p - 1)
  PROVE  (p * l + r) \div p = l
OBVIOUS


\* When the program is over no release is left, and the waits that have begun are
\* the full rounds and less than one round more.
LEMMA AtTheEnd ==
  ASSUME IInv, outcome # "running"
  PROVE  /\ releases = 0
         /\ Total(passed) = Parties * leads
         /\ \E r \in 0..(Parties - 1) : Total(begun) = Parties * leads + r
<1>1. /\ Total(begun) \in Nat /\ Total(passed) \in Nat
      /\ leads \in Nat /\ releases \in Nat /\ arrived \in 0..(Parties - 1)
      /\ Parties \in Nat /\ Parties * leads \in Nat
  BY CountTypes, SyncAssumption DEF IInv, Common, Types, SeenTypeOK
<1>2. /\ Total(begun) = Total(passed) + Cardinality(InBarrier)
      /\ Total(passed) + releases = Parties * leads
  BY DEF IInv, Common, Counted, Gate
<1>3. run = <<>> /\ Range(run) = {}
  <2>1. run = <<>>
    BY DEF IInv, Common, Ends
  <2> QED BY <2>1, OfEmpty
<1>4. Cardinality(Awoken("barrier")) = 0
  <2>1. Awoken("barrier") = {}
    BY <1>3 DEF Awoken
  <2> QED BY <2>1, FS_EmptySet
<1>5. InBarrier = Range(waiters["barrier"])
  <2>1. InBarrier \subseteq Range(waiters["barrier"])
    BY <1>3 DEF InBarrier, IInv, Common, Placed
  <2>2. Range(waiters["barrier"]) \subseteq InBarrier
    BY OfMembers DEF InBarrier, IInv, Common, Types, QTypes, Placed, Objects
  <2> QED BY <2>1, <2>2
<1>6. Cardinality(InBarrier) = Len(waiters["barrier"])
  BY <1>5, OfLength DEF IInv, Common, Types, QTypes, Placed, Objects
<1>7. CASE impl = "c"
  <2>1. Total(begun) = Parties * leads + arrived /\ arrived + releases < Parties
    BY <1>7 DEF IInv, InvC, BarrierC
  <2>2. CASE waiters["barrier"] # <<>>
    <3>1. releases = 0
      BY <2>2, <1>1, <1>4 DEF IInv, Common, Served
    <3> QED BY <3>1, <2>1, <1>1, <1>2
  <2>3. CASE waiters["barrier"] = <<>>
    <3>1. Cardinality(InBarrier) = 0
      BY <2>3, <1>6
    <3>2. releases = 0
      BY <3>1, <2>1, <1>1, <1>2
    <3> QED BY <3>2, <2>1, <1>1, <1>2
  <2> QED BY <2>2, <2>3
<1>8. CASE impl = "t3"
  <2>1. arrived = Cardinality(InBarrier) /\ releases <= 0
    BY <1>4, <1>6, <1>8 DEF IInv, InvT3, BarrierT3
  <2>2. releases = 0
    BY <2>1, <1>1
  <2> QED BY <2>1, <2>2, <1>1, <1>2
<1> QED BY <1>7, <1>8 DEF IInv

LEMMA RoundsAre ==
  ASSUME IInv, outcome # "running"
  PROVE  OneLeader /\ AllReleased
<1>1. PICK r \in 0..(Parties - 1) : Total(begun) = Parties * leads + r
  BY AtTheEnd
<1>2. leads \in Nat /\ Parties \in Nat \ {0}
  BY SyncAssumption DEF IInv, Common, Types, SeenTypeOK
<1>3. Total(begun) \div Parties = leads
  BY <1>1, <1>2, Quotient
<1> QED BY <1>3, AtTheEnd DEF OneLeader, AllReleased

\* A task that is past its only wait is past the gate of a round.
LEMMA OnlyPast ==
  ASSUME IInv, Rounds <= 1
  PROVE  HoldsBack
<1> SUFFICES ASSUME NEW t \in Tasks PROVE Parties * passed[t] <= Total(begun)
  BY DEF HoldsBack
<1>1. /\ Total(begun) \in Nat /\ Total(passed) \in Nat /\ leads \in Nat /\ releases \in Nat
      /\ Parties \in Nat /\ Rounds \in Nat /\ passed[t] \in 0..Rounds
      /\ passed \in [Tasks -> Nat]
  BY CountTypes, SyncAssumption DEF IInv, Common, Types, SeenTypeOK
<1>2. passed[t] = 0 \/ passed[t] = 1
  BY <1>1
<1>3. CASE passed[t] = 0
  BY <1>1, <1>3
<1>4. CASE passed[t] = 1
  <2>1. Total(passed) > 0
    BY <1>1, <1>4, TotalSome
  <2>2. Total(passed) + releases = Parties * leads /\ Parties * leads <= Total(begun)
    BY Proportions DEF IInv, Common, Gate, NoneTooMany
  <2>3. leads # 0
    BY <2>1, <2>2, <1>1
  <2>4. leads - 1 \in Nat /\ (leads - 1) + 1 = leads
    BY <2>3, <1>1
  <2>5. Parties * leads = Parties * (leads - 1) + Parties /\ Parties * (leads - 1) \in Nat
    BY <2>4, <1>1, GateArithmetic
  <2>6. Parties <= Total(begun)
    BY <2>2, <2>5, <1>1
  <2> QED BY <2>6, <1>1, <1>4
<1> QED BY <1>2, <1>3, <1>4

-----------------------------------------------------------------------------
(* The theorems.                                                           *)

\* The inductive invariant of both backends: a task is in R or waits in exactly
\* one queue, every wait and every permit is accounted for, and no more is there
\* for the taking than there are tasks woken to take it.
THEOREM Accounted ==
  ASSUME ~Early
  PROVE  Spec => []IInv
<1>1. Init => IInv
  BY Initially
<1>2. IInv /\ [Next]_vars => IInv'
  BY Inductive
<1> QED BY <1>1, <1>2, PTL DEF Spec

\* sync.c and syscalls 109 to 121: a mutex or a semaphore whose unlock or release
\* wakes one leaves nobody asleep on what is free, and neither does the barrier's
\* gate, although another task may take it before the one that was woken.
THEOREM NobodyIsStranded ==
  ASSUME ~Early
  PROVE  Spec => []NoStrandedWaiter
<1>1. IInv => NoStrandedWaiter
  BY NobodyStranded
<1> QED BY <1>1, Accounted, PTL

\* A barrier lets no wait through beyond its complete rounds, and when the
\* program is over each of them has had one leader and let all its parties
\* through, however often a task waits.
THEOREM RoundsAreWhole ==
  ASSUME ~Early
  PROVE  Spec => []RoundsWhole
<1>1. IInv => RoundsWhole
  BY TypesAre, Proportions, RoundsAre DEF RoundsWhole
<1> QED BY <1>1, Accounted, PTL

\* A mutex has one holder at most, and a semaphore no more than its permits.
THEOREM HoldersAreFew ==
  ASSUME ~Early
  PROVE  Spec => [](MutualExclusion /\ AtMostPermits)
<1>1. IInv => MutualExclusion /\ AtMostPermits
  BY Excluded
<1> QED BY <1>1, Accounted, PTL

\* Where no task waits twice on the barrier the whole contract is kept: nobody
\* is past it before all its parties have come.
THEOREM ContractKept ==
  ASSUME ~Early, Rounds <= 1
  PROVE  Spec => []KeepsContract
<1>1. IInv => KeepsContract
  BY Excluded, OnlyPast DEF KeepsContract
<1> QED BY <1>1, Accounted, PTL

-----------------------------------------------------------------------------
(* Around the ring of a channel.                                           *)

\* One lap around a ring of n slots.
LEMMA Wrap ==
  ASSUME NEW n \in Nat \ {0}, NEW x \in Nat, x < 2 * n
  PROVE  x % n = IF x < n THEN x ELSE x - n
OBVIOUS

LEMMA Wrapped ==
  ASSUME NEW n \in Nat \ {0}, NEW x \in Nat
  PROVE  x % n \in 0..(n - 1)
OBVIOUS

\* At most one lap from a slot.
LEMMA Around ==
  ASSUME NEW n \in Nat \ {0}, NEW a \in 0..(n - 1), NEW b \in 0..n
  PROVE  /\ (a + b) % n = IF a + b < n THEN a + b ELSE a + b - n
         /\ (a + b) % n \in 0..(n - 1)
<1> DEFINE x == a + b
<1>1. x \in Nat /\ x < 2 * n
  OBVIOUS
<1> HIDE DEF x
<1>2. x % n = (IF x < n THEN x ELSE x - n) /\ x % n \in 0..(n - 1)
  BY <1>1, Wrap, Wrapped
<1> QED BY <1>2 DEF x

LEMMA OneOn ==
  ASSUME NEW n \in Nat \ {0}, NEW a \in 0..(n - 1)
  PROVE  /\ (a + 1) % n = IF a + 1 < n THEN a + 1 ELSE 0
         /\ (a + 1) % n \in 0..(n - 1)
<1>1. 1 \in 0..n
  OBVIOUS
<1>2. /\ (a + 1) % n = IF a + 1 < n THEN a + 1 ELSE a + 1 - n
      /\ (a + 1) % n \in 0..(n - 1)
  BY <1>1, Around
<1>3. a + 1 < n \/ a + 1 - n = 0
  OBVIOUS
<1> QED BY <1>2, <1>3

\* The slot i places after the head.
Slot(i) == IF head + i < capacity THEN head + i ELSE head + i - capacity

LEMMA SlotIs ==
  ASSUME RingTypeOK, count <= capacity, NEW i \in 0..count
  PROVE  (head + i) % capacity = Slot(i)
<1>1. i \in 0..capacity
  BY DEF RingTypeOK
<1> QED BY <1>1, Around DEF RingTypeOK, Slot

-----------------------------------------------------------------------------
(* The ring stays intact.                                                  *)

LEMMA Initial == RingInit => RingIntact
<1> SUFFICES ASSUME RingInit PROVE RingIntact
  OBVIOUS
<1>1. capacity \in Nat \ {0} /\ bounded \in BOOLEAN
  BY RingAssumption DEF RingInit
<1>2. RingTypeOK
  <2>1. buffer \in [0..(capacity - 1) -> Vals \cup {Garbage}]
    BY DEF RingInit
  <2>2. /\ count = 0 /\ head = 0 /\ tail = 0 /\ got = 0
    BY DEF RingInit
  <2>3. closed \in BOOLEAN /\ fault \in BOOLEAN
    BY DEF RingInit
  <2>4. 0 \in 0..(capacity - 1)
    BY <1>1
  <2> QED BY <1>1, <2>1, <2>2, <2>3, <2>4 DEF RingTypeOK
<1>3. tail = (head + count) % capacity
  <2>1. (0 + 0) % capacity = 0
    BY <1>1, Around
  <2> QED BY <2>1 DEF RingInit
<1>4. count = 0
  BY DEF RingInit
<1> QED BY <1>1, <1>2, <1>3, <1>4 DEF RingIntact

\* A ring with a free slot, after v has been put where its tail points.
LEMMA SendIntact ==
  ASSUME ~MallocMayFail, RingIntact, NEW v \in Vals, Send(v)
  PROVE  RingIntact'
<1>1. PICK r \in AfterGrowing :
        /\ buffer' = [r.buffer EXCEPT ![r.tail] = v]
        /\ tail' = (r.tail + 1) % r.capacity
        /\ head' = r.head /\ capacity' = r.capacity
  BY DEF Send
<1>2. /\ count' = count + 1 /\ ~(bounded /\ Full)
      /\ UNCHANGED <<bounded, closed, fault, got>>
  BY DEF Send
<1>3. /\ RingTypeOK /\ count <= capacity /\ tail = (head + count) % capacity
      /\ \A i \in 0..(count - 1) : buffer[(head + i) % capacity] # Garbage
  BY DEF RingIntact
<1>v. v # Garbage
  BY RingAssumption
<1>4. CASE bounded \/ ~Full
  <2>1. r = Same /\ count < capacity
    BY <1>2, <1>3, <1>4 DEF AfterGrowing, Full, RingTypeOK
  <2>2. /\ buffer' = [buffer EXCEPT ![tail] = v] /\ tail' = (tail + 1) % capacity
        /\ head' = head /\ capacity' = capacity
    BY <1>1, <2>1 DEF Same
  <2>3. tail' \in 0..(capacity - 1)
    BY <1>3, <2>2, OneOn DEF RingTypeOK
  <2>4. RingTypeOK'
    BY <1>2, <1>3, <2>2, <2>3 DEF RingTypeOK
  <2>5. count' <= capacity'
    BY <1>2, <1>3, <2>1, <2>2 DEF RingTypeOK
  <2>6. tail' = (head' + count') % capacity'
    <3>1. tail = IF head + count < capacity THEN head + count ELSE head + count - capacity
      BY <1>3, <2>1, SlotIs DEF Slot, RingTypeOK
    <3>2. (tail + 1) % capacity = IF tail + 1 < capacity THEN tail + 1 ELSE 0
      BY <1>3, OneOn DEF RingTypeOK
    <3>3. (head + (count + 1)) % capacity =
            IF head + (count + 1) < capacity THEN head + (count + 1)
            ELSE head + (count + 1) - capacity
      <4>1. count + 1 \in 0..capacity
        BY <1>3, <2>1 DEF RingTypeOK
      <4> QED BY <4>1, <1>3, Around DEF RingTypeOK
    <3> QED BY <1>2, <1>3, <2>1, <2>2, <3>1, <3>2, <3>3 DEF RingTypeOK
  <2>7. ASSUME NEW i \in 0..(count' - 1) PROVE buffer'[(head' + i) % capacity'] # Garbage
    <3>1. (head + i) % capacity \in 0..(capacity - 1)
      <4>1. i \in 0..capacity
        BY <1>2, <1>3, <2>1 DEF RingTypeOK
      <4> QED BY <4>1, <1>3, Around DEF RingTypeOK
    <3>2. CASE i = count
      BY <3>1, <3>2, <1>3, <1>v, <2>2 DEF RingTypeOK
    <3>3. CASE i # count
      <4>1. buffer[(head + i) % capacity] # Garbage
        <5>1. i \in 0..(count - 1)
          BY <3>3, <1>2, <1>3 DEF RingTypeOK
        <5> QED BY <5>1, <1>3
      <4> QED BY <3>1, <4>1, <1>3, <1>v, <2>2 DEF RingTypeOK
    <3> QED BY <3>2, <3>3
  <2> QED BY <2>4, <2>5, <2>6, <2>7 DEF RingIntact
<1>5. CASE ~bounded /\ Full
  <2>1. r = Grown /\ count = capacity
    BY <1>5 DEF AfterGrowing, Full
  <2>2. /\ buffer' = [[i \in 0..(2 * capacity - 1) |->
                        IF i < count THEN buffer[(head + i) % capacity] ELSE Garbage]
                      EXCEPT ![count] = v]
        /\ tail' = (count + 1) % (2 * capacity)
        /\ head' = 0 /\ capacity' = 2 * capacity
    BY <1>1, <2>1 DEF Grown
  <2>3. capacity' \in Nat \ {0} /\ count \in 0..(capacity' - 1) /\ count + 1 <= capacity'
    BY <2>1, <2>2, <1>3 DEF RingTypeOK
  <2>4. ASSUME NEW i \in 0..(count - 1)
        PROVE  buffer[(head + i) % capacity] \in Vals
    <3>1. (head + i) % capacity \in 0..(capacity - 1)
      <4>1. i \in 0..capacity
        BY <1>3 DEF RingTypeOK
      <4> QED BY <4>1, <1>3, Around DEF RingTypeOK
    <3> QED BY <3>1, <1>3 DEF RingTypeOK
  <2>5. buffer' \in [0..(capacity' - 1) -> Vals \cup {Garbage}]
    <3>1. \A i \in 0..(2 * capacity - 1) :
            (IF i < count THEN buffer[(head + i) % capacity] ELSE Garbage) \in Vals \cup {Garbage}
      BY <2>4, <1>3 DEF RingTypeOK
    <3> QED BY <3>1, <2>2
  <2>6. tail' = (head' + count') % capacity' /\ tail' \in 0..(capacity' - 1)
    <3>1. 0 + count' = count + 1 /\ count' \in Nat
      BY <1>2, <1>3 DEF RingTypeOK
    <3>2. count' % capacity' \in 0..(capacity' - 1)
      BY <3>1, <2>3, Wrapped
    <3> QED BY <3>1, <3>2, <2>2
  <2>7. RingTypeOK'
    BY <1>2, <1>3, <2>2, <2>3, <2>5, <2>6 DEF RingTypeOK
  <2>8. ASSUME NEW i \in 0..(count' - 1) PROVE buffer'[(head' + i) % capacity'] # Garbage
    <3>1. (head' + i) % capacity' = i
      <4>1. i \in 0..capacity' /\ i < capacity' /\ 0 \in 0..(capacity' - 1)
        BY <1>2, <1>3, <2>2, <2>3 DEF RingTypeOK
      <4>2. (0 + i) % capacity' = IF 0 + i < capacity' THEN 0 + i ELSE 0 + i - capacity'
        BY <4>1, <2>3, Around
      <4> QED BY <4>1, <4>2, <2>2
    <3>2. buffer'[i] = IF i = count THEN v ELSE buffer[(head + i) % capacity]
      BY <1>2, <1>3, <2>2, <2>3 DEF RingTypeOK
    <3> QED BY <3>1, <3>2, <1>2, <1>3, <1>v DEF RingTypeOK
  <2> QED BY <1>2, <2>3, <2>6, <2>7, <2>8 DEF RingIntact
<1> QED BY <1>4, <1>5

LEMMA RecvIntact ==
  ASSUME RingIntact, Recv
  PROVE  RingIntact'
<1>1. /\ RingTypeOK /\ count <= capacity /\ tail = (head + count) % capacity
      /\ \A i \in 0..(count - 1) : buffer[(head + i) % capacity] # Garbage
  BY DEF RingIntact
<1>2. /\ count > 0 /\ got' = buffer[head]
      /\ head' = (head + 1) % capacity /\ count' = count - 1
      /\ UNCHANGED <<buffer, capacity, tail, bounded, closed, fault>>
  BY DEF Recv
<1>3. head' \in 0..(capacity - 1)
  BY <1>1, <1>2, Wrapped DEF RingTypeOK
<1>4. \A i \in 0..count' : (head' + i) % capacity = (head + (i + 1)) % capacity
  <2> SUFFICES ASSUME NEW i \in 0..count'
               PROVE  (head' + i) % capacity = (head + (i + 1)) % capacity
    OBVIOUS
  <2>1. head' = IF head + 1 < capacity THEN head + 1 ELSE 0
    BY <1>1, <1>2, OneOn DEF RingTypeOK
  <2>2. (head + (i + 1)) % capacity =
          IF head + (i + 1) < capacity THEN head + (i + 1) ELSE head + (i + 1) - capacity
    <3>1. i + 1 \in 0..capacity
      BY <1>1, <1>2 DEF RingTypeOK
    <3> QED BY <3>1, <1>1, Around DEF RingTypeOK
  <2>3. (head' + i) % capacity = IF head' + i < capacity THEN head' + i ELSE head' + i - capacity
    <3>1. i \in 0..capacity
      BY <1>1, <1>2 DEF RingTypeOK
    <3> QED BY <3>1, <1>1, <1>3, Around DEF RingTypeOK
  <2> QED BY <1>1, <1>2, <2>1, <2>2, <2>3 DEF RingTypeOK
<1>5. got' \in Vals
  <2>1. (head + 0) % capacity = head
    <3>1. 0 \in 0..capacity /\ head + 0 = head /\ head < capacity
      BY <1>1 DEF RingTypeOK
    <3>2. (head + 0) % capacity = IF head + 0 < capacity THEN head + 0 ELSE head + 0 - capacity
      BY <1>1, <3>1, Around DEF RingTypeOK
    <3> QED BY <3>1, <3>2
  <2>2. 0 \in 0..(count - 1)
    BY <1>1, <1>2 DEF RingTypeOK
  <2>3. buffer[head] # Garbage
    BY <2>1, <2>2, <1>1
  <2> QED BY <2>3, <1>1, <1>2 DEF RingTypeOK
<1>6. RingTypeOK'
  BY <1>1, <1>2, <1>3, <1>5 DEF RingTypeOK
<1>7. tail' = (head' + count') % capacity'
  <2>1. count' \in 0..count' /\ count' + 1 = count
    BY <1>1, <1>2 DEF RingTypeOK
  <2> QED BY <2>1, <1>1, <1>2, <1>4
<1>8. ASSUME NEW i \in 0..(count' - 1) PROVE buffer'[(head' + i) % capacity'] # Garbage
  <2>1. i + 1 \in 0..(count - 1) /\ i \in 0..count'
    BY <1>1, <1>2 DEF RingTypeOK
  <2> QED BY <2>1, <1>1, <1>2, <1>4
<1>9. count' <= capacity'
  BY <1>1, <1>2 DEF RingTypeOK
<1> QED BY <1>6, <1>7, <1>8, <1>9 DEF RingIntact

LEMMA RingInductive ==
  ASSUME ~MallocMayFail, RingIntact, [RingNext]_ringVars
  PROVE  RingIntact'
<1>1. CASE UNCHANGED ringVars
  BY <1>1 DEF ringVars, ring, RingIntact, RingTypeOK
<1>2. CASE SendClosed \/ RecvClosed \/ Close
  BY <1>2 DEF SendClosed, RecvClosed, Close, ring, RingIntact, RingTypeOK
<1> QED BY <1>1, <1>2, SendIntact, RecvIntact DEF RingNext

\* While malloc succeeds, the queued values occupy distinct written slots and the
\* next send's slot lies just past them, whatever the capacity.
THEOREM RingStaysIntact ==
  ASSUME ~MallocMayFail
  PROVE  RingSpec => []RingIntact
BY Initial, RingInductive, PTL DEF RingSpec

-----------------------------------------------------------------------------
(* The ring implements a queue.                                            *)

Items == [i \in 1..count |-> buffer[(head + i - 1) % capacity]]
Bound == IF bounded THEN capacity ELSE 0

InOrder ==
  /\ Items \in Seq(Vals) /\ Len(Items) = count
  /\ \A i \in 1..count : Items[i] = buffer[(head + (i - 1)) % capacity]

LEMMA ItemsAre == RingIntact => InOrder
<1> SUFFICES ASSUME RingIntact PROVE InOrder
  OBVIOUS
<1>1. /\ RingTypeOK /\ count <= capacity
      /\ \A i \in 0..(count - 1) : buffer[(head + i) % capacity] # Garbage
  BY DEF RingIntact
<1>2. ASSUME NEW i \in 1..count
      PROVE  /\ Items[i] = buffer[(head + (i - 1)) % capacity]
             /\ buffer[(head + i - 1) % capacity] \in Vals
  <2>1. head + i - 1 = head + (i - 1) /\ i - 1 \in 0..capacity /\ i - 1 \in 0..(count - 1)
    BY <1>1 DEF RingTypeOK
  <2>2. (head + (i - 1)) % capacity \in 0..(capacity - 1)
    BY <2>1, <1>1, Around DEF RingTypeOK
  <2>3. buffer[(head + (i - 1)) % capacity] \in Vals
    BY <2>1, <2>2, <1>1 DEF RingTypeOK
  <2> QED BY <2>1, <2>3 DEF Items
<1>3. Items \in [1..count -> Vals]
  BY <1>2 DEF Items
<1>4. count \in Nat
  BY <1>1 DEF RingTypeOK
<1>5. Items \in Seq(Vals) /\ Len(Items) = count
  BY <1>3, <1>4
<1> QED BY <1>2, <1>5 DEF InOrder

LEMMA ItemsStay == RingIntact' => InOrder'
BY ItemsAre, PTL

\* A send appends its value, whether or not the ring had to grow.
LEMMA SendPuts ==
  ASSUME ~MallocMayFail, RingIntact, RingIntact', NEW v \in Vals, Send(v)
  PROVE  /\ Items' = Append(Items, v) /\ Bound' = Bound /\ got' = got
         /\ Bound = 0 \/ Len(Items) < Bound
<1>1. PICK r \in AfterGrowing :
        /\ buffer' = [r.buffer EXCEPT ![r.tail] = v]
        /\ tail' = (r.tail + 1) % r.capacity
        /\ head' = r.head /\ capacity' = r.capacity
  BY DEF Send
<1>2. /\ count' = count + 1 /\ ~(bounded /\ Full)
      /\ UNCHANGED <<bounded, closed, fault, got>>
  BY DEF Send
<1>3. /\ RingTypeOK /\ count <= capacity /\ tail = (head + count) % capacity
  BY DEF RingIntact
<1>4. /\ Items \in Seq(Vals) /\ Len(Items) = count
      /\ \A i \in 1..count : Items[i] = buffer[(head + (i - 1)) % capacity]
  BY ItemsAre DEF InOrder
<1>5. /\ Items' \in Seq(Vals) /\ Len(Items') = count'
      /\ \A i \in 1..count' : Items'[i] = buffer'[(head' + (i - 1)) % capacity']
  BY ItemsStay DEF InOrder
<1>6. \A i \in 1..count' : Items'[i] = IF i = count + 1 THEN v ELSE Items[i]
  <2> SUFFICES ASSUME NEW i \in 1..count'
               PROVE  buffer'[(head' + (i - 1)) % capacity'] =
                        IF i = count + 1 THEN v ELSE buffer[(head + (i - 1)) % capacity]
    <3> SUFFICES ASSUME NEW i \in 1..count'
                 PROVE  Items'[i] = IF i = count + 1 THEN v ELSE Items[i]
      OBVIOUS
    <3>1. i = count + 1 \/ i \in 1..count
      BY <1>2, <1>3 DEF RingTypeOK
    <3>2. /\ Items'[i] = buffer'[(head' + (i - 1)) % capacity']
          /\ i \in 1..count => Items[i] = buffer[(head + (i - 1)) % capacity]
      BY <1>4, <1>5
    <3> HIDE DEF Items
    <3> QED BY <3>1, <3>2
  <2>1. i - 1 \in 0..count /\ i - 1 \in 0..capacity
    BY <1>2, <1>3 DEF RingTypeOK
  <2>a. /\ (head + (i - 1)) % capacity =
             IF head + (i - 1) < capacity THEN head + (i - 1) ELSE head + (i - 1) - capacity
        /\ (head + (i - 1)) % capacity \in 0..(capacity - 1)
    BY <2>1, <1>3, Around DEF RingTypeOK
  <2>2. CASE bounded \/ ~Full
    <3>1. r = Same /\ count < capacity
      BY <1>2, <1>3, <2>2 DEF AfterGrowing, Full, RingTypeOK
    <3>2. /\ buffer' = [buffer EXCEPT ![tail] = v]
          /\ head' = head /\ capacity' = capacity
      BY <1>1, <3>1 DEF Same
    <3>3. tail = IF head + count < capacity THEN head + count ELSE head + count - capacity
      BY <1>3, <3>1, SlotIs DEF Slot, RingTypeOK
    <3>4. i = count + 1 <=> (head + (i - 1)) % capacity = tail
      BY <2>1, <2>a, <3>1, <3>3, <1>3 DEF RingTypeOK
    <3> QED BY <2>a, <3>2, <3>4, <1>3 DEF RingTypeOK
  <2>3. CASE ~bounded /\ Full
    <3>1. r = Grown /\ count = capacity
      BY <2>3 DEF AfterGrowing, Full
    <3>2. /\ buffer' = [[j \in 0..(2 * capacity - 1) |->
                          IF j < count THEN buffer[(head + j) % capacity] ELSE Garbage]
                        EXCEPT ![count] = v]
          /\ head' = 0 /\ capacity' = 2 * capacity
      BY <1>1, <3>1 DEF Grown
    <3>3. /\ i - 1 \in 0..(2 * capacity - 1) /\ i - 1 \in 0..(2 * capacity)
          /\ 0 \in 0..(2 * capacity - 1) /\ 2 * capacity \in Nat \ {0}
      BY <2>1, <3>1, <1>3 DEF RingTypeOK
    <3>4. (0 + (i - 1)) % (2 * capacity) = i - 1
      <4> DEFINE n == 2 * capacity
                 j == i - 1
      <4>1. n \in Nat \ {0} /\ j \in 0..(n - 1) /\ j \in 0..n /\ 0 \in 0..(n - 1)
        BY <3>3
      <4> HIDE DEF n, j
      <4>2. (0 + j) % n = IF 0 + j < n THEN 0 + j ELSE 0 + j - n
        BY <4>1, Around
      <4>3. (0 + j) % n = j
        BY <4>1, <4>2
      <4> QED BY <4>3 DEF n, j
    <3>5. buffer'[i - 1] = IF i - 1 = count THEN v ELSE buffer[(head + (i - 1)) % capacity]
      BY <2>1, <3>2, <3>3, <1>3 DEF RingTypeOK
    <3> QED BY <3>2, <3>4, <3>5, <1>3, <2>1 DEF RingTypeOK
  <2> QED BY <2>2, <2>3
<1>7. Items' = Append(Items, v)
  <2>1. /\ Append(Items, v) \in Seq(Vals) /\ Len(Append(Items, v)) = count + 1
        /\ \A i \in 1..count : Append(Items, v)[i] = Items[i]
        /\ Append(Items, v)[count + 1] = v
    BY <1>4, AppendProperties
  <2>2. \A i \in 1..Len(Items') : Items'[i] = Append(Items, v)[i]
    BY <2>1, <1>2, <1>3, <1>5, <1>6 DEF RingTypeOK
  <2> HIDE DEF Items
  <2> QED BY <2>1, <2>2, <1>2, <1>5, SeqEqual
<1>8. Bound' = Bound
  BY <1>1, <1>2 DEF AfterGrowing, Same, Bound
<1>9. Bound = 0 \/ Len(Items) < Bound
  BY <1>2, <1>3, <1>4 DEF Bound, Full, RingTypeOK
<1> QED BY <1>2, <1>7, <1>8, <1>9

\* A receive answers the oldest value and removes it.
LEMMA RecvTakes ==
  ASSUME RingIntact, RingIntact', Recv
  PROVE  /\ Items # <<>> /\ got' = Head(Items) /\ Items' = Tail(Items)
         /\ Bound' = Bound
<1>1. /\ RingTypeOK /\ count <= capacity
  BY DEF RingIntact
<1>2. /\ count > 0 /\ got' = buffer[head]
      /\ head' = (head + 1) % capacity /\ count' = count - 1
      /\ UNCHANGED <<buffer, capacity, tail, bounded, closed, fault>>
  BY DEF Recv
<1>3. /\ Items \in Seq(Vals) /\ Len(Items) = count
      /\ \A i \in 1..count : Items[i] = buffer[(head + (i - 1)) % capacity]
  BY ItemsAre DEF InOrder
<1>4. /\ Items' \in Seq(Vals) /\ Len(Items') = count'
      /\ \A i \in 1..count' : Items'[i] = buffer'[(head' + (i - 1)) % capacity']
  BY ItemsStay DEF InOrder
<1>5. Items # <<>> /\ Head(Items) = buffer[head]
  <2>1. Items # <<>> /\ Head(Items) = Items[1]
    BY <1>2, <1>3, EmptySeq, HeadTailProperties
  <2>2. 1 \in 1..count /\ head + (1 - 1) = head + 0 /\ 0 \in 0..capacity
        /\ head + 0 = head /\ head < capacity
    BY <1>1, <1>2 DEF RingTypeOK
  <2>3. (head + 0) % capacity = IF head + 0 < capacity THEN head + 0 ELSE head + 0 - capacity
    BY <2>2, <1>1, Around DEF RingTypeOK
  <2> QED BY <2>1, <2>2, <2>3, <1>3
<1>6. ASSUME NEW i \in 1..count' PROVE Items'[i] = Items[i + 1]
  <2>1. /\ i - 1 \in 0..capacity /\ i \in 0..capacity /\ i + 1 \in 1..count
        /\ (i + 1) - 1 = i
    BY <1>1, <1>2 DEF RingTypeOK
  <2>2. /\ head' = IF head + 1 < capacity THEN head + 1 ELSE 0
        /\ head' \in 0..(capacity - 1)
    BY <1>1, <1>2, OneOn DEF RingTypeOK
  <2>3. (head + i) % capacity = IF head + i < capacity THEN head + i ELSE head + i - capacity
    BY <2>1, <1>1, Around DEF RingTypeOK
  <2>4. (head' + (i - 1)) % capacity =
          IF head' + (i - 1) < capacity THEN head' + (i - 1) ELSE head' + (i - 1) - capacity
    BY <2>1, <2>2, <1>1, Around DEF RingTypeOK
  <2>5. (head' + (i - 1)) % capacity = (head + i) % capacity
    BY <2>1, <2>2, <2>3, <2>4, <1>1, <1>2 DEF RingTypeOK
  <2> QED BY <2>1, <2>5, <1>2, <1>3, <1>4
<1>7. Items' = Tail(Items)
  <2>1. /\ Tail(Items) \in Seq(Vals) /\ Len(Tail(Items)) = count - 1
        /\ \A i \in 1..Len(Tail(Items)) : Tail(Items)[i] = Items[i + 1]
    BY <1>3, <1>5, HeadTailProperties
  <2> HIDE DEF Items
  <2> QED BY <2>1, <1>2, <1>4, <1>6, SeqEqual
<1>8. Bound' = Bound
  BY <1>2 DEF Bound
<1> QED BY <1>2, <1>5, <1>7, <1>8

LEMMA StepOfFifo ==
  ASSUME ~MallocMayFail, RingIntact, RingIntact', [RingNext]_ringVars
  PROVE  [Queue!Next /\ UNCHANGED Bound]_<<Bound, Items, got>>
<1>1. CASE UNCHANGED ringVars \/ SendClosed \/ Close
  BY <1>1 DEF ringVars, ring, SendClosed, Close, Bound, Items
<1>2. ASSUME NEW v \in Vals, Send(v)
      PROVE  [Queue!Next /\ UNCHANGED Bound]_<<Bound, Items, got>>
  <2>1. Queue!Put(v)
    BY <1>2, SendPuts DEF Queue!Put, Items, Bound
  <2> QED BY <1>2, <2>1, SendPuts DEF Queue!Next
<1>3. CASE Recv
  <2>1. Queue!Take
    BY <1>3, RecvTakes DEF Queue!Take, Items
  <2> QED BY <1>3, <2>1, RecvTakes DEF Queue!Next
<1>4. CASE RecvClosed
  <2>1. /\ count = 0 /\ got' = 0 /\ Items' = Items /\ Bound' = Bound
    BY <1>4 DEF RecvClosed, ring, Items, Bound
  <2>2. Items = <<>>
    BY <2>1, ItemsAre, EmptySeq DEF InOrder
  <2>3. Queue!Zero
    BY <2>1, <2>2 DEF Queue!Zero, Items
  <2> QED BY <2>1, <2>3 DEF Queue!Next
<1> QED BY <1>1, <1>2, <1>3, <1>4 DEF RingNext

\* While malloc succeeds, the ring implements a queue: the values come out in the
\* order they went in, each once, across wrapping and doubling, and a bounded
\* channel never holds more than its capacity.
THEOREM RingIsAQueue ==
  ASSUME ~MallocMayFail
  PROVE  RingSpec => ImplementsFifo
<1>1. RingInit => Queue!Init
  <2> SUFFICES ASSUME RingInit PROVE Queue!Init
    OBVIOUS
  <2>1. Bound \in Nat
    BY RingAssumption DEF RingInit, Bound
  <2>2. count = 0 /\ got = 0
    BY DEF RingInit
  <2>3. Items = <<>>
    BY <2>2, ItemsAre, Initial, EmptySeq DEF InOrder
  <2> QED BY <2>1, <2>2, <2>3 DEF Queue!Init, Items, Bound
<1>2. RingIntact /\ RingIntact' /\ [RingNext]_ringVars =>
        [Queue!Next /\ UNCHANGED Bound]_<<Bound, Items, got>>
  BY StepOfFifo
<1> QED BY <1>1, <1>2, RingStaysIntact, PTL DEF RingSpec, ImplementsFifo, Queue!Spec, Items, Bound

=============================================================================
