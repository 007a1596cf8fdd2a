---------------------------- MODULE CoopSched_proofs ----------------------------
(***************************************************************************)
(* What all three schedulers promise, for any tasks, channels, capacities  *)
(* and number of operations: types, that a bounded channel is bounded,     *)
(* that no wake-up is lost, and that a reported deadlock is one.           *)
(***************************************************************************)
EXTENDS CoopSched, QueueLemmas

\* A channel that does not exist is empty, so that creating it cannot exceed the
\* capacity it gets.
EmptyBefore == \A c \in Chans : ~Exists(c) => queue[c] = 0

IInv == TypeOK /\ WithinCapacity /\ EmptyBefore

-----------------------------------------------------------------------------
(* Types.                                                                  *)

\* The run queue and a waiting queue, after one task has been woken, all have,
\* or the running task has moved.
LEMMA QueueTypes ==
  ASSUME NEW r \in Seq(Tasks), NEW q \in Seq(Tasks), NEW t \in Tasks
  PROVE  /\ Append(r, t) \in Seq(Tasks) /\ r \o q \in Seq(Tasks)
         /\ WakeOne(r, q) \in Seq(Tasks) /\ Rest(q) \in Seq(Tasks)
         /\ r # <<>> => Tail(r) \in Seq(Tasks)
<1>1. Append(r, t) \in Seq(Tasks) /\ r \o q \in Seq(Tasks)
  OBVIOUS
<1>2. /\ q # <<>> => Head(q) \in Tasks /\ Tail(q) \in Seq(Tasks)
      /\ r # <<>> => Tail(r) \in Seq(Tasks)
  OBVIOUS
<1> QED BY <1>1, <1>2 DEF WakeOne, Rest

\* The same for the queue of one index of a family of queues.
LEMMA FamilyTypes ==
  ASSUME NEW I, NEW w \in [I -> Seq(Tasks)], NEW i \in I, NEW t \in Tasks,
         NEW r \in Seq(Tasks)
  PROVE  /\ WakeOne(r, w[i]) \in Seq(Tasks) /\ r \o w[i] \in Seq(Tasks)
         /\ [w EXCEPT ![i] = Rest(@)] \in [I -> Seq(Tasks)]
         /\ [w EXCEPT ![i] = Append(@, t)] \in [I -> Seq(Tasks)]
         /\ [w EXCEPT ![i] = <<>>] \in [I -> Seq(Tasks)]
<1>1. w[i] \in Seq(Tasks) /\ <<>> \in Seq(Tasks)
  OBVIOUS
<1>2. /\ WakeOne(r, w[i]) \in Seq(Tasks) /\ r \o w[i] \in Seq(Tasks)
      /\ Rest(w[i]) \in Seq(Tasks) /\ Append(w[i], t) \in Seq(Tasks)
  BY <1>1, QueueTypes
<1> QED BY <1>1, <1>2

LEMMA StartTypes ==
  ASSUME used \in [Tasks -> 0..MaxOps], NEW t \in Tasks, NEW o,
         Begins(t) \/ Starts(t, o)
  PROVE  used' \in [Tasks -> 0..MaxOps]
BY CoopAssumption DEF Begins, Starts

LEMMA EndingTypes ==
  ASSUME NEW r, NEW b, NEW s, NEW a
  PROVE  Ending(r, b, s, a) \in {"running", "ended", "deadlock", "trap"}
BY DEF Ending

LEMMA StepTypes ==
  ASSUME TypeOK, NEW t \in Tasks, Step(t)
  PROVE  TypeOK'
<1> USE DEF TypeOK
<1>o. Idle \in Ops
  BY DEF Ops
<1>r. May(t) => run # <<>> /\ Tail(run) \in Seq(Tasks)
  BY DEF May
<1>1. ASSUME NEW c \in Chans, NEW k \in Caps, NewChannel(t, c, k) PROVE TypeOK'
  BY <1>1 DEF NewChannel
<1>2. ASSUME NEW u \in Tasks, Spawn(t, u) PROVE TypeOK'
  BY <1>2, QueueTypes, StartTypes DEF Spawn
<1>3. CASE Yield(t)
  <2>1. run' \in Seq(Tasks)
    BY <1>3, <1>r, QueueTypes DEF Yield
  <2> QED BY <1>3, <2>1, StartTypes DEF Yield
<1>4. ASSUME NEW c \in Chans, SendPush(t, c) PROVE TypeOK'
  <2>1. run' \in Seq(Tasks) /\ blocked' \in [Chans -> Seq(Tasks)]
    BY <1>4, FamilyTypes DEF SendPush
  <2>2. used' \in [Tasks -> 0..MaxOps]
    BY <1>4, StartTypes DEF SendPush
  <2>3. queue' \in [Chans -> Nat] /\ op' \in [Tasks -> Ops]
    BY <1>4, <1>o DEF SendPush
  <2> QED BY <1>4, <2>1, <2>2, <2>3 DEF SendPush
<1>5. ASSUME NEW c \in Chans, SendBlock(t, c) PROVE TypeOK'
  <2>1. run' \in Seq(Tasks) /\ sblocked' \in [Chans -> Seq(Tasks)]
    BY <1>5, <1>r, FamilyTypes DEF SendBlock
  <2>2. used' \in [Tasks -> 0..MaxOps]
    BY <1>5, StartTypes DEF SendBlock
  <2>3. <<"send", c>> \in Ops
    BY DEF Ops
  <2>4. op' \in [Tasks -> Ops]
    BY <1>5, <2>3 DEF SendBlock
  <2>5. outcome' \in {"running", "ended", "deadlock", "trap"}
    BY <1>5, EndingTypes DEF SendBlock
  <2> QED BY <1>5, <2>1, <2>2, <2>4, <2>5 DEF SendBlock
<1>6. ASSUME NEW c \in Chans, RecvTake(t, c) PROVE TypeOK'
  <2>1. run' \in Seq(Tasks) /\ sblocked' \in [Chans -> Seq(Tasks)]
    BY <1>6, FamilyTypes DEF RecvTake
  <2>2. used' \in [Tasks -> 0..MaxOps]
    BY <1>6, StartTypes DEF RecvTake
  <2>3. queue' \in [Chans -> Nat] /\ op' \in [Tasks -> Ops]
    BY <1>6, <1>o DEF RecvTake
  <2> QED BY <1>6, <2>1, <2>2, <2>3 DEF RecvTake
<1>7. ASSUME NEW c \in Chans, RecvClosed(t, c) PROVE TypeOK'
  <2>1. used' \in [Tasks -> 0..MaxOps]
    BY <1>7, StartTypes DEF RecvClosed
  <2> QED BY <1>7, <1>o, <2>1 DEF RecvClosed
<1>8. ASSUME NEW c \in Chans, RecvBlock(t, c) PROVE TypeOK'
  <2>1. run' \in Seq(Tasks) /\ blocked' \in [Chans -> Seq(Tasks)]
    BY <1>8, <1>r, FamilyTypes DEF RecvBlock
  <2>2. used' \in [Tasks -> 0..MaxOps]
    BY <1>8, StartTypes DEF RecvBlock
  <2>3. <<"recv", c>> \in Ops
    BY DEF Ops
  <2>4. op' \in [Tasks -> Ops]
    BY <1>8, <2>3 DEF RecvBlock
  <2>5. outcome' \in {"running", "ended", "deadlock", "trap"}
    BY <1>8, EndingTypes DEF RecvBlock
  <2> QED BY <1>8, <2>1, <2>2, <2>4, <2>5 DEF RecvBlock
<1>9. ASSUME NEW c \in Chans, Close(t, c) PROVE TypeOK'
  <2>1. run \o blocked[c] \in Seq(Tasks)
    BY FamilyTypes
  <2>2. run' \in Seq(Tasks)
    BY <1>9, <2>1, FamilyTypes DEF Close
  <2>3. blocked' \in [Chans -> Seq(Tasks)] /\ sblocked' \in [Chans -> Seq(Tasks)]
    BY <1>9, FamilyTypes DEF Close
  <2>4. used' \in [Tasks -> 0..MaxOps]
    BY <1>9, StartTypes DEF Close
  <2> QED BY <1>9, <2>2, <2>3, <2>4 DEF Close
<1>10. ASSUME NEW u \in Tasks, Await(t, u) PROVE TypeOK'
  <2>1. used' \in [Tasks -> 0..MaxOps]
    BY <1>10, StartTypes DEF Await
  <2> QED BY <1>10, <1>o, <2>1 DEF Await
<1>11. ASSUME NEW u \in Tasks, AwaitBlock(t, u) PROVE TypeOK'
  <2>1. run' \in Seq(Tasks) /\ ablocked' \in [Tasks -> Seq(Tasks)]
    BY <1>11, <1>r, FamilyTypes DEF AwaitBlock
  <2>2. used' \in [Tasks -> 0..MaxOps]
    BY <1>11, StartTypes DEF AwaitBlock
  <2>3. <<"await", u>> \in Ops
    BY DEF Ops
  <2>4. op' \in [Tasks -> Ops]
    BY <1>11, <2>3 DEF AwaitBlock
  <2>5. outcome' \in {"running", "ended", "deadlock", "trap"}
    BY <1>11, EndingTypes DEF AwaitBlock
  <2> QED BY <1>11, <2>1, <2>2, <2>4, <2>5 DEF AwaitBlock
<1>12. CASE Exit(t)
  <2>1. run' \in Seq(Tasks) /\ ablocked' \in [Tasks -> Seq(Tasks)]
    BY <1>12, <1>r, FamilyTypes DEF Exit
  <2>2. outcome' \in {"running", "ended", "deadlock", "trap"}
    BY <1>12, EndingTypes DEF Exit
  <2> QED BY <1>12, <2>1, <2>2 DEF Exit
<1>13. CASE Trap(t)
  BY <1>13 DEF Trap
<1> QED
  BY <1>1, <1>2, <1>3, <1>4, <1>5, <1>6, <1>7, <1>8, <1>9, <1>10, <1>11, <1>12,
     <1>13 DEF Step

-----------------------------------------------------------------------------
(* Capacity.                                                               *)

\* Only a send to a channel with room makes a channel longer, and only its
\* creation changes a capacity.
LEMMA StepKeepsCapacity ==
  ASSUME IInv, NEW t \in Tasks, Step(t)
  PROVE  (WithinCapacity /\ EmptyBefore)'
<1>1. queue \in [Chans -> Nat] /\ cap \in [Chans -> Caps \cup {None}]
  BY DEF IInv, TypeOK
<1>2. CASE UNCHANGED <<queue, cap>>
  BY <1>2 DEF IInv, WithinCapacity, EmptyBefore, Exists
<1>c. \A d \in Chans : /\ cap[d] > 0 => queue[d] <= cap[d]
                       /\ cap[d] = None => queue[d] = 0
  BY DEF IInv, WithinCapacity, EmptyBefore, Exists
<1>3. ASSUME NEW c \in Chans, NEW k \in Caps, NewChannel(t, c, k)
      PROVE  (WithinCapacity /\ EmptyBefore)'
  <2>1. queue[c] = 0 /\ k \in Nat
    BY <1>3, <1>c, CoopAssumption DEF NewChannel, Exists
  <2>2. queue' = queue /\ cap'[c] = k /\ \A d \in Chans \ {c} : cap'[d] = cap[d]
    BY <1>1, <1>3 DEF NewChannel
  <2>3. \A d \in Chans : cap'[d] > 0 => queue'[d] <= cap'[d]
    BY <1>c, <2>1, <2>2
  <2>4. \A d \in Chans : cap'[d] = None => queue'[d] = 0
    BY <1>c, <2>1, <2>2
  <2> QED BY <2>3, <2>4 DEF WithinCapacity, EmptyBefore, Exists
<1>t. \A d \in Chans : cap[d] \in Int /\ queue[d] \in Nat
  <2>1. ASSUME NEW d \in Chans PROVE cap[d] \in Int
    <3>1. cap[d] \in Caps \/ cap[d] = None
      BY <1>1
    <3>2. Caps \subseteq Int /\ None \in Int
      BY CoopAssumption DEF None
    <3> QED BY <3>1, <3>2
  <2> QED BY <1>1, <2>1
<1>4. ASSUME NEW c \in Chans, SendPush(t, c) PROVE (WithinCapacity /\ EmptyBefore)'
  <2>1. cap[c] # None /\ (cap[c] = 0 \/ queue[c] < cap[c])
    BY <1>4 DEF SendPush, HasRoom, Exists
  <2>2. /\ cap' = cap /\ queue'[c] = queue[c] + 1
        /\ \A d \in Chans \ {c} : queue'[d] = queue[d]
    BY <1>1, <1>4 DEF SendPush
  <2>3. ASSUME NEW d \in Chans
        PROVE  /\ cap'[d] > 0 => queue'[d] <= cap'[d]
               /\ cap'[d] = None => queue'[d] = 0
    <3>1. CASE d = c
      BY <1>t, <2>1, <2>2, <3>1
    <3>2. CASE d # c
      BY <1>c, <2>2, <3>2
    <3> QED BY <3>1, <3>2
  <2> QED BY <2>3 DEF WithinCapacity, EmptyBefore, Exists
<1>5. ASSUME NEW c \in Chans, RecvTake(t, c) PROVE (WithinCapacity /\ EmptyBefore)'
  <2>1. cap[c] # None /\ queue[c] > 0
    BY <1>5 DEF RecvTake, Exists
  <2>2. /\ cap' = cap /\ queue'[c] = queue[c] - 1
        /\ \A d \in Chans \ {c} : queue'[d] = queue[d]
    BY <1>1, <1>5 DEF RecvTake
  <2>3. ASSUME NEW d \in Chans
        PROVE  /\ cap'[d] > 0 => queue'[d] <= cap'[d]
               /\ cap'[d] = None => queue'[d] = 0
    <3>1. CASE d = c
      BY <1>c, <1>t, <2>1, <2>2, <3>1
    <3>2. CASE d # c
      BY <1>c, <2>2, <3>2
    <3> QED BY <3>1, <3>2
  <2> QED BY <2>3 DEF WithinCapacity, EmptyBefore, Exists
<1>6. \/ UNCHANGED <<queue, cap>>
      \/ \E c \in Chans, k \in Caps : NewChannel(t, c, k)
      \/ \E c \in Chans : SendPush(t, c)
      \/ \E c \in Chans : RecvTake(t, c)
  BY DEF Step, Spawn, Yield, SendBlock, RecvClosed, RecvBlock, Close, Await,
         AwaitBlock, Exit, Trap
<1> QED BY <1>2, <1>3, <1>4, <1>5, <1>6

LEMMA Initial == Init => IInv
<1> SUFFICES ASSUME Init PROVE IInv
  OBVIOUS
<1>1. /\ run \in Seq(Tasks)
      /\ blocked \in [Chans -> Seq(Tasks)] /\ sblocked \in [Chans -> Seq(Tasks)]
      /\ ablocked \in [Tasks -> Seq(Tasks)]
  BY CoopAssumption DEF Init
<1>2. op \in [Tasks -> Ops] /\ used \in [Tasks -> 0..MaxOps]
  BY CoopAssumption DEF Init, Ops
<1>3. TypeOK
  BY <1>1, <1>2 DEF Init, TypeOK, None
<1>4. WithinCapacity /\ EmptyBefore
  BY DEF Init, WithinCapacity, EmptyBefore, None
<1> QED BY <1>3, <1>4 DEF IInv

LEMMA Inductive == IInv /\ [Next]_vars => IInv'
<1> SUFFICES ASSUME IInv, [Next]_vars PROVE IInv'
  OBVIOUS
<1>1. CASE UNCHANGED vars
  BY <1>1 DEF vars, IInv, TypeOK, WithinCapacity, EmptyBefore, Exists
<1>2. ASSUME NEW t \in Tasks, Step(t) PROVE IInv'
  BY <1>2, StepTypes, StepKeepsCapacity DEF IInv
<1> QED BY <1>1, <1>2 DEF Next

\* The inductive invariant holds of every behaviour.
THEOREM Invariant == Spec => []IInv
BY Initial, Inductive, PTL DEF Spec

\* Every variable of the abstract scheduler keeps its type.
THEOREM TypeCorrect == Spec => []TypeOK
<1>1. IInv => TypeOK
  BY DEF IInv
<1> QED BY <1>1, Invariant, PTL

\* A bounded channel never holds more values than its capacity.
THEOREM ChannelsAreBounded == Spec => []WithinCapacity
<1>1. IInv => WithinCapacity
  BY DEF IInv
<1> QED BY <1>1, Invariant, PTL

-----------------------------------------------------------------------------
(* Who is where.                                                           *)

\* Nobody is in a queue twice, nor both running and waiting.
Placed ==
  /\ IsInjective(run)
  /\ \A c \in Chans : /\ IsInjective(blocked[c]) /\ Range(blocked[c]) \cap Range(run) = {}
                      /\ IsInjective(sblocked[c]) /\ Range(sblocked[c]) \cap Range(run) = {}
  /\ \A u \in Tasks : IsInjective(ablocked[u]) /\ Range(ablocked[u]) \cap Range(run) = {}

\* A task that waits will execute the operation of its queue again, and so is in
\* no other.
Waits ==
  /\ \A c \in Chans : /\ \A t \in Range(blocked[c])  : op[t] = <<"recv", c>>
                      /\ \A t \in Range(sblocked[c]) : op[t] = <<"send", c>>
  /\ \A u \in Tasks : \A t \in Range(ablocked[u]) : op[t] = <<"await", u>>

\* A task that is not alive is nowhere.
Alive == \A t \in Tasks : tstate[t] # "running" => t \notin Range(run) /\ op[t] = Idle

\* What there is to wait for: a channel that exists, room in one that is
\* bounded, a task that has not finished.
Faced ==
  /\ \A c \in Chans : /\ blocked[c] # <<>> => Exists(c)
                      /\ sblocked[c] # <<>> => Exists(c) /\ cap[c] # 0
  /\ \A u \in Tasks : ablocked[u] # <<>> => tstate[u] = "running"

Over == outcome = "deadlock" => run = <<>>

WInv == Placed /\ Waits /\ Alive /\ Faced /\ Over

\* Waking one task takes the first of the waiting queue to the end of R.
LEMMA OfWakeOne ==
  ASSUME NEW S, NEW r \in Seq(S), NEW q \in Seq(S),
         IsInjective(r), IsInjective(q), Range(r) \cap Range(q) = {}
  PROVE  /\ WakeOne(r, q) \in Seq(S) /\ Rest(q) \in Seq(S)
         /\ IsInjective(WakeOne(r, q)) /\ IsInjective(Rest(q))
         /\ Range(WakeOne(r, q)) \cup Range(Rest(q)) = Range(r) \cup Range(q)
         /\ Range(WakeOne(r, q)) \cap Range(Rest(q)) = {}
         /\ Range(r) \subseteq Range(WakeOne(r, q))
         /\ Range(Rest(q)) \subseteq Range(q)
         /\ q # <<>> => /\ Head(q) \in Range(q) \ Range(r)
                        /\ Range(WakeOne(r, q)) = Range(r) \cup {Head(q)}
         /\ q = <<>> => Rest(q) = <<>> /\ WakeOne(r, q) = r
<1>1. CASE q = <<>>
  BY <1>1, OfEmpty DEF WakeOne, Rest
<1>2. CASE q # <<>>
  <2>1. /\ Head(q) \in S /\ Head(q) \in Range(q) /\ Tail(q) \in Seq(S)
        /\ Range(q) = {Head(q)} \cup Range(Tail(q))
        /\ IsInjective(Tail(q)) /\ Head(q) \notin Range(Tail(q))
    BY <1>2, OfTail
  <2>2. Head(q) \notin Range(r)
    BY <2>1
  <2>3. /\ Append(r, Head(q)) \in Seq(S)
        /\ Range(Append(r, Head(q))) = Range(r) \cup {Head(q)}
        /\ IsInjective(Append(r, Head(q)))
    BY <2>1, <2>2, OfAppend
  <2> QED BY <1>2, <2>1, <2>2, <2>3 DEF WakeOne, Rest
<1> QED BY <1>1, <1>2

\* The running task is in R, alive, and waits nowhere.
LEMMA Running ==
  ASSUME TypeOK, WInv, NEW t \in Tasks, May(t)
  PROVE  /\ run # <<>> /\ t = Head(run) /\ t \in Range(run) /\ tstate[t] = "running"
         /\ Tail(run) \in Seq(Tasks) /\ IsInjective(Tail(run))
         /\ Range(run) = {t} \cup Range(Tail(run)) /\ t \notin Range(Tail(run))
         /\ \A c \in Chans : t \notin Range(blocked[c]) /\ t \notin Range(sblocked[c])
         /\ \A u \in Tasks : t \notin Range(ablocked[u])
         /\ outcome = "running"
<1>1. run # <<>> /\ t = Head(run) /\ outcome = "running"
  BY DEF May
<1>2. run \in Seq(Tasks) /\ IsInjective(run)
  BY DEF TypeOK, WInv, Placed
<1>3. /\ t \in Range(run) /\ Tail(run) \in Seq(Tasks) /\ IsInjective(Tail(run))
      /\ Range(run) = {t} \cup Range(Tail(run)) /\ t \notin Range(Tail(run))
  BY <1>1, <1>2, OfTail
<1>4. tstate[t] = "running"
  BY <1>3 DEF WInv, Alive
<1>5. /\ \A c \in Chans : t \notin Range(blocked[c]) /\ t \notin Range(sblocked[c])
      /\ \A u \in Tasks : t \notin Range(ablocked[u])
  BY <1>3 DEF WInv, Placed
<1> QED BY <1>1, <1>3, <1>4, <1>5

\* A step in which nobody waking or waiting moves: the running task at most
\* becomes idle, and nothing that is waited for changes.
LEMMA NobodyMoves ==
  ASSUME TypeOK, WInv, NEW t \in Tasks, May(t),
         UNCHANGED <<run, blocked, sblocked, ablocked>>,
         op' = op \/ op' = [op EXCEPT ![t] = Idle],
         \A c \in Chans : Exists(c) => cap'[c] = cap[c],
         \A u \in Tasks : tstate'[u] # tstate[u] => tstate[u] = "done",
         outcome' # "deadlock"
  PROVE  WInv'
<1>1. Placed'
  BY DEF WInv, Placed
<1>2. \A u \in Tasks : /\ op'[u] = op[u] \/ u = t
                       /\ op'[u] = op[u] \/ op'[u] = Idle
  BY DEF TypeOK
<1>3. Waits'
  <2>1. /\ \A c \in Chans : Range(blocked[c]) \subseteq Tasks /\ Range(sblocked[c]) \subseteq Tasks
        /\ \A u \in Tasks : Range(ablocked[u]) \subseteq Tasks
    BY OfMembers DEF TypeOK
  <2>2. /\ \A c \in Chans : t \notin Range(blocked[c]) /\ t \notin Range(sblocked[c])
        /\ \A u \in Tasks : t \notin Range(ablocked[u])
    BY Running
  <2> QED BY <2>1, <2>2, <1>2 DEF WInv, Waits
<1>4. Alive'
  BY <1>2 DEF WInv, Alive
<1>5. Faced'
  <2>1. \A c \in Chans : Exists(c) => Exists(c)' /\ cap'[c] = cap[c]
    BY DEF Exists
  <2>2. \A u \in Tasks : tstate[u] = "running" => tstate'[u] = "running"
    OBVIOUS
  <2> QED BY <2>1, <2>2 DEF WInv, Faced
<1> QED BY <1>1, <1>3, <1>4, <1>5 DEF WInv, Over

\* A task appended to R that waits nowhere keeps everybody in place.
LEMMA SpawnPlaces ==
  ASSUME TypeOK, WInv, NEW t \in Tasks, NEW u \in Tasks, Spawn(t, u)
  PROVE  WInv'
<1>1. /\ u \notin Range(run) /\ op[u] = Idle
      /\ run' = Append(run, u) /\ tstate' = [tstate EXCEPT ![u] = "running"]
      /\ UNCHANGED <<blocked, sblocked, ablocked, cap, op, outcome>>
      /\ outcome = "running"
  BY DEF WInv, Alive, Spawn, May
<1>2. /\ IsInjective(run') /\ Range(run') = Range(run) \cup {u}
  BY <1>1, OfAppend DEF TypeOK, WInv, Placed
<1>3. /\ \A c \in Chans : u \notin Range(blocked[c]) /\ u \notin Range(sblocked[c])
      /\ \A v \in Tasks : u \notin Range(ablocked[v])
  BY <1>1 DEF WInv, Waits, Idle
<1>4. Placed'
  BY <1>1, <1>2, <1>3 DEF WInv, Placed
<1>5. Waits'
  BY <1>1 DEF WInv, Waits
<1>6. \A v \in Tasks : tstate'[v] = IF v = u THEN "running" ELSE tstate[v]
  BY <1>1 DEF TypeOK
<1>7. Alive'
  BY <1>1, <1>2, <1>6 DEF WInv, Alive
<1>8. Faced'
  BY <1>1, <1>6 DEF WInv, Faced, Exists
<1> QED BY <1>1, <1>4, <1>5, <1>7, <1>8 DEF WInv, Over

LEMMA YieldPlaces ==
  ASSUME TypeOK, WInv, NEW t \in Tasks, Yield(t)
  PROVE  WInv'
<1>1. /\ run' = Append(Tail(run), t)
      /\ UNCHANGED <<blocked, sblocked, ablocked, cap, tstate, op, outcome>>
      /\ May(t) /\ outcome = "running"
  BY DEF Yield, May
<1>2. IsInjective(run') /\ Range(run') = Range(run)
  <2>1. /\ Tail(run) \in Seq(Tasks) /\ IsInjective(Tail(run))
        /\ Range(run) = {t} \cup Range(Tail(run)) /\ t \notin Range(Tail(run))
    BY <1>1, Running
  <2> DEFINE rest == Tail(run)
  <2>2. rest \in Seq(Tasks) /\ IsInjective(rest) /\ t \notin Range(rest)
    BY <2>1
  <2> HIDE DEF rest
  <2>3. Range(Append(rest, t)) = Range(rest) \cup {t} /\ IsInjective(Append(rest, t))
    BY <2>2, OfAppend
  <2> QED BY <2>1, <2>3, <1>1 DEF rest
<1>3. Placed'
  BY <1>1, <1>2 DEF WInv, Placed
<1> QED BY <1>1, <1>2, <1>3 DEF WInv, Waits, Alive, Faced, Over, Exists

LEMMA SendPushPlaces ==
  ASSUME TypeOK, WInv, NEW t \in Tasks, NEW c \in Chans, SendPush(t, c)
  PROVE  WInv'
<1>1. /\ run' = WakeOne(run, blocked[c]) /\ blocked' = [blocked EXCEPT ![c] = Rest(@)]
      /\ op' = [op EXCEPT ![t] = Idle]
      /\ UNCHANGED <<sblocked, ablocked, cap, tstate, outcome>>
      /\ May(t) /\ outcome = "running"
  BY DEF SendPush, May
<1>2. /\ run \in Seq(Tasks) /\ blocked[c] \in Seq(Tasks) /\ blocked \in [Chans -> Seq(Tasks)]
      /\ IsInjective(run) /\ IsInjective(blocked[c])
      /\ Range(run) \cap Range(blocked[c]) = {}
  BY DEF TypeOK, WInv, Placed
<1>3. /\ IsInjective(run') /\ IsInjective(Rest(blocked[c]))
      /\ Range(run') \cup Range(Rest(blocked[c])) = Range(run) \cup Range(blocked[c])
      /\ Range(run') \cap Range(Rest(blocked[c])) = {}
      /\ Range(Rest(blocked[c])) \subseteq Range(blocked[c])
      /\ blocked[c] = <<>> => Rest(blocked[c]) = <<>>
  BY <1>1, <1>2, OfWakeOne
<1>4. \A d \in Chans : blocked'[d] = IF d = c THEN Rest(blocked[c]) ELSE blocked[d]
  BY <1>1, <1>2
<1>5. \A u \in Tasks : (op'[u] = op[u] \/ u = t) /\ (op'[u] = op[u] \/ op'[u] = Idle)
  BY <1>1 DEF TypeOK
<1>6. \A u \in Range(run') : u \in Range(run) \/ op[u] = <<"recv", c>>
  BY <1>3 DEF WInv, Waits
<1>7. Placed'
  <2>1. ASSUME NEW d \in Chans
        PROVE  IsInjective(blocked'[d]) /\ Range(blocked'[d]) \cap Range(run') = {}
    <3>1. CASE d = c
      BY <3>1, <1>3, <1>4
    <3>2. CASE d # c
      <4>1. blocked'[d] = blocked[d]
        BY <3>2, <1>4
      <4>2. \A u \in Range(blocked[d]) : op[u] # <<"recv", c>>
        BY <3>2 DEF WInv, Waits
      <4> QED BY <4>1, <4>2, <1>6 DEF WInv, Placed
    <3> QED BY <3>1, <3>2
  <2>2. ASSUME NEW d \in Chans
        PROVE  IsInjective(sblocked'[d]) /\ Range(sblocked'[d]) \cap Range(run') = {}
    <3>1. \A u \in Range(sblocked[d]) : op[u] # <<"recv", c>>
      BY DEF WInv, Waits
    <3> QED BY <3>1, <1>1, <1>6 DEF WInv, Placed
  <2>3. ASSUME NEW v \in Tasks
        PROVE  IsInjective(ablocked'[v]) /\ Range(ablocked'[v]) \cap Range(run') = {}
    <3>1. \A u \in Range(ablocked[v]) : op[u] # <<"recv", c>>
      BY DEF WInv, Waits
    <3> QED BY <3>1, <1>1, <1>6 DEF WInv, Placed
  <2> QED BY <1>3, <2>1, <2>2, <2>3 DEF Placed
<1>8. Waits'
  <2>1. \A d \in Chans : \A u \in Range(blocked'[d]) : u \in Range(blocked[d])
    BY <1>3, <1>4
  <2>2. \A d \in Chans : Range(blocked[d]) \subseteq Tasks /\ Range(sblocked[d]) \subseteq Tasks
    BY OfMembers DEF TypeOK
  <2>3. \A v \in Tasks : Range(ablocked[v]) \subseteq Tasks
    BY OfMembers DEF TypeOK
  <2>4. \A d \in Chans : t \notin Range(blocked[d]) /\ t \notin Range(sblocked[d])
    BY <1>1, Running
  <2>5. \A v \in Tasks : t \notin Range(ablocked[v])
    BY <1>1, Running
  <2> QED BY <2>1, <2>2, <2>3, <2>4, <2>5, <1>1, <1>5 DEF WInv, Waits
<1>9. Alive'
  <2>1. <<"recv", c>> # Idle
    BY DEF Idle
  <2> QED BY <2>1, <1>1, <1>5, <1>6 DEF WInv, Alive
<1>10. Faced'
  BY <1>1, <1>3, <1>4 DEF WInv, Faced, Exists
<1> QED BY <1>1, <1>7, <1>8, <1>9, <1>10 DEF WInv, Over

\* The same for a receiver that wakes a sender.
LEMMA RecvTakePlaces ==
  ASSUME TypeOK, WInv, NEW t \in Tasks, NEW c \in Chans, RecvTake(t, c)
  PROVE  WInv'
<1>1. /\ run' = WakeOne(run, sblocked[c]) /\ sblocked' = [sblocked EXCEPT ![c] = Rest(@)]
      /\ op' = [op EXCEPT ![t] = Idle]
      /\ UNCHANGED <<blocked, ablocked, cap, tstate, outcome>>
      /\ May(t) /\ outcome = "running"
  BY DEF RecvTake, May
<1>2. /\ run \in Seq(Tasks) /\ sblocked[c] \in Seq(Tasks) /\ sblocked \in [Chans -> Seq(Tasks)]
      /\ IsInjective(run) /\ IsInjective(sblocked[c])
      /\ Range(run) \cap Range(sblocked[c]) = {}
  BY DEF TypeOK, WInv, Placed
<1>3. /\ IsInjective(run') /\ IsInjective(Rest(sblocked[c]))
      /\ Range(run') \cup Range(Rest(sblocked[c])) = Range(run) \cup Range(sblocked[c])
      /\ Range(run') \cap Range(Rest(sblocked[c])) = {}
      /\ Range(Rest(sblocked[c])) \subseteq Range(sblocked[c])
      /\ sblocked[c] = <<>> => Rest(sblocked[c]) = <<>>
  BY <1>1, <1>2, OfWakeOne
<1>4. \A d \in Chans : sblocked'[d] = IF d = c THEN Rest(sblocked[c]) ELSE sblocked[d]
  BY <1>1, <1>2
<1>5. \A u \in Tasks : (op'[u] = op[u] \/ u = t) /\ (op'[u] = op[u] \/ op'[u] = Idle)
  BY <1>1 DEF TypeOK
<1>6. \A u \in Range(run') : u \in Range(run) \/ op[u] = <<"send", c>>
  BY <1>3 DEF WInv, Waits
<1>7. Placed'
  <2>1. ASSUME NEW d \in Chans
        PROVE  IsInjective(sblocked'[d]) /\ Range(sblocked'[d]) \cap Range(run') = {}
    <3>1. CASE d = c
      BY <3>1, <1>3, <1>4
    <3>2. CASE d # c
      <4>1. sblocked'[d] = sblocked[d]
        BY <3>2, <1>4
      <4>2. \A u \in Range(sblocked[d]) : op[u] # <<"send", c>>
        BY <3>2 DEF WInv, Waits
      <4> QED BY <4>1, <4>2, <1>6 DEF WInv, Placed
    <3> QED BY <3>1, <3>2
  <2>2. ASSUME NEW d \in Chans
        PROVE  IsInjective(blocked'[d]) /\ Range(blocked'[d]) \cap Range(run') = {}
    <3>1. \A u \in Range(blocked[d]) : op[u] # <<"send", c>>
      BY DEF WInv, Waits
    <3> QED BY <3>1, <1>1, <1>6 DEF WInv, Placed
  <2>3. ASSUME NEW v \in Tasks
        PROVE  IsInjective(ablocked'[v]) /\ Range(ablocked'[v]) \cap Range(run') = {}
    <3>1. \A u \in Range(ablocked[v]) : op[u] # <<"send", c>>
      BY DEF WInv, Waits
    <3> QED BY <3>1, <1>1, <1>6 DEF WInv, Placed
  <2> QED BY <1>3, <2>1, <2>2, <2>3 DEF Placed
<1>8. Waits'
  <2>1. \A d \in Chans : \A u \in Range(sblocked'[d]) : u \in Range(sblocked[d])
    BY <1>3, <1>4
  <2>2. \A d \in Chans : Range(sblocked[d]) \subseteq Tasks /\ Range(blocked[d]) \subseteq Tasks
    BY OfMembers DEF TypeOK
  <2>3. \A v \in Tasks : Range(ablocked[v]) \subseteq Tasks
    BY OfMembers DEF TypeOK
  <2>4. \A d \in Chans : t \notin Range(sblocked[d]) /\ t \notin Range(blocked[d])
    BY <1>1, Running
  <2>5. \A v \in Tasks : t \notin Range(ablocked[v])
    BY <1>1, Running
  <2> QED BY <2>1, <2>2, <2>3, <2>4, <2>5, <1>1, <1>5 DEF WInv, Waits
<1>9. Alive'
  <2>1. <<"send", c>> # Idle
    BY DEF Idle
  <2> QED BY <2>1, <1>1, <1>5, <1>6 DEF WInv, Alive
<1>10. Faced'
  BY <1>1, <1>3, <1>4 DEF WInv, Faced, Exists
<1> QED BY <1>1, <1>7, <1>8, <1>9, <1>10 DEF WInv, Over

\* The running task leaves R for the back of a waiting queue: the queue of
\* channel c when it receives.
LEMMA RecvBlockPlaces ==
  ASSUME TypeOK, WInv, NEW t \in Tasks, NEW c \in Chans, RecvBlock(t, c)
  PROVE  WInv'
<1>1. /\ run' = Tail(run) /\ blocked' = [blocked EXCEPT ![c] = Append(@, t)]
      /\ op' = [op EXCEPT ![t] = <<"recv", c>>]
      /\ UNCHANGED <<sblocked, ablocked, cap, tstate>> /\ Exists(c)
      /\ outcome' = Ending(run', blocked', sblocked, ablocked) /\ May(t)
  BY DEF RecvBlock
<1>2. /\ IsInjective(run') /\ Range(run') \subseteq Range(run) /\ t \notin Range(run')
      /\ t \in Range(run) /\ tstate[t] = "running"
      /\ \A d \in Chans : t \notin Range(blocked[d]) /\ t \notin Range(sblocked[d])
      /\ \A v \in Tasks : t \notin Range(ablocked[v])
  BY <1>1, Running
<1>3. /\ IsInjective(blocked'[c]) /\ Range(blocked'[c]) = Range(blocked[c]) \cup {t}
      /\ \A d \in Chans \ {c} : blocked'[d] = blocked[d]
  <2>1. blocked'[c] = Append(blocked[c], t) /\ blocked[c] \in Seq(Tasks)
    BY <1>1 DEF TypeOK
  <2>2. IsInjective(blocked[c]) /\ t \notin Range(blocked[c])
    BY <1>2 DEF WInv, Placed
  <2> QED BY <1>1, <2>1, <2>2, OfAppend DEF TypeOK
<1>4. \A u \in Tasks : op'[u] = IF u = t THEN <<"recv", c>> ELSE op[u]
  BY <1>1 DEF TypeOK
<1>5. Placed'
  BY <1>1, <1>2, <1>3 DEF WInv, Placed
<1>6. Waits'
  <2>1. /\ \A d \in Chans : Range(blocked[d]) \subseteq Tasks /\ Range(sblocked[d]) \subseteq Tasks
        /\ \A v \in Tasks : Range(ablocked[v]) \subseteq Tasks
    BY OfMembers DEF TypeOK
  <2>2. ASSUME NEW d \in Chans, NEW u \in Range(blocked'[d]) PROVE op'[u] = <<"recv", d>>
    <3>1. CASE u = t
      BY <3>1, <1>2, <1>3, <1>4, <2>2
    <3>2. CASE u # t
      BY <3>2, <1>3, <1>4, <2>1, <2>2 DEF WInv, Waits
    <3> QED BY <3>1, <3>2
  <2>3. ASSUME NEW d \in Chans, NEW u \in Range(sblocked'[d]) PROVE op'[u] = <<"send", d>>
    BY <1>1, <1>2, <1>4, <2>1, <2>3 DEF WInv, Waits
  <2>4. ASSUME NEW v \in Tasks, NEW u \in Range(ablocked'[v]) PROVE op'[u] = <<"await", v>>
    BY <1>1, <1>2, <1>4, <2>1, <2>4 DEF WInv, Waits
  <2> QED BY <2>2, <2>3, <2>4 DEF Waits
<1>7. Alive'
  BY <1>1, <1>2, <1>4 DEF WInv, Alive
<1>8. Faced'
  BY <1>1, <1>3 DEF WInv, Faced, Exists
<1>9. Over'
  BY <1>1 DEF Over, Ending
<1> QED BY <1>5, <1>6, <1>7, <1>8, <1>9 DEF WInv

\* ... of a full channel when it sends ...
LEMMA SendBlockPlaces ==
  ASSUME TypeOK, WInv, NEW t \in Tasks, NEW c \in Chans, SendBlock(t, c)
  PROVE  WInv'
<1>1. /\ run' = Tail(run) /\ sblocked' = [sblocked EXCEPT ![c] = Append(@, t)]
      /\ op' = [op EXCEPT ![t] = <<"send", c>>]
      /\ UNCHANGED <<blocked, ablocked, cap, tstate>> /\ Exists(c) /\ cap[c] # 0
      /\ outcome' = Ending(run', blocked, sblocked', ablocked) /\ May(t)
  BY DEF SendBlock, HasRoom
<1>2. /\ IsInjective(run') /\ Range(run') \subseteq Range(run) /\ t \notin Range(run')
      /\ t \in Range(run) /\ tstate[t] = "running"
      /\ \A d \in Chans : t \notin Range(sblocked[d]) /\ t \notin Range(blocked[d])
      /\ \A v \in Tasks : t \notin Range(ablocked[v])
  BY <1>1, Running
<1>3. /\ IsInjective(sblocked'[c]) /\ Range(sblocked'[c]) = Range(sblocked[c]) \cup {t}
      /\ \A d \in Chans \ {c} : sblocked'[d] = sblocked[d]
  <2>1. sblocked'[c] = Append(sblocked[c], t) /\ sblocked[c] \in Seq(Tasks)
    BY <1>1 DEF TypeOK
  <2>2. IsInjective(sblocked[c]) /\ t \notin Range(sblocked[c])
    BY <1>2 DEF WInv, Placed
  <2> QED BY <1>1, <2>1, <2>2, OfAppend DEF TypeOK
<1>4. \A u \in Tasks : op'[u] = IF u = t THEN <<"send", c>> ELSE op[u]
  BY <1>1 DEF TypeOK
<1>5. Placed'
  BY <1>1, <1>2, <1>3 DEF WInv, Placed
<1>6. Waits'
  <2>1. /\ \A d \in Chans : Range(sblocked[d]) \subseteq Tasks /\ Range(blocked[d]) \subseteq Tasks
        /\ \A v \in Tasks : Range(ablocked[v]) \subseteq Tasks
    BY OfMembers DEF TypeOK
  <2>2. ASSUME NEW d \in Chans, NEW u \in Range(sblocked'[d]) PROVE op'[u] = <<"send", d>>
    <3>1. CASE u = t
      BY <3>1, <1>2, <1>3, <1>4, <2>2
    <3>2. CASE u # t
      BY <3>2, <1>3, <1>4, <2>1, <2>2 DEF WInv, Waits
    <3> QED BY <3>1, <3>2
  <2>3. ASSUME NEW d \in Chans, NEW u \in Range(blocked'[d]) PROVE op'[u] = <<"recv", d>>
    BY <1>1, <1>2, <1>4, <2>1, <2>3 DEF WInv, Waits
  <2>4. ASSUME NEW v \in Tasks, NEW u \in Range(ablocked'[v]) PROVE op'[u] = <<"await", v>>
    BY <1>1, <1>2, <1>4, <2>1, <2>4 DEF WInv, Waits
  <2> QED BY <2>2, <2>3, <2>4 DEF Waits
<1>7. Alive'
  BY <1>1, <1>2, <1>4 DEF WInv, Alive
<1>8. Faced'
  BY <1>1, <1>3 DEF WInv, Faced, Exists
<1>9. Over'
  BY <1>1 DEF Over, Ending
<1> QED BY <1>5, <1>6, <1>7, <1>8, <1>9 DEF WInv

\* ... of an unfinished task when it awaits.
LEMMA AwaitBlockPlaces ==
  ASSUME TypeOK, WInv, NEW t \in Tasks, NEW w \in Tasks, AwaitBlock(t, w)
  PROVE  WInv'
<1>1. /\ run' = Tail(run) /\ ablocked' = [ablocked EXCEPT ![w] = Append(@, t)]
      /\ op' = [op EXCEPT ![t] = <<"await", w>>]
      /\ UNCHANGED <<blocked, sblocked, cap, tstate>> /\ tstate[w] = "running"
      /\ outcome' = Ending(run', blocked, sblocked, ablocked') /\ May(t)
  BY DEF AwaitBlock
<1>2. /\ IsInjective(run') /\ Range(run') \subseteq Range(run) /\ t \notin Range(run')
      /\ t \in Range(run) /\ tstate[t] = "running"
      /\ \A d \in Chans : t \notin Range(blocked[d]) /\ t \notin Range(sblocked[d])
      /\ \A v \in Tasks : t \notin Range(ablocked[v])
  BY <1>1, Running
<1>3. /\ IsInjective(ablocked'[w]) /\ Range(ablocked'[w]) = Range(ablocked[w]) \cup {t}
      /\ \A v \in Tasks \ {w} : ablocked'[v] = ablocked[v]
  <2>1. ablocked'[w] = Append(ablocked[w], t) /\ ablocked[w] \in Seq(Tasks)
    BY <1>1 DEF TypeOK
  <2>2. IsInjective(ablocked[w]) /\ t \notin Range(ablocked[w])
    BY <1>2 DEF WInv, Placed
  <2> QED BY <1>1, <2>1, <2>2, OfAppend DEF TypeOK
<1>4. \A u \in Tasks : op'[u] = IF u = t THEN <<"await", w>> ELSE op[u]
  BY <1>1 DEF TypeOK
<1>5. Placed'
  BY <1>1, <1>2, <1>3 DEF WInv, Placed
<1>6. Waits'
  <2>1. /\ \A d \in Chans : Range(blocked[d]) \subseteq Tasks /\ Range(sblocked[d]) \subseteq Tasks
        /\ \A v \in Tasks : Range(ablocked[v]) \subseteq Tasks
    BY OfMembers DEF TypeOK
  <2>2. ASSUME NEW d \in Chans, NEW u \in Range(blocked'[d]) PROVE op'[u] = <<"recv", d>>
    BY <1>1, <1>2, <1>4, <2>1, <2>2 DEF WInv, Waits
  <2>3. ASSUME NEW d \in Chans, NEW u \in Range(sblocked'[d]) PROVE op'[u] = <<"send", d>>
    BY <1>1, <1>2, <1>4, <2>1, <2>3 DEF WInv, Waits
  <2>4. ASSUME NEW v \in Tasks, NEW u \in Range(ablocked'[v]) PROVE op'[u] = <<"await", v>>
    <3>1. CASE u = t
      BY <3>1, <1>2, <1>3, <1>4, <2>4
    <3>2. CASE u # t
      BY <3>2, <1>3, <1>4, <2>1, <2>4 DEF WInv, Waits
    <3> QED BY <3>1, <3>2
  <2> QED BY <2>2, <2>3, <2>4 DEF Waits
<1>7. Alive'
  BY <1>1, <1>2, <1>4 DEF WInv, Alive
<1>8. Faced'
  BY <1>1, <1>3 DEF WInv, Faced, Exists
<1>9. Over'
  BY <1>1 DEF Over, Ending
<1> QED BY <1>5, <1>6, <1>7, <1>8, <1>9 DEF WInv

\* Closing a channel brings everybody who waits on it back to R.
LEMMA ClosePlaces ==
  ASSUME TypeOK, WInv, NEW t \in Tasks, NEW c \in Chans, Close(t, c)
  PROVE  WInv'
<1>1. /\ run' = run \o blocked[c] \o sblocked[c]
      /\ blocked' = [blocked EXCEPT ![c] = <<>>]
      /\ sblocked' = [sblocked EXCEPT ![c] = <<>>]
      /\ UNCHANGED <<ablocked, cap, tstate, op, outcome>>
      /\ May(t) /\ outcome = "running"
  BY DEF Close, May
<1>2. /\ run \in Seq(Tasks) /\ blocked[c] \in Seq(Tasks) /\ sblocked[c] \in Seq(Tasks)
      /\ IsInjective(run) /\ IsInjective(blocked[c]) /\ IsInjective(sblocked[c])
      /\ Range(run) \cap Range(blocked[c]) = {} /\ Range(run) \cap Range(sblocked[c]) = {}
  BY DEF TypeOK, WInv, Placed
<1>3. Range(blocked[c]) \cap Range(sblocked[c]) = {}
  BY DEF WInv, Waits
<1>4. /\ run \o blocked[c] \in Seq(Tasks) /\ IsInjective(run \o blocked[c])
      /\ Range(run \o blocked[c]) = Range(run) \cup Range(blocked[c])
  BY <1>2, OfConcat
<1>5. /\ IsInjective(run')
      /\ Range(run') = Range(run) \cup Range(blocked[c]) \cup Range(sblocked[c])
  <2>1. Range(run \o blocked[c]) \cap Range(sblocked[c]) = {}
    BY <1>2, <1>3, <1>4
  <2> DEFINE rb == run \o blocked[c]
  <2>2. rb \in Seq(Tasks) /\ IsInjective(rb) /\ Range(rb) \cap Range(sblocked[c]) = {}
    BY <1>4, <2>1
  <2> HIDE DEF rb
  <2>3. /\ IsInjective(rb \o sblocked[c])
        /\ Range(rb \o sblocked[c]) = Range(rb) \cup Range(sblocked[c])
    BY <1>2, <2>2, OfConcat
  <2> QED BY <2>3, <1>1, <1>4 DEF rb
<1>6. \A d \in Chans : /\ blocked'[d] = IF d = c THEN <<>> ELSE blocked[d]
                       /\ sblocked'[d] = IF d = c THEN <<>> ELSE sblocked[d]
  BY <1>1 DEF TypeOK
<1>7. \A u \in Range(run') : \/ u \in Range(run)
                             \/ op[u] = <<"recv", c>> \/ op[u] = <<"send", c>>
  BY <1>5 DEF WInv, Waits
<1>8. Placed'
  <2>1. ASSUME NEW d \in Chans
        PROVE  /\ IsInjective(blocked'[d]) /\ Range(blocked'[d]) \cap Range(run') = {}
               /\ IsInjective(sblocked'[d]) /\ Range(sblocked'[d]) \cap Range(run') = {}
    <3>1. CASE d = c
      BY <3>1, <1>6, OfEmpty
    <3>2. CASE d # c
      <4>1. blocked'[d] = blocked[d] /\ sblocked'[d] = sblocked[d]
        BY <3>2, <1>6
      <4>2. \A u \in Range(blocked[d]) \cup Range(sblocked[d]) :
              op[u] # <<"recv", c>> /\ op[u] # <<"send", c>>
        BY <3>2 DEF WInv, Waits
      <4> QED BY <4>1, <4>2, <1>7 DEF WInv, Placed
    <3> QED BY <3>1, <3>2
  <2>2. ASSUME NEW v \in Tasks
        PROVE  IsInjective(ablocked'[v]) /\ Range(ablocked'[v]) \cap Range(run') = {}
    <3>1. \A u \in Range(ablocked[v]) : op[u] # <<"recv", c>> /\ op[u] # <<"send", c>>
      BY DEF WInv, Waits
    <3> QED BY <3>1, <1>1, <1>7 DEF WInv, Placed
  <2> QED BY <1>5, <2>1, <2>2 DEF Placed
<1>9. Waits'
  BY <1>1, <1>6, OfEmpty DEF WInv, Waits
<1>10. Alive'
  <2>1. <<"recv", c>> # Idle /\ <<"send", c>> # Idle
    BY DEF Idle
  <2> QED BY <2>1, <1>1, <1>7 DEF WInv, Alive
<1>11. Faced'
  BY <1>1, <1>6 DEF WInv, Faced, Exists
<1> QED BY <1>1, <1>8, <1>9, <1>10, <1>11 DEF WInv, Over

\* The end of a task takes it out of R and brings its awaiters back.
LEMMA ExitPlaces ==
  ASSUME TypeOK, WInv, NEW t \in Tasks, Exit(t)
  PROVE  WInv'
<1>1. /\ run' = Tail(run) \o ablocked[t] /\ ablocked' = [ablocked EXCEPT ![t] = <<>>]
      /\ tstate' = [tstate EXCEPT ![t] = "done"] /\ op[t] = Idle
      /\ UNCHANGED <<blocked, sblocked, cap, op>>
      /\ outcome' = Ending(run', blocked, sblocked, ablocked') /\ May(t)
  BY DEF Exit
<1>2. /\ Tail(run) \in Seq(Tasks) /\ IsInjective(Tail(run))
      /\ Range(run) = {t} \cup Range(Tail(run)) /\ t \notin Range(Tail(run))
      /\ t \notin Range(ablocked[t])
  BY <1>1, Running
<1>3. /\ ablocked[t] \in Seq(Tasks) /\ IsInjective(ablocked[t])
      /\ Range(Tail(run)) \cap Range(ablocked[t]) = {}
  BY <1>2 DEF TypeOK, WInv, Placed
<1>4. IsInjective(run') /\ Range(run') = Range(Tail(run)) \cup Range(ablocked[t])
  <2> DEFINE rest == Tail(run)
  <2>1. rest \in Seq(Tasks) /\ IsInjective(rest) /\ Range(rest) \cap Range(ablocked[t]) = {}
    BY <1>2, <1>3
  <2> HIDE DEF rest
  <2>2. /\ IsInjective(rest \o ablocked[t])
        /\ Range(rest \o ablocked[t]) = Range(rest) \cup Range(ablocked[t])
    BY <1>3, <2>1, OfConcat
  <2> QED BY <2>2, <1>1 DEF rest
<1>5. /\ \A v \in Tasks : ablocked'[v] = IF v = t THEN <<>> ELSE ablocked[v]
      /\ \A v \in Tasks : tstate'[v] = IF v = t THEN "done" ELSE tstate[v]
  BY <1>1 DEF TypeOK
<1>6. \A u \in Range(run') : u \in Range(run) \/ op[u] = <<"await", t>>
  BY <1>2, <1>4 DEF WInv, Waits
<1>7. Placed'
  <2>1. ASSUME NEW v \in Tasks
        PROVE  IsInjective(ablocked'[v]) /\ Range(ablocked'[v]) \cap Range(run') = {}
    <3>1. CASE v = t
      BY <3>1, <1>5, OfEmpty
    <3>2. CASE v # t
      <4>1. \A u \in Range(ablocked[v]) : op[u] # <<"await", t>>
        BY <3>2 DEF WInv, Waits
      <4> QED BY <4>1, <3>2, <1>5, <1>6 DEF WInv, Placed
    <3> QED BY <3>1, <3>2
  <2>2. ASSUME NEW d \in Chans
        PROVE  Range(blocked[d]) \cap Range(run') = {} /\ Range(sblocked[d]) \cap Range(run') = {}
    <3>1. \A u \in Range(blocked[d]) \cup Range(sblocked[d]) : op[u] # <<"await", t>>
      BY DEF WInv, Waits
    <3> QED BY <3>1, <1>6 DEF WInv, Placed
  <2> QED BY <1>1, <1>4, <2>1, <2>2 DEF WInv, Placed
<1>8. Waits'
  BY <1>1, <1>5, OfEmpty DEF WInv, Waits
<1>9. Alive'
  <2>1. <<"await", t>> # Idle
    BY DEF Idle
  <2>2. ASSUME NEW u \in Tasks, tstate'[u] # "running"
        PROVE  u \notin Range(run') /\ op'[u] = Idle
    <3>1. CASE u = t
      BY <3>1, <1>1, <1>2, <1>4
    <3>2. CASE u # t
      BY <3>2, <2>1, <2>2, <1>1, <1>5, <1>6 DEF WInv, Alive
    <3> QED BY <3>1, <3>2
  <2> QED BY <2>2 DEF Alive
<1>10. Faced'
  BY <1>1, <1>5 DEF WInv, Faced, Exists
<1>11. Over'
  BY <1>1 DEF Over, Ending
<1> QED BY <1>7, <1>8, <1>9, <1>10, <1>11 DEF WInv

\* Every step keeps everybody in one place.
LEMMA StepPlaces ==
  ASSUME TypeOK, WInv, NEW t \in Tasks, Step(t)
  PROVE  WInv'
<1>1. ASSUME NEW c \in Chans, NEW k \in Caps, NewChannel(t, c, k) PROVE WInv'
  <2>1. May(t) /\ outcome' = outcome /\ ~Exists(c) /\ cap' = [cap EXCEPT ![c] = k]
        /\ UNCHANGED <<run, blocked, sblocked, ablocked, op, tstate>>
    BY <1>1 DEF NewChannel
  <2>2. \A d \in Chans : Exists(d) => cap'[d] = cap[d]
    BY <2>1 DEF TypeOK
  <2> QED BY <2>1, <2>2, NobodyMoves DEF May
<1>2. ASSUME NEW c \in Chans, RecvClosed(t, c) PROVE WInv'
  <2>1. May(t) /\ outcome' = outcome /\ op' = [op EXCEPT ![t] = Idle]
        /\ UNCHANGED <<run, blocked, sblocked, ablocked, cap, tstate>>
    BY <1>2 DEF RecvClosed
  <2> QED BY <2>1, NobodyMoves DEF May
<1>3. ASSUME NEW u \in Tasks, Await(t, u) PROVE WInv'
  <2>1. May(t) /\ outcome' = outcome /\ op' = [op EXCEPT ![t] = Idle]
        /\ UNCHANGED <<run, blocked, sblocked, ablocked, cap>>
        /\ tstate[u] = "done" /\ tstate' = [tstate EXCEPT ![u] = "taken"]
    BY <1>3 DEF Await
  <2>2. \A v \in Tasks : tstate'[v] # tstate[v] => tstate[v] = "done"
    BY <2>1 DEF TypeOK
  <2> QED BY <2>1, <2>2, NobodyMoves DEF May
<1>4. CASE Trap(t)
  BY <1>4, NobodyMoves DEF Trap, May
<1> QED
  BY <1>1, <1>2, <1>3, <1>4, SpawnPlaces, YieldPlaces, SendPushPlaces, SendBlockPlaces,
     RecvTakePlaces, RecvBlockPlaces, ClosePlaces, AwaitBlockPlaces, ExitPlaces DEF Step

-----------------------------------------------------------------------------
(* No wakeup is lost.                                                      *)

\* The claim of NoLostWakeup for one channel.
ReceiversServed(c) ==
  blocked[c] # <<>> =>
    c \notin closed /\ queue[c] <= Cardinality(Pending(<<"recv", c>>))
SendersServed(c) ==
  sblocked[c] # <<>> =>
    /\ c \notin closed
    /\ cap[c] - queue[c] <= Cardinality(Pending(<<"send", c>>))

LEMMA ServedChannels ==
  NoLostWakeup <=> \A c \in Chans : ReceiversServed(c) /\ SendersServed(c)
BY DEF NoLostWakeup, ReceiversServed, SendersServed

\* Only the running task can stop being about to execute an operation again: of
\* any operation at most one such task is lost in a step.
LEMMA PendingLeft ==
  ASSUME TypeOK, TypeOK', NEW t \in Tasks, NEW o,
         \A u \in Range(run) \ {t} : u \in Range(run') /\ op'[u] = op[u]
  PROVE  /\ IsFiniteSet(Pending(o)) /\ IsFiniteSet(Pending(o)')
         /\ Cardinality(Pending(o)) \in Nat /\ Cardinality(Pending(o)') \in Nat
         /\ Pending(o) \ {t} \subseteq Pending(o)'
         /\ Cardinality(Pending(o)') >= Cardinality(Pending(o)) - 1
         /\ op[t] # o => Cardinality(Pending(o)') >= Cardinality(Pending(o))
<1>1. IsFiniteSet(Range(run)) /\ IsFiniteSet(Range(run'))
  BY OfMembers DEF TypeOK
<1>2. IsFiniteSet(Pending(o)) /\ IsFiniteSet(Pending(o)')
  <2>1. Pending(o) \subseteq Range(run) /\ Pending(o)' \subseteq Range(run')
    BY DEF Pending
  <2> QED BY <1>1, <2>1, FS_Subset
<1>3. Pending(o) \ {t} \subseteq Pending(o)'
  BY DEF Pending
<1>4. /\ IsFiniteSet(Pending(o) \ {t})
      /\ Cardinality(Pending(o) \ {t}) <= Cardinality(Pending(o)')
  BY <1>2, <1>3, FS_Subset
<1>5. Cardinality(Pending(o)) \in Nat /\ Cardinality(Pending(o)') \in Nat
  BY <1>2, FS_CardinalityType
<1>6. Cardinality(Pending(o) \ {t}) = IF t \in Pending(o) THEN Cardinality(Pending(o)) - 1
                                      ELSE Cardinality(Pending(o))
  BY <1>2, FS_RemoveElement
<1>7. op[t] # o => t \notin Pending(o)
  BY DEF Pending
<1> QED BY <1>2, <1>3, <1>4, <1>5, <1>6, <1>7

\* One more task woken to execute o again.
LEMMA PendingJoined ==
  ASSUME TypeOK, TypeOK', NEW t \in Tasks, NEW o, NEW h, op[t] # o, h # t,
         \A u \in Range(run) \ {t} : u \in Range(run') /\ op'[u] = op[u],
         h \notin Range(run), h \in Range(run'), op'[h] = o
  PROVE  Cardinality(Pending(o)') >= Cardinality(Pending(o)) + 1
<1>1. /\ IsFiniteSet(Pending(o)) /\ IsFiniteSet(Pending(o)')
      /\ Cardinality(Pending(o)) \in Nat /\ Cardinality(Pending(o)') \in Nat
      /\ Pending(o) \ {t} \subseteq Pending(o)'
  BY PendingLeft
<1>2. h \notin Pending(o) /\ t \notin Pending(o) /\ h \in Pending(o)'
  BY DEF Pending
<1>3. Cardinality(Pending(o) \cup {h}) = Cardinality(Pending(o)) + 1
      /\ IsFiniteSet(Pending(o) \cup {h})
  BY <1>1, <1>2, FS_AddElement
<1>4. Pending(o) \cup {h} \subseteq Pending(o)'
  BY <1>1, <1>2
<1>5. Cardinality(Pending(o) \cup {h}) <= Cardinality(Pending(o)')
  BY <1>1, <1>4, FS_Subset
<1> QED BY <1>1, <1>3, <1>5, FS_CardinalityType

LEMMA NumberTypes ==
  ASSUME TypeOK, NEW c \in Chans
  PROVE  cap[c] \in Int /\ queue[c] \in Nat
<1>1. cap[c] \in Caps \/ cap[c] = None
  BY DEF TypeOK
<1>2. Caps \subseteq Int /\ None \in Int
  BY CoopAssumption DEF None
<1> QED BY <1>1, <1>2 DEF TypeOK

\* A channel that the step is not about keeps the claim: its waiting queues do
\* not grow, and the running task was not about to operate on it.
LEMMA OtherChannel ==
  ASSUME TypeOK, TypeOK', NoLostWakeup, NEW t \in Tasks, NEW d \in Chans,
         \A u \in Range(run) \ {t} : u \in Range(run') /\ op'[u] = op[u],
         op[t] # <<"recv", d>>, op[t] # <<"send", d>>,
         d \in closed' => d \in closed, queue'[d] = queue[d],
         blocked'[d] # <<>> => blocked[d] # <<>>,
         sblocked'[d] # <<>> => sblocked[d] # <<>> /\ cap'[d] = cap[d]
  PROVE  ReceiversServed(d)' /\ SendersServed(d)'
<1>1. /\ Cardinality(Pending(<<"recv", d>>)) \in Nat
      /\ Cardinality(Pending(<<"recv", d>>)') \in Nat
      /\ Cardinality(Pending(<<"recv", d>>)') >= Cardinality(Pending(<<"recv", d>>))
  BY PendingLeft
<1>2. /\ Cardinality(Pending(<<"send", d>>)) \in Nat
      /\ Cardinality(Pending(<<"send", d>>)') \in Nat
      /\ Cardinality(Pending(<<"send", d>>)') >= Cardinality(Pending(<<"send", d>>))
  BY PendingLeft
<1>3. cap[d] \in Int /\ queue[d] \in Nat
  BY NumberTypes
<1>4. ReceiversServed(d) /\ SendersServed(d)
  BY ServedChannels
<1>5. ReceiversServed(d)'
  BY <1>1, <1>3, <1>4 DEF ReceiversServed
<1>6. SendersServed(d)'
  BY <1>2, <1>3, <1>4 DEF SendersServed
<1> QED BY <1>5, <1>6

\* Everybody in R but the running task stays in R, about to execute the same.
LEMMA OthersStay ==
  ASSUME TypeOK, WInv, NEW t \in Tasks, Step(t)
  PROVE  \A u \in Range(run) \ {t} : u \in Range(run') /\ op'[u] = op[u]
<1>t. Range(run) \subseteq Tasks
  BY OfMembers DEF TypeOK
<1>m. May(t)
  BY DEF Step, NewChannel, Spawn, Yield, SendPush, SendBlock, RecvTake, RecvClosed,
         RecvBlock, Close, Await, AwaitBlock, Exit, Trap
<1>o. \A u \in Tasks \ {t} : op'[u] = op[u]
  BY DEF TypeOK, Step, NewChannel, Spawn, Yield, SendPush, SendBlock, RecvTake,
         RecvClosed, RecvBlock, Close, Await, AwaitBlock, Exit, Trap
<1>r. /\ Tail(run) \in Seq(Tasks) /\ Range(run) = {t} \cup Range(Tail(run))
      /\ run \in Seq(Tasks) /\ IsInjective(run)
  BY <1>m, Running DEF TypeOK, WInv, Placed
<1> SUFFICES Range(Tail(run)) \subseteq Range(run')
  BY <1>t, <1>o, <1>r
<1>1. CASE run' = run \/ run' = Tail(run)
  BY <1>1, <1>r
<1>2. ASSUME NEW u \in Tasks, Spawn(t, u) PROVE Range(Tail(run)) \subseteq Range(run')
  BY <1>2, <1>r, OfAppend DEF Spawn
<1>3. CASE Yield(t)
  <2> DEFINE rest == Tail(run)
  <2>1. rest \in Seq(Tasks)
    BY <1>r
  <2> HIDE DEF rest
  <2>2. Range(Append(rest, t)) = Range(rest) \cup {t}
    BY <2>1, OfAppend
  <2> QED BY <2>2, <1>3 DEF Yield, rest
<1>4. ASSUME NEW c \in Chans, SendPush(t, c) PROVE Range(Tail(run)) \subseteq Range(run')
  <2>1. /\ blocked[c] \in Seq(Tasks) /\ IsInjective(blocked[c])
        /\ Range(run) \cap Range(blocked[c]) = {}
    BY DEF TypeOK, WInv, Placed
  <2>2. Range(run) \subseteq Range(WakeOne(run, blocked[c]))
    BY <2>1, <1>r, OfWakeOne
  <2> QED BY <2>2, <1>4, <1>r DEF SendPush
<1>5. ASSUME NEW c \in Chans, RecvTake(t, c) PROVE Range(Tail(run)) \subseteq Range(run')
  <2>1. /\ sblocked[c] \in Seq(Tasks) /\ IsInjective(sblocked[c])
        /\ Range(run) \cap Range(sblocked[c]) = {}
    BY DEF TypeOK, WInv, Placed
  <2>2. Range(run) \subseteq Range(WakeOne(run, sblocked[c]))
    BY <2>1, <1>r, OfWakeOne
  <2> QED BY <2>2, <1>5, <1>r DEF RecvTake
<1>6. ASSUME NEW c \in Chans, Close(t, c) PROVE Range(Tail(run)) \subseteq Range(run')
  <2>1. blocked[c] \in Seq(Tasks) /\ sblocked[c] \in Seq(Tasks)
    BY DEF TypeOK
  <2>2. /\ run \o blocked[c] \in Seq(Tasks)
        /\ Range(run \o blocked[c]) = Range(run) \cup Range(blocked[c])
    BY <2>1, <1>r, OfConcat
  <2> DEFINE rb == run \o blocked[c]
  <2>3. Range(rb \o sblocked[c]) = Range(rb) \cup Range(sblocked[c])
    <3>1. rb \in Seq(Tasks)
      BY <2>2
    <3> HIDE DEF rb
    <3> QED BY <2>1, <3>1, OfConcat
  <2> QED BY <2>2, <2>3, <1>6, <1>r DEF Close
<1>7. CASE Exit(t)
  <2>1. ablocked[t] \in Seq(Tasks)
    BY DEF TypeOK
  <2> DEFINE rest == Tail(run)
  <2>2. rest \in Seq(Tasks)
    BY <1>r
  <2> HIDE DEF rest
  <2>3. Range(rest \o ablocked[t]) = Range(rest) \cup Range(ablocked[t])
    BY <2>1, <2>2, OfConcat
  <2> QED BY <2>3, <1>7 DEF Exit, rest
<1> QED
  BY <1>1, <1>2, <1>3, <1>4, <1>5, <1>6, <1>7
     DEF Step, NewChannel, SendBlock, RecvClosed, RecvBlock, Await, AwaitBlock, Trap

\* A send that finds room gives its value to one waiting receiver.
LEMMA SendPushServes ==
  ASSUME TypeOK, TypeOK', WInv, NoLostWakeup, NEW t \in Tasks, NEW c \in Chans,
         SendPush(t, c)
  PROVE  NoLostWakeup'
<1>1. \A u \in Range(run) \ {t} : u \in Range(run') /\ op'[u] = op[u]
  BY OthersStay DEF Step
<1>2. /\ run' = WakeOne(run, blocked[c]) /\ blocked' = [blocked EXCEPT ![c] = Rest(@)]
      /\ queue' = [queue EXCEPT ![c] = @ + 1]
      /\ op' = [op EXCEPT ![t] = Idle] /\ op[t] \in {Idle, <<"send", c>>}
      /\ UNCHANGED <<sblocked, cap, closed>> /\ May(t)
  BY DEF SendPush, Starts, Begins
<1>3. \A d \in Chans : op[t] # <<"recv", d>>
  BY <1>2 DEF Idle
<1>4. ASSUME NEW d \in Chans, d # c PROVE ReceiversServed(d)' /\ SendersServed(d)'
  <2>1. queue'[d] = queue[d] /\ blocked'[d] = blocked[d] /\ op[t] # <<"send", d>>
    BY <1>2, <1>4 DEF TypeOK, Idle
  <2> QED BY <2>1, <1>1, <1>2, <1>3, OtherChannel
<1>5. cap[c] \in Int /\ queue[c] \in Nat /\ queue'[c] = queue[c] + 1
  BY <1>2, NumberTypes DEF TypeOK
<1>6. ReceiversServed(c)'
  <2> SUFFICES ASSUME blocked'[c] # <<>>
               PROVE  /\ c \notin closed'
                      /\ queue'[c] <= Cardinality(Pending(<<"recv", c>>)')
    BY DEF ReceiversServed
  <2>1. blocked[c] # <<>>
    BY <1>2 DEF TypeOK, Rest
  <2>2. c \notin closed /\ queue[c] <= Cardinality(Pending(<<"recv", c>>))
    BY <2>1, ServedChannels DEF ReceiversServed
  <2> DEFINE h == Head(blocked[c])
  <2>3. /\ blocked[c] \in Seq(Tasks) /\ run \in Seq(Tasks)
        /\ IsInjective(run) /\ IsInjective(blocked[c])
        /\ Range(run) \cap Range(blocked[c]) = {}
    BY DEF TypeOK, WInv, Placed
  <2>4. h \in Range(blocked[c]) \ Range(run) /\ h \in Range(run')
    BY <2>1, <2>3, <1>2, OfWakeOne
  <2>5. op[h] = <<"recv", c>> /\ h # t /\ h \in Tasks
    BY <2>3, <2>4, <1>2, Running, OfMembers DEF WInv, Waits
  <2>6. op'[h] = <<"recv", c>>
    BY <2>5, <1>2 DEF TypeOK
  <2> HIDE DEF h
  <2>7. Cardinality(Pending(<<"recv", c>>)') >= Cardinality(Pending(<<"recv", c>>)) + 1
    BY <2>4, <2>5, <2>6, <1>1, <1>3, PendingJoined
  <2>8. /\ Cardinality(Pending(<<"recv", c>>)) \in Nat
        /\ Cardinality(Pending(<<"recv", c>>)') \in Nat
    BY <1>1, PendingLeft
  <2> QED BY <2>2, <2>7, <2>8, <1>2, <1>5
<1>7. SendersServed(c)'
  <2>1. /\ Cardinality(Pending(<<"send", c>>)) \in Nat
        /\ Cardinality(Pending(<<"send", c>>)') \in Nat
        /\ Cardinality(Pending(<<"send", c>>)') >= Cardinality(Pending(<<"send", c>>)) - 1
    BY <1>1, PendingLeft
  <2>2. SendersServed(c)
    BY ServedChannels
  <2> QED BY <2>1, <2>2, <1>2, <1>5 DEF SendersServed
<1> QED BY <1>4, <1>6, <1>7, ServedChannels DEF NoLostWakeup, ReceiversServed, SendersServed

\* A receive gives the slot it frees to one waiting sender.
LEMMA RecvTakeServes ==
  ASSUME TypeOK, TypeOK', WInv, NoLostWakeup, NEW t \in Tasks, NEW c \in Chans,
         RecvTake(t, c)
  PROVE  NoLostWakeup'
<1>1. \A u \in Range(run) \ {t} : u \in Range(run') /\ op'[u] = op[u]
  BY OthersStay DEF Step
<1>2. /\ run' = WakeOne(run, sblocked[c]) /\ sblocked' = [sblocked EXCEPT ![c] = Rest(@)]
      /\ queue' = [queue EXCEPT ![c] = @ - 1]
      /\ op' = [op EXCEPT ![t] = Idle] /\ op[t] \in {Idle, <<"recv", c>>}
      /\ UNCHANGED <<blocked, cap, closed>> /\ May(t)
  BY DEF RecvTake, Starts, Begins
<1>3. \A d \in Chans : op[t] # <<"send", d>>
  BY <1>2 DEF Idle
<1>4. ASSUME NEW d \in Chans, d # c PROVE ReceiversServed(d)' /\ SendersServed(d)'
  <2>1. queue'[d] = queue[d] /\ sblocked'[d] = sblocked[d] /\ op[t] # <<"recv", d>>
    BY <1>2, <1>4 DEF TypeOK, Idle
  <2> QED BY <2>1, <1>1, <1>2, <1>3, OtherChannel
<1>5. cap[c] \in Int /\ queue[c] \in Nat /\ queue'[c] = queue[c] - 1
  BY <1>2, NumberTypes DEF TypeOK
<1>6. SendersServed(c)'
  <2> SUFFICES ASSUME sblocked'[c] # <<>>
               PROVE  /\ c \notin closed'
                      /\ cap'[c] - queue'[c] <= Cardinality(Pending(<<"send", c>>)')
    BY DEF SendersServed
  <2>1. sblocked[c] # <<>>
    BY <1>2 DEF TypeOK, Rest
  <2>2. c \notin closed /\ cap[c] - queue[c] <= Cardinality(Pending(<<"send", c>>))
    BY <2>1, ServedChannels DEF SendersServed
  <2> DEFINE h == Head(sblocked[c])
  <2>3. /\ sblocked[c] \in Seq(Tasks) /\ run \in Seq(Tasks)
        /\ IsInjective(run) /\ IsInjective(sblocked[c])
        /\ Range(run) \cap Range(sblocked[c]) = {}
    BY DEF TypeOK, WInv, Placed
  <2>4. h \in Range(sblocked[c]) \ Range(run) /\ h \in Range(run')
    BY <2>1, <2>3, <1>2, OfWakeOne
  <2>5. op[h] = <<"send", c>> /\ h # t /\ h \in Tasks
    BY <2>3, <2>4, <1>2, Running, OfMembers DEF WInv, Waits
  <2>6. op'[h] = <<"send", c>>
    BY <2>5, <1>2 DEF TypeOK
  <2> HIDE DEF h
  <2>7. Cardinality(Pending(<<"send", c>>)') >= Cardinality(Pending(<<"send", c>>)) + 1
    BY <2>4, <2>5, <2>6, <1>1, <1>3, PendingJoined
  <2>8. /\ Cardinality(Pending(<<"send", c>>)) \in Nat
        /\ Cardinality(Pending(<<"send", c>>)') \in Nat
    BY <1>1, PendingLeft
  <2> QED BY <2>2, <2>7, <2>8, <1>2, <1>5
<1>7. ReceiversServed(c)'
  <2>1. /\ Cardinality(Pending(<<"recv", c>>)) \in Nat
        /\ Cardinality(Pending(<<"recv", c>>)') \in Nat
        /\ Cardinality(Pending(<<"recv", c>>)') >= Cardinality(Pending(<<"recv", c>>)) - 1
    BY <1>1, PendingLeft
  <2>2. ReceiversServed(c)
    BY ServedChannels
  <2> QED BY <2>1, <2>2, <1>2, <1>5 DEF ReceiversServed
<1> QED BY <1>4, <1>6, <1>7, ServedChannels DEF NoLostWakeup, ReceiversServed, SendersServed

\* A task that blocks finds its channel with nothing for it.
LEMMA BlockServes ==
  ASSUME TypeOK, TypeOK', WInv, NoLostWakeup, NEW t \in Tasks, NEW c \in Chans,
         RecvBlock(t, c) \/ SendBlock(t, c)
  PROVE  NoLostWakeup'
<1>1. \A u \in Range(run) \ {t} : u \in Range(run') /\ op'[u] = op[u]
  BY OthersStay DEF Step
<1>2. /\ op[t] \in {Idle, <<"recv", c>>, <<"send", c>>}
      /\ UNCHANGED <<queue, cap, closed>> /\ c \notin closed
      /\ \A d \in Chans \ {c} : blocked'[d] = blocked[d] /\ sblocked'[d] = sblocked[d]
  BY DEF RecvBlock, SendBlock, Starts, Begins, TypeOK
<1>s. (\A d \in Chans : ReceiversServed(d)' /\ SendersServed(d)') => NoLostWakeup'
  BY DEF NoLostWakeup, ReceiversServed, SendersServed
<1>3. ASSUME NEW d \in Chans, d # c PROVE ReceiversServed(d)' /\ SendersServed(d)'
  <2>1. op[t] # <<"send", d>> /\ op[t] # <<"recv", d>>
    BY <1>2, <1>3 DEF Idle
  <2> QED BY <2>1, <1>1, <1>2, <1>3, OtherChannel
<1>4. /\ Cardinality(Pending(<<"recv", c>>)) \in Nat
      /\ Cardinality(Pending(<<"recv", c>>)') \in Nat
      /\ op[t] # <<"recv", c>> =>
           Cardinality(Pending(<<"recv", c>>)') >= Cardinality(Pending(<<"recv", c>>))
  BY <1>1, PendingLeft
<1>5. /\ Cardinality(Pending(<<"send", c>>)) \in Nat
      /\ Cardinality(Pending(<<"send", c>>)') \in Nat
      /\ op[t] # <<"send", c>> =>
           Cardinality(Pending(<<"send", c>>)') >= Cardinality(Pending(<<"send", c>>))
  BY <1>1, PendingLeft
<1>6. ReceiversServed(c) /\ SendersServed(c) /\ cap[c] \in Int /\ queue[c] \in Nat
  BY ServedChannels, NumberTypes
<1>7. CASE RecvBlock(t, c)
  <2>1. queue[c] = 0 /\ sblocked' = sblocked /\ op[t] # <<"send", c>>
    BY <1>7 DEF RecvBlock, Starts, Begins, Idle
  <2>2. ReceiversServed(c)'
    BY <2>1, <1>2, <1>4 DEF ReceiversServed
  <2>3. SendersServed(c)'
    BY <2>1, <1>2, <1>5, <1>6 DEF SendersServed
  <2> QED BY <2>2, <2>3, <1>s, <1>3
<1>8. CASE SendBlock(t, c)
  <2>1. cap[c] - queue[c] <= 0 /\ blocked' = blocked /\ op[t] # <<"recv", c>>
    BY <1>8, <1>6 DEF SendBlock, Starts, Begins, Idle, HasRoom
  <2>2. ReceiversServed(c)'
    BY <2>1, <1>2, <1>4, <1>6 DEF ReceiversServed
  <2>3. SendersServed(c)'
    BY <2>1, <1>2, <1>5, <1>6 DEF SendersServed
  <2> QED BY <2>2, <2>3, <1>s, <1>3
<1> QED BY <1>7, <1>8

LEMMA StepServes ==
  ASSUME TypeOK, TypeOK', WInv, NoLostWakeup, NEW t \in Tasks, Step(t)
  PROVE  NoLostWakeup'
<1>1. \A u \in Range(run) \ {t} : u \in Range(run') /\ op'[u] = op[u]
  BY OthersStay
<1>s. (\A d \in Chans : ReceiversServed(d)' /\ SendersServed(d)') => NoLostWakeup'
  BY DEF NoLostWakeup, ReceiversServed, SendersServed
<1>2. ASSUME NEW c \in Chans, NEW k \in Caps, NewChannel(t, c, k) PROVE NoLostWakeup'
  <2>1. /\ op[t] = Idle /\ sblocked[c] = <<>> /\ UNCHANGED <<closed, queue, blocked, sblocked>>
        /\ \A d \in Chans \ {c} : cap'[d] = cap[d]
    BY <1>2 DEF NewChannel, WInv, Faced, TypeOK
  <2>2. ASSUME NEW d \in Chans PROVE ReceiversServed(d)' /\ SendersServed(d)'
    <3>1. op[t] # <<"recv", d>> /\ op[t] # <<"send", d>>
      BY <2>1 DEF Idle
    <3> QED BY <2>1, <3>1, <1>1, OtherChannel
  <2> QED BY <2>2, <1>s
<1>3. CASE \/ \E u \in Tasks : Spawn(t, u) \/ Await(t, u) \/ AwaitBlock(t, u)
           \/ Yield(t) \/ Exit(t)
  <2>1. UNCHANGED <<closed, queue, blocked, sblocked, cap>>
    BY <1>3 DEF Spawn, Await, AwaitBlock, Yield, Exit
  <2>2. op[t] = Idle \/ \E u \in Tasks : op[t] = <<"await", u>>
    BY <1>3 DEF Spawn, Await, AwaitBlock, Yield, Exit, Begins, Starts
  <2>3. ASSUME NEW d \in Chans PROVE ReceiversServed(d)' /\ SendersServed(d)'
    <3>1. op[t] # <<"recv", d>> /\ op[t] # <<"send", d>>
      BY <2>2 DEF Idle
    <3> QED BY <2>1, <3>1, <1>1, OtherChannel
  <2> QED BY <2>3, <1>s
<1>4. ASSUME NEW c \in Chans, RecvClosed(t, c) PROVE NoLostWakeup'
  <2>1. /\ UNCHANGED <<closed, queue, blocked, sblocked, cap>> /\ c \in closed
        /\ op[t] \in {Idle, <<"recv", c>>}
    BY <1>4 DEF RecvClosed, Begins, Starts
  <2>2. blocked[c] = <<>> /\ sblocked[c] = <<>>
    BY <2>1, ServedChannels DEF ReceiversServed, SendersServed
  <2>3. ASSUME NEW d \in Chans, d # c PROVE ReceiversServed(d)' /\ SendersServed(d)'
    <3>1. op[t] # <<"recv", d>> /\ op[t] # <<"send", d>>
      BY <2>1, <2>3 DEF Idle
    <3> QED BY <2>1, <3>1, <1>1, OtherChannel
  <2>4. ReceiversServed(c)' /\ SendersServed(c)'
    BY <2>1, <2>2 DEF ReceiversServed, SendersServed
  <2> QED BY <2>3, <2>4, <1>s
<1>5. ASSUME NEW c \in Chans, Close(t, c) PROVE NoLostWakeup'
  <2>1. /\ closed' = closed \cup {c} /\ op[t] = Idle /\ UNCHANGED <<queue, cap>>
        /\ blocked'[c] = <<>> /\ sblocked'[c] = <<>>
        /\ \A d \in Chans \ {c} : blocked'[d] = blocked[d] /\ sblocked'[d] = sblocked[d]
    BY <1>5 DEF Close, Begins, TypeOK
  <2>2. ASSUME NEW d \in Chans, d # c PROVE ReceiversServed(d)' /\ SendersServed(d)'
    <3>1. op[t] # <<"recv", d>> /\ op[t] # <<"send", d>>
      BY <2>1 DEF Idle
    <3> QED BY <2>1, <2>2, <3>1, <1>1, OtherChannel
  <2>3. ReceiversServed(c)' /\ SendersServed(c)'
    BY <2>1 DEF ReceiversServed, SendersServed
  <2> QED BY <2>2, <2>3, <1>s
<1>6. CASE Trap(t)
  BY <1>6 DEF Trap, NoLostWakeup, Pending
<1> QED
  BY <1>2, <1>3, <1>4, <1>5, <1>6, SendPushServes, RecvTakeServes, BlockServes DEF Step

-----------------------------------------------------------------------------
(* The strengthened invariant and what follows from it.                    *)

LEMMA InitialPlaces == Init => WInv /\ NoLostWakeup
<1> SUFFICES ASSUME Init PROVE WInv /\ NoLostWakeup
  OBVIOUS
<1>1. /\ run = <<Main>> /\ Main \in Tasks
      /\ \A c \in Chans : blocked[c] = <<>> /\ sblocked[c] = <<>>
      /\ \A u \in Tasks : ablocked[u] = <<>> /\ op[u] = Idle
      /\ \A u \in Tasks : tstate[u] # "running" => u # Main
      /\ outcome = "running"
  BY CoopAssumption DEF Init
<1>2. IsInjective(run) /\ Range(run) = {Main}
  BY <1>1 DEF IsInjective, Range
<1> QED BY <1>1, <1>2, OfEmpty
        DEF WInv, Placed, Waits, Alive, Faced, Over, NoLostWakeup

LEMMA InductivePlaces ==
  IInv /\ IInv' /\ WInv /\ NoLostWakeup /\ [Next]_vars => WInv' /\ NoLostWakeup'
<1> SUFFICES ASSUME IInv, IInv', WInv, NoLostWakeup, [Next]_vars
             PROVE  WInv' /\ NoLostWakeup'
  OBVIOUS
<1>1. CASE UNCHANGED vars
  <2>1. WInv'
    BY <1>1 DEF vars, WInv, Placed, Waits, Alive, Faced, Over, Exists
  <2>2. NoLostWakeup'
    BY <1>1 DEF vars, NoLostWakeup, Pending
  <2> QED BY <2>1, <2>2
<1>2. ASSUME NEW t \in Tasks, Step(t) PROVE WInv' /\ NoLostWakeup'
  BY <1>2, StepPlaces, StepServes DEF IInv
<1> QED BY <1>1, <1>2 DEF Next

\* Every task is in one place, the one its operation names, and waits for
\* something that can still come.
THEOREM EverybodyPlaced == Spec => [](WInv /\ NoLostWakeup)
BY InitialPlaces, InductivePlaces, Invariant, PTL DEF Spec

\* A receiver is left waiting only while every value in its channel is spoken for
\* by a receiver already woken, and a sender only while every free slot is.
THEOREM NoWakeupIsLost == Spec => []NoLostWakeup
BY EverybodyPlaced, PTL

\* A reported deadlock is one: every waiting task faces an operation that cannot
\* complete.
THEOREM DeadlockIsTrue == Spec => []TrueDeadlock
<1>1. IInv /\ WInv /\ NoLostWakeup => TrueDeadlock
  <2> SUFFICES ASSUME IInv, WInv, NoLostWakeup, outcome = "deadlock" PROVE TrueDeadlock
    BY DEF TrueDeadlock
  <2>1. Range(run) = {}
    BY OfEmpty DEF WInv, Over
  <2>2. \A o : Pending(o) = {}
    BY <2>1 DEF Pending
  <2>3. ASSUME NEW c \in Chans
        PROVE  /\ blocked[c] # <<>> => queue[c] = 0 /\ c \notin closed
               /\ sblocked[c] # <<>> => ~HasRoom(c) /\ c \notin closed
    <3>1. cap[c] \in Int /\ queue[c] \in Nat
      BY NumberTypes DEF IInv
    <3>2. sblocked[c] # <<>> => cap[c] # 0
      BY DEF WInv, Faced
    <3>3. /\ Cardinality(Pending(<<"recv", c>>)) = 0
          /\ Cardinality(Pending(<<"send", c>>)) = 0
      <4>1. Pending(<<"recv", c>>) = {} /\ Pending(<<"send", c>>) = {}
        BY <2>2
      <4> QED BY <4>1, FS_EmptySet
    <3> QED BY <3>1, <3>2, <3>3 DEF NoLostWakeup, HasRoom
  <2>4. \A u \in Tasks : ablocked[u] # <<>> => tstate[u] = "running"
    BY DEF WInv, Faced
  <2> QED BY <2>3, <2>4 DEF TrueDeadlock
<1> QED BY <1>1, Invariant, EverybodyPlaced, PTL

=============================================================================
