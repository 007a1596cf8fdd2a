---------------------------- MODULE RefSched_proofs ----------------------------
(***************************************************************************)
(* The threads of the reference interpreter never race: for any number of  *)
(* tasks, channels and operations, only the head of run evaluates.         *)
(***************************************************************************)
EXTENDS RefSched, QueueLemmas

\* The helpers of the operations keep a run queue a sequence of tasks.
LEMMA QueueTypes ==
  ASSUME NEW r \in Seq(Tasks), NEW q \in Seq(Tasks), NEW t \in Tasks
  PROVE  /\ Append(r, t) \in Seq(Tasks)
         /\ r \o q \in Seq(Tasks)
         /\ WakeOne(r, q) \in Seq(Tasks)
         /\ Rest(q) \in Seq(Tasks)
         /\ Without(r, t) \in Seq(Tasks)
<1>1. Append(r, t) \in Seq(Tasks) /\ r \o q \in Seq(Tasks)
  OBVIOUS
<1>2. q # <<>> => Head(q) \in Tasks /\ Tail(q) \in Seq(Tasks)
  BY HeadTailProperties
<1>3. WakeOne(r, q) \in Seq(Tasks) /\ Rest(q) \in Seq(Tasks)
  BY <1>2 DEF WakeOne, Rest
<1>4. Without(r, t) \in Seq(Tasks)
  <2>1. CASE ~ \E i \in DOMAIN r : r[i] = t
    BY <2>1 DEF Without
  <2>2. CASE \E i \in DOMAIN r : r[i] = t
    <3> DEFINE at == CHOOSE i \in DOMAIN r : r[i] = t
    <3>1. at \in 1..Len(r)
      BY <2>2
    <3>2. \A i \in 1..Len(r) : r[i] \in Tasks
      OBVIOUS
    <3> HIDE DEF at
    <3>3. /\ \A i \in 1..(at - 1) : r[i] \in Tasks
          /\ \A i \in (at + 1)..Len(r) : r[i] \in Tasks
          /\ 1 \in Int /\ at - 1 \in Int /\ at + 1 \in Int /\ Len(r) \in Int
      BY <3>1, <3>2
    <3>4. SubSeq(r, 1, at - 1) \in Seq(Tasks) /\ SubSeq(r, at + 1, Len(r)) \in Seq(Tasks)
      BY ONLY <3>3, SubSeqProperties
    <3>5. Without(r, t) = SubSeq(r, 1, at - 1) \o SubSeq(r, at + 1, Len(r))
      BY <2>2 DEF Without, at
    <3> QED BY <3>4, <3>5
  <2> QED BY <2>1, <2>2
<1> QED BY <1>1, <1>3, <1>4

\* Whoever is appended, the head of a queue that is not empty stays its head.
LEMMA HeadKept ==
  ASSUME NEW r \in Seq(Tasks), r # <<>>, NEW q \in Seq(Tasks), NEW t \in Tasks
  PROVE  /\ Append(r, t) # <<>> /\ Head(Append(r, t)) = Head(r)
         /\ r \o q # <<>> /\ Head(r \o q) = Head(r)
         /\ WakeOne(r, q) # <<>> /\ Head(WakeOne(r, q)) = Head(r)
<1>1. Append(r, t) # <<>> /\ Head(Append(r, t)) = Head(r)
  OBVIOUS
<1>2. r \o q # <<>> /\ Head(r \o q) = Head(r)
  OBVIOUS
<1>3. WakeOne(r, q) # <<>> /\ Head(WakeOne(r, q)) = Head(r)
  <2>1. CASE q = <<>>
    BY <2>1 DEF WakeOne
  <2>2. CASE q # <<>>
    <3>1. Head(q) \in Tasks
      BY <2>2, HeadTailProperties
    <3> QED BY <2>2, <3>1 DEF WakeOne
  <2> QED BY <2>1, <2>2
<1> QED BY <1>1, <1>2, <1>3

-----------------------------------------------------------------------------
(* Types.                                                                  *)

LEMMA InitTypes == Init => TypeOK
<1> SUFFICES ASSUME Init PROVE TypeOK
  OBVIOUS
<1>1. run \in Seq(Tasks)
  BY RefAssumption DEF Init
<1>2. \A c \in Chans : blocked[c] = <<>> /\ sblocked[c] = <<>>
  BY DEF Init
<1>3. blocked \in [Chans -> Seq(Tasks)] /\ sblocked \in [Chans -> Seq(Tasks)]
  BY DEF Init
<1>4. op \in [Tasks -> Ops] /\ used \in [Tasks -> 0..MaxOps]
  BY RefAssumption DEF Init, Ops
<1> QED
  BY <1>1, <1>3, <1>4 DEF Init, TypeOK, None, Pcs

LEMMA CheckEndTypes ==
  ASSUME NEW r, NEW b, NEW s, CheckEnd(r, b, s),
         trap \in {"none", "drain", "fill", "trap"}, stopping \in BOOLEAN
  PROVE  trap' \in {"none", "drain", "fill", "trap"} /\ stopping' \in BOOLEAN
BY DEF CheckEnd

LEMMA StartTypes ==
  ASSUME NEW t \in Tasks, NEW o, used \in [Tasks -> 0..MaxOps],
         Begins(t) \/ Starts(t, o)
  PROVE  used' \in [Tasks -> 0..MaxOps]
BY RefAssumption DEF Begins, Starts

\* The queues after one waiter of channel c has been woken, or t has joined.
LEMMA WaiterTypes ==
  ASSUME NEW w \in [Chans -> Seq(Tasks)], NEW c \in Chans, NEW t \in Tasks,
         NEW r \in Seq(Tasks)
  PROVE  /\ WakeOne(r, w[c]) \in Seq(Tasks)
         /\ r \o w[c] \in Seq(Tasks)
         /\ [w EXCEPT ![c] = Rest(@)] \in [Chans -> Seq(Tasks)]
         /\ [w EXCEPT ![c] = Append(@, t)] \in [Chans -> Seq(Tasks)]
         /\ [w EXCEPT ![c] = <<>>] \in [Chans -> Seq(Tasks)]
<1>1. w[c] \in Seq(Tasks)
  OBVIOUS
<1>2. /\ WakeOne(r, w[c]) \in Seq(Tasks) /\ r \o w[c] \in Seq(Tasks)
      /\ Rest(w[c]) \in Seq(Tasks) /\ Append(w[c], t) \in Seq(Tasks)
      /\ <<>> \in Seq(Tasks)
  BY <1>1, QueueTypes
<1> QED
  BY <1>2

\* An operation is evaluated at the head of run, so TypeOK needs OnlyHeadRuns
\* to know that there is a head to take off.
LEMMA StepTypes ==
  ASSUME TypeOK, OnlyHeadRuns, NEW t \in Tasks, Step(t) \/ SpuriousWake(t)
  PROVE  TypeOK'
<1> USE DEF TypeOK
<1>h. pc[t] = "go" =>
        run # <<>> /\ Head(run) = t /\ Tail(run) \in Seq(Tasks)
  BY HeadTailProperties DEF OnlyHeadRuns, Evaluating
<1>1. CASE AwaitTurn(t) \/ SpuriousWake(t)
  BY <1>1 DEF AwaitTurn, SpuriousWake, Goto, shared, Pcs
<1>2. CASE NotifyAll(t)
  BY <1>2 DEF NotifyAll, shared, Pcs
<1>3. ASSUME NEW c \in Chans, NEW k \in Caps, NewChannel(t, c, k) PROVE TypeOK'
  BY <1>3 DEF NewChannel
<1>4. ASSUME NEW u \in Tasks, EnqueueNewTask(t, u) PROVE TypeOK'
  BY <1>4, QueueTypes, StartTypes DEF EnqueueNewTask, Pcs
<1>5. ASSUME NEW u \in Tasks, SpawnThread(t, u) PROVE TypeOK'
  BY <1>5 DEF SpawnThread, shared, Pcs
<1>6. CASE YieldNow(t)
  <2>1. run' \in Seq(Tasks)
    BY <1>6, <1>h, QueueTypes DEF YieldNow
  <2>2. used' \in [Tasks -> 0..MaxOps]
    BY <1>6, StartTypes DEF YieldNow
  <2> QED BY <1>6, <2>1, <2>2 DEF YieldNow, Goto, Pcs
<1>7. ASSUME NEW c \in Chans, SendClosed(t, c) PROVE TypeOK'
  BY <1>7 DEF SendClosed, Goto, shared, Pcs
<1>8. ASSUME NEW c \in Chans, SendPush(t, c) PROVE TypeOK'
  <2>1. run' \in Seq(Tasks) /\ blocked' \in [Chans -> Seq(Tasks)]
    BY <1>8, WaiterTypes DEF SendPush
  <2>2. queue' \in [Chans -> Nat] /\ op' \in [Tasks -> Ops]
    BY <1>8 DEF SendPush, Ops
  <2>3. used' \in [Tasks -> 0..MaxOps]
    BY <1>8, StartTypes DEF SendPush
  <2> QED BY <1>8, <2>1, <2>2, <2>3 DEF SendPush, Goto, Pcs
<1>9. ASSUME NEW c \in Chans, SendBlock(t, c) PROVE TypeOK'
  <2>1. run' \in Seq(Tasks) /\ sblocked' \in [Chans -> Seq(Tasks)]
    BY <1>9, <1>h, WaiterTypes DEF SendBlock
  <2>2. op' \in [Tasks -> Ops]
    BY <1>9 DEF SendBlock, Ops
  <2>3. used' \in [Tasks -> 0..MaxOps]
    BY <1>9, StartTypes DEF SendBlock
  <2>4. trap' \in {"none", "drain", "fill", "trap"} /\ stopping' \in BOOLEAN
    BY <1>9, CheckEndTypes DEF SendBlock
  <2> QED BY <1>9, <2>1, <2>2, <2>3, <2>4 DEF SendBlock, Goto, Pcs
<1>10. ASSUME NEW c \in Chans, RecvTake(t, c) PROVE TypeOK'
  <2>1. run' \in Seq(Tasks) /\ sblocked' \in [Chans -> Seq(Tasks)]
    BY <1>10, WaiterTypes DEF RecvTake
  <2>2. queue' \in [Chans -> Nat] /\ op' \in [Tasks -> Ops]
    BY <1>10 DEF RecvTake, Ops
  <2>3. used' \in [Tasks -> 0..MaxOps]
    BY <1>10, StartTypes DEF RecvTake
  <2> QED BY <1>10, <2>1, <2>2, <2>3 DEF RecvTake, Goto, Pcs
<1>11. ASSUME NEW c \in Chans, RecvClosed(t, c) PROVE TypeOK'
  BY <1>11, StartTypes DEF RecvClosed, shared, Ops
<1>12. ASSUME NEW c \in Chans, RecvBlock(t, c) PROVE TypeOK'
  <2>1. run' \in Seq(Tasks) /\ blocked' \in [Chans -> Seq(Tasks)]
    BY <1>12, <1>h, WaiterTypes DEF RecvBlock
  <2>2. op' \in [Tasks -> Ops]
    BY <1>12 DEF RecvBlock, Ops
  <2>3. used' \in [Tasks -> 0..MaxOps]
    BY <1>12, StartTypes DEF RecvBlock
  <2>4. trap' \in {"none", "drain", "fill", "trap"} /\ stopping' \in BOOLEAN
    BY <1>12, CheckEndTypes DEF RecvBlock
  <2> QED BY <1>12, <2>1, <2>2, <2>3, <2>4 DEF RecvBlock, Goto, Pcs
<1>13. ASSUME NEW c \in Chans, Close(t, c) PROVE TypeOK'
  <2>1. run \o blocked[c] \in Seq(Tasks)
    BY WaiterTypes
  <2>2. run' \in Seq(Tasks)
    BY <1>13, <2>1, WaiterTypes DEF Close
  <2>3. blocked' \in [Chans -> Seq(Tasks)] /\ sblocked' \in [Chans -> Seq(Tasks)]
    BY <1>13, WaiterTypes DEF Close
  <2>4. used' \in [Tasks -> 0..MaxOps]
    BY <1>13, StartTypes DEF Close
  <2> QED BY <1>13, <2>2, <2>3, <2>4 DEF Close, Goto, Pcs
<1>14. CASE BodyTrap(t)
  BY <1>14 DEF BodyTrap, Goto, shared, Pcs
<1>15. CASE Finish(t)
  BY <1>15, QueueTypes, CheckEndTypes DEF Finish, Goto, Pcs
<1>16. CASE RecordTrap(t)
  BY <1>16 DEF RecordTrap, Goto, Pcs
<1> QED
  BY <1>1, <1>2, <1>3, <1>4, <1>5, <1>6, <1>7, <1>8, <1>9, <1>10, <1>11, <1>12,
     <1>13, <1>14, <1>15, <1>16 DEF Step

-----------------------------------------------------------------------------
(* Only the head of run evaluates.                                         *)

\* An operation takes t off the head only together with the right to evaluate,
\* and whoever is appended goes behind the head.
LEMMA StepOnlyHead ==
  ASSUME TypeOK, OnlyHeadRuns, NEW t \in Tasks, Step(t) \/ SpuriousWake(t)
  PROVE  OnlyHeadRuns'
<1> USE DEF OnlyHeadRuns, Evaluating
<1>h. /\ pc[t] \in Evaluating => run # <<>> /\ Head(run) = t
      /\ pc[t] \in Evaluating => \A u \in Tasks \ {t} : pc[u] \notin Evaluating
      /\ run \in Seq(Tasks) /\ pc \in [Tasks -> Pcs]
  BY DEF TypeOK
<1>1. CASE AwaitTurn(t) \/ SpuriousWake(t)
  BY <1>1, <1>h DEF AwaitTurn, SpuriousWake, Goto, shared
<1>2. CASE NotifyAll(t)
  BY <1>2, <1>h DEF NotifyAll, shared
<1>3. ASSUME NEW c \in Chans, NEW k \in Caps, NewChannel(t, c, k)
      PROVE OnlyHeadRuns'
  BY <1>3 DEF NewChannel
<1>4. ASSUME NEW u \in Tasks, EnqueueNewTask(t, u) PROVE OnlyHeadRuns'
  <2>1. run' # <<>> /\ Head(run') = t
    BY <1>4, <1>h, HeadKept DEF EnqueueNewTask
  <2> QED BY <1>4, <1>h, <2>1 DEF EnqueueNewTask
<1>5. ASSUME NEW u \in Tasks, SpawnThread(t, u) PROVE OnlyHeadRuns'
  BY <1>5, <1>h DEF SpawnThread, shared
<1>6. CASE YieldNow(t)
  BY <1>6, <1>h DEF YieldNow, Goto
<1>7. ASSUME NEW c \in Chans, SendClosed(t, c) PROVE OnlyHeadRuns'
  BY <1>7, <1>h DEF SendClosed, Goto, shared
<1>8. ASSUME NEW c \in Chans, SendPush(t, c) PROVE OnlyHeadRuns'
  <2>1. blocked[c] \in Seq(Tasks)
    BY DEF TypeOK
  <2>2. run' # <<>> /\ Head(run') = t
    BY <1>8, <1>h, <2>1, HeadKept DEF SendPush
  <2> QED BY <1>8, <1>h, <2>2 DEF SendPush, Goto
<1>9. ASSUME NEW c \in Chans, SendBlock(t, c) PROVE OnlyHeadRuns'
  BY <1>9, <1>h DEF SendBlock, Goto
<1>10. ASSUME NEW c \in Chans, RecvTake(t, c) PROVE OnlyHeadRuns'
  <2>1. sblocked[c] \in Seq(Tasks)
    BY DEF TypeOK
  <2>2. run' # <<>> /\ Head(run') = t
    BY <1>10, <1>h, <2>1, HeadKept DEF RecvTake
  <2> QED BY <1>10, <1>h, <2>2 DEF RecvTake, Goto
<1>11. ASSUME NEW c \in Chans, RecvClosed(t, c) PROVE OnlyHeadRuns'
  BY <1>11, <1>h DEF RecvClosed, shared
<1>12. ASSUME NEW c \in Chans, RecvBlock(t, c) PROVE OnlyHeadRuns'
  BY <1>12, <1>h DEF RecvBlock, Goto
<1>13. ASSUME NEW c \in Chans, Close(t, c) PROVE OnlyHeadRuns'
  <2>1. blocked[c] \in Seq(Tasks) /\ sblocked[c] \in Seq(Tasks)
    BY DEF TypeOK
  <2>2. /\ run \o blocked[c] \in Seq(Tasks)
        /\ run \o blocked[c] # <<>> /\ Head(run \o blocked[c]) = t
    BY <1>13, <1>h, <2>1, HeadKept, QueueTypes DEF Close
  <2>3. run' # <<>> /\ Head(run') = t
    BY <1>13, <2>1, <2>2, HeadKept DEF Close
  <2> QED BY <1>13, <1>h, <2>3 DEF Close, Goto
<1>14. CASE BodyTrap(t)
  BY <1>14, <1>h DEF BodyTrap, Goto, shared
<1>15. CASE Finish(t)
  BY <1>15, <1>h DEF Finish, Goto
<1>16. CASE RecordTrap(t)
  BY <1>16, <1>h DEF RecordTrap, Goto
<1> QED
  BY <1>1, <1>2, <1>3, <1>4, <1>5, <1>6, <1>7, <1>8, <1>9, <1>10, <1>11, <1>12,
     <1>13, <1>14, <1>15, <1>16 DEF Step

-----------------------------------------------------------------------------
(* Once the program has stopped nothing changes any more.                  *)

\* No thread evaluates once the program is stopping: the one that stopped it
\* gave up its turn in the same step, and await_turn turns the others away.
Quiet == stopping => \A t \in Tasks : pc[t] \notin Evaluating

LEMMA StepQuiet ==
  ASSUME TypeOK, OnlyHeadRuns, Quiet, NEW t \in Tasks, Step(t) \/ SpuriousWake(t)
  PROVE  Quiet'
<1> USE DEF Quiet, Evaluating
<1>h. /\ pc[t] \in Evaluating => \A u \in Tasks \ {t} : pc[u] \notin Evaluating
      /\ pc \in [Tasks -> Pcs]
  BY DEF TypeOK, OnlyHeadRuns
<1>1. CASE AwaitTurn(t) \/ SpuriousWake(t)
  BY <1>1, <1>h DEF AwaitTurn, SpuriousWake, Goto, shared
<1>2. CASE NotifyAll(t)
  BY <1>2, <1>h DEF NotifyAll, shared
<1>3. ASSUME NEW c \in Chans, NEW k \in Caps, NewChannel(t, c, k) PROVE Quiet'
  BY <1>3 DEF NewChannel
<1>4. ASSUME NEW u \in Tasks, EnqueueNewTask(t, u) PROVE Quiet'
  BY <1>4 DEF EnqueueNewTask
<1>5. ASSUME NEW u \in Tasks, SpawnThread(t, u) PROVE Quiet'
  BY <1>5 DEF SpawnThread, shared
<1>6. CASE YieldNow(t)
  BY <1>6, <1>h DEF YieldNow, Goto
<1>7. ASSUME NEW c \in Chans, SendClosed(t, c) PROVE Quiet'
  BY <1>7 DEF SendClosed, Goto, shared
<1>8. ASSUME NEW c \in Chans, SendPush(t, c) PROVE Quiet'
  BY <1>8 DEF SendPush, Goto
<1>9. ASSUME NEW c \in Chans, SendBlock(t, c) PROVE Quiet'
  BY <1>9, <1>h DEF SendBlock, Goto
<1>10. ASSUME NEW c \in Chans, RecvTake(t, c) PROVE Quiet'
  BY <1>10 DEF RecvTake, Goto
<1>11. ASSUME NEW c \in Chans, RecvClosed(t, c) PROVE Quiet'
  BY <1>11 DEF RecvClosed, shared
<1>12. ASSUME NEW c \in Chans, RecvBlock(t, c) PROVE Quiet'
  BY <1>12, <1>h DEF RecvBlock, Goto
<1>13. ASSUME NEW c \in Chans, Close(t, c) PROVE Quiet'
  BY <1>13 DEF Close, Goto
<1>14. CASE BodyTrap(t)
  BY <1>14 DEF BodyTrap, Goto, shared
<1>15. CASE Finish(t)
  BY <1>15, <1>h DEF Finish, Goto
<1>16. CASE RecordTrap(t)
  BY <1>16, <1>h DEF RecordTrap, Goto
<1> QED
  BY <1>1, <1>2, <1>3, <1>4, <1>5, <1>6, <1>7, <1>8, <1>9, <1>10, <1>11, <1>12,
     <1>13, <1>14, <1>15, <1>16 DEF Step

\* The steps of a thread that is not evaluating leave the configuration alone.
LEMMA IdleSteps ==
  ASSUME NEW t \in Tasks, pc[t] \notin Evaluating, Step(t) \/ SpuriousWake(t)
  PROVE  UNCHANGED shared
BY DEF Evaluating, Step, SpuriousWake, AwaitTurn, NotifyAll, NewChannel,
       EnqueueNewTask, SpawnThread, YieldNow, SendClosed, SendPush, SendBlock,
       RecvTake, RecvClosed, RecvBlock, Close, BodyTrap, Finish, RecordTrap

-----------------------------------------------------------------------------
(* The theorems.                                                           *)

IInv == TypeOK /\ OnlyHeadRuns /\ Quiet

LEMMA InitInv == Init => IInv
BY InitTypes DEF Init, IInv, OnlyHeadRuns, Quiet, Evaluating

LEMMA NextInv == IInv /\ [Next]_vars => IInv'
<1> SUFFICES ASSUME IInv, [Next]_vars PROVE IInv'
  OBVIOUS
<1>1. CASE Next
  BY <1>1, StepTypes, StepOnlyHead, StepQuiet DEF Next, IInv
<1>2. CASE UNCHANGED vars
  BY <1>2 DEF vars, IInv, TypeOK, OnlyHeadRuns, Quiet
<1> QED BY <1>1, <1>2

\* Every variable keeps its type, whatever the number of tasks and channels.
THEOREM TypeCorrect == Spec => []TypeOK
<1>1. IInv => TypeOK
  BY DEF IInv
<1> QED BY <1>1, InitInv, NextInv, PTL DEF Spec

\* Only the head of run evaluates: with any number of threads, whatever order
\* the operating system runs them in, at most one is ever inside the program,
\* and it is the task whose turn it is (await_turn, run_task).
THEOREM OneTaskEvaluates == Spec => []OnlyHeadRuns
<1>1. IInv => OnlyHeadRuns
  BY DEF IInv
<1> QED BY <1>1, InitInv, NextInv, PTL DEF Spec

\* The event that ends the program is the last observable one: after it no
\* thread changes the configuration (check_end, record_trap, Abort::Cancelled).
THEOREM NothingAfterTheEnd == Spec => EndIsFinal
<1>1. IInv /\ [Next]_vars => [stopping => UNCHANGED shared]_vars
  <2> SUFFICES ASSUME IInv, Next, stopping PROVE UNCHANGED shared
    OBVIOUS
  <2>1. PICK t \in Tasks : Step(t) \/ SpuriousWake(t)
    BY DEF Next
  <2>2. pc[t] \notin Evaluating
    BY DEF IInv, Quiet
  <2> QED BY <2>1, <2>2, IdleSteps
<1> QED BY <1>1, InitInv, NextInv, PTL DEF Spec, EndIsFinal

-----------------------------------------------------------------------------
(* The queues.  Nobody stands in two of them.                              *)

Queues == {"send", "recv"} \X Chans
W == [o \in Queues |-> IF o[1] = "recv" THEN blocked[o[2]] ELSE sblocked[o[2]]]
Parked(w) == ParkedBy(Tasks, Queues, w)
Queued == Range(run) \cup Parked(W)

\* Nobody is in two places, who waits in a queue will execute its operation again,
\* a task is queued only once it exists, and a trap stops the program.
Orderly ==
  /\ PlacedBy(Queues, run, W, op)
  /\ \A t \in Tasks : pc[t] = "unborn" => t \notin Queued
  /\ ~stopping => trap = "none"

\* Each waiting queue is a sequence of tasks.
LEMMA WTypes ==
  ASSUME TypeOK
  PROVE  /\ W \in [Queues -> Seq(Tasks)]
         /\ \A c \in Chans : /\ <<"recv", c>> \in Queues /\ W[<<"recv", c>>] = blocked[c]
                             /\ <<"send", c>> \in Queues /\ W[<<"send", c>>] = sblocked[c]
<1>1. ASSUME NEW o \in Queues
      PROVE  (IF o[1] = "recv" THEN blocked[o[2]] ELSE sblocked[o[2]]) \in Seq(Tasks)
  BY DEF Queues, TypeOK
<1>2. W \in [Queues -> Seq(Tasks)]
  BY <1>1 DEF W
<1> QED BY <1>2 DEF W, Queues

\* A step that leaves blocked and sblocked alone leaves the waiting queues alone.
LEMMA WStays == UNCHANGED <<blocked, sblocked>> => W' = W
BY DEF W

\* One queue of blocked changes.
LEMMA WRecv ==
  ASSUME TypeOK, NEW c \in Chans, NEW q, blocked' = [blocked EXCEPT ![c] = q],
         UNCHANGED sblocked
  PROVE  W' = [W EXCEPT ![<<"recv", c>>] = q]
<1>1. ASSUME NEW o \in Queues
      PROVE  W'[o] = IF o = <<"recv", c>> THEN q ELSE W[o]
  BY DEF W, Queues, TypeOK
<1>2. W' = [o \in Queues |-> W'[o]] /\ W = [o \in Queues |-> W[o]]
  BY DEF W
<1> QED BY <1>1, <1>2

\* One queue of sblocked changes.
LEMMA WSend ==
  ASSUME TypeOK, NEW c \in Chans, NEW q, sblocked' = [sblocked EXCEPT ![c] = q],
         UNCHANGED blocked
  PROVE  W' = [W EXCEPT ![<<"send", c>>] = q]
<1>1. ASSUME NEW o \in Queues
      PROVE  W'[o] = IF o = <<"send", c>> THEN q ELSE W[o]
  BY DEF W, Queues, TypeOK
<1>2. W' = [o \in Queues |-> W'[o]] /\ W = [o \in Queues |-> W[o]]
  BY DEF W
<1> QED BY <1>1, <1>2

\* A thread that evaluates is the head of run, and the program has not ended.
LEMMA AtHead ==
  ASSUME IInv, Orderly, NEW t \in Tasks, pc[t] \in Evaluating
  PROVE  /\ TypeOK /\ run \in Seq(Tasks) /\ run # <<>> /\ Head(run) = t /\ ~stopping
         /\ t \in Range(run) /\ t \notin Parked(W) /\ Tail(run) \in Seq(Tasks)
         /\ Range(run) \subseteq Tasks /\ Parked(W) \subseteq Tasks
         /\ Parked(W) \cap Range(run) = {}
         /\ Range(Tail(run)) = Range(run) \ {t} /\ IsInjective(run)
         /\ W \in [Queues -> Seq(Tasks)] /\ op \in [Tasks -> Ops]
         /\ PlacedBy(Queues, run, W, op) /\ trap = "none"
<1>1. TypeOK /\ run \in Seq(Tasks) /\ run # <<>> /\ Head(run) = t /\ ~stopping
  BY DEF IInv, OnlyHeadRuns, Quiet, TypeOK
<1>2. W \in [Queues -> Seq(Tasks)] /\ op \in [Tasks -> Ops] /\ PlacedBy(Queues, run, W, op)
      /\ trap = "none"
  BY <1>1, WTypes DEF TypeOK, Orderly
<1>3. Parked(W) \cap Range(run) = {} /\ Parked(W) \subseteq Tasks
  BY <1>1, <1>2, WaitingApart DEF Parked
<1>4. IsInjective(run)
  BY <1>2 DEF PlacedBy
<1>5. /\ t \in Range(run) /\ Tail(run) \in Seq(Tasks)
      /\ Range(Tail(run)) = Range(run) \ {t} /\ Range(run) \subseteq Tasks
  BY <1>1, <1>4, OfTail, OfMembers
<1> QED BY <1>1, <1>2, <1>3, <1>4, <1>5

\* What a critical section leaves behind: the queues in order, and the tasks in
\* who queued.
Leaves(who) == PlacedBy(Queues, run', W', op') /\ Queued' = who

\* The operation of the running task may be done.
OpsOf(t) == op' \in {op, [op EXCEPT ![t] = Idle]}

\* At most one task of the queue at o is woken.
LEMMA OneWakes ==
  ASSUME IInv, Orderly, NEW t \in Tasks, pc[t] \in Evaluating, OpsOf(t),
         NEW o \in Queues, run' = WakeOne(run, W[o]), W' = [W EXCEPT ![o] = Rest(W[o])]
  PROVE  Leaves(Queued)
<1>1. /\ run \in Seq(Tasks) /\ t \in Range(run)
      /\ W \in [Queues -> Seq(Tasks)] /\ PlacedBy(Queues, run, W, op)
      /\ Parked(W) \cap Range(run) = {} /\ Parked(W) \subseteq Tasks
      /\ op \in [Tasks -> Ops]
  BY AtHead
<1>2. \A u \in Tasks \ {t} : op'[u] = op[u]
  BY <1>1 DEF OpsOf
<1>3. /\ PlacedBy(Queues, run', W', op) /\ run' \in Seq(Tasks) /\ W' \in [Queues -> Seq(Tasks)]
      /\ Range(run') \cup Parked(W') = Range(run) \cup Parked(W)
      /\ Parked(W') \subseteq Parked(W)
  <2>1. CASE W[o] # <<>>
    <3> DEFINE h == Head(W[o])
               q == Tail(W[o])
    <3>1. run' = Append(run, h) /\ W' = [W EXCEPT ![o] = q] /\ W[o] \in Seq(Tasks)
      BY <1>1, <2>1 DEF WakeOne, Rest
    <3>2. h \in Tasks /\ h \in Range(W[o]) /\ q \in Seq(Tasks)
      BY <2>1, <3>1, OfTail
    <3>3. /\ PlacedBy(Queues, Append(run, h), [W EXCEPT ![o] = q], op)
          /\ ParkedBy(Tasks, Queues, [W EXCEPT ![o] = q]) = ParkedBy(Tasks, Queues, W) \ {h}
          /\ Range(Append(run, h)) = Range(run) \cup {h}
          /\ Append(run, h) \in Seq(Tasks)
          /\ h \in ParkedBy(Tasks, Queues, W)
      BY <1>1, <2>1, FirstWakes
    <3> HIDE DEF h, q
    <3>5. W' \in [Queues -> Seq(Tasks)]
      BY <1>1, <3>1, <3>2
    <3>6. PlacedBy(Queues, run', W', op)
      BY <3>1, <3>3
    <3>7. /\ Parked(W') = Parked(W) \ {h} /\ h \in Parked(W)
          /\ Range(run') = Range(run) \cup {h} /\ run' \in Seq(Tasks)
      BY <3>1, <3>3 DEF Parked
    <3> QED BY <3>5, <3>6, <3>7
  <2>2. CASE W[o] = <<>>
    <3>1. run' = run /\ W' = [W EXCEPT ![o] = W[o]]
      BY <2>2 DEF WakeOne, Rest
    <3>2. W' = W
      BY <1>1, <3>1
    <3> QED BY <1>1, <3>1, <3>2
  <2> QED BY <2>1, <2>2
<1>4. PlacedBy(Queues, run', W', op')
  <2>1. \A u \in Parked(W') : op'[u] = op[u]
    BY <1>1, <1>2, <1>3
  <2> QED BY <1>3, <2>1, SamePlaces DEF Parked
<1>5. Queued' = Queued
  BY <1>3 DEF Queued, Parked, ParkedBy
<1> QED BY <1>4, <1>5 DEF Leaves

\* All the tasks of two queues are woken.
LEMMA TwoWake ==
  ASSUME IInv, Orderly, NEW t \in Tasks, pc[t] \in Evaluating, op' = op,
         NEW o1 \in Queues, NEW o2 \in Queues \ {o1},
         run' = run \o W[o1] \o W[o2], W' = [W EXCEPT ![o1] = <<>>, ![o2] = <<>>]
  PROVE  Leaves(Queued)
<1> DEFINE e == <<>>
           v == [W EXCEPT ![o1] = e]
           r == run \o W[o1]
<1>1. /\ run \in Seq(Tasks) /\ W \in [Queues -> Seq(Tasks)] /\ PlacedBy(Queues, run, W, op)
  BY AtHead
<1>2. AreWoken(Tasks, Queues, run, W, op, o1)
  BY <1>1, AllWake
<1>3. /\ PlacedBy(Queues, r, v, op) /\ Parked(v) = Parked(W) \ Range(W[o1])
      /\ Range(r) = Range(run) \cup Range(W[o1]) /\ r \in Seq(Tasks)
      /\ Range(W[o1]) \subseteq Parked(W)
  BY <1>2 DEF AreWoken, Parked
<1>4. e \in Seq(Tasks)
  OBVIOUS
<1>5. v \in [Queues -> Seq(Tasks)] /\ v[o2] = W[o2] /\ W' = [v EXCEPT ![o2] = e]
  BY <1>1, <1>4
<1>6. run' = r \o v[o2]
  BY <1>5
<1> HIDE DEF v, r, e
<1>7. AreWoken(Tasks, Queues, r, v, op, o2)
  BY <1>3, <1>5, AllWake
<1>8. /\ PlacedBy(Queues, r \o v[o2], [v EXCEPT ![o2] = <<>>], op)
      /\ Parked([v EXCEPT ![o2] = <<>>]) = Parked(v) \ Range(v[o2])
      /\ Range(r \o v[o2]) = Range(r) \cup Range(v[o2])
      /\ Range(v[o2]) \subseteq Parked(v)
  BY <1>7 DEF AreWoken, Parked
<1>9. /\ PlacedBy(Queues, run', W', op) /\ Parked(W') = Parked(v) \ Range(v[o2])
      /\ Range(run') = Range(r) \cup Range(v[o2])
  BY <1>5, <1>6, <1>8 DEF e
<1>10. Range(run') \cup Parked(W') = Range(run) \cup Parked(W)
  BY <1>3, <1>8, <1>9
<1>11. Queued' = Queued
  BY <1>10 DEF Queued, Parked, ParkedBy
<1> QED BY <1>9, <1>11 DEF Leaves

\* The running task joins the queue at o.
LEMMA HeadBlocks ==
  ASSUME IInv, Orderly, NEW t \in Tasks, pc[t] \in Evaluating, NEW o \in Queues,
         run' = Tail(run), W' = [W EXCEPT ![o] = Append(W[o], t)],
         op' = [op EXCEPT ![t] = o]
  PROVE  Leaves(Queued)
<1>1. /\ run \in Seq(Tasks) /\ run # <<>> /\ t = Head(run) /\ t \in Range(run)
      /\ W \in [Queues -> Seq(Tasks)] /\ PlacedBy(Queues, run, W, op)
      /\ op \in [Tasks -> Ops] /\ Range(Tail(run)) = Range(run) \ {t}
  BY AtHead
<1>2. HeadJoins(Tasks, Queues, run, W, op, o)
  BY <1>1, HeadWaits
<1>3. /\ PlacedBy(Queues, Tail(run), [W EXCEPT ![o] = Append(@, t)], [op EXCEPT ![t] = o])
      /\ Parked([W EXCEPT ![o] = Append(@, t)]) = Parked(W) \cup {t}
  BY <1>1, <1>2 DEF HeadJoins, Parked
<1>4. PlacedBy(Queues, run', W', op') /\ Parked(W') = Parked(W) \cup {t}
  BY <1>3
<1>5. Range(run') \cup Parked(W') = Range(run) \cup Parked(W)
  BY <1>1, <1>4
<1>6. Queued' = Queued
  BY <1>5 DEF Queued, Parked, ParkedBy
<1> QED BY <1>4, <1>6 DEF Leaves

\* The run queue alone changes: a new task joins it, or its head goes to the end
\* or leaves; or nothing changes but the operation of the running task.
LEMMA OnlyRun ==
  ASSUME IInv, Orderly, NEW t \in Tasks, pc[t] \in Evaluating, W' = W
  PROVE  /\ run' = run /\ OpsOf(t) => Leaves(Queued)
         /\ \A u \in Tasks \ Queued :
              run' = Append(run, u) /\ op' = op => Leaves(Queued \cup {u})
         /\ run' = Append(Tail(run), Head(run)) /\ op' = op => Leaves(Queued)
         /\ run' = Tail(run) /\ op' = op => Leaves(Queued \ {t})
<1>1. /\ run \in Seq(Tasks) /\ run # <<>> /\ t = Head(run) /\ t \in Range(run)
      /\ W \in [Queues -> Seq(Tasks)] /\ PlacedBy(Queues, run, W, op)
      /\ op \in [Tasks -> Ops] /\ Range(Tail(run)) = Range(run) \ {t}
      /\ t \notin Parked(W) /\ Parked(W) \subseteq Tasks
  BY AtHead
<1>2. Queued' = Range(run') \cup Parked(W)
  BY DEF Queued, Parked, ParkedBy
<1>3. ASSUME run' = run, OpsOf(t) PROVE Leaves(Queued)
  <2>1. \A u \in Parked(W) : op'[u] = op[u]
    BY <1>1, <1>3 DEF OpsOf
  <2>2. PlacedBy(Queues, run, W, op')
    BY <1>1, <2>1, SamePlaces DEF Parked
  <2> QED BY <1>2, <1>3, <2>2 DEF Leaves, Queued
<1>4. ASSUME NEW u \in Tasks \ Queued, run' = Append(run, u), op' = op
      PROVE  Leaves(Queued \cup {u})
  <2>1. u \in Tasks \ (Range(run) \cup ParkedBy(Tasks, Queues, W))
    BY DEF Queued, Parked
  <2>2. JoinsAt(Queues, run, W, op, u)
    BY <1>1, <2>1, Joins
  <2> QED BY <1>2, <1>4, <2>2 DEF JoinsAt, Leaves, Queued
<1>5. /\ PlacedBy(Queues, Tail(run), W, op)
      /\ PlacedBy(Queues, Append(Tail(run), Head(run)), W, op)
      /\ Range(Append(Tail(run), Head(run))) = Range(run)
  BY <1>1, RunAlone
<1>6. ASSUME run' = Append(Tail(run), Head(run)), op' = op PROVE Leaves(Queued)
  BY <1>2, <1>5, <1>6 DEF Leaves, Queued
<1>7. ASSUME run' = Tail(run), op' = op PROVE Leaves(Queued \ {t})
  BY <1>1, <1>2, <1>5, <1>7 DEF Leaves, Queued
<1> QED BY <1>3, <1>4, <1>6, <1>7

\* run without its head is the rest of it: nobody stands in it twice.
LEMMA WithoutHead ==
  ASSUME NEW r \in Seq(Tasks), r # <<>>, IsInjective(r)
  PROVE  Without(r, Head(r)) = Tail(r)
<1>1. /\ Len(r) \in Nat \ {0} /\ DOMAIN r = 1..Len(r) /\ Head(r) = r[1]
      /\ Tail(r) \in Seq(Tasks) /\ Len(Tail(r)) = Len(r) - 1
      /\ \A i \in 1..Len(Tail(r)) : Tail(r)[i] = r[i + 1]
  BY HeadTailProperties, EmptySeq, LenProperties
<1>2. 1 \in DOMAIN r /\ r[1] = Head(r)
  BY <1>1
<1>3. (CHOOSE i \in DOMAIN r : r[i] = Head(r)) = 1
  <2>1. \A i \in DOMAIN r : r[i] = Head(r) => i = 1
    BY <1>2 DEF IsInjective
  <2> QED BY <1>2, <2>1
<1>4. Without(r, Head(r)) = SubSeq(r, 1, 1 - 1) \o SubSeq(r, 1 + 1, Len(r))
  BY <1>2, <1>3 DEF Without
<1> DEFINE k == 1
           n == Len(r)
<1>5. k \in 0..Len(r) /\ k + 1 = 2 /\ 1 - 1 = 0
  BY <1>1
<1>6. SubSeq(r, 2, n) \in Seq(Tasks) /\ Len(SubSeq(r, 2, n)) = n - 1
      /\ \A i \in 1..(n - 1) : SubSeq(r, 2, n)[i] = r[i + 1]
  <2>1. /\ 2 \in Int /\ n \in Int /\ \A i \in 2..n : r[i] \in Tasks
    BY <1>1, LenProperties
  <2>n. n \in Nat \ {0}
    BY <1>1
  <2> HIDE DEF n
  <2>2. /\ SubSeq(r, 2, n) \in Seq(Tasks)
        /\ Len(SubSeq(r, 2, n)) = IF 2 <= n THEN n - 2 + 1 ELSE 0
        /\ \A i \in 1..(n - 2 + 1) : SubSeq(r, 2, n)[i] = r[2 + i - 1]
    BY <2>1, SubSeqProperties
  <2>3. (IF 2 <= n THEN n - 2 + 1 ELSE 0) = n - 1 /\ n - 2 + 1 = n - 1
    BY <2>n
  <2>4. \A i \in 1..(n - 1) : 2 + i - 1 = i + 1
    OBVIOUS
  <2> QED BY <2>2, <2>3, <2>4
<1>7. SubSeq(r, 2, n) = Tail(r)
  BY <1>1, <1>6, SeqEqual
<1>8. SubSeq(r, 1, 0) = <<>>
  OBVIOUS
<1>9. <<>> \o Tail(r) = Tail(r)
  BY <1>1
<1> QED BY <1>4, <1>5, <1>7, <1>8, <1>9

-----------------------------------------------------------------------------
(* The interpreter implements CoopSched.                                   *)

\* What a handle answers, by who is queued.
ByQueue == [t \in Tasks |-> IF pc[t] = "unborn" THEN "unborn"
                            ELSE IF t \in Queued THEN "running" ELSE "done"]
SeenByQueue == tstateBar = ByQueue

\* For tasks in order the state CoopSched sees is read off the queues.
LEMMA StatesAre == SeenByQueue
<1>1. ASSUME NEW t \in Tasks
      PROVE  (\E i \in DOMAIN run : run[i] = t) \/ Waiting(t) <=> t \in Queued
  <2>1. (\E i \in DOMAIN run : run[i] = t) <=> t \in Range(run)
    BY DEF Range
  <2>2. Waiting(t) <=> \E o \in Queues : t \in Range(W[o])
    <3>1. ASSUME NEW c \in Chans, t \in Range(blocked[c])
          PROVE  \E o \in Queues : t \in Range(W[o])
      <4>1. <<"recv", c>> \in Queues /\ W[<<"recv", c>>] = blocked[c]
        BY DEF Queues, W
      <4> QED BY <3>1, <4>1
    <3>2. ASSUME NEW c \in Chans, t \in Range(sblocked[c])
          PROVE  \E o \in Queues : t \in Range(W[o])
      <4>1. <<"send", c>> \in Queues /\ W[<<"send", c>>] = sblocked[c]
        BY DEF Queues, W
      <4> QED BY <3>2, <4>1
    <3>3. ASSUME NEW o \in Queues, t \in Range(W[o])
          PROVE  \E c \in Chans : t \in Range(blocked[c]) \/ t \in Range(sblocked[c])
      BY <3>3 DEF Queues, W
    <3>4. Waiting(t) <=> \E c \in Chans : t \in Range(blocked[c]) \/ t \in Range(sblocked[c])
      BY DEF Waiting, Range
    <3> QED BY <3>1, <3>2, <3>3, <3>4
  <2> QED BY <2>1, <2>2 DEF Queued, Parked, ParkedBy
<1> QED BY <1>1 DEF SeenByQueue, ByQueue, tstateBar

LEMMA StatesStay == SeenByQueue'
BY StatesAre, PTL

\* The helpers of CoopSched, on what it sees, are those of the interpreter.
LEMMA SameTerms ==
  /\ Coop!Idle = Idle
  /\ \A c \in Chans : (Exists(c) <=> Coop!Exists(c)) /\ (HasRoom(c) <=> Coop!HasRoom(c))
  /\ \A t \in Tasks : Begins(t) => Coop!Begins(t)
  /\ \A t \in Tasks, o \in Queues : Starts(t, o) => Coop!Starts(t, o)
  /\ \A r, q : WakeOne(r, q) = Coop!WakeOne(r, q) /\ Rest(q) = Coop!Rest(q)
BY DEF Idle, None, Exists, HasRoom, Begins, Starts, WakeOne, Rest, Coop!Idle, Coop!None,
       Coop!Exists, Coop!HasRoom, Coop!Begins, Coop!Starts, Coop!WakeOne, Coop!Rest

\* The thread that evaluates is the one CoopSched lets take a step.
LEMMA MaySeen ==
  ASSUME IInv, Orderly, NEW t \in Tasks, pc[t] \in Evaluating
  PROVE  Coop!May(t) /\ outcomeBar = "running"
BY AtHead DEF Coop!May, outcomeBar

SameBorn == \A t \in Tasks : pc'[t] = "unborn" <=> pc[t] = "unborn"

\* A thread that goes on was born before and is born after.
LEMMA Going ==
  ASSUME TypeOK, NEW t \in Tasks, NEW where, Goto(t, where), where # "unborn",
         pc[t] # "unborn"
  PROVE  SameBorn
BY DEF TypeOK, Goto, SameBorn

\* A step after which the same tasks are queued.
LEMMA SameTasks ==
  ASSUME Orderly, Leaves(Queued), SameBorn, ~stopping' => trap' = "none"
  PROVE  Orderly' /\ tstateBar' = tstateBar
<1>1. Orderly'
  BY DEF Orderly, Leaves, SameBorn
<1>2. tstateBar' = [t \in Tasks |-> IF pc'[t] = "unborn" THEN "unborn"
                                    ELSE IF t \in Queued' THEN "running" ELSE "done"]
  BY StatesStay DEF SeenByQueue, ByQueue
<1>3. tstateBar' = tstateBar
  BY <1>2, StatesAre DEF SeenByQueue, ByQueue, Leaves, SameBorn
<1> QED BY <1>1, <1>3

\* check_end says how the program ends as CoopSched does.
LEMMA EndSeen ==
  ASSUME ~stopping, trap = "none", CheckEnd(run', blocked', sblocked')
  PROVE  /\ outcomeBar' = Coop!Ending(run', blocked', sblocked', [t \in Tasks |-> <<>>])
         /\ ~stopping' => trap' = "none"
<1> DEFINE a == [t \in Tasks |-> <<>>]
<1>1. \A u \in Tasks : a[u] = <<>>
  OBVIOUS
<1> HIDE DEF a
<1>2. CASE run' # <<>>
  BY <1>2 DEF CheckEnd, outcomeBar, Coop!Ending
<1>3. CASE run' = <<>>
  <2>1. /\ stopping' = TRUE
        /\ trap' = IF \E c \in Chans : sblocked'[c] # <<>> THEN "drain"
                   ELSE IF \E c \in Chans : blocked'[c] # <<>> THEN "fill" ELSE "none"
    BY <1>3 DEF CheckEnd
  <2>2. Coop!Ending(run', blocked', sblocked', a)
          = IF \E c \in Chans : blocked'[c] # <<>> \/ sblocked'[c] # <<>>
            THEN "deadlock" ELSE "ended"
    BY <1>1, <1>3 DEF Coop!Ending
  <2>3. outcomeBar' = IF trap' = "none" THEN "ended" ELSE IF trap' = "trap" THEN "trap" ELSE "deadlock"
    BY <2>1 DEF outcomeBar
  <2>4. CASE \E c \in Chans : sblocked'[c] # <<>>
    BY <2>1, <2>2, <2>3, <2>4 DEF a
  <2>5. CASE (~\E c \in Chans : sblocked'[c] # <<>>) /\ \E c \in Chans : blocked'[c] # <<>>
    BY <2>1, <2>2, <2>3, <2>5 DEF a
  <2>6. CASE ~\E c \in Chans : blocked'[c] # <<>> \/ sblocked'[c] # <<>>
    BY <2>1, <2>2, <2>3, <2>6 DEF a
  <2> QED BY <2>1, <2>4, <2>5, <2>6
<1> QED BY <1>2, <1>3 DEF a

\* One lemma per operation: what CoopSched sees changes as in its action.
LEMMA SeesNewChannel ==
  ASSUME IInv, Orderly, NEW t \in Tasks, NEW c \in Chans, NEW k \in Caps, NewChannel(t, c, k)
  PROVE  Orderly' /\ Coop!NewChannel(t, c, k)
<1>1. /\ pc[t] \in Evaluating /\ op[t] = Idle /\ ~Exists(c) /\ caps' = [caps EXCEPT ![c] = k]
      /\ UNCHANGED <<run, blocked, sblocked, queue, closed, trap, stopping, pc, op, used>>
  BY DEF NewChannel, Evaluating
<1>2. Leaves(Queued)
  BY <1>1, OnlyRun, WStays DEF OpsOf
<1>3. SameBorn /\ (~stopping' => trap' = "none")
  BY <1>1 DEF SameBorn, Orderly
<1>4. Orderly' /\ tstateBar' = tstateBar
  BY <1>2, <1>3, SameTasks
<1>5. Coop!May(t) /\ outcomeBar' = outcomeBar
  BY <1>1, MaySeen DEF outcomeBar
<1> QED BY <1>1, <1>4, <1>5, SameTerms DEF Coop!NewChannel

LEMMA SeesSpawn ==
  ASSUME IInv, Orderly, NEW t \in Tasks, NEW u \in Tasks, EnqueueNewTask(t, u)
  PROVE  Orderly' /\ Coop!Spawn(t, u)
<1>1. /\ pc[t] = "go" /\ pc[t] \in Evaluating /\ Begins(t) /\ pc[u] = "unborn"
      /\ run' = Append(run, u) /\ pc' = [pc EXCEPT ![t] = "spawn", ![u] = "queued"]
      /\ UNCHANGED <<blocked, sblocked, queue, caps, closed, trap, stopping, op>>
  BY DEF EnqueueNewTask, Evaluating
<1>2. u \notin Queued /\ pc \in [Tasks -> Pcs]
  BY <1>1 DEF Orderly, IInv, TypeOK
<1>3. Leaves(Queued \cup {u})
  BY <1>1, <1>2, OnlyRun, WStays
<1>4. \A v \in Tasks : pc'[v] = "unborn" <=> pc[v] = "unborn" /\ v # u
  BY <1>1, <1>2
<1>5. Orderly'
  BY <1>1, <1>3, <1>4 DEF Orderly, Leaves
<1>6. tstateBar' = [v \in Tasks |-> IF pc'[v] = "unborn" THEN "unborn"
                                    ELSE IF v \in Queued' THEN "running" ELSE "done"]
  BY StatesStay DEF SeenByQueue, ByQueue
<1>7. tstateBar[u] = "unborn" /\ tstateBar' = [tstateBar EXCEPT ![u] = "running"]
  <2>1. \A v \in Tasks : tstateBar'[v] = IF v = u THEN "running" ELSE tstateBar[v]
    BY <1>3, <1>4, <1>6, StatesAre DEF SeenByQueue, ByQueue, Leaves
  <2>2. tstateBar' = [v \in Tasks |-> tstateBar'[v]]
    BY <1>6
  <2> QED BY <1>1, <2>1, <2>2, StatesAre DEF SeenByQueue, ByQueue
<1>8. Coop!May(t) /\ outcomeBar' = outcomeBar
  BY <1>1, MaySeen DEF outcomeBar
<1> QED BY <1>1, <1>5, <1>7, <1>8, SameTerms DEF Coop!Spawn

LEMMA SeesYield ==
  ASSUME IInv, Orderly, NEW t \in Tasks, YieldNow(t)
  PROVE  Orderly' /\ Coop!Yield(t)
<1>1. /\ pc[t] = "go" /\ pc[t] \in Evaluating /\ Begins(t)
      /\ run' = Append(Tail(run), Head(run)) /\ Goto(t, "notify")
      /\ UNCHANGED <<blocked, sblocked, queue, caps, closed, trap, stopping, op>>
  BY DEF YieldNow, Evaluating
<1>2. Leaves(Queued)
  BY <1>1, OnlyRun, WStays
<1>3. SameBorn /\ (~stopping' => trap' = "none")
  BY <1>1, Going DEF IInv, Orderly
<1>4. Orderly' /\ tstateBar' = tstateBar
  BY <1>2, <1>3, SameTasks
<1>5. Coop!May(t) /\ outcomeBar' = outcomeBar /\ Head(run) = t
  BY <1>1, MaySeen, AtHead DEF outcomeBar
<1> QED BY <1>1, <1>4, <1>5, SameTerms DEF Coop!Yield

LEMMA SeesSendPush ==
  ASSUME IInv, Orderly, NEW t \in Tasks, NEW c \in Chans, SendPush(t, c)
  PROVE  Orderly' /\ Coop!SendPush(t, c)
<1> DEFINE o == <<"recv", c>>
           s == <<"send", c>>
<1>1. /\ pc[t] = "go" /\ pc[t] \in Evaluating /\ Exists(c) /\ Starts(t, s)
      /\ c \notin closed /\ HasRoom(c) /\ queue' = [queue EXCEPT ![c] = @ + 1]
      /\ run' = WakeOne(run, blocked[c]) /\ blocked' = [blocked EXCEPT ![c] = Rest(blocked[c])]
      /\ op' = [op EXCEPT ![t] = Idle] /\ Goto(t, "notifyGo")
      /\ UNCHANGED <<sblocked, caps, closed, trap, stopping>>
  BY DEF SendPush, Evaluating
<1>2. /\ TypeOK /\ o \in Queues /\ s \in Queues /\ W[o] = blocked[c]
  BY WTypes DEF IInv
<1>3. W' = [W EXCEPT ![o] = Rest(W[o])]
  BY <1>1, <1>2, WRecv
<1>4. OpsOf(t) /\ run' = WakeOne(run, W[o])
  BY <1>1, <1>2 DEF OpsOf
<1> HIDE DEF o, s
<1>5. Leaves(Queued)
  BY <1>1, <1>2, <1>3, <1>4, OneWakes
<1>6. SameBorn /\ (~stopping' => trap' = "none")
  BY <1>1, <1>2, Going DEF Orderly
<1>7. Orderly' /\ tstateBar' = tstateBar
  BY <1>5, <1>6, SameTasks
<1>8. Coop!May(t) /\ outcomeBar' = outcomeBar
  BY <1>1, MaySeen DEF outcomeBar
<1>9. Coop!Starts(t, s) /\ Coop!Exists(c) /\ Coop!HasRoom(c)
  BY <1>1, <1>2, SameTerms
<1>10. /\ run' = Coop!WakeOne(run, blocked[c])
       /\ blocked' = [blocked EXCEPT ![c] = Coop!Rest(blocked[c])]
       /\ op' = [op EXCEPT ![t] = Coop!Idle]
  BY <1>1, SameTerms
<1> QED BY <1>1, <1>7, <1>8, <1>9, <1>10 DEF Coop!SendPush, s

LEMMA SeesRecvTake ==
  ASSUME IInv, Orderly, NEW t \in Tasks, NEW c \in Chans, RecvTake(t, c)
  PROVE  Orderly' /\ Coop!RecvTake(t, c)
<1> DEFINE o == <<"send", c>>
           s == <<"recv", c>>
<1>1. /\ pc[t] = "go" /\ pc[t] \in Evaluating /\ Exists(c) /\ Starts(t, s)
      /\ queue[c] > 0 /\ queue' = [queue EXCEPT ![c] = @ - 1]
      /\ run' = WakeOne(run, sblocked[c]) /\ sblocked' = [sblocked EXCEPT ![c] = Rest(sblocked[c])]
      /\ op' = [op EXCEPT ![t] = Idle] /\ Goto(t, "notifyGo")
      /\ UNCHANGED <<blocked, caps, closed, trap, stopping>>
  BY DEF RecvTake, Evaluating
<1>2. /\ TypeOK /\ o \in Queues /\ s \in Queues /\ W[o] = sblocked[c]
  BY WTypes DEF IInv
<1>3. W' = [W EXCEPT ![o] = Rest(W[o])]
  BY <1>1, <1>2, WSend
<1>4. OpsOf(t) /\ run' = WakeOne(run, W[o])
  BY <1>1, <1>2 DEF OpsOf
<1> HIDE DEF o, s
<1>5. Leaves(Queued)
  BY <1>1, <1>2, <1>3, <1>4, OneWakes
<1>6. SameBorn /\ (~stopping' => trap' = "none")
  BY <1>1, <1>2, Going DEF Orderly
<1>7. Orderly' /\ tstateBar' = tstateBar
  BY <1>5, <1>6, SameTasks
<1>8. Coop!May(t) /\ outcomeBar' = outcomeBar
  BY <1>1, MaySeen DEF outcomeBar
<1>9. Coop!Starts(t, s) /\ Coop!Exists(c)
  BY <1>1, <1>2, SameTerms
<1>10. /\ run' = Coop!WakeOne(run, sblocked[c])
       /\ sblocked' = [sblocked EXCEPT ![c] = Coop!Rest(sblocked[c])]
       /\ op' = [op EXCEPT ![t] = Coop!Idle]
  BY <1>1, SameTerms
<1> QED BY <1>1, <1>7, <1>8, <1>9, <1>10 DEF Coop!RecvTake, s

LEMMA SeesRecvClosed ==
  ASSUME IInv, Orderly, NEW t \in Tasks, NEW c \in Chans, RecvClosed(t, c)
  PROVE  Orderly' /\ Coop!RecvClosed(t, c)
<1> DEFINE s == <<"recv", c>>
<1>1. /\ pc[t] \in Evaluating /\ Exists(c) /\ Starts(t, s) /\ queue[c] = 0 /\ c \in closed
      /\ op' = [op EXCEPT ![t] = Idle]
      /\ UNCHANGED <<run, blocked, sblocked, queue, caps, closed, trap, stopping, pc>>
  BY DEF RecvClosed, Evaluating, shared
<1>2. s \in Queues
  BY DEF Queues
<1> HIDE DEF s
<1>3. Leaves(Queued)
  BY <1>1, OnlyRun, WStays DEF OpsOf
<1>4. SameBorn /\ (~stopping' => trap' = "none")
  BY <1>1 DEF SameBorn, Orderly
<1>5. Orderly' /\ tstateBar' = tstateBar
  BY <1>3, <1>4, SameTasks
<1>6. Coop!May(t) /\ outcomeBar' = outcomeBar
  BY <1>1, MaySeen DEF outcomeBar
<1>7. Coop!Starts(t, s) /\ Coop!Exists(c) /\ Coop!Idle = Idle
  BY <1>1, <1>2, SameTerms
<1> QED BY <1>1, <1>5, <1>6, <1>7 DEF Coop!RecvClosed, s

LEMMA SeesSendBlock ==
  ASSUME IInv, Orderly, NEW t \in Tasks, NEW c \in Chans, SendBlock(t, c)
  PROVE  Orderly' /\ Coop!SendBlock(t, c)
<1> DEFINE o == <<"send", c>>
           q == Append(sblocked[c], t)
<1>1. /\ pc[t] = "go" /\ pc[t] \in Evaluating /\ Exists(c) /\ Starts(t, o)
      /\ c \notin closed /\ ~HasRoom(c) /\ run' = Tail(run)
      /\ sblocked' = [sblocked EXCEPT ![c] = q] /\ op' = [op EXCEPT ![t] = o]
      /\ CheckEnd(run', blocked', sblocked') /\ Goto(t, "notify")
      /\ UNCHANGED <<blocked, queue, caps, closed>>
  BY DEF SendBlock, Evaluating
<1>2. /\ TypeOK /\ o \in Queues /\ W[o] = sblocked[c]
  BY WTypes DEF IInv
<1>3. W' = [W EXCEPT ![o] = q]
  BY <1>1, <1>2, WSend
<1>4. W' = [W EXCEPT ![o] = Append(W[o], t)]
  BY <1>2, <1>3
<1> HIDE DEF o
<1>5. Leaves(Queued)
  BY <1>1, <1>2, <1>4, HeadBlocks
<1>6. ~stopping /\ trap = "none"
  BY <1>1, AtHead
<1>7. /\ outcomeBar' = Coop!Ending(run', blocked', sblocked', [u \in Tasks |-> <<>>])
      /\ ~stopping' => trap' = "none"
  BY <1>1, <1>6, EndSeen
<1>8. SameBorn
  BY <1>1, <1>2, Going
<1>9. Orderly' /\ tstateBar' = tstateBar
  BY <1>5, <1>7, <1>8, SameTasks
<1>10. Coop!May(t)
  BY <1>1, MaySeen
<1>11. Coop!Starts(t, o) /\ Coop!Exists(c) /\ ~Coop!HasRoom(c)
  BY <1>1, <1>2, SameTerms
<1>12. Coop!Ending(run', blocked', sblocked', [u \in Tasks |-> <<>>])
         = Coop!Ending(run', blocked, sblocked', [u \in Tasks |-> <<>>])
  BY <1>1
<1> QED BY <1>1, <1>7, <1>9, <1>10, <1>11, <1>12 DEF Coop!SendBlock, o

LEMMA SeesRecvBlock ==
  ASSUME IInv, Orderly, NEW t \in Tasks, NEW c \in Chans, RecvBlock(t, c)
  PROVE  Orderly' /\ Coop!RecvBlock(t, c)
<1> DEFINE o == <<"recv", c>>
           q == Append(blocked[c], t)
<1>1. /\ pc[t] = "go" /\ pc[t] \in Evaluating /\ Exists(c) /\ Starts(t, o)
      /\ queue[c] = 0 /\ c \notin closed /\ run' = Tail(run)
      /\ blocked' = [blocked EXCEPT ![c] = q] /\ op' = [op EXCEPT ![t] = o]
      /\ CheckEnd(run', blocked', sblocked') /\ Goto(t, "notify")
      /\ UNCHANGED <<sblocked, queue, caps, closed>>
  BY DEF RecvBlock, Evaluating
<1>2. /\ TypeOK /\ o \in Queues /\ W[o] = blocked[c]
  BY WTypes DEF IInv
<1>3. W' = [W EXCEPT ![o] = q]
  BY <1>1, <1>2, WRecv
<1>4. W' = [W EXCEPT ![o] = Append(W[o], t)]
  BY <1>2, <1>3
<1> HIDE DEF o
<1>5. Leaves(Queued)
  BY <1>1, <1>2, <1>4, HeadBlocks
<1>6. ~stopping /\ trap = "none"
  BY <1>1, AtHead
<1>7. /\ outcomeBar' = Coop!Ending(run', blocked', sblocked', [u \in Tasks |-> <<>>])
      /\ ~stopping' => trap' = "none"
  BY <1>1, <1>6, EndSeen
<1>8. SameBorn
  BY <1>1, <1>2, Going
<1>9. Orderly' /\ tstateBar' = tstateBar
  BY <1>5, <1>7, <1>8, SameTasks
<1>10. Coop!May(t)
  BY <1>1, MaySeen
<1>11. Coop!Starts(t, o) /\ Coop!Exists(c)
  BY <1>1, <1>2, SameTerms
<1>12. Coop!Ending(run', blocked', sblocked', [u \in Tasks |-> <<>>])
         = Coop!Ending(run', blocked', sblocked, [u \in Tasks |-> <<>>])
  BY <1>1
<1> QED BY <1>1, <1>7, <1>9, <1>10, <1>11, <1>12 DEF Coop!RecvBlock, o

LEMMA SeesClose ==
  ASSUME IInv, Orderly, NEW t \in Tasks, NEW c \in Chans, Close(t, c)
  PROVE  Orderly' /\ Coop!Close(t, c)
<1> DEFINE o1 == <<"recv", c>>
           o2 == <<"send", c>>
<1>1. /\ pc[t] = "go" /\ pc[t] \in Evaluating /\ Exists(c) /\ Begins(t)
      /\ closed' = closed \cup {c} /\ run' = run \o blocked[c] \o sblocked[c]
      /\ blocked' = [blocked EXCEPT ![c] = <<>>] /\ sblocked' = [sblocked EXCEPT ![c] = <<>>]
      /\ Goto(t, "notifyGo") /\ UNCHANGED <<queue, caps, trap, stopping, op>>
  BY DEF Close, Evaluating
<1>2. /\ TypeOK /\ o1 \in Queues /\ o2 \in Queues \ {o1}
      /\ W[o1] = blocked[c] /\ W[o2] = sblocked[c] /\ W \in [Queues -> Seq(Tasks)]
  BY WTypes DEF IInv
<1>3. W' = [W EXCEPT ![o1] = <<>>, ![o2] = <<>>]
  <2>1. ASSUME NEW o \in Queues
        PROVE  W'[o] = IF o \in {o1, o2} THEN <<>> ELSE W[o]
    BY <1>1, <1>2 DEF W, Queues, TypeOK
  <2>2. W' = [o \in Queues |-> W'[o]] /\ W = [o \in Queues |-> W[o]]
    BY DEF W
  <2> QED BY <1>2, <2>1, <2>2
<1>4. run' = run \o W[o1] \o W[o2]
  BY <1>1, <1>2
<1> HIDE DEF o1, o2
<1>5. Leaves(Queued)
  BY <1>1, <1>2, <1>3, <1>4, TwoWake
<1>6. SameBorn /\ (~stopping' => trap' = "none")
  BY <1>1, <1>2, Going DEF Orderly
<1>7. Orderly' /\ tstateBar' = tstateBar
  BY <1>5, <1>6, SameTasks
<1>8. Coop!May(t) /\ outcomeBar' = outcomeBar
  BY <1>1, MaySeen DEF outcomeBar
<1>9. Coop!Begins(t) /\ Coop!Exists(c)
  BY <1>1, SameTerms
<1> QED BY <1>1, <1>7, <1>8, <1>9 DEF Coop!Close

LEMMA SeesFinish ==
  ASSUME IInv, Orderly, NEW t \in Tasks, Finish(t)
  PROVE  Orderly' /\ Coop!Exit(t)
<1>1. /\ pc[t] = "go" /\ pc[t] \in Evaluating /\ op[t] = Idle /\ run' = Without(run, t)
      /\ CheckEnd(run', blocked', sblocked') /\ Goto(t, "notifyEnd")
      /\ UNCHANGED <<blocked, sblocked, queue, caps, closed, op, used>>
  BY DEF Finish, Evaluating
<1>2. /\ TypeOK /\ run \in Seq(Tasks) /\ run # <<>> /\ Head(run) = t /\ IsInjective(run)
      /\ ~stopping /\ trap = "none" /\ Tail(run) \in Seq(Tasks)
      /\ t \in Range(run)
  BY <1>1, AtHead
<1>3. run' = Tail(run)
  BY <1>1, <1>2, WithoutHead
<1>4. Leaves(Queued \ {t})
  BY <1>1, <1>3, OnlyRun, WStays
<1>5. /\ outcomeBar' = Coop!Ending(run', blocked', sblocked', [u \in Tasks |-> <<>>])
      /\ ~stopping' => trap' = "none"
  BY <1>1, <1>2, EndSeen
<1>6. SameBorn
  BY <1>1, <1>2, Going
<1>7. Orderly'
  BY <1>4, <1>5, <1>6 DEF Orderly, Leaves, SameBorn
<1>8. tstateBar' = [u \in Tasks |-> IF pc'[u] = "unborn" THEN "unborn"
                                    ELSE IF u \in Queued' THEN "running" ELSE "done"]
  BY StatesStay DEF SeenByQueue, ByQueue
<1>9. tstateBar' = [tstateBar EXCEPT ![t] = "done"]
  <2>1. \A u \in Tasks : tstateBar'[u] = IF u = t THEN "done" ELSE tstateBar[u]
    BY <1>1, <1>4, <1>6, <1>8, StatesAre DEF SeenByQueue, ByQueue, Leaves, SameBorn
  <2>2. tstateBar' = [u \in Tasks |-> tstateBar'[u]] /\ tstateBar = [u \in Tasks |-> tstateBar[u]]
    BY <1>8, StatesAre DEF SeenByQueue, ByQueue
  <2> QED BY <2>1, <2>2
<1>10. Coop!May(t) /\ Coop!Idle = Idle
  BY <1>1, MaySeen, SameTerms
<1> DEFINE a == [u \in Tasks |-> <<>>]
           e == <<>>
<1>11. /\ a[t] = e /\ a' = a /\ [a EXCEPT ![t] = e] = a /\ run' = Tail(run) \o e
  BY <1>2, <1>3
<1>12. /\ a' = [a EXCEPT ![t] = e] /\ run' = Tail(run) \o a[t]
       /\ outcomeBar' = Coop!Ending(run', blocked, sblocked, a')
  BY <1>1, <1>5, <1>11
<1> HIDE DEF a
<1> QED BY <1>1, <1>9, <1>7, <1>10, <1>12 DEF Coop!Exit, a

LEMMA SeesRecordTrap ==
  ASSUME IInv, Orderly, NEW t \in Tasks, RecordTrap(t)
  PROVE  Orderly' /\ Coop!Trap(t)
<1>1. /\ pc[t] = "trap" /\ pc[t] \in Evaluating
      /\ trap' = IF trap = "none" THEN "trap" ELSE trap
      /\ stopping' = TRUE /\ Goto(t, "notifyEnd")
      /\ UNCHANGED <<run, blocked, sblocked, queue, caps, closed, op, used>>
  BY DEF RecordTrap, Evaluating
<1>2. TypeOK /\ trap = "none"
  BY <1>1, AtHead
<1>3. Leaves(Queued)
  BY <1>1, OnlyRun, WStays DEF OpsOf
<1>4. SameBorn
  BY <1>1, <1>2, Going
<1>5. Orderly' /\ tstateBar' = tstateBar
  BY <1>1, <1>3, <1>4, SameTasks
<1>6. Coop!May(t) /\ outcomeBar' = "trap"
  BY <1>1, <1>2, MaySeen DEF outcomeBar
<1> QED BY <1>1, <1>5, <1>6 DEF Coop!Trap

\* A thread that waits for its turn, is woken, ends, creates another thread or starts
\* to unwind changes nothing that CoopSched sees.
LEMMA Unseen ==
  ASSUME IInv, Orderly, NEW t \in Tasks,
         \/ AwaitTurn(t) \/ SpuriousWake(t) \/ NotifyAll(t) \/ BodyTrap(t)
         \/ \E u \in Tasks : SpawnThread(t, u)
         \/ \E c \in Chans : SendClosed(t, c)
  PROVE  Orderly' /\ UNCHANGED Coop!vars
<1>1. UNCHANGED <<run, blocked, sblocked, queue, caps, closed, trap, stopping, op, used>>
  BY DEF AwaitTurn, SpuriousWake, NotifyAll, BodyTrap, SpawnThread, SendClosed, shared
<1>2. TypeOK
  BY DEF IInv
<1>3. SameBorn
  <2>1. CASE AwaitTurn(t) \/ SpuriousWake(t)
    BY <1>2, <2>1 DEF AwaitTurn, SpuriousWake, Goto, TypeOK, SameBorn
  <2>2. CASE NotifyAll(t)
    BY <1>2, <2>2 DEF NotifyAll, TypeOK, SameBorn
  <2>3. CASE BodyTrap(t) \/ \E c \in Chans : SendClosed(t, c)
    BY <1>2, <2>3, Going DEF BodyTrap, SendClosed
  <2>4. CASE \E u \in Tasks : SpawnThread(t, u)
    BY <1>2, <2>4 DEF SpawnThread, TypeOK, SameBorn
  <2> QED BY <2>1, <2>2, <2>3, <2>4
<1>4. W' = W
  BY <1>1, WStays
<1>5. Leaves(Queued)
  BY <1>1, <1>4 DEF Leaves, Orderly, Queued, Parked, ParkedBy
<1>6. Orderly' /\ tstateBar' = tstateBar
  BY <1>1, <1>3, <1>5, SameTasks DEF Orderly
<1> QED BY <1>1, <1>6 DEF Coop!vars, outcomeBar

LEMMA CoopStep ==
  ASSUME IInv, Orderly, [Next]_vars
  PROVE  Orderly' /\ [Coop!Next]_(Coop!vars)
<1>1. CASE UNCHANGED vars
  <2>1. /\ UNCHANGED <<run, blocked, sblocked, queue, caps, closed, trap, stopping, op, used, pc>>
    BY <1>1 DEF vars
  <2>2. Leaves(Queued) /\ SameBorn
    BY <2>1 DEF Leaves, Orderly, Queued, Parked, ParkedBy, W, SameBorn
  <2>3. Orderly' /\ tstateBar' = tstateBar
    BY <2>1, <2>2, SameTasks DEF Orderly
  <2> QED BY <2>1, <2>3 DEF Coop!vars, outcomeBar
<1>2. CASE Next
  <2>1. PICK t \in Tasks : Step(t) \/ SpuriousWake(t)
    BY <1>2 DEF Next
  <2>2. ASSUME NEW c \in Chans, NEW k \in Caps, NewChannel(t, c, k)
        PROVE  Orderly' /\ Coop!Step(t)
    BY <2>2, SeesNewChannel DEF Coop!Step
  <2>3. ASSUME NEW u \in Tasks, EnqueueNewTask(t, u) PROVE Orderly' /\ Coop!Step(t)
    BY <2>3, SeesSpawn DEF Coop!Step
  <2>4. CASE YieldNow(t)
    <3>1. Orderly' /\ Coop!Step(t)
      BY <2>4, SeesYield DEF Coop!Step
    <3> QED BY <3>1 DEF Coop!Next
  <2>5. ASSUME NEW c \in Chans, SendPush(t, c) PROVE Orderly' /\ Coop!Step(t)
    BY <2>5, SeesSendPush DEF Coop!Step
  <2>6. ASSUME NEW c \in Chans, SendBlock(t, c) PROVE Orderly' /\ Coop!Step(t)
    BY <2>6, SeesSendBlock DEF Coop!Step
  <2>7. ASSUME NEW c \in Chans, RecvTake(t, c) PROVE Orderly' /\ Coop!Step(t)
    BY <2>7, SeesRecvTake DEF Coop!Step
  <2>8. ASSUME NEW c \in Chans, RecvClosed(t, c) PROVE Orderly' /\ Coop!Step(t)
    BY <2>8, SeesRecvClosed DEF Coop!Step
  <2>9. ASSUME NEW c \in Chans, RecvBlock(t, c) PROVE Orderly' /\ Coop!Step(t)
    BY <2>9, SeesRecvBlock DEF Coop!Step
  <2>10. ASSUME NEW c \in Chans, Close(t, c) PROVE Orderly' /\ Coop!Step(t)
    BY <2>10, SeesClose DEF Coop!Step
  <2>11. CASE Finish(t)
    <3>1. Orderly' /\ Coop!Step(t)
      BY <2>11, SeesFinish DEF Coop!Step
    <3> QED BY <3>1 DEF Coop!Next
  <2>12. CASE RecordTrap(t)
    <3>1. Orderly' /\ Coop!Step(t)
      BY <2>12, SeesRecordTrap DEF Coop!Step
    <3> QED BY <3>1 DEF Coop!Next
  <2>13. CASE \/ AwaitTurn(t) \/ SpuriousWake(t) \/ NotifyAll(t) \/ BodyTrap(t)
              \/ \E u \in Tasks : SpawnThread(t, u)
              \/ \E c \in Chans : SendClosed(t, c)
    BY <2>13, Unseen
  <2>14. (Orderly' /\ Coop!Step(t)) => (Orderly' /\ [Coop!Next]_(Coop!vars))
    BY DEF Coop!Next
  <2> QED BY <2>1, <2>2, <2>3, <2>4, <2>5, <2>6, <2>7, <2>8, <2>9, <2>10, <2>11, <2>12,
             <2>13, <2>14 DEF Step
<1> QED BY <1>1, <1>2

LEMMA CoopInitial == Init => Orderly /\ Coop!Init
<1> SUFFICES ASSUME Init PROVE Orderly /\ Coop!Init
  OBVIOUS
<1>1. /\ run = <<Main>> /\ blocked = [c \in Chans |-> <<>>] /\ sblocked = [c \in Chans |-> <<>>]
      /\ queue = [c \in Chans |-> 0] /\ caps = [c \in Chans |-> None] /\ closed = {}
      /\ trap = "none" /\ stopping = FALSE
      /\ pc = [t \in Tasks |-> IF t = Main THEN "turn" ELSE "unborn"]
      /\ op = [t \in Tasks |-> Idle] /\ used = [t \in Tasks |-> 0] /\ Main \in Tasks
  BY RefAssumption DEF Init
<1>2. Range(run) = {Main} /\ IsInjective(run)
  BY <1>1 DEF Range, IsInjective
<1>3. \A o \in Queues : W[o] = <<>>
  BY <1>1 DEF W, Queues
<1>4. Parked(W) = {}
  BY <1>3, OfEmpty DEF Parked, ParkedBy
<1>5. PlacedBy(Queues, run, W, op)
  BY <1>2, <1>3, OfEmpty DEF PlacedBy
<1>6. Queued = {Main}
  BY <1>2, <1>4 DEF Queued
<1>7. Orderly
  BY <1>1, <1>5, <1>6 DEF Orderly
<1>8. tstateBar = [t \in Tasks |-> IF t = Main THEN "running" ELSE "unborn"]
  BY <1>1, <1>6, StatesAre DEF SeenByQueue, ByQueue
<1>9. outcomeBar = "running"
  BY <1>1 DEF outcomeBar
<1> QED BY <1>1, <1>7, <1>8, <1>9 DEF Coop!Init, None, Idle, Coop!None, Coop!Idle

\* Nobody stands in two queues, and a task is queued only once it exists: for any
\* number of threads, whatever the operating system does.
THEOREM QueuesInOrder == Spec => []Orderly
<1>1. Init => IInv /\ Orderly
  BY InitInv, CoopInitial
<1>2. (IInv /\ Orderly) /\ [Next]_vars => (IInv /\ Orderly)'
  BY NextInv, CoopStep
<1> QED BY <1>1, <1>2, PTL DEF Spec

\* The interpreter's threads, with their mutex, their condition variable and their
\* turns, do nothing that CoopSched does not allow the task at the head of R.
THEOREM InterpreterImplementsCoop == Spec => ImplementsCoop
<1>1. Init => (IInv /\ Orderly) /\ Coop!Init
  BY InitInv, CoopInitial
<1>2. (IInv /\ Orderly) /\ [Next]_vars => (IInv /\ Orderly)' /\ [Coop!Next]_(Coop!vars)
  BY NextInv, CoopStep
<1> QED BY <1>1, <1>2, PTL DEF Spec, ImplementsCoop, Coop!Spec

=============================================================================
