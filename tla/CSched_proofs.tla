----------------------------- MODULE CSched_proofs -----------------------------
(***************************************************************************)
(* The C scheduler for any tasks, channels, capacities and number of       *)
(* operations: only the holder of the baton is outside the waiting loops,  *)
(* the two counters kept by hand are right, the process reports the end    *)
(* that CoopSched defines, and the whole implements CoopSched.             *)
(***************************************************************************)
EXTENDS CSched, QueueLemmas, FunctionTheorems

Queues == ({"send", "recv"} \X Chans) \cup ({"await"} \X Tasks)

\* All the waiting queues as one family, indexed by the operation their members
\* will execute again.
W == [o \in Queues |->
        IF o[1] = "recv" THEN blocked[o[2]]
        ELSE IF o[1] = "send" THEN sblocked[o[2]] ELSE ablocked[o[2]]]

\* With run queue r and waiting queues w nobody is in two places, and who waits
\* in a queue is to execute its operation.
PlacedIn(r, w, p) == PlacedBy(Queues, r, w, p)
ParkedIn(w) == ParkedBy(Tasks, Queues, w)

Placed == PlacedIn(run, W, op)
Parked == ParkedIn(W)

\* The tasks manit_live_tasks counts: not one that has left, even if it stays
\* behind to report a deadlock.
Live == {t \in Tasks : /\ pc[t] \notin {"unborn", "gone"}
                       /\ pc[t] = "faulting" => handle[t] \in {"none", "running"}}

Counts == blockedCount = Cardinality(Parked) /\ liveTasks = Cardinality(Live)

\* The baton is with the head of R, or with nobody, or, when R is empty, with the
\* task that reports the deadlock.
Baton ==
  /\ \A t \in Tasks : pc[t] \in Holding \cup {"faulting"} => current = t
  /\ run # <<>> => /\ current = Head(run)
                   /\ pc[current] \in Holding \cup {"faulting", "start", "wait"}
  /\ run = <<>> => current = Nobody \/ (current \in Tasks /\ pc[current] = "faulting")

\* Where in the code a task on R, on a waiting queue or on none is.
Stages ==
  \A t \in Tasks :
    /\ t \in Range(run) => t = current \/ pc[t] \in {"queued", "start", "wait"}
    /\ t \in Parked => pc[t] = "wait" \/ (pc[t] = "faulting" /\ run = <<>>)
    /\ pc[t] \in Holding \cup {"queued", "start", "wait"} => t \in Range(run) \cup Parked
    /\ pc[t] = "queued" =>
         /\ current \in Tasks
         /\ pc[current] = "faulting" \/ (pc[current] = "create" /\ arg[current] = t)
    /\ pc[t] = "quiesce" => t = Main

\* What the call a task is in is about, and what it has seen of it.
ArgsOf(t) ==
  /\ pc[t] = "create" => arg[t] \in Tasks /\ pc[arg[t]] = "queued"
  /\ pc[t] \in {"sendWake", "recvWake", "closeRecv", "closeSend"} => arg[t] \in Chans
  /\ pc[t] = "sendFull" =>
       arg[t] \in Chans /\ Exists(arg[t]) /\ arg[t] \notin closed /\ ~HasRoom(arg[t])
  /\ pc[t] = "recvEmpty" =>
       arg[t] \in Chans /\ Exists(arg[t]) /\ arg[t] \notin closed /\ queue[arg[t]] = 0
  /\ pc[t] = "awaitRunning" => arg[t] \in Tasks /\ handle[arg[t]] = "running"
  /\ pc[t] \in {"complete", "leave", "quiesce"} => op[t] = Idle

Args == \A t \in Tasks : ArgsOf(t)

Handles ==
  /\ pc[Main] # "unborn" /\ ablocked[Main] = <<>>
  /\ \A t \in Tasks :
       /\ handle[t] = "none" <=> (pc[t] = "unborn" \/ t = Main)
       /\ handle[t] \in {"done", "taken"} => pc[t] \in {"complete", "leave", "gone", "faulting"}
       /\ pc[t] \in {"complete", "leave", "gone"} => handle[t] \in {"done", "taken"}

Drained == run = <<>> /\ current = Nobody /\ blockedCount = 0

\* Main is let out of its wait only when all is drained, unless its condition
\* variable wakes by itself; a deadlock is reported of an empty R, anything else
\* by a task on R.
Finish ==
  /\ "manit_quiesce" \notin Spurious =>
       /\ \A t \in Tasks : pc[t] = "quiesce" /\ t \notin asleep => Drained
       /\ outcome = "ended" => Drained
  /\ \A t \in Tasks : pc[t] = "faulting" =>
       /\ why[t] \in Faults
       /\ IF why[t] \in {"await", "fill"} THEN run = <<>> /\ blockedCount > 0
          ELSE run # <<>>
  /\ outcome \in Faults => \E t \in Tasks : pc[t] = "faulting" /\ why[t] = outcome

IInv == TypeOK /\ Placed /\ Counts /\ Baton /\ Stages /\ Args /\ Handles /\ Finish

-----------------------------------------------------------------------------
(* Moving tasks between R and the waiting queues: what QueueLemmas says of *)
(* any queues, of these.                                                   *)

\* Who waits is not on R, and there are finitely many of them.
LEMMA Apart ==
  ASSUME NEW r \in Seq(Tasks), NEW w \in [Queues -> Seq(Tasks)], NEW p,
         PlacedIn(r, w, p)
  PROVE  /\ ParkedIn(w) \cap Range(r) = {}
         /\ ParkedIn(w) \subseteq Tasks /\ IsFiniteSet(ParkedIn(w))
         /\ \A o \in Queues : Range(w[o]) \subseteq ParkedIn(w)
BY CAssumption, WaitingApart DEF PlacedIn, ParkedIn

\* manit_sched_block_on: the head of R goes to the end of the queue at o.
LEMMA Blocks ==
  ASSUME NEW r \in Seq(Tasks), NEW w \in [Queues -> Seq(Tasks)], NEW p \in [Tasks -> Ops],
         PlacedIn(r, w, p), r # <<>>, NEW o \in Queues
  PROVE  /\ PlacedIn(Tail(r), [w EXCEPT ![o] = Append(@, Head(r))], [p EXCEPT ![Head(r)] = o])
         /\ ParkedIn([w EXCEPT ![o] = Append(@, Head(r))]) = ParkedIn(w) \cup {Head(r)}
         /\ Head(r) \notin ParkedIn(w)
<1>1. PlacedBy(Queues, r, w, p)
  BY DEF PlacedIn
<1>2. HeadJoins(Tasks, Queues, r, w, p, o)
  BY <1>1, HeadWaits
<1> QED BY <1>2 DEF HeadJoins, PlacedIn, ParkedIn

\* manit_sched_wake_one: the first of the queue at o goes to the end of R.
LEMMA WakesOne ==
  ASSUME NEW r \in Seq(Tasks), NEW w \in [Queues -> Seq(Tasks)], NEW p,
         PlacedIn(r, w, p), NEW o \in Queues, w[o] # <<>>
  PROVE  /\ PlacedIn(Append(r, Head(w[o])), [w EXCEPT ![o] = Tail(@)], p)
         /\ ParkedIn([w EXCEPT ![o] = Tail(@)]) = ParkedIn(w) \ {Head(w[o])}
         /\ Range(Append(r, Head(w[o]))) = Range(r) \cup {Head(w[o])}
         /\ Append(r, Head(w[o])) \in Seq(Tasks)
         /\ Head(w[o]) \in ParkedIn(w)
BY FirstWakes DEF PlacedIn, ParkedIn

\* manit_sched_wake_all: the queue at o goes to the end of R.
LEMMA WakesAll ==
  ASSUME NEW r \in Seq(Tasks), NEW w \in [Queues -> Seq(Tasks)], NEW p,
         PlacedIn(r, w, p), NEW o \in Queues
  PROVE  /\ PlacedIn(r \o w[o], [w EXCEPT ![o] = <<>>], p)
         /\ ParkedIn([w EXCEPT ![o] = <<>>]) = ParkedIn(w) \ Range(w[o])
         /\ Range(r \o w[o]) = Range(r) \cup Range(w[o])
         /\ r \o w[o] \in Seq(Tasks)
         /\ Range(w[o]) \subseteq ParkedIn(w)
         /\ Cardinality(Range(w[o])) = Len(w[o])
<1>1. PlacedBy(Queues, r, w, p)
  BY DEF PlacedIn
<1>2. AreWoken(Tasks, Queues, r, w, p, o)
  BY <1>1, AllWake
<1> QED BY <1>2 DEF AreWoken, PlacedIn, ParkedIn

\* R alone changes: its head leaves, or goes to the end, or a task is appended
\* that was nowhere; and a task on R may begin or end an operation.
LEMMA RunMoves ==
  ASSUME NEW r \in Seq(Tasks), NEW w \in [Queues -> Seq(Tasks)], NEW p,
         PlacedIn(r, w, p)
  PROVE  /\ r # <<>> => /\ PlacedIn(Tail(r), w, p)
                        /\ PlacedIn(Append(Tail(r), Head(r)), w, p)
                        /\ Tail(r) \in Seq(Tasks) /\ Append(Tail(r), Head(r)) \in Seq(Tasks)
                        /\ Range(Append(Tail(r), Head(r))) = Range(r)
                        /\ Head(r) \in Tasks /\ Head(r) \in Range(r)
                        /\ Range(Tail(r)) = Range(r) \ {Head(r)}
         /\ \A u \in Tasks \ (Range(r) \cup ParkedIn(w)) :
              PlacedIn(Append(r, u), w, p) /\ Range(Append(r, u)) = Range(r) \cup {u}
         /\ \A p2 : (\A t \in ParkedIn(w) : p2[t] = p[t]) => PlacedIn(r, w, p2)
BY RunAlone DEF PlacedIn, ParkedIn

-----------------------------------------------------------------------------
(* The queues of the state.                                                *)

LEMMA WTypes ==
  ASSUME TypeOK
  PROVE  /\ W \in [Queues -> Seq(Tasks)]
         /\ \A c \in Chans : /\ <<"recv", c>> \in Queues /\ W[<<"recv", c>>] = blocked[c]
                             /\ <<"send", c>> \in Queues /\ W[<<"send", c>>] = sblocked[c]
         /\ \A u \in Tasks : <<"await", u>> \in Queues /\ W[<<"await", u>>] = ablocked[u]
<1>1. /\ blocked \in [Chans -> Seq(Tasks)] /\ sblocked \in [Chans -> Seq(Tasks)]
      /\ ablocked \in [Tasks -> Seq(Tasks)]
  BY DEF TypeOK
<1>2. ASSUME NEW o \in Queues
      PROVE  (IF o[1] = "recv" THEN blocked[o[2]]
              ELSE IF o[1] = "send" THEN sblocked[o[2]] ELSE ablocked[o[2]]) \in Seq(Tasks)
  BY <1>1 DEF Queues
<1>3. W \in [Queues -> Seq(Tasks)]
  BY <1>2 DEF W
<1>4. ASSUME NEW c \in Chans
      PROVE  /\ <<"recv", c>> \in Queues /\ W[<<"recv", c>>] = blocked[c]
             /\ <<"send", c>> \in Queues /\ W[<<"send", c>>] = sblocked[c]
  BY DEF W, Queues
<1>5. ASSUME NEW u \in Tasks
      PROVE  <<"await", u>> \in Queues /\ W[<<"await", u>>] = ablocked[u]
  BY DEF W, Queues
<1> QED BY <1>3, <1>4, <1>5

LEMMA WStays ==
  ASSUME UNCHANGED <<blocked, sblocked, ablocked>>
  PROVE  W' = W
BY DEF W

\* One queue of one family changes.
LEMMA WRecv ==
  ASSUME TypeOK, NEW c \in Chans, NEW q, blocked' = [blocked EXCEPT ![c] = q],
         UNCHANGED <<sblocked, ablocked>>
  PROVE  W' = [W EXCEPT ![<<"recv", c>>] = q]
<1>1. ASSUME NEW o \in Queues
      PROVE  W'[o] = IF o = <<"recv", c>> THEN q ELSE W[o]
  BY DEF W, Queues, TypeOK
<1>2. W' = [o \in Queues |-> W'[o]] /\ W = [o \in Queues |-> W[o]]
  BY DEF W
<1> QED BY <1>1, <1>2

LEMMA WSend ==
  ASSUME TypeOK, NEW c \in Chans, NEW q, sblocked' = [sblocked EXCEPT ![c] = q],
         UNCHANGED <<blocked, ablocked>>
  PROVE  W' = [W EXCEPT ![<<"send", c>>] = q]
<1>1. ASSUME NEW o \in Queues
      PROVE  W'[o] = IF o = <<"send", c>> THEN q ELSE W[o]
  BY DEF W, Queues, TypeOK
<1>2. W' = [o \in Queues |-> W'[o]] /\ W = [o \in Queues |-> W[o]]
  BY DEF W
<1> QED BY <1>1, <1>2

LEMMA WAwait ==
  ASSUME TypeOK, NEW u \in Tasks, NEW q, ablocked' = [ablocked EXCEPT ![u] = q],
         UNCHANGED <<blocked, sblocked>>
  PROVE  W' = [W EXCEPT ![<<"await", u>>] = q]
<1>1. ASSUME NEW o \in Queues
      PROVE  W'[o] = IF o = <<"await", u>> THEN q ELSE W[o]
  BY DEF W, Queues, TypeOK
<1>2. W' = [o \in Queues |-> W'[o]] /\ W = [o \in Queues |-> W[o]]
  BY DEF W
<1> QED BY <1>1, <1>2

\* The thread that holds the baton is the head of R, waits nowhere, and is the
\* only one outside the waiting loops; no new task lacks its thread.
LEMMA Holder ==
  ASSUME IInv, NEW t \in Tasks, pc[t] \in Holding
  PROVE  /\ current = t /\ run \in Seq(Tasks) /\ run # <<>> /\ Head(run) = t
         /\ t \in Range(run) /\ t \notin Parked
         /\ Parked \cap Range(run) = {} /\ Parked \subseteq Tasks
         /\ \A u \in Tasks \ {t} : pc[u] \notin Holding \cup {"faulting"}
         /\ \A u \in Tasks : pc[u] = "queued" => pc[t] = "create" /\ arg[t] = u
         /\ Nobody \notin Tasks /\ IsFiniteSet(Parked)
<1>1. current = t
  BY DEF IInv, Baton
<1>2. Nobody \notin Tasks
  BY NobodyIsNoTask
<1>3. pc[t] # "faulting"
  BY DEF Holding
<1>4. run # <<>>
  BY <1>1, <1>2, <1>3 DEF IInv, Baton
<1>5. run \in Seq(Tasks) /\ Head(run) = t
  BY <1>1, <1>4 DEF IInv, Baton, TypeOK
<1>6. t \in Range(run)
  BY <1>4, <1>5, OfTail
<1>7. Parked \cap Range(run) = {} /\ Parked \subseteq Tasks /\ IsFiniteSet(Parked)
  BY <1>5, WTypes, Apart DEF IInv, Placed, Parked
<1>8. \A u \in Tasks \ {t} : pc[u] \notin Holding \cup {"faulting"}
  BY <1>1 DEF IInv, Baton
<1>9. \A u \in Tasks : pc[u] = "queued" => pc[t] = "create" /\ arg[t] = u
  BY <1>1, <1>3 DEF IInv, Stages
<1> QED BY <1>1, <1>2, <1>4, <1>5, <1>6, <1>7, <1>8, <1>9

-----------------------------------------------------------------------------
(* The holder of the baton keeps it.                                       *)

\* Thread t goes on at x.
Keeps(t, x) ==
  /\ outcome = "running" /\ pc[t] \in Holding \ {"create"}
  /\ x \in (Holding \ {"create"}) \cup {"faulting"}
  /\ pc' = [pc EXCEPT ![t] = x]
  /\ UNCHANGED <<current, asleep, outcome>>

\* Nobody moves, or some who waited go to the end of R.
Moved ==
  /\ Placed'
  /\ run' \in Seq(Tasks) /\ run' # <<>> /\ Head(run') = Head(run)
  /\ Range(run) \subseteq Range(run')
  /\ Range(run') \cup Parked' = Range(run) \cup Parked
  /\ Parked' \subseteq Parked
  /\ blockedCount' = Cardinality(Parked') /\ blockedCount' \in Nat

LEMMA NobodyMoves ==
  ASSUME IInv, NEW t \in Tasks, pc[t] \in Holding,
         UNCHANGED <<run, blocked, sblocked, ablocked, blockedCount>>,
         \A u \in Tasks \ {t} : op'[u] = op[u]
  PROVE  Moved
<1>1. run \in Seq(Tasks) /\ run # <<>> /\ t \notin Parked /\ Parked \subseteq Tasks
  BY Holder
<1>2. W \in [Queues -> Seq(Tasks)] /\ W' = W
  BY WTypes, WStays DEF IInv
<1>3. Parked' = Parked
  BY <1>2 DEF Parked, ParkedIn, ParkedBy
<1>4. \A u \in ParkedIn(W) : op'[u] = op[u]
  BY <1>1 DEF Parked
<1>5. PlacedIn(run, W, op')
  BY <1>1, <1>2, <1>4, RunMoves DEF IInv, Placed
<1>6. Placed'
  BY <1>2, <1>5 DEF Placed
<1>7. blockedCount = Cardinality(Parked) /\ blockedCount \in Nat
  BY DEF IInv, Counts, TypeOK
<1> QED BY <1>1, <1>3, <1>6, <1>7 DEF Moved

\* One task is woken of the queue at o.
LEMMA OneMoves ==
  ASSUME IInv, NEW t \in Tasks, pc[t] \in Holding, NEW o \in Queues, W[o] # <<>>,
         run' = Append(run, Head(W[o])), W' = [W EXCEPT ![o] = Tail(@)],
         blockedCount' = blockedCount - 1, op' = op
  PROVE  Moved
<1> DEFINE h == Head(W[o])
<1>1. /\ run \in Seq(Tasks) /\ run # <<>> /\ Parked \subseteq Tasks /\ IsFiniteSet(Parked)
  BY Holder
<1>2. W \in [Queues -> Seq(Tasks)] /\ PlacedIn(run, W, op)
  BY WTypes DEF IInv, Placed
<1>3. /\ PlacedIn(run', W', op) /\ ParkedIn(W') = ParkedIn(W) \ {h}
      /\ Range(run') = Range(run) \cup {h} /\ run' \in Seq(Tasks) /\ h \in ParkedIn(W)
  BY <1>1, <1>2, WakesOne
<1>4. h \in Tasks
  BY <1>1, <1>3 DEF Parked
<1>5. run' # <<>> /\ Head(run') = Head(run)
  BY <1>1, <1>4, OfAppend
<1>6. Parked' = Parked \ {h} /\ h \in Parked /\ Placed'
  BY <1>3 DEF Parked, Placed, ParkedIn, ParkedBy
<1>7. Cardinality(Parked') = Cardinality(Parked) - 1 /\ Cardinality(Parked') \in Nat
  BY <1>1, <1>6, FS_RemoveElement, FS_Subset, FS_CardinalityType
<1>8. blockedCount = Cardinality(Parked)
  BY DEF IInv, Counts
<1> QED BY <1>3, <1>5, <1>6, <1>7, <1>8 DEF Moved

\* All tasks of the queue at o are woken.
LEMMA AllMove ==
  ASSUME IInv, NEW t \in Tasks, pc[t] \in Holding, NEW o \in Queues,
         run' = run \o W[o], W' = [W EXCEPT ![o] = <<>>],
         blockedCount' = blockedCount - Len(W[o]), op' = op
  PROVE  Moved
<1> DEFINE R == Range(W[o])
<1>1. run \in Seq(Tasks) /\ run # <<>> /\ Parked \subseteq Tasks /\ IsFiniteSet(Parked)
  BY Holder
<1>2. W \in [Queues -> Seq(Tasks)] /\ PlacedIn(run, W, op)
  BY WTypes DEF IInv, Placed
<1>3. /\ PlacedIn(run', W', op) /\ ParkedIn(W') = ParkedIn(W) \ R
      /\ Range(run') = Range(run) \cup R /\ run' \in Seq(Tasks) /\ R \subseteq ParkedIn(W)
      /\ Cardinality(R) = Len(W[o])
  BY <1>1, <1>2, WakesAll
<1>5. run' # <<>> /\ Head(run') = Head(run)
  BY <1>1, <1>2, OfConcat
<1>6. Parked' = Parked \ R /\ R \subseteq Parked /\ Placed'
  BY <1>3 DEF Parked, Placed, ParkedIn, ParkedBy
<1>7. /\ Cardinality(Parked') = Cardinality(Parked) - Cardinality(R)
      /\ Cardinality(Parked') \in Nat
  <2>1. IsFiniteSet(R) /\ IsFiniteSet(Parked')
    BY <1>1, <1>6, FS_Subset
  <2>2. Parked \cap R = R
    BY <1>6
  <2>3. Cardinality(Parked \ R) = Cardinality(Parked) - Cardinality(Parked \cap R)
    BY <1>1, <2>1, FS_Difference
  <2> QED BY <1>6, <2>1, <2>2, <2>3, FS_CardinalityType
<1>8. blockedCount = Cardinality(Parked)
  BY DEF IInv, Counts
<1>9. blockedCount' = Cardinality(Parked')
  <2> DEFINE n == Len(W[o])
             k == Cardinality(R)
  <2>1. n = k
    BY <1>3
  <2> HIDE DEF n, k
  <2>2. blockedCount' = blockedCount - n /\ Cardinality(Parked') = Cardinality(Parked) - k
    BY <1>7 DEF n, k
  <2> QED BY <1>8, <2>1, <2>2
<1> QED BY <1>3, <1>5, <1>6, <1>7, <1>9 DEF Moved

\* The same in the terms of the queues of the runtime.
LEMMA OneWoken ==
  ASSUME IInv, NEW t \in Tasks, pc[t] \in Holding, NEW c \in Chans, op' = op,
         \/ WakeOne(blocked, c) /\ UNCHANGED <<sblocked, ablocked>>
         \/ WakeOne(sblocked, c) /\ UNCHANGED <<blocked, ablocked>>
  PROVE  /\ Moved
         /\ blocked' \in [Chans -> Seq(Tasks)] /\ sblocked' \in [Chans -> Seq(Tasks)]
<1>0. TypeOK /\ blocked \in [Chans -> Seq(Tasks)] /\ sblocked \in [Chans -> Seq(Tasks)]
  BY DEF IInv, TypeOK
<1>1. CASE WakeOne(blocked, c) /\ UNCHANGED <<sblocked, ablocked>>
  <2> DEFINE o == <<"recv", c>>
  <2>0. o \in Queues /\ W[o] = blocked[c] /\ blocked[c] \in Seq(Tasks)
    BY <1>0, WTypes
  <2>1. CASE blocked[c] = <<>>
    <3>1. UNCHANGED <<run, blocked, sblocked, ablocked, blockedCount>>
      BY <1>1, <2>1 DEF WakeOne
    <3> QED BY <1>0, <3>1, NobodyMoves
  <2>2. CASE blocked[c] # <<>>
    <3>1. /\ run' = Append(run, Head(blocked[c])) /\ blockedCount' = blockedCount - 1
          /\ blocked' = [blocked EXCEPT ![c] = Tail(blocked[c])]
      BY <1>1, <2>2 DEF WakeOne
    <3>2. W' = [W EXCEPT ![o] = Tail(W[o])]
      BY <1>0, <1>1, <2>0, <3>1, WRecv
    <3>3. Tail(blocked[c]) \in Seq(Tasks)
      BY <2>0, <2>2, OfTail
    <3>4. Moved
      BY <2>0, <2>2, <3>1, <3>2, OneMoves
    <3> QED BY <1>0, <1>1, <3>1, <3>3, <3>4
  <2> QED BY <2>1, <2>2
<1>2. CASE WakeOne(sblocked, c) /\ UNCHANGED <<blocked, ablocked>>
  <2> DEFINE o == <<"send", c>>
  <2>0. o \in Queues /\ W[o] = sblocked[c] /\ sblocked[c] \in Seq(Tasks)
    BY <1>0, WTypes
  <2>1. CASE sblocked[c] = <<>>
    <3>1. UNCHANGED <<run, blocked, sblocked, ablocked, blockedCount>>
      BY <1>2, <2>1 DEF WakeOne
    <3> QED BY <1>0, <3>1, NobodyMoves
  <2>2. CASE sblocked[c] # <<>>
    <3>1. /\ run' = Append(run, Head(sblocked[c])) /\ blockedCount' = blockedCount - 1
          /\ sblocked' = [sblocked EXCEPT ![c] = Tail(sblocked[c])]
      BY <1>2, <2>2 DEF WakeOne
    <3>2. W' = [W EXCEPT ![o] = Tail(W[o])]
      BY <1>0, <1>2, <2>0, <3>1, WSend
    <3>3. Tail(sblocked[c]) \in Seq(Tasks)
      BY <2>0, <2>2, OfTail
    <3>4. Moved
      BY <2>0, <2>2, <3>1, <3>2, OneMoves
    <3> QED BY <1>0, <1>2, <3>1, <3>3, <3>4
  <2> QED BY <2>1, <2>2
<1> QED BY <1>1, <1>2

LEMMA AllWoken ==
  ASSUME IInv, NEW t \in Tasks, pc[t] \in Holding, op' = op
  PROVE  /\ \A c \in Chans :
              /\ WakeAll(blocked, c) /\ UNCHANGED <<sblocked, ablocked>> =>
                   Moved /\ blocked' \in [Chans -> Seq(Tasks)]
              /\ WakeAll(sblocked, c) /\ UNCHANGED <<blocked, ablocked>> =>
                   Moved /\ sblocked' \in [Chans -> Seq(Tasks)]
         /\ \A u \in Tasks : WakeAll(ablocked, u) /\ UNCHANGED <<blocked, sblocked>> =>
              Moved /\ ablocked' \in [Tasks -> Seq(Tasks)]
<1>0. /\ TypeOK /\ blocked \in [Chans -> Seq(Tasks)] /\ sblocked \in [Chans -> Seq(Tasks)]
      /\ ablocked \in [Tasks -> Seq(Tasks)] /\ <<>> \in Seq(Tasks)
  BY DEF IInv, TypeOK
<1>1. ASSUME NEW c \in Chans, WakeAll(blocked, c), UNCHANGED <<sblocked, ablocked>>
      PROVE  Moved /\ blocked' \in [Chans -> Seq(Tasks)]
  <2> DEFINE o == <<"recv", c>>
  <2>0. o \in Queues /\ W[o] = blocked[c]
    BY <1>0, WTypes
  <2>1. /\ run' = run \o blocked[c] /\ blockedCount' = blockedCount - Len(blocked[c])
        /\ blocked' = [blocked EXCEPT ![c] = <<>>]
    BY <1>1 DEF WakeAll
  <2>2. W' = [W EXCEPT ![o] = <<>>]
    BY <1>0, <1>1, <2>1, WRecv
  <2>3. Moved
    BY <2>0, <2>1, <2>2, AllMove
  <2> QED BY <1>0, <2>1, <2>3
<1>2. ASSUME NEW c \in Chans, WakeAll(sblocked, c), UNCHANGED <<blocked, ablocked>>
      PROVE  Moved /\ sblocked' \in [Chans -> Seq(Tasks)]
  <2> DEFINE o == <<"send", c>>
  <2>0. o \in Queues /\ W[o] = sblocked[c]
    BY <1>0, WTypes
  <2>1. /\ run' = run \o sblocked[c] /\ blockedCount' = blockedCount - Len(sblocked[c])
        /\ sblocked' = [sblocked EXCEPT ![c] = <<>>]
    BY <1>2 DEF WakeAll
  <2>2. W' = [W EXCEPT ![o] = <<>>]
    BY <1>0, <1>2, <2>1, WSend
  <2>3. Moved
    BY <2>0, <2>1, <2>2, AllMove
  <2> QED BY <1>0, <2>1, <2>3
<1>3. ASSUME NEW u \in Tasks, WakeAll(ablocked, u), UNCHANGED <<blocked, sblocked>>
      PROVE  Moved /\ ablocked' \in [Tasks -> Seq(Tasks)]
  <2> DEFINE o == <<"await", u>>
  <2>0. o \in Queues /\ W[o] = ablocked[u]
    BY <1>0, WTypes
  <2>1. /\ run' = run \o ablocked[u] /\ blockedCount' = blockedCount - Len(ablocked[u])
        /\ ablocked' = [ablocked EXCEPT ![u] = <<>>]
    BY <1>3 DEF WakeAll
  <2>2. W' = [W EXCEPT ![o] = <<>>]
    BY <1>0, <1>3, <2>1, WAwait
  <2>3. Moved
    BY <2>0, <2>1, <2>2, AllMove
  <2> QED BY <1>0, <2>1, <2>3
<1> QED BY <1>1, <1>2, <1>3


LEMMA KeepsBaton ==
  ASSUME IInv, NEW t \in Tasks, NEW x, Keeps(t, x), Moved
  PROVE  Baton' /\ Stages'
<1>1. /\ current = t /\ current' = t /\ run # <<>> /\ Head(run) = t
      /\ t \in Range(run) /\ t \notin Parked /\ Parked \cap Range(run) = {}
      /\ \A u \in Tasks \ {t} : pc[u] \notin Holding \cup {"faulting"}
      /\ \A u \in Tasks : pc[u] # "queued"
  BY Holder DEF Keeps
<1>2. /\ pc'[t] = x /\ \A u \in Tasks \ {t} : pc'[u] = pc[u]
      /\ x \in (Holding \ {"create"}) \cup {"faulting"}
  BY DEF Keeps, IInv, TypeOK
<1>3. /\ run' # <<>> /\ Head(run') = t /\ Range(run) \subseteq Range(run')
      /\ Range(run') \cup Parked' = Range(run) \cup Parked /\ Parked' \subseteq Parked
  BY <1>1 DEF Moved
<1>4. Baton'
  BY <1>1, <1>2, <1>3 DEF Baton
<1>5. ASSUME NEW u \in Tasks
      PROVE  /\ u \in Range(run') => u = current' \/ pc'[u] \in {"queued", "start", "wait"}
             /\ u \in Parked' => pc'[u] = "wait" \/ (pc'[u] = "faulting" /\ run' = <<>>)
             /\ pc'[u] \in Holding \cup {"queued", "start", "wait"} =>
                  u \in Range(run') \cup Parked'
             /\ pc'[u] # "queued"
             /\ pc'[u] = "quiesce" => u = Main
  <2>1. CASE u = t
    <3>1. u \in Range(run') /\ u \notin Parked'
      BY <1>1, <1>3, <2>1
    <3>2. pc'[u] # "queued" /\ pc'[u] # "quiesce"
      BY <1>2, <2>1 DEF Holding
    <3> QED BY <1>1, <2>1, <3>1, <3>2
  <2>2. CASE u # t
    <3>1. /\ u \in Range(run) => pc[u] \in {"queued", "start", "wait"}
          /\ u \in Parked => pc[u] = "wait"
          /\ pc[u] \in Holding \cup {"queued", "start", "wait"} => u \in Range(run) \cup Parked
          /\ pc[u] = "quiesce" => u = Main
      BY <1>1, <2>2 DEF IInv, Stages
    <3>2. pc'[u] = pc[u] /\ pc[u] # "queued"
      BY <1>1, <1>2, <2>2
    <3> QED BY <1>3, <3>1, <3>2
  <2> QED BY <2>1, <2>2
<1>6. Stages'
  BY <1>5 DEF Stages
<1> QED BY <1>4, <1>6

\* The calls of the other threads are not touched.
LEMMA KeepsArgs ==
  ASSUME IInv, NEW t \in Tasks, NEW x, Keeps(t, x),
         \A u \in Tasks \ {t} : op'[u] = op[u], ArgsOf(t)'
  PROVE  Args'
<1>1. /\ \A u \in Tasks \ {t} : pc[u] \notin Holding \cup {"faulting"}
      /\ \A u \in Tasks \ {t} : pc'[u] = pc[u]
  BY Holder DEF Keeps, IInv, TypeOK
<1>2. ASSUME NEW u \in Tasks \ {t} PROVE ArgsOf(u)'
  <2>1. pc[u] = "quiesce" => op[u] = Idle
    BY DEF IInv, Args, ArgsOf
  <2> QED BY <1>1, <2>1 DEF ArgsOf, Holding
<1> QED BY <1>2 DEF Args

\* The handles and the count of tasks stay.
LEMMA KeepsHandles ==
  ASSUME IInv, NEW t \in Tasks, NEW x, Keeps(t, x), pc[t] \notin {"complete", "leave"},
         x \notin {"complete", "leave"}, UNCHANGED <<handle, liveTasks>>,
         ablocked'[Main] = <<>>
  PROVE  Handles' /\ liveTasks' = Cardinality(Live')
<1>1. /\ pc'[t] = x /\ \A u \in Tasks \ {t} : pc'[u] = pc[u]
      /\ x \in Holding \cup {"faulting"} /\ Main \in Tasks
  BY CAssumption DEF Keeps, IInv, TypeOK
<1>2. pc[t] \notin {"unborn", "gone", "faulting", "complete", "leave"}
  BY DEF Keeps, Holding
<1>3. handle[t] \in {"none", "running"}
  BY <1>2 DEF IInv, Handles, TypeOK
<1>4. x \notin {"unborn", "gone", "complete", "leave"}
  BY <1>1 DEF Holding
<1>5. Handles'
  BY <1>1, <1>2, <1>3, <1>4 DEF Handles, IInv
<1>6. Live' = Live
  BY <1>1, <1>2, <1>3, <1>4 DEF Live
<1> QED BY <1>5, <1>6 DEF IInv, Counts

\* A fault of the task's own code is reported by a task on R.
LEMMA KeepsFinish ==
  ASSUME IInv, NEW t \in Tasks, NEW x, Keeps(t, x), run' # <<>>,
         x = "faulting" => why'[t] \in Faults \ {"await", "fill"}
  PROVE  Finish'
<1>1. /\ pc'[t] = x /\ \A u \in Tasks \ {t} : pc'[u] = pc[u]
      /\ x \in Holding \cup {"faulting"}
      /\ \A u \in Tasks \ {t} : pc[u] \notin Holding \cup {"faulting"}
      /\ asleep' = asleep /\ outcome = "running" /\ outcome' = "running"
      /\ run # <<>>
  BY Holder DEF Keeps, IInv, TypeOK
<1>2. "manit_quiesce" \notin Spurious =>
        \A u \in Tasks : ~(pc[u] = "quiesce" /\ u \notin asleep)
  BY <1>1 DEF IInv, Finish, Drained
<1>3. "manit_quiesce" \notin Spurious =>
        \A u \in Tasks : ~(pc'[u] = "quiesce" /\ u \notin asleep')
  BY <1>1, <1>2 DEF Holding
<1>4. \A u \in Tasks : pc'[u] = "faulting" =>
        why'[u] \in Faults /\ why'[u] \notin {"await", "fill"}
  BY <1>1
<1>5. outcome' \notin Faults /\ outcome' # "ended"
  BY <1>1 DEF Faults
<1> QED BY <1>1, <1>3, <1>4, <1>5 DEF Finish

\* All of the above, for an action that touches no handle.
Quiet(t) ==
  /\ UNCHANGED <<handle, liveTasks>>
  /\ ablocked'[Main] = <<>>
  /\ \A u \in Tasks \ {t} : op'[u] = op[u]

LEMMA KeepsAll ==
  ASSUME IInv, NEW t \in Tasks, NEW x, Keeps(t, x), Moved, Quiet(t), ArgsOf(t)',
         pc[t] \notin {"complete", "leave"}, x \notin {"complete", "leave"},
         x = "faulting" => why'[t] \in Faults \ {"await", "fill"}
  PROVE  (Placed /\ Counts /\ Baton /\ Stages /\ Args /\ Handles /\ Finish)'
<1>1. Baton' /\ Stages'
  BY KeepsBaton
<1>2. Args'
  BY KeepsArgs DEF Quiet
<1>3. Handles' /\ liveTasks' = Cardinality(Live')
  BY KeepsHandles DEF Quiet
<1>4. run' # <<>> /\ Placed' /\ blockedCount' = Cardinality(Parked')
  BY DEF Moved
<1>5. Finish'
  BY <1>4, KeepsFinish
<1> QED BY <1>1, <1>2, <1>3, <1>4, <1>5 DEF Counts


-----------------------------------------------------------------------------
(* The actions of a thread that keeps the baton.                           *)

LEMMA StartTypes ==
  ASSUME TypeOK, NEW t \in Tasks, NEW o, Begins(t) \/ Starts(t, o) \/ UNCHANGED used
  PROVE  used' \in [Tasks -> 0..MaxOps]
<1>1. used \in [Tasks -> 0..MaxOps] /\ MaxOps \in Nat
  BY CAssumption DEF TypeOK
<1>2. CASE Begins(t)
  BY <1>1, <1>2 DEF Begins, MayStart
<1>3. CASE UNCHANGED used
  BY <1>1, <1>3
<1> QED BY <1>2, <1>3 DEF Starts

LEMMA OpTypes ==
  ASSUME TypeOK, NEW t \in Tasks
  PROVE  /\ [op EXCEPT ![t] = Idle] \in [Tasks -> Ops]
         /\ \A u \in Tasks \ {t} : [op EXCEPT ![t] = Idle][u] = op[u]
BY DEF TypeOK, Ops

LEMMA NewChannelKeeps ==
  ASSUME IInv, NEW t \in Tasks, NEW c \in Chans, NEW k \in Caps, ChannelNew(t, c, k)
  PROVE  IInv'
<1>1. pc[t] = "run" /\ TypeOK
  BY DEF ChannelNew, At, IInv
<1>2. Keeps(t, "run") /\ Quiet(t)
  BY <1>1 DEF ChannelNew, At, Keeps, Quiet, Holding, TypeOK, sched, IInv, Handles
<1>3. Moved
  BY <1>1, NobodyMoves DEF ChannelNew, sched, Holding
<1>4. ArgsOf(t)'
  BY <1>1 DEF ChannelNew, ArgsOf
<1>5. TypeOK'
  BY <1>1 DEF ChannelNew, TypeOK, sched
<1> QED BY <1>1, <1>2, <1>3, <1>4, <1>5, KeepsAll DEF IInv

LEMMA SendKeeps ==
  ASSUME IInv, NEW t \in Tasks, NEW c \in Chans, Send(t, c)
  PROVE  IInv'
<1>1. pc[t] = "run" /\ TypeOK /\ ablocked[Main] = <<>> /\ outcome = "running"
  BY DEF Send, At, IInv, Handles
<1>2. /\ UNCHANGED <<run, current, blocked, sblocked, ablocked, blockedCount, liveTasks>>
      /\ UNCHANGED <<cap, closed, handle, asleep, outcome>> /\ Exists(c)
  BY DEF Send, sched
<1>3. \A u \in Tasks \ {t} : op'[u] = op[u]
  BY <1>1, OpTypes DEF Send
<1>4. Moved
  BY <1>1, <1>2, <1>3, NobodyMoves DEF Holding
<1>5. Quiet(t)
  BY <1>1, <1>2, <1>3 DEF Quiet
<1>6. op' \in [Tasks -> Ops] /\ used' \in [Tasks -> 0..MaxOps]
  <2>1. op' = op \/ op' = [op EXCEPT ![t] = Idle]
    BY DEF Send
  <2>2. Starts(t, <<"send", c>>) \/ UNCHANGED used
    BY DEF Send
  <2>3. op' \in [Tasks -> Ops]
    <3>1. op \in [Tasks -> Ops] /\ Idle \in Ops
      BY <1>1 DEF TypeOK, Ops
    <3> QED BY <2>1, <3>1
  <2>4. used' \in [Tasks -> 0..MaxOps]
    BY <1>1, <2>2, StartTypes
  <2> QED BY <2>3, <2>4
<1>7. CASE /\ c \notin closed /\ ~HasRoom(c) /\ Call(t, "sendFull", c)
           /\ UNCHANGED <<queue, why>>
  <2>1. Keeps(t, "sendFull")
    BY <1>1, <1>2, <1>7 DEF Keeps, Call, Holding
  <2>2. pc'[t] = "sendFull" /\ arg'[t] = c
    BY <1>1, <1>7 DEF Call, TypeOK
  <2>3. ArgsOf(t)'
    BY <1>2, <1>7, <2>2 DEF ArgsOf, Exists, HasRoom
  <2>4. TypeOK'
    BY <1>1, <1>2, <1>6, <1>7 DEF TypeOK, Call, Places, Holding
  <2> QED BY <1>1, <1>4, <1>5, <2>1, <2>3, <2>4, KeepsAll DEF IInv
<1>8. CASE Fault(t, "closed") /\ UNCHANGED <<queue, arg>>
  <2>1. Keeps(t, "faulting")
    BY <1>1, <1>2, <1>8 DEF Keeps, Fault, Holding
  <2>2. pc'[t] = "faulting" /\ why'[t] = "closed"
    BY <1>1, <1>8 DEF Fault, TypeOK
  <2>3. ArgsOf(t)' /\ why'[t] \in Faults \ {"await", "fill"}
    BY <2>2 DEF ArgsOf, Faults
  <2>4. TypeOK'
    BY <1>1, <1>2, <1>6, <1>8 DEF TypeOK, Fault, Places, Faults
  <2> QED BY <1>1, <1>4, <1>5, <2>1, <2>3, <2>4, KeepsAll DEF IInv
<1>9. CASE /\ queue' = [queue EXCEPT ![c] = @ + 1] /\ Call(t, "sendWake", c)
           /\ UNCHANGED why
  <2>1. Keeps(t, "sendWake")
    BY <1>1, <1>2, <1>9 DEF Keeps, Call, Holding
  <2>2. pc'[t] = "sendWake" /\ arg'[t] = c
    BY <1>1, <1>9 DEF Call, TypeOK
  <2>3. ArgsOf(t)'
    BY <2>2 DEF ArgsOf
  <2>4. queue' \in [Chans -> Nat]
    BY <1>1, <1>9 DEF TypeOK
  <2>5. TypeOK'
    BY <1>1, <1>2, <1>6, <1>9, <2>4 DEF TypeOK, Call, Places, Holding
  <2> QED BY <1>1, <1>4, <1>5, <2>1, <2>3, <2>5, KeepsAll DEF IInv
<1> QED BY <1>7, <1>8, <1>9 DEF Send

LEMMA RecvKeeps ==
  ASSUME IInv, NEW t \in Tasks, NEW c \in Chans, Recv(t, c)
  PROVE  IInv'
<1>1. pc[t] = "run" /\ TypeOK /\ ablocked[Main] = <<>> /\ outcome = "running"
  BY DEF Recv, At, IInv, Handles
<1>2. /\ UNCHANGED <<run, current, blocked, sblocked, ablocked, blockedCount, liveTasks>>
      /\ UNCHANGED <<cap, closed, handle, why, asleep, outcome>> /\ Exists(c)
  BY DEF Recv, sched
<1>3. \A u \in Tasks \ {t} : op'[u] = op[u]
  BY <1>1, OpTypes DEF Recv
<1>4. Moved
  BY <1>1, <1>2, <1>3, NobodyMoves DEF Holding
<1>5. Quiet(t)
  BY <1>1, <1>2, <1>3 DEF Quiet
<1>6. op' \in [Tasks -> Ops] /\ used' \in [Tasks -> 0..MaxOps]
  <2>1. op' = op \/ op' = [op EXCEPT ![t] = Idle]
    BY DEF Recv
  <2>2. Starts(t, <<"recv", c>>) \/ UNCHANGED used
    BY DEF Recv
  <2>3. op' \in [Tasks -> Ops]
    <3>1. op \in [Tasks -> Ops] /\ Idle \in Ops
      BY <1>1 DEF TypeOK, Ops
    <3> QED BY <2>1, <3>1
  <2>4. used' \in [Tasks -> 0..MaxOps]
    BY <1>1, <2>2, StartTypes
  <2> QED BY <2>3, <2>4
<1>7. CASE queue[c] = 0 /\ c \notin closed /\ Call(t, "recvEmpty", c) /\ UNCHANGED queue
  <2>1. Keeps(t, "recvEmpty")
    BY <1>1, <1>2, <1>7 DEF Keeps, Call, Holding
  <2>2. pc'[t] = "recvEmpty" /\ arg'[t] = c
    BY <1>1, <1>7 DEF Call, TypeOK
  <2>3. ArgsOf(t)'
    BY <1>2, <1>7, <2>2 DEF ArgsOf, Exists
  <2>4. TypeOK'
    BY <1>1, <1>2, <1>6, <1>7 DEF TypeOK, Call, Places, Holding
  <2> QED BY <1>1, <1>4, <1>5, <2>1, <2>3, <2>4, KeepsAll DEF IInv
<1>8. CASE UNCHANGED <<queue, pc, arg>>
  <2>1. Keeps(t, "run")
    BY <1>1, <1>2, <1>8 DEF Keeps, Holding, TypeOK
  <2>3. ArgsOf(t)'
    BY <1>1, <1>8 DEF ArgsOf
  <2>4. TypeOK'
    BY <1>1, <1>2, <1>6, <1>8 DEF TypeOK
  <2> QED BY <1>1, <1>4, <1>5, <2>1, <2>3, <2>4, KeepsAll DEF IInv
<1>9. CASE /\ queue[c] > 0 /\ queue' = [queue EXCEPT ![c] = @ - 1]
           /\ Call(t, "recvWake", c)
  <2>1. Keeps(t, "recvWake")
    BY <1>1, <1>2, <1>9 DEF Keeps, Call, Holding
  <2>2. pc'[t] = "recvWake" /\ arg'[t] = c
    BY <1>1, <1>9 DEF Call, TypeOK
  <2>3. ArgsOf(t)'
    BY <2>2 DEF ArgsOf
  <2>4. TypeOK'
    BY <1>1, <1>2, <1>6, <1>9 DEF TypeOK, Call, Places, Holding
  <2> QED BY <1>1, <1>4, <1>5, <2>1, <2>3, <2>4, KeepsAll DEF IInv
<1> QED BY <1>7, <1>8, <1>9 DEF Recv

LEMMA WakesKeep ==
  ASSUME IInv, NEW t \in Tasks, SendWake(t) \/ RecvWake(t)
  PROVE  IInv'
<1>1. /\ pc[t] \in {"sendWake", "recvWake"} /\ TypeOK /\ outcome = "running"
      /\ ablocked[Main] = <<>>
  BY DEF SendWake, RecvWake, At, IInv, Handles
<1>2. arg[t] \in Chans
  BY <1>1 DEF IInv, Args, ArgsOf
<1>3. /\ UNCHANGED <<current, ablocked, liveTasks, chans, handle, arg, why, op, used,
                     asleep, outcome>>
      /\ Goto(t, "run")
      /\ \/ WakeOne(blocked, arg[t]) /\ UNCHANGED <<sblocked, ablocked>>
         \/ WakeOne(sblocked, arg[t]) /\ UNCHANGED <<blocked, ablocked>>
  BY DEF SendWake, RecvWake
<1>4. /\ Moved
      /\ blocked' \in [Chans -> Seq(Tasks)] /\ sblocked' \in [Chans -> Seq(Tasks)]
  BY <1>1, <1>2, <1>3, OneWoken DEF Holding
<1>5. Keeps(t, "run") /\ Quiet(t)
  BY <1>1, <1>3 DEF Keeps, Quiet, Goto, Holding
<1>6. pc'[t] = "run"
  BY <1>1, <1>3 DEF Goto, TypeOK
<1>7. ArgsOf(t)'
  BY <1>6 DEF ArgsOf
<1>8. TypeOK'
  BY <1>1, <1>3, <1>4 DEF TypeOK, Moved, Goto, chans, Places, Holding
<1> QED BY <1>1, <1>4, <1>5, <1>7, <1>8, KeepsAll DEF IInv

LEMMA CloseKeeps ==
  ASSUME IInv, NEW t \in Tasks, NEW c \in Chans, Close(t, c)
  PROVE  IInv'
<1>1. pc[t] = "run" /\ TypeOK /\ ablocked[Main] = <<>> /\ outcome = "running"
  BY DEF Close, At, IInv, Handles
<1>2. /\ UNCHANGED <<run, current, blocked, sblocked, ablocked, blockedCount, liveTasks>>
      /\ UNCHANGED <<queue, cap, handle, why, op, asleep, outcome>>
      /\ closed' = closed \cup {c} /\ Call(t, "closeRecv", c)
  BY DEF Close, sched
<1>3. Moved
  BY <1>1, <1>2, NobodyMoves DEF Holding
<1>4. Keeps(t, "closeRecv") /\ Quiet(t)
  BY <1>1, <1>2 DEF Keeps, Quiet, Call, Holding
<1>5. pc'[t] = "closeRecv" /\ arg'[t] = c
  BY <1>1, <1>2 DEF Call, TypeOK
<1>6. ArgsOf(t)'
  BY <1>5 DEF ArgsOf
<1>7. used' \in [Tasks -> 0..MaxOps]
  BY <1>1, StartTypes DEF Close
<1>8. TypeOK'
  BY <1>1, <1>2, <1>7 DEF TypeOK, Call, Places, Holding
<1> QED BY <1>1, <1>3, <1>4, <1>6, <1>8, KeepsAll DEF IInv

LEMMA CloseWakesKeep ==
  ASSUME IInv, NEW t \in Tasks, CloseWakeRecv(t) \/ CloseWakeSend(t)
  PROVE  IInv'
<1>1. /\ pc[t] \in {"closeRecv", "closeSend"} /\ TypeOK /\ outcome = "running"
      /\ ablocked[Main] = <<>>
  BY DEF CloseWakeRecv, CloseWakeSend, At, IInv, Handles
<1>2. arg[t] \in Chans
  BY <1>1 DEF IInv, Args, ArgsOf
<1>3. UNCHANGED <<current, ablocked, liveTasks, queue, cap, closed, handle, arg, why, op,
                  used, asleep, outcome>>
  BY DEF CloseWakeRecv, CloseWakeSend, chans
<1>4. /\ Moved
      /\ blocked' \in [Chans -> Seq(Tasks)] /\ sblocked' \in [Chans -> Seq(Tasks)]
  <2>1. CASE CloseWakeRecv(t)
    BY <1>1, <1>2, <1>3, <2>1, AllWoken DEF CloseWakeRecv, Holding, TypeOK
  <2>2. CASE CloseWakeSend(t)
    BY <1>1, <1>2, <1>3, <2>2, AllWoken DEF CloseWakeSend, Holding, TypeOK
  <2> QED BY <2>1, <2>2
<1>5. PICK x \in {"closeSend", "run"} : Goto(t, x)
  BY DEF CloseWakeRecv, CloseWakeSend
<1>6. Keeps(t, x) /\ Quiet(t)
  BY <1>1, <1>3, <1>5 DEF Keeps, Quiet, Goto, Holding
<1>7. pc'[t] = x /\ arg'[t] \in Chans
  BY <1>1, <1>2, <1>3, <1>5 DEF Goto, TypeOK
<1>8. ArgsOf(t)'
  BY <1>7 DEF ArgsOf
<1>9. TypeOK'
  BY <1>1, <1>3, <1>4, <1>5 DEF TypeOK, Moved, Goto, Places, Holding
<1> QED BY <1>1, <1>4, <1>6, <1>8, <1>9, KeepsAll DEF IInv

LEMMA BodyFaultKeeps ==
  ASSUME IInv, NEW t \in Tasks, BodyFault(t)
  PROVE  IInv'
<1>1. pc[t] = "run" /\ TypeOK /\ ablocked[Main] = <<>> /\ outcome = "running"
  BY DEF BodyFault, At, IInv, Handles
<1>2. /\ UNCHANGED <<run, current, blocked, sblocked, ablocked, blockedCount, liveTasks>>
      /\ UNCHANGED <<queue, cap, closed, handle, arg, op, used, asleep, outcome>>
      /\ Fault(t, "body")
  BY DEF BodyFault, sched, chans
<1>3. Moved
  BY <1>1, <1>2, NobodyMoves DEF Holding
<1>4. Keeps(t, "faulting") /\ Quiet(t)
  BY <1>1, <1>2 DEF Keeps, Quiet, Fault, Holding
<1>5. pc'[t] = "faulting" /\ why'[t] = "body"
  BY <1>1, <1>2 DEF Fault, TypeOK
<1>6. ArgsOf(t)' /\ why'[t] \in Faults \ {"await", "fill"}
  BY <1>5 DEF ArgsOf, Faults
<1>7. TypeOK'
  BY <1>1, <1>2 DEF TypeOK, Fault, Places, Faults
<1> QED BY <1>1, <1>3, <1>4, <1>6, <1>7, KeepsAll DEF IInv


\* __task_await: the handle of a task that is done belongs to no thread that
\* still acts.
LEMMA AwaitKeeps ==
  ASSUME IInv, NEW t \in Tasks, NEW u \in Tasks, TaskAwait(t, u)
  PROVE  IInv'
<1>1. pc[t] = "run" /\ TypeOK /\ ablocked[Main] = <<>> /\ outcome = "running"
  BY DEF TaskAwait, At, IInv, Handles
<1>2. /\ UNCHANGED <<run, current, blocked, sblocked, ablocked, blockedCount, liveTasks>>
      /\ UNCHANGED <<queue, cap, closed, asleep, outcome>>
  BY DEF TaskAwait, sched, chans
<1>3. \A v \in Tasks \ {t} : op'[v] = op[v]
  BY <1>1, OpTypes DEF TaskAwait
<1>4. Moved
  BY <1>1, <1>2, <1>3, NobodyMoves DEF Holding
<1>6. op' \in [Tasks -> Ops] /\ used' \in [Tasks -> 0..MaxOps]
  <2>1. op' = op \/ op' = [op EXCEPT ![t] = Idle]
    BY DEF TaskAwait
  <2>2. Starts(t, <<"await", u>>) \/ UNCHANGED used
    BY DEF TaskAwait
  <2>3. op' \in [Tasks -> Ops]
    <3>1. op \in [Tasks -> Ops] /\ Idle \in Ops
      BY <1>1 DEF TypeOK, Ops
    <3> QED BY <2>1, <3>1
  <2>4. used' \in [Tasks -> 0..MaxOps]
    BY <1>1, <2>2, StartTypes
  <2> QED BY <2>3, <2>4
<1>7. CASE Fault(t, "taken") /\ UNCHANGED <<handle, arg>>
  <2>1. Keeps(t, "faulting") /\ Quiet(t)
    BY <1>1, <1>2, <1>3, <1>7 DEF Keeps, Quiet, Fault, Holding
  <2>2. pc'[t] = "faulting" /\ why'[t] = "taken"
    BY <1>1, <1>7 DEF Fault, TypeOK
  <2>3. ArgsOf(t)' /\ why'[t] \in Faults \ {"await", "fill"}
    BY <2>2 DEF ArgsOf, Faults
  <2>4. TypeOK'
    BY <1>1, <1>2, <1>6, <1>7 DEF TypeOK, Fault, Places, Faults
  <2> QED BY <1>1, <1>4, <2>1, <2>3, <2>4, KeepsAll DEF IInv
<1>8. CASE /\ handle[u] = "done" /\ handle' = [handle EXCEPT ![u] = "taken"]
           /\ UNCHANGED <<pc, arg, why>>
  <2>1. Keeps(t, "run")
    BY <1>1, <1>2, <1>8 DEF Keeps, Holding, TypeOK
  <2>2. Baton' /\ Stages'
    BY <1>4, <2>1, KeepsBaton
  <2>3. ArgsOf(t)'
    BY <1>1, <1>8 DEF ArgsOf
  <2>4. Args'
    BY <1>3, <2>1, <2>3, KeepsArgs
  <2>5. Placed' /\ blockedCount' = Cardinality(Parked') /\ run' # <<>>
    BY <1>4 DEF Moved
  <2>6. Finish'
    BY <2>1, <2>5, KeepsFinish
  <2>7. /\ \A v \in Tasks : handle'[v] = IF v = u THEN "taken" ELSE handle[v]
        /\ handle' \in [Tasks -> {"none", "running", "done", "taken"}]
    BY <1>1, <1>8 DEF TypeOK
  <2>8. pc[u] \in {"complete", "leave", "gone"} /\ u # Main
    <3>1. pc[u] \in {"complete", "leave", "gone", "faulting"} /\ u # Main
      BY <1>8 DEF IInv, Handles
    <3>2. u # t
      BY <1>1, <3>1
    <3>3. pc[u] # "faulting"
      BY <1>1, <3>2, Holder DEF Holding
    <3> QED BY <3>1, <3>3
  <2>9. Handles'
    BY <1>2, <1>8, <2>7, <2>8 DEF IInv, Handles
  <2>10. Live' = Live
    BY <1>8, <2>7, <2>8 DEF Live
  <2>11. TypeOK'
    BY <1>1, <1>2, <1>6, <1>8, <2>7 DEF TypeOK
  <2> QED BY <1>2, <2>2, <2>4, <2>5, <2>6, <2>9, <2>10, <2>11 DEF IInv, Counts
<1>9. CASE handle[u] = "running" /\ Call(t, "awaitRunning", u) /\ UNCHANGED <<handle, why>>
  <2>1. Keeps(t, "awaitRunning") /\ Quiet(t)
    BY <1>1, <1>2, <1>3, <1>9 DEF Keeps, Quiet, Call, Holding
  <2>2. pc'[t] = "awaitRunning" /\ arg'[t] = u
    BY <1>1, <1>9 DEF Call, TypeOK
  <2>3. ArgsOf(t)'
    BY <1>9, <2>2 DEF ArgsOf
  <2>4. TypeOK'
    BY <1>1, <1>2, <1>6, <1>9 DEF TypeOK, Call, Places, Holding
  <2> QED BY <1>1, <1>4, <2>1, <2>3, <2>4, KeepsAll DEF IInv
<1> QED BY <1>7, <1>8, <1>9 DEF TaskAwait

\* The body returns: the handle is done before the task leaves R.
LEMMA BodyReturnsKeeps ==
  ASSUME IInv, NEW t \in Tasks, BodyReturns(t)
  PROVE  IInv'
<1>1. /\ pc[t] = "run" /\ TypeOK /\ outcome = "running" /\ op[t] = Idle /\ t # Main
      /\ pc' = [pc EXCEPT ![t] = "complete"] /\ handle' = [handle EXCEPT ![t] = "done"]
  BY DEF BodyReturns, At, IInv, Goto
<1>2. /\ UNCHANGED <<run, current, blocked, sblocked, ablocked, blockedCount, liveTasks>>
      /\ UNCHANGED <<queue, cap, closed, arg, why, op, used, asleep, outcome>>
  BY DEF BodyReturns, sched, chans
<1>3. Moved
  BY <1>1, <1>2, NobodyMoves DEF Holding
<1>4. Keeps(t, "complete")
  BY <1>1, <1>2 DEF Keeps, Holding
<1>5. Baton' /\ Stages'
  BY <1>3, <1>4, KeepsBaton
<1>6. /\ \A u \in Tasks : pc'[u] = IF u = t THEN "complete" ELSE pc[u]
      /\ \A u \in Tasks : handle'[u] = IF u = t THEN "done" ELSE handle[u]
  BY <1>1 DEF TypeOK
<1>7. ArgsOf(t)'
  BY <1>1, <1>2, <1>6 DEF ArgsOf
<1>8. Args'
  BY <1>2, <1>4, <1>7, KeepsArgs
<1>9. Placed' /\ blockedCount' = Cardinality(Parked') /\ run' # <<>>
  BY <1>3 DEF Moved
<1>10. Finish'
  BY <1>4, <1>9, KeepsFinish
<1>11. handle[t] # "none" /\ Main \in Tasks
  BY <1>1, CAssumption DEF IInv, Handles
<1>12. Handles'
  BY <1>1, <1>2, <1>6, <1>11 DEF IInv, Handles
<1>13. Live' = Live
  BY <1>1, <1>6 DEF Live
<1>14. TypeOK'
  BY <1>1, <1>2 DEF TypeOK, Places, Holding
<1> QED BY <1>2, <1>5, <1>8, <1>9, <1>10, <1>12, <1>13, <1>14 DEF IInv, Counts

LEMMA CompleteWakeKeeps ==
  ASSUME IInv, NEW t \in Tasks, CompleteWake(t)
  PROVE  IInv'
<1>1. /\ pc[t] = "complete" /\ TypeOK /\ outcome = "running" /\ op[t] = Idle
      /\ pc' = [pc EXCEPT ![t] = "leave"]
  BY DEF CompleteWake, At, IInv, Goto, Args, ArgsOf
<1>2. UNCHANGED <<current, blocked, sblocked, liveTasks, queue, cap, closed, handle, arg,
                  why, op, used, asleep, outcome>>
  BY DEF CompleteWake, chans
<1>3. WakeAll(ablocked, t)
  BY DEF CompleteWake
<1>4. Moved /\ ablocked' \in [Tasks -> Seq(Tasks)]
  BY <1>1, <1>2, <1>3, AllWoken DEF Holding
<1>5. Keeps(t, "leave")
  BY <1>1, <1>2 DEF Keeps, Holding
<1>6. Baton' /\ Stages'
  BY <1>4, <1>5, KeepsBaton
<1>7. \A u \in Tasks : pc'[u] = IF u = t THEN "leave" ELSE pc[u]
  BY <1>1 DEF TypeOK
<1>8. ArgsOf(t)'
  BY <1>1, <1>2, <1>7 DEF ArgsOf
<1>9. Args'
  BY <1>2, <1>5, <1>8, KeepsArgs
<1>10. Placed' /\ blockedCount' = Cardinality(Parked') /\ run' # <<>>
  BY <1>4 DEF Moved
<1>11. Finish'
  BY <1>5, <1>10, KeepsFinish
<1>12. ablocked'[Main] = <<>>
  BY <1>1, <1>3, CAssumption DEF WakeAll, IInv, Handles, TypeOK
<1>13. Handles'
  BY <1>1, <1>2, <1>7, <1>12 DEF IInv, Handles
<1>14. Live' = Live
  BY <1>1, <1>2, <1>7 DEF Live
<1>15. TypeOK'
  BY <1>1, <1>2, <1>4 DEF TypeOK, Moved, Places, Holding
<1> QED BY <1>2, <1>6, <1>9, <1>10, <1>11, <1>13, <1>14, <1>15 DEF IInv, Counts


-----------------------------------------------------------------------------
(* New tasks.                                                              *)

LEMMA SpawnKeeps ==
  ASSUME IInv, NEW t \in Tasks, NEW u \in Tasks, TaskSpawn(t, u)
  PROVE  IInv'
<1>1. pc[t] = "run" /\ pc[u] = "unborn" /\ TypeOK /\ outcome = "running" /\ u # t
  BY DEF TaskSpawn, At, IInv
<1>e. /\ run' = Append(run, u) /\ liveTasks' = liveTasks + 1
      /\ handle' = [handle EXCEPT ![u] = "running"]
      /\ pc' = [pc EXCEPT ![t] = "create", ![u] = "queued"]
      /\ arg' = [arg EXCEPT ![t] = u]
  BY DEF TaskSpawn
<1>2. UNCHANGED <<current, blocked, sblocked, ablocked, blockedCount, queue, cap, closed,
                  why, op, asleep, outcome>>
  BY DEF TaskSpawn, chans
<1>3. /\ current = t /\ run \in Seq(Tasks) /\ run # <<>> /\ Head(run) = t
      /\ t \in Range(run) /\ t \notin Parked /\ Parked \cap Range(run) = {}
      /\ \A v \in Tasks \ {t} : pc[v] \notin Holding \cup {"faulting"}
      /\ \A v \in Tasks : pc[v] # "queued"
  BY <1>1, Holder DEF Holding
<1>4. u \notin Range(run) /\ u \notin Parked
  BY <1>1, <1>3 DEF IInv, Stages
<1>5. W' = W /\ W \in [Queues -> Seq(Tasks)] /\ PlacedIn(run, W, op)
  BY <1>1, <1>2, WStays, WTypes DEF IInv, Placed
<1>6. Parked' = Parked
  BY <1>5 DEF Parked, ParkedIn, ParkedBy
<1>7. PlacedIn(run', W, op) /\ Range(run') = Range(run) \cup {u}
  BY <1>e, <1>3, <1>4, <1>5, RunMoves DEF Parked
<1>8. Placed'
  BY <1>2, <1>5, <1>7 DEF Placed
<1>9. run' \in Seq(Tasks) /\ run' # <<>> /\ Head(run') = t
  BY <1>e, <1>3, OfAppend
<1>10. /\ \A v \in Tasks : pc'[v] = IF v = u THEN "queued" ELSE IF v = t THEN "create" ELSE pc[v]
       /\ \A v \in Tasks : handle'[v] = IF v = u THEN "running" ELSE handle[v]
       /\ arg'[t] = u
  BY <1>1, <1>e DEF TypeOK
<1>11. Baton'
  BY <1>1, <1>2, <1>3, <1>9, <1>10 DEF Baton, Holding
<1>12. Stages'
  <2>1. ASSUME NEW v \in Tasks
        PROVE  /\ v \in Range(run') => v = current' \/ pc'[v] \in {"queued", "start", "wait"}
               /\ v \in Parked' => pc'[v] = "wait" \/ (pc'[v] = "faulting" /\ run' = <<>>)
               /\ pc'[v] \in Holding \cup {"queued", "start", "wait"} =>
                    v \in Range(run') \cup Parked'
               /\ pc'[v] = "queued" =>
                    /\ current' \in Tasks
                    /\ \/ pc'[current'] = "faulting"
                       \/ (pc'[current'] = "create" /\ arg'[current'] = v)
               /\ pc'[v] = "quiesce" => v = Main
    <3>1. CASE v = u
      BY <1>1, <1>2, <1>3, <1>4, <1>6, <1>7, <1>10, <3>1 DEF Holding
    <3>2. CASE v = t
      BY <1>1, <1>2, <1>3, <1>4, <1>6, <1>7, <1>10, <3>2 DEF Holding
    <3>3. CASE v # u /\ v # t
      <4>1. /\ v \in Range(run) => pc[v] \in {"queued", "start", "wait"}
            /\ v \in Parked => pc[v] = "wait"
            /\ pc[v] \in Holding \cup {"queued", "start", "wait"} => v \in Range(run) \cup Parked
            /\ pc[v] = "quiesce" => v = Main
        BY <1>3, <3>3 DEF IInv, Stages
      <4> QED BY <1>3, <1>6, <1>7, <1>10, <3>3, <4>1
    <3> QED BY <3>1, <3>2, <3>3
  <2> QED BY <2>1 DEF Stages
<1>13. Args'
  <2>1. ASSUME NEW v \in Tasks PROVE ArgsOf(v)'
    <3>1. pc[v] = "quiesce" => op[v] = Idle
      BY DEF IInv, Args, ArgsOf
    <3> QED BY <1>1, <1>2, <1>3, <1>10, <3>1 DEF ArgsOf, Holding
  <2> QED BY <2>1 DEF Args
<1>14. Handles'
  <2>1. handle[t] \notin {"done", "taken"} /\ (handle[t] = "none" <=> t = Main) /\ u # Main
    BY <1>1 DEF IInv, Handles
  <2>2. Main \in Tasks
    BY CAssumption
  <2> QED BY <1>1, <1>2, <1>10, <2>1, <2>2 DEF IInv, Handles
<1>15. liveTasks' = Cardinality(Live') /\ liveTasks' \in Nat
  <2>1. Live' = Live \cup {u} /\ u \notin Live
    BY <1>1, <1>10 DEF Live
  <2>2. IsFiniteSet(Live)
    BY CAssumption, FS_Subset DEF Live
  <2>3. liveTasks = Cardinality(Live) /\ liveTasks \in Nat
    BY DEF IInv, Counts, TypeOK
  <2>4. Cardinality(Live') = Cardinality(Live) + 1
    BY <2>1, <2>2, FS_AddElement
  <2> QED BY <1>e, <2>3, <2>4
<1>16. Counts'
  BY <1>2, <1>6, <1>15 DEF IInv, Counts
<1>17. Finish'
  <2>1. "manit_quiesce" \notin Spurious =>
          \A v \in Tasks : ~(pc[v] = "quiesce" /\ v \notin asleep)
    BY <1>3 DEF IInv, Finish, Drained
  <2>2. \A v \in Tasks : pc'[v] # "faulting"
    BY <1>1, <1>3, <1>10
  <2> QED BY <1>1, <1>2, <1>10, <2>1, <2>2 DEF Finish, Faults
<1>18. TypeOK'
  <2>1. used' \in [Tasks -> 0..MaxOps]
    BY <1>1, StartTypes DEF TaskSpawn
  <2> QED BY <1>1, <1>e, <1>2, <1>9, <1>15, <2>1 DEF TypeOK, Places, Holding
<1> QED BY <1>8, <1>11, <1>12, <1>13, <1>14, <1>16, <1>17, <1>18 DEF IInv

LEMMA CreateKeeps ==
  ASSUME IInv, NEW t \in Tasks, PthreadCreate(t)
  PROVE  IInv'
<1> DEFINE u == arg[t]
<1>1. /\ pc[t] = "create" /\ TypeOK /\ outcome = "running"
      /\ u \in Tasks /\ pc[u] = "queued" /\ u # t
  BY DEF PthreadCreate, At, IInv, Args, ArgsOf
<1>2. UNCHANGED <<run, current, blocked, sblocked, ablocked, blockedCount, liveTasks,
                  queue, cap, closed, handle, arg, op, used, asleep, outcome>>
  BY DEF PthreadCreate, sched, chans
<1>3. /\ current = t /\ run \in Seq(Tasks) /\ run # <<>> /\ Head(run) = t
      /\ t \in Range(run) /\ t \notin Parked /\ Parked \cap Range(run) = {}
      /\ \A v \in Tasks \ {t} : pc[v] \notin Holding \cup {"faulting"}
      /\ \A v \in Tasks : pc[v] = "queued" => v = u
  BY <1>1, Holder DEF Holding
<1>4. Moved
  BY <1>1, <1>2, NobodyMoves DEF Holding
<1>5. Placed' /\ blockedCount' = Cardinality(Parked')
  BY <1>4 DEF Moved
<1>6. Parked' = Parked
  BY <1>2, WStays DEF Parked, ParkedIn, ParkedBy
<1>7. PICK x \in {"run", "faulting"} :
        /\ \A v \in Tasks : pc'[v] = IF v = t THEN x
                                     ELSE IF v = u /\ x = "run" THEN "start" ELSE pc[v]
        /\ pc' \in [Tasks -> Places] /\ why' \in [Tasks -> Faults \cup {"none"}]
        /\ x = "faulting" => why'[t] = "create"
  <2>1. CASE pc' = [pc EXCEPT ![t] = "run", ![u] = "start"] /\ UNCHANGED why
    <3> WITNESS "run" \in {"run", "faulting"}
    <3> QED BY <1>1, <2>1 DEF TypeOK, Places, Holding
  <2>2. CASE Fault(t, "create")
    <3> WITNESS "faulting" \in {"run", "faulting"}
    <3> QED BY <1>1, <2>2 DEF TypeOK, Places, Fault, Faults
  <2> QED BY <2>1, <2>2 DEF PthreadCreate
<1>8. Baton'
  BY <1>1, <1>2, <1>3, <1>7 DEF Baton, Holding
<1>9. Stages'
  <2>1. ASSUME NEW v \in Tasks
        PROVE  /\ v \in Range(run) => v = current \/ pc'[v] \in {"queued", "start", "wait"}
               /\ v \in Parked => pc'[v] = "wait" \/ (pc'[v] = "faulting" /\ run = <<>>)
               /\ pc'[v] \in Holding \cup {"queued", "start", "wait"} =>
                    v \in Range(run) \cup Parked
               /\ pc'[v] = "queued" => current \in Tasks /\ pc'[current] = "faulting"
               /\ pc'[v] = "quiesce" => v = Main
    <3>1. /\ v # t /\ v \in Range(run) => pc[v] \in {"queued", "start", "wait"}
          /\ v \in Parked => pc[v] = "wait"
          /\ pc[v] \in Holding \cup {"queued", "start", "wait"} => v \in Range(run) \cup Parked
          /\ pc[v] = "quiesce" => v = Main
      BY <1>3 DEF IInv, Stages
    <3>2. CASE v = t
      BY <1>1, <1>3, <1>7, <3>2 DEF Holding
    <3>3. CASE v = u
      BY <1>1, <1>3, <1>7, <3>1, <3>3 DEF Holding
    <3>4. CASE v # t /\ v # u
      BY <1>3, <1>7, <3>1, <3>4
    <3> QED BY <3>2, <3>3, <3>4
  <2> QED BY <1>2, <1>6, <2>1 DEF Stages
<1>10. Args'
  <2>1. ASSUME NEW v \in Tasks PROVE ArgsOf(v)'
    <3>1. pc[v] = "quiesce" => op[v] = Idle
      BY DEF IInv, Args, ArgsOf
    <3> QED BY <1>2, <1>3, <1>7, <3>1 DEF ArgsOf, Holding
  <2> QED BY <2>1 DEF Args
<1>11. handle[t] \notin {"done", "taken"} /\ handle[u] \notin {"done", "taken"}
  BY <1>1 DEF IInv, Handles
<1>12. Handles'
  <2>1. Main \in Tasks /\ (handle[u] = "none" <=> u = Main) /\ (handle[t] = "none" <=> t = Main)
    BY <1>1, CAssumption DEF IInv, Handles
  <2>2. pc'[Main] # "unborn" /\ ablocked'[Main] = <<>>
    BY <1>2, <1>7, <2>1 DEF IInv, Handles
  <2>3. ASSUME NEW v \in Tasks
        PROVE  /\ handle[v] = "none" <=> (pc'[v] = "unborn" \/ v = Main)
               /\ handle[v] \in {"done", "taken"} =>
                    pc'[v] \in {"complete", "leave", "gone", "faulting"}
               /\ pc'[v] \in {"complete", "leave", "gone"} => handle[v] \in {"done", "taken"}
    <3>1. CASE v = t \/ v = u
      BY <1>1, <1>7, <1>11, <2>1, <3>1
    <3>2. CASE v # t /\ v # u
      BY <1>7, <3>2 DEF IInv, Handles
    <3> QED BY <3>1, <3>2
  <2> QED BY <1>2, <2>2, <2>3 DEF Handles
<1>13. Live' = Live
  <2>1. handle[t] \in {"none", "running"} /\ handle[u] \in {"none", "running"}
    BY <1>1, <1>11 DEF TypeOK
  <2> QED BY <1>1, <1>2, <1>7, <2>1 DEF Live
<1>14. Finish'
  <2>1. "manit_quiesce" \notin Spurious =>
          \A v \in Tasks : ~(pc[v] = "quiesce" /\ v \notin asleep)
    BY <1>3 DEF IInv, Finish, Drained
  <2>2. \A v \in Tasks : pc'[v] = "faulting" => v = t /\ why'[v] = "create"
    BY <1>1, <1>3, <1>7
  <2>3. "manit_quiesce" \notin Spurious =>
          \A v \in Tasks : ~(pc'[v] = "quiesce" /\ v \notin asleep')
    BY <1>2, <1>7, <2>1
  <2> QED BY <1>1, <1>2, <1>3, <2>2, <2>3 DEF Finish, Faults
<1>15. TypeOK'
  BY <1>1, <1>2, <1>7 DEF TypeOK
<1> QED BY <1>2, <1>5, <1>8, <1>9, <1>10, <1>12, <1>13, <1>14, <1>15 DEF IInv, Counts

-----------------------------------------------------------------------------
(* Waiting and ending.                                                     *)

\* Only who sleeps and how the process ended may change.
LEMMA OthersKeep ==
  ASSUME IInv, UNCHANGED <<sched, chans, handle, pc, arg, why, op, used>>
  PROVE  (Placed /\ Counts /\ Baton /\ Stages /\ Args /\ Handles)'
<1>1. W' = W
  BY WStays DEF sched
<1>2. Placed' /\ Parked' = Parked /\ Live' = Live
  BY <1>1 DEF IInv, Placed, PlacedIn, PlacedBy, Parked, ParkedIn, ParkedBy, Live, sched
<1>3. Counts'
  BY <1>2 DEF IInv, Counts, sched
<1>4. Baton' /\ Stages'
  BY <1>2 DEF IInv, Baton, Stages, sched
<1>5. Args'
  BY DEF IInv, Args, ArgsOf, Exists, HasRoom, sched, chans
<1>6. Handles'
  BY DEF IInv, Handles, sched
<1> QED BY <1>2, <1>3, <1>4, <1>5, <1>6

LEMMA EndsKeep ==
  ASSUME IInv, NEW t \in Tasks, SpuriousWake(t) \/ Quiesced(t) \/ ManitFault(t)
  PROVE  IInv'
<1>1. UNCHANGED <<sched, chans, handle, pc, arg, why, op, used>> /\ outcome = "running"
  BY DEF SpuriousWake, Quiesced, ManitFault, At
<1>2. UNCHANGED <<run, current, blockedCount, pc, why>>
  BY <1>1 DEF sched
<1>3. (Placed /\ Counts /\ Baton /\ Stages /\ Args /\ Handles)'
  BY <1>1, OthersKeep
<1>4. Finish /\ TypeOK
  BY DEF IInv
<1>5. Finish' /\ TypeOK'
  <2>1. CASE SpuriousWake(t)
    <3>1. asleep' = asleep \ {t} /\ outcome' = "running"
          /\ ("manit_quiesce" \notin Spurious => pc[t] # "quiesce")
      BY <1>1, <2>1 DEF SpuriousWake
    <3>2. Finish'
      BY <1>2, <1>4, <3>1 DEF Finish, Drained, Faults
    <3> QED BY <1>1, <1>4, <3>1, <3>2 DEF TypeOK, sched, chans
  <2>2. CASE Quiesced(t)
    <3>1. /\ pc[t] = "quiesce" /\ t \notin asleep
          /\ \/ outcome' = "ended" /\ asleep' = asleep
             \/ asleep' = asleep \cup {t} /\ outcome' = "running"
      BY <1>1, <2>2 DEF Quiesced, At
    <3>2. Finish'
      BY <1>2, <1>4, <3>1 DEF Finish, Drained, Faults
    <3> QED BY <1>1, <1>4, <3>1, <3>2 DEF TypeOK, sched, chans
  <2>3. CASE ManitFault(t)
    <3>1. pc[t] = "faulting" /\ outcome' = why[t] /\ asleep' = asleep /\ why[t] \in Faults
      BY <1>4, <2>3 DEF ManitFault, At, Finish
    <3>2. Finish'
      BY <1>2, <1>4, <3>1 DEF Finish, Drained, Faults
    <3> QED BY <1>1, <1>4, <3>1, <3>2 DEF TypeOK, sched, chans
  <2> QED BY <2>1, <2>2, <2>3
<1> QED BY <1>3, <1>5 DEF IInv

LEMMA CheckKeeps ==
  ASSUME IInv, NEW t \in Tasks, CheckBaton(t)
  PROVE  IInv'
<1>1. /\ pc[t] \in {"start", "wait"} /\ outcome = "running" /\ TypeOK
      /\ UNCHANGED <<sched, chans, handle, arg, why, op, used, outcome>>
  BY DEF CheckBaton, At, IInv
<1>2. UNCHANGED <<run, current, blockedCount, ablocked, handle, op, why, arg, liveTasks>>
  BY <1>1 DEF sched
<1>3. CASE asleep' = asleep \cup {t} /\ UNCHANGED pc
  <2>1. (Placed /\ Counts /\ Baton /\ Stages /\ Args /\ Handles)'
    BY <1>1, <1>3, OthersKeep
  <2>2. Finish'
    BY <1>1, <1>2, <1>3 DEF IInv, Finish, Drained, Faults
  <2>3. TypeOK'
    BY <1>1, <1>3 DEF TypeOK, sched, chans
  <2> QED BY <2>1, <2>2, <2>3 DEF IInv
<1>4. CASE current = t /\ Goto(t, "run") /\ UNCHANGED asleep
  <2>1. /\ \A u \in Tasks : pc'[u] = IF u = t THEN "run" ELSE pc[u]
        /\ pc' \in [Tasks -> Places]
    BY <1>1, <1>4 DEF Goto, TypeOK, Places, Holding
  <2>2. W' = W
    BY <1>1, WStays DEF sched
  <2>3. Placed' /\ Parked' = Parked
    BY <1>2, <2>2 DEF IInv, Placed, PlacedIn, PlacedBy, Parked, ParkedIn, ParkedBy
  <2>4. run # <<>> /\ Head(run) = t /\ run \in Seq(Tasks)
    BY <1>1, <1>4, NobodyIsNoTask DEF IInv, Baton, TypeOK
  <2>5. t \in Range(run)
    BY <2>4, OfTail
  <2>6. Parked \cap Range(run) = {}
    BY <1>1, <2>4, WTypes, Apart DEF IInv, Placed, Parked
  <2>7. \A u \in Tasks \ {t} : pc[u] \notin Holding \cup {"faulting"}
    BY <1>4 DEF IInv, Baton
  <2>8. \A u \in Tasks : pc[u] # "queued"
    BY <1>1, <1>4 DEF IInv, Stages
  <2>9. Baton'
    BY <1>2, <1>4, <2>1, <2>4, <2>7 DEF Baton, Holding
  <2>10. Stages'
    <3>1. ASSUME NEW u \in Tasks
          PROVE  /\ u \in Range(run) => u = current \/ pc'[u] \in {"queued", "start", "wait"}
                 /\ u \in Parked => pc'[u] = "wait" \/ (pc'[u] = "faulting" /\ run = <<>>)
                 /\ pc'[u] \in Holding \cup {"queued", "start", "wait"} =>
                      u \in Range(run) \cup Parked
                 /\ pc'[u] # "queued"
                 /\ pc'[u] = "quiesce" => u = Main
      <4>1. CASE u = t
        BY <1>4, <2>1, <2>5, <2>6, <4>1
      <4>2. CASE u # t
        BY <1>4, <2>1, <2>8, <4>2 DEF IInv, Stages
      <4> QED BY <4>1, <4>2
    <3> QED BY <1>2, <2>3, <3>1 DEF Stages
  <2>11. Args'
    <3>1. ASSUME NEW u \in Tasks PROVE ArgsOf(u)'
      <4>1. pc[u] = "quiesce" => op[u] = Idle
        BY DEF IInv, Args, ArgsOf
      <4> QED BY <1>2, <2>1, <2>7, <4>1 DEF ArgsOf, Holding
    <3> QED BY <3>1 DEF Args
  <2>12. Handles'
    <3>1. Main \in Tasks
      BY CAssumption
    <3> QED BY <1>1, <1>2, <2>1, <3>1 DEF IInv, Handles
  <2>13. Live' = Live
    BY <1>1, <1>2, <2>1 DEF Live
  <2>14. Finish'
    BY <1>1, <1>2, <1>4, <2>1 DEF IInv, Finish, Drained, Faults
  <2>15. TypeOK'
    BY <1>1, <1>4, <2>1 DEF TypeOK, sched, chans
  <2> QED BY <1>2, <2>3, <2>9, <2>10, <2>11, <2>12, <2>13, <2>14, <2>15 DEF IInv, Counts
<1> QED BY <1>3, <1>4 DEF CheckBaton


-----------------------------------------------------------------------------
(* The baton is handed on.                                                 *)

\* Thread t, and nobody else, has left R, gone to its end or to a waiting queue.
Passes(t, next) ==
  /\ outcome = "running" /\ outcome' = outcome
  /\ pc[t] \in Holding \ {"create"}
  /\ Placed' /\ run' \in Seq(Tasks)
  /\ \A u \in Tasks \ {t} :
       (u \in Range(run') <=> u \in Range(run)) /\ (u \in Parked' <=> u \in Parked)
  /\ \/ next = "wait" /\ t \in Range(run') \cup Parked'
     \/ next \in {"gone", "quiesce"} /\ t \notin Range(run') \cup Parked'
  /\ blockedCount' \in Nat /\ blockedCount' = Cardinality(Parked')

\* Who may be asleep when t goes on at next.
Sleepers(t, s, next) ==
  /\ asleep \subseteq s /\ s \subseteq asleep \cup {t}
  /\ next = "quiesce" => t = Main /\ (run' # <<>> => t \in s)

OnlyMoved(t, next) ==
  /\ pc' \in [Tasks -> Places] /\ why' \in [Tasks -> Faults \cup {"none"}]
  /\ current' \in Tasks \cup {Nobody} /\ asleep' \subseteq Tasks
  /\ \A u \in Tasks \ {t} : pc'[u] = pc[u]
  /\ pc'[t] \in {next, "faulting"}

LEMMA HandsOn ==
  ASSUME IInv, NEW t \in Tasks, NEW next, Passes(t, next), NEW s, Sleepers(t, s, next),
         NEW a, HandOff(t, run', blockedCount', a, s, next)
  PROVE  Baton' /\ Stages' /\ Finish' /\ OnlyMoved(t, next)
<1>1. /\ current = t /\ run \in Seq(Tasks) /\ run # <<>> /\ Head(run) = t
      /\ t \in Range(run) /\ t \notin Parked /\ Parked \cap Range(run) = {}
      /\ \A u \in Tasks \ {t} : pc[u] \notin Holding \cup {"faulting"}
      /\ \A u \in Tasks : pc[u] # "queued"
  BY Holder DEF Passes
<1>2. next \in {"wait", "gone", "quiesce"}
  BY DEF Passes
<1>3. \A u \in Tasks \ {t} :
        /\ u \in Range(run) => pc[u] \in {"start", "wait"}
        /\ u \in Parked => pc[u] = "wait"
        /\ pc[u] \in {"start", "wait"} => u \in Range(run) \cup Parked
        /\ pc[u] = "quiesce" => u = Main
  BY <1>1 DEF IInv, Stages
<1>4. "manit_quiesce" \notin Spurious =>
        \A u \in Tasks : pc[u] = "quiesce" => u \in asleep
  BY <1>1 DEF IInv, Finish, Drained
<1>5. /\ outcome' = "running" /\ outcome' \notin Faults
      /\ asleep \subseteq Tasks /\ s \subseteq Tasks
      /\ pc \in [Tasks -> Places] /\ why \in [Tasks -> Faults \cup {"none"}]
  BY DEF Passes, Sleepers, IInv, TypeOK, Faults
<1>6. ASSUME NEW x \in {"wait", "gone", "quiesce", "faulting"}, pc' = [pc EXCEPT ![t] = x]
      PROVE  /\ \A u \in Tasks : pc'[u] = IF u = t THEN x ELSE pc[u]
             /\ pc' \in [Tasks -> Places]
             /\ \A u \in Tasks : pc'[u] \notin Holding /\ pc'[u] # "queued"
             /\ \A u \in Tasks : pc'[u] = "faulting" => u = t /\ x = "faulting"
  <2>1. pc' \in [Tasks -> Places] /\ \A u \in Tasks : pc'[u] = IF u = t THEN x ELSE pc[u]
    BY <1>5, <1>6 DEF Places
  <2>2. x \notin Holding
    BY DEF Holding
  <2> QED BY <1>1, <2>1, <2>2
<1>7. CASE run' # <<>>
  <2> DEFINE h == Head(run')
  <2>1. /\ current' = h /\ asleep' = s \ {h} /\ pc' = [pc EXCEPT ![t] = next] /\ why' = why
    BY <1>7 DEF HandOff, Goto
  <2>2. h \in Tasks /\ h \in Range(run')
    BY <1>7, OfTail DEF Passes
  <2> HIDE DEF h
  <2>3. /\ \A u \in Tasks : pc'[u] = IF u = t THEN next ELSE pc[u]
        /\ pc' \in [Tasks -> Places]
        /\ \A u \in Tasks : pc'[u] \notin Holding /\ pc'[u] # "queued" /\ pc'[u] # "faulting"
    BY <1>2, <1>6, <2>1
  <2>4. pc'[h] \in {"start", "wait"}
    <3>1. CASE h = t
      BY <2>2, <2>3, <3>1 DEF Passes
    <3>2. CASE h # t
      BY <1>3, <2>2, <2>3, <3>2 DEF Passes
    <3> QED BY <3>1, <3>2
  <2>5. Baton'
    BY <1>7, <2>1, <2>3, <2>4 DEF Baton, h
  <2>6. Stages'
    <3>1. ASSUME NEW u \in Tasks
          PROVE  /\ u \in Range(run') => pc'[u] \in {"queued", "start", "wait"}
                 /\ u \in Parked' => pc'[u] = "wait"
                 /\ pc'[u] \in {"start", "wait"} => u \in Range(run') \cup Parked'
                 /\ pc'[u] = "quiesce" => u = Main
      <4>1. CASE u = t
        BY <2>3, <4>1 DEF Passes, Sleepers
      <4>2. CASE u # t
        BY <1>3, <2>3, <4>2 DEF Passes
      <4> QED BY <4>1, <4>2
    <3> QED BY <2>3, <3>1 DEF Stages
  <2>7. "manit_quiesce" \notin Spurious =>
          \A u \in Tasks : pc'[u] = "quiesce" => u \in asleep'
    <3> SUFFICES ASSUME "manit_quiesce" \notin Spurious, NEW u \in Tasks, pc'[u] = "quiesce"
                 PROVE  u \in asleep'
      OBVIOUS
    <3>1. u # h
      BY <2>4
    <3>2. u \in s
      <4>1. CASE u = t
        BY <1>7, <2>3, <4>1 DEF Sleepers
      <4>2. CASE u # t
        BY <1>4, <2>3, <4>2 DEF Sleepers
      <4> QED BY <4>1, <4>2
    <3> QED BY <2>1, <3>1, <3>2
  <2>8. Finish'
    BY <1>5, <2>3, <2>7 DEF Finish
  <2>9. OnlyMoved(t, next)
    BY <1>5, <2>1, <2>2, <2>3 DEF OnlyMoved
  <2> QED BY <2>5, <2>6, <2>8, <2>9
<1>8. CASE run' = <<>> /\ blockedCount' > 0
  <2>0. PICK msg \in {"await", "fill"} : Fault(t, msg) /\ UNCHANGED <<current, asleep>>
    BY <1>8 DEF HandOff
  <2>1. /\ current' = t /\ asleep' = asleep /\ pc' = [pc EXCEPT ![t] = "faulting"]
        /\ why' = [why EXCEPT ![t] = msg]
    BY <1>1, <2>0 DEF Fault
  <2>2. why' \in [Tasks -> Faults \cup {"none"}] /\ why'[t] = msg /\ msg \in Faults
    BY <1>5, <2>1 DEF Faults
  <2>3. /\ \A u \in Tasks : pc'[u] = IF u = t THEN "faulting" ELSE pc[u]
        /\ pc' \in [Tasks -> Places]
        /\ \A u \in Tasks : pc'[u] \notin Holding /\ pc'[u] # "queued"
        /\ \A u \in Tasks : pc'[u] = "faulting" => u = t
    BY <1>6, <2>1
  <2>4. Range(run') = {}
    BY <1>8, OfEmpty
  <2>5. Baton'
    BY <1>8, <2>1, <2>3 DEF Baton
  <2>6. Stages'
    <3>1. ASSUME NEW u \in Tasks
          PROVE  /\ u \in Parked' => pc'[u] \in {"wait", "faulting"}
                 /\ pc'[u] \in {"start", "wait"} => u \in Range(run') \cup Parked'
                 /\ pc'[u] = "quiesce" => u = Main
      <4>1. CASE u = t
        BY <2>3, <4>1
      <4>2. CASE u # t
        BY <1>3, <2>3, <4>2 DEF Passes
      <4> QED BY <4>1, <4>2
    <3> QED BY <1>8, <2>3, <2>4, <3>1 DEF Stages
  <2>7. "manit_quiesce" \notin Spurious =>
          \A u \in Tasks : pc'[u] = "quiesce" => u \in asleep'
    BY <1>4, <2>1, <2>3
  <2>8. Finish'
    BY <1>5, <1>8, <2>2, <2>3, <2>7 DEF Finish
  <2>9. OnlyMoved(t, next)
    BY <1>5, <2>1, <2>2, <2>3 DEF OnlyMoved
  <2> QED BY <2>5, <2>6, <2>8, <2>9
<1>9. CASE run' = <<>> /\ ~(blockedCount' > 0)
  <2>1. /\ current' = Nobody /\ asleep' \subseteq s /\ pc' = [pc EXCEPT ![t] = next]
        /\ why' = why
    BY <1>9 DEF HandOff, Goto
  <2>3. /\ \A u \in Tasks : pc'[u] = IF u = t THEN next ELSE pc[u]
        /\ pc' \in [Tasks -> Places]
        /\ \A u \in Tasks : pc'[u] \notin Holding /\ pc'[u] # "queued" /\ pc'[u] # "faulting"
    BY <1>2, <1>6, <2>1
  <2>4. Range(run') = {}
    BY <1>9, OfEmpty
  <2>5. Baton'
    BY <1>9, <2>1, <2>3 DEF Baton
  <2>6. Stages'
    <3>1. ASSUME NEW u \in Tasks
          PROVE  /\ u \in Parked' => pc'[u] = "wait"
                 /\ pc'[u] \in {"start", "wait"} => u \in Range(run') \cup Parked'
                 /\ pc'[u] = "quiesce" => u = Main
      <4>1. CASE u = t
        BY <2>3, <4>1 DEF Passes, Sleepers
      <4>2. CASE u # t
        BY <1>3, <2>3, <4>2 DEF Passes
      <4> QED BY <4>1, <4>2
    <3> QED BY <2>3, <2>4, <3>1 DEF Stages
  <2>7. Drained'
    <3>1. blockedCount' = 0
      <4> DEFINE n == blockedCount'
      <4>1. n \in Nat /\ ~(n > 0)
        BY <1>9 DEF Passes
      <4> HIDE DEF n
      <4>2. n = 0
        BY <4>1
      <4> QED BY <4>2 DEF n
    <3> QED BY <1>9, <2>1, <3>1 DEF Drained
  <2>8. Finish'
    BY <1>5, <2>3, <2>7 DEF Finish
  <2>9. OnlyMoved(t, next)
    BY <1>5, <2>1, <2>3 DEF OnlyMoved
  <2> QED BY <2>5, <2>6, <2>8, <2>9
<1> QED BY <1>7, <1>8, <1>9

\* Nobody is inside a call afterwards.
LEMMA HandedArgs ==
  ASSUME IInv, NEW t \in Tasks, NEW next, Passes(t, next), OnlyMoved(t, next),
         \A u \in Tasks \ {t} : op'[u] = op[u], next = "quiesce" => op'[t] = Idle
  PROVE  Args'
<1>1. \A u \in Tasks \ {t} : pc[u] \notin Holding \cup {"faulting"}
  BY Holder DEF Passes
<1>2. ASSUME NEW u \in Tasks PROVE ArgsOf(u)'
  <2>1. pc[u] = "quiesce" => op[u] = Idle
    BY DEF IInv, Args, ArgsOf
  <2>2. pc'[u] \notin Holding /\ (pc'[u] = "quiesce" => op'[u] = Idle)
    <3>1. CASE u = t
      BY <3>1 DEF Passes, OnlyMoved, Holding
    <3>2. CASE u # t
      BY <1>1, <2>1, <3>2 DEF OnlyMoved
    <3> QED BY <3>1, <3>2
  <2> QED BY <2>2 DEF ArgsOf, Holding
<1> QED BY <1>2 DEF Args

\* A task that has not finished is still counted.
LEMMA HandedHandles ==
  ASSUME IInv, NEW t \in Tasks, NEW next, Passes(t, next), OnlyMoved(t, next),
         next # "gone", pc[t] \notin {"complete", "leave"},
         UNCHANGED <<handle, liveTasks>>, ablocked'[Main] = <<>>
  PROVE  Handles' /\ Counts'
<1>1. /\ \A u \in Tasks \ {t} : pc'[u] = pc[u]
      /\ pc'[t] \in {"wait", "quiesce", "faulting"}
  BY DEF Passes, OnlyMoved
<1>2. pc[t] \notin {"unborn", "gone", "faulting", "complete", "leave"} /\ Main \in Tasks
  BY CAssumption DEF Passes, Holding
<1>3. handle[t] \in {"none", "running"}
  BY <1>2 DEF IInv, Handles, TypeOK
<1>4. Handles'
  BY <1>1, <1>2, <1>3 DEF Handles, IInv
<1>5. Live' = Live
  BY <1>1, <1>2, <1>3 DEF Live
<1> QED BY <1>4, <1>5 DEF IInv, Counts, Passes


\* manit_sched_block_on: the operation the queue of the caller stands for.
BlockedOp(t) ==
  <<CASE pc[t] = "sendFull" -> "send" [] pc[t] = "recvEmpty" -> "recv" [] OTHER -> "await",
    arg[t]>>

LEMMA BlockOnPasses ==
  ASSUME IInv, NEW t \in Tasks, BlockOn(t)
  PROVE  /\ Passes(t, "wait")
         /\ BlockedOp(t) \in Ops /\ op' = [op EXCEPT ![t] = BlockedOp(t)]
         /\ blocked' \in [Chans -> Seq(Tasks)] /\ sblocked' \in [Chans -> Seq(Tasks)]
         /\ ablocked' \in [Tasks -> Seq(Tasks)] /\ ablocked'[Main] = <<>>
<1> DEFINE o == BlockedOp(t)
<1>1. /\ pc[t] \in {"sendFull", "recvEmpty", "awaitRunning"} /\ outcome = "running"
      /\ TypeOK /\ run' = Tail(run) /\ blockedCount' = blockedCount + 1
      /\ op' = [op EXCEPT ![t] = o]
  BY DEF BlockOn, At, IInv, BlockedOp
<1>2. UNCHANGED <<liveTasks, queue, cap, closed, handle, arg, outcome>>
  BY DEF BlockOn, chans
<1>4. /\ current = t /\ run \in Seq(Tasks) /\ run # <<>> /\ Head(run) = t
      /\ t \in Range(run) /\ t \notin Parked /\ IsFiniteSet(Parked)
  BY <1>1, Holder DEF Holding
<1>5. W \in [Queues -> Seq(Tasks)] /\ PlacedIn(run, W, op) /\ op \in [Tasks -> Ops]
  BY <1>1, WTypes DEF IInv, Placed, TypeOK
<1>6. /\ o \in Queues /\ o \in Ops /\ W' = [W EXCEPT ![o] = Append(W[o], t)]
      /\ blocked' \in [Chans -> Seq(Tasks)] /\ sblocked' \in [Chans -> Seq(Tasks)]
      /\ ablocked' \in [Tasks -> Seq(Tasks)] /\ ablocked'[Main] = <<>>
  <2>0. /\ blocked \in [Chans -> Seq(Tasks)] /\ sblocked \in [Chans -> Seq(Tasks)]
        /\ ablocked \in [Tasks -> Seq(Tasks)] /\ ablocked[Main] = <<>> /\ Main \in Tasks
    BY <1>1, CAssumption DEF TypeOK, IInv, Handles
  <2>1. CASE pc[t] = "sendFull"
    <3>1. arg[t] \in Chans /\ o = <<"send", arg[t]>>
      BY <2>1 DEF IInv, Args, ArgsOf, BlockedOp
    <3>2. sblocked' = [sblocked EXCEPT ![arg[t]] = Append(sblocked[arg[t]], t)]
          /\ UNCHANGED <<blocked, ablocked>>
      BY <1>4, <2>1 DEF BlockOn
    <3>3. o \in Queues /\ W[o] = sblocked[arg[t]] /\ o \in Ops
      <4>1. o \in Ops
        BY <3>1 DEF Ops
      <4> QED BY <1>1, <3>1, <4>1, WTypes
    <3>4. W' = [W EXCEPT ![o] = Append(W[o], t)]
      BY <1>1, <3>1, <3>2, <3>3, WSend
    <3>5. Append(sblocked[arg[t]], t) \in Seq(Tasks)
      BY <2>0, <3>1
    <3> QED BY <2>0, <3>2, <3>3, <3>4, <3>5
  <2>2. CASE pc[t] = "recvEmpty"
    <3>1. arg[t] \in Chans /\ o = <<"recv", arg[t]>>
      BY <2>2 DEF IInv, Args, ArgsOf, BlockedOp
    <3>2. blocked' = [blocked EXCEPT ![arg[t]] = Append(blocked[arg[t]], t)]
          /\ UNCHANGED <<sblocked, ablocked>>
      BY <1>4, <2>2 DEF BlockOn
    <3>3. o \in Queues /\ W[o] = blocked[arg[t]] /\ o \in Ops
      <4>1. o \in Ops
        BY <3>1 DEF Ops
      <4> QED BY <1>1, <3>1, <4>1, WTypes
    <3>4. W' = [W EXCEPT ![o] = Append(W[o], t)]
      BY <1>1, <3>1, <3>2, <3>3, WRecv
    <3>5. Append(blocked[arg[t]], t) \in Seq(Tasks)
      BY <2>0, <3>1
    <3> QED BY <2>0, <3>2, <3>3, <3>4, <3>5
  <2>3. CASE pc[t] = "awaitRunning"
    <3>1. arg[t] \in Tasks /\ handle[arg[t]] = "running" /\ o = <<"await", arg[t]>>
      BY <2>3 DEF IInv, Args, ArgsOf, BlockedOp
    <3>2. ablocked' = [ablocked EXCEPT ![arg[t]] = Append(ablocked[arg[t]], t)]
          /\ UNCHANGED <<blocked, sblocked>>
      BY <1>4, <2>3 DEF BlockOn
    <3>3. o \in Queues /\ W[o] = ablocked[arg[t]] /\ o \in Ops
      <4>1. o \in Ops
        BY <3>1 DEF Ops
      <4> QED BY <1>1, <3>1, <4>1, WTypes
    <3>4. W' = [W EXCEPT ![o] = Append(W[o], t)]
      BY <1>1, <3>1, <3>2, <3>3, WAwait
    <3>5. Append(ablocked[arg[t]], t) \in Seq(Tasks)
      BY <2>0, <3>1
    <3>6. arg[t] # Main
      BY <2>0, <3>1 DEF IInv, Handles
    <3> QED BY <2>0, <3>1, <3>2, <3>3, <3>4, <3>5, <3>6
  <2> QED BY <1>1, <2>1, <2>2, <2>3
<1> HIDE DEF o
<1>7. /\ PlacedIn(run', W', op') /\ ParkedIn(W') = ParkedIn(W) \cup {t}
      /\ t \notin ParkedIn(W)
  BY <1>1, <1>4, <1>5, <1>6, Blocks
<1>8. run' \in Seq(Tasks) /\ Range(run') = Range(run) \ {t}
  BY <1>1, <1>4, <1>5, RunMoves
<1>9. Parked' = Parked \cup {t} /\ Placed'
  BY <1>7 DEF Parked, Placed, ParkedIn, ParkedBy
<1>10. blockedCount' \in Nat /\ blockedCount' = Cardinality(Parked')
  <2>1. Cardinality(Parked') = Cardinality(Parked) + 1
    BY <1>4, <1>9, FS_AddElement
  <2>2. blockedCount = Cardinality(Parked) /\ blockedCount \in Nat
    BY DEF IInv, Counts, TypeOK
  <2> QED BY <1>1, <2>1, <2>2
<1>11. Passes(t, "wait")
  BY <1>1, <1>2, <1>8, <1>9, <1>10 DEF Passes, Holding
<1> QED BY <1>1, <1>6, <1>11 DEF o

LEMMA BlockOnKeeps ==
  ASSUME IInv, NEW t \in Tasks, BlockOn(t)
  PROVE  IInv'
<1>1. /\ pc[t] \in {"sendFull", "recvEmpty", "awaitRunning"} /\ TypeOK
      /\ UNCHANGED <<liveTasks, queue, cap, closed, handle, arg, outcome>>
      /\ HandOff(t, run', blockedCount', ablocked', asleep \cup {t}, "wait")
      /\ \E o : Starts(t, o)
  BY DEF BlockOn, At, IInv, chans
<1>2. /\ Passes(t, "wait")
      /\ BlockedOp(t) \in Ops /\ op' = [op EXCEPT ![t] = BlockedOp(t)]
      /\ blocked' \in [Chans -> Seq(Tasks)] /\ sblocked' \in [Chans -> Seq(Tasks)]
      /\ ablocked' \in [Tasks -> Seq(Tasks)] /\ ablocked'[Main] = <<>>
  BY BlockOnPasses
<1>3. Sleepers(t, asleep \cup {t}, "wait")
  BY DEF Sleepers
<1>4. Baton' /\ Stages' /\ Finish' /\ OnlyMoved(t, "wait")
  BY <1>1, <1>2, <1>3, HandsOn
<1>5. op' \in [Tasks -> Ops] /\ \A u \in Tasks \ {t} : op'[u] = op[u]
  BY <1>1, <1>2 DEF TypeOK
<1>6. Args'
  BY <1>2, <1>4, <1>5, HandedArgs
<1>7. Handles' /\ Counts'
  BY <1>1, <1>2, <1>4, HandedHandles
<1>8. used' \in [Tasks -> 0..MaxOps]
  BY <1>1, StartTypes
<1>9. TypeOK'
  BY <1>1, <1>2, <1>4, <1>5, <1>8 DEF TypeOK, OnlyMoved, Passes
<1> QED BY <1>2, <1>4, <1>6, <1>7, <1>9 DEF IInv, Passes

LEMMA YieldPasses ==
  ASSUME IInv, NEW t \in Tasks, TaskYield(t), run' = Append(Tail(run), t)
  PROVE  Passes(t, "wait")
<1>1. pc[t] = "run" /\ outcome = "running" /\ TypeOK
  BY DEF TaskYield, At, IInv
<1>2. UNCHANGED <<blocked, sblocked, ablocked, blockedCount, op, outcome>>
  BY DEF TaskYield
<1>3. /\ current = t /\ run \in Seq(Tasks) /\ run # <<>> /\ Head(run) = t
      /\ t \in Range(run) /\ t \notin Parked
  BY <1>1, Holder DEF Holding
<1>4. W \in [Queues -> Seq(Tasks)] /\ PlacedIn(run, W, op) /\ W' = W
  BY <1>1, <1>2, WTypes, WStays DEF IInv, Placed
<1>5. PlacedIn(run', W, op) /\ run' \in Seq(Tasks) /\ Range(run') = Range(run)
  BY <1>3, <1>4, RunMoves
<1>6. Placed' /\ Parked' = Parked
  BY <1>2, <1>4, <1>5 DEF Placed, Parked, ParkedIn, ParkedBy
<1>7. blockedCount' \in Nat /\ blockedCount' = Cardinality(Parked')
  BY <1>1, <1>2, <1>6 DEF IInv, Counts, TypeOK
<1> QED BY <1>1, <1>2, <1>3, <1>5, <1>6, <1>7 DEF Passes, Holding

LEMMA YieldKeeps ==
  ASSUME IInv, NEW t \in Tasks, TaskYield(t)
  PROVE  IInv'
<1>1. pc[t] = "run" /\ outcome = "running" /\ TypeOK /\ ablocked[Main] = <<>>
  BY DEF TaskYield, At, IInv, Handles
<1>2. UNCHANGED <<blocked, sblocked, ablocked, blockedCount, liveTasks, queue, cap, closed,
                  handle, arg, op, outcome>>
  BY DEF TaskYield, chans
<1>3. used' \in [Tasks -> 0..MaxOps]
  BY <1>1, StartTypes DEF TaskYield
<1>4. CASE UNCHANGED <<run, current, pc, why, asleep>>
  <2>1. Keeps(t, "run") /\ Quiet(t)
    BY <1>1, <1>2, <1>4 DEF Keeps, Quiet, Holding, TypeOK
  <2>2. Moved
    BY <1>1, <1>2, <1>4, NobodyMoves DEF Holding
  <2>3. ArgsOf(t)'
    BY <1>1, <1>4 DEF ArgsOf
  <2>4. TypeOK'
    BY <1>1, <1>2, <1>3, <1>4 DEF TypeOK
  <2> QED BY <1>1, <2>1, <2>2, <2>3, <2>4, KeepsAll DEF IInv
<1>5. CASE /\ run' = Append(Tail(run), t)
           /\ HandOff(t, run', blockedCount, ablocked, asleep \cup {t}, "wait")
  <2>1. Passes(t, "wait")
    BY <1>5, YieldPasses
  <2>2. Sleepers(t, asleep \cup {t}, "wait")
    BY DEF Sleepers
  <2>3. HandOff(t, run', blockedCount', ablocked, asleep \cup {t}, "wait")
    BY <1>2, <1>5
  <2>4. Baton' /\ Stages' /\ Finish' /\ OnlyMoved(t, "wait")
    BY <2>1, <2>2, <2>3, HandsOn
  <2>5. Args'
    BY <1>2, <2>1, <2>4, HandedArgs
  <2>6. Handles' /\ Counts'
    BY <1>1, <1>2, <2>1, <2>4, HandedHandles
  <2>7. TypeOK'
    BY <1>1, <1>2, <1>3, <2>1, <2>4 DEF TypeOK, OnlyMoved, Passes
  <2> QED BY <2>1, <2>4, <2>5, <2>6, <2>7 DEF IInv, Passes
<1> QED BY <1>4, <1>5 DEF TaskYield

\* The head of R is gone from it.
LEMMA OffPasses ==
  ASSUME IInv, NEW t \in Tasks, NEW next \in {"gone", "quiesce"}, pc[t] \in Holding \ {"create"},
         outcome = "running", run' = Tail(run),
         UNCHANGED <<blocked, sblocked, ablocked, blockedCount, op, outcome>>
  PROVE  Passes(t, next)
<1>1. TypeOK
  BY DEF IInv
<1>3. /\ current = t /\ run \in Seq(Tasks) /\ run # <<>> /\ Head(run) = t
      /\ t \in Range(run) /\ t \notin Parked
  BY <1>1, Holder DEF Holding
<1>4. W \in [Queues -> Seq(Tasks)] /\ PlacedIn(run, W, op) /\ W' = W
  BY <1>1, WTypes, WStays DEF IInv, Placed
<1>5. PlacedIn(run', W, op) /\ run' \in Seq(Tasks) /\ Range(run') = Range(run) \ {t}
  BY <1>3, <1>4, RunMoves
<1>6. Placed' /\ Parked' = Parked
  BY <1>4, <1>5 DEF Placed, Parked, ParkedIn, ParkedBy
<1>7. blockedCount' \in Nat /\ blockedCount' = Cardinality(Parked')
  BY <1>1, <1>6 DEF IInv, Counts, TypeOK
<1> QED BY <1>1, <1>3, <1>5, <1>6, <1>7 DEF Passes

\* The trampoline's (DONE): the count of tasks goes down with its task.
LEMMA LeaveKeeps ==
  ASSUME IInv, NEW t \in Tasks, Leave(t)
  PROVE  IInv'
<1>1. /\ pc[t] = "leave" /\ outcome = "running" /\ TypeOK /\ ablocked[Main] = <<>>
      /\ run' = Tail(run) /\ liveTasks' = liveTasks - 1
  BY DEF Leave, At, IInv, Handles
<1>2. UNCHANGED <<blocked, sblocked, ablocked, blockedCount, queue, cap, closed,
                  handle, arg, op, used, outcome>>
  BY DEF Leave, chans
<1>3. HandOff(t, run', blockedCount', ablocked, asleep, "gone")
  BY <1>2 DEF Leave
<1>9. Passes(t, "gone")
  BY <1>1, <1>2, OffPasses DEF Holding
<1>10. Sleepers(t, asleep, "gone")
  BY DEF Sleepers
<1>11. Baton' /\ Stages' /\ Finish' /\ OnlyMoved(t, "gone")
  BY <1>3, <1>9, <1>10, HandsOn
<1>12. Args'
  BY <1>2, <1>9, <1>11, HandedArgs
<1>13. /\ \A u \in Tasks \ {t} : pc'[u] = pc[u]
       /\ pc'[t] \in {"gone", "faulting"} /\ handle' = handle
  BY <1>2, <1>11 DEF OnlyMoved
<1>14. handle[t] \in {"done", "taken"} /\ Main \in Tasks
  BY <1>1, CAssumption DEF IInv, Handles
<1>15. Handles'
  BY <1>1, <1>2, <1>13, <1>14 DEF IInv, Handles
<1>16. liveTasks' = Cardinality(Live') /\ liveTasks' \in Nat
  <2>1. Live' = Live \ {t} /\ t \in Live
    BY <1>1, <1>13, <1>14 DEF Live
  <2>2. IsFiniteSet(Live) /\ IsFiniteSet(Live')
    BY <2>1, CAssumption, FS_Subset DEF Live
  <2>3. liveTasks = Cardinality(Live)
    BY DEF IInv, Counts
  <2>4. Cardinality(Live') = Cardinality(Live) - 1 /\ Cardinality(Live') \in Nat
    BY <2>1, <2>2, FS_RemoveElement, FS_CardinalityType
  <2> QED BY <1>1, <2>3, <2>4
<1>17. TypeOK'
  BY <1>1, <1>2, <1>9, <1>11, <1>16 DEF TypeOK, OnlyMoved, Passes
<1> QED BY <1>9, <1>11, <1>12, <1>15, <1>16, <1>17 DEF IInv, Counts, Passes

LEMMA MainDoneKeeps ==
  ASSUME IInv, NEW t \in Tasks, MainDone(t)
  PROVE  IInv'
<1> DEFINE s == IF run' = <<>> THEN asleep ELSE asleep \cup {t}
<1>1. /\ pc[t] = "run" /\ outcome = "running" /\ TypeOK /\ ablocked[Main] = <<>>
      /\ run' = Tail(run) /\ t = Main /\ op[t] = Idle
  BY DEF MainDone, At, IInv, Handles
<1>2. UNCHANGED <<blocked, sblocked, ablocked, blockedCount, liveTasks, queue, cap, closed,
                  handle, arg, op, used, outcome>>
  BY DEF MainDone, chans
<1>3. HandOff(t, run', blockedCount', ablocked, s, "quiesce")
  BY <1>2 DEF MainDone
<1>9. Passes(t, "quiesce")
  BY <1>1, <1>2, OffPasses DEF Holding
<1>10. Sleepers(t, s, "quiesce")
  BY <1>1 DEF Sleepers
<1> HIDE DEF s
<1>11. Baton' /\ Stages' /\ Finish' /\ OnlyMoved(t, "quiesce")
  BY <1>3, <1>9, <1>10, HandsOn
<1>12. Args'
  BY <1>1, <1>2, <1>9, <1>11, HandedArgs
<1>13. Handles' /\ Counts'
  BY <1>1, <1>2, <1>9, <1>11, HandedHandles
<1>14. TypeOK'
  BY <1>1, <1>2, <1>9, <1>11 DEF TypeOK, OnlyMoved, Passes
<1> QED BY <1>9, <1>11, <1>12, <1>13, <1>14 DEF IInv, Passes

-----------------------------------------------------------------------------
(* The invariant.                                                          *)

LEMMA Initial == Init => IInv
<1> SUFFICES ASSUME Init PROVE IInv
  OBVIOUS
<1> USE DEF Init
<1>0. Main \in Tasks /\ IsFiniteSet(Tasks) /\ Nobody \notin Tasks /\ MaxOps \in Nat
  BY CAssumption, NobodyIsNoTask
<1>1. TypeOK
  <2>1. run \in Seq(Tasks) /\ <<>> \in Seq(Tasks)
    BY <1>0
  <2>2. op \in [Tasks -> Ops] /\ used \in [Tasks -> 0..MaxOps]
    BY <1>0 DEF Ops
  <2>3. pc \in [Tasks -> Places]
    BY DEF Places, Holding
  <2> QED BY <1>0, <2>1, <2>2, <2>3 DEF TypeOK, None
<1>2. \A o \in Queues : W[o] = <<>>
  BY DEF W, Queues
<1>3. Parked = {}
  BY <1>2, OfEmpty DEF Parked, ParkedIn, ParkedBy
<1>4. Range(run) = {Main} /\ IsInjective(run) /\ run # <<>> /\ Head(run) = Main
  <2> DEFINE e == <<>>
  <2>1. run = Append(e, Main) /\ e \in Seq(Tasks) /\ Range(e) = {} /\ IsInjective(e)
    BY OfEmpty
  <2> HIDE DEF e
  <2>2. Range(Append(e, Main)) = Range(e) \cup {Main} /\ IsInjective(Append(e, Main))
    BY <1>0, <2>1, OfAppend
  <2>3. run # <<>> /\ Head(run) = Main
    OBVIOUS
  <2> QED BY <2>1, <2>2, <2>3
<1>5. Placed
  BY <1>2, <1>4, OfEmpty DEF Placed, PlacedIn, PlacedBy
<1>6. Counts
  <2>1. Live = {Main}
    BY <1>0 DEF Live
  <2> QED BY <1>3, <2>1, FS_EmptySet, FS_Singleton DEF Counts
<1>7. Baton
  BY <1>0, <1>4 DEF Baton, Holding
<1>8. Stages
  BY <1>0, <1>3, <1>4 DEF Stages, Holding
<1>9. Args
  BY DEF Args, ArgsOf
<1>10. Handles
  BY <1>0 DEF Handles
<1>11. Finish
  BY DEF Finish, Faults
<1> QED BY <1>1, <1>5, <1>6, <1>7, <1>8, <1>9, <1>10, <1>11 DEF IInv

LEMMA Inductive == IInv /\ [Next]_vars => IInv'
<1> SUFFICES ASSUME IInv, [Next]_vars PROVE IInv'
  OBVIOUS
<1>1. CASE UNCHANGED vars
  <2>1. UNCHANGED <<sched, chans, handle, pc, arg, why, op, used>> /\ UNCHANGED <<asleep, outcome>>
    BY <1>1 DEF vars
  <2>2. (Placed /\ Counts /\ Baton /\ Stages /\ Args /\ Handles)'
    BY <2>1, OthersKeep
  <2>3. TypeOK' /\ Finish'
    BY <2>1 DEF IInv, TypeOK, Finish, Drained, sched, chans
  <2> QED BY <2>2, <2>3 DEF IInv
<1>2. ASSUME NEW t \in Tasks, Step(t) \/ SpuriousWake(t) PROVE IInv'
  BY <1>2, NewChannelKeeps, SendKeeps, RecvKeeps, WakesKeep, CloseKeeps, CloseWakesKeep,
     BodyFaultKeeps, AwaitKeeps, BodyReturnsKeeps, CompleteWakeKeeps, SpawnKeeps,
     CreateKeeps, EndsKeep, CheckKeeps, BlockOnKeeps, YieldKeeps, LeaveKeeps, MainDoneKeeps
     DEF Step
<1> QED BY <1>1, <1>2 DEF Next

\* The inductive invariant holds of every behaviour.
THEOREM Invariant == Spec => []IInv
BY Initial, Inductive, PTL DEF Spec

\* Exactly one task holds the baton: a thread outside the waiting loops is
\* manit_current and the head of R, whatever the operating system schedules and
\* however often a condition variable wakes by itself.
THEOREM BatonIsExclusive == Spec => []OnlyBatonRuns
<1>1. IInv => OnlyBatonRuns
  BY Holder DEF OnlyBatonRuns
<1> QED BY <1>1, Invariant, PTL


-----------------------------------------------------------------------------
(* The counters.                                                           *)

\* The queue a place on it belongs to.
Place(w) ==
  IF w[1] = "recv" THEN blocked[w[2]]
  ELSE IF w[1] = "send" THEN sblocked[w[2]] ELSE ablocked[w[2]]

Taken == {w \in Waiters : w[3] \in DOMAIN Place(w)}

\* A place on a waiting queue is one of the operation its queue stands for.
LEMMA PlaceIs ==
  ASSUME NEW w \in Waiters
  PROVE  /\ <<w[1], w[2]>> \in Queues /\ Place(w) = W[<<w[1], w[2]>>]
         /\ w = <<w[1], w[2], w[3]>> /\ w[3] \in 1..Cardinality(Tasks)
BY DEF Waiters, Queues, Place, W

\* The places taken are as many as the tasks that wait.
LEMMA TakenAreParked ==
  ASSUME IInv
  PROVE  Cardinality(Taken) = Cardinality(Parked)
<1> DEFINE f == [w \in Taken |-> Place(w)[w[3]]]
<1>1. W \in [Queues -> Seq(Tasks)] /\ IsFiniteSet(Tasks) /\ PlacedIn(run, W, op)
  BY WTypes, CAssumption DEF IInv, Placed
<1>2. ASSUME NEW w \in Taken
      PROVE  f[w] \in Parked /\ f[w] \in Range(Place(w)) /\ op[f[w]] = <<w[1], w[2]>>
  <2>1. w \in Waiters /\ w[3] \in DOMAIN Place(w)
    BY DEF Taken
  <2>2. <<w[1], w[2]>> \in Queues /\ Place(w) = W[<<w[1], w[2]>>]
    BY <2>1, PlaceIs
  <2>3. f[w] \in Range(Place(w))
    BY <2>1 DEF Range
  <2>4. Range(W[<<w[1], w[2]>>]) \subseteq Tasks
    BY <1>1, <2>2, OfMembers
  <2>5. f[w] \in Parked
    BY <2>2, <2>3, <2>4 DEF Parked, ParkedIn, ParkedBy
  <2> QED BY <1>1, <2>2, <2>3, <2>5 DEF PlacedIn, PlacedBy
<1>3. ASSUME NEW v \in Taken, NEW w \in Taken, f[v] = f[w]
      PROVE  v = w
  <2>1. v \in Waiters /\ w \in Waiters /\ v[3] \in DOMAIN Place(v) /\ w[3] \in DOMAIN Place(w)
    BY DEF Taken
  <2>2. <<v[1], v[2]>> = <<w[1], w[2]>>
    BY <1>2, <1>3
  <2>3. Place(v) = Place(w) /\ IsInjective(Place(v))
    BY <1>1, <2>1, <2>2, PlaceIs DEF PlacedIn, PlacedBy
  <2>4. Place(v)[v[3]] = Place(v)[w[3]]
    BY <1>3, <2>3
  <2>5. v[3] = w[3]
    BY <2>1, <2>3, <2>4 DEF IsInjective
  <2>6. v = <<v[1], v[2], v[3]>> /\ w = <<w[1], w[2], w[3]>>
    BY <2>1, PlaceIs
  <2> QED BY <2>2, <2>5, <2>6
<1>4. ASSUME NEW t \in Parked PROVE \E w \in Taken : f[w] = t
  <2>1. PICK o \in Queues : t \in Range(W[o])
    BY DEF Parked, ParkedIn, ParkedBy
  <2>2. W[o] \in Seq(Tasks) /\ IsInjective(W[o])
    BY <1>1 DEF PlacedIn, PlacedBy
  <2>3. PICK i \in DOMAIN W[o] : W[o][i] = t
    BY <2>1 DEF Range
  <2>4. i \in 1..Cardinality(Tasks)
    <3>1. Cardinality(Range(W[o])) = Len(W[o]) /\ Range(W[o]) \subseteq Tasks
      BY <2>2, OfLength, OfMembers
    <3>2. Cardinality(Range(W[o])) <= Cardinality(Tasks) /\ Cardinality(Tasks) \in Nat
      BY <1>1, <3>1, FS_Subset, FS_CardinalityType
    <3>3. i \in 1..Len(W[o]) /\ Len(W[o]) \in Nat
      BY <2>2, LenProperties
    <3> DEFINE k == Cardinality(Tasks)
               l == Len(W[o])
    <3>4. l <= k /\ k \in Nat /\ l \in Nat /\ i \in 1..l
      BY <3>1, <3>2, <3>3
    <3> HIDE DEF k, l
    <3>5. i \in 1..k
      BY <3>4
    <3> QED BY <3>5 DEF k
  <2> DEFINE w == <<o[1], o[2], i>>
  <2>5. w \in Waiters /\ Place(w) = W[o]
    BY <2>4 DEF Waiters, Queues, Place, W
  <2>6. w \in Taken /\ f[w] = t
    BY <2>3, <2>5 DEF Taken
  <2> QED BY <2>6
<1>5. f \in Bijection(Taken, Parked)
  <2>1. f \in [Taken -> Parked]
    BY <1>2
  <2> HIDE DEF f
  <2>2. f \in Injection(Taken, Parked)
    BY <1>3, <2>1 DEF Injection, IsInjective
  <2>3. f \in Surjection(Taken, Parked)
    BY <1>4, <2>1 DEF Surjection
  <2> QED BY <2>2, <2>3 DEF Bijection
<1>6. IsFiniteSet(Parked)
  BY <1>1, Apart DEF Parked, IInv, TypeOK
<1>7. ExistsBijection(Parked, Taken)
  <2>1. ExistsBijection(Taken, Parked)
    BY <1>5 DEF ExistsBijection
  <2> QED BY <2>1, Fun_ExistsBijSymmetric
<1> QED BY <1>6, <1>7, FS_Bijection

\* A task that sees a count of 1 is the only one counted.
LEMMA OneAlive ==
  ASSUME IInv, NEW t \in Tasks, pc[t] = "run", liveTasks = 1, NEW u \in Tasks \ {t}
  PROVE  pc[u] \in {"unborn", "gone", "quiesce"}
<1>1. t \in Live /\ Cardinality(Live) = 1 /\ IsFiniteSet(Live)
  BY CAssumption, FS_Subset DEF Live, IInv, Counts
<1>2. u \notin Live
  <2>1. PICK x : Live = {x}
    BY <1>1, FS_Singleton
  <2> QED BY <1>1, <2>1
<1>3. pc[u] # "faulting"
  BY Holder DEF Holding
<1> QED BY <1>2, <1>3 DEF Live

\* The counters kept by hand are right: manit_blocked_count is the number of
\* tasks on the waiting queues, and a task whose own code sees a
\* manit_live_tasks of 1 is the only one there is.
THEOREM CountsAreRight == Spec => []CountersRight
<1>1. IInv => CountersRight
  <2> SUFFICES ASSUME IInv PROVE CountersRight
    OBVIOUS
  <2>1. BlockedCountExact
    BY TakenAreParked DEF BlockedCountExact, Taken, Place, IInv, Counts
  <2>2. LiveCountSafe
    BY OneAlive DEF LiveCountSafe
  <2> QED BY <2>1, <2>2 DEF CountersRight, IInv
<1> QED BY <1>1, Invariant, PTL


-----------------------------------------------------------------------------
(* The verdict.                                                            *)

\* Once no wake-up is under way CoopSched sees the queues as they are.
LEMMA BarsAtRest ==
  ASSUME IInv, run = <<>>
  PROVE  /\ runBar = <<>>
         /\ \A c \in Chans : blockedBar[c] = blocked[c] /\ sblockedBar[c] = sblocked[c]
         /\ \A u \in Tasks : ablockedBar[u] = ablocked[u]
<1>1. current = Nobody \/ (current \in Tasks /\ pc[current] = "faulting")
  BY DEF IInv, Baton
<1>2. runBar = <<>>
  BY <1>1 DEF runBar
<1>3. DOMAIN blocked = Chans /\ DOMAIN sblocked = Chans
  BY DEF IInv, TypeOK
<1>4. \A c \in Chans : blockedBar[c] = blocked[c] /\ sblockedBar[c] = sblocked[c]
  BY <1>1, <1>3 DEF blockedBar, sblockedBar, After
<1>5. \A u \in Tasks : pc[u] # "complete"
  BY <1>1, NobodyIsNoTask DEF IInv, Baton, Holding
<1>6. \A u \in Tasks : ablockedBar[u] = ablocked[u]
  BY <1>5 DEF ablockedBar
<1> QED BY <1>2, <1>4, <1>6

\* Somebody waits exactly when the count is not 0.
LEMMA SomebodyWaits ==
  ASSUME IInv
  PROVE  blockedCount # 0 <=> \/ \E c \in Chans : blocked[c] # <<>> \/ sblocked[c] # <<>>
                              \/ \E u \in Tasks : ablocked[u] # <<>>
<1>1. TypeOK /\ W \in [Queues -> Seq(Tasks)] /\ PlacedIn(run, W, op)
  BY WTypes DEF IInv, Placed
<1>2. IsFiniteSet(Parked) /\ blockedCount = Cardinality(Parked)
  BY <1>1, Apart DEF Parked, IInv, Counts, TypeOK
<1>3. blockedCount # 0 <=> Parked # {}
  BY <1>2, FS_EmptySet
<1>4. Parked # {} <=> \E o \in Queues : W[o] # <<>>
  <2>1. \A o \in Queues : W[o] \in Seq(Tasks)
    BY <1>1
  <2>2. \A o \in Queues : Range(W[o]) \subseteq Tasks /\ (W[o] = <<>> <=> Range(W[o]) = {})
    BY <2>1, OfMembers
  <2> QED BY <2>2 DEF Parked, ParkedIn, ParkedBy
<1>5. (\E o \in Queues : W[o] # <<>>)
        <=> \/ \E c \in Chans : blocked[c] # <<>> \/ sblocked[c] # <<>>
            \/ \E u \in Tasks : ablocked[u] # <<>>
  <2>1. ASSUME NEW o \in Queues, W[o] # <<>>
        PROVE  \/ \E c \in Chans : blocked[c] # <<>> \/ sblocked[c] # <<>>
               \/ \E u \in Tasks : ablocked[u] # <<>>
    BY <2>1 DEF W, Queues
  <2>2. ASSUME \/ \E c \in Chans : blocked[c] # <<>> \/ sblocked[c] # <<>>
               \/ \E u \in Tasks : ablocked[u] # <<>>
        PROVE  \E o \in Queues : W[o] # <<>>
    BY <1>1, <2>2, WTypes
  <2> QED BY <2>1, <2>2
<1> QED BY <1>3, <1>4, <1>5

\* The process reports the end CoopSched defines: the status of a normal end when
\* R and B are empty, a deadlock when only R is.  Main's condition variable must
\* not wake by itself: manit_hand_off is not atomic with the report it makes.
THEOREM EndIsReported ==
  ASSUME "manit_quiesce" \notin Spurious
  PROVE  Spec => []ReportsTheEnd
<1>1. IInv => ReportsTheEnd
  <2> SUFFICES ASSUME IInv PROVE ReportsTheEnd
    OBVIOUS
  <2> DEFINE somebody == \/ \E c \in Chans : blocked[c] # <<>> \/ sblocked[c] # <<>>
                         \/ \E u \in Tasks : ablocked[u] # <<>>
  <2>1. ASSUME run = <<>>, outcome \notin {"closed", "taken", "create", "body"}
        PROVE  outcomeBar = IF somebody THEN "deadlock" ELSE "ended"
    <3>1. /\ runBar = <<>>
          /\ \A c \in Chans : blockedBar[c] = blocked[c] /\ sblockedBar[c] = sblocked[c]
          /\ \A u \in Tasks : ablockedBar[u] = ablocked[u]
      BY <2>1, BarsAtRest
    <3> QED BY <2>1, <3>1 DEF outcomeBar, Abstract!Ending
  <2>2. ASSUME outcome = "ended" PROVE outcomeBar = "ended"
    <3>1. run = <<>> /\ blockedCount = 0
      BY <2>2 DEF IInv, Finish, Drained
    <3> QED BY <2>1, <2>2, <3>1, SomebodyWaits
  <2>3. ASSUME outcome \in {"await", "fill"} PROVE outcomeBar = "deadlock"
    <3>1. PICK t \in Tasks : pc[t] = "faulting" /\ why[t] = outcome
      BY <2>3 DEF IInv, Finish, Faults
    <3>2. run = <<>> /\ blockedCount > 0
      BY <2>3, <3>1 DEF IInv, Finish
    <3>3. blockedCount # 0
      BY <3>2
    <3> QED BY <2>1, <2>3, <3>2, <3>3, SomebodyWaits
  <2> QED BY <2>2, <2>3 DEF ReportsTheEnd
<1> QED BY <1>1, Invariant, PTL


-----------------------------------------------------------------------------
(* CSched implements CoopSched: what CoopSched sees of a state.            *)

Traps == {"closed", "taken", "create", "body"}
Waking == {"sendWake", "recvWake", "closeRecv", "closeSend", "complete", "leave"}

Seen(r, b, s, a) ==
  /\ runBar = r /\ blockedBar = b /\ sblockedBar = s /\ ablockedBar = a

TaskStates ==
  [t \in Tasks |->
     IF t = Main THEN IF Main \in Range(run) \cup Parked THEN "running" ELSE "done"
     ELSE IF handle[t] = "none" THEN "unborn" ELSE handle[t]]

AtRest == (\A t \in Tasks : pc[t] \notin Waking) => Seen(run, blocked, sblocked, ablocked)

InSendWake == \A t \in Tasks : pc[t] = "sendWake" =>
  Seen(Coop!WakeOne(run, blocked[arg[t]]),
       [blocked EXCEPT ![arg[t]] = Coop!Rest(blocked[arg[t]])], sblocked, ablocked)

InRecvWake == \A t \in Tasks : pc[t] = "recvWake" =>
  Seen(Coop!WakeOne(run, sblocked[arg[t]]), blocked,
       [sblocked EXCEPT ![arg[t]] = Coop!Rest(sblocked[arg[t]])], ablocked)

InClose == \A t \in Tasks :
  /\ pc[t] = "closeRecv" =>
       Seen(run \o blocked[arg[t]] \o sblocked[arg[t]],
            [blocked EXCEPT ![arg[t]] = <<>>], [sblocked EXCEPT ![arg[t]] = <<>>], ablocked)
  /\ pc[t] = "closeSend" =>
       Seen(run \o sblocked[arg[t]], blocked, [sblocked EXCEPT ![arg[t]] = <<>>], ablocked)

InLeaving == \A t \in Tasks :
  /\ pc[t] = "complete" =>
       Seen(Tail(run) \o ablocked[t], blocked, sblocked, [ablocked EXCEPT ![t] = <<>>])
  /\ pc[t] = "leave" => Seen(Tail(run), blocked, sblocked, ablocked)

Verdict ==
  IF outcome \in Traps THEN "trap"
  ELSE Coop!Ending(runBar, blockedBar, sblockedBar, ablockedBar)

Bars ==
  /\ AtRest /\ InSendWake /\ InRecvWake /\ InClose /\ InLeaving
  /\ tstateBar = TaskStates /\ outcomeBar = Verdict

\* The waiting queues seen, where no wake-up is due on them.
LEMMA AfterNone ==
  ASSUME NEW I, NEW w \in [I -> Seq(Tasks)], NEW one, NEW all,
         current = Nobody \/ (pc[current] \notin all /\ pc[current] # one)
  PROVE  After(w, one, all) = w
<1>1. DOMAIN w = I
  OBVIOUS
<1>2. \A x \in I : After(w, one, all)[x] = w[x]
  BY <1>1 DEF After
<1>3. After(w, one, all) = [x \in I |-> After(w, one, all)[x]]
  BY <1>1 DEF After
<1> QED BY <1>2, <1>3

\* Where all of one of them are to be woken.
LEMMA AfterAll ==
  ASSUME NEW I, NEW w \in [I -> Seq(Tasks)], NEW one, NEW all, current # Nobody,
         pc[current] \in all, pc[current] # one
  PROVE  After(w, one, all) = [w EXCEPT ![arg[current]] = <<>>]
<1>1. DOMAIN w = I
  OBVIOUS
<1>2. \A x \in I : After(w, one, all)[x] = IF x = arg[current] THEN <<>> ELSE w[x]
  BY <1>1 DEF After
<1>3. After(w, one, all) = [x \in I |-> After(w, one, all)[x]]
  BY <1>1 DEF After
<1> QED BY <1>2, <1>3

\* Where one of them is.
LEMMA AfterOne ==
  ASSUME NEW I, NEW w \in [I -> Seq(Tasks)], NEW one, NEW all, current # Nobody,
         pc[current] \notin all, pc[current] = one
  PROVE  After(w, one, all) = [w EXCEPT ![arg[current]] = Coop!Rest(w[arg[current]])]
<1>1. DOMAIN w = I
  OBVIOUS
<1>2. \A x \in I : After(w, one, all)[x]
                     = IF x = arg[current] THEN Coop!Rest(w[x]) ELSE w[x]
  BY <1>1 DEF After, Coop!Rest
<1>3. After(w, one, all) = [x \in I |-> After(w, one, all)[x]]
  BY <1>1 DEF After
<1>4. \A x \in I : [w EXCEPT ![arg[current]] = Coop!Rest(w[arg[current]])][x]
                     = IF x = arg[current] THEN Coop!Rest(w[x]) ELSE w[x]
  OBVIOUS
<1> QED BY <1>1, <1>2, <1>3, <1>4

LEMMA BarsAre == IInv => Bars
<1> SUFFICES ASSUME IInv PROVE Bars
  OBVIOUS
<1>1. /\ blocked \in [Chans -> Seq(Tasks)] /\ sblocked \in [Chans -> Seq(Tasks)]
      /\ ablocked \in [Tasks -> Seq(Tasks)] /\ Nobody \notin Tasks
  BY NobodyIsNoTask DEF IInv, TypeOK
<1>2. ASSUME NEW t \in Tasks, pc[t] \in Waking
      PROVE  /\ current = t /\ current # Nobody
             /\ \A u \in Tasks \ {t} : pc[u] # "complete"
    BY <1>1, <1>2, Holder DEF Waking, Holding
<1>a. (\A u \in Tasks : pc[u] # "complete") => ablockedBar = ablocked
  BY <1>1 DEF ablockedBar
<1>3. AtRest
  <2> SUFFICES ASSUME \A t \in Tasks : pc[t] \notin Waking
               PROVE  Seen(run, blocked, sblocked, ablocked)
    BY DEF AtRest
  <2>1. current \in Tasks \cup {Nobody}
    BY DEF IInv, TypeOK
  <2>2. current = Nobody \/ pc[current] \notin Waking
    BY <2>1
  <2>3. runBar = run
    BY <2>2 DEF runBar, Waking
  <2>4. blockedBar = blocked
    BY <1>1, <2>2, AfterNone DEF blockedBar, Waking
  <2>5. sblockedBar = sblocked
    BY <1>1, <2>2, AfterNone DEF sblockedBar, Waking
  <2>6. ablockedBar = ablocked
    BY <1>a DEF Waking
  <2> QED BY <2>3, <2>4, <2>5, <2>6 DEF Seen
<1>4. InSendWake
  <2> SUFFICES ASSUME NEW t \in Tasks, pc[t] = "sendWake"
               PROVE  Seen(Coop!WakeOne(run, blocked[arg[t]]),
                        [blocked EXCEPT ![arg[t]] = Coop!Rest(blocked[arg[t]])], sblocked, ablocked)
    BY DEF InSendWake
  <2>1. current = t /\ current # Nobody /\ \A u \in Tasks : pc[u] # "complete"
    BY <1>2 DEF Waking
  <2>2. runBar = Coop!WakeOne(run, blocked[arg[t]])
    BY <2>1 DEF runBar, Coop!WakeOne
  <2>3. blockedBar = [blocked EXCEPT ![arg[t]] = Coop!Rest(blocked[arg[t]])]
    <3>1. pc[current] = "sendWake" /\ pc[current] \notin {"closeRecv"}
      BY <2>1
    <3>2. After(blocked, "sendWake", {"closeRecv"})
            = [blocked EXCEPT ![arg[current]] = Coop!Rest(blocked[arg[current]])]
      BY <1>1, <2>1, <3>1, AfterOne
    <3> QED BY <2>1, <3>2 DEF blockedBar
  <2>4. sblockedBar = sblocked
    BY <1>1, <2>1, AfterNone DEF sblockedBar
  <2> QED BY <1>a, <2>1, <2>2, <2>3, <2>4 DEF Seen
<1>5. InRecvWake
  <2> SUFFICES ASSUME NEW t \in Tasks, pc[t] = "recvWake"
               PROVE  Seen(Coop!WakeOne(run, sblocked[arg[t]]), blocked,
                        [sblocked EXCEPT ![arg[t]] = Coop!Rest(sblocked[arg[t]])], ablocked)
    BY DEF InRecvWake
  <2>1. current = t /\ current # Nobody /\ \A u \in Tasks : pc[u] # "complete"
    BY <1>2 DEF Waking
  <2>2. runBar = Coop!WakeOne(run, sblocked[arg[t]])
    BY <2>1 DEF runBar, Coop!WakeOne
  <2>3. sblockedBar = [sblocked EXCEPT ![arg[t]] = Coop!Rest(sblocked[arg[t]])]
    <3>1. pc[current] = "recvWake" /\ pc[current] \notin {"closeRecv", "closeSend"}
      BY <2>1
    <3>2. After(sblocked, "recvWake", {"closeRecv", "closeSend"})
            = [sblocked EXCEPT ![arg[current]] = Coop!Rest(sblocked[arg[current]])]
      BY <1>1, <2>1, <3>1, AfterOne
    <3> QED BY <2>1, <3>2 DEF sblockedBar
  <2>4. blockedBar = blocked
    BY <1>1, <2>1, AfterNone DEF blockedBar
  <2> QED BY <1>a, <2>1, <2>2, <2>3, <2>4 DEF Seen
<1>6. InClose
  <2> SUFFICES ASSUME NEW t \in Tasks
               PROVE  /\ pc[t] = "closeRecv" =>
                           Seen(run \o blocked[arg[t]] \o sblocked[arg[t]],
                                [blocked EXCEPT ![arg[t]] = <<>>],
                                [sblocked EXCEPT ![arg[t]] = <<>>], ablocked)
                      /\ pc[t] = "closeSend" =>
                           Seen(run \o sblocked[arg[t]], blocked,
                                [sblocked EXCEPT ![arg[t]] = <<>>], ablocked)
    BY DEF InClose
  <2>1. CASE pc[t] = "closeRecv"
    <3>1. current = t /\ current # Nobody /\ \A u \in Tasks : pc[u] # "complete"
      BY <1>2, <2>1 DEF Waking
    <3>2. runBar = run \o blocked[arg[t]] \o sblocked[arg[t]]
      BY <2>1, <3>1 DEF runBar
    <3>3. blockedBar = [blocked EXCEPT ![arg[t]] = <<>>]
      BY <1>1, <2>1, <3>1, AfterAll DEF blockedBar
    <3>4. sblockedBar = [sblocked EXCEPT ![arg[t]] = <<>>]
      BY <1>1, <2>1, <3>1, AfterAll DEF sblockedBar
    <3> QED BY <1>a, <2>1, <3>1, <3>2, <3>3, <3>4 DEF Seen
  <2>2. CASE pc[t] = "closeSend"
    <3>1. current = t /\ current # Nobody /\ \A u \in Tasks : pc[u] # "complete"
      BY <1>2, <2>2 DEF Waking
    <3>2. runBar = run \o sblocked[arg[t]]
      BY <2>2, <3>1 DEF runBar
    <3>3. blockedBar = blocked
      BY <1>1, <2>2, <3>1, AfterNone DEF blockedBar
    <3>4. sblockedBar = [sblocked EXCEPT ![arg[t]] = <<>>]
      BY <1>1, <2>2, <3>1, AfterAll DEF sblockedBar
    <3> QED BY <1>a, <2>2, <3>1, <3>2, <3>3, <3>4 DEF Seen
  <2> QED BY <2>1, <2>2
<1>7. InLeaving
  <2> SUFFICES ASSUME NEW t \in Tasks
               PROVE  /\ pc[t] = "complete" =>
                           Seen(Tail(run) \o ablocked[t], blocked, sblocked,
                                [ablocked EXCEPT ![t] = <<>>])
                      /\ pc[t] = "leave" => Seen(Tail(run), blocked, sblocked, ablocked)
    BY DEF InLeaving
  <2>0. pc[t] \in {"complete", "leave"} =>
          /\ current = t /\ current # Nobody
          /\ blockedBar = blocked /\ sblockedBar = sblocked
    <3> SUFFICES ASSUME pc[t] \in {"complete", "leave"}
                 PROVE  /\ current = t /\ current # Nobody
                        /\ blockedBar = blocked /\ sblockedBar = sblocked
      OBVIOUS
    <3>1. current = t /\ current # Nobody
      BY <1>2 DEF Waking
    <3>2. blockedBar = blocked
      BY <1>1, <3>1, AfterNone DEF blockedBar
    <3>3. sblockedBar = sblocked
      BY <1>1, <3>1, AfterNone DEF sblockedBar
    <3> QED BY <3>1, <3>2, <3>3
  <2>1. CASE pc[t] = "complete"
    <3>1. \A u \in Tasks \ {t} : pc[u] # "complete"
      BY <1>2, <2>1 DEF Waking
    <3>2. runBar = Tail(run) \o ablocked[t]
      BY <2>0, <2>1 DEF runBar
    <3>3. \A u \in Tasks : ablockedBar[u] = IF u = t THEN <<>> ELSE ablocked[u]
      BY <2>1, <3>1 DEF ablockedBar
    <3>4. ablockedBar = [u \in Tasks |-> ablockedBar[u]]
      BY DEF ablockedBar
    <3>5. ablockedBar = [ablocked EXCEPT ![t] = <<>>]
      BY <1>1, <3>3, <3>4
    <3> QED BY <2>0, <2>1, <3>2, <3>5 DEF Seen
  <2>2. CASE pc[t] = "leave"
    <3>1. \A u \in Tasks : pc[u] # "complete"
      BY <1>2, <2>2 DEF Waking
    <3>2. runBar = Tail(run)
      BY <2>0, <2>2 DEF runBar
    <3> QED BY <1>a, <2>0, <2>2, <3>1, <3>2 DEF Seen
  <2> QED BY <2>1, <2>2
<1>8. tstateBar = TaskStates
  <2> DEFINE queues == {blocked[c] : c \in Chans} \cup {sblocked[c] : c \in Chans}
                         \cup {ablocked[u] : u \in Tasks}
  <2>1. Main \in UNION {Range(w) : w \in queues} <=> Main \in Parked
    <3>0. Main \in Tasks
      BY CAssumption
    <3>1. ASSUME NEW w \in queues, Main \in Range(w) PROVE \E o \in Queues : Main \in Range(W[o])
      <4>1. \E o \in Queues : w = W[o]
        BY WTypes DEF IInv
      <4> QED BY <3>1, <4>1
    <3>2. ASSUME NEW o \in Queues PROVE W[o] \in queues
      BY DEF W, Queues
    <3> HIDE DEF queues
    <3> QED BY <3>0, <3>1, <3>2 DEF Parked, ParkedIn, ParkedBy
  <2>2. Main \in Range(run) \cup UNION {Range(w) : w \in queues}
          <=> Main \in Range(run) \cup Parked
    BY <2>1
  <2>3. \A t \in Tasks : tstateBar[t] = TaskStates[t]
    BY <2>2 DEF tstateBar, TaskStates
  <2>4. tstateBar = [t \in Tasks |-> tstateBar[t]] /\ TaskStates = [t \in Tasks |-> TaskStates[t]]
    BY DEF tstateBar, TaskStates
  <2> QED BY <2>3, <2>4
<1>9. outcomeBar = Verdict
  BY DEF outcomeBar, Verdict, Traps, Abstract!Ending, Coop!Ending
<1> QED BY <1>3, <1>4, <1>5, <1>6, <1>7, <1>8, <1>9 DEF Bars

LEMMA BarsStay == IInv' => Bars'
BY BarsAre, PTL


-----------------------------------------------------------------------------
(* Every step is one of CoopSched, or one that it cannot see.              *)

\* The terms the two modules share mean the same.
LEMMA SameTerms ==
  /\ Coop!Idle = Idle /\ Coop!None = None
  /\ \A c \in Chans : (Coop!Exists(c) <=> Exists(c)) /\ (Coop!HasRoom(c) <=> HasRoom(c))
BY DEF Idle, None, Exists, HasRoom, Coop!Idle, Coop!None, Coop!Exists, Coop!HasRoom

LEMMA SameStarts ==
  ASSUME NEW t, NEW o
  PROVE  /\ Begins(t) => Coop!Begins(t)
         /\ Starts(t, o) => Coop!Starts(t, o)
<1>1. Begins(t) => Coop!Begins(t)
  BY SameTerms DEF Begins, MayStart, Coop!Begins
<1>2. (op[t] = o /\ UNCHANGED used) => Coop!Starts(t, o)
  BY DEF Coop!Starts
<1> QED BY <1>1, <1>2 DEF Starts, Coop!Starts

\* No wake-up is due while the holder of the baton is not in one.
LEMMA Resting ==
  ASSUME IInv, NEW t \in Tasks, pc[t] \in (Holding \ Waking) \cup {"faulting"}
  PROVE  /\ runBar = run /\ blockedBar = blocked /\ sblockedBar = sblocked
         /\ ablockedBar = ablocked
         /\ \A u \in Tasks : pc[u] \notin Waking
<1>1. current = t
  BY DEF IInv, Baton
<1>2. \A u \in Tasks : pc[u] \in Waking => u = t
  BY <1>1 DEF IInv, Baton, Waking, Holding
<1>3. \A u \in Tasks : pc[u] \notin Waking
  BY <1>2 DEF Waking
<1>4. AtRest
  BY BarsAre DEF Bars
<1> QED BY <1>3, <1>4 DEF AtRest, Seen

LEMMA RestingThen ==
  ASSUME IInv', \A u \in Tasks : pc'[u] \notin Waking
  PROVE  /\ runBar' = run' /\ blockedBar' = blocked' /\ sblockedBar' = sblocked'
         /\ ablockedBar' = ablocked'
<1>1. AtRest'
  BY BarsStay DEF Bars
<1> QED BY <1>1 DEF AtRest, Seen

\* The program goes on while CoopSched sees a task on R.
LEMMA GoesOn ==
  ASSUME IInv, outcome \notin Traps, runBar # <<>>
  PROVE  outcomeBar = "running"
BY BarsAre DEF Bars, Verdict, Coop!Ending

LEMMA GoesOnThen ==
  ASSUME IInv', outcome' \notin Traps, runBar' # <<>>
  PROVE  outcomeBar' = "running"
<1>1. outcomeBar' = Verdict'
  BY BarsStay DEF Bars
<1> QED BY <1>1 DEF Verdict, Coop!Ending

\* What the holder of the baton finds when it begins an operation.
LEMMA InCharge ==
  ASSUME IInv, NEW t \in Tasks, pc[t] \in Holding \ Waking, outcome = "running"
  PROVE  /\ runBar = run /\ blockedBar = blocked /\ sblockedBar = sblocked
         /\ ablockedBar = ablocked
         /\ \A u \in Tasks : pc[u] \notin Waking
         /\ run \in Seq(Tasks) /\ run # <<>> /\ Head(run) = t
         /\ outcomeBar = "running" /\ Coop!May(t)
<1>1. /\ runBar = run /\ blockedBar = blocked /\ sblockedBar = sblocked
      /\ ablockedBar = ablocked /\ \A u \in Tasks : pc[u] \notin Waking
  BY Resting
<1>2. run \in Seq(Tasks) /\ run # <<>> /\ Head(run) = t
  BY Holder
<1>3. outcomeBar = "running"
  BY <1>1, <1>2, GoesOn DEF Traps
<1> QED BY <1>1, <1>2, <1>3 DEF Coop!May

\* The handles of the tasks, and whether main is still about.
LEMMA SameStates ==
  ASSUME IInv, IInv', handle' = handle,
         Main \in (Range(run) \cup Parked)' <=> Main \in Range(run) \cup Parked
  PROVE  tstateBar' = tstateBar
<1>1. tstateBar = TaskStates /\ tstateBar' = TaskStates'
  BY BarsAre, BarsStay DEF Bars
<1>2. TaskStates' = TaskStates
  BY DEF TaskStates
<1> QED BY <1>1, <1>2

LEMMA Stutters ==
  ASSUME IInv, IInv', outcome \notin Traps, outcome' \notin Traps,
         UNCHANGED <<runBar, blockedBar, sblockedBar, ablockedBar, tstateBar>>,
         UNCHANGED <<queue, cap, closed, op, used>>
  PROVE  UNCHANGED Coop!vars
<1>1. outcomeBar = Verdict /\ outcomeBar' = Verdict'
  BY BarsAre, BarsStay DEF Bars
<1>2. Verdict' = Verdict
  BY DEF Verdict
<1> QED BY <1>1, <1>2 DEF Coop!vars

\* A step that leaves the scheduler, the handles and the channels alone and
\* neither begins nor ends a wake-up.
LEMMA Unseen ==
  ASSUME IInv, IInv', UNCHANGED <<sched, handle, queue, cap, closed, op, used>>,
         outcome = "running", outcome' \notin Traps,
         \/ UNCHANGED <<pc, arg>>
         \/ (\A u \in Tasks : pc[u] \notin Waking) /\ \A u \in Tasks : pc'[u] \notin Waking
  PROVE  UNCHANGED Coop!vars
<1>1. UNCHANGED <<run, current, blocked, sblocked, ablocked>>
  BY DEF sched
<1>2. tstateBar' = tstateBar
  BY <1>1 DEF tstateBar
<1>3. UNCHANGED <<runBar, blockedBar, sblockedBar, ablockedBar>>
  <2>1. CASE UNCHANGED <<pc, arg>>
    BY <1>1, <2>1 DEF runBar, blockedBar, sblockedBar, ablockedBar, After
  <2>2. CASE (\A u \in Tasks : pc[u] \notin Waking) /\ \A u \in Tasks : pc'[u] \notin Waking
    <3>1. Seen(run, blocked, sblocked, ablocked)
      BY <2>2, BarsAre DEF Bars, AtRest
    <3>2. /\ runBar' = run' /\ blockedBar' = blocked' /\ sblockedBar' = sblocked'
          /\ ablockedBar' = ablocked'
      BY <2>2, RestingThen
    <3> QED BY <1>1, <3>1, <3>2 DEF Seen
  <2> QED BY <2>1, <2>2
<1> QED BY <1>2, <1>3, Stutters DEF Traps

\* Where nobody is once thread t has gone on at x.
LEMMA NobodyWakes ==
  ASSUME TypeOK, NEW t \in Tasks, NEW x, \A u \in Tasks \ {t} : pc[u] \notin Waking,
         pc' = [pc EXCEPT ![t] = x], x \notin Waking
  PROVE  \A u \in Tasks : pc'[u] \notin Waking
BY DEF TypeOK


LEMMA SeesOthers ==
  ASSUME IInv, IInv', NEW t \in Tasks,
         CheckBaton(t) \/ SpuriousWake(t) \/ Quiesced(t) \/ BodyFault(t)
  PROVE  UNCHANGED Coop!vars
<1>0. TypeOK
  BY DEF IInv
<1>1. CASE CheckBaton(t)
  <2>0. /\ UNCHANGED <<sched, handle, queue, cap, closed, op, used, arg, outcome>>
        /\ outcome = "running" /\ pc[t] \in {"start", "wait"}
    BY <1>1 DEF CheckBaton, At, chans
  <2>1. CASE pc' = pc
    BY <2>0, <2>1, Unseen DEF Traps
  <2>2. CASE current = t /\ Goto(t, "run")
    <3>1. \A u \in Tasks : pc[u] \notin Waking
      BY <2>0, <2>2 DEF IInv, Baton, Waking, Holding
    <3>2. \A u \in Tasks : pc'[u] \notin Waking
      BY <1>0, <2>2, <3>1 DEF Goto, TypeOK, Waking
    <3> QED BY <2>0, <3>1, <3>2, Unseen DEF Traps
  <2> QED BY <1>1, <2>1, <2>2 DEF CheckBaton
<1>2. CASE SpuriousWake(t)
  <2>1. /\ UNCHANGED <<sched, handle, queue, cap, closed, op, used, pc, arg, outcome>>
        /\ outcome = "running"
    BY <1>2 DEF SpuriousWake, chans
  <2> QED BY <2>1, Unseen DEF Traps
<1>3. CASE Quiesced(t)
  <2>1. /\ UNCHANGED <<sched, handle, queue, cap, closed, op, used, pc, arg>>
        /\ outcome = "running" /\ outcome' \in {"running", "ended"}
    BY <1>3 DEF Quiesced, At, chans
  <2> QED BY <2>1, Unseen DEF Traps
<1>4. CASE BodyFault(t)
  <2>1. /\ UNCHANGED <<sched, handle, queue, cap, closed, op, used, arg, outcome>>
        /\ outcome = "running" /\ pc[t] = "run" /\ pc' = [pc EXCEPT ![t] = "faulting"]
    BY <1>4 DEF BodyFault, At, chans, Fault
  <2>2. \A u \in Tasks : pc[u] \notin Waking
    BY <2>1, Resting DEF Holding, Waking
  <2>3. \A u \in Tasks : pc'[u] \notin Waking
    BY <1>0, <2>1, <2>2, NobodyWakes DEF Waking
  <2> QED BY <2>1, <2>2, <2>3, Unseen DEF Traps
<1> QED BY <1>1, <1>2, <1>3, <1>4

LEMMA SeesCreate ==
  ASSUME IInv, IInv', NEW t \in Tasks, PthreadCreate(t)
  PROVE  UNCHANGED Coop!vars
<1>1. /\ UNCHANGED <<sched, handle, queue, cap, closed, op, used, arg, outcome>>
      /\ outcome = "running" /\ pc[t] = "create" /\ TypeOK
      /\ \/ pc' = [pc EXCEPT ![t] = "run", ![arg[t]] = "start"]
         \/ pc' = [pc EXCEPT ![t] = "faulting"]
  BY DEF PthreadCreate, At, chans, Fault, IInv
<1>2. \A u \in Tasks : pc[u] \notin Waking
  BY <1>1, Resting DEF Holding, Waking
<1>3. \A u \in Tasks : pc'[u] \notin Waking
  <2>1. CASE pc' = [pc EXCEPT ![t] = "faulting"]
    BY <1>1, <1>2, <2>1, NobodyWakes DEF Waking
  <2>2. CASE pc' = [pc EXCEPT ![t] = "run", ![arg[t]] = "start"]
    BY <1>1, <1>2, <2>2 DEF TypeOK, Waking
  <2> QED BY <1>1, <2>1, <2>2
<1> QED BY <1>1, <1>2, <1>3, Unseen DEF Traps

LEMMA SeesNewChannel ==
  ASSUME IInv, IInv', NEW t \in Tasks, NEW c \in Chans, NEW k \in Caps, ChannelNew(t, c, k)
  PROVE  Coop!NewChannel(t, c, k)
<1>1. /\ pc[t] = "run" /\ outcome = "running" /\ op[t] = Idle /\ ~Exists(c)
      /\ cap' = [cap EXCEPT ![c] = k]
      /\ UNCHANGED <<sched, queue, closed, handle, pc, arg, op, used, outcome>>
  BY DEF ChannelNew, At
<1>2. UNCHANGED <<run, current, blocked, sblocked, ablocked>>
  BY <1>1 DEF sched
<1>3. Coop!May(t) /\ outcomeBar = "running" /\ runBar # <<>>
  BY <1>1, InCharge DEF Holding, Waking
<1>4. UNCHANGED <<runBar, blockedBar, sblockedBar, ablockedBar, tstateBar>>
  BY <1>1, <1>2 DEF runBar, blockedBar, sblockedBar, ablockedBar, After, tstateBar
<1>5. outcomeBar' = "running"
  BY <1>1, <1>3, <1>4, GoesOnThen DEF Traps
<1> QED BY <1>1, <1>3, <1>4, <1>5, SameTerms DEF Coop!NewChannel

\* Waking a task leaves R with somebody on it.
LEMMA StillRuns ==
  ASSUME NEW r \in Seq(Tasks), r # <<>>, NEW q \in Seq(Tasks)
  PROVE  Coop!WakeOne(r, q) # <<>>
<1>1. q # <<>> => Head(q) \in Tasks
  OBVIOUS
<1>2. \A h \in Tasks : Append(r, h) # <<>>
  OBVIOUS
<1> QED BY <1>1, <1>2 DEF Coop!WakeOne

LEMMA SeesSend ==
  ASSUME IInv, IInv', NEW t \in Tasks, NEW c \in Chans, Send(t, c)
  PROVE  Coop!SendPush(t, c) \/ UNCHANGED Coop!vars
<1>1. /\ pc[t] = "run" /\ outcome = "running" /\ Exists(c) /\ TypeOK
      /\ UNCHANGED <<sched, cap, closed, handle, outcome>>
  BY DEF Send, At, IInv
<1>2. UNCHANGED <<run, current, blocked, sblocked, ablocked>>
  BY <1>1 DEF sched
<1>3. /\ runBar = run /\ blockedBar = blocked /\ sblockedBar = sblocked
      /\ ablockedBar = ablocked /\ \A u \in Tasks : pc[u] \notin Waking
      /\ run \in Seq(Tasks) /\ run # <<>> /\ outcomeBar = "running" /\ Coop!May(t)
  BY <1>1, InCharge DEF Holding, Waking
<1>4. CASE /\ pc' = [pc EXCEPT ![t] = "sendFull"] \/ pc' = [pc EXCEPT ![t] = "faulting"]
           /\ UNCHANGED <<queue, op, used>>
  <2>1. \A u \in Tasks : pc'[u] \notin Waking
    BY <1>1, <1>3, <1>4, NobodyWakes DEF Waking
  <2> QED BY <1>1, <1>3, <1>4, <2>1, Unseen DEF Traps
<1>5. CASE /\ c \notin closed /\ HasRoom(c) /\ Starts(t, <<"send", c>>)
           /\ queue' = [queue EXCEPT ![c] = @ + 1]
           /\ op' = [op EXCEPT ![t] = Idle]
           /\ Call(t, "sendWake", c)
  <2>1. pc'[t] = "sendWake" /\ arg'[t] = c
    BY <1>1, <1>5 DEF Call, TypeOK
  <2>2. InSendWake'
    BY BarsStay DEF Bars
  <2>3. Seen(Coop!WakeOne(run, blocked[c]),
             [blocked EXCEPT ![c] = Coop!Rest(blocked[c])], sblocked, ablocked)'
    BY <2>1, <2>2 DEF InSendWake
  <2>4. /\ runBar' = Coop!WakeOne(run, blocked[c])
        /\ blockedBar' = [blocked EXCEPT ![c] = Coop!Rest(blocked[c])]
        /\ sblockedBar' = sblocked /\ ablockedBar' = ablocked
    BY <1>2, <2>3 DEF Seen
  <2>5. tstateBar' = tstateBar
    BY <1>1, <1>2 DEF tstateBar
  <2>6. runBar' # <<>>
    BY <1>1, <1>3, <2>4, StillRuns DEF TypeOK
  <2>7. outcomeBar' = "running"
    BY <1>1, <2>6, GoesOnThen DEF Traps
  <2>8. Coop!Starts(t, <<"send", c>>)
    BY <1>5, SameStarts
  <2> QED BY <1>1, <1>3, <1>5, <2>4, <2>5, <2>7, <2>8, SameTerms DEF Coop!SendPush
<1> QED BY <1>4, <1>5 DEF Send, Call, Fault

LEMMA SeesRecv ==
  ASSUME IInv, IInv', NEW t \in Tasks, NEW c \in Chans, Recv(t, c)
  PROVE  Coop!RecvTake(t, c) \/ Coop!RecvClosed(t, c) \/ UNCHANGED Coop!vars
<1>1. /\ pc[t] = "run" /\ outcome = "running" /\ Exists(c) /\ TypeOK
      /\ UNCHANGED <<sched, cap, closed, handle, outcome>>
  BY DEF Recv, At, IInv
<1>2. UNCHANGED <<run, current, blocked, sblocked, ablocked>>
  BY <1>1 DEF sched
<1>3. /\ runBar = run /\ blockedBar = blocked /\ sblockedBar = sblocked
      /\ ablockedBar = ablocked /\ \A u \in Tasks : pc[u] \notin Waking
      /\ run \in Seq(Tasks) /\ run # <<>> /\ outcomeBar = "running" /\ Coop!May(t)
  BY <1>1, InCharge DEF Holding, Waking
<1>4. tstateBar' = tstateBar
  BY <1>1, <1>2 DEF tstateBar
<1>5. CASE pc' = [pc EXCEPT ![t] = "recvEmpty"] /\ UNCHANGED <<queue, op, used>>
  <2>1. \A u \in Tasks : pc'[u] \notin Waking
    BY <1>1, <1>3, <1>5, NobodyWakes DEF Waking
  <2> QED BY <1>1, <1>3, <1>5, <2>1, Unseen DEF Traps
<1>6. CASE /\ queue[c] = 0 /\ c \in closed /\ Starts(t, <<"recv", c>>)
           /\ op' = [op EXCEPT ![t] = Idle] /\ UNCHANGED <<queue, pc, arg>>
  <2>1. UNCHANGED <<runBar, blockedBar, sblockedBar, ablockedBar>>
    BY <1>2, <1>6 DEF runBar, blockedBar, sblockedBar, ablockedBar, After
  <2>2. outcomeBar' = "running"
    BY <1>1, <1>3, <2>1, GoesOnThen DEF Traps
  <2>3. Coop!Starts(t, <<"recv", c>>)
    BY <1>6, SameStarts
  <2> QED BY <1>1, <1>3, <1>4, <1>6, <2>1, <2>2, <2>3, SameTerms DEF Coop!RecvClosed
<1>7. CASE /\ queue[c] > 0 /\ Starts(t, <<"recv", c>>)
           /\ queue' = [queue EXCEPT ![c] = @ - 1]
           /\ op' = [op EXCEPT ![t] = Idle]
           /\ Call(t, "recvWake", c)
  <2>1. pc'[t] = "recvWake" /\ arg'[t] = c
    BY <1>1, <1>7 DEF Call, TypeOK
  <2>2. InRecvWake'
    BY BarsStay DEF Bars
  <2>3. Seen(Coop!WakeOne(run, sblocked[c]), blocked,
             [sblocked EXCEPT ![c] = Coop!Rest(sblocked[c])], ablocked)'
    BY <2>1, <2>2 DEF InRecvWake
  <2>4. /\ runBar' = Coop!WakeOne(run, sblocked[c])
        /\ sblockedBar' = [sblocked EXCEPT ![c] = Coop!Rest(sblocked[c])]
        /\ blockedBar' = blocked /\ ablockedBar' = ablocked
    BY <1>2, <2>3 DEF Seen
  <2>6. runBar' # <<>>
    BY <1>1, <1>3, <2>4, StillRuns DEF TypeOK
  <2>7. outcomeBar' = "running"
    BY <1>1, <2>6, GoesOnThen DEF Traps
  <2>8. Coop!Starts(t, <<"recv", c>>)
    BY <1>7, SameStarts
  <2> QED BY <1>1, <1>3, <1>4, <1>7, <2>4, <2>7, <2>8, SameTerms DEF Coop!RecvTake
<1> QED BY <1>5, <1>6, <1>7 DEF Recv, Call


LEMMA SeesSendWake ==
  ASSUME IInv, IInv', NEW t \in Tasks, SendWake(t)
  PROVE  UNCHANGED Coop!vars
<1>1. /\ pc[t] = "sendWake" /\ outcome = "running" /\ TypeOK
      /\ pc' = [pc EXCEPT ![t] = "run"] /\ WakeOne(blocked, arg[t])
      /\ UNCHANGED <<sblocked, ablocked, queue, cap, closed, handle, op, used, outcome>>
  BY DEF SendWake, At, chans, Goto, IInv
<1>2. arg[t] \in Chans
  BY <1>1 DEF IInv, Args, ArgsOf
<1>3. Moved
  BY <1>1, <1>2, OneWoken DEF Holding
<1>4. tstateBar' = tstateBar
  BY <1>1, <1>3, SameStates DEF Moved
<1>5. \A u \in Tasks \ {t} : pc[u] \notin Waking
  BY <1>1, Holder DEF Holding, Waking
<1>6. \A u \in Tasks : pc'[u] \notin Waking
  BY <1>1, <1>5, NobodyWakes DEF Waking
<1>7. /\ runBar = Coop!WakeOne(run, blocked[arg[t]])
      /\ blockedBar = [blocked EXCEPT ![arg[t]] = Coop!Rest(blocked[arg[t]])]
      /\ sblockedBar = sblocked /\ ablockedBar = ablocked
  BY <1>1, BarsAre DEF Bars, InSendWake, Seen
<1>8. /\ runBar' = run' /\ blockedBar' = blocked' /\ sblockedBar' = sblocked'
      /\ ablockedBar' = ablocked'
  BY <1>6, RestingThen
<1>9. /\ run' = Coop!WakeOne(run, blocked[arg[t]])
      /\ blocked' = [blocked EXCEPT ![arg[t]] = Coop!Rest(blocked[arg[t]])]
  BY <1>1, <1>2 DEF WakeOne, Coop!WakeOne, Coop!Rest, TypeOK
<1> QED BY <1>1, <1>4, <1>7, <1>8, <1>9, Stutters DEF Traps

LEMMA SeesRecvWake ==
  ASSUME IInv, IInv', NEW t \in Tasks, RecvWake(t)
  PROVE  UNCHANGED Coop!vars
<1>1. /\ pc[t] = "recvWake" /\ outcome = "running" /\ TypeOK
      /\ pc' = [pc EXCEPT ![t] = "run"] /\ WakeOne(sblocked, arg[t])
      /\ UNCHANGED <<blocked, ablocked, queue, cap, closed, handle, op, used, outcome>>
  BY DEF RecvWake, At, chans, Goto, IInv
<1>2. arg[t] \in Chans
  BY <1>1 DEF IInv, Args, ArgsOf
<1>3. Moved
  BY <1>1, <1>2, OneWoken DEF Holding
<1>4. tstateBar' = tstateBar
  BY <1>1, <1>3, SameStates DEF Moved
<1>5. \A u \in Tasks \ {t} : pc[u] \notin Waking
  BY <1>1, Holder DEF Holding, Waking
<1>6. \A u \in Tasks : pc'[u] \notin Waking
  BY <1>1, <1>5, NobodyWakes DEF Waking
<1>7. /\ runBar = Coop!WakeOne(run, sblocked[arg[t]])
      /\ sblockedBar = [sblocked EXCEPT ![arg[t]] = Coop!Rest(sblocked[arg[t]])]
      /\ blockedBar = blocked /\ ablockedBar = ablocked
  BY <1>1, BarsAre DEF Bars, InRecvWake, Seen
<1>8. /\ runBar' = run' /\ blockedBar' = blocked' /\ sblockedBar' = sblocked'
      /\ ablockedBar' = ablocked'
  BY <1>6, RestingThen
<1>9. /\ run' = Coop!WakeOne(run, sblocked[arg[t]])
      /\ sblocked' = [sblocked EXCEPT ![arg[t]] = Coop!Rest(sblocked[arg[t]])]
  BY <1>1, <1>2 DEF WakeOne, Coop!WakeOne, Coop!Rest, TypeOK
<1> QED BY <1>1, <1>4, <1>7, <1>8, <1>9, Stutters DEF Traps

\* channel_close is over for CoopSched when the channel is marked.
LEMMA SeesClose ==
  ASSUME IInv, IInv', NEW t \in Tasks, NEW c \in Chans, Close(t, c)
  PROVE  Coop!Close(t, c)
<1>1. /\ pc[t] = "run" /\ outcome = "running" /\ Exists(c) /\ TypeOK /\ Begins(t)
      /\ closed' = closed \cup {c}
      /\ UNCHANGED <<sched, queue, cap, handle, op, outcome>>
      /\ pc' = [pc EXCEPT ![t] = "closeRecv"] /\ arg' = [arg EXCEPT ![t] = c]
  BY DEF Close, At, Call, IInv
<1>2. UNCHANGED <<run, current, blocked, sblocked, ablocked>>
  BY <1>1 DEF sched
<1>3. /\ runBar = run /\ blockedBar = blocked /\ sblockedBar = sblocked
      /\ ablockedBar = ablocked
      /\ run \in Seq(Tasks) /\ run # <<>> /\ outcomeBar = "running" /\ Coop!May(t)
  BY <1>1, InCharge DEF Holding, Waking
<1>4. tstateBar' = tstateBar
  BY <1>1, <1>2 DEF tstateBar
<1>5. pc'[t] = "closeRecv" /\ arg'[t] = c
  BY <1>1 DEF TypeOK
<1>6. /\ runBar' = run \o blocked[c] \o sblocked[c]
      /\ blockedBar' = [blocked EXCEPT ![c] = <<>>]
      /\ sblockedBar' = [sblocked EXCEPT ![c] = <<>>] /\ ablockedBar' = ablocked
  <2>1. InClose'
    BY BarsStay DEF Bars
  <2>2. Seen(run \o blocked[c] \o sblocked[c], [blocked EXCEPT ![c] = <<>>],
             [sblocked EXCEPT ![c] = <<>>], ablocked)'
    BY <1>5, <2>1 DEF InClose
  <2> QED BY <1>2, <2>2 DEF Seen
<1>7. runBar' # <<>>
  <2>1. /\ blocked[c] \in Seq(Tasks) /\ sblocked[c] \in Seq(Tasks)
        /\ run \o blocked[c] \in Seq(Tasks) /\ run \o blocked[c] # <<>>
    BY <1>1, <1>3 DEF TypeOK
  <2> QED BY <1>6, <2>1
<1>8. outcomeBar' = "running"
  BY <1>1, <1>7, GoesOnThen DEF Traps
<1>9. Coop!Begins(t)
  BY <1>1, SameStarts
<1> QED BY <1>1, <1>3, <1>4, <1>6, <1>8, <1>9, SameTerms DEF Coop!Close

LEMMA SeesCloseWakeRecv ==
  ASSUME IInv, IInv', NEW t \in Tasks, CloseWakeRecv(t)
  PROVE  UNCHANGED Coop!vars
<1>1. /\ pc[t] = "closeRecv" /\ outcome = "running" /\ TypeOK
      /\ pc' = [pc EXCEPT ![t] = "closeSend"] /\ WakeAll(blocked, arg[t])
      /\ UNCHANGED <<sblocked, ablocked, queue, cap, closed, handle, op, used, outcome, arg>>
  BY DEF CloseWakeRecv, At, chans, Goto, IInv
<1>2. arg[t] \in Chans
  BY <1>1 DEF IInv, Args, ArgsOf
<1>3. Moved
  BY <1>1, <1>2, AllWoken DEF Holding
<1>4. tstateBar' = tstateBar
  BY <1>1, <1>3, SameStates DEF Moved
<1>5. pc'[t] = "closeSend" /\ arg'[t] = arg[t]
  BY <1>1 DEF TypeOK
<1>6. /\ runBar = run \o blocked[arg[t]] \o sblocked[arg[t]]
      /\ blockedBar = [blocked EXCEPT ![arg[t]] = <<>>]
      /\ sblockedBar = [sblocked EXCEPT ![arg[t]] = <<>>] /\ ablockedBar = ablocked
  BY <1>1, BarsAre DEF Bars, InClose, Seen
<1>7. /\ runBar' = run' \o sblocked[arg[t]] /\ blockedBar' = blocked'
      /\ sblockedBar' = [sblocked EXCEPT ![arg[t]] = <<>>] /\ ablockedBar' = ablocked
  <2>1. InClose'
    BY BarsStay DEF Bars
  <2>2. Seen(run \o sblocked[arg[t]], blocked, [sblocked EXCEPT ![arg[t]] = <<>>], ablocked)'
    BY <1>5, <2>1 DEF InClose
  <2> QED BY <1>1, <1>5, <2>2 DEF Seen
<1>8. run' = run \o blocked[arg[t]] /\ blocked' = [blocked EXCEPT ![arg[t]] = <<>>]
  BY <1>1 DEF WakeAll
<1> QED BY <1>1, <1>4, <1>6, <1>7, <1>8, Stutters DEF Traps

LEMMA SeesCloseWakeSend ==
  ASSUME IInv, IInv', NEW t \in Tasks, CloseWakeSend(t)
  PROVE  UNCHANGED Coop!vars
<1>1. /\ pc[t] = "closeSend" /\ outcome = "running" /\ TypeOK
      /\ pc' = [pc EXCEPT ![t] = "run"] /\ WakeAll(sblocked, arg[t])
      /\ UNCHANGED <<blocked, ablocked, queue, cap, closed, handle, op, used, outcome>>
  BY DEF CloseWakeSend, At, chans, Goto, IInv
<1>2. arg[t] \in Chans
  BY <1>1 DEF IInv, Args, ArgsOf
<1>3. Moved
  BY <1>1, <1>2, AllWoken DEF Holding
<1>4. tstateBar' = tstateBar
  BY <1>1, <1>3, SameStates DEF Moved
<1>5. \A u \in Tasks \ {t} : pc[u] \notin Waking
  BY <1>1, Holder DEF Holding, Waking
<1>6. \A u \in Tasks : pc'[u] \notin Waking
  BY <1>1, <1>5, NobodyWakes DEF Waking
<1>7. /\ runBar = run \o sblocked[arg[t]] /\ blockedBar = blocked
      /\ sblockedBar = [sblocked EXCEPT ![arg[t]] = <<>>] /\ ablockedBar = ablocked
  BY <1>1, BarsAre DEF Bars, InClose, Seen
<1>8. /\ runBar' = run' /\ blockedBar' = blocked' /\ sblockedBar' = sblocked'
      /\ ablockedBar' = ablocked'
  BY <1>6, RestingThen
<1>9. run' = run \o sblocked[arg[t]] /\ sblocked' = [sblocked EXCEPT ![arg[t]] = <<>>]
  BY <1>1 DEF WakeAll
<1> QED BY <1>1, <1>4, <1>7, <1>8, <1>9, Stutters DEF Traps


\* The body of a task has returned: for CoopSched the task is off R.
LEMMA SeesBodyReturns ==
  ASSUME IInv, IInv', NEW t \in Tasks, BodyReturns(t)
  PROVE  Coop!Exit(t)
<1>1. /\ pc[t] = "run" /\ outcome = "running" /\ TypeOK /\ op[t] = Idle /\ t # Main
      /\ handle' = [handle EXCEPT ![t] = "done"] /\ pc' = [pc EXCEPT ![t] = "complete"]
      /\ UNCHANGED <<sched, queue, cap, closed, op, used, outcome>>
  BY DEF BodyReturns, At, Goto, chans, IInv
<1>2. UNCHANGED <<run, current, blocked, sblocked, ablocked>>
  BY <1>1 DEF sched
<1>3. /\ runBar = run /\ blockedBar = blocked /\ sblockedBar = sblocked
      /\ ablockedBar = ablocked
      /\ run \in Seq(Tasks) /\ run # <<>> /\ outcomeBar = "running" /\ Coop!May(t)
  BY <1>1, InCharge DEF Holding, Waking
<1>4. pc'[t] = "complete"
  BY <1>1 DEF TypeOK
<1>5. /\ runBar' = Tail(run) \o ablocked[t] /\ blockedBar' = blocked
      /\ sblockedBar' = sblocked /\ ablockedBar' = [ablocked EXCEPT ![t] = <<>>]
  <2>1. InLeaving'
    BY BarsStay DEF Bars
  <2>2. Seen(Tail(run) \o ablocked[t], blocked, sblocked, [ablocked EXCEPT ![t] = <<>>])'
    BY <1>4, <2>1 DEF InLeaving
  <2> QED BY <1>2, <2>2 DEF Seen
<1>6. tstateBar' = [tstateBar EXCEPT ![t] = "done"]
  <2>1. tstateBar = TaskStates /\ tstateBar' = TaskStates'
    BY BarsAre, BarsStay DEF Bars
  <2>2. Parked' = Parked
    BY <1>2, WStays DEF Parked, ParkedIn, ParkedBy
  <2>3. \A u \in Tasks : TaskStates'[u] = IF u = t THEN "done" ELSE TaskStates[u]
    BY <1>1, <1>2, <2>2 DEF TaskStates, TypeOK
  <2>4. TaskStates' = [u \in Tasks |-> TaskStates'[u]]
        /\ TaskStates = [u \in Tasks |-> TaskStates[u]]
    BY DEF TaskStates
  <2>5. TaskStates' = [TaskStates EXCEPT ![t] = "done"]
    BY <2>3, <2>4
  <2> QED BY <2>1, <2>5
<1>7. outcomeBar' = Coop!Ending(runBar', blockedBar', sblockedBar', ablockedBar')
  <2>1. outcomeBar' = Verdict'
    BY BarsStay DEF Bars
  <2> QED BY <1>1, <2>1 DEF Verdict, Traps
<1>8. /\ runBar' = Tail(runBar) \o ablockedBar[t] /\ blockedBar' = blockedBar
      /\ sblockedBar' = sblockedBar /\ ablockedBar' = [ablockedBar EXCEPT ![t] = <<>>]
  BY <1>3, <1>5
<1>9. outcomeBar' = Coop!Ending(runBar', blockedBar, sblockedBar, ablockedBar')
  BY <1>7, <1>8
<1> QED BY <1>1, <1>3, <1>6, <1>8, <1>9, SameTerms DEF Coop!Exit

\* The rest of a queue that has been appended to.
LEMMA RestOfConcat ==
  ASSUME NEW r \in Seq(Tasks), r # <<>>, NEW q \in Seq(Tasks)
  PROVE  Tail(r \o q) = Tail(r) \o q
<1> DEFINE a == Tail(r \o q)
           b == Tail(r) \o q
<1>1. r \o q \in Seq(Tasks) /\ Len(r \o q) = Len(r) + Len(q) /\ Len(r) > 0
  OBVIOUS
<1>2. r \o q # <<>> /\ Tail(r) \in Seq(Tasks) /\ Len(Tail(r)) = Len(r) - 1
  BY <1>1
<1>3. a \in Seq(Tasks) /\ b \in Seq(Tasks) /\ Len(a) = Len(r) + Len(q) - 1 /\ Len(b) = Len(a)
  BY <1>1, <1>2
<1>4. ASSUME NEW i \in 1..Len(a) PROVE a[i] = b[i]
  <2>1. a[i] = (r \o q)[i + 1]
    BY <1>1, <1>2, <1>3, <1>4
  <2>2. CASE i + 1 <= Len(r)
    BY <1>1, <1>2, <1>3, <2>1, <2>2
  <2>3. CASE i + 1 > Len(r)
    BY <1>1, <1>2, <1>3, <2>1, <2>3
  <2> QED BY <1>1, <1>3, <2>2, <2>3
<1> HIDE DEF a, b
<1>5. a = b
  BY <1>3, <1>4
<1> QED BY <1>5 DEF a, b

LEMMA SeesCompleteWake ==
  ASSUME IInv, IInv', NEW t \in Tasks, CompleteWake(t)
  PROVE  UNCHANGED Coop!vars
<1>1. /\ pc[t] = "complete" /\ outcome = "running" /\ TypeOK
      /\ pc' = [pc EXCEPT ![t] = "leave"] /\ WakeAll(ablocked, t)
      /\ UNCHANGED <<blocked, sblocked, queue, cap, closed, handle, op, used, outcome>>
  BY DEF CompleteWake, At, chans, Goto, IInv
<1>2. Moved
  BY <1>1, AllWoken DEF Holding
<1>3. tstateBar' = tstateBar
  BY <1>1, <1>2, SameStates DEF Moved
<1>4. pc'[t] = "leave" /\ run \in Seq(Tasks) /\ run # <<>> /\ ablocked[t] \in Seq(Tasks)
  BY <1>1, Holder DEF TypeOK, Holding
<1>5. /\ runBar = Tail(run) \o ablocked[t] /\ blockedBar = blocked
      /\ sblockedBar = sblocked /\ ablockedBar = [ablocked EXCEPT ![t] = <<>>]
  BY <1>1, BarsAre DEF Bars, InLeaving, Seen
<1>6. /\ runBar' = Tail(run') /\ blockedBar' = blocked /\ sblockedBar' = sblocked
      /\ ablockedBar' = ablocked'
  <2>1. InLeaving'
    BY BarsStay DEF Bars
  <2>2. Seen(Tail(run), blocked, sblocked, ablocked)'
    BY <1>4, <2>1 DEF InLeaving
  <2> QED BY <1>1, <2>2 DEF Seen
<1>7. run' = run \o ablocked[t] /\ ablocked' = [ablocked EXCEPT ![t] = <<>>]
  BY <1>1 DEF WakeAll
<1>8. Tail(run') = Tail(run) \o ablocked[t]
  BY <1>4, <1>7, RestOfConcat
<1> QED BY <1>1, <1>3, <1>5, <1>6, <1>7, <1>8, Stutters DEF Traps

\* Nobody is in a wake-up once the baton has been handed on.
LEMMA HandedRests ==
  ASSUME IInv, NEW t \in Tasks, pc[t] \in Holding, NEW next \in {"wait", "gone", "quiesce"},
         NEW r, NEW n, NEW a, NEW s, HandOff(t, r, n, a, s, next)
  PROVE  \A u \in Tasks : pc'[u] \notin Waking
<1>1. \A u \in Tasks \ {t} : pc[u] \notin Waking
  BY Holder DEF Waking, Holding
<1>2. pc' = [pc EXCEPT ![t] = next] \/ pc' = [pc EXCEPT ![t] = "faulting"]
  BY DEF HandOff, Goto, Fault
<1>3. TypeOK /\ next \notin Waking /\ "faulting" \notin Waking
  BY DEF IInv, Waking
<1> QED BY <1>1, <1>2, <1>3, NobodyWakes

LEMMA SeesLeave ==
  ASSUME IInv, IInv', NEW t \in Tasks, Leave(t)
  PROVE  UNCHANGED Coop!vars
<1>1. /\ pc[t] = "leave" /\ outcome = "running" /\ TypeOK /\ run' = Tail(run)
      /\ HandOff(t, run', blockedCount, ablocked, asleep, "gone")
      /\ UNCHANGED <<blocked, sblocked, ablocked, blockedCount>>
      /\ UNCHANGED <<queue, cap, closed, handle, op, used, outcome>>
  BY DEF Leave, At, chans, IInv
<1>2. Passes(t, "gone")
  BY <1>1, OffPasses DEF Holding
<1>3. t # Main /\ Main \in Tasks
  BY <1>1, CAssumption DEF IInv, Handles
<1>4. tstateBar' = tstateBar
  BY <1>1, <1>2, <1>3, SameStates DEF Passes
<1>5. \A u \in Tasks : pc'[u] \notin Waking
  BY <1>1, HandedRests DEF Holding
<1>6. /\ runBar = Tail(run) /\ blockedBar = blocked /\ sblockedBar = sblocked
      /\ ablockedBar = ablocked
  BY <1>1, BarsAre DEF Bars, InLeaving, Seen
<1>7. /\ runBar' = run' /\ blockedBar' = blocked' /\ sblockedBar' = sblocked'
      /\ ablockedBar' = ablocked'
  BY <1>5, RestingThen
<1> QED BY <1>1, <1>4, <1>6, <1>7, Stutters DEF Traps

\* The main program is over: nobody can await it.
LEMMA SeesMainDone ==
  ASSUME IInv, IInv', NEW t \in Tasks, MainDone(t)
  PROVE  Coop!Exit(t)
<1>1. /\ pc[t] = "run" /\ outcome = "running" /\ TypeOK /\ run' = Tail(run)
      /\ t = Main /\ op[t] = Idle /\ ablocked[t] = <<>>
      /\ \E s : HandOff(t, run', blockedCount, ablocked, s, "quiesce")
      /\ UNCHANGED <<blocked, sblocked, ablocked, blockedCount>>
      /\ UNCHANGED <<queue, cap, closed, handle, op, used, outcome>>
  BY DEF MainDone, At, chans, IInv, Handles
<1>2. Passes(t, "quiesce")
  BY <1>1, OffPasses DEF Holding
<1>3. /\ runBar = run /\ blockedBar = blocked /\ sblockedBar = sblocked
      /\ ablockedBar = ablocked
      /\ run \in Seq(Tasks) /\ run # <<>> /\ outcomeBar = "running" /\ Coop!May(t)
  BY <1>1, InCharge DEF Holding, Waking
<1>4. \A u \in Tasks : pc'[u] \notin Waking
  BY <1>1, HandedRests DEF Holding
<1>5. /\ runBar' = run' /\ blockedBar' = blocked' /\ sblockedBar' = sblocked'
      /\ ablockedBar' = ablocked'
  BY <1>4, RestingThen
<1>6. run' = Tail(run) \o ablocked[t] /\ ablocked' = [ablocked EXCEPT ![t] = <<>>]
  <2>1. Tail(run) \in Seq(Tasks)
    BY <1>3
  <2>2. Tail(run) \o <<>> = Tail(run)
    BY <2>1
  <2> QED BY <1>1, <2>2 DEF TypeOK
<1>7. tstateBar' = [tstateBar EXCEPT ![t] = "done"]
  <2>1. tstateBar = TaskStates /\ tstateBar' = TaskStates'
    BY BarsAre, BarsStay DEF Bars
  <2>2. Main \notin Range(run') \cup Parked'
    BY <1>1, <1>2 DEF Passes
  <2>3. \A u \in Tasks : TaskStates'[u] = IF u = t THEN "done" ELSE TaskStates[u]
    BY <1>1, <2>2 DEF TaskStates
  <2>4. TaskStates' = [u \in Tasks |-> TaskStates'[u]]
        /\ TaskStates = [u \in Tasks |-> TaskStates[u]]
    BY DEF TaskStates
  <2>5. TaskStates' = [TaskStates EXCEPT ![t] = "done"]
    BY <2>3, <2>4
  <2> QED BY <2>1, <2>5
<1>8. outcomeBar' = Coop!Ending(runBar', blockedBar', sblockedBar', ablockedBar')
  <2>1. outcomeBar' = Verdict'
    BY BarsStay DEF Bars
  <2> QED BY <1>1, <2>1 DEF Verdict, Traps
<1>9. /\ runBar' = Tail(runBar) \o ablockedBar[t] /\ blockedBar' = blockedBar
      /\ sblockedBar' = sblockedBar /\ ablockedBar' = [ablockedBar EXCEPT ![t] = <<>>]
  BY <1>1, <1>3, <1>5, <1>6
<1>10. outcomeBar' = Coop!Ending(runBar', blockedBar, sblockedBar, ablockedBar')
  BY <1>8, <1>9
<1> QED BY <1>1, <1>3, <1>7, <1>9, <1>10, SameTerms DEF Coop!Exit


\* The handle of one task changes.
LEMMA OneState ==
  ASSUME IInv, IInv', NEW u \in Tasks, NEW x, u # Main, x # "none",
         handle' = [handle EXCEPT ![u] = x],
         Main \in (Range(run) \cup Parked)' <=> Main \in Range(run) \cup Parked
  PROVE  tstateBar' = [tstateBar EXCEPT ![u] = x]
<1>1. tstateBar = TaskStates /\ tstateBar' = TaskStates'
  BY BarsAre, BarsStay DEF Bars
<1>2. \A v \in Tasks : handle'[v] = IF v = u THEN x ELSE handle[v]
  BY DEF IInv, TypeOK
<1>3. \A v \in Tasks : TaskStates'[v] = IF v = u THEN x ELSE TaskStates[v]
  BY <1>2 DEF TaskStates
<1>4. TaskStates' = [v \in Tasks |-> TaskStates'[v]]
      /\ TaskStates = [v \in Tasks |-> TaskStates[v]]
  BY DEF TaskStates
<1>5. TaskStates' = [TaskStates EXCEPT ![u] = x]
  BY <1>3, <1>4
<1> QED BY <1>1, <1>5

LEMMA StateOf ==
  ASSUME IInv, NEW u \in Tasks, u # Main
  PROVE  tstateBar[u] = IF handle[u] = "none" THEN "unborn" ELSE handle[u]
BY DEF tstateBar

LEMMA SeesAwait ==
  ASSUME IInv, IInv', NEW t \in Tasks, NEW u \in Tasks, TaskAwait(t, u)
  PROVE  Coop!Await(t, u) \/ UNCHANGED Coop!vars
<1>1. /\ pc[t] = "run" /\ outcome = "running" /\ TypeOK
      /\ UNCHANGED <<sched, queue, cap, closed, outcome>>
  BY DEF TaskAwait, At, chans, IInv
<1>2. UNCHANGED <<run, current, blocked, sblocked, ablocked>>
  BY <1>1 DEF sched
<1>3. /\ runBar = run /\ blockedBar = blocked /\ sblockedBar = sblocked
      /\ ablockedBar = ablocked /\ \A v \in Tasks : pc[v] \notin Waking
      /\ run # <<>> /\ outcomeBar = "running" /\ Coop!May(t)
  BY <1>1, InCharge DEF Holding, Waking
<1>4. CASE /\ pc' = [pc EXCEPT ![t] = "faulting"] \/ pc' = [pc EXCEPT ![t] = "awaitRunning"]
           /\ UNCHANGED <<handle, op, used>>
  <2>1. \A v \in Tasks : pc'[v] \notin Waking
    BY <1>1, <1>3, <1>4, NobodyWakes DEF Waking
  <2> QED BY <1>1, <1>3, <1>4, <2>1, Unseen DEF Traps
<1>5. CASE /\ handle[u] = "done" /\ Starts(t, <<"await", u>>)
           /\ handle' = [handle EXCEPT ![u] = "taken"]
           /\ op' = [op EXCEPT ![t] = Idle] /\ UNCHANGED <<pc, arg>>
  <2>1. UNCHANGED <<runBar, blockedBar, sblockedBar, ablockedBar>>
    BY <1>2, <1>5 DEF runBar, blockedBar, sblockedBar, ablockedBar, After
  <2>2. u # Main
    BY <1>5 DEF IInv, Handles
  <2>3. Parked' = Parked
    BY <1>2, WStays DEF Parked, ParkedIn, ParkedBy
  <2>4. tstateBar' = [tstateBar EXCEPT ![u] = "taken"]
    BY <1>2, <1>5, <2>2, <2>3, OneState
  <2>5. tstateBar[u] = "done"
    BY <1>5, <2>2, StateOf
  <2>6. outcomeBar' = "running"
    BY <1>1, <1>3, <2>1, GoesOnThen DEF Traps
  <2>7. Coop!Starts(t, <<"await", u>>)
    BY <1>5, SameStarts
  <2> QED BY <1>1, <1>3, <1>5, <2>1, <2>2, <2>4, <2>5, <2>6, <2>7, SameTerms DEF Coop!Await
<1> QED BY <1>4, <1>5 DEF TaskAwait, Fault, Call

LEMMA SeesSpawn ==
  ASSUME IInv, IInv', NEW t \in Tasks, NEW u \in Tasks, TaskSpawn(t, u)
  PROVE  Coop!Spawn(t, u)
<1>1. /\ pc[t] = "run" /\ outcome = "running" /\ TypeOK /\ Begins(t) /\ pc[u] = "unborn"
      /\ handle' = [handle EXCEPT ![u] = "running"] /\ run' = Append(run, u)
      /\ pc' = [pc EXCEPT ![t] = "create", ![u] = "queued"]
      /\ UNCHANGED <<blocked, sblocked, ablocked, queue, cap, closed, op, outcome>>
  BY DEF TaskSpawn, At, chans, IInv
<1>2. /\ runBar = run /\ blockedBar = blocked /\ sblockedBar = sblocked
      /\ ablockedBar = ablocked /\ \A v \in Tasks : pc[v] \notin Waking
      /\ run \in Seq(Tasks) /\ run # <<>> /\ outcomeBar = "running" /\ Coop!May(t)
  BY <1>1, InCharge DEF Holding, Waking
<1>3. \A v \in Tasks : pc'[v] \notin Waking
  BY <1>1, <1>2 DEF TypeOK, Waking
<1>4. /\ runBar' = run' /\ blockedBar' = blocked' /\ sblockedBar' = sblocked'
      /\ ablockedBar' = ablocked'
  BY <1>3, RestingThen
<1>5. u # Main /\ handle[u] = "none"
  BY <1>1 DEF IInv, Handles
<1>6. Range(run') = Range(run) \cup {u} /\ run' # <<>>
  BY <1>1, <1>2, OfAppend
<1>7. Parked' = Parked
  BY <1>1, WStays DEF Parked, ParkedIn, ParkedBy
<1>8. tstateBar' = [tstateBar EXCEPT ![u] = "running"]
  BY <1>1, <1>5, <1>6, <1>7, OneState
<1>9. tstateBar[u] = "unborn"
  BY <1>5, StateOf
<1>10. outcomeBar' = "running"
  BY <1>1, <1>4, <1>6, GoesOnThen DEF Traps
<1>11. Coop!Begins(t)
  BY <1>1, SameStarts
<1> QED BY <1>1, <1>2, <1>4, <1>8, <1>9, <1>10, <1>11 DEF Coop!Spawn

\* Who hands the baton on and waits is still on R or on a waiting queue.
LEMMA PassedStates ==
  ASSUME IInv, IInv', NEW t \in Tasks, Passes(t, "wait"), handle' = handle
  PROVE  tstateBar' = tstateBar
<1>1. t \in Range(run)
  BY Holder DEF Passes
<1>2. t \in Range(run') \cup Parked' /\ Main \in Tasks
  BY CAssumption DEF Passes
<1>3. Main \in (Range(run) \cup Parked)' <=> Main \in Range(run) \cup Parked
  BY <1>1, <1>2 DEF Passes
<1> QED BY <1>3, SameStates

LEMMA SeesYield ==
  ASSUME IInv, IInv', NEW t \in Tasks, TaskYield(t)
  PROVE  Coop!Yield(t)
<1>1. /\ pc[t] = "run" /\ outcome = "running" /\ TypeOK /\ Begins(t)
      /\ UNCHANGED <<blocked, sblocked, ablocked, blockedCount, queue, cap, closed>>
      /\ UNCHANGED <<handle, arg, op, outcome>>
  BY DEF TaskYield, At, chans, IInv
<1>2. /\ runBar = run /\ blockedBar = blocked /\ sblockedBar = sblocked
      /\ ablockedBar = ablocked /\ \A v \in Tasks : pc[v] \notin Waking
      /\ run \in Seq(Tasks) /\ run # <<>> /\ Head(run) = t
      /\ outcomeBar = "running" /\ Coop!May(t)
  BY <1>1, InCharge DEF Holding, Waking
<1>3. Coop!Begins(t)
  BY <1>1, SameStarts
<1>4. /\ run' = Append(Tail(run), t) /\ run' # <<>> /\ tstateBar' = tstateBar
      /\ \A v \in Tasks : pc'[v] \notin Waking
  <2>1. CASE Len(run) > 1
    <3>1. /\ run' = Append(Tail(run), t)
          /\ HandOff(t, run', blockedCount, ablocked, asleep \cup {t}, "wait")
      BY <2>1 DEF TaskYield
    <3>2. Passes(t, "wait")
      BY <3>1, YieldPasses
    <3>3. tstateBar' = tstateBar
      BY <1>1, <3>2, PassedStates
    <3>4. \A v \in Tasks : pc'[v] \notin Waking
      BY <1>1, <3>1, HandedRests DEF Holding
    <3>5. run' # <<>>
      <4>1. Tail(run) \in Seq(Tasks)
        BY <1>2
      <4> QED BY <3>1, <4>1
    <3> QED BY <3>1, <3>3, <3>4, <3>5
  <2>2. CASE ~(Len(run) > 1)
    <3>1. UNCHANGED <<run, current, pc>>
      BY <2>2 DEF TaskYield
    <3>2. run = Append(Tail(run), t)
      <4>1. Len(run) = 1 /\ run[1] = t
        <5> DEFINE n == Len(run)
        <5>1. n \in Nat \ {0} /\ ~(n > 1)
          BY <1>2, <2>2, EmptySeq
        <5>2. n = 1
          <6> HIDE DEF n
          <6> QED BY <5>1
        <5> QED BY <1>2, <5>2
      <4>2. Tail(run) = <<>>
        <5>1. Tail(run) \in Seq(Tasks) /\ Len(Tail(run)) = 0
          BY <1>2, <4>1, OfTail
        <5> QED BY <5>1, EmptySeq
      <4>3. Append(<<>>, t) = <<t>> /\ run = <<t>>
        BY <1>2, <4>1
      <4> QED BY <4>2, <4>3
    <3>3. tstateBar' = tstateBar
      BY <1>1, <3>1 DEF tstateBar
    <3> QED BY <1>2, <3>1, <3>2, <3>3
  <2> QED BY <2>1, <2>2
<1>5. /\ runBar' = run' /\ blockedBar' = blocked' /\ sblockedBar' = sblocked'
      /\ ablockedBar' = ablocked'
  BY <1>4, RestingThen
<1>6. outcomeBar' = "running"
  BY <1>1, <1>4, <1>5, GoesOnThen DEF Traps
<1> QED BY <1>1, <1>2, <1>3, <1>4, <1>5, <1>6 DEF Coop!Yield

\* manit_sched_block_on is the whole of a blocking operation for CoopSched: the
\* test that came before it still holds, because nobody has run in between.
LEMMA SeesBlockOn ==
  ASSUME IInv, IInv', NEW t \in Tasks, BlockOn(t)
  PROVE  \/ arg[t] \in Chans /\ (Coop!SendBlock(t, arg[t]) \/ Coop!RecvBlock(t, arg[t]))
         \/ arg[t] \in Tasks /\ Coop!AwaitBlock(t, arg[t])
<1>1. /\ pc[t] \in {"sendFull", "recvEmpty", "awaitRunning"} /\ outcome = "running"
      /\ TypeOK /\ run' = Tail(run)
      /\ op' = [op EXCEPT ![t] = BlockedOp(t)] /\ Starts(t, BlockedOp(t))
      /\ HandOff(t, run', blockedCount', ablocked', asleep \cup {t}, "wait")
      /\ UNCHANGED <<queue, cap, closed, handle, arg, outcome>>
  BY DEF BlockOn, At, IInv, BlockedOp, chans
<1>2. /\ runBar = run /\ blockedBar = blocked /\ sblockedBar = sblocked
      /\ ablockedBar = ablocked /\ \A v \in Tasks : pc[v] \notin Waking
      /\ run \in Seq(Tasks) /\ run # <<>> /\ Head(run) = t
      /\ outcomeBar = "running" /\ Coop!May(t)
  BY <1>1, InCharge DEF Holding, Waking
<1>3. current = t
  BY <1>1, Holder DEF Holding
<1>4. Passes(t, "wait")
  BY BlockOnPasses
<1>5. tstateBar' = tstateBar
  BY <1>1, <1>4, PassedStates
<1>6. \A v \in Tasks : pc'[v] \notin Waking
  BY <1>1, HandedRests DEF Holding
<1>7. /\ runBar' = run' /\ blockedBar' = blocked' /\ sblockedBar' = sblocked'
      /\ ablockedBar' = ablocked'
  BY <1>6, RestingThen
<1>8. Coop!Starts(t, BlockedOp(t))
  BY <1>1, SameStarts
<1>9. outcomeBar' = Coop!Ending(runBar', blockedBar', sblockedBar', ablockedBar')
  <2>1. outcomeBar' = Verdict'
    BY BarsStay DEF Bars
  <2> QED BY <1>1, <2>1 DEF Verdict, Traps
<1>10. CASE pc[t] = "sendFull"
  <2>1. /\ arg[t] \in Chans /\ Exists(arg[t]) /\ arg[t] \notin closed /\ ~HasRoom(arg[t])
        /\ BlockedOp(t) = <<"send", arg[t]>>
    BY <1>10 DEF IInv, Args, ArgsOf, BlockedOp
  <2>2. /\ sblocked' = [sblocked EXCEPT ![arg[t]] = Append(@, t)]
        /\ UNCHANGED <<blocked, ablocked>>
    BY <1>3, <1>10 DEF BlockOn
  <2>3. /\ runBar' = Tail(runBar) /\ UNCHANGED <<blockedBar, ablockedBar>>
        /\ sblockedBar' = [sblockedBar EXCEPT ![arg[t]] = Append(@, t)]
    BY <1>1, <1>2, <1>7, <2>2
  <2>4. outcomeBar' = Coop!Ending(runBar', blockedBar, sblockedBar', ablockedBar)
    BY <1>9, <2>3
  <2> QED BY <1>1, <1>2, <1>5, <1>8, <2>1, <2>3, <2>4, SameTerms DEF Coop!SendBlock
<1>11. CASE pc[t] = "recvEmpty"
  <2>1. /\ arg[t] \in Chans /\ Exists(arg[t]) /\ arg[t] \notin closed /\ queue[arg[t]] = 0
        /\ BlockedOp(t) = <<"recv", arg[t]>>
    BY <1>11 DEF IInv, Args, ArgsOf, BlockedOp
  <2>2. /\ blocked' = [blocked EXCEPT ![arg[t]] = Append(@, t)]
        /\ UNCHANGED <<sblocked, ablocked>>
    BY <1>3, <1>11 DEF BlockOn
  <2>3. /\ runBar' = Tail(runBar) /\ UNCHANGED <<sblockedBar, ablockedBar>>
        /\ blockedBar' = [blockedBar EXCEPT ![arg[t]] = Append(@, t)]
    BY <1>1, <1>2, <1>7, <2>2
  <2>4. outcomeBar' = Coop!Ending(runBar', blockedBar', sblockedBar, ablockedBar)
    BY <1>9, <2>3
  <2> QED BY <1>1, <1>2, <1>5, <1>8, <2>1, <2>3, <2>4, SameTerms DEF Coop!RecvBlock
<1>12. CASE pc[t] = "awaitRunning"
  <2>1. /\ arg[t] \in Tasks /\ handle[arg[t]] = "running"
        /\ BlockedOp(t) = <<"await", arg[t]>>
    BY <1>12 DEF IInv, Args, ArgsOf, BlockedOp
  <2>2. /\ ablocked' = [ablocked EXCEPT ![arg[t]] = Append(@, t)]
        /\ UNCHANGED <<blocked, sblocked>>
    BY <1>3, <1>12 DEF BlockOn
  <2>3. /\ runBar' = Tail(runBar) /\ UNCHANGED <<blockedBar, sblockedBar>>
        /\ ablockedBar' = [ablockedBar EXCEPT ![arg[t]] = Append(@, t)]
    BY <1>1, <1>2, <1>7, <2>2
  <2>4. outcomeBar' = Coop!Ending(runBar', blockedBar, sblockedBar, ablockedBar')
    BY <1>9, <2>3
  <2>5. arg[t] # Main
    BY <2>1 DEF IInv, Handles
  <2>6. tstateBar[arg[t]] = "running"
    BY <2>1, <2>5, StateOf
  <2> QED BY <1>1, <1>2, <1>5, <1>8, <2>1, <2>3, <2>4, <2>5, <2>6 DEF Coop!AwaitBlock
<1> QED BY <1>1, <1>10, <1>11, <1>12

\* The report of a deadlock shows CoopSched nothing new; any other fault is its
\* trap, by a task that is still the head of R.
LEMMA SeesFault ==
  ASSUME IInv, IInv', NEW t \in Tasks, ManitFault(t)
  PROVE  Coop!Trap(t) \/ UNCHANGED Coop!vars
<1>1. /\ pc[t] = "faulting" /\ outcome = "running" /\ outcome' = why[t]
      /\ UNCHANGED <<sched, handle, queue, cap, closed, pc, arg, op, used>>
  BY DEF ManitFault, At, chans
<1>2. /\ why[t] \in Faults
      /\ why[t] \notin {"await", "fill"} => run # <<>>
  BY <1>1 DEF IInv, Finish
<1>3. CASE why[t] \in {"await", "fill"}
  BY <1>1, <1>3, Unseen DEF Traps
<1>4. CASE why[t] \notin {"await", "fill"}
  <2>1. UNCHANGED <<run, current, blocked, sblocked, ablocked>>
    BY <1>1 DEF sched
  <2>2. UNCHANGED <<runBar, blockedBar, sblockedBar, ablockedBar, tstateBar>>
    BY <1>1, <2>1 DEF runBar, blockedBar, sblockedBar, ablockedBar, After, tstateBar
  <2>3. runBar = run
    BY <1>1, Resting
  <2>4. run # <<>> /\ Head(run) = t
    BY <1>1, <1>2, <1>4 DEF IInv, Baton
  <2>5. outcomeBar = "running"
    BY <1>1, <2>3, <2>4, GoesOn DEF Traps
  <2>6. outcomeBar' = "trap"
    <3>1. outcomeBar' = Verdict' /\ outcome' \in Traps
      BY <1>1, <1>2, <1>4, BarsStay DEF Bars, Faults, Traps
    <3> QED BY <3>1 DEF Verdict
  <2> QED BY <1>1, <2>2, <2>3, <2>4, <2>5, <2>6 DEF Coop!Trap, Coop!May
<1> QED BY <1>3, <1>4

LEMMA CoopInitial == Init => Coop!Init
<1> SUFFICES ASSUME Init PROVE Coop!Init
  OBVIOUS
<1>1. IInv
  BY Initial
<1>2. /\ run = <<Main>> /\ outcome = "running" /\ pc[Main] = "run" /\ Main \in Tasks
      /\ ablocked = [t \in Tasks |-> <<>>] /\ handle = [t \in Tasks |-> "none"]
      /\ blocked = [c \in Chans |-> <<>>] /\ sblocked = [c \in Chans |-> <<>>]
  BY CAssumption DEF Init
<1>3. /\ runBar = run /\ blockedBar = blocked /\ sblockedBar = sblocked
      /\ ablockedBar = ablocked /\ outcomeBar = "running"
  BY <1>1, <1>2, InCharge DEF Holding, Waking
<1>4. tstateBar = [t \in Tasks |-> IF t = Main THEN "running" ELSE "unborn"]
  <2>1. Main \in Range(run)
    BY <1>1, <1>2, Holder DEF Holding
  <2>2. \A t \in Tasks : TaskStates[t] = IF t = Main THEN "running" ELSE "unborn"
    BY <1>2, <2>1 DEF TaskStates
  <2>3. tstateBar = [t \in Tasks |-> TaskStates[t]]
    BY <1>1, BarsAre DEF Bars, TaskStates
  <2> QED BY <2>2, <2>3
<1> QED BY <1>2, <1>3, <1>4, SameTerms DEF Init, Coop!Init

LEMMA CoopStep == IInv /\ IInv' /\ [Next]_vars => [Coop!Next]_(Coop!vars)
<1> SUFFICES ASSUME IInv, IInv', [Next]_vars PROVE Coop!Next \/ UNCHANGED Coop!vars
  OBVIOUS
<1>1. CASE UNCHANGED vars
  <2>1. UNCHANGED <<run, current, blocked, sblocked, ablocked, queue, cap, closed, handle,
                    pc, arg, op, used, outcome>>
    BY <1>1 DEF vars, sched, chans
  <2>2. UNCHANGED <<runBar, blockedBar, sblockedBar, ablockedBar, tstateBar>>
    BY <2>1 DEF runBar, blockedBar, sblockedBar, ablockedBar, After, tstateBar
  <2>3. UNCHANGED outcomeBar
    BY <2>1, <2>2 DEF outcomeBar, Abstract!Ending
  <2> QED BY <2>1, <2>2, <2>3 DEF Coop!vars
<1>2. ASSUME NEW t \in Tasks, Step(t) \/ SpuriousWake(t)
      PROVE  Coop!Next \/ UNCHANGED Coop!vars
  <2>1. CASE CheckBaton(t) \/ SpuriousWake(t) \/ Quiesced(t) \/ BodyFault(t)
    BY <2>1, SeesOthers
  <2>2. CASE BlockOn(t)
    BY <2>2, SeesBlockOn DEF Coop!Next, Coop!Step
  <2>3. ASSUME NEW c \in Chans, NEW k \in Caps, ChannelNew(t, c, k) PROVE Coop!Next
    BY <2>3, SeesNewChannel DEF Coop!Next, Coop!Step
  <2>4. ASSUME NEW c \in Chans, Send(t, c) PROVE Coop!Next \/ UNCHANGED Coop!vars
    BY <2>4, SeesSend DEF Coop!Next, Coop!Step
  <2>5. ASSUME NEW c \in Chans, Recv(t, c) PROVE Coop!Next \/ UNCHANGED Coop!vars
    BY <2>5, SeesRecv DEF Coop!Next, Coop!Step
  <2>6. ASSUME NEW c \in Chans, Close(t, c) PROVE Coop!Next
    BY <2>6, SeesClose DEF Coop!Next, Coop!Step
  <2>7. CASE SendWake(t) \/ RecvWake(t) \/ CloseWakeRecv(t) \/ CloseWakeSend(t)
    BY <2>7, SeesSendWake, SeesRecvWake, SeesCloseWakeRecv, SeesCloseWakeSend
  <2>8. ASSUME NEW u \in Tasks, TaskSpawn(t, u) PROVE Coop!Next
    BY <2>8, SeesSpawn DEF Coop!Next, Coop!Step
  <2>9. CASE PthreadCreate(t) \/ CompleteWake(t) \/ Leave(t)
    BY <2>9, SeesCreate, SeesCompleteWake, SeesLeave
  <2>10. CASE TaskYield(t)
    BY <2>10, SeesYield DEF Coop!Next, Coop!Step
  <2>11. ASSUME NEW u \in Tasks, TaskAwait(t, u) PROVE Coop!Next \/ UNCHANGED Coop!vars
    BY <2>11, SeesAwait DEF Coop!Next, Coop!Step
  <2>12. CASE BodyReturns(t)
    BY <2>12, SeesBodyReturns DEF Coop!Next, Coop!Step
  <2>13. CASE MainDone(t)
    BY <2>13, SeesMainDone DEF Coop!Next, Coop!Step
  <2>14. CASE ManitFault(t)
    BY <2>14, SeesFault DEF Coop!Next, Coop!Step
  <2> QED BY <1>2, <2>1, <2>2, <2>3, <2>4, <2>5, <2>6, <2>7, <2>8, <2>9, <2>10, <2>11,
             <2>12, <2>13, <2>14 DEF Step
<1> QED BY <1>1, <1>2 DEF Next

\* The C runtime implements CoopSched: every step of a thread, under a lock or
\* between two, is a step that CoopSched allows the head of R, or changes nothing
\* it can see; whatever the capacities, and whichever condition variables wake by
\* themselves.
THEOREM RuntimeImplementsCoop == Spec => ImplementsCoop
BY CoopInitial, CoopStep, Invariant, PTL DEF Spec, ImplementsCoop, Coop!Spec

=============================================================================
