------------------------------ MODULE CoopSched ------------------------------
(***************************************************************************)
(* Cooperative scheduling as all three implementations promise it: one     *)
(* operation of the running task is one step.  The reference interpreter   *)
(* (src/reference/eval.rs), the T3 emulator (codegen_t3/emulator/sched.rs) *)
(* and the C runtime (runtime/sched.c, sync.c) are shown to implement this *)
(* module by RefSched, T3Sched and CSched.                                 *)
(*                                                                         *)
(* Channel contents are abstracted to their length; ChanRing has the       *)
(* values.  An operation that blocks is re-executed when its task is woken *)
(* and again at the head of run, so op[t] names it until it completes.     *)
(***************************************************************************)
EXTENDS Integers, Sequences, FiniteSets, Functions

CONSTANTS Tasks,   \* the tasks that may ever exist
          Main,    \* task 0, which the program starts as
          Chans,   \* the channels that may ever be created
          Caps,    \* capacities a program asks for; 0 is an unbounded channel
          MaxOps   \* bound: operations one task starts before it can only end

ASSUME CoopAssumption ==
  /\ Main \in Tasks
  /\ Caps \subseteq Nat
  /\ MaxOps \in Nat

VARIABLES run,       \* R: the run queue, the head is the running task
          blocked,   \* B: per channel, the tasks waiting to receive
          sblocked,  \* S: per channel, the tasks waiting for room
          ablocked,  \* per task, the tasks awaiting it
          queue,     \* per channel, the number of values in it
          cap,       \* per channel, its capacity, or None before it exists
          closed,    \* the closed channels
          tstate,    \* T: per task, what its handle answers
          op,        \* the operation a task re-executes when it runs again
          used,      \* operations started so far, bounded by MaxOps
          outcome    \* how the program ended, or "running"

vars == <<run, blocked, sblocked, ablocked, queue, cap, closed, tstate, op,
          used, outcome>>

None == -1
Idle == <<"idle">>
Ops == {Idle} \cup ({"send", "recv"} \X Chans) \cup ({"await"} \X Tasks)

-----------------------------------------------------------------------------

\* The program may take a step of task t: t is the head of R.
May(t) == outcome = "running" /\ run # <<>> /\ Head(run) = t

\* t begins a new operation ...
Begins(t) ==
  /\ op[t] = Idle /\ used[t] < MaxOps
  /\ used' = [used EXCEPT ![t] = @ + 1]

\* ... and one that can block may also be executed again once t is woken.
Starts(t, o) == Begins(t) \/ (op[t] = o /\ UNCHANGED used)

Exists(c) == cap[c] # None
\* Mutant of HasRoom: one value too many.
HasRoomOffByOne(c) == cap[c] = 0 \/ queue[c] <= cap[c]
HasRoom(c) == cap[c] = 0 \/ queue[c] < cap[c]

\* Mutant of WakeOne: the woken task does not reach R.
WakeOneLost(r, q) == r

\* R with the longest-waiting task of waiting queue q appended.
WakeOne(r, q) == IF q = <<>> THEN r ELSE Append(r, Head(q))
Rest(q) == IF q = <<>> THEN q ELSE Tail(q)

\* check_end: how the program ends once R is r and the waiting queues are these.
Ending(r, b, s, a) ==
  IF r # <<>> THEN "running"
  ELSE IF \/ \E c \in Chans : b[c] # <<>> \/ s[c] # <<>>
          \/ \E u \in Tasks : a[u] # <<>>
       THEN "deadlock" ELSE "ended"

Init ==
  /\ run = <<Main>>
  /\ blocked = [c \in Chans |-> <<>>]
  /\ sblocked = [c \in Chans |-> <<>>]
  /\ ablocked = [t \in Tasks |-> <<>>]
  /\ queue = [c \in Chans |-> 0]
  /\ cap = [c \in Chans |-> None]
  /\ closed = {}
  /\ tstate = [t \in Tasks |-> IF t = Main THEN "running" ELSE "unborn"]
  /\ op = [t \in Tasks |-> Idle]
  /\ used = [t \in Tasks |-> 0]
  /\ outcome = "running"

-----------------------------------------------------------------------------

NewChannel(t, c, k) ==
  /\ May(t) /\ op[t] = Idle /\ ~Exists(c)
  /\ cap' = [cap EXCEPT ![c] = k]
  /\ UNCHANGED <<run, blocked, sblocked, ablocked, queue, closed, tstate, op,
                 used, outcome>>

\* (SPAWN) appends at the back and does not yield.
Spawn(t, u) ==
  /\ May(t) /\ Begins(t) /\ tstate[u] = "unborn"
  /\ run' = Append(run, u)
  /\ tstate' = [tstate EXCEPT ![u] = "running"]
  /\ UNCHANGED <<blocked, sblocked, ablocked, queue, cap, closed, op, outcome>>

Yield(t) ==
  /\ May(t) /\ Begins(t)
  /\ run' = Append(Tail(run), t)
  /\ UNCHANGED <<blocked, sblocked, ablocked, queue, cap, closed, tstate, op,
                 outcome>>

\* (SEND), (SEND-WAKE)
SendPush(t, c) ==
  /\ May(t) /\ Exists(c) /\ Starts(t, <<"send", c>>)
  /\ c \notin closed /\ HasRoom(c)
  /\ queue' = [queue EXCEPT ![c] = @ + 1]
  /\ run' = WakeOne(run, blocked[c])
  /\ blocked' = [blocked EXCEPT ![c] = Rest(@)]
  /\ op' = [op EXCEPT ![t] = Idle]
  /\ UNCHANGED <<sblocked, ablocked, cap, closed, tstate, outcome>>

\* (SEND-BLOCK)
SendBlock(t, c) ==
  /\ May(t) /\ Exists(c) /\ Starts(t, <<"send", c>>)
  /\ c \notin closed /\ ~HasRoom(c)
  /\ run' = Tail(run)
  /\ sblocked' = [sblocked EXCEPT ![c] = Append(@, t)]
  /\ op' = [op EXCEPT ![t] = <<"send", c>>]
  /\ outcome' = Ending(run', blocked, sblocked', ablocked)
  /\ UNCHANGED <<blocked, ablocked, queue, cap, closed, tstate>>

\* Mutant of RecvTake: the queue is not tested.
RecvTakeUntested(t, c) ==
  /\ May(t) /\ Exists(c) /\ Starts(t, <<"recv", c>>)
  /\ queue' = [queue EXCEPT ![c] = @ - 1]
  /\ op' = [op EXCEPT ![t] = Idle]
  /\ UNCHANGED <<run, blocked, sblocked, ablocked, cap, closed, tstate, outcome>>

\* (RECV), (RECV-WAKE)
RecvTake(t, c) ==
  /\ May(t) /\ Exists(c) /\ Starts(t, <<"recv", c>>)
  /\ queue[c] > 0
  /\ queue' = [queue EXCEPT ![c] = @ - 1]
  /\ run' = WakeOne(run, sblocked[c])
  /\ sblocked' = [sblocked EXCEPT ![c] = Rest(@)]
  /\ op' = [op EXCEPT ![t] = Idle]
  /\ UNCHANGED <<blocked, ablocked, cap, closed, tstate, outcome>>

\* (RECV-CLOSED): a drained, closed channel answers zero without blocking.
RecvClosed(t, c) ==
  /\ May(t) /\ Exists(c) /\ Starts(t, <<"recv", c>>)
  /\ queue[c] = 0 /\ c \in closed
  /\ op' = [op EXCEPT ![t] = Idle]
  /\ UNCHANGED <<run, blocked, sblocked, ablocked, queue, cap, closed, tstate,
                 outcome>>

\* (RECV-BLOCK)
RecvBlock(t, c) ==
  /\ May(t) /\ Exists(c) /\ Starts(t, <<"recv", c>>)
  /\ queue[c] = 0 /\ c \notin closed
  /\ run' = Tail(run)
  /\ blocked' = [blocked EXCEPT ![c] = Append(@, t)]
  /\ op' = [op EXCEPT ![t] = <<"recv", c>>]
  /\ outcome' = Ending(run', blocked', sblocked, ablocked)
  /\ UNCHANGED <<sblocked, ablocked, queue, cap, closed, tstate>>

\* (CLOSE) wakes every receiver, then every sender.
Close(t, c) ==
  /\ May(t) /\ Exists(c) /\ Begins(t)
  /\ closed' = closed \cup {c}
  /\ run' = run \o blocked[c] \o sblocked[c]
  /\ blocked' = [blocked EXCEPT ![c] = <<>>]
  /\ sblocked' = [sblocked EXCEPT ![c] = <<>>]
  /\ UNCHANGED <<ablocked, queue, cap, tstate, op, outcome>>

\* (AWAIT): the value is taken, once.
Await(t, u) ==
  /\ May(t) /\ Starts(t, <<"await", u>>)
  /\ u # Main /\ tstate[u] = "done"
  /\ tstate' = [tstate EXCEPT ![u] = "taken"]
  /\ op' = [op EXCEPT ![t] = Idle]
  /\ UNCHANGED <<run, blocked, sblocked, ablocked, queue, cap, closed, outcome>>

\* (AWAIT-BLOCK)
AwaitBlock(t, u) ==
  /\ May(t) /\ Starts(t, <<"await", u>>)
  /\ u # Main /\ tstate[u] = "running"
  /\ run' = Tail(run)
  /\ ablocked' = [ablocked EXCEPT ![u] = Append(@, t)]
  /\ op' = [op EXCEPT ![t] = <<"await", u>>]
  /\ outcome' = Ending(run', blocked, sblocked, ablocked')
  /\ UNCHANGED <<blocked, sblocked, queue, cap, closed, tstate>>

\* (DONE), (DONE-T): the task leaves R for good and every awaiter is woken.
Exit(t) ==
  /\ May(t) /\ op[t] = Idle
  /\ tstate' = [tstate EXCEPT ![t] = "done"]
  /\ run' = Tail(run) \o ablocked[t]
  /\ ablocked' = [ablocked EXCEPT ![t] = <<>>]
  /\ outcome' = Ending(run', blocked, sblocked, ablocked')
  /\ UNCHANGED <<blocked, sblocked, queue, cap, closed, op, used>>

\* The running task traps: a send on a closed channel, an await of a value
\* already taken, or any trap of the task's own code.  The program is over.
Trap(t) ==
  /\ May(t)
  /\ outcome' = "trap"
  /\ UNCHANGED <<run, blocked, sblocked, ablocked, queue, cap, closed, tstate,
                 op, used>>

Step(t) ==
  \/ \E c \in Chans, k \in Caps : NewChannel(t, c, k)
  \/ \E u \in Tasks : Spawn(t, u)
  \/ Yield(t)
  \/ \E c \in Chans : SendPush(t, c)
  \/ \E c \in Chans : SendBlock(t, c)
  \/ \E c \in Chans : RecvTake(t, c)
  \/ \E c \in Chans : RecvClosed(t, c)
  \/ \E c \in Chans : RecvBlock(t, c)
  \/ \E c \in Chans : Close(t, c)
  \/ \E u \in Tasks : Await(t, u)
  \/ \E u \in Tasks : AwaitBlock(t, u)
  \/ Exit(t)
  \/ Trap(t)

Next == \E t \in Tasks : Step(t)

Spec == Init /\ [][Next]_vars

-----------------------------------------------------------------------------

\* Every variable keeps its type.
TypeOK ==
  /\ run \in Seq(Tasks)
  /\ blocked \in [Chans -> Seq(Tasks)]
  /\ sblocked \in [Chans -> Seq(Tasks)]
  /\ ablocked \in [Tasks -> Seq(Tasks)]
  /\ queue \in [Chans -> Nat]
  /\ cap \in [Chans -> Caps \cup {None}]
  /\ closed \subseteq Chans
  /\ tstate \in [Tasks -> {"unborn", "running", "done", "taken"}]
  /\ op \in [Tasks -> Ops]
  /\ used \in [Tasks -> 0..MaxOps]
  /\ outcome \in {"running", "ended", "deadlock", "trap"}

\* The tasks waiting in R to execute operation o again.
Pending(o) == {t \in Range(run) : op[t] = o}

\* A receiver is left waiting only while every value in its channel is spoken
\* for by a receiver that has already been woken, and a sender only while every
\* free slot is.  This is what makes waking one waiter per value enough.
NoLostWakeup ==
  \A c \in Chans :
    /\ blocked[c] # <<>> =>
         c \notin closed /\ queue[c] <= Cardinality(Pending(<<"recv", c>>))
    /\ sblocked[c] # <<>> =>
         /\ c \notin closed
         /\ cap[c] - queue[c] <= Cardinality(Pending(<<"send", c>>))

\* A deadlock is reported only when no waiting task could go on: every receiver
\* faces an empty open channel, every sender a full open one, every awaiter a
\* task that has not finished (check_end's claim that it states a fact).
TrueDeadlock ==
  outcome = "deadlock" =>
    /\ \A c \in Chans :
         /\ blocked[c] # <<>> => queue[c] = 0 /\ c \notin closed
         /\ sblocked[c] # <<>> => ~HasRoom(c) /\ c \notin closed
    /\ \A u \in Tasks : ablocked[u] # <<>> => tstate[u] = "running"

\* A bounded channel never holds more values than its capacity.
WithinCapacity ==
  \A c \in Chans : cap[c] > 0 => queue[c] <= cap[c]

=============================================================================
