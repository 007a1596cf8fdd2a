------------------------------- MODULE RefSched -------------------------------
(***************************************************************************)
(* The scheduler of the reference interpreter, src/reference/eval.rs: one  *)
(* OS thread per task, one mutex over the shared configuration, and one    *)
(* condition variable on which every thread that is not at the head of run *)
(* waits.  A critical section of the mutex is one step; a notify_all that  *)
(* follows the unlock is a step of its own, so threads interleave there.   *)
(*                                                                         *)
(* Sched::m is held only inside a step.  What a thread does next is pc:    *)
(*   unborn    no such task yet                                            *)
(*   queued    in run, its OS thread not yet created                       *)
(*   turn      about to lock and look whether it is its turn (await_turn)  *)
(*   asleep    in Condvar::wait                                            *)
(*   go        evaluating, at or between operations                        *)
(*   spawn     enqueue_new_task done, scope.spawn still to come            *)
(*   notify, notifyGo, notifyEnd                                           *)
(*             notify_all, then await_turn / evaluation / end of thread    *)
(*   trap      a trap is unwinding to run_task, which will record it       *)
(*   gone      the thread has ended                                        *)
(***************************************************************************)
EXTENDS Integers, Sequences

CONSTANTS Tasks, Main, Chans, Caps,
          MaxOps   \* bound: operations one task starts before it can only end

ASSUME RefAssumption ==
  /\ Main \in Tasks
  /\ Caps \subseteq Nat
  /\ MaxOps \in Nat

VARIABLES run, blocked, sblocked,  \* Shared::run, blocked, blocked_send
          queue,                   \* the length of each Shared::chans
          caps, closed,            \* Shared::caps, closed
          trap, stopping,          \* Shared::trap, stopping
          pc, op, used             \* per thread; op: the send or recv loop it is in

shared == <<run, blocked, sblocked, queue, caps, closed, trap, stopping>>
vars == <<run, blocked, sblocked, queue, caps, closed, trap, stopping, pc, op,
          used>>

None == -1
Idle == <<"idle">>
Ops == {Idle} \cup ({"send", "recv"} \X Chans)

Pcs == {"unborn", "queued", "turn", "asleep", "go", "spawn", "notify",
        "notifyGo", "notifyEnd", "trap", "gone"}

-----------------------------------------------------------------------------

Begins(t) ==
  /\ op[t] = Idle /\ used[t] < MaxOps
  /\ used' = [used EXCEPT ![t] = @ + 1]

Starts(t, o) == Begins(t) \/ (op[t] = o /\ UNCHANGED used)

Goto(t, where) == pc' = [pc EXCEPT ![t] = where]

Exists(c) == caps[c] # None
HasRoom(c) == caps[c] = 0 \/ queue[c] < caps[c]

\* Mutant of WakeOne: the woken task overtakes R.
WakeOneInFront(r, q) == IF q = <<>> THEN r ELSE <<Head(q)>> \o r
WakeOne(r, q) == IF q = <<>> THEN r ELSE Append(r, Head(q))
Rest(q) == IF q = <<>> THEN q ELSE Tail(q)

\* check_end, called with the lock held wherever a task leaves run.
CheckEnd(r, b, s) ==
  IF r # <<>> \/ stopping THEN UNCHANGED <<trap, stopping>>
  ELSE /\ stopping' = TRUE
       /\ trap' = IF \E c \in Chans : s[c] # <<>> THEN "drain"
                  ELSE IF \E c \in Chans : b[c] # <<>> THEN "fill"
                  ELSE trap

\* run without t, wherever t stands in it.
Without(r, t) ==
  LET at == CHOOSE i \in DOMAIN r : r[i] = t
  IN IF \E i \in DOMAIN r : r[i] = t
     THEN SubSeq(r, 1, at - 1) \o SubSeq(r, at + 1, Len(r)) ELSE r

Init ==
  /\ run = <<Main>>
  /\ blocked = [c \in Chans |-> <<>>]
  /\ sblocked = [c \in Chans |-> <<>>]
  /\ queue = [c \in Chans |-> 0]
  /\ caps = [c \in Chans |-> None]
  /\ closed = {}
  /\ trap = "none"
  /\ stopping = FALSE
  /\ pc = [t \in Tasks |-> IF t = Main THEN "turn" ELSE "unborn"]
  /\ op = [t \in Tasks |-> Idle]
  /\ used = [t \in Tasks |-> 0]

-----------------------------------------------------------------------------
(* Waiting for the head of run.                                            *)

\* Mutant of AwaitTurn: a woken thread does not look whether it is the head.
AwaitTurnUntested(t) ==
  /\ pc[t] = "turn"
  /\ Goto(t, IF stopping THEN "gone" ELSE "go")
  /\ UNCHANGED <<shared, op, used>>

AwaitTurn(t) ==
  /\ pc[t] = "turn"
  /\ \/ stopping /\ Goto(t, "gone")
     \/ ~stopping /\ run # <<>> /\ Head(run) = t /\ Goto(t, "go")
     \/ ~stopping /\ (run = <<>> \/ Head(run) # t) /\ Goto(t, "asleep")
  /\ UNCHANGED <<shared, op, used>>

\* Condvar::wait may return without a notification.
SpuriousWake(t) ==
  /\ pc[t] = "asleep"
  /\ Goto(t, "turn")
  /\ UNCHANGED <<shared, op, used>>

\* Mutant of NotifyAll: notify_one.
NotifyOne(t) ==
  LET next == [notify |-> "turn", notifyGo |-> "go", notifyEnd |-> "gone"]
      sleepers == {u \in Tasks : pc[u] = "asleep"}
  IN /\ pc[t] \in DOMAIN next
     /\ \E u \in IF sleepers = {} THEN {t} ELSE sleepers :
          pc' = [pc EXCEPT ![u] = "turn", ![t] = next[pc[t]]]
     /\ UNCHANGED <<shared, op, used>>

NotifyAll(t) ==
  LET next == [notify |-> "turn", notifyGo |-> "go", notifyEnd |-> "gone"]
  IN /\ pc[t] \in DOMAIN next
     /\ pc' = [u \in Tasks |-> IF u = t THEN next[pc[t]]
                               ELSE IF pc[u] = "asleep" THEN "turn" ELSE pc[u]]
     /\ UNCHANGED <<shared, op, used>>

-----------------------------------------------------------------------------
(* The operations of a task that has its turn.                             *)

NewChannel(t, c, k) ==
  /\ pc[t] = "go" /\ op[t] = Idle /\ ~Exists(c)
  /\ caps' = [caps EXCEPT ![c] = k]
  /\ UNCHANGED <<run, blocked, sblocked, queue, closed, trap, stopping, pc, op,
                 used>>

\* Stmt::Spawn: enqueue_new_task under the lock, then scope.spawn.
EnqueueNewTask(t, u) ==
  /\ pc[t] = "go" /\ Begins(t) /\ pc[u] = "unborn"
  /\ run' = Append(run, u)
  /\ pc' = [pc EXCEPT ![t] = "spawn", ![u] = "queued"]
  /\ UNCHANGED <<blocked, sblocked, queue, caps, closed, trap, stopping, op>>

SpawnThread(t, u) ==
  /\ pc[t] = "spawn" /\ pc[u] = "queued"
  /\ pc' = [pc EXCEPT ![t] = "go", ![u] = "turn"]
  /\ UNCHANGED <<shared, op, used>>

YieldNow(t) ==
  /\ pc[t] = "go" /\ Begins(t)
  /\ run' = Append(Tail(run), Head(run))
  /\ Goto(t, "notify")
  /\ UNCHANGED <<blocked, sblocked, queue, caps, closed, trap, stopping, op>>

SendClosed(t, c) ==
  /\ pc[t] = "go" /\ Exists(c)
  /\ op[t] \in {Idle, <<"send", c>>} /\ c \in closed
  /\ Goto(t, "trap")
  /\ UNCHANGED <<shared, op, used>>

SendPush(t, c) ==
  /\ pc[t] = "go" /\ Exists(c) /\ Starts(t, <<"send", c>>)
  /\ c \notin closed /\ HasRoom(c)
  /\ queue' = [queue EXCEPT ![c] = @ + 1]
  /\ run' = WakeOne(run, blocked[c])
  /\ blocked' = [blocked EXCEPT ![c] = Rest(@)]
  /\ op' = [op EXCEPT ![t] = Idle]
  /\ Goto(t, "notifyGo")
  /\ UNCHANGED <<sblocked, caps, closed, trap, stopping>>

SendBlock(t, c) ==
  /\ pc[t] = "go" /\ Exists(c) /\ Starts(t, <<"send", c>>)
  /\ c \notin closed /\ ~HasRoom(c)
  /\ run' = Tail(run)
  /\ sblocked' = [sblocked EXCEPT ![c] = Append(@, t)]
  /\ op' = [op EXCEPT ![t] = <<"send", c>>]
  /\ CheckEnd(run', blocked, sblocked')
  /\ Goto(t, "notify")
  /\ UNCHANGED <<blocked, queue, caps, closed>>

RecvTake(t, c) ==
  /\ pc[t] = "go" /\ Exists(c) /\ Starts(t, <<"recv", c>>)
  /\ queue[c] > 0
  /\ queue' = [queue EXCEPT ![c] = @ - 1]
  /\ run' = WakeOne(run, sblocked[c])
  /\ sblocked' = [sblocked EXCEPT ![c] = Rest(@)]
  /\ op' = [op EXCEPT ![t] = Idle]
  /\ Goto(t, "notifyGo")
  /\ UNCHANGED <<blocked, caps, closed, trap, stopping>>

RecvClosed(t, c) ==
  /\ pc[t] = "go" /\ Exists(c) /\ Starts(t, <<"recv", c>>)
  /\ queue[c] = 0 /\ c \in closed
  /\ op' = [op EXCEPT ![t] = Idle]
  /\ UNCHANGED <<shared, pc>>

RecvBlock(t, c) ==
  /\ pc[t] = "go" /\ Exists(c) /\ Starts(t, <<"recv", c>>)
  /\ queue[c] = 0 /\ c \notin closed
  /\ run' = Tail(run)
  /\ blocked' = [blocked EXCEPT ![c] = Append(@, t)]
  /\ op' = [op EXCEPT ![t] = <<"recv", c>>]
  /\ CheckEnd(run', blocked', sblocked)
  /\ Goto(t, "notify")
  /\ UNCHANGED <<sblocked, queue, caps, closed>>

Close(t, c) ==
  /\ pc[t] = "go" /\ Exists(c) /\ Begins(t)
  /\ closed' = closed \cup {c}
  /\ run' = run \o blocked[c] \o sblocked[c]
  /\ blocked' = [blocked EXCEPT ![c] = <<>>]
  /\ sblocked' = [sblocked EXCEPT ![c] = <<>>]
  /\ Goto(t, "notifyGo")
  /\ UNCHANGED <<queue, caps, trap, stopping, op>>

\* Any other trap of the task's own code, the step budget of tick included.
BodyTrap(t) ==
  /\ pc[t] = "go" /\ op[t] = Idle
  /\ Goto(t, "trap")
  /\ UNCHANGED <<shared, op, used>>

-----------------------------------------------------------------------------
(* The end of run_task.                                                    *)

Finish(t) ==
  /\ pc[t] = "go" /\ op[t] = Idle
  /\ run' = Without(run, t)
  /\ CheckEnd(run', blocked, sblocked)
  /\ Goto(t, "notifyEnd")
  /\ UNCHANGED <<blocked, sblocked, queue, caps, closed, op, used>>

\* Mutant of RecordTrap: the thread goes on evaluating.
RecordTrapGoesOn(t) ==
  /\ pc[t] = "trap"
  /\ trap' = IF trap = "none" THEN "trap" ELSE trap
  /\ stopping' = TRUE
  /\ Goto(t, "notifyGo")
  /\ UNCHANGED <<run, blocked, sblocked, queue, caps, closed, op, used>>

RecordTrap(t) ==
  /\ pc[t] = "trap"
  /\ trap' = IF trap = "none" THEN "trap" ELSE trap
  /\ stopping' = TRUE
  /\ Goto(t, "notifyEnd")
  /\ UNCHANGED <<run, blocked, sblocked, queue, caps, closed, op, used>>

Step(t) ==
  \/ AwaitTurn(t)
  \/ NotifyAll(t)
  \/ \E c \in Chans, k \in Caps : NewChannel(t, c, k)
  \/ \E u \in Tasks : EnqueueNewTask(t, u)
  \/ \E u \in Tasks : SpawnThread(t, u)
  \/ YieldNow(t)
  \/ \E c \in Chans : SendClosed(t, c)
  \/ \E c \in Chans : SendPush(t, c)
  \/ \E c \in Chans : SendBlock(t, c)
  \/ \E c \in Chans : RecvTake(t, c)
  \/ \E c \in Chans : RecvClosed(t, c)
  \/ \E c \in Chans : RecvBlock(t, c)
  \/ \E c \in Chans : Close(t, c)
  \/ BodyTrap(t)
  \/ Finish(t)
  \/ RecordTrap(t)

Next == \E t \in Tasks : Step(t) \/ SpuriousWake(t)

Spec == Init /\ [][Next]_vars

\* The operating system runs every thread that can run, and evaluation between
\* two operations ends: tick traps a program that exhausts its step budget.
FairSpec == Spec /\ \A t \in Tasks : WF_vars(Step(t))

-----------------------------------------------------------------------------

\* Every variable keeps its type.
TypeOK ==
  /\ run \in Seq(Tasks)
  /\ blocked \in [Chans -> Seq(Tasks)]
  /\ sblocked \in [Chans -> Seq(Tasks)]
  /\ queue \in [Chans -> Nat]
  /\ caps \in [Chans -> Caps \cup {None}]
  /\ closed \subseteq Chans
  /\ trap \in {"none", "drain", "fill", "trap"}
  /\ stopping \in BOOLEAN
  /\ pc \in [Tasks -> Pcs]
  /\ op \in [Tasks -> Ops]
  /\ used \in [Tasks -> 0..MaxOps]

\* The states in which a thread may touch the shared configuration or produce
\* output as its task.
Evaluating == {"go", "spawn", "notifyGo", "trap"}

\* Only the head of run evaluates: the threads never race, whatever the
\* operating system does (the doc comment of run_task, and the debug_asserts).
OnlyHeadRuns ==
  \A t \in Tasks : pc[t] \in Evaluating => run # <<>> /\ Head(run) = t

\* The event that ends the program is the last one: a thread that is cancelled
\* afterwards changes nothing that can be observed (Abort::Cancelled).
EndIsFinal == [][stopping => UNCHANGED shared]_vars

\* Every thread ends, so the thread scope is joined: no thread sleeps through
\* its turn or through the end of the program, and a deadlock of the program is
\* reported rather than suffered.
AllThreadsEnd == <>(\A t \in Tasks : pc[t] \in {"unborn", "gone"})

-----------------------------------------------------------------------------
(* The interpreter implements CoopSched.                                   *)

Waiting(t) ==
  \E c \in Chans : \/ \E i \in DOMAIN blocked[c] : blocked[c][i] = t
                   \/ \E i \in DOMAIN sblocked[c] : sblocked[c][i] = t

tstateBar ==
  [t \in Tasks |-> IF pc[t] = "unborn" THEN "unborn"
                   ELSE IF (\E i \in DOMAIN run : run[i] = t) \/ Waiting(t)
                   THEN "running" ELSE "done"]

outcomeBar ==
  IF ~stopping THEN "running"
  ELSE IF trap = "none" THEN "ended"
  ELSE IF trap = "trap" THEN "trap" ELSE "deadlock"

Coop == INSTANCE CoopSched
          WITH ablocked <- [t \in Tasks |-> <<>>], cap <- caps,
               tstate <- tstateBar, outcome <- outcomeBar

\* Every step of a thread is a step CoopSched allows the head task, or one that
\* changes nothing it can see: the threads add no behaviour.
ImplementsCoop == Coop!Spec

=============================================================================
