-------------------------------- MODULE CSched --------------------------------
(***************************************************************************)
(* The task scheduler of the C runtime, src/runtime/sched.c, and the       *)
(* channel operations of sync.c that call it.  A task is a POSIX thread;   *)
(* the one manit_current names holds the baton.  Each critical section of  *)
(* manit_sched_lock, of a channel's lock, and each unlocked action between *)
(* them is one step, so a channel operation is two or three: the channel's *)
(* count changes under its lock, waiters are moved under the other lock.   *)
(*                                                                         *)
(* pc[t], with arg[t] the channel or task the call is about:               *)
(*   unborn, queued        no task; on R, its thread not yet created       *)
(*   run                   the task's own code, or a loop of op[t] again   *)
(*   create                __task_spawn, before pthread_create             *)
(*   sendFull, recvEmpty, awaitRunning                                     *)
(*                         the test failed and its lock was released;      *)
(*                         manit_sched_block_on comes next                 *)
(*   sendWake, recvWake, closeRecv, closeSend, complete                    *)
(*                         a wake_one or wake_all still to come            *)
(*   leave                 the trampoline, before (DONE)                   *)
(*   start, wait           waiting for manit_current to be t               *)
(*   quiesce               main, waiting for R to empty                    *)
(*   faulting              manit_fault comes next, with message why[t]     *)
(*   gone                  the thread has ended                            *)
(***************************************************************************)
EXTENDS Integers, Sequences, FiniteSets, Functions

CONSTANTS Tasks, Main, Chans, Caps,
          Spurious,  \* the condition variables that may wake unsignalled
          MaxOps     \* bound: operations one task starts before it can only end

ASSUME CAssumption ==
  /\ Main \in Tasks /\ IsFiniteSet(Tasks)
  /\ Caps \subseteq Nat
  /\ Spurious \subseteq {"wake", "manit_quiesce"}
  /\ MaxOps \in Nat

VARIABLES run, current,                   \* manit_run_head.., manit_current
          blocked, sblocked, ablocked,    \* waiters, send_waiters, awaiters
          blockedCount, liveTasks,        \* manit_blocked_count, _live_tasks
          queue, cap, closed,             \* ManitChan count, capacity, closed
          handle,                         \* ManitHandle state
          pc, arg, why, op, used,         \* per thread
          asleep,                         \* threads inside pthread_cond_wait
          outcome                         \* how the process ended, or "running"

sched == <<run, current, blocked, sblocked, ablocked, blockedCount, liveTasks>>
chans == <<queue, cap, closed>>
vars == <<sched, chans, handle, pc, arg, why, op, used, asleep, outcome>>

None == -1
Nobody == "nobody"
ASSUME NobodyIsNoTask == Nobody \notin Tasks

Idle == <<"idle">>
Ops == {Idle} \cup ({"send", "recv"} \X Chans) \cup ({"await"} \X Tasks)

-----------------------------------------------------------------------------

At(t, where) == outcome = "running" /\ pc[t] = where
Goto(t, where) == pc' = [pc EXCEPT ![t] = where]
Call(t, where, x) ==
  pc' = [pc EXCEPT ![t] = where] /\ arg' = [arg EXCEPT ![t] = x]
Fault(t, msg) ==
  pc' = [pc EXCEPT ![t] = "faulting"] /\ why' = [why EXCEPT ![t] = msg]

MayStart(t) == op[t] = Idle /\ used[t] < MaxOps
Begins(t) == MayStart(t) /\ used' = [used EXCEPT ![t] = @ + 1]
Starts(t, o) == Begins(t) \/ (op[t] = o /\ UNCHANGED used)
Mid(t, o) == MayStart(t) \/ op[t] = o

Exists(c) == cap[c] # None
HasRoom(c) == cap[c] = 0 \/ queue[c] < cap[c]

\* Mutant of WakeAll: the count does not go down.
WakeAllUncounted(w, x) ==
  /\ run' = run \o w[x]
  /\ w' = [w EXCEPT ![x] = <<>>]
  /\ UNCHANGED blockedCount

\* manit_sched_wake_one and _wake_all on the waiting queues w, at index x.
WakeOne(w, x) ==
  IF w[x] = <<>> THEN UNCHANGED <<run, blockedCount>> /\ w' = w
  ELSE /\ run' = Append(run, Head(w[x]))
       /\ blockedCount' = blockedCount - 1
       /\ w' = [w EXCEPT ![x] = Tail(@)]
WakeAll(w, x) ==
  /\ run' = run \o w[x]
  /\ blockedCount' = blockedCount - Len(w[x])
  /\ w' = [w EXCEPT ![x] = <<>>]

\* Mutants of HandOff: B is not looked at; main is not told that R is empty.
HandOffForgetsB(t, r, n, a, s, next) ==
  /\ current' = IF r # <<>> THEN Head(r) ELSE Nobody
  /\ asleep' = s \ (IF r # <<>> THEN {Head(r)} ELSE {u \in s : pc[u] = "quiesce"})
  /\ Goto(t, next) /\ UNCHANGED why
HandOffSilent(t, r, n, a, s, next) ==
  IF r = <<>> /\ n > 0
  THEN /\ Fault(t, IF \E u \in Tasks : a[u] # <<>> THEN "await" ELSE "fill")
       /\ UNCHANGED <<current, asleep>>
  ELSE /\ current' = IF r # <<>> THEN Head(r) ELSE Nobody
       /\ asleep' = IF r # <<>> THEN s \ {Head(r)} ELSE s
       /\ Goto(t, next) /\ UNCHANGED why

\* manit_hand_off when R is r, |B| is n and the awaiters are a; t goes on at
\* `next' unless it must report the deadlock.  Threads in s are asleep.
HandOff(t, r, n, a, s, next) ==
  IF r # <<>>
  THEN /\ current' = Head(r) /\ asleep' = s \ {Head(r)}
       /\ Goto(t, next) /\ UNCHANGED why
  ELSE IF n > 0
  THEN /\ Fault(t, IF \E u \in Tasks : a[u] # <<>> THEN "await" ELSE "fill")
       /\ UNCHANGED <<current, asleep>>
  ELSE /\ current' = Nobody /\ asleep' = s \ {u \in s : pc[u] = "quiesce"}
       /\ Goto(t, next) /\ UNCHANGED why

\* __task_bootstrap has run: main is task 0 and holds the baton.
Init ==
  /\ run = <<Main>> /\ current = Main
  /\ blocked = [c \in Chans |-> <<>>]
  /\ sblocked = [c \in Chans |-> <<>>]
  /\ ablocked = [t \in Tasks |-> <<>>]
  /\ blockedCount = 0 /\ liveTasks = 1
  /\ queue = [c \in Chans |-> 0]
  /\ cap = [c \in Chans |-> None]
  /\ closed = {}
  /\ handle = [t \in Tasks |-> "none"]
  /\ pc = [t \in Tasks |-> IF t = Main THEN "run" ELSE "unborn"]
  /\ arg = [t \in Tasks |-> Nobody]
  /\ why = [t \in Tasks |-> "none"]
  /\ op = [t \in Tasks |-> Idle]
  /\ used = [t \in Tasks |-> 0]
  /\ asleep = {}
  /\ outcome = "running"

-----------------------------------------------------------------------------
(* Waiting for the baton.                                                  *)

\* Mutant of CheckBaton: `if' for `while'.
CheckBatonOnce(t) ==
  /\ At(t, "start") \/ At(t, "wait")
  /\ t \notin asleep
  /\ IF current = t \/ pc[t] = "wait" THEN Goto(t, "run") /\ UNCHANGED asleep
     ELSE asleep' = asleep \cup {t} /\ UNCHANGED pc
  /\ UNCHANGED <<sched, chans, handle, arg, why, op, used, outcome>>

\* The loops `while (manit_current != self) pthread_cond_wait(...)'.
CheckBaton(t) ==
  /\ At(t, "start") \/ At(t, "wait")
  /\ t \notin asleep
  /\ IF current = t THEN Goto(t, "run") /\ UNCHANGED asleep
     ELSE asleep' = asleep \cup {t} /\ UNCHANGED pc
  /\ UNCHANGED <<sched, chans, handle, arg, why, op, used, outcome>>

SpuriousWake(t) ==
  /\ outcome = "running" /\ t \in asleep
  /\ IF pc[t] = "quiesce" THEN "manit_quiesce" \in Spurious
     ELSE "wake" \in Spurious
  /\ asleep' = asleep \ {t}
  /\ UNCHANGED <<sched, chans, handle, pc, arg, why, op, used, outcome>>

\* manit_sched_block_on, with the queue the caller passed.
BlockOn(t) ==
  /\ At(t, "sendFull") \/ At(t, "recvEmpty") \/ At(t, "awaitRunning")
  /\ LET o == <<CASE pc[t] = "sendFull" -> "send"
                  [] pc[t] = "recvEmpty" -> "recv"
                  [] OTHER -> "await", arg[t]>>
     IN Starts(t, o) /\ op' = [op EXCEPT ![t] = o]
  /\ IF pc[t] = "sendFull"
     THEN sblocked' = [sblocked EXCEPT ![arg[t]] = Append(@, current)]
     ELSE UNCHANGED sblocked
  /\ IF pc[t] = "recvEmpty"
     THEN blocked' = [blocked EXCEPT ![arg[t]] = Append(@, current)]
     ELSE UNCHANGED blocked
  /\ IF pc[t] = "awaitRunning"
     THEN ablocked' = [ablocked EXCEPT ![arg[t]] = Append(@, current)]
     ELSE UNCHANGED ablocked
  /\ run' = Tail(run)
  /\ blockedCount' = blockedCount + 1
  /\ HandOff(t, run', blockedCount', ablocked', asleep \cup {t}, "wait")
  /\ UNCHANGED <<liveTasks, chans, handle, arg, outcome>>

-----------------------------------------------------------------------------
(* Channels: sync.c.                                                       *)

\* channel_new (k = 0) and channel_bounded.
ChannelNew(t, c, k) ==
  /\ At(t, "run") /\ op[t] = Idle /\ ~Exists(c)
  /\ cap' = [cap EXCEPT ![c] = k]
  /\ UNCHANGED <<sched, queue, closed, handle, pc, arg, why, op, used, asleep,
                 outcome>>

\* channel_send up to the release of the channel's lock.
Send(t, c) ==
  /\ At(t, "run") /\ Exists(c)
  /\ \/ /\ c \notin closed /\ ~HasRoom(c) /\ Mid(t, <<"send", c>>)
        /\ Call(t, "sendFull", c)
        /\ UNCHANGED <<queue, why, op, used>>
     \/ /\ c \in closed /\ Mid(t, <<"send", c>>)
        /\ Fault(t, "closed")
        /\ UNCHANGED <<queue, arg, op, used>>
     \/ /\ c \notin closed /\ HasRoom(c) /\ Starts(t, <<"send", c>>)
        /\ queue' = [queue EXCEPT ![c] = @ + 1]
        /\ op' = [op EXCEPT ![t] = Idle]
        /\ Call(t, "sendWake", c)
        /\ UNCHANGED why
  /\ UNCHANGED <<sched, cap, closed, handle, asleep, outcome>>

SendWake(t) ==
  /\ At(t, "sendWake")
  /\ WakeOne(blocked, arg[t])
  /\ Goto(t, "run")
  /\ UNCHANGED <<current, sblocked, ablocked, liveTasks, chans, handle, arg,
                 why, op, used, asleep, outcome>>

\* channel_recv up to the release of the channel's lock.
Recv(t, c) ==
  /\ At(t, "run") /\ Exists(c)
  /\ \/ /\ queue[c] = 0 /\ c \notin closed /\ Mid(t, <<"recv", c>>)
        /\ Call(t, "recvEmpty", c)
        /\ UNCHANGED <<queue, op, used>>
     \/ /\ queue[c] = 0 /\ c \in closed /\ Starts(t, <<"recv", c>>)
        /\ op' = [op EXCEPT ![t] = Idle]
        /\ UNCHANGED <<queue, pc, arg>>
     \/ /\ queue[c] > 0 /\ Starts(t, <<"recv", c>>)
        /\ queue' = [queue EXCEPT ![c] = @ - 1]
        /\ op' = [op EXCEPT ![t] = Idle]
        /\ Call(t, "recvWake", c)
  /\ UNCHANGED <<sched, cap, closed, handle, why, asleep, outcome>>

RecvWake(t) ==
  /\ At(t, "recvWake")
  /\ WakeOne(sblocked, arg[t])
  /\ Goto(t, "run")
  /\ UNCHANGED <<current, blocked, ablocked, liveTasks, chans, handle, arg,
                 why, op, used, asleep, outcome>>

Close(t, c) ==
  /\ At(t, "run") /\ Exists(c) /\ Begins(t)
  /\ closed' = closed \cup {c}
  /\ Call(t, "closeRecv", c)
  /\ UNCHANGED <<sched, queue, cap, handle, why, op, asleep, outcome>>

CloseWakeRecv(t) ==
  /\ At(t, "closeRecv")
  /\ WakeAll(blocked, arg[t])
  /\ Goto(t, "closeSend")
  /\ UNCHANGED <<current, sblocked, ablocked, liveTasks, chans, handle, arg,
                 why, op, used, asleep, outcome>>

CloseWakeSend(t) ==
  /\ At(t, "closeSend")
  /\ WakeAll(sblocked, arg[t])
  /\ Goto(t, "run")
  /\ UNCHANGED <<current, blocked, ablocked, liveTasks, chans, handle, arg,
                 why, op, used, asleep, outcome>>

-----------------------------------------------------------------------------
(* Tasks: sched.c.                                                         *)

TaskSpawn(t, u) ==
  /\ At(t, "run") /\ Begins(t) /\ pc[u] = "unborn"
  /\ liveTasks' = liveTasks + 1
  /\ handle' = [handle EXCEPT ![u] = "running"]
  /\ run' = Append(run, u)
  /\ pc' = [pc EXCEPT ![t] = "create", ![u] = "queued"]
  /\ arg' = [arg EXCEPT ![t] = u]
  /\ UNCHANGED <<current, blocked, sblocked, ablocked, blockedCount, chans, why,
                 op, asleep, outcome>>

PthreadCreate(t) ==
  /\ At(t, "create")
  /\ \/ pc' = [pc EXCEPT ![t] = "run", ![arg[t]] = "start"] /\ UNCHANGED why
     \/ Fault(t, "create")
  /\ UNCHANGED <<sched, chans, handle, arg, op, used, asleep, outcome>>

TaskYield(t) ==
  /\ At(t, "run") /\ Begins(t)
  /\ IF Len(run) > 1
     THEN /\ run' = Append(Tail(run), t)
          /\ HandOff(t, run', blockedCount, ablocked, asleep \cup {t}, "wait")
     ELSE UNCHANGED <<run, current, pc, why, asleep>>
  /\ UNCHANGED <<blocked, sblocked, ablocked, blockedCount, liveTasks, chans,
                 handle, arg, op, outcome>>

\* __task_await up to the release of the lock.
TaskAwait(t, u) ==
  /\ At(t, "run")
  /\ \/ /\ handle[u] = "taken" /\ Mid(t, <<"await", u>>)
        /\ Fault(t, "taken")
        /\ UNCHANGED <<handle, arg, op, used>>
     \/ /\ handle[u] = "done" /\ Starts(t, <<"await", u>>)
        /\ handle' = [handle EXCEPT ![u] = "taken"]
        /\ op' = [op EXCEPT ![t] = Idle]
        /\ UNCHANGED <<pc, arg, why>>
     \/ /\ handle[u] = "running" /\ Mid(t, <<"await", u>>)
        /\ Call(t, "awaitRunning", u)
        /\ UNCHANGED <<handle, why, op, used>>
  /\ UNCHANGED <<sched, chans, asleep, outcome>>

\* The body has returned: manit_handle_complete stores the value ...
BodyReturns(t) ==
  /\ At(t, "run") /\ op[t] = Idle /\ t # Main
  /\ handle' = [handle EXCEPT ![t] = "done"]
  /\ Goto(t, "complete")
  /\ UNCHANGED <<sched, chans, arg, why, op, used, asleep, outcome>>

\* Mutant of CompleteWake: one awaiter is woken.
CompleteWakeOne(t) ==
  /\ At(t, "complete")
  /\ WakeOne(ablocked, t)
  /\ Goto(t, "leave")
  /\ UNCHANGED <<current, blocked, sblocked, liveTasks, chans, handle, arg, why,
                 op, used, asleep, outcome>>

\* ... then wakes every awaiter ...
CompleteWake(t) ==
  /\ At(t, "complete")
  /\ WakeAll(ablocked, t)
  /\ Goto(t, "leave")
  /\ UNCHANGED <<current, blocked, sblocked, liveTasks, chans, handle, arg, why,
                 op, used, asleep, outcome>>

\* ... and the trampoline takes the task off R and hands the baton on.
Leave(t) ==
  /\ At(t, "leave")
  /\ liveTasks' = liveTasks - 1
  /\ run' = Tail(run)
  /\ HandOff(t, run', blockedCount, ablocked, asleep, "gone")
  /\ UNCHANGED <<blocked, sblocked, ablocked, blockedCount, chans, handle, arg,
                 op, used, outcome>>

\* __task_main_done up to its wait; main stays in the loop while R is not empty.
MainDone(t) ==
  /\ At(t, "run") /\ op[t] = Idle /\ t = Main
  /\ run' = Tail(run)
  /\ HandOff(t, run', blockedCount, ablocked,
             IF run' = <<>> THEN asleep ELSE asleep \cup {t}, "quiesce")
  /\ UNCHANGED <<blocked, sblocked, ablocked, blockedCount, liveTasks, chans,
                 handle, arg, op, used, outcome>>

\* `while (manit_run_head != NULL)' in __task_main_done, then main returns and
\* the process exits.
Quiesced(t) ==
  /\ At(t, "quiesce") /\ t \notin asleep
  /\ IF run = <<>> THEN outcome' = "ended" /\ UNCHANGED asleep
     ELSE asleep' = asleep \cup {t} /\ UNCHANGED outcome
  /\ UNCHANGED <<sched, chans, handle, pc, arg, why, op, used>>

\* Any other trap of the task's own code.
BodyFault(t) ==
  /\ At(t, "run") /\ op[t] = Idle
  /\ Fault(t, "body")
  /\ UNCHANGED <<sched, chans, handle, arg, op, used, asleep, outcome>>

\* manit_fault: the process exits.
ManitFault(t) ==
  /\ At(t, "faulting")
  /\ outcome' = why[t]
  /\ UNCHANGED <<sched, chans, handle, pc, arg, why, op, used, asleep>>

Step(t) ==
  \/ CheckBaton(t)
  \/ BlockOn(t)
  \/ \E c \in Chans, k \in Caps : ChannelNew(t, c, k)
  \/ \E c \in Chans : Send(t, c)
  \/ SendWake(t)
  \/ \E c \in Chans : Recv(t, c)
  \/ RecvWake(t)
  \/ \E c \in Chans : Close(t, c)
  \/ CloseWakeRecv(t)
  \/ CloseWakeSend(t)
  \/ \E u \in Tasks : TaskSpawn(t, u)
  \/ PthreadCreate(t)
  \/ TaskYield(t)
  \/ \E u \in Tasks : TaskAwait(t, u)
  \/ BodyReturns(t)
  \/ CompleteWake(t)
  \/ Leave(t)
  \/ MainDone(t)
  \/ Quiesced(t)
  \/ BodyFault(t)
  \/ ManitFault(t)

Next == \E t \in Tasks : Step(t) \/ SpuriousWake(t)

Spec == Init /\ [][Next]_vars

\* The operating system runs every thread that can run.
FairSpec == Spec /\ \A t \in Tasks : WF_vars(Step(t))

-----------------------------------------------------------------------------

Faults == {"await", "fill", "closed", "taken", "create", "body"}

\* Where a thread may be only while it holds the baton.
Holding == {"run", "create", "sendFull", "recvEmpty", "awaitRunning",
            "sendWake", "recvWake", "closeRecv", "closeSend", "complete",
            "leave"}

Places == Holding \cup {"unborn", "queued", "start", "wait", "quiesce", "faulting", "gone"}

\* Every variable keeps its type.
TypeOK ==
  /\ run \in Seq(Tasks) /\ current \in Tasks \cup {Nobody}
  /\ blocked \in [Chans -> Seq(Tasks)]
  /\ sblocked \in [Chans -> Seq(Tasks)]
  /\ ablocked \in [Tasks -> Seq(Tasks)]
  /\ blockedCount \in Nat /\ liveTasks \in Nat
  /\ queue \in [Chans -> Nat]
  /\ cap \in [Chans -> Caps \cup {None}]
  /\ closed \subseteq Chans
  /\ handle \in [Tasks -> {"none", "running", "done", "taken"}]
  /\ pc \in [Tasks -> Places]
  /\ arg \in [Tasks -> Tasks \cup Chans \cup {Nobody}]
  /\ why \in [Tasks -> Faults \cup {"none"}]
  /\ op \in [Tasks -> Ops]
  /\ used \in [Tasks -> 0..MaxOps]
  /\ asleep \subseteq Tasks
  /\ outcome \in Faults \cup {"running", "ended"}

\* "Exactly one task holds the baton": a thread outside the waiting loops is
\* manit_current and the head of R, however the operating system schedules.
OnlyBatonRuns ==
  \A t \in Tasks :
    pc[t] \in Holding => current = t /\ run # <<>> /\ Head(run) = t

\* manit_blocked_count is the number of tasks on the waiting queues: a count
\* that drifted would turn the normal end into a deadlock or the reverse.
Waiters ==
  {<<"recv", c, i>> : c \in Chans, i \in 1..Cardinality(Tasks)}
    \cup {<<"send", c, i>> : c \in Chans, i \in 1..Cardinality(Tasks)}
    \cup {<<"await", u, i>> : u \in Tasks, i \in 1..Cardinality(Tasks)}

BlockedCountExact ==
  blockedCount =
    Cardinality({w \in Waiters : w[3] \in DOMAIN
      (IF w[1] = "recv" THEN blocked[w[2]]
       ELSE IF w[1] = "send" THEN sblocked[w[2]] ELSE ablocked[w[2]])})

\* A region may reclaim memory when manit_live_tasks is 1, so a task whose own
\* code sees 1 is the only one there is: none is blocked, queued or unstarted.
LiveCountSafe ==
  \A t \in Tasks :
    pc[t] = "run" /\ liveTasks = 1 =>
      \A u \in Tasks \ {t} : pc[u] \in {"unborn", "gone", "quiesce"}

\* The two counters kept by hand are right.
CountersRight == TypeOK /\ BlockedCountExact /\ LiveCountSafe

\* The process ends, and a deadlock is reported rather than suffered.
ProcessEnds == <>(outcome # "running")

-----------------------------------------------------------------------------
(* The runtime implements CoopSched.  A wake-up that is still to come is   *)
(* shown as done, and a task whose body has returned as already off R.     *)

runBar ==
  IF current = Nobody THEN run
  ELSE LET c == arg[current]
           One(q) == IF q = <<>> THEN run ELSE Append(run, Head(q))
       IN CASE pc[current] = "sendWake" -> One(blocked[c])
            [] pc[current] = "recvWake" -> One(sblocked[c])
            [] pc[current] = "closeRecv" -> run \o blocked[c] \o sblocked[c]
            [] pc[current] = "closeSend" -> run \o sblocked[c]
            [] pc[current] = "complete" -> Tail(run) \o ablocked[current]
            [] pc[current] = "leave" -> Tail(run)
            [] OTHER -> run

\* Waiting queue w without the tasks that the wake-up due at one of the given
\* places will move.
After(w, one, all) ==
  [x \in DOMAIN w |->
     IF current = Nobody THEN w[x]
     ELSE IF pc[current] \in all /\ x = arg[current] THEN <<>>
     ELSE IF pc[current] = one /\ x = arg[current] /\ w[x] # <<>>
     THEN Tail(w[x]) ELSE w[x]]

blockedBar == After(blocked, "sendWake", {"closeRecv"})
sblockedBar == After(sblocked, "recvWake", {"closeRecv", "closeSend"})
ablockedBar ==
  [u \in Tasks |-> IF pc[u] = "complete" THEN <<>> ELSE ablocked[u]]

tstateBar ==
  [t \in Tasks |->
     IF t = Main
     THEN IF t \in Range(run) \cup UNION {Range(w) : w \in
               {blocked[c] : c \in Chans} \cup {sblocked[c] : c \in Chans}
                 \cup {ablocked[u] : u \in Tasks}} THEN "running" ELSE "done"
     ELSE IF handle[t] = "none" THEN "unborn" ELSE handle[t]]

Abstract == INSTANCE CoopSched
              WITH run <- runBar, blocked <- blockedBar, sblocked <- sblockedBar,
                   ablocked <- ablockedBar, tstate <- tstateBar

\* How the program has ended as CoopSched sees it: R empty is the end, and
\* every other way out is a trap.
outcomeBar ==
  IF outcome \in {"closed", "taken", "create", "body"} THEN "trap"
  ELSE Abstract!Ending(runBar, blockedBar, sblockedBar, ablockedBar)

Coop == INSTANCE CoopSched
          WITH run <- runBar, blocked <- blockedBar, sblocked <- sblockedBar,
               ablocked <- ablockedBar, tstate <- tstateBar,
               outcome <- outcomeBar

\* Every step of a thread is a step CoopSched allows the head of R, or one that
\* changes nothing it can see.
ImplementsCoop == Coop!Spec

\* The process reports the end CoopSched defines: the status of a normal end
\* when R and B are empty, a deadlock when only R is ("the process exits when R
\* is empty, or traps if B is not").
ReportsTheEnd ==
  /\ outcome = "ended" => outcomeBar = "ended"
  /\ outcome \in {"await", "fill"} => outcomeBar = "deadlock"

=============================================================================
