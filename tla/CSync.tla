-------------------------------- MODULE CSync --------------------------------
(***************************************************************************)
(* Mutex, Semaphore and Barrier of the C runtime under the cooperative     *)
(* scheduler: src/runtime/sync.c.  The task at the head of run holds the   *)
(* baton from one scheduling point to the next (CSched, OnlyBatonRuns), so *)
(* an operation up to its return or its block is one step here.            *)
(***************************************************************************)
EXTENDS SyncContract

VARIABLES run, waiters,       \* R; per object, its waiters
          held,               \* ManitMutex held
          permits,            \* ManitSemaphore permits
          arrived, releases,  \* ManitBarrier
          op,                 \* per task, the object whose loop it is in
          spawned, used,      \* tasks so far; operations begun, up to MaxOps
          outcome

vars == <<seen, run, waiters, held, permits, arrived, releases, op, spawned,
          used, outcome>>

Init ==
  /\ SeenInit
  /\ run = <<Main>>
  /\ waiters = [o \in Objects |-> <<>>]
  /\ held = FALSE /\ permits = Permits
  /\ arrived = 0 /\ releases = 0
  /\ op = [t \in Tasks |-> "idle"]
  /\ spawned = {Main}
  /\ used = [t \in Tasks |-> 0]
  /\ outcome = "running"

At(t, o) == outcome = "running" /\ Head(run) = t /\ op[t] = o
Begins(t) == At(t, "idle") /\ used[t] < MaxOps /\ used' = [used EXCEPT ![t] = @ + 1]

\* t is at the test of object o's loop, for the first time or woken.
Starts(t, o) == Begins(t) \/ (At(t, o) /\ UNCHANGED used)

Done(t) == op' = [op EXCEPT ![t] = "idle"]

\* R has become r: go on, or end with the waiting queues w.
EndIfEmpty(r, w) ==
  outcome' = IF r # <<>> THEN "running"
             ELSE IF \E o \in Objects : w[o] # <<>> THEN "deadlock" ELSE "ended"

\* manit_sched_block_on.
BlockOn(t, o) ==
  /\ run' = Tail(run)
  /\ waiters' = [waiters EXCEPT ![o] = Append(@, t)]
  /\ op' = [op EXCEPT ![t] = o]
  /\ EndIfEmpty(run', waiters')

\* Mutant of Wake: nobody is woken.
WakeNobody(o, n) == UNCHANGED <<run, waiters>>

\* manit_sched_wake_one, n times.
Wake(o, n) ==
  LET k == IF n < Len(waiters[o]) THEN n ELSE Len(waiters[o])
  IN /\ run' = run \o SubSeq(waiters[o], 1, k)
     /\ waiters' = [waiters EXCEPT ![o] = SubSeq(@, k + 1, Len(@))]

-----------------------------------------------------------------------------

Spawn(t, u) ==
  /\ Begins(t) /\ u \notin spawned
  /\ spawned' = spawned \cup {u}
  /\ run' = Append(run, u)
  /\ UNCHANGED <<seen, waiters, held, permits, arrived, releases, op, outcome>>

Yield(t) ==
  /\ Begins(t)
  /\ run' = Append(Tail(run), t)
  /\ UNCHANGED <<seen, waiters, held, permits, arrived, releases, op, spawned,
                 outcome>>

MutexLock(t) ==
  /\ Starts(t, "mutex")
  /\ IF held
     THEN BlockOn(t, "mutex") /\ UNCHANGED <<held, holders>>
     ELSE /\ held' = TRUE /\ holders' = holders \cup {t}
          /\ Done(t) /\ UNCHANGED <<run, waiters, outcome>>
  /\ UNCHANGED <<taken, begun, passed, leads, permits, arrived, releases, spawned>>

\* A program unlocks only what it has locked.
MutexUnlock(t) ==
  /\ At(t, "idle") /\ t \in holders
  /\ held' = FALSE /\ holders' = holders \ {t}
  /\ Wake("mutex", 1)
  /\ UNCHANGED <<taken, begun, passed, leads, permits, arrived, releases, op,
                 spawned, used, outcome>>

\* Mutant of SemaphoreAcquire: `if' for `while'.
SemaphoreAcquireOnce(t) ==
  /\ Starts(t, "semaphore")
  /\ IF permits <= 0 /\ op[t] = "idle"
     THEN BlockOn(t, "semaphore") /\ UNCHANGED <<permits, taken>>
     ELSE /\ permits' = permits - 1 /\ taken' = [taken EXCEPT ![t] = @ + 1]
          /\ Done(t) /\ UNCHANGED <<run, waiters, outcome>>
  /\ UNCHANGED <<holders, begun, passed, leads, held, arrived, releases, spawned>>

SemaphoreAcquire(t) ==
  /\ Starts(t, "semaphore")
  /\ IF permits <= 0
     THEN BlockOn(t, "semaphore") /\ UNCHANGED <<permits, taken>>
     ELSE /\ permits' = permits - 1 /\ taken' = [taken EXCEPT ![t] = @ + 1]
          /\ Done(t) /\ UNCHANGED <<run, waiters, outcome>>
  /\ UNCHANGED <<holders, begun, passed, leads, held, arrived, releases, spawned>>

SemaphoreTryAcquire(t) ==
  /\ Begins(t) /\ permits > 0
  /\ permits' = permits - 1
  /\ taken' = [taken EXCEPT ![t] = @ + 1]
  /\ UNCHANGED <<holders, begun, passed, leads, run, waiters, held, arrived,
                 releases, op, spawned, outcome>>

SemaphoreRelease(t) ==
  /\ At(t, "idle") /\ taken[t] > 0
  /\ permits' = permits + 1
  /\ taken' = [taken EXCEPT ![t] = @ - 1]
  /\ Wake("semaphore", 1)
  /\ UNCHANGED <<holders, begun, passed, leads, held, arrived, releases, op,
                 spawned, used, outcome>>

LastToArrive == arrived + 1 >= Parties

\* Barrier_wait of the last to arrive.
BarrierLead(t) ==
  /\ At(t, "idle") /\ begun[t] < Rounds
  /\ LastToArrive
  /\ begun' = [begun EXCEPT ![t] = @ + 1]
  /\ arrived' = 0 /\ releases' = Parties - 1
  /\ Wake("barrier", Parties - 1)
  /\ passed' = [passed EXCEPT ![t] = @ + 1]
  /\ leads' = leads + 1
  /\ UNCHANGED <<holders, taken, held, permits, op, spawned, used, outcome>>

\* Barrier_wait of the others, on arrival and each time it is woken.
BarrierWait(t) ==
  /\ \/ /\ At(t, "idle") /\ begun[t] < Rounds
        /\ ~LastToArrive
        /\ begun' = [begun EXCEPT ![t] = @ + 1]
        /\ arrived' = arrived + 1
     \/ At(t, "barrier") /\ UNCHANGED <<begun, arrived>>
  /\ IF releases = 0
     THEN BlockOn(t, "barrier") /\ UNCHANGED <<releases, passed>>
     ELSE /\ releases' = releases - 1
          /\ passed' = [passed EXCEPT ![t] = @ + 1]
          /\ Done(t) /\ UNCHANGED <<run, waiters, outcome>>
  /\ UNCHANGED <<holders, taken, leads, held, permits, spawned, used>>

Exit(t) ==
  /\ At(t, "idle")
  /\ run' = Tail(run)
  /\ EndIfEmpty(run', waiters)
  /\ UNCHANGED <<seen, waiters, held, permits, arrived, releases, op, spawned,
                 used>>

Next ==
  \E t \in Tasks :
    \/ \E u \in Tasks : Spawn(t, u)
    \/ Yield(t)
    \/ MutexLock(t)
    \/ MutexUnlock(t)
    \/ SemaphoreAcquire(t)
    \/ SemaphoreTryAcquire(t)
    \/ SemaphoreRelease(t)
    \/ BarrierLead(t)
    \/ BarrierWait(t)
    \/ Exit(t)

Spec == Init /\ [][Next]_vars

-----------------------------------------------------------------------------

\* Every variable keeps its type.
TypeOK ==
  /\ SeenTypeOK
  /\ run \in Seq(Tasks)
  /\ waiters \in [Objects -> Seq(Tasks)]
  /\ held \in BOOLEAN /\ permits \in Nat
  /\ arrived \in 0..(Parties - 1) /\ releases \in 0..(Parties - 1)
  /\ op \in [Tasks -> Objects \cup {"idle"}]
  /\ spawned \subseteq Tasks
  /\ used \in [Tasks -> 0..MaxOps]
  /\ outcome \in {"running", "ended", "deadlock"}

Woken(o) == {t \in Range(run) : op[t] = o}

\* A task waits only while what it waits for is absent, or is spoken for by a
\* task already woken; a barrier's waiters only while a party is missing or a
\* task has overtaken them at the gate.
NoStrandedWaiter ==
  /\ waiters["mutex"] # <<>> => held \/ Woken("mutex") # {}
  /\ waiters["semaphore"] # <<>> => permits <= Cardinality(Woken("semaphore"))
  /\ waiters["barrier"] # <<>> => releases <= Cardinality(Woken("barrier"))

=============================================================================
