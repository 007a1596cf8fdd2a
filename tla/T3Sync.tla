-------------------------------- MODULE T3Sync --------------------------------
(***************************************************************************)
(* Mutex, Semaphore and Barrier of the T3 emulator: syscalls 109 to 121 of *)
(* src/codegen_t3/emulator/syscall_proc.rs.  A syscall is one step.  A     *)
(* blocked task re-executes its syscall from the start (sched_block_on     *)
(* rewinds the pc), and nothing blocks until the first spawn has set       *)
(* Sched::active.                                                          *)
(***************************************************************************)
EXTENDS SyncContract

CONSTANT Early   \* TRUE: main may use the objects before it first spawns

VARIABLES run, blocked,       \* Sched::run; per object, Sched::blocked
          active,             \* Sched::active
          holder,             \* HeapObj::Mutex
          permits,            \* HeapObj::Semaphore
          arrived, releases,  \* HeapObj::Barrier
          redo,               \* per task, the syscall its pc was rewound to
          spawned, used,      \* tasks so far; operations begun, up to MaxOps
          outcome

vars == <<seen, run, blocked, active, holder, permits, arrived, releases, redo,
          spawned, used, outcome>>

Nobody == "nobody"

Init ==
  /\ SeenInit
  /\ run = <<Main>>
  /\ blocked = [o \in Objects |-> <<>>]
  /\ active = FALSE
  /\ holder = Nobody /\ permits = Permits
  /\ arrived = 0 /\ releases = 0
  /\ redo = [t \in Tasks |-> "idle"]
  /\ spawned = {Main}
  /\ used = [t \in Tasks |-> 0]
  /\ outcome = "running"

At(t, o) == outcome = "running" /\ Head(run) = t /\ redo[t] = o
Uses(t) == At(t, "idle") /\ (active \/ Early)
Begins(t) == used[t] < MaxOps /\ used' = [used EXCEPT ![t] = @ + 1]

\* The syscall on object o at t's pc: a new one, or the one it was rewound to.
Starts(t, o) == (Uses(t) /\ Begins(t)) \/ (At(t, o) /\ UNCHANGED used)

Done(t) == redo' = [redo EXCEPT ![t] = "idle"]

EndIfEmpty(r, b) ==
  outcome' = IF r # <<>> THEN "running"
             ELSE IF \E o \in Objects : b[o] # <<>> THEN "deadlock" ELSE "ended"

\* sched_block_on.
BlockOn(t, o) ==
  /\ run' = Tail(run)
  /\ blocked' = [blocked EXCEPT ![o] = Append(@, t)]
  /\ redo' = [redo EXCEPT ![t] = o]
  /\ EndIfEmpty(run', blocked')

\* Mutant of Wake: nobody is woken.
WakeNobody(o, n) == UNCHANGED <<run, blocked>>

\* sched_wake_one, n times; nothing is blocked while inactive.
Wake(o, n) ==
  LET k == IF n < Len(blocked[o]) THEN n ELSE Len(blocked[o])
  IN /\ run' = run \o SubSeq(blocked[o], 1, k)
     /\ blocked' = [blocked EXCEPT ![o] = SubSeq(@, k + 1, Len(@))]

-----------------------------------------------------------------------------

\* 80
Fork(t, u) ==
  /\ At(t, "idle") /\ Begins(t) /\ u \notin spawned
  /\ spawned' = spawned \cup {u}
  /\ active' = TRUE
  /\ run' = Append(run, u)
  /\ UNCHANGED <<seen, blocked, holder, permits, arrived, releases, redo,
                 outcome>>

\* 81
Yield(t) ==
  /\ At(t, "idle") /\ Begins(t)
  /\ run' = IF active THEN Append(Tail(run), t) ELSE run
  /\ UNCHANGED <<seen, blocked, active, holder, permits, arrived, releases, redo,
                 spawned, outcome>>

\* 110: the holder is recorded whether or not anything is scheduled.
MutexLock(t) ==
  /\ Starts(t, "mutex")
  /\ IF holder # Nobody /\ active
     THEN BlockOn(t, "mutex") /\ UNCHANGED <<holder, holders>>
     ELSE /\ holder' = t /\ holders' = holders \cup {t}
          /\ Done(t) /\ UNCHANGED <<run, blocked, outcome>>
  /\ UNCHANGED <<taken, begun, passed, leads, active, permits, arrived, releases,
                 spawned>>

\* 113.  A program unlocks only what it has locked.
MutexUnlock(t) ==
  /\ Uses(t) /\ t \in holders
  /\ holder' = Nobody /\ holders' = holders \ {t}
  /\ Wake("mutex", 1)
  /\ UNCHANGED <<taken, begun, passed, leads, active, permits, arrived, releases,
                 redo, spawned, used, outcome>>

\* 120
SemaphoreAcquire(t) ==
  /\ Starts(t, "semaphore")
  /\ IF permits <= 0 /\ active
     THEN BlockOn(t, "semaphore") /\ UNCHANGED <<permits, taken>>
     ELSE /\ permits' = IF permits > 0 THEN permits - 1 ELSE permits
          /\ taken' = [taken EXCEPT ![t] = @ + 1]
          /\ Done(t) /\ UNCHANGED <<run, blocked, outcome>>
  /\ UNCHANGED <<holders, begun, passed, leads, active, holder, arrived, releases,
                 spawned>>

\* 121
SemaphoreRelease(t) ==
  /\ Uses(t) /\ taken[t] > 0
  /\ permits' = permits + 1
  /\ taken' = [taken EXCEPT ![t] = @ - 1]
  /\ Wake("semaphore", 1)
  /\ UNCHANGED <<holders, begun, passed, leads, active, holder, arrived, releases,
                 redo, spawned, used, outcome>>

LastToArrive == arrived + 1 >= Parties

\* t calls, or re-executes, syscall 118.
Arrives(t) ==
  \/ Uses(t) /\ begun[t] < Rounds /\ begun' = [begun EXCEPT ![t] = @ + 1]
  \/ At(t, "barrier") /\ UNCHANGED begun

\* 118 with a release pending: taken for a task the leader let through.
BarrierReleased(t) ==
  /\ Arrives(t) /\ active /\ releases > 0
  /\ releases' = releases - 1
  /\ passed' = [passed EXCEPT ![t] = @ + 1]
  /\ Done(t)
  /\ UNCHANGED <<holders, taken, leads, run, blocked, active, holder, permits,
                 arrived, spawned, used, outcome>>

\* 118 of the last to arrive.
BarrierLead(t) ==
  /\ Arrives(t) /\ (~active \/ releases = 0)
  /\ LastToArrive
  /\ arrived' = 0
  /\ releases' = IF active THEN Parties - 1 ELSE releases
  /\ IF active THEN Wake("barrier", Parties - 1) ELSE UNCHANGED <<run, blocked>>
  /\ passed' = [passed EXCEPT ![t] = @ + 1]
  /\ leads' = leads + 1
  /\ Done(t)
  /\ UNCHANGED <<holders, taken, active, holder, permits, spawned, used, outcome>>

\* 118 of any other: block on the gate, or pass it while nothing is scheduled.
BarrierWait(t) ==
  /\ Arrives(t) /\ (~active \/ releases = 0)
  /\ ~LastToArrive
  /\ arrived' = arrived + 1
  /\ IF active
     THEN BlockOn(t, "barrier") /\ UNCHANGED passed
     ELSE /\ passed' = [passed EXCEPT ![t] = @ + 1]
          /\ Done(t) /\ UNCHANGED <<run, blocked, outcome>>
  /\ UNCHANGED <<holders, taken, leads, active, holder, permits, releases, spawned,
                 used>>

Exit(t) ==
  /\ At(t, "idle")
  /\ run' = Tail(run)
  /\ EndIfEmpty(run', blocked)
  /\ UNCHANGED <<seen, blocked, active, holder, permits, arrived, releases, redo,
                 spawned, used>>

Next ==
  \E t \in Tasks :
    \/ \E u \in Tasks : Fork(t, u)
    \/ Yield(t)
    \/ MutexLock(t)
    \/ MutexUnlock(t)
    \/ SemaphoreAcquire(t)
    \/ SemaphoreRelease(t)
    \/ BarrierReleased(t)
    \/ BarrierLead(t)
    \/ BarrierWait(t)
    \/ Exit(t)

Spec == Init /\ [][Next]_vars

-----------------------------------------------------------------------------

\* Every variable keeps its type.
TypeOK ==
  /\ SeenTypeOK
  /\ run \in Seq(Tasks)
  /\ blocked \in [Objects -> Seq(Tasks)]
  /\ active \in BOOLEAN
  /\ holder \in Tasks \cup {Nobody} /\ permits \in Nat
  /\ arrived \in 0..(Parties - 1) /\ releases \in 0..(Parties - 1)
  /\ redo \in [Tasks -> Objects \cup {"idle"}]
  /\ spawned \subseteq Tasks
  /\ used \in [Tasks -> 0..MaxOps]
  /\ outcome \in {"running", "ended", "deadlock"}

Woken(o) == {t \in Range(run) : redo[t] = o}

\* A task waits only while what it waits for is absent, or is spoken for by a
\* task already woken.
NoStrandedWaiter ==
  /\ blocked["mutex"] # <<>> => holder # Nobody \/ Woken("mutex") # {}
  /\ blocked["semaphore"] # <<>> => permits <= Cardinality(Woken("semaphore"))
  /\ blocked["barrier"] # <<>> => releases <= Cardinality(Woken("barrier"))

=============================================================================
