------------------------------- MODULE T3Sched -------------------------------
(***************************************************************************)
(* The scheduler of the T3 emulator, src/codegen_t3/emulator/sched.rs, with*)
(* the channel and task syscalls of syscall_proc.rs that drive it.  The    *)
(* emulator is one thread: a syscall is one step.  What can go wrong is    *)
(* which task's context is in the machine: registers, pc and live stack    *)
(* are swapped between live and saved, and a context carries in `of' the   *)
(* task it belongs to, in `redo' the blocking syscall its pc was rewound   *)
(* to (Idle when the pc stands past it).                                   *)
(***************************************************************************)
EXTENDS Integers, Sequences, FiniteSets, Functions

CONSTANTS Tasks, Main, Chans, Caps,
          Uses,    \* the optional features the program uses: see Features
          MaxOps   \* bound: operations one task starts before it can only end

\* try_recv: syscall 108; return: a `return' statement inside a spawned block
\* of main, which compiles to RET with the empty call stack it was forked with.
Features == {"try_recv", "return"}

ASSUME T3Assumption ==
  /\ Main \in Tasks /\ IsFiniteSet(Tasks)
  /\ Caps \subseteq Nat
  /\ Uses \subseteq Features
  /\ MaxOps \in Nat

VARIABLES run, blocked, sblocked, ablocked,  \* Sched's four queues of tasks
          obj, queue, chanCap,  \* HeapObj kind, its length, chan_cap (0: absent)
          tstate,               \* Sched::tstate
          saved, live,          \* Sched::saved; the machine's own state
          active, mainExit,     \* Sched::active, main_exit
          halted, trap, status, \* Emulator: halted, the trap, R1 at the end
          strayed,              \* has the program used one of the Features?
          used

queues == <<run, blocked, sblocked, ablocked>>
chans == <<obj, queue, chanCap>>
mode == <<active, strayed>>
ending == <<mainExit, halted, trap, status>>
vars == <<queues, chans, tstate, saved, live, mode, ending, used>>

Nobody == "nobody"
ASSUME NobodyIsNoTask == Nobody \notin Tasks

Idle == <<"idle">>
Queues == ({"send", "recv"} \X Chans) \cup ({"await"} \X Tasks)
Ops == {Idle} \cup Queues
Context == [of : Tasks, redo : Ops]
Gone == [of |-> Nobody]

-----------------------------------------------------------------------------

\* The syscall at the machine's pc: a new one, or the one it was rewound to.
Begins ==
  /\ ~halted /\ live.redo = Idle /\ used[live.of] < MaxOps
  /\ used' = [used EXCEPT ![live.of] = @ + 1]

Starts(o) == Begins \/ (~halted /\ live.redo = o /\ UNCHANGED used)

Done == live' = [live EXCEPT !.redo = Idle]

Me == Head(run)
WakeOne(r, q) == IF active /\ q # <<>> THEN Append(r, Head(q)) ELSE r
Rest(q) == IF active /\ q # <<>> THEN Tail(q) ELSE q

\* Mutant of Restore: the context also stays in saved.
RestoreCopies(s, r, here) ==
  /\ live' = IF r # <<>> /\ s[Head(r)] # Gone THEN s[Head(r)] ELSE here
  /\ saved' = s

\* restore: the saved context of the new head of R becomes the machine's.
Restore(s, r, here) ==
  IF r # <<>> /\ s[Head(r)] # Gone
  THEN /\ live' = s[Head(r)]
       /\ saved' = [s EXCEPT ![Head(r)] = Gone]
  ELSE live' = here /\ saved' = s

\* switch_if_needed: nothing at all when the head of R is still `was'.
SwitchIfNeeded(was, r) ==
  IF Head(r) = was THEN live' = [live EXCEPT !.redo = Idle] /\ UNCHANGED saved
  ELSE Restore([saved EXCEPT ![was] = [live EXCEPT !.redo = Idle]], r, live)

\* Mutant of EndOfProgram: the last task's status is the program's.
EndOfProgramLastStatus(b, s, a, exit, r1) ==
  /\ halted' = TRUE /\ status' = r1
  /\ trap' = IF \E u \in Tasks : a[u] # <<>> THEN "await"
             ELSE IF \E c \in Chans : s[c] # <<>> THEN "drain"
             ELSE IF \E c \in Chans : b[c] # <<>> THEN "fill" ELSE trap

\* end_of_program when R has emptied: name the wait, or halt with main's status.
EndOfProgram(b, s, a, exit, r1) ==
  /\ halted' = TRUE
  /\ trap' = IF \E u \in Tasks : a[u] # <<>> THEN "await"
             ELSE IF \E c \in Chans : s[c] # <<>> THEN "drain"
             ELSE IF \E c \in Chans : b[c] # <<>> THEN "fill" ELSE trap
  /\ status' = IF trap' = trap /\ exit # Nobody THEN exit ELSE r1

\* Mutant of BlockOn: the pc is not rewound to the syscall.
BlockOnPast(o, b, s, a) ==
  /\ run' = Tail(run)
  /\ IF run' = <<>>
     THEN EndOfProgram(b, s, a, mainExit, live.of) /\ UNCHANGED <<saved, live>>
     ELSE /\ Restore([saved EXCEPT ![Me] = [live EXCEPT !.redo = Idle]], run', live)
          /\ UNCHANGED <<halted, trap, status>>
  /\ UNCHANGED <<chans, tstate, mode, mainExit>>

\* The running task leaves R with its syscall still in front of it; b, s and a
\* are the waiting queues after it has joined one.
BlockOn(o, b, s, a) ==
  /\ run' = Tail(run)
  /\ IF run' = <<>>
     THEN EndOfProgram(b, s, a, mainExit, live.of) /\ UNCHANGED <<saved, live>>
     ELSE /\ Restore([saved EXCEPT ![Me] = [live EXCEPT !.redo = o]], run', live)
          /\ UNCHANGED <<halted, trap, status>>
  /\ UNCHANGED <<chans, tstate, mode, mainExit>>

TrapWith(why) ==
  /\ ~halted
  /\ halted' = TRUE /\ trap' = why
  /\ UNCHANGED <<queues, chans, tstate, saved, live, mode, mainExit, status,
                 used>>

Init ==
  /\ run = <<Main>>
  /\ blocked = [c \in Chans |-> <<>>]
  /\ sblocked = [c \in Chans |-> <<>>]
  /\ ablocked = [t \in Tasks |-> <<>>]
  /\ obj = [c \in Chans |-> "none"]
  /\ queue = [c \in Chans |-> 0]
  /\ chanCap = [c \in Chans |-> 0]
  /\ tstate = [t \in Tasks |-> "none"]
  /\ saved = [t \in Tasks |-> Gone]
  /\ live = [of |-> Main, redo |-> Idle]
  /\ active = FALSE
  /\ mainExit = Nobody
  /\ halted = FALSE
  /\ strayed = FALSE
  /\ trap = "none"
  /\ status = Nobody
  /\ used = [t \in Tasks |-> 0]

-----------------------------------------------------------------------------
(* Channels: syscalls 70, 137, 71, 72, 74 and 108.                         *)

\* 70 and 137.
ChannelNew(c, k) ==
  /\ ~halted /\ live.redo = Idle /\ obj[c] = "none"
  /\ obj' = [obj EXCEPT ![c] = "open"]
  /\ chanCap' = [chanCap EXCEPT ![c] = k]
  /\ UNCHANGED <<queues, queue, tstate, saved, live, mode, ending, used>>

Full(c) == obj[c] = "open" /\ chanCap[c] > 0 /\ queue[c] >= chanCap[c]

SendPush(c) ==
  /\ Starts(<<"send", c>>) /\ obj[c] = "open" /\ ~Full(c)
  /\ queue' = [queue EXCEPT ![c] = @ + 1]
  /\ run' = WakeOne(run, blocked[c])
  /\ blocked' = [blocked EXCEPT ![c] = Rest(@)]
  /\ Done
  /\ UNCHANGED <<sblocked, ablocked, obj, chanCap, tstate, saved, mode, ending>>

SendBlock(c) ==
  /\ Starts(<<"send", c>>) /\ Full(c) /\ active
  /\ sblocked' = [sblocked EXCEPT ![c] = Append(@, Me)]
  /\ BlockOn(<<"send", c>>, blocked, sblocked', ablocked)
  /\ UNCHANGED <<blocked, ablocked>>

SendTrap(c) ==
  /\ live.redo \in {Idle, <<"send", c>>}
  /\ \/ obj[c] = "closed" /\ TrapWith("closed")
     \/ Full(c) /\ ~active /\ TrapWith("unscheduled")

RecvTake(c) ==
  /\ Starts(<<"recv", c>>) /\ obj[c] # "none" /\ queue[c] > 0
  /\ queue' = [queue EXCEPT ![c] = @ - 1]
  /\ run' = WakeOne(run, sblocked[c])
  /\ sblocked' = [sblocked EXCEPT ![c] = Rest(@)]
  /\ Done
  /\ UNCHANGED <<blocked, ablocked, obj, chanCap, tstate, saved, mode, ending>>

RecvClosed(c) ==
  /\ Starts(<<"recv", c>>) /\ obj[c] = "closed" /\ queue[c] = 0
  /\ run' = WakeOne(run, sblocked[c])
  /\ sblocked' = [sblocked EXCEPT ![c] = Rest(@)]
  /\ Done
  /\ UNCHANGED <<blocked, ablocked, chans, tstate, saved, mode, ending>>

RecvBlock(c) ==
  /\ Starts(<<"recv", c>>) /\ obj[c] = "open" /\ queue[c] = 0 /\ active
  /\ blocked' = [blocked EXCEPT ![c] = Append(@, Me)]
  /\ BlockOn(<<"recv", c>>, blocked', sblocked, ablocked)
  /\ UNCHANGED <<sblocked, ablocked>>

RecvTrap(c) ==
  /\ live.redo = Idle /\ obj[c] = "open" /\ queue[c] = 0 /\ ~active
  /\ TrapWith("unscheduled")

\* 74: an open channel becomes a ClosedChannel; receivers then senders wake.
Close(c) ==
  /\ Begins /\ obj[c] # "none"
  /\ obj' = [obj EXCEPT ![c] = "closed"]
  /\ IF active
     THEN /\ run' = run \o blocked[c] \o sblocked[c]
          /\ blocked' = [blocked EXCEPT ![c] = <<>>]
          /\ sblocked' = [sblocked EXCEPT ![c] = <<>>]
     ELSE UNCHANGED <<run, blocked, sblocked>>
  /\ UNCHANGED <<ablocked, queue, chanCap, tstate, saved, live, mode, ending>>

\* 108: takes a value if there is one, and wakes nobody.
TryRecv(c) ==
  /\ "try_recv" \in Uses
  /\ Begins /\ obj[c] # "none"
  /\ queue' = [queue EXCEPT ![c] = IF @ > 0 THEN @ - 1 ELSE 0]
  /\ strayed' = TRUE
  /\ UNCHANGED <<queues, obj, chanCap, tstate, saved, live, active, ending>>

-----------------------------------------------------------------------------
(* Tasks: syscalls 80, 81, 82, 138 and 139.                                *)

\* 80: the child is a copy of the machine with R1 = 0.
Fork(u) ==
  /\ Begins /\ u # Main /\ tstate[u] = "none"
  /\ active' = TRUE
  /\ saved' = [saved EXCEPT ![u] = [of |-> u, redo |-> Idle]]
  /\ run' = Append(run, u)
  /\ tstate' = [tstate EXCEPT ![u] = "running"]
  /\ UNCHANGED <<blocked, sblocked, ablocked, chans, live, strayed, ending>>

\* 81
Yield ==
  /\ Begins
  /\ IF active
     THEN run' = Append(Tail(run), Me) /\ SwitchIfNeeded(Me, run')
     ELSE UNCHANGED <<run, saved, live>>
  /\ UNCHANGED <<blocked, sblocked, ablocked, chans, tstate, mode, ending>>

\* 138
AwaitTake(u) ==
  /\ Starts(<<"await", u>>) /\ tstate[u] = "done"
  /\ tstate' = [tstate EXCEPT ![u] = "taken"]
  /\ Done
  /\ UNCHANGED <<queues, chans, saved, mode, ending>>

AwaitBlock(u) ==
  /\ Starts(<<"await", u>>) /\ tstate[u] = "running"
  /\ ablocked' = [ablocked EXCEPT ![u] = Append(@, Me)]
  /\ BlockOn(<<"await", u>>, blocked, sblocked, ablocked')
  /\ UNCHANGED <<blocked, sblocked>>

AwaitTrap(u) ==
  /\ live.redo \in {Idle, <<"await", u>>} /\ tstate[u] = "taken"
  /\ TrapWith("taken")

\* sched_task_exit once the queues are r (R after the pop) and a.
TaskExit(r, a) ==
  /\ mainExit' = IF Me = Main THEN live.of ELSE mainExit
  /\ run' = r
  /\ IF r = <<>>
     THEN EndOfProgram(blocked, sblocked, a, mainExit', live.of)
          /\ UNCHANGED <<saved, live>>
     ELSE Restore(saved, r, live) /\ UNCHANGED <<halted, trap, status>>
  /\ UNCHANGED <<blocked, sblocked, chans, active, used>>

\* 139: (DONE-T), every awaiter wakes, then the task exits.
ExitValue ==
  /\ ~halted /\ live.redo = Idle /\ Me # Main
  /\ tstate' = [tstate EXCEPT ![Me] = "done"]
  /\ ablocked' = [ablocked EXCEPT ![Me] = <<>>]
  /\ TaskExit(Tail(run) \o ablocked[Me], ablocked')
  /\ UNCHANGED strayed

\* RET with an empty call stack, HALT or 82: main's way out, and that of a
\* `return' inside a spawned block.
ExitPlain ==
  /\ ~halted /\ live.redo = Idle
  /\ Me = Main \/ "return" \in Uses
  /\ strayed' = (strayed \/ Me # Main)
  /\ IF active
     THEN TaskExit(Tail(run), ablocked)
     ELSE /\ halted' = TRUE /\ status' = live.of
          /\ UNCHANGED <<run, blocked, sblocked, chans, saved, live, active,
                         mainExit, trap, used>>
  /\ UNCHANGED <<ablocked, tstate>>

\* Any other trap of the program: arithmetic, a capacity below 1 (137), ...
BodyTrap == live.redo = Idle /\ TrapWith("body")

Next ==
  \/ \E c \in Chans, k \in Caps : ChannelNew(c, k)
  \/ \E c \in Chans : SendPush(c)
  \/ \E c \in Chans : SendBlock(c)
  \/ \E c \in Chans : SendTrap(c)
  \/ \E c \in Chans : RecvTake(c)
  \/ \E c \in Chans : RecvClosed(c)
  \/ \E c \in Chans : RecvBlock(c)
  \/ \E c \in Chans : RecvTrap(c)
  \/ \E c \in Chans : Close(c)
  \/ \E c \in Chans : TryRecv(c)
  \/ \E u \in Tasks : Fork(u)
  \/ Yield
  \/ \E u \in Tasks : AwaitTake(u)
  \/ \E u \in Tasks : AwaitBlock(u)
  \/ \E u \in Tasks : AwaitTrap(u)
  \/ ExitValue
  \/ ExitPlain
  \/ BodyTrap

Spec == Init /\ [][Next]_vars

-----------------------------------------------------------------------------

\* Every variable keeps its type.
TypeOK ==
  /\ run \in Seq(Tasks)
  /\ blocked \in [Chans -> Seq(Tasks)]
  /\ sblocked \in [Chans -> Seq(Tasks)]
  /\ ablocked \in [Tasks -> Seq(Tasks)]
  /\ obj \in [Chans -> {"none", "open", "closed"}]
  /\ queue \in [Chans -> Nat]
  /\ chanCap \in [Chans -> Caps \cup {0}]
  /\ tstate \in [Tasks -> {"none", "running", "done", "taken"}]
  /\ saved \in [Tasks -> Context \cup {Gone}]
  /\ live \in Context
  /\ active \in BOOLEAN /\ halted \in BOOLEAN /\ strayed \in BOOLEAN
  /\ mainExit \in Tasks \cup {Nobody} /\ status \in Tasks \cup {Nobody}
  /\ trap \in {"none", "await", "drain", "fill", "closed", "unscheduled",
               "taken", "body"}
  /\ used \in [Tasks -> 0..MaxOps]

\* The waiting queues b, s and a as one family, indexed by the operation their
\* members will execute again.
WaitsIn(b, s, a) ==
  [o \in Queues |-> IF o[1] = "recv" THEN b[o[2]]
                    ELSE IF o[1] = "send" THEN s[o[2]] ELSE a[o[2]]]
W == WaitsIn(blocked, sblocked, ablocked)

Queued == Range(run) \cup {t \in Tasks : \E o \in Queues : t \in Range(W[o])}

\* The machine holds the context of the head of R and saved holds those of all
\* the other tasks that are queued, each under its own name: no syscall returns
\* its result into, or continues, another task (saved: "every task except the
\* running one").
ContextIsHead ==
  ~halted =>
    /\ run # <<>> /\ live.of = Head(run)
    /\ \A t \in Tasks :
         saved[t] # Gone <=> t \in Queued \ {Head(run)}
    /\ \A t \in Tasks : saved[t] # Gone => saved[t].of = t

\* live_task_count, by which a region decides whether it may release memory,
\* counts every task that has started and not finished.
LiveTaskCount ==
  Cardinality({t \in Tasks : saved[t] # Gone}) + (IF run = <<>> THEN 0 ELSE 1)

LiveCountExact == ~halted => LiveTaskCount = Cardinality(Queued)

\* The bookkeeping of contexts as one invariant.
ContextsInOrder == TypeOK /\ ContextIsHead /\ LiveCountExact

\* A program that ends normally exits with main's status, whichever task ended
\* last (end_of_program, main_exit).
StatusIsMains == halted /\ trap = "none" => status = Main

\* The deadlock message names the wait: "fill" only when nobody waits for room,
\* "drain" only when somebody does, and neither while a task is awaited.
MessageNamesWait ==
  /\ trap = "fill" => \A c \in Chans : sblocked[c] = <<>>
  /\ trap = "drain" => \E c \in Chans : sblocked[c] # <<>>
  /\ trap \in {"fill", "drain"} => \A u \in Tasks : ablocked[u] = <<>>

\* A send or receive that traps because nothing is scheduled gives the verdict
\* blocking would have given: no other task exists, now or queued.
UnscheduledIsAlone ==
  trap = "unscheduled" => run = <<Main>> /\ \A t \in Tasks : saved[t] = Gone

\* Whatever task was last and however it ended, what the program says of its end
\* is true: the status, the deadlock's message, the trap of the fast path.
EndReported == StatusIsMains /\ MessageNamesWait /\ UnscheduledIsAlone

-----------------------------------------------------------------------------
(* The emulator implements CoopSched.                                      *)

ended == halted /\ trap = "none"

runBar == IF ended THEN <<>> ELSE run

tstateBar ==
  [t \in Tasks |-> IF t = Main
                   THEN IF ~ended /\ t \in Queued THEN "running" ELSE "done"
                   ELSE IF tstate[t] = "none" THEN "unborn" ELSE tstate[t]]

\* The operation a task will execute again: that of the queue it waits in, or the
\* one its context was rewound to.
opIn(w, l, s) ==
  [t \in Tasks |->
     IF \E o \in Queues : t \in Range(w[o]) THEN CHOOSE o \in Queues : t \in Range(w[o])
     ELSE IF l.of = t THEN l.redo
     ELSE IF s[t] # Gone THEN s[t].redo ELSE Idle]
opBar == opIn(W, live, saved)

outcomeBar ==
  IF ~halted THEN "running"
  ELSE IF trap = "none" THEN "ended"
  ELSE IF trap \in {"await", "drain", "fill"} THEN "deadlock" ELSE "trap"

capBar == [c \in Chans |-> IF obj[c] = "none" THEN -1 ELSE chanCap[c]]
closedBar == {c \in Chans : obj[c] = "closed"}

Coop == INSTANCE CoopSched
          WITH run <- runBar, cap <- capBar, closed <- closedBar,
               tstate <- tstateBar, op <- opBar, outcome <- outcomeBar

\* Until the program uses one of the features, every syscall is a step CoopSched
\* allows the head of R.
ImplementsCoop ==
  Coop!Init /\ [][~strayed' => Coop!Next \/ UNCHANGED Coop!vars]_vars

=============================================================================
