----------------------------- MODULE T3Sched_proofs -----------------------------
(***************************************************************************)
(* The emulator's scheduler for any tasks, channels, capacities and number *)
(* of operations: contexts are never mixed up, what is said of the end of  *)
(* the program is true, and until the program uses try_recv or a return in *)
(* a spawned block every syscall is a step of CoopSched.                   *)
(***************************************************************************)
EXTENDS T3Sched, QueueLemmas

Parked(w) == ParkedBy(Tasks, Queues, w)

Contexts == [Tasks -> Context \cup {Gone}]

\* The operation each task will execute again, by its context: in the machine or
\* saved, or all saved.
Redo(l, s) ==
  [t \in Tasks |-> IF l.of = t THEN l.redo ELSE IF s[t] # Gone THEN s[t].redo ELSE Idle]
RedoSaved(s) == [t \in Tasks |-> IF s[t] # Gone THEN s[t].redo ELSE Idle]

\* s has the contexts of the tasks in who, each under its own name, and no other.
Kept(who, s) ==
  \A t \in Tasks : (s[t] # Gone <=> t \in who) /\ (s[t] # Gone => s[t].of = t)

\* With run queue r and waiting queues w, l is what the machine holds.
Holds(r, w, l, s) ==
  /\ r # <<>> /\ l.of = Head(r)
  /\ Kept((Range(r) \cup Parked(w)) \ {Head(r)}, s)

\* Nobody is in two places, a task that waits will execute the operation of its
\* queue again, and the machine holds the context of the head of R.
Standing ==
  /\ PlacedBy(Queues, run, W, Redo(live, saved))
  /\ Holds(run, W, live, saved)

\* Only what has been forked is queued; what there is to wait for is an open
\* channel and a task that has not finished.
Forked == \A t \in Tasks \ {Main} : t \in Queued => tstate[t] # "none"
Faced ==
  /\ \A c \in Chans : blocked[c] # <<>> \/ sblocked[c] # <<>> => obj[c] = "open"
  /\ \A u \in Tasks : ablocked[u] # <<>> => tstate[u] = "running"
  /\ tstate[Main] = "none"

\* Before the first fork there is main alone, and nothing it waits for.
Alone ==
  ~active => /\ run = <<Main>> /\ live.redo = Idle
             /\ \A o \in Queues : W[o] = <<>>
             /\ \A t \in Tasks : tstate[t] = "none"

\* main's status is kept once main is gone.
MainsEnd == mainExit \in {Nobody, Main} /\ (Main \in Queued \/ mainExit = Main)

Going == Standing /\ Forked /\ Faced /\ Alone /\ MainsEnd /\ trap = "none"

IInv == TypeOK /\ EndReported /\ (~halted => Going)

-----------------------------------------------------------------------------
(* The waiting queues as one family.                                       *)

LEMMA WaitsAre ==
  ASSUME NEW b \in [Chans -> Seq(Tasks)], NEW s \in [Chans -> Seq(Tasks)],
         NEW a \in [Tasks -> Seq(Tasks)]
  PROVE  /\ WaitsIn(b, s, a) \in [Queues -> Seq(Tasks)]
         /\ \A c \in Chans :
              /\ <<"recv", c>> \in Queues /\ WaitsIn(b, s, a)[<<"recv", c>>] = b[c]
              /\ <<"send", c>> \in Queues /\ WaitsIn(b, s, a)[<<"send", c>>] = s[c]
         /\ \A u \in Tasks :
              <<"await", u>> \in Queues /\ WaitsIn(b, s, a)[<<"await", u>>] = a[u]
<1>1. ASSUME NEW o \in Queues
      PROVE  (IF o[1] = "recv" THEN b[o[2]]
              ELSE IF o[1] = "send" THEN s[o[2]] ELSE a[o[2]]) \in Seq(Tasks)
  BY DEF Queues
<1>2. WaitsIn(b, s, a) \in [Queues -> Seq(Tasks)]
  BY <1>1 DEF WaitsIn
<1>3. ASSUME NEW c \in Chans
      PROVE  /\ <<"recv", c>> \in Queues /\ WaitsIn(b, s, a)[<<"recv", c>>] = b[c]
             /\ <<"send", c>> \in Queues /\ WaitsIn(b, s, a)[<<"send", c>>] = s[c]
  BY DEF WaitsIn, Queues
<1>4. ASSUME NEW u \in Tasks
      PROVE  <<"await", u>> \in Queues /\ WaitsIn(b, s, a)[<<"await", u>>] = a[u]
  BY DEF WaitsIn, Queues
<1> QED BY <1>2, <1>3, <1>4

LEMMA WTypes ==
  ASSUME TypeOK
  PROVE  /\ W \in [Queues -> Seq(Tasks)]
         /\ \A c \in Chans : /\ <<"recv", c>> \in Queues /\ W[<<"recv", c>>] = blocked[c]
                             /\ <<"send", c>> \in Queues /\ W[<<"send", c>>] = sblocked[c]
         /\ \A u \in Tasks : <<"await", u>> \in Queues /\ W[<<"await", u>>] = ablocked[u]
BY WaitsAre DEF TypeOK, W

\* One queue of one family changes.
LEMMA WRecv ==
  ASSUME TypeOK, NEW c \in Chans, NEW q, blocked' = [blocked EXCEPT ![c] = q],
         UNCHANGED <<sblocked, ablocked>>
  PROVE  W' = [W EXCEPT ![<<"recv", c>>] = q]
<1>1. ASSUME NEW o \in Queues
      PROVE  W'[o] = IF o = <<"recv", c>> THEN q ELSE W[o]
  BY DEF W, WaitsIn, Queues, TypeOK
<1>2. W' = [o \in Queues |-> W'[o]] /\ W = [o \in Queues |-> W[o]]
  BY DEF W, WaitsIn
<1> QED BY <1>1, <1>2

LEMMA WSend ==
  ASSUME TypeOK, NEW c \in Chans, NEW q, sblocked' = [sblocked EXCEPT ![c] = q],
         UNCHANGED <<blocked, ablocked>>
  PROVE  W' = [W EXCEPT ![<<"send", c>>] = q]
<1>1. ASSUME NEW o \in Queues
      PROVE  W'[o] = IF o = <<"send", c>> THEN q ELSE W[o]
  BY DEF W, WaitsIn, Queues, TypeOK
<1>2. W' = [o \in Queues |-> W'[o]] /\ W = [o \in Queues |-> W[o]]
  BY DEF W, WaitsIn
<1> QED BY <1>1, <1>2

LEMMA WAwait ==
  ASSUME TypeOK, NEW u \in Tasks, NEW q, ablocked' = [ablocked EXCEPT ![u] = q],
         UNCHANGED <<blocked, sblocked>>
  PROVE  W' = [W EXCEPT ![<<"await", u>>] = q]
<1>1. ASSUME NEW o \in Queues
      PROVE  W'[o] = IF o = <<"await", u>> THEN q ELSE W[o]
  BY DEF W, WaitsIn, Queues, TypeOK
<1>2. W' = [o \in Queues |-> W'[o]] /\ W = [o \in Queues |-> W[o]]
  BY DEF W, WaitsIn
<1> QED BY <1>1, <1>2

LEMMA QueuedIs == Queued = Range(run) \cup Parked(W)
BY DEF Queued, Parked, ParkedBy

-----------------------------------------------------------------------------
(* Contexts.                                                               *)

LEMMA GoneIsNone == Gone \notin Context /\ \A x \in Context : x.of \in Tasks /\ x.redo \in Ops
BY NobodyIsNoTask DEF Gone, Context

LEMMA RedoTypes ==
  ASSUME NEW l \in Context, NEW s \in Contexts
  PROVE  Redo(l, s) \in [Tasks -> Ops] /\ RedoSaved(s) \in [Tasks -> Ops]
<1>1. Idle \in Ops /\ l.redo \in Ops
  BY GoneIsNone DEF Ops
<1>2. \A t \in Tasks : s[t] # Gone => s[t].redo \in Ops
  BY GoneIsNone DEF Contexts
<1> QED BY <1>1, <1>2 DEF Redo, RedoSaved

\* restore, once every task of R and of the waiting queues has been saved.
LEMMA Restores ==
  ASSUME NEW r \in Seq(Tasks), r # <<>>, NEW w, NEW s \in Contexts, NEW here,
         Kept(Range(r) \cup Parked(w), s), Restore(s, r, here)
  PROVE  /\ Holds(r, w, live', saved') /\ live' \in Context /\ saved' \in Contexts
         /\ Redo(live', saved') = RedoSaved(s)
<1> DEFINE h == Head(r)
<1>1. h \in Tasks /\ h \in Range(r)
  BY OfTail
<1> HIDE DEF h
<1>2. s[h] # Gone /\ s[h] \in Context /\ s[h].of = h
  BY <1>1 DEF Kept, Contexts
<1>3. live' = s[h] /\ saved' = [s EXCEPT ![h] = Gone]
  BY <1>2 DEF Restore, h
<1>4. saved' \in Contexts /\ \A t \in Tasks : saved'[t] = IF t = h THEN Gone ELSE s[t]
  BY <1>1, <1>3 DEF Contexts
<1>5. Kept((Range(r) \cup Parked(w)) \ {h}, saved')
  BY <1>4 DEF Kept
<1>6. \A t \in Tasks : Redo(live', saved')[t] = RedoSaved(s)[t]
  <2> TAKE t \in Tasks
  <2>1. CASE t = h
    BY <1>2, <1>3, <2>1 DEF Redo, RedoSaved
  <2>2. CASE t # h
    BY <1>2, <1>3, <1>4, <2>2 DEF Redo, RedoSaved
  <2> QED BY <2>1, <2>2
<1>7. Redo(live', saved') = RedoSaved(s)
  BY <1>6 DEF Redo, RedoSaved
<1> QED BY <1>2, <1>3, <1>4, <1>5, <1>7 DEF Holds, h

\* What the machine is and where its task stands, while the program runs.
LEMMA AtWork ==
  ASSUME IInv, ~halted
  PROVE  /\ run \in Seq(Tasks) /\ run # <<>> /\ Me \in Tasks /\ live.of = Me
         /\ Me \in Range(run) /\ Range(run) \subseteq Tasks
         /\ W \in [Queues -> Seq(Tasks)]
         /\ PlacedBy(Queues, run, W, Redo(live, saved))
         /\ Holds(run, W, live, saved)
         /\ Parked(W) \cap Range(run) = {} /\ Parked(W) \subseteq Tasks
         /\ live \in Context /\ saved \in Contexts
         /\ Redo(live, saved) \in [Tasks -> Ops] /\ Redo(live, saved)[Me] = live.redo
         /\ Kept((Range(run) \cup Parked(W)) \ {Me}, saved) /\ saved[Me] = Gone
<1>1. /\ TypeOK /\ Going /\ W \in [Queues -> Seq(Tasks)] /\ run \in Seq(Tasks)
      /\ live \in Context /\ saved \in Contexts
  BY WTypes DEF IInv, TypeOK, Contexts
<1>2. /\ PlacedBy(Queues, run, W, Redo(live, saved)) /\ Holds(run, W, live, saved)
      /\ run # <<>> /\ live.of = Me /\ Kept((Range(run) \cup Parked(W)) \ {Me}, saved)
  BY <1>1 DEF Going, Standing, Holds, Me
<1>3. Me \in Tasks /\ Me \in Range(run) /\ Range(run) \subseteq Tasks
  BY <1>1, <1>2, OfTail, OfMembers DEF Me
<1>4. Parked(W) \cap Range(run) = {} /\ Parked(W) \subseteq Tasks
  BY <1>1, <1>2, WaitingApart DEF Parked
<1>5. Redo(live, saved) \in [Tasks -> Ops] /\ Redo(live, saved)[Me] = live.redo
  BY <1>1, <1>2, <1>3, RedoTypes DEF Redo
<1>6. saved[Me] = Gone
  BY <1>2, <1>3 DEF Kept
<1> QED BY <1>1, <1>2, <1>3, <1>4, <1>5, <1>6

LEMMA StartTypes ==
  ASSUME TypeOK, NEW o, Begins \/ Starts(o)
  PROVE  used' \in [Tasks -> 0..MaxOps]
<1>1. live.of \in Tasks /\ used \in [Tasks -> 0..MaxOps] /\ MaxOps \in Nat
  BY GoneIsNone, T3Assumption DEF TypeOK
<1> QED BY <1>1 DEF Begins, Starts

-----------------------------------------------------------------------------
(* What a syscall does to the queues and the contexts.                     *)

\* Everything a step must leave in order about them; the set of tasks queued
\* becomes who.
Leaves(who) ==
  Standing' /\ Queued' = who /\ live' \in Context /\ saved' \in Contexts
  /\ run' \in Seq(Tasks)

\* The running task goes on: its syscall, if it had been rewound to one, is done.
GoesOn == live' \in {live, [live EXCEPT !.redo = Idle]} /\ saved' = saved

LEMMA RedoGoesOn ==
  ASSUME IInv, ~halted, GoesOn
  PROVE  /\ live' \in Context /\ live'.of = Me
         /\ \A t \in Tasks \ {Me} : Redo(live', saved')[t] = Redo(live, saved)[t]
<1>1. live \in Context /\ live.of = Me
  BY AtWork
<1>2. live' \in Context /\ live'.of = Me
  BY <1>1 DEF GoesOn, Context, Ops
<1> QED BY <1>1, <1>2 DEF Redo, GoesOn

\* It goes on, and at most one task of the queue at o is woken.
LEMMA WakesAndGoes ==
  ASSUME IInv, ~halted, GoesOn, NEW o \in Queues, run' = WakeOne(run, W[o]),
         W' = [W EXCEPT ![o] = Rest(W[o])]
  PROVE  Leaves(Queued)
<1> DEFINE p == Redo(live, saved)
           p2 == Redo(live', saved')
<1>1. /\ run \in Seq(Tasks) /\ run # <<>> /\ Me \in Range(run) /\ live.of = Me
      /\ W \in [Queues -> Seq(Tasks)] /\ PlacedBy(Queues, run, W, p)
      /\ Parked(W) \cap Range(run) = {} /\ Parked(W) \subseteq Tasks
      /\ saved \in Contexts /\ Kept((Range(run) \cup Parked(W)) \ {Me}, saved)
  BY AtWork
<1>2. /\ live' \in Context /\ live'.of = Me /\ saved' = saved
      /\ \A t \in Tasks \ {Me} : p2[t] = p[t]
  BY RedoGoesOn DEF GoesOn
<1> HIDE DEF p, p2
<1>3. /\ PlacedBy(Queues, run', W', p) /\ run' \in Seq(Tasks) /\ W' \in [Queues -> Seq(Tasks)]
      /\ Range(run') \cup Parked(W') = Range(run) \cup Parked(W)
      /\ Parked(W') \subseteq Parked(W)
      /\ run' # <<>> /\ Head(run') = Me
  <2>1. CASE active /\ W[o] # <<>>
    <3> DEFINE h == Head(W[o])
               q == Tail(W[o])
    <3>1. run' = Append(run, h) /\ W' = [W EXCEPT ![o] = q] /\ W[o] \in Seq(Tasks)
      BY <1>1, <2>1 DEF WakeOne, Rest
    <3>2. h \in Tasks /\ h \in Range(W[o]) /\ q \in Seq(Tasks)
      BY <2>1, <3>1, OfTail
    <3>3. /\ PlacedBy(Queues, Append(run, h), [W EXCEPT ![o] = q], p)
          /\ ParkedBy(Tasks, Queues, [W EXCEPT ![o] = q]) = ParkedBy(Tasks, Queues, W) \ {h}
          /\ Range(Append(run, h)) = Range(run) \cup {h}
          /\ Append(run, h) \in Seq(Tasks)
          /\ h \in ParkedBy(Tasks, Queues, W)
      BY <1>1, <2>1, FirstWakes
    <3>4. Append(run, h) # <<>> /\ Head(Append(run, h)) = Head(run)
      BY <1>1, <3>2, OfAppend
    <3> HIDE DEF h, q
    <3>5. W' \in [Queues -> Seq(Tasks)]
      BY <1>1, <3>1, <3>2
    <3>6. PlacedBy(Queues, run', W', p)
      BY <3>1, <3>3
    <3>7. /\ Parked(W') = Parked(W) \ {h} /\ h \in Parked(W)
          /\ Range(run') = Range(run) \cup {h} /\ run' \in Seq(Tasks)
          /\ run' # <<>> /\ Head(run') = Me
      BY <3>1, <3>3, <3>4 DEF Parked, Me
    <3> QED BY <3>5, <3>6, <3>7
  <2>2. CASE ~(active /\ W[o] # <<>>)
    <3>1. run' = run /\ W' = [W EXCEPT ![o] = W[o]]
      BY <2>2 DEF WakeOne, Rest
    <3>2. W' = W
      BY <1>1, <3>1
    <3> QED BY <1>1, <3>1, <3>2 DEF Me
  <2> QED BY <2>1, <2>2
<1>4. PlacedBy(Queues, run', W', p2)
  <2>1. \A t \in Parked(W') : p2[t] = p[t]
    BY <1>1, <1>2, <1>3
  <2> QED BY <1>3, <2>1, SamePlaces DEF Parked
<1>5. Holds(run', W', live', saved')
  BY <1>1, <1>2, <1>3 DEF Holds
<1>6. Queued' = Queued
  BY <1>3 DEF Queued, Parked, ParkedBy
<1> QED BY <1>1, <1>2, <1>3, <1>4, <1>5, <1>6 DEF Leaves, Standing, p2

\* It goes on, and R and the waiting queues stay.
LEMMA OnlyGoes ==
  ASSUME IInv, ~halted, GoesOn, UNCHANGED queues
  PROVE  Leaves(Queued)
<1> DEFINE p == Redo(live, saved)
           p2 == Redo(live', saved')
<1>1. /\ run \in Seq(Tasks) /\ run # <<>> /\ Me \in Range(run)
      /\ W \in [Queues -> Seq(Tasks)] /\ PlacedBy(Queues, run, W, p)
      /\ Parked(W) \cap Range(run) = {} /\ Parked(W) \subseteq Tasks
      /\ saved \in Contexts /\ Kept((Range(run) \cup Parked(W)) \ {Me}, saved)
  BY AtWork
<1>2. /\ live' \in Context /\ live'.of = Me /\ saved' = saved
      /\ \A t \in Tasks \ {Me} : p2[t] = p[t]
  BY RedoGoesOn DEF GoesOn
<1>3. run' = run /\ W' = W /\ Queued' = Queued
  BY DEF queues, W, Queued
<1> HIDE DEF p, p2
<1>4. PlacedBy(Queues, run, W, p2)
  <2>1. \A t \in Parked(W) : p2[t] = p[t]
    BY <1>1, <1>2
  <2> QED BY <1>1, <2>1, SamePlaces DEF Parked
<1>5. Holds(run, W, live', saved')
  BY <1>1, <1>2 DEF Holds, Me
<1> QED BY <1>1, <1>2, <1>3, <1>4, <1>5 DEF Leaves, Standing, p2

\* Saving the running task, with operation o in front of it, completes the saved
\* contexts.
LEMMA Saves ==
  ASSUME IInv, ~halted, NEW o \in Ops
  PROVE  LET s == [saved EXCEPT ![Me] = [live EXCEPT !.redo = o]]
         IN /\ s \in Contexts /\ Kept(Range(run) \cup Parked(W), s)
            /\ RedoSaved(s) = [Redo(live, saved) EXCEPT ![Me] = o]
<1> DEFINE x == [live EXCEPT !.redo = o]
           s == [saved EXCEPT ![Me] = x]
           p == Redo(live, saved)
<1>1. /\ live \in Context /\ live.of = Me /\ Me \in Tasks /\ Me \in Range(run)
      /\ saved \in Contexts /\ Kept((Range(run) \cup Parked(W)) \ {Me}, saved)
      /\ p \in [Tasks -> Ops]
  BY AtWork
<1>2. x \in Context /\ x.of = Me /\ x.redo = o /\ x # Gone
  BY <1>1, GoneIsNone DEF Context
<1> HIDE DEF x
<1>3. s \in Contexts /\ \A t \in Tasks : s[t] = IF t = Me THEN x ELSE saved[t]
  BY <1>1, <1>2 DEF Contexts
<1>4. \A t \in Tasks : p[t] = IF t = Me THEN live.redo
                              ELSE IF saved[t] # Gone THEN saved[t].redo ELSE Idle
  BY <1>1 DEF Redo
<1> HIDE DEF s, p
<1>5. Kept(Range(run) \cup Parked(W), s)
  BY <1>1, <1>2, <1>3 DEF Kept
<1>6. \A t \in Tasks : RedoSaved(s)[t] = IF t = Me THEN o ELSE p[t]
  BY <1>2, <1>3, <1>4 DEF RedoSaved
<1>7. RedoSaved(s) = [t \in Tasks |-> RedoSaved(s)[t]]
  BY DEF RedoSaved
<1>8. RedoSaved(s) = [p EXCEPT ![Me] = o]
  BY <1>1, <1>6, <1>7
<1> QED BY <1>3, <1>5, <1>8 DEF s, p, x

\* It joins the queue at o, and the next task's context is restored.
LEMMA BlocksAndSwitches ==
  ASSUME IInv, ~halted, NEW o \in Queues, run' = Tail(run), run' # <<>>,
         W' = [W EXCEPT ![o] = Append(W[o], Me)],
         Restore([saved EXCEPT ![Me] = [live EXCEPT !.redo = o]], run', live)
  PROVE  Leaves(Queued) /\ Redo(live', saved') = [Redo(live, saved) EXCEPT ![Me] = o]
<1> DEFINE s == [saved EXCEPT ![Me] = [live EXCEPT !.redo = o]]
           p == Redo(live, saved)
           p2 == [p EXCEPT ![Me] = o]
           v == [W EXCEPT ![o] = Append(W[o], Me)]
<1>1. /\ run \in Seq(Tasks) /\ run # <<>> /\ Me \in Range(run)
      /\ W \in [Queues -> Seq(Tasks)] /\ PlacedBy(Queues, run, W, p)
      /\ Parked(W) \cap Range(run) = {} /\ p \in [Tasks -> Ops]
  BY AtWork
<1>2. s \in Contexts /\ Kept(Range(run) \cup Parked(W), s) /\ RedoSaved(s) = p2
  BY Saves DEF Ops
<1> HIDE DEF s, p
<1>3. PlacedBy(Queues, Tail(run), v, p2) /\ Parked(v) = Parked(W) \cup {Me}
  <2>1. HeadJoins(Tasks, Queues, run, W, p, o)
    BY <1>1, HeadWaits
  <2> QED BY <2>1 DEF HeadJoins, Me, Parked
<1>4. /\ Range(Tail(run)) = Range(run) \ {Me} /\ Tail(run) \in Seq(Tasks)
  BY <1>1, OfTail DEF PlacedBy, Me
<1>5. W' = v
  OBVIOUS
<1> HIDE DEF p2, v
<1>6. Kept(Range(run') \cup Parked(W'), s)
  <2>1. Range(run') = Range(run) \ {Me} /\ Parked(W') = Parked(W) \cup {Me}
    BY <1>3, <1>4, <1>5
  <2>2. Range(run') \cup Parked(W') = Range(run) \cup Parked(W)
    BY <1>1, <2>1
  <2> QED BY <1>2, <2>2
<1>7. Restore(s, run', live)
  BY DEF s
<1>8. /\ Holds(run', W', live', saved') /\ live' \in Context /\ saved' \in Contexts
      /\ Redo(live', saved') = RedoSaved(s)
  BY <1>2, <1>4, <1>6, <1>7, Restores
<1>9. Queued' = Queued
  <2>1. Range(run') = Range(run) \ {Me} /\ Parked(W') = Parked(W) \cup {Me}
    BY <1>3, <1>4, <1>5
  <2>2. Range(run') \cup Parked(W') = Range(run) \cup Parked(W)
    BY <1>1, <2>1
  <2> QED BY <2>2 DEF Queued, Parked, ParkedBy
<1> QED BY <1>2, <1>3, <1>4, <1>5, <1>8, <1>9 DEF Leaves, Standing, p2, p

\* It goes on, and all the tasks of two queues are woken.
LEMMA WakesAllAndGoes ==
  ASSUME IInv, ~halted, live' = live, saved' = saved, NEW o1 \in Queues, NEW o2 \in Queues \ {o1},
         run' = run \o W[o1] \o W[o2],
         W' = [W EXCEPT ![o1] = <<>>, ![o2] = <<>>]
  PROVE  Leaves(Queued)
<1> DEFINE p == Redo(live, saved)
           e == <<>>
           v == [W EXCEPT ![o1] = e]
           r == run \o W[o1]
<1>1. /\ run \in Seq(Tasks) /\ run # <<>> /\ live \in Context /\ saved \in Contexts
      /\ W \in [Queues -> Seq(Tasks)] /\ PlacedBy(Queues, run, W, p)
      /\ Holds(run, W, live, saved)
  BY AtWork
<1>2. AreWoken(Tasks, Queues, run, W, p, o1)
  BY <1>1, AllWake
<1> HIDE DEF p
<1>3. /\ PlacedBy(Queues, r, v, p) /\ Parked(v) = Parked(W) \ Range(W[o1])
      /\ Range(r) = Range(run) \cup Range(W[o1]) /\ r \in Seq(Tasks)
      /\ Range(W[o1]) \subseteq Parked(W)
  BY <1>2 DEF AreWoken, Parked
<1>4. e \in Seq(Tasks)
  OBVIOUS
<1>5. v \in [Queues -> Seq(Tasks)] /\ v[o2] = W[o2] /\ W' = [v EXCEPT ![o2] = e]
  BY <1>1, <1>4
<1>6. r # <<>> /\ Head(r) = Head(run)
  BY <1>1, OfConcat
<1> HIDE DEF r, v
<1>7. AreWoken(Tasks, Queues, r, v, p, o2)
  BY <1>3, <1>5, AllWake
<1>8. /\ PlacedBy(Queues, r \o W[o2], W', p) /\ Parked(W') = Parked(v) \ Range(W[o2])
      /\ Range(r \o W[o2]) = Range(r) \cup Range(W[o2]) /\ r \o W[o2] \in Seq(Tasks)
      /\ Range(W[o2]) \subseteq Parked(v)
  BY <1>5, <1>7 DEF AreWoken, Parked
<1>9. r \o W[o2] # <<>> /\ Head(r \o W[o2]) = Head(run)
  BY <1>1, <1>3, <1>6, OfConcat
<1>10. run' = r \o W[o2]
  BY DEF r
<1>11. Range(run') \cup Parked(W') = Range(run) \cup Parked(W)
  BY <1>3, <1>8, <1>10
<1>12. Holds(run', W', live', saved')
  BY <1>1, <1>9, <1>10, <1>11 DEF Holds
<1>13. Queued' = Queued
  BY <1>11 DEF Queued, Parked, ParkedBy
<1> QED BY <1>1, <1>8, <1>10, <1>12, <1>13 DEF Leaves, Standing, p

\* It leaves R for good, and the next task's context is restored.
LEMMA LeavesAndSwitches ==
  ASSUME IInv, ~halted, run' \in Seq(Tasks), run' # <<>>, W' \in [Queues -> Seq(Tasks)],
         PlacedBy(Queues, run', W', Redo(live, saved)),
         Range(run') \cup Parked(W') = (Range(run) \cup Parked(W)) \ {Me},
         Restore(saved, run', live)
  PROVE  Leaves(Queued \ {Me}) /\ Redo(live', saved') = [Redo(live, saved) EXCEPT ![Me] = Idle]
<1> DEFINE p == Redo(live, saved)
<1>1. /\ live.of = Me /\ saved \in Contexts /\ Kept((Range(run) \cup Parked(W)) \ {Me}, saved)
  BY AtWork
<1>2. /\ Holds(run', W', live', saved') /\ live' \in Context /\ saved' \in Contexts
      /\ Redo(live', saved') = RedoSaved(saved)
  BY <1>1, Restores
<1>3. \A t \in Tasks \ {Me} : RedoSaved(saved)[t] = p[t]
  BY <1>1 DEF Redo, RedoSaved
<1>4. Parked(W') \subseteq Tasks \ {Me}
  BY DEF Parked, ParkedBy
<1> HIDE DEF p
<1>5. PlacedBy(Queues, run', W', RedoSaved(saved))
  <2>1. \A t \in Parked(W') : RedoSaved(saved)[t] = p[t]
    BY <1>3, <1>4
  <2>2. PlacedBy(Queues, run', W', p)
    BY DEF p
  <2> QED BY <2>1, <2>2, SamePlaces DEF Parked
<1>6. Queued' = Queued \ {Me}
  BY DEF Queued, Parked, ParkedBy
<1>7. RedoSaved(saved) = [p EXCEPT ![Me] = Idle]
  <2>1. saved[Me] = Gone /\ p \in [Tasks -> Ops]
    BY AtWork DEF p
  <2>2. \A t \in Tasks : RedoSaved(saved)[t] = IF t = Me THEN Idle ELSE p[t]
    BY <1>3, <2>1 DEF RedoSaved
  <2>3. RedoSaved(saved) = [t \in Tasks |-> RedoSaved(saved)[t]]
    BY DEF RedoSaved
  <2> QED BY <2>1, <2>2, <2>3
<1> QED BY <1>2, <1>5, <1>6, <1>7 DEF Leaves, Standing, p

LEMMA YieldLeaves ==
  ASSUME IInv, Yield
  PROVE  Leaves(Queued) /\ Redo(live', saved') = Redo(live, saved)
<1> DEFINE p == Redo(live, saved)
           r == Append(Tail(run), Me)
           s == [saved EXCEPT ![Me] = [live EXCEPT !.redo = Idle]]
<1>0. ~halted /\ live.redo = Idle
  BY DEF Yield, Begins
<1>1. /\ run \in Seq(Tasks) /\ run # <<>> /\ Me \in Tasks /\ live.of = Me
      /\ W \in [Queues -> Seq(Tasks)] /\ PlacedBy(Queues, run, W, p)
      /\ Parked(W) \cap Range(run) = {} /\ Me \in Range(run)
      /\ p \in [Tasks -> Ops] /\ p[Me] = live.redo
      /\ Kept((Range(run) \cup Parked(W)) \ {Me}, saved)
  BY <1>0, AtWork
<1>2. CASE ~active
  <2>1. UNCHANGED <<run, saved, live, blocked, sblocked, ablocked>>
    BY <1>2 DEF Yield
  <2> QED BY <1>0, <2>1, OnlyGoes DEF GoesOn, queues
<1>3. CASE active
  <2>1. run' = r /\ SwitchIfNeeded(Me, r) /\ W' = W
    BY <1>3 DEF Yield, W
  <2>2. PlacedBy(Queues, r, W, p) /\ r \in Seq(Tasks) /\ Range(r) = Range(run)
    BY <1>1, RunAlone DEF Me
  <2>3. r # <<>>
    BY <1>1, OfTail, OfAppend DEF Me
  <2>4. s \in Contexts /\ Kept(Range(run) \cup Parked(W), s) /\ RedoSaved(s) = [p EXCEPT ![Me] = Idle]
    BY <1>0, <1>1, Saves DEF Ops
  <2> HIDE DEF r, s, p
  <2>5. Queued' = Queued
    BY <2>1, <2>2 DEF Queued, Parked, ParkedBy
  <2>6. CASE Head(r) = Me
    <3>1. GoesOn
      BY <2>1, <2>6 DEF SwitchIfNeeded, GoesOn
    <3>2. live' \in Context /\ live'.of = Me /\ saved' = saved /\ saved \in Contexts
          /\ \A t \in Tasks \ {Me} : Redo(live', saved')[t] = p[t]
      BY <1>0, <3>1, RedoGoesOn, AtWork DEF GoesOn, p
    <3>3. \A t \in Parked(W) : Redo(live', saved')[t] = p[t]
      BY <1>1, <3>2 DEF Parked, ParkedBy
    <3>4. PlacedBy(Queues, r, W, Redo(live', saved'))
      BY <1>1, <2>2, <3>3, SamePlaces DEF Parked
    <3>5. Holds(r, W, live', saved')
      BY <1>1, <2>2, <2>3, <2>6, <3>2 DEF Holds
    <3>6. live' = live
      <4>1. live' = [live EXCEPT !.redo = Idle] /\ live \in Context
        BY <1>0, <2>1, <2>6, AtWork DEF SwitchIfNeeded
      <4> QED BY <1>0, <4>1 DEF Context
    <3>7. Redo(live', saved') = p
      BY <3>2, <3>6 DEF p
    <3> QED BY <2>1, <2>2, <2>5, <3>2, <3>4, <3>5, <3>7 DEF Leaves, Standing, p
  <2>7. CASE Head(r) # Me
    <3>1. Restore(s, r, live)
      BY <2>1, <2>7 DEF SwitchIfNeeded, s
    <3>2. Kept(Range(r) \cup Parked(W), s)
      BY <2>2, <2>4
    <3>3. /\ Holds(r, W, live', saved') /\ live' \in Context /\ saved' \in Contexts
          /\ Redo(live', saved') = RedoSaved(s)
      BY <2>2, <2>3, <2>4, <3>1, <3>2, Restores
    <3>4. \A t \in Parked(W) : RedoSaved(s)[t] = p[t]
      BY <1>1, <2>4 DEF Parked, ParkedBy
    <3>5. PlacedBy(Queues, r, W, RedoSaved(s))
      BY <1>1, <2>2, <3>4, SamePlaces DEF Parked
    <3>6. RedoSaved(s) = p
      BY <1>0, <1>1, <2>4
    <3> QED BY <2>1, <2>2, <2>5, <3>3, <3>5, <3>6 DEF Leaves, Standing, p
  <2> QED BY <2>6, <2>7
<1> QED BY <1>2, <1>3

LEMMA ForkLeaves ==
  ASSUME IInv, NEW u \in Tasks, Fork(u)
  PROVE  /\ Leaves(Queued \cup {u}) /\ u \notin Queued /\ active' = TRUE
         /\ Redo(live', saved') = Redo(live, saved)
<1> DEFINE p == Redo(live, saved)
           p2 == Redo(live, saved')
           r == Append(run, u)
           x == [of |-> u, redo |-> Idle]
<1>0. /\ ~halted /\ u # Main /\ tstate[u] = "none" /\ run' = r /\ live' = live /\ W' = W
      /\ saved' = [saved EXCEPT ![u] = x] /\ active' = TRUE
  BY DEF Fork, Begins, W
<1>1. /\ run \in Seq(Tasks) /\ run # <<>> /\ Me \in Range(run) /\ live.of = Me
      /\ live \in Context /\ saved \in Contexts
      /\ W \in [Queues -> Seq(Tasks)] /\ PlacedBy(Queues, run, W, p)
      /\ Parked(W) \cap Range(run) = {} /\ Parked(W) \subseteq Tasks
      /\ Kept((Range(run) \cup Parked(W)) \ {Me}, saved)
  BY <1>0, AtWork
<1>2. u \notin Queued
  BY <1>0 DEF IInv, Going, Forked
<1>3. u \in Tasks \ (Range(run) \cup Parked(W)) /\ u # Me
  BY <1>1, <1>2, QueuedIs
<1>4. PlacedBy(Queues, r, W, p) /\ Range(r) = Range(run) \cup {u}
  <2>1. JoinsAt(Queues, run, W, p, u)
    BY <1>1, <1>3, Joins DEF Parked
  <2> QED BY <2>1 DEF JoinsAt
<1>5. r \in Seq(Tasks) /\ r # <<>> /\ Head(r) = Head(run)
  BY <1>1, OfAppend
<1>6. x \in Context /\ x # Gone /\ x.of = u
  BY GoneIsNone DEF Context, Ops
<1> HIDE DEF r, x
<1>7. saved' \in Contexts /\ \A t \in Tasks : saved'[t] = IF t = u THEN x ELSE saved[t]
  BY <1>0, <1>1, <1>6 DEF Contexts
<1>8. \A t \in Tasks \ {u} : p2[t] = p[t]
  BY <1>7 DEF Redo
<1>e. p2 = p
  <2>1. p[u] = Idle
    BY <1>1, <1>3 DEF Redo, Kept
  <2>2. p2[u] = Idle
    BY <1>1, <1>3, <1>6, <1>7 DEF Redo, x
  <2> QED BY <1>8, <2>1, <2>2 DEF Redo
<1> HIDE DEF p, p2
<1>9. PlacedBy(Queues, r, W, p2)
  <2>1. \A t \in Parked(W) : p2[t] = p[t]
    BY <1>1, <1>3, <1>8
  <2> QED BY <1>1, <1>4, <1>5, <2>1, SamePlaces DEF Parked
<1>10. Kept((Range(r) \cup Parked(W)) \ {Me}, saved')
  BY <1>1, <1>3, <1>4, <1>6, <1>7 DEF Kept
<1>11. Holds(r, W, live, saved')
  BY <1>1, <1>5, <1>10 DEF Holds, Me
<1>12. Queued' = Queued \cup {u}
  BY <1>0, <1>4 DEF Queued, Parked, ParkedBy
<1>13. Standing'
  BY <1>0, <1>9, <1>11 DEF Standing, p2
<1> QED BY <1>0, <1>1, <1>2, <1>5, <1>7, <1>12, <1>13, <1>e DEF Leaves, p, p2

-----------------------------------------------------------------------------
(* Each syscall keeps the invariant.                                       *)

\* The program goes on after a syscall that leaves everything in order.
LEMMA GoesOnWell ==
  ASSUME IInv, ~halted, UNCHANGED <<halted, trap>>, TypeOK', Standing', Forked', Faced',
         Alone', MainsEnd'
  PROVE  IInv'
<1>1. trap = "none"
  BY DEF IInv, Going
<1>2. EndReported'
  BY <1>1 DEF EndReported, StatusIsMains, MessageNamesWait, UnscheduledIsAlone
<1> QED BY <1>1, <1>2 DEF IInv, Going

LEMMA EndsWell ==
  ASSUME halted', TypeOK', EndReported'
  PROVE  IInv'
BY DEF IInv

\* Who is queued stays queued, and nobody is forked or finished.
LEMMA SameTasks ==
  ASSUME IInv, ~halted, Queued' = Queued, UNCHANGED <<tstate, mainExit>>
  PROVE  Forked' /\ MainsEnd' /\ tstate'[Main] = "none"
BY DEF IInv, Going, Forked, MainsEnd, Faced

LEMMA NewChannelKeeps ==
  ASSUME IInv, NEW c \in Chans, NEW k \in Caps, ChannelNew(c, k)
  PROVE  IInv'
<1>1. /\ ~halted /\ UNCHANGED <<run, blocked, sblocked, ablocked, queue, tstate, saved, live,
                               active, strayed, mainExit, halted, trap, status, used>>
      /\ obj' = [obj EXCEPT ![c] = "open"] /\ chanCap' = [chanCap EXCEPT ![c] = k]
  BY DEF ChannelNew, queues, mode, ending
<1>2. TypeOK'
  BY <1>1 DEF IInv, TypeOK
<1>3. Leaves(Queued)
  BY <1>1, OnlyGoes DEF GoesOn, queues
<1>4. Forked' /\ MainsEnd' /\ Standing'
  BY <1>1, <1>3, SameTasks DEF Leaves
<1>5. Faced'
  BY <1>1 DEF IInv, Going, Faced, TypeOK
<1>6. Alone'
  BY <1>1 DEF IInv, Going, Alone, W
<1> QED BY <1>1, <1>2, <1>4, <1>5, <1>6, GoesOnWell

\* A queue from which one task is woken, or none.
LEMMA RestIs ==
  ASSUME NEW q \in Seq(Tasks)
  PROVE  Rest(q) \in Seq(Tasks) /\ (Rest(q) # <<>> => q # <<>>)
BY OfTail DEF Rest

\* Waking one task of the queue at o does nothing before the first fork.
LEMMA AloneWakes ==
  ASSUME IInv, ~halted, NEW o \in Queues, run' = WakeOne(run, W[o]),
         W' = [W EXCEPT ![o] = Rest(W[o])], Done, UNCHANGED <<active, tstate>>
  PROVE  Alone'
<1>1. CASE ~active
  <2>1. run' = run
    BY <1>1 DEF WakeOne
  <2>2. W \in [Queues -> Seq(Tasks)] /\ Rest(W[o]) = W[o]
    BY <1>1, WTypes DEF Rest, IInv
  <2>3. W' = W
    BY <2>2
  <2>4. live' = [live EXCEPT !.redo = Idle] /\ live \in Context
    BY AtWork DEF Done
  <2>5. live'.redo = Idle
    BY <2>4 DEF Context
  <2> QED BY <2>1, <2>3, <2>5 DEF IInv, Going, Alone
<1>2. CASE active
  BY <1>2 DEF Alone
<1> QED BY <1>1, <1>2

LEMMA SendPushKeeps ==
  ASSUME IInv, NEW c \in Chans, SendPush(c)
  PROVE  IInv'
<1> DEFINE o == <<"recv", c>>
<1>0. used' \in [Tasks -> 0..MaxOps]
  BY StartTypes DEF SendPush, IInv
<1>1. /\ ~halted /\ queue' = [queue EXCEPT ![c] = @ + 1] /\ Done
      /\ run' = WakeOne(run, blocked[c]) /\ blocked' = [blocked EXCEPT ![c] = Rest(@)]
      /\ UNCHANGED <<sblocked, ablocked, obj, chanCap, tstate, saved, active, strayed,
                     mainExit, halted, trap, status>>
  BY DEF SendPush, Starts, Begins, mode, ending
<1>2. o \in Queues /\ W[o] = blocked[c] /\ TypeOK
  BY WTypes DEF IInv
<1>3. W' = [W EXCEPT ![o] = Rest(W[o])]
  BY <1>1, <1>2, WRecv
<1>4. GoesOn
  BY <1>1 DEF GoesOn, Done
<1> HIDE DEF o
<1>5. Leaves(Queued) /\ Alone'
  BY <1>1, <1>2, <1>3, <1>4, WakesAndGoes, AloneWakes
<1>6. Forked' /\ MainsEnd' /\ Standing' /\ tstate'[Main] = "none"
  BY <1>1, <1>5, SameTasks DEF Leaves
<1>7. \A d \in Chans : blocked'[d] \in Seq(Tasks) /\ (blocked'[d] # <<>> => blocked[d] # <<>>)
  BY <1>1, RestIs DEF IInv, TypeOK
<1>8. Faced'
  BY <1>1, <1>6, <1>7 DEF IInv, Going, Faced
<1>9. TypeOK'
  <2>1. blocked' \in [Chans -> Seq(Tasks)]
    BY <1>1, <1>2, <1>7 DEF TypeOK
  <2>2. queue' \in [Chans -> Nat]
    BY <1>1, <1>2 DEF TypeOK
  <2>3. run' \in Seq(Tasks) /\ live' \in Context
    BY <1>5 DEF Leaves
  <2> QED BY <1>0, <1>1, <1>2, <2>1, <2>2, <2>3 DEF TypeOK
<1> QED BY <1>1, <1>5, <1>6, <1>8, <1>9, GoesOnWell

LEMMA RecvTakeKeeps ==
  ASSUME IInv, NEW c \in Chans, RecvTake(c) \/ RecvClosed(c)
  PROVE  IInv'
<1> DEFINE o == <<"send", c>>
<1>0. used' \in [Tasks -> 0..MaxOps]
  BY StartTypes DEF RecvTake, RecvClosed, IInv
<1>1. /\ ~halted /\ Done
      /\ queue' = queue \/ (queue[c] > 0 /\ queue' = [queue EXCEPT ![c] = @ - 1])
      /\ run' = WakeOne(run, sblocked[c]) /\ sblocked' = [sblocked EXCEPT ![c] = Rest(@)]
      /\ UNCHANGED <<blocked, ablocked, obj, chanCap, tstate, saved, active, strayed,
                     mainExit, halted, trap, status>>
  BY DEF RecvTake, RecvClosed, Starts, Begins, mode, ending, chans
<1>2. o \in Queues /\ W[o] = sblocked[c] /\ TypeOK
  BY WTypes DEF IInv
<1>3. W' = [W EXCEPT ![o] = Rest(W[o])]
  BY <1>1, <1>2, WSend
<1>4. GoesOn
  BY <1>1 DEF GoesOn, Done
<1> HIDE DEF o
<1>5. Leaves(Queued) /\ Alone'
  BY <1>1, <1>2, <1>3, <1>4, WakesAndGoes, AloneWakes
<1>6. Forked' /\ MainsEnd' /\ Standing' /\ tstate'[Main] = "none"
  BY <1>1, <1>5, SameTasks DEF Leaves
<1>7. \A d \in Chans : sblocked'[d] \in Seq(Tasks) /\ (sblocked'[d] # <<>> => sblocked[d] # <<>>)
  BY <1>1, RestIs DEF IInv, TypeOK
<1>8. Faced'
  BY <1>1, <1>6, <1>7 DEF IInv, Going, Faced
<1>9. TypeOK'
  <2>1. sblocked' \in [Chans -> Seq(Tasks)]
    BY <1>1, <1>2, <1>7 DEF TypeOK
  <2>2. queue' \in [Chans -> Nat]
    <3>1. queue \in [Chans -> Nat]
      BY <1>2 DEF TypeOK
    <3>2. ASSUME queue[c] > 0, queue' = [queue EXCEPT ![c] = @ - 1]
          PROVE  queue' \in [Chans -> Nat]
      BY <3>1, <3>2
    <3> QED BY <1>1, <3>1, <3>2
  <2>3. run' \in Seq(Tasks) /\ live' \in Context
    BY <1>5 DEF Leaves
  <2> QED BY <1>0, <1>1, <1>2, <2>1, <2>2, <2>3 DEF TypeOK
<1> QED BY <1>1, <1>5, <1>6, <1>8, <1>9, GoesOnWell

LEMMA CloseKeeps ==
  ASSUME IInv, NEW c \in Chans, Close(c)
  PROVE  IInv'
<1> DEFINE o1 == <<"recv", c>>
           o2 == <<"send", c>>
<1>0. used' \in [Tasks -> 0..MaxOps]
  BY StartTypes DEF Close, IInv
<1>1. /\ ~halted /\ obj' = [obj EXCEPT ![c] = "closed"]
      /\ UNCHANGED <<ablocked, queue, chanCap, tstate, saved, live, active, strayed,
                     mainExit, halted, trap, status>>
  BY DEF Close, Begins, mode, ending
<1>2. /\ o1 \in Queues /\ W[o1] = blocked[c] /\ o2 \in Queues /\ W[o2] = sblocked[c]
      /\ TypeOK /\ W \in [Queues -> Seq(Tasks)]
  BY WTypes DEF IInv
<1>3. /\ Leaves(Queued) /\ Alone' /\ blocked'[c] = <<>> /\ sblocked'[c] = <<>>
      /\ \A d \in Chans \ {c} : blocked'[d] = blocked[d] /\ sblocked'[d] = sblocked[d]
      /\ blocked' \in [Chans -> Seq(Tasks)] /\ sblocked' \in [Chans -> Seq(Tasks)]
  <2>1. CASE active
    <3>1. /\ run' = run \o blocked[c] \o sblocked[c]
          /\ blocked' = [blocked EXCEPT ![c] = <<>>] /\ sblocked' = [sblocked EXCEPT ![c] = <<>>]
      BY <2>1 DEF Close
    <3>2. /\ blocked' \in [Chans -> Seq(Tasks)] /\ sblocked' \in [Chans -> Seq(Tasks)]
          /\ blocked'[c] = <<>> /\ sblocked'[c] = <<>>
          /\ \A d \in Chans \ {c} : blocked'[d] = blocked[d] /\ sblocked'[d] = sblocked[d]
      BY <1>2, <3>1 DEF TypeOK
    <3>3. W' = [W EXCEPT ![o1] = <<>>, ![o2] = <<>>]
      <4>1. ASSUME NEW o \in Queues
            PROVE  W'[o] = IF o \in {o1, o2} THEN <<>> ELSE W[o]
        BY <1>1, <1>2, <3>1 DEF W, WaitsIn, Queues, TypeOK
      <4>2. W' = [o \in Queues |-> W'[o]] /\ W = [o \in Queues |-> W[o]]
        BY DEF W, WaitsIn
      <4> QED BY <1>2, <4>1, <4>2
    <3>4. run' = run \o W[o1] \o W[o2] /\ o2 # o1
      BY <1>2, <3>1
    <3> HIDE DEF o1, o2
    <3>5. Leaves(Queued)
      BY <1>1, <1>2, <3>3, <3>4, WakesAllAndGoes
    <3> QED BY <1>1, <2>1, <3>2, <3>5 DEF Alone
  <2>2. CASE ~active
    <3>1. UNCHANGED <<run, blocked, sblocked>>
      BY <2>2 DEF Close
    <3>2. W[o1] = <<>> /\ W[o2] = <<>>
      BY <1>1, <1>2, <2>2 DEF IInv, Going, Alone
    <3>3. Leaves(Queued)
      BY <1>1, <3>1, OnlyGoes DEF GoesOn, queues
    <3>4. Alone'
      BY <1>1, <3>1 DEF IInv, Going, Alone, W
    <3> QED BY <1>2, <3>1, <3>2, <3>3, <3>4 DEF TypeOK
  <2> QED BY <2>1, <2>2
<1>4. Forked' /\ MainsEnd' /\ Standing' /\ tstate'[Main] = "none"
  BY <1>1, <1>3, SameTasks DEF Leaves
<1>5. Faced'
  BY <1>1, <1>2, <1>3, <1>4 DEF IInv, Going, Faced, TypeOK
<1>6. TypeOK'
  <2>1. run' \in Seq(Tasks)
    BY <1>3 DEF Leaves
  <2>2. obj' \in [Chans -> {"none", "open", "closed"}]
    BY <1>1, <1>2 DEF TypeOK
  <2> QED BY <1>0, <1>1, <1>2, <1>3, <2>1, <2>2 DEF TypeOK
<1> QED BY <1>1, <1>3, <1>4, <1>5, <1>6, GoesOnWell

LEMMA TryRecvKeeps ==
  ASSUME IInv, NEW c \in Chans, TryRecv(c)
  PROVE  IInv'
<1>0. used' \in [Tasks -> 0..MaxOps]
  BY StartTypes DEF TryRecv, IInv
<1>1. /\ ~halted /\ queue' = [queue EXCEPT ![c] = IF @ > 0 THEN @ - 1 ELSE 0] /\ strayed' = TRUE
      /\ UNCHANGED <<run, blocked, sblocked, ablocked, obj, chanCap, tstate, saved, live,
                     active, mainExit, halted, trap, status>>
  BY DEF TryRecv, Begins, queues, ending
<1>2. TypeOK'
  <2>1. queue' \in [Chans -> Nat]
    BY <1>1 DEF IInv, TypeOK
  <2> QED BY <1>0, <1>1, <2>1 DEF IInv, TypeOK
<1>3. Leaves(Queued)
  BY <1>1, OnlyGoes DEF GoesOn, queues
<1>4. Forked' /\ MainsEnd' /\ Standing'
  BY <1>1, <1>3, SameTasks DEF Leaves
<1>5. Faced'
  BY <1>1 DEF IInv, Going, Faced
<1>6. Alone'
  BY <1>1 DEF IInv, Going, Alone, W
<1> QED BY <1>1, <1>2, <1>4, <1>5, <1>6, GoesOnWell

LEMMA ForkKeeps ==
  ASSUME IInv, NEW u \in Tasks, Fork(u)
  PROVE  IInv'
<1>0. used' \in [Tasks -> 0..MaxOps]
  BY StartTypes DEF Fork, IInv
<1>1. /\ ~halted /\ tstate' = [tstate EXCEPT ![u] = "running"] /\ u # Main
      /\ UNCHANGED <<blocked, sblocked, ablocked, obj, queue, chanCap, live, strayed,
                     mainExit, halted, trap, status>>
  BY DEF Fork, Begins, chans, ending
<1>2. Leaves(Queued \cup {u}) /\ active' = TRUE
  BY ForkLeaves
<1>3. TypeOK'
  <2>1. tstate' \in [Tasks -> {"none", "running", "done", "taken"}]
    BY <1>1 DEF IInv, TypeOK
  <2>2. run' \in Seq(Tasks) /\ saved' \in Contexts
    BY <1>2 DEF Leaves
  <2> QED BY <1>0, <1>1, <1>2, <2>1, <2>2 DEF IInv, TypeOK, Contexts
<1>4. Standing' /\ Queued' = Queued \cup {u}
  BY <1>2 DEF Leaves
<1>5. Forked'
  BY <1>1, <1>4 DEF IInv, Going, Forked, TypeOK
<1>6. MainsEnd'
  BY <1>1, <1>4 DEF IInv, Going, MainsEnd
<1>7. Faced'
  BY <1>1, T3Assumption DEF IInv, Going, Faced, TypeOK
<1>8. Alone'
  BY <1>2 DEF Alone
<1> QED BY <1>1, <1>3, <1>4, <1>5, <1>6, <1>7, <1>8, GoesOnWell

LEMMA YieldKeeps ==
  ASSUME IInv, Yield
  PROVE  IInv'
<1>0. used' \in [Tasks -> 0..MaxOps]
  BY StartTypes DEF Yield, IInv
<1>1. /\ ~halted
      /\ UNCHANGED <<blocked, sblocked, ablocked, obj, queue, chanCap, tstate, active, strayed,
                     mainExit, halted, trap, status>>
      /\ ~active => UNCHANGED <<run, live>>
  BY DEF Yield, Begins, chans, mode, ending
<1>2. Leaves(Queued)
  BY YieldLeaves
<1>3. TypeOK'
  <2>1. run' \in Seq(Tasks) /\ saved' \in Contexts /\ live' \in Context
    BY <1>2 DEF Leaves
  <2> QED BY <1>0, <1>1, <2>1 DEF IInv, TypeOK, Contexts
<1>4. Forked' /\ MainsEnd' /\ Standing'
  BY <1>1, <1>2, SameTasks DEF Leaves
<1>5. Faced'
  BY <1>1 DEF IInv, Going, Faced
<1>6. Alone'
  BY <1>1 DEF IInv, Going, Alone, W
<1> QED BY <1>1, <1>3, <1>4, <1>5, <1>6, GoesOnWell

LEMMA AwaitTakeKeeps ==
  ASSUME IInv, NEW u \in Tasks, AwaitTake(u)
  PROVE  IInv'
<1>0. used' \in [Tasks -> 0..MaxOps]
  BY StartTypes DEF AwaitTake, IInv
<1>1. /\ ~halted /\ tstate[u] = "done" /\ tstate' = [tstate EXCEPT ![u] = "taken"] /\ Done
      /\ UNCHANGED <<run, blocked, sblocked, ablocked, obj, queue, chanCap, saved, active,
                     strayed, mainExit, halted, trap, status>>
  BY DEF AwaitTake, Starts, Begins, queues, chans, mode, ending
<1>2. Leaves(Queued)
  BY <1>1, OnlyGoes DEF GoesOn, Done, queues
<1>3. TypeOK'
  <2>1. tstate' \in [Tasks -> {"none", "running", "done", "taken"}]
    BY <1>1 DEF IInv, TypeOK
  <2>2. live' \in Context
    BY <1>2 DEF Leaves
  <2> QED BY <1>0, <1>1, <2>1, <2>2 DEF IInv, TypeOK
<1>4. Standing' /\ Queued' = Queued
  BY <1>2 DEF Leaves
<1>5. Forked'
  BY <1>1, <1>4 DEF IInv, Going, Forked, TypeOK
<1>6. MainsEnd'
  BY <1>1, <1>4 DEF IInv, Going, MainsEnd
<1>7. Faced'
  BY <1>1 DEF IInv, Going, Faced, TypeOK
<1>8. Alone'
  BY <1>1 DEF IInv, Going, Alone
<1> QED BY <1>1, <1>3, <1>4, <1>5, <1>6, <1>7, <1>8, GoesOnWell

-----------------------------------------------------------------------------
(* The syscalls with which R may empty, and the end they report.           *)

\* end_of_program says what is true of the end, provided main has gone when
\* nobody waits.
LEMMA EndsTruly ==
  ASSUME IInv, ~halted, NEW exit \in Tasks \cup {Nobody},
         EndOfProgram(blocked', sblocked', ablocked', exit, live.of),
         \/ \E c \in Chans : blocked'[c] # <<>> \/ sblocked'[c] # <<>>
         \/ \E u \in Tasks : ablocked'[u] # <<>>
         \/ exit = Main
  PROVE  /\ EndReported' /\ halted' = TRUE /\ status' \in Tasks \cup {Nobody}
         /\ trap' \in {"none", "await", "drain", "fill"}
<1>1. trap = "none" /\ halted' = TRUE /\ live.of \in Tasks /\ Main \in Tasks
  BY GoneIsNone, T3Assumption DEF IInv, TypeOK, Going, EndOfProgram
<1>2. trap' = IF \E u \in Tasks : ablocked'[u] # <<>> THEN "await"
              ELSE IF \E c \in Chans : sblocked'[c] # <<>> THEN "drain"
              ELSE IF \E c \in Chans : blocked'[c] # <<>> THEN "fill" ELSE "none"
  BY <1>1 DEF EndOfProgram
<1>3. status' = IF trap' = "none" /\ exit # Nobody THEN exit ELSE live.of
  BY <1>1 DEF EndOfProgram
<1>4. trap' = "none" => status' = Main
  BY <1>1, <1>2, <1>3, NobodyIsNoTask
<1>5. StatusIsMains'
  BY <1>4 DEF StatusIsMains
<1>6. MessageNamesWait'
  BY <1>2 DEF MessageNamesWait
<1>7. UnscheduledIsAlone'
  BY <1>2 DEF UnscheduledIsAlone
<1> QED BY <1>1, <1>2, <1>3, <1>5, <1>6, <1>7 DEF EndReported

\* The running task joins the queue at o, and the next one runs, or none is left.
LEMMA BlockKeeps ==
  ASSUME IInv, ~halted, active, NEW o \in Queues,
         BlockOn(o, blocked', sblocked', ablocked'),
         W' = [W EXCEPT ![o] = Append(W[o], Me)],
         blocked' \in [Chans -> Seq(Tasks)], sblocked' \in [Chans -> Seq(Tasks)],
         ablocked' \in [Tasks -> Seq(Tasks)], used' \in [Tasks -> 0..MaxOps],
         \/ \E c \in Chans : blocked'[c] # <<>> \/ sblocked'[c] # <<>>
         \/ \E u \in Tasks : ablocked'[u] # <<>>,
         run' # <<>> => Faced'
  PROVE  IInv'
<1>1. run' = Tail(run) /\ UNCHANGED <<obj, queue, chanCap, tstate, active, strayed, mainExit>>
  BY DEF BlockOn, chans, mode
<1>2. run' \in Seq(Tasks)
  BY <1>1, AtWork, OfTail
<1>3. CASE run' = <<>>
  <2>1. EndOfProgram(blocked', sblocked', ablocked', mainExit, live.of) /\ UNCHANGED <<saved, live>>
    BY <1>3 DEF BlockOn
  <2>2. mainExit \in Tasks \cup {Nobody}
    BY DEF IInv, TypeOK
  <2>3. /\ EndReported' /\ halted' = TRUE /\ status' \in Tasks \cup {Nobody}
        /\ trap' \in {"none", "await", "drain", "fill"}
    BY <2>1, <2>2, EndsTruly
  <2>4. TypeOK'
    BY <1>1, <1>2, <2>1, <2>3 DEF IInv, TypeOK
  <2> QED BY <2>3, <2>4, EndsWell
<1>4. CASE run' # <<>>
  <2>1. /\ Restore([saved EXCEPT ![Me] = [live EXCEPT !.redo = o]], run', live)
        /\ UNCHANGED <<halted, trap, status>>
    BY <1>4 DEF BlockOn
  <2>2. Leaves(Queued)
    BY <1>1, <1>4, <2>1, BlocksAndSwitches
  <2>3. TypeOK'
    <3>1. saved' \in Contexts /\ live' \in Context
      BY <2>2 DEF Leaves
    <3> QED BY <1>1, <1>2, <2>1, <3>1 DEF IInv, TypeOK, Contexts
  <2>4. Forked' /\ MainsEnd' /\ Standing'
    BY <1>1, <2>2, SameTasks DEF Leaves
  <2>5. Alone'
    BY <1>1 DEF Alone
  <2> QED BY <1>4, <2>1, <2>3, <2>4, <2>5, GoesOnWell
<1> QED BY <1>3, <1>4

LEMMA SendBlockKeeps ==
  ASSUME IInv, NEW c \in Chans, SendBlock(c)
  PROVE  IInv'
<1> DEFINE o == <<"send", c>>
           q == Append(sblocked[c], Me)
<1>0. used' \in [Tasks -> 0..MaxOps]
  BY StartTypes DEF SendBlock, IInv
<1>1. /\ ~halted /\ active /\ obj[c] = "open" /\ sblocked' = [sblocked EXCEPT ![c] = q]
      /\ UNCHANGED <<blocked, ablocked, obj, tstate>>
  BY DEF SendBlock, Starts, Begins, Full, BlockOn, chans
<1>2. BlockOn(o, blocked', sblocked', ablocked')
  BY <1>1 DEF SendBlock
<1>3. Me \in Tasks /\ TypeOK
  BY <1>1, AtWork DEF IInv
<1>4. q \in Seq(Tasks) /\ q # <<>>
  BY <1>3, OfAppend DEF TypeOK
<1>5. W' = [W EXCEPT ![o] = Append(W[o], Me)] /\ o \in Queues
  <2>1. W[o] = sblocked[c] /\ o \in Queues
    BY <1>3, WTypes
  <2>2. W' = [W EXCEPT ![o] = q]
    BY <1>1, <1>3, WSend
  <2> QED BY <2>1, <2>2
<1> HIDE DEF o, q
<1>6. /\ sblocked' \in [Chans -> Seq(Tasks)] /\ sblocked'[c] = q
      /\ \A d \in Chans \ {c} : sblocked'[d] = sblocked[d]
  BY <1>1, <1>3, <1>4 DEF TypeOK
<1>7. Faced'
  BY <1>1, <1>6 DEF IInv, Going, Faced
<1>8. blocked' \in [Chans -> Seq(Tasks)] /\ ablocked' \in [Tasks -> Seq(Tasks)]
  BY <1>1, <1>3 DEF TypeOK
<1>9. \E d \in Chans : blocked'[d] # <<>> \/ sblocked'[d] # <<>>
  BY <1>4, <1>6
<1> QED BY <1>0, <1>1, <1>2, <1>5, <1>6, <1>7, <1>8, <1>9, BlockKeeps

LEMMA RecvBlockKeeps ==
  ASSUME IInv, NEW c \in Chans, RecvBlock(c)
  PROVE  IInv'
<1> DEFINE o == <<"recv", c>>
           q == Append(blocked[c], Me)
<1>0. used' \in [Tasks -> 0..MaxOps]
  BY StartTypes DEF RecvBlock, IInv
<1>1. /\ ~halted /\ active /\ obj[c] = "open" /\ blocked' = [blocked EXCEPT ![c] = q]
      /\ UNCHANGED <<sblocked, ablocked, obj, tstate>>
  BY DEF RecvBlock, Starts, Begins, BlockOn, chans
<1>2. BlockOn(o, blocked', sblocked', ablocked')
  BY <1>1 DEF RecvBlock
<1>3. Me \in Tasks /\ TypeOK
  BY <1>1, AtWork DEF IInv
<1>4. q \in Seq(Tasks) /\ q # <<>>
  BY <1>3, OfAppend DEF TypeOK
<1>5. W' = [W EXCEPT ![o] = Append(W[o], Me)] /\ o \in Queues
  <2>1. W[o] = blocked[c] /\ o \in Queues
    BY <1>3, WTypes
  <2>2. W' = [W EXCEPT ![o] = q]
    BY <1>1, <1>3, WRecv
  <2> QED BY <2>1, <2>2
<1> HIDE DEF o, q
<1>6. /\ blocked' \in [Chans -> Seq(Tasks)] /\ blocked'[c] = q
      /\ \A d \in Chans \ {c} : blocked'[d] = blocked[d]
  BY <1>1, <1>3, <1>4 DEF TypeOK
<1>7. Faced'
  BY <1>1, <1>6 DEF IInv, Going, Faced
<1>8. sblocked' \in [Chans -> Seq(Tasks)] /\ ablocked' \in [Tasks -> Seq(Tasks)]
  BY <1>1, <1>3 DEF TypeOK
<1>9. \E d \in Chans : blocked'[d] # <<>> \/ sblocked'[d] # <<>>
  BY <1>4, <1>6
<1> QED BY <1>0, <1>1, <1>2, <1>5, <1>6, <1>7, <1>8, <1>9, BlockKeeps

LEMMA AwaitBlockKeeps ==
  ASSUME IInv, NEW u \in Tasks, AwaitBlock(u)
  PROVE  IInv'
<1> DEFINE o == <<"await", u>>
           q == Append(ablocked[u], Me)
<1>0. used' \in [Tasks -> 0..MaxOps]
  BY StartTypes DEF AwaitBlock, IInv
<1>1. /\ ~halted /\ tstate[u] = "running" /\ ablocked' = [ablocked EXCEPT ![u] = q]
      /\ UNCHANGED <<blocked, sblocked, obj, tstate>>
  BY DEF AwaitBlock, Starts, Begins, BlockOn, chans
<1>2. BlockOn(o, blocked', sblocked', ablocked')
  BY <1>1 DEF AwaitBlock
<1>3. Me \in Tasks /\ TypeOK
  BY <1>1, AtWork DEF IInv
<1>4. q \in Seq(Tasks) /\ q # <<>>
  BY <1>3, OfAppend DEF TypeOK
<1>5. W' = [W EXCEPT ![o] = Append(W[o], Me)] /\ o \in Queues
  <2>1. W[o] = ablocked[u] /\ o \in Queues
    BY <1>3, WTypes
  <2>2. W' = [W EXCEPT ![o] = q]
    BY <1>1, <1>3, WAwait
  <2> QED BY <2>1, <2>2
<1> HIDE DEF o, q
<1>6. /\ ablocked' \in [Tasks -> Seq(Tasks)] /\ ablocked'[u] = q
      /\ \A d \in Tasks \ {u} : ablocked'[d] = ablocked[d]
  BY <1>1, <1>3, <1>4 DEF TypeOK
<1>7. Faced' /\ active
  BY <1>1, <1>6 DEF IInv, Going, Faced, Alone
<1>8. blocked' \in [Chans -> Seq(Tasks)] /\ sblocked' \in [Chans -> Seq(Tasks)]
  BY <1>1, <1>3 DEF TypeOK
<1>9. \E d \in Tasks : ablocked'[d] # <<>>
  BY <1>4, <1>6
<1> QED BY <1>0, <1>1, <1>2, <1>5, <1>6, <1>7, <1>8, <1>9, BlockKeeps

\* Before the first fork there is main and no other context.
LEMMA MainAlone ==
  ASSUME IInv, ~halted, ~active
  PROVE  run = <<Main>> /\ Me = Main /\ live.of = Main /\ \A t \in Tasks : saved[t] = Gone
<1>1. /\ run = <<Main>> /\ \A o \in Queues : W[o] = <<>>
  BY DEF IInv, Going, Alone
<1>2. Kept((Range(run) \cup Parked(W)) \ {Me}, saved) /\ live.of = Me
  BY AtWork
<1>3. Me = Main /\ Range(run) = {Main}
  BY <1>1 DEF Me, Range
<1>4. Parked(W) = {}
  BY <1>1, OfEmpty DEF Parked, ParkedBy
<1> QED BY <1>1, <1>2, <1>3, <1>4 DEF Kept

LEMMA TrapKeeps ==
  ASSUME IInv, NEW why \in {"closed", "unscheduled", "taken", "body"}, TrapWith(why),
         why = "unscheduled" => ~active
  PROVE  IInv'
<1>1. /\ ~halted /\ halted' = TRUE /\ trap' = why
      /\ UNCHANGED <<run, blocked, sblocked, ablocked, obj, queue, chanCap, tstate, saved, live,
                     active, strayed, mainExit, status, used>>
  BY DEF TrapWith, queues, chans, mode
<1>2. TypeOK'
  BY <1>1 DEF IInv, TypeOK
<1>3. trap' \in {"closed", "unscheduled", "taken", "body"}
  BY <1>1
<1>4. StatusIsMains' /\ MessageNamesWait'
  BY <1>3 DEF StatusIsMains, MessageNamesWait
<1>5. UnscheduledIsAlone'
  BY <1>1, MainAlone DEF UnscheduledIsAlone
<1> QED BY <1>1, <1>2, <1>4, <1>5, EndsWell DEF EndReported

\* The running task leaves R for good; the next one runs, or none is left.
LEMMA TaskExitKeeps ==
  ASSUME IInv, ~halted, active, NEW r \in Seq(Tasks), TaskExit(r, ablocked'),
         ablocked' \in [Tasks -> Seq(Tasks)], strayed' \in BOOLEAN,
         tstate' \in [Tasks -> {"none", "running", "done", "taken"}],
         W' \in [Queues -> Seq(Tasks)],
         PlacedBy(Queues, r, W', Redo(live, saved)),
         Range(r) \cup Parked(W') = (Range(run) \cup Parked(W)) \ {Me},
         \A t \in Tasks : tstate'[t] = "none" => tstate[t] = "none",
         Faced'
  PROVE  IInv'
<1>1. /\ run' = r /\ mainExit' = IF Me = Main THEN live.of ELSE mainExit
      /\ UNCHANGED <<blocked, sblocked, obj, queue, chanCap, active, used>>
  BY DEF TaskExit, chans
<1>2. live.of = Me /\ Me \in Tasks
  BY AtWork
<1>3. TypeOK /\ mainExit' \in Tasks \cup {Nobody} /\ mainExit' \in {Nobody, Main}
  BY <1>1, <1>2 DEF IInv, TypeOK, Going, MainsEnd
<1>4. Main \in (Range(run) \cup Parked(W)) \ {Me} \/ mainExit' = Main
  BY <1>1, <1>2, QueuedIs DEF IInv, Going, MainsEnd
<1>5. CASE r = <<>>
  <2>1. EndOfProgram(blocked', sblocked', ablocked', mainExit', live.of) /\ UNCHANGED <<saved, live>>
    BY <1>1, <1>5 DEF TaskExit
  <2>2. \/ \E c \in Chans : blocked'[c] # <<>> \/ sblocked'[c] # <<>>
        \/ \E u \in Tasks : ablocked'[u] # <<>>
        \/ mainExit' = Main
    <3> SUFFICES ASSUME mainExit' # Main
                 PROVE  \/ \E c \in Chans : blocked'[c] # <<>> \/ sblocked'[c] # <<>>
                        \/ \E u \in Tasks : ablocked'[u] # <<>>
      OBVIOUS
    <3>1. Main \in Parked(W')
      BY <1>4, <1>5, OfEmpty
    <3>2. PICK o \in Queues : Main \in Range(W'[o])
      BY <3>1 DEF Parked, ParkedBy
    <3>3. W'[o] # <<>>
      BY <3>2, OfEmpty
    <3> QED BY <3>3 DEF W, WaitsIn, Queues
  <2>3. /\ EndReported' /\ halted' = TRUE /\ status' \in Tasks \cup {Nobody}
        /\ trap' \in {"none", "await", "drain", "fill"}
    BY <1>3, <2>1, <2>2, EndsTruly
  <2>4. TypeOK'
    BY <1>1, <1>3, <2>1, <2>3 DEF TypeOK
  <2> QED BY <2>3, <2>4, EndsWell
<1>6. CASE r # <<>>
  <2>1. Restore(saved, run', live) /\ UNCHANGED <<halted, trap, status>>
    BY <1>1, <1>6 DEF TaskExit
  <2>2. Leaves(Queued \ {Me})
    BY <1>1, <1>6, <2>1, LeavesAndSwitches
  <2>3. TypeOK'
    <3>1. saved' \in Contexts /\ live' \in Context
      BY <2>2 DEF Leaves
    <3> QED BY <1>1, <1>3, <2>1, <3>1 DEF TypeOK, Contexts
  <2>4. Standing' /\ Queued' = Queued \ {Me}
    BY <2>2 DEF Leaves
  <2>5. Forked'
    BY <2>4 DEF IInv, Going, Forked
  <2>6. MainsEnd'
    BY <1>3, <1>4, <2>4, QueuedIs DEF MainsEnd
  <2>7. Alone'
    BY <1>1 DEF Alone
  <2> QED BY <2>1, <2>3, <2>4, <2>5, <2>6, <2>7, GoesOnWell
<1> QED BY <1>5, <1>6

LEMMA ExitValueKeeps ==
  ASSUME IInv, ExitValue
  PROVE  IInv'
<1> DEFINE o == <<"await", Me>>
           rest == Tail(run)
           p == Redo(live, saved)
           r == rest \o W[o]
           v == [W EXCEPT ![o] = <<>>]
<1>1. /\ ~halted /\ Me # Main /\ tstate' = [tstate EXCEPT ![Me] = "done"]
      /\ ablocked' = [ablocked EXCEPT ![Me] = <<>>] /\ strayed' = strayed
      /\ UNCHANGED <<blocked, sblocked, obj>>
  BY DEF ExitValue, TaskExit, chans
<1>2. /\ run \in Seq(Tasks) /\ run # <<>> /\ Me \in Tasks /\ Me \in Range(run)
      /\ W \in [Queues -> Seq(Tasks)] /\ PlacedBy(Queues, run, W, p)
      /\ Parked(W) \cap Range(run) = {} /\ Parked(W) \subseteq Tasks
  BY <1>1, AtWork
<1>3. TypeOK /\ o \in Queues /\ W[o] = ablocked[Me]
  BY <1>2, WTypes DEF IInv
<1>4. active
  BY <1>1, MainAlone
<1>5. W' = v
  BY <1>1, <1>2, <1>3, WAwait
<1>6. PlacedBy(Queues, rest, W, p) /\ rest \in Seq(Tasks) /\ Range(rest) = Range(run) \ {Me}
  BY <1>2, RunAlone DEF Me
<1>7. TaskExit(r, ablocked')
  BY <1>3 DEF ExitValue
<1> HIDE DEF rest, p, o
<1>8. AreWoken(Tasks, Queues, rest, W, p, o)
  BY <1>2, <1>3, <1>6, AllWake
<1>9. /\ PlacedBy(Queues, r, v, p) /\ Parked(v) = Parked(W) \ Range(W[o]) /\ r \in Seq(Tasks)
      /\ Range(r) = Range(rest) \cup Range(W[o]) /\ Range(W[o]) \subseteq Parked(W)
  BY <1>8 DEF AreWoken, Parked
<1>10. v \in [Queues -> Seq(Tasks)]
  <2> DEFINE e == <<>>
  <2>1. e \in Seq(Tasks)
    OBVIOUS
  <2> HIDE DEF e
  <2>2. [W EXCEPT ![o] = e] \in [Queues -> Seq(Tasks)]
    BY <1>2, <2>1
  <2> QED BY <2>2 DEF e
<1> HIDE DEF r, v
<1>11. Range(r) \cup Parked(W') = (Range(run) \cup Parked(W)) \ {Me}
  BY <1>2, <1>5, <1>6, <1>9
<1>12. /\ ablocked' \in [Tasks -> Seq(Tasks)] /\ strayed' \in BOOLEAN
       /\ tstate' \in [Tasks -> {"none", "running", "done", "taken"}]
  BY <1>1, <1>2, <1>3 DEF TypeOK
<1>13. \A t \in Tasks : tstate'[t] = "none" => tstate[t] = "none"
  BY <1>1, <1>2, <1>3 DEF TypeOK
<1>14. Faced'
  BY <1>1, <1>2, <1>3, T3Assumption DEF IInv, Going, Faced, TypeOK
<1>15. PlacedBy(Queues, r, W', Redo(live, saved)) /\ W' \in [Queues -> Seq(Tasks)]
  BY <1>5, <1>9, <1>10 DEF p
<1> QED BY <1>1, <1>4, <1>7, <1>9, <1>11, <1>12, <1>13, <1>14, <1>15, TaskExitKeeps

LEMMA ExitPlainKeeps ==
  ASSUME IInv, ExitPlain
  PROVE  IInv'
<1>1. /\ ~halted /\ strayed' \in BOOLEAN
      /\ UNCHANGED <<blocked, sblocked, ablocked, tstate, obj>>
  BY DEF ExitPlain, TaskExit, chans, IInv, TypeOK
<1>2. CASE active
  <2> DEFINE rest == Tail(run)
             p == Redo(live, saved)
  <2>1. /\ run \in Seq(Tasks) /\ run # <<>> /\ Me \in Range(run)
        /\ W \in [Queues -> Seq(Tasks)] /\ PlacedBy(Queues, run, W, p)
        /\ Parked(W) \cap Range(run) = {}
    BY <1>1, AtWork
  <2>2. PlacedBy(Queues, rest, W, p) /\ rest \in Seq(Tasks) /\ Range(rest) = Range(run) \ {Me}
    BY <2>1, RunAlone DEF Me
  <2>3. TaskExit(rest, ablocked')
    BY <1>1, <1>2 DEF ExitPlain
  <2>4. W' = W
    BY <1>1 DEF W
  <2> HIDE DEF rest
  <2>5. Range(rest) \cup Parked(W') = (Range(run) \cup Parked(W)) \ {Me}
    BY <2>1, <2>2, <2>4
  <2>6. Faced'
    BY <1>1 DEF IInv, Going, Faced
  <2>7. /\ ablocked' \in [Tasks -> Seq(Tasks)]
        /\ tstate' \in [Tasks -> {"none", "running", "done", "taken"}]
    BY <1>1 DEF IInv, TypeOK
  <2> QED BY <1>1, <1>2, <2>1, <2>2, <2>3, <2>4, <2>5, <2>6, <2>7, TaskExitKeeps
<1>3. CASE ~active
  <2>1. /\ halted' = TRUE /\ status' = live.of /\ trap' = trap
        /\ UNCHANGED <<run, obj, queue, chanCap, saved, live, active, mainExit, used>>
    BY <1>3 DEF ExitPlain, chans
  <2>2. status' = Main /\ trap' = "none" /\ Main \in Tasks
    BY <1>1, <1>3, <2>1, MainAlone, T3Assumption DEF IInv, Going
  <2>3. TypeOK'
    BY <1>1, <2>1, <2>2 DEF IInv, TypeOK
  <2>4. EndReported'
    BY <2>2 DEF EndReported, StatusIsMains, MessageNamesWait, UnscheduledIsAlone
  <2> QED BY <2>1, <2>3, <2>4, EndsWell
<1> QED BY <1>2, <1>3

LEMMA Initial == Init => IInv
<1> SUFFICES ASSUME Init PROVE IInv
  OBVIOUS
<1>1. Main \in Tasks /\ MaxOps \in Nat
  BY T3Assumption
<1>2. live = [of |-> Main, redo |-> Idle] /\ live \in Context /\ live.of = Main /\ live.redo = Idle
  BY <1>1 DEF Init, Context, Ops
<1>3. TypeOK
  <2>1. /\ run \in Seq(Tasks) /\ blocked \in [Chans -> Seq(Tasks)]
        /\ sblocked \in [Chans -> Seq(Tasks)] /\ ablocked \in [Tasks -> Seq(Tasks)]
    BY <1>1 DEF Init
  <2>2. /\ saved \in [Tasks -> Context \cup {Gone}] /\ used \in [Tasks -> 0..MaxOps]
        /\ obj \in [Chans -> {"none", "open", "closed"}] /\ queue \in [Chans -> Nat]
        /\ chanCap \in [Chans -> Caps \cup {0}]
        /\ tstate \in [Tasks -> {"none", "running", "done", "taken"}]
    BY <1>1 DEF Init
  <2> QED BY <1>1, <1>2, <2>1, <2>2 DEF Init, TypeOK
<1>4. \A o \in Queues : W[o] = <<>>
  BY DEF Init, W, WaitsIn, Queues
<1>5. run = <<Main>> /\ run # <<>> /\ Head(run) = Main /\ Range(run) = {Main} /\ IsInjective(run)
  BY DEF Init, Range, IsInjective
<1>6. Parked(W) = {} /\ \A o \in Queues : Range(W[o]) = {} /\ IsInjective(W[o])
  BY <1>4, OfEmpty DEF Parked, ParkedBy
<1>7. PlacedBy(Queues, run, W, Redo(live, saved))
  BY <1>5, <1>6 DEF PlacedBy
<1>8. \A t \in Tasks : saved[t] = Gone
  BY DEF Init
<1>9. Standing
  BY <1>2, <1>5, <1>6, <1>7, <1>8 DEF Standing, Holds, Kept
<1>10. Queued = {Main}
  BY <1>5, <1>6, QueuedIs
<1>11. Forked /\ MainsEnd /\ trap = "none"
  BY <1>10 DEF Init, Forked, MainsEnd
<1>12. Faced
  BY <1>1 DEF Init, Faced
<1>13. Alone
  BY <1>2, <1>4, <1>5 DEF Init, Alone
<1>14. EndReported
  BY <1>11 DEF Init, EndReported, StatusIsMains, MessageNamesWait, UnscheduledIsAlone
<1> QED BY <1>3, <1>9, <1>11, <1>12, <1>13, <1>14 DEF IInv, Going

LEMMA Inductive == IInv /\ [Next]_vars => IInv'
<1> SUFFICES ASSUME IInv, [Next]_vars PROVE IInv'
  OBVIOUS
<1>1. CASE UNCHANGED vars
  BY <1>1 DEF vars, queues, chans, mode, ending, IInv, TypeOK, EndReported, StatusIsMains,
         MessageNamesWait, UnscheduledIsAlone, Going, Standing, Forked, Faced, Alone, MainsEnd,
         Queued, W
<1>2. ASSUME NEW c \in Chans, NEW k \in Caps, ChannelNew(c, k) PROVE IInv'
  BY <1>2, NewChannelKeeps
<1>3. ASSUME NEW c \in Chans, SendPush(c) \/ SendBlock(c) \/ SendTrap(c) PROVE IInv'
  <2>1. CASE SendTrap(c)
    BY <2>1, TrapKeeps DEF SendTrap
  <2> QED BY <1>3, <2>1, SendPushKeeps, SendBlockKeeps
<1>4. ASSUME NEW c \in Chans, RecvTake(c) \/ RecvClosed(c) \/ RecvBlock(c) \/ RecvTrap(c)
      PROVE  IInv'
  <2>1. CASE RecvTrap(c)
    BY <2>1, TrapKeeps DEF RecvTrap
  <2> QED BY <1>4, <2>1, RecvTakeKeeps, RecvBlockKeeps
<1>5. ASSUME NEW c \in Chans, Close(c) \/ TryRecv(c) PROVE IInv'
  BY <1>5, CloseKeeps, TryRecvKeeps
<1>6. ASSUME NEW u \in Tasks, Fork(u) PROVE IInv'
  BY <1>6, ForkKeeps
<1>7. CASE Yield
  BY <1>7, YieldKeeps
<1>8. ASSUME NEW u \in Tasks, AwaitTake(u) \/ AwaitBlock(u) \/ AwaitTrap(u) PROVE IInv'
  <2>1. CASE AwaitTrap(u)
    BY <2>1, TrapKeeps DEF AwaitTrap
  <2> QED BY <1>8, <2>1, AwaitTakeKeeps, AwaitBlockKeeps
<1>9. CASE ExitValue \/ ExitPlain
  BY <1>9, ExitValueKeeps, ExitPlainKeeps
<1>10. CASE BodyTrap
  BY <1>10, TrapKeeps DEF BodyTrap
<1> QED BY <1>1, <1>2, <1>3, <1>4, <1>5, <1>6, <1>7, <1>8, <1>9, <1>10 DEF Next

\* Nobody is in two queues, a task that waits will execute its syscall again, and
\* every context is where restore looks for it: an invariant of any program, with
\* what it says of its end.
THEOREM Invariant == Spec => []IInv
BY Initial, Inductive, PTL DEF Spec

\* What the program says of its end is true: its status is main's, whichever task
\* ended last; a deadlock's message names a wait that is there; and a send or
\* receive that traps because nothing is scheduled leaves main alone.
THEOREM EndIsReported == Spec => []EndReported
BY Invariant, PTL DEF IInv

LEMMA Orderly == IInv => ContextsInOrder
<1> SUFFICES ASSUME IInv PROVE ContextsInOrder
  OBVIOUS
<1>1. TypeOK
  BY DEF IInv
<1>2. CASE halted
  BY <1>1, <1>2 DEF ContextsInOrder, ContextIsHead, LiveCountExact
<1>3. CASE ~halted
  <2> DEFINE others == {t \in Tasks : saved[t] # Gone}
  <2>1. /\ run # <<>> /\ live.of = Me /\ Me \in Range(run) /\ Range(run) \subseteq Tasks
        /\ Parked(W) \subseteq Tasks /\ Kept((Range(run) \cup Parked(W)) \ {Me}, saved)
    BY <1>3, AtWork
  <2>2. Queued \subseteq Tasks /\ Me \in Queued /\ Kept(Queued \ {Me}, saved)
    BY <2>1, QueuedIs
  <2>3. ContextIsHead
    BY <2>1, <2>2 DEF ContextIsHead, Kept, Me
  <2>4. others = Queued \ {Me}
    BY <2>2 DEF Kept
  <2> HIDE DEF others
  <2>5. IsFiniteSet(Queued)
    BY <2>2, FS_Subset, T3Assumption
  <2>6. Cardinality(others) = Cardinality(Queued) - 1 /\ Cardinality(Queued) \in Nat
    BY <2>2, <2>4, <2>5, FS_RemoveElement, FS_CardinalityType
  <2>7. LiveTaskCount = Cardinality(others) + 1
    BY <2>1 DEF LiveTaskCount, others
  <2>8. LiveCountExact
    BY <2>6, <2>7 DEF LiveCountExact
  <2> QED BY <1>1, <2>3, <2>8 DEF ContextsInOrder
<1> QED BY <1>2, <1>3

\* No syscall returns its result into, or continues, another task than the one
\* that made it: the machine holds the context of the head of R, saved those of
\* all others that are queued, and the count by which a region decides whether
\* memory may be released is exact.
THEOREM ContextsStayInOrder == Spec => []ContextsInOrder
BY Invariant, Orderly, PTL

-----------------------------------------------------------------------------
(* The emulator implements CoopSched.                                      *)

\* What CoopSched sees while the program runs.
Bars ==
  ~halted => /\ runBar = run /\ run # <<>> /\ outcomeBar = "running"
             /\ opBar = Redo(live, saved)

\* The operation of a task that waits is that of its queue.
LEMMA OpsSeen ==
  ASSUME NEW r, NEW w, NEW p \in [Tasks -> Ops], PlacedBy(Queues, r, w, p),
         NEW l, NEW s, \A t \in Tasks \ Parked(w) : Redo(l, s)[t] = p[t]
  PROVE  opIn(w, l, s) = p
<1>1. ASSUME NEW t \in Tasks PROVE opIn(w, l, s)[t] = p[t]
  <2>1. CASE \E o \in Queues : t \in Range(w[o])
    <3> DEFINE x == CHOOSE o \in Queues : t \in Range(w[o])
    <3>1. x \in Queues /\ t \in Range(w[x])
      BY <2>1
    <3>2. opIn(w, l, s)[t] = x
      BY <2>1 DEF opIn
    <3> QED BY <3>1, <3>2 DEF PlacedBy
  <2>2. CASE ~\E o \in Queues : t \in Range(w[o])
    <3>1. t \in Tasks \ Parked(w)
      BY <2>2 DEF Parked, ParkedBy
    <3>2. opIn(w, l, s)[t] = Redo(l, s)[t]
      BY <2>2 DEF opIn, Redo
    <3> QED BY <3>1, <3>2
  <2> QED BY <2>1, <2>2
<1>2. opIn(w, l, s) = [t \in Tasks |-> opIn(w, l, s)[t]]
  BY DEF opIn
<1> QED BY <1>1, <1>2

LEMMA BarsAre == IInv => Bars
<1> SUFFICES ASSUME IInv, ~halted
             PROVE  runBar = run /\ run # <<>> /\ outcomeBar = "running"
                    /\ opBar = Redo(live, saved)
  BY DEF Bars
<1>1. /\ run # <<>> /\ PlacedBy(Queues, run, W, Redo(live, saved))
      /\ Redo(live, saved) \in [Tasks -> Ops]
  BY AtWork
<1>2. opBar = Redo(live, saved)
  BY <1>1, OpsSeen DEF opBar
<1> QED BY <1>1, <1>2 DEF runBar, outcomeBar, ended

LEMMA BarsStay == IInv' => Bars'
BY BarsAre, PTL

LEMMA SameTerms ==
  ASSUME TypeOK
  PROVE  /\ Coop!Idle = Idle
         /\ \A c \in Chans : /\ Coop!Exists(c) <=> obj[c] # "none"
                             /\ c \in closedBar <=> obj[c] = "closed"
                             /\ obj[c] = "open" => (Coop!HasRoom(c) <=> ~Full(c))
<1>1. \A c \in Chans : chanCap[c] \in Nat /\ queue[c] \in Nat
  <2>1. \A c \in Chans : chanCap[c] \in Caps \cup {0} /\ queue[c] \in Nat
    BY DEF TypeOK
  <2>2. \A k \in Caps \cup {0} : k \in Nat
    BY T3Assumption
  <2> QED BY <2>1, <2>2
<1> QED BY <1>1 DEF Idle, Full, capBar, closedBar, Coop!Idle, Coop!Exists, Coop!None,
                    Coop!HasRoom

LEMMA Seen ==
  ASSUME IInv, ~halted
  PROVE  /\ runBar = run /\ outcomeBar = "running" /\ opBar = Redo(live, saved)
         /\ opBar \in [Tasks -> Ops] /\ opBar[Me] = live.redo /\ Me \in Tasks /\ live.of = Me
         /\ Coop!May(Me) /\ TypeOK
<1>1. /\ runBar = run /\ run # <<>> /\ outcomeBar = "running" /\ opBar = Redo(live, saved)
  BY BarsAre DEF Bars
<1> QED BY <1>1, AtWork DEF Coop!May, Me, IInv

LEMMA SameStarts ==
  ASSUME IInv, NEW o
  PROVE  /\ Begins => Coop!Begins(Me)
         /\ Starts(o) => Coop!Starts(Me, o)
<1>1. Begins => Coop!Begins(Me)
  BY Seen, SameTerms DEF Begins, Coop!Begins
<1>2. (~halted /\ live.redo = o /\ UNCHANGED used) => Coop!Starts(Me, o)
  BY Seen DEF Coop!Starts
<1> QED BY <1>1, <1>2 DEF Starts, Coop!Starts

\* A woken task reaches R whether or not the scheduler is active: before the first
\* fork nobody waits.
LEMMA SameWake ==
  ASSUME IInv, ~halted, NEW o \in Queues
  PROVE  WakeOne(run, W[o]) = Coop!WakeOne(run, W[o]) /\ Rest(W[o]) = Coop!Rest(W[o])
<1>1. ~active => W[o] = <<>>
  BY DEF IInv, Going, Alone
<1> QED BY <1>1 DEF WakeOne, Rest, Coop!WakeOne, Coop!Rest

\* The channels and the handles as CoopSched sees them.
LEMMA SameChans ==
  ASSUME UNCHANGED <<obj, chanCap>>
  PROVE  capBar' = capBar /\ closedBar' = closedBar
BY DEF capBar, closedBar

LEMMA SameStates ==
  ASSUME ~ended, ~ended', Queued' = Queued, tstate' = tstate
  PROVE  tstateBar' = tstateBar
BY DEF tstateBar

\* What CoopSched sees of a step after which the program goes on: with live and
\* saved unchanged, and with the running task's operation done.
LEMMA SeenThen ==
  ASSUME IInv, IInv', ~halted, ~halted'
  PROVE  /\ runBar' = run' /\ run' # <<>> /\ outcomeBar' = "running"
         /\ opBar' = Redo(live', saved') /\ ~ended /\ ~ended'
BY BarsStay DEF Bars, ended

LEMMA DoneSeen ==
  ASSUME IInv, IInv', ~halted, ~halted', Done, saved' = saved
  PROVE  opBar' = [opBar EXCEPT ![Me] = Idle]
<1>1. opBar' = Redo(live', saved) /\ opBar = Redo(live, saved) /\ opBar \in [Tasks -> Ops]
      /\ Me \in Tasks
  BY Seen, SeenThen
<1>2. live' \in Context /\ live'.of = Me /\ \A t \in Tasks \ {Me} : opBar'[t] = opBar[t]
  BY <1>1, RedoGoesOn DEF GoesOn, Done
<1>3. live'.redo = Idle
  BY AtWork DEF Done, Context
<1>4. opBar'[Me] = Idle /\ opBar' = [t \in Tasks |-> opBar'[t]]
  BY <1>1, <1>2, <1>3 DEF Redo
<1> QED BY <1>1, <1>2, <1>4

LEMMA SeesNewChannel ==
  ASSUME IInv, IInv', NEW c \in Chans, NEW k \in Caps, ChannelNew(c, k)
  PROVE  Coop!NewChannel(Me, c, k)
<1>1. /\ ~halted /\ ~halted' /\ live.redo = Idle /\ obj[c] = "none"
      /\ UNCHANGED <<run, blocked, sblocked, ablocked, queue, tstate, saved, live, used>>
      /\ obj' = [obj EXCEPT ![c] = "open"] /\ chanCap' = [chanCap EXCEPT ![c] = k]
  BY DEF ChannelNew, queues, ending
<1>2. /\ runBar = run /\ opBar = Redo(live, saved) /\ opBar[Me] = live.redo /\ Coop!May(Me)
      /\ outcomeBar = "running" /\ TypeOK
  BY <1>1, Seen
<1>3. /\ runBar' = run' /\ outcomeBar' = "running" /\ opBar' = Redo(live', saved')
      /\ ~ended /\ ~ended'
  BY <1>1, SeenThen
<1>4. capBar' = [capBar EXCEPT ![c] = k] /\ closedBar' = closedBar
  BY <1>1, <1>2 DEF capBar, closedBar, TypeOK
<1>5. tstateBar' = tstateBar
  <2>1. Queued' = Queued
    BY <1>1 DEF Queued, W
  <2> QED BY <1>1, <1>3, <2>1, SameStates
<1>6. UNCHANGED <<runBar, opBar, outcomeBar>>
  BY <1>1, <1>2, <1>3
<1> QED BY <1>1, <1>2, <1>4, <1>5, <1>6, SameTerms DEF Coop!NewChannel

LEMMA SeesSendPush ==
  ASSUME IInv, IInv', NEW c \in Chans, SendPush(c)
  PROVE  Coop!SendPush(Me, c)
<1> DEFINE o == <<"recv", c>>
<1>1. /\ ~halted /\ ~halted' /\ obj[c] = "open" /\ ~Full(c) /\ Done /\ saved' = saved
      /\ queue' = [queue EXCEPT ![c] = @ + 1]
      /\ run' = WakeOne(run, blocked[c]) /\ blocked' = [blocked EXCEPT ![c] = Rest(blocked[c])]
      /\ UNCHANGED <<sblocked, ablocked, obj, chanCap, tstate>>
  BY DEF SendPush, Starts, Begins, ending
<1>2. runBar = run /\ Coop!May(Me) /\ outcomeBar = "running" /\ TypeOK
  BY <1>1, Seen
<1>3. runBar' = run' /\ outcomeBar' = "running" /\ ~ended /\ ~ended'
  BY <1>1, SeenThen
<1>4. o \in Queues /\ W[o] = blocked[c]
  BY <1>2, WTypes
<1>5. W' = [W EXCEPT ![o] = Rest(W[o])]
  BY <1>1, <1>2, <1>4, WRecv
<1>6. opBar' = [opBar EXCEPT ![Me] = Idle]
  BY <1>1, DoneSeen
<1>7. Coop!Starts(Me, <<"send", c>>)
  BY SameStarts DEF SendPush
<1> HIDE DEF o
<1>8. run' = Coop!WakeOne(run, blocked[c]) /\ blocked' = [blocked EXCEPT ![c] = Coop!Rest(blocked[c])]
  BY <1>1, <1>4, SameWake
<1>9. tstateBar' = tstateBar
  <2>1. run' = WakeOne(run, W[o]) /\ GoesOn
    BY <1>1, <1>4 DEF GoesOn, Done
  <2>2. Leaves(Queued)
    BY <1>1, <1>4, <1>5, <2>1, WakesAndGoes
  <2> QED BY <1>1, <1>3, <2>2, SameStates DEF Leaves
<1>10. capBar' = capBar /\ closedBar' = closedBar
  BY <1>1, SameChans
<1>11. Coop!Exists(c) /\ c \notin closedBar /\ Coop!HasRoom(c)
  BY <1>1, <1>2, SameTerms
<1> QED BY <1>1, <1>2, <1>3, <1>6, <1>7, <1>8, <1>9, <1>10, <1>11, SameTerms DEF Coop!SendPush

LEMMA SeesRecv ==
  ASSUME IInv, IInv', NEW c \in Chans, RecvTake(c) \/ RecvClosed(c)
  PROVE  Coop!RecvTake(Me, c) \/ Coop!RecvClosed(Me, c)
<1> DEFINE o == <<"send", c>>
<1>1. /\ ~halted /\ ~halted' /\ obj[c] # "none" /\ Done /\ saved' = saved
      /\ run' = WakeOne(run, sblocked[c])
      /\ sblocked' = [sblocked EXCEPT ![c] = Rest(sblocked[c])]
      /\ UNCHANGED <<blocked, ablocked, obj, chanCap, tstate>>
  BY DEF RecvTake, RecvClosed, Starts, Begins, ending, chans
<1>2. runBar = run /\ Coop!May(Me) /\ outcomeBar = "running" /\ TypeOK
  BY <1>1, Seen
<1>3. runBar' = run' /\ outcomeBar' = "running" /\ ~ended /\ ~ended'
  BY <1>1, SeenThen
<1>4. o \in Queues /\ W[o] = sblocked[c]
  BY <1>2, WTypes
<1>5. W' = [W EXCEPT ![o] = Rest(W[o])]
  BY <1>1, <1>2, <1>4, WSend
<1>6. opBar' = [opBar EXCEPT ![Me] = Idle]
  BY <1>1, DoneSeen
<1>7. Coop!Starts(Me, <<"recv", c>>)
  BY SameStarts DEF RecvTake, RecvClosed
<1> HIDE DEF o
<1>9. tstateBar' = tstateBar
  <2>1. run' = WakeOne(run, W[o]) /\ GoesOn
    BY <1>1, <1>4 DEF GoesOn, Done
  <2>2. Leaves(Queued)
    BY <1>1, <1>4, <1>5, <2>1, WakesAndGoes
  <2> QED BY <1>1, <1>3, <2>2, SameStates DEF Leaves
<1>10. capBar' = capBar /\ closedBar' = closedBar
  BY <1>1, SameChans
<1>11. Coop!Exists(c)
  BY <1>1, <1>2, SameTerms
<1>12. CASE RecvTake(c)
  <2>1. queue[c] > 0 /\ queue' = [queue EXCEPT ![c] = @ - 1]
    BY <1>12 DEF RecvTake
  <2>2. /\ run' = Coop!WakeOne(run, sblocked[c])
        /\ sblocked' = [sblocked EXCEPT ![c] = Coop!Rest(sblocked[c])]
    BY <1>1, <1>4, SameWake
  <2>3. Coop!RecvTake(Me, c)
    BY <1>1, <1>2, <1>3, <1>6, <1>7, <1>9, <1>10, <1>11, <2>1, <2>2, SameTerms DEF Coop!RecvTake
  <2> QED BY <2>3
<1>13. CASE RecvClosed(c)
  <2>1. queue[c] = 0 /\ obj[c] = "closed" /\ queue' = queue
    BY <1>13 DEF RecvClosed, chans
  <2>2. sblocked[c] = <<>>
    BY <1>1, <2>1 DEF IInv, Going, Faced
  <2>3. run' = run /\ Rest(sblocked[c]) = sblocked[c]
    BY <1>1, <2>2 DEF WakeOne, Rest
  <2>4. sblocked' = sblocked
    BY <1>1, <1>2, <2>3 DEF TypeOK
  <2>5. c \in closedBar
    BY <1>2, <2>1, SameTerms
  <2>6. Coop!RecvClosed(Me, c)
    BY <1>1, <1>2, <1>3, <1>6, <1>7, <1>9, <1>10, <1>11, <2>1, <2>3, <2>4, <2>5, SameTerms
       DEF Coop!RecvClosed
  <2> QED BY <2>6
<1> QED BY <1>12, <1>13

LEMMA SeesClose ==
  ASSUME IInv, IInv', NEW c \in Chans, Close(c)
  PROVE  Coop!Close(Me, c)
<1>1. /\ ~halted /\ ~halted' /\ Begins /\ obj[c] # "none" /\ obj' = [obj EXCEPT ![c] = "closed"]
      /\ UNCHANGED <<ablocked, queue, chanCap, tstate, saved, live>>
  BY DEF Close, Begins, ending
<1>2. /\ runBar = run /\ opBar = Redo(live, saved) /\ Coop!May(Me)
      /\ outcomeBar = "running" /\ TypeOK
  BY <1>1, Seen
<1>3. /\ runBar' = run' /\ outcomeBar' = "running" /\ opBar' = Redo(live', saved')
      /\ ~ended /\ ~ended'
  BY <1>1, SeenThen
<1>4. /\ run' = run \o blocked[c] \o sblocked[c]
      /\ blocked' = [blocked EXCEPT ![c] = <<>>] /\ sblocked' = [sblocked EXCEPT ![c] = <<>>]
  <2>1. CASE active
    BY <2>1 DEF Close
  <2>2. CASE ~active
    <3>1. UNCHANGED <<run, blocked, sblocked>>
      BY <2>2 DEF Close
    <3>2. blocked[c] = <<>> /\ sblocked[c] = <<>>
      BY <1>1, <1>2, <2>2, WTypes DEF IInv, Going, Alone
    <3>3. run = run \o <<>> \o <<>>
      BY <1>2 DEF TypeOK
    <3> QED BY <1>2, <3>1, <3>2, <3>3 DEF TypeOK
  <2> QED BY <2>1, <2>2
<1>5. tstateBar' = tstateBar
  <2> DEFINE o1 == <<"recv", c>>
             o2 == <<"send", c>>
  <2>1. /\ o1 \in Queues /\ W[o1] = blocked[c] /\ o2 \in Queues \ {o1} /\ W[o2] = sblocked[c]
    BY <1>2, WTypes
  <2>2. W' = [W EXCEPT ![o1] = <<>>, ![o2] = <<>>]
    <3>1. ASSUME NEW o \in Queues
          PROVE  W'[o] = IF o \in {o1, o2} THEN <<>> ELSE W[o]
      BY <1>1, <1>2, <1>4 DEF W, WaitsIn, Queues, TypeOK
    <3>2. W' = [o \in Queues |-> W'[o]] /\ W = [o \in Queues |-> W[o]]
      BY DEF W, WaitsIn
    <3> QED BY <2>1, <3>1, <3>2
  <2>3. run' = run \o W[o1] \o W[o2]
    BY <1>4, <2>1
  <2> HIDE DEF o1, o2
  <2>4. Leaves(Queued)
    BY <1>1, <2>1, <2>2, <2>3, WakesAllAndGoes
  <2> QED BY <1>1, <1>3, <2>4, SameStates DEF Leaves
<1>6. closedBar' = closedBar \cup {c} /\ capBar' = capBar
  BY <1>1, <1>2 DEF closedBar, capBar, TypeOK
<1>7. Coop!Exists(c) /\ Coop!Begins(Me)
  BY <1>1, <1>2, SameTerms, SameStarts
<1>8. opBar' = opBar
  BY <1>1, <1>2, <1>3
<1> QED BY <1>1, <1>2, <1>3, <1>4, <1>5, <1>6, <1>7, <1>8 DEF Coop!Close

LEMMA SeesFork ==
  ASSUME IInv, IInv', NEW u \in Tasks, Fork(u)
  PROVE  Coop!Spawn(Me, u)
<1>1. /\ ~halted /\ ~halted' /\ Begins /\ u # Main /\ tstate[u] = "none"
      /\ run' = Append(run, u) /\ tstate' = [tstate EXCEPT ![u] = "running"]
      /\ UNCHANGED <<blocked, sblocked, ablocked, obj, queue, chanCap>>
  BY DEF Fork, Begins, ending, chans
<1>2. /\ runBar = run /\ opBar = Redo(live, saved) /\ Coop!May(Me)
      /\ outcomeBar = "running" /\ TypeOK
  BY <1>1, Seen
<1>3. /\ runBar' = run' /\ outcomeBar' = "running" /\ opBar' = Redo(live', saved')
      /\ ~ended /\ ~ended'
  BY <1>1, SeenThen
<1>4. Queued' = Queued \cup {u} /\ Redo(live', saved') = Redo(live, saved)
  BY ForkLeaves DEF Leaves
<1>5. tstateBar[u] = "unborn" /\ tstateBar' = [tstateBar EXCEPT ![u] = "running"]
  <2>1. \A t \in Tasks : tstateBar'[t] = IF t = u THEN "running" ELSE tstateBar[t]
    BY <1>1, <1>2, <1>3, <1>4 DEF tstateBar, TypeOK
  <2>2. tstateBar' = [t \in Tasks |-> tstateBar'[t]] /\ tstateBar = [t \in Tasks |-> tstateBar[t]]
    BY DEF tstateBar
  <2>3. tstateBar[u] = "unborn"
    BY <1>1 DEF tstateBar
  <2>4. tstateBar' = [tstateBar EXCEPT ![u] = "running"]
    BY <2>1, <2>2
  <2> QED BY <2>3, <2>4
<1>6. capBar' = capBar /\ closedBar' = closedBar
  BY <1>1, SameChans
<1> QED BY <1>1, <1>2, <1>3, <1>4, <1>5, <1>6, SameStarts DEF Coop!Spawn

LEMMA SeesYield ==
  ASSUME IInv, IInv', Yield
  PROVE  Coop!Yield(Me)
<1>1. /\ ~halted /\ ~halted' /\ Begins
      /\ UNCHANGED <<blocked, sblocked, ablocked, obj, queue, chanCap, tstate>>
  BY DEF Yield, Begins, ending, chans
<1>2. /\ runBar = run /\ opBar = Redo(live, saved) /\ Coop!May(Me)
      /\ outcomeBar = "running" /\ TypeOK /\ Me \in Tasks
  BY <1>1, Seen
<1>3. /\ runBar' = run' /\ outcomeBar' = "running" /\ opBar' = Redo(live', saved')
      /\ ~ended /\ ~ended'
  BY <1>1, SeenThen
<1>4. Queued' = Queued /\ Redo(live', saved') = Redo(live, saved)
  BY YieldLeaves DEF Leaves
<1>5. tstateBar' = tstateBar
  BY <1>1, <1>3, <1>4, SameStates
<1>6. run' = Append(Tail(run), Me)
  <2>1. CASE active
    BY <2>1 DEF Yield
  <2>2. CASE ~active
    <3>1. run' = run /\ run = <<Main>> /\ Me = Main
      BY <1>1, <2>2, MainAlone DEF Yield
    <3>2. Append(Tail(<<Main>>), Main) = <<Main>>
      OBVIOUS
    <3> QED BY <3>1, <3>2
  <2> QED BY <2>1, <2>2
<1>7. capBar' = capBar /\ closedBar' = closedBar
  BY <1>1, SameChans
<1> QED BY <1>1, <1>2, <1>3, <1>4, <1>5, <1>6, <1>7, SameStarts DEF Coop!Yield

LEMMA SeesAwaitTake ==
  ASSUME IInv, IInv', NEW u \in Tasks, AwaitTake(u)
  PROVE  Coop!Await(Me, u)
<1>1. /\ ~halted /\ ~halted' /\ tstate[u] = "done" /\ tstate' = [tstate EXCEPT ![u] = "taken"]
      /\ Done /\ saved' = saved
      /\ UNCHANGED <<run, blocked, sblocked, ablocked, obj, queue, chanCap>>
  BY DEF AwaitTake, Starts, Begins, ending, chans, queues
<1>2. runBar = run /\ Coop!May(Me) /\ outcomeBar = "running" /\ TypeOK
  BY <1>1, Seen
<1>3. runBar' = run' /\ outcomeBar' = "running" /\ ~ended /\ ~ended'
  BY <1>1, SeenThen
<1>4. u # Main
  BY <1>1 DEF IInv, Going, Faced
<1>5. tstateBar[u] = "done" /\ tstateBar' = [tstateBar EXCEPT ![u] = "taken"]
  <2>1. Queued' = Queued
    BY <1>1 DEF Queued, W
  <2>2. \A t \in Tasks : tstateBar'[t] = IF t = u THEN "taken" ELSE tstateBar[t]
    BY <1>1, <1>2, <1>3, <1>4, <2>1 DEF tstateBar, TypeOK
  <2>3. tstateBar' = [t \in Tasks |-> tstateBar'[t]] /\ tstateBar = [t \in Tasks |-> tstateBar[t]]
    BY DEF tstateBar
  <2>4. tstateBar[u] = "done"
    BY <1>1, <1>4 DEF tstateBar
  <2>5. tstateBar' = [tstateBar EXCEPT ![u] = "taken"]
    BY <2>2, <2>3
  <2> QED BY <2>4, <2>5
<1>6. opBar' = [opBar EXCEPT ![Me] = Idle]
  BY <1>1, DoneSeen
<1>7. capBar' = capBar /\ closedBar' = closedBar
  BY <1>1, SameChans
<1>8. Coop!Starts(Me, <<"await", u>>)
  BY SameStarts DEF AwaitTake
<1> QED BY <1>1, <1>2, <1>3, <1>4, <1>5, <1>6, <1>7, <1>8, SameTerms DEF Coop!Await

LEMMA SeesTrap ==
  ASSUME IInv, IInv', NEW why \in {"closed", "unscheduled", "taken", "body"}, TrapWith(why)
  PROVE  Coop!Trap(Me)
<1>1. /\ ~halted /\ halted' = TRUE /\ trap' = why
      /\ UNCHANGED <<run, blocked, sblocked, ablocked, obj, queue, chanCap, tstate, saved, live,
                     used>>
  BY DEF TrapWith, queues, chans
<1>2. runBar = run /\ Coop!May(Me) /\ outcomeBar = "running" /\ ~ended
  BY <1>1, Seen DEF ended
<1>3. ~ended' /\ runBar' = run' /\ outcomeBar' = "trap"
  BY <1>1 DEF ended, runBar, outcomeBar
<1>4. W' = W /\ Queued' = Queued
  BY <1>1 DEF W, Queued
<1>5. opBar' = opBar
  BY <1>1, <1>4 DEF opBar
<1>6. tstateBar' = tstateBar
  BY <1>1, <1>2, <1>3, <1>4, SameStates
<1>7. capBar' = capBar /\ closedBar' = closedBar
  BY <1>1, SameChans
<1> QED BY <1>1, <1>2, <1>3, <1>5, <1>6, <1>7 DEF Coop!Trap

\* What end_of_program says is how CoopSched ends.
LEMMA SeesEnd ==
  ASSUME trap = "none", run' = <<>>, NEW exit, NEW r1,
         EndOfProgram(blocked', sblocked', ablocked', exit, r1)
  PROVE  /\ runBar' = <<>>
         /\ outcomeBar' = Coop!Ending(<<>>, blocked', sblocked', ablocked')
         /\ ended' <=> /\ \A c \in Chans : blocked'[c] = <<>> /\ sblocked'[c] = <<>>
                       /\ \A u \in Tasks : ablocked'[u] = <<>>
<1>1. halted' = TRUE
  BY DEF EndOfProgram
<1>2. trap' = IF \E u \in Tasks : ablocked'[u] # <<>> THEN "await"
              ELSE IF \E c \in Chans : sblocked'[c] # <<>> THEN "drain"
              ELSE IF \E c \in Chans : blocked'[c] # <<>> THEN "fill" ELSE "none"
  BY DEF EndOfProgram
<1>3. ended' <=> /\ \A c \in Chans : blocked'[c] = <<>> /\ sblocked'[c] = <<>>
                 /\ \A u \in Tasks : ablocked'[u] = <<>>
  BY <1>1, <1>2 DEF ended
<1>4. runBar' = <<>>
  BY DEF runBar
<1>5. outcomeBar' = IF ended' THEN "ended" ELSE "deadlock"
  BY <1>1, <1>2 DEF outcomeBar, ended
<1> QED BY <1>3, <1>4, <1>5 DEF Coop!Ending

\* The running task joins the queue at o.
LEMMA SeesBlock ==
  ASSUME IInv, IInv', ~halted, NEW o \in Queues,
         BlockOn(o, blocked', sblocked', ablocked'),
         W' = [W EXCEPT ![o] = Append(W[o], Me)],
         \/ \E c \in Chans : blocked'[c] # <<>> \/ sblocked'[c] # <<>>
         \/ \E u \in Tasks : ablocked'[u] # <<>>
  PROVE  /\ runBar' = Tail(runBar) /\ opBar' = [opBar EXCEPT ![Me] = o]
         /\ outcomeBar' = Coop!Ending(runBar', blocked', sblocked', ablocked')
         /\ UNCHANGED <<tstateBar, capBar, closedBar, queue>>
<1> DEFINE p == Redo(live, saved)
           p2 == [p EXCEPT ![Me] = o]
<1>1. run' = Tail(run) /\ UNCHANGED <<obj, queue, chanCap, tstate>>
  BY DEF BlockOn, chans
<1>2. runBar = run /\ opBar = p /\ ~ended
  BY Seen DEF ended
<1>3. /\ run \in Seq(Tasks) /\ run # <<>> /\ W \in [Queues -> Seq(Tasks)]
      /\ PlacedBy(Queues, run, W, p) /\ p \in [Tasks -> Ops] /\ Me \in Tasks
      /\ Me \in Range(run)
  BY AtWork
<1>4. capBar' = capBar /\ closedBar' = closedBar
  BY <1>1, SameChans
<1>5. CASE run' = <<>>
  <2>1. EndOfProgram(blocked', sblocked', ablocked', mainExit, live.of) /\ UNCHANGED <<saved, live>>
    BY <1>5 DEF BlockOn
  <2>2. /\ runBar' = <<>> /\ outcomeBar' = Coop!Ending(<<>>, blocked', sblocked', ablocked')
        /\ ~ended'
    BY <1>5, <2>1, SeesEnd DEF IInv, Going
  <2>3. PlacedBy(Queues, run', W', p2) /\ Parked(W') = Parked(W) \cup {Me}
    <3> HIDE DEF p
    <3>1. HeadJoins(Tasks, Queues, run, W, p, o)
      BY <1>3, HeadWaits
    <3>2. W' = [W EXCEPT ![o] = Append(@, Head(run))]
      BY DEF Me
    <3> QED BY <1>1, <3>1, <3>2 DEF HeadJoins, Me, Parked
  <2>4. p2 \in [Tasks -> Ops] /\ \A t \in Tasks \ Parked(W') : Redo(live, saved)[t] = p2[t]
    BY <1>3, <2>3 DEF Ops
  <2> HIDE DEF p, p2
  <2>5. opBar' = p2
    <3> DEFINE w == W'
               r == run'
    <3>1. /\ PlacedBy(Queues, r, w, p2) /\ p2 \in [Tasks -> Ops]
          /\ \A t \in Tasks \ Parked(w) : Redo(live, saved)[t] = p2[t]
      BY <2>3, <2>4
    <3> HIDE DEF w, r
    <3>3. opIn(w, live, saved) = p2
      BY <3>1, OpsSeen
    <3>2. opBar' = opIn(W', live', saved')
      BY DEF opBar
    <3> QED BY <2>1, <3>2, <3>3 DEF w
  <2>6. Queued' = Queued
    <3>1. Range(run) = {Me} \cup Range(run')
      BY <1>1, <1>3, OfTail DEF Me
    <3>2. Range(run') \cup Parked(W') = Range(run) \cup Parked(W)
      BY <2>3, <3>1
    <3> QED BY <3>2 DEF Queued, Parked, ParkedBy
  <2>7. tstateBar' = tstateBar
    BY <1>1, <1>2, <2>2, <2>6, SameStates
  <2> QED BY <1>1, <1>2, <1>4, <1>5, <2>2, <2>5, <2>7 DEF p, p2
<1>6. CASE run' # <<>>
  <2>1. /\ Restore([saved EXCEPT ![Me] = [live EXCEPT !.redo = o]], run', live)
        /\ ~halted'
    BY <1>6 DEF BlockOn
  <2>2. Leaves(Queued) /\ Redo(live', saved') = p2
    BY <1>1, <1>6, <2>1, BlocksAndSwitches
  <2>3. /\ runBar' = run' /\ outcomeBar' = "running" /\ opBar' = Redo(live', saved') /\ ~ended'
    BY <2>1, SeenThen
  <2>4. tstateBar' = tstateBar
    BY <1>1, <1>2, <2>2, <2>3, SameStates DEF Leaves
  <2>5. Coop!Ending(runBar', blocked', sblocked', ablocked') = "running"
    BY <1>6, <2>3 DEF Coop!Ending
  <2> QED BY <1>1, <1>2, <1>4, <2>2, <2>3, <2>4, <2>5
<1> QED BY <1>5, <1>6

LEMMA SeesSendBlock ==
  ASSUME IInv, IInv', NEW c \in Chans, SendBlock(c)
  PROVE  Coop!SendBlock(Me, c)
<1> DEFINE o == <<"send", c>>
           q == Append(sblocked[c], Me)
<1>1. /\ ~halted /\ obj[c] = "open" /\ Full(c) /\ sblocked' = [sblocked EXCEPT ![c] = q]
      /\ UNCHANGED <<blocked, ablocked>> /\ BlockOn(o, blocked, sblocked', ablocked)
  BY DEF SendBlock, Starts, Begins, Full
<1>2. Coop!May(Me) /\ TypeOK /\ Me \in Tasks /\ runBar = run
  BY <1>1, Seen
<1>3. W[o] = sblocked[c] /\ o \in Queues
  BY <1>2, WTypes
<1>4. W' = [W EXCEPT ![o] = q]
  BY <1>1, <1>2, WSend
<1>5. q # <<>> /\ sblocked'[c] = q
  BY <1>1, <1>2, OfAppend DEF TypeOK
<1>6. /\ runBar' = Tail(runBar) /\ opBar' = [opBar EXCEPT ![Me] = o]
      /\ outcomeBar' = Coop!Ending(runBar', blocked', sblocked', ablocked')
      /\ UNCHANGED <<tstateBar, capBar, closedBar, queue>>
  <2>1. BlockOn(o, blocked', sblocked', ablocked') /\ W' = [W EXCEPT ![o] = Append(W[o], Me)]
    BY <1>1, <1>3, <1>4
  <2>2. \E d \in Chans : blocked'[d] # <<>> \/ sblocked'[d] # <<>>
    BY <1>5
  <2> HIDE DEF o, q
  <2> QED BY <1>1, <1>3, <2>1, <2>2, SeesBlock
<1>7. Coop!Exists(c) /\ c \notin closedBar /\ ~Coop!HasRoom(c)
  BY <1>1, <1>2, SameTerms
<1>8. Coop!Starts(Me, <<"send", c>>)
  BY SameStarts DEF SendBlock
<1> QED BY <1>1, <1>2, <1>6, <1>7, <1>8 DEF Coop!SendBlock

LEMMA SeesRecvBlock ==
  ASSUME IInv, IInv', NEW c \in Chans, RecvBlock(c)
  PROVE  Coop!RecvBlock(Me, c)
<1> DEFINE o == <<"recv", c>>
           q == Append(blocked[c], Me)
<1>1. /\ ~halted /\ obj[c] = "open" /\ queue[c] = 0 /\ blocked' = [blocked EXCEPT ![c] = q]
      /\ UNCHANGED <<sblocked, ablocked>> /\ BlockOn(o, blocked', sblocked, ablocked)
  BY DEF RecvBlock, Starts, Begins
<1>2. Coop!May(Me) /\ TypeOK /\ Me \in Tasks /\ runBar = run
  BY <1>1, Seen
<1>3. W[o] = blocked[c] /\ o \in Queues
  BY <1>2, WTypes
<1>4. W' = [W EXCEPT ![o] = q]
  BY <1>1, <1>2, WRecv
<1>5. q # <<>> /\ blocked'[c] = q
  BY <1>1, <1>2, OfAppend DEF TypeOK
<1>6. /\ runBar' = Tail(runBar) /\ opBar' = [opBar EXCEPT ![Me] = o]
      /\ outcomeBar' = Coop!Ending(runBar', blocked', sblocked', ablocked')
      /\ UNCHANGED <<tstateBar, capBar, closedBar, queue>>
  <2>1. BlockOn(o, blocked', sblocked', ablocked') /\ W' = [W EXCEPT ![o] = Append(W[o], Me)]
    BY <1>1, <1>3, <1>4
  <2>2. \E d \in Chans : blocked'[d] # <<>> \/ sblocked'[d] # <<>>
    BY <1>5
  <2> HIDE DEF o, q
  <2> QED BY <1>1, <1>3, <2>1, <2>2, SeesBlock
<1>7. Coop!Exists(c) /\ c \notin closedBar
  BY <1>1, <1>2, SameTerms
<1>8. Coop!Starts(Me, <<"recv", c>>)
  BY SameStarts DEF RecvBlock
<1> QED BY <1>1, <1>2, <1>6, <1>7, <1>8 DEF Coop!RecvBlock

LEMMA SeesAwaitBlock ==
  ASSUME IInv, IInv', NEW u \in Tasks, AwaitBlock(u)
  PROVE  Coop!AwaitBlock(Me, u)
<1> DEFINE o == <<"await", u>>
           q == Append(ablocked[u], Me)
<1>1. /\ ~halted /\ tstate[u] = "running" /\ ablocked' = [ablocked EXCEPT ![u] = q]
      /\ UNCHANGED <<blocked, sblocked>> /\ BlockOn(o, blocked, sblocked, ablocked')
  BY DEF AwaitBlock, Starts, Begins
<1>2. Coop!May(Me) /\ TypeOK /\ Me \in Tasks /\ runBar = run
  BY <1>1, Seen
<1>3. W[o] = ablocked[u] /\ o \in Queues
  BY <1>2, WTypes
<1>4. W' = [W EXCEPT ![o] = q]
  BY <1>1, <1>2, WAwait
<1>5. q # <<>> /\ ablocked'[u] = q
  BY <1>1, <1>2, OfAppend DEF TypeOK
<1>6. /\ runBar' = Tail(runBar) /\ opBar' = [opBar EXCEPT ![Me] = o]
      /\ outcomeBar' = Coop!Ending(runBar', blocked', sblocked', ablocked')
      /\ UNCHANGED <<tstateBar, capBar, closedBar, queue>>
  <2>1. BlockOn(o, blocked', sblocked', ablocked') /\ W' = [W EXCEPT ![o] = Append(W[o], Me)]
    BY <1>1, <1>3, <1>4
  <2>2. \E d \in Tasks : ablocked'[d] # <<>>
    BY <1>5
  <2> HIDE DEF o, q
  <2> QED BY <1>1, <1>3, <2>1, <2>2, SeesBlock
<1>7. u # Main
  BY <1>1 DEF IInv, Going, Faced
<1>8. tstateBar[u] = "running"
  BY <1>1, <1>7 DEF tstateBar
<1>9. Coop!Starts(Me, <<"await", u>>)
  BY SameStarts DEF AwaitBlock
<1> QED BY <1>1, <1>2, <1>6, <1>7, <1>8, <1>9 DEF Coop!AwaitBlock

\* The running task leaves R for good.
LEMMA SeesTaskExit ==
  ASSUME IInv, IInv', ~halted, live.redo = Idle, NEW r \in Seq(Tasks), TaskExit(r, ablocked'),
         W' \in [Queues -> Seq(Tasks)], PlacedBy(Queues, r, W', Redo(live, saved)),
         Range(r) \cup Parked(W') = (Range(run) \cup Parked(W)) \ {Me}
  PROVE  /\ runBar' = r /\ opBar' = opBar
         /\ outcomeBar' = Coop!Ending(r, blocked', sblocked', ablocked')
         /\ Main \in Queued \ {Me} <=> ~ended' /\ Main \in Queued'
<1> DEFINE p == Redo(live, saved)
<1>1. run' = r
  BY DEF TaskExit
<1>2. opBar = p /\ p \in [Tasks -> Ops] /\ p[Me] = Idle
  BY Seen
<1>3. Main \in Queued' <=> Main \in Queued \ {Me}
  BY <1>1, T3Assumption DEF Queued, Parked, ParkedBy
<1>4. CASE r = <<>>
  <2>1. EndOfProgram(blocked', sblocked', ablocked', mainExit', live.of) /\ UNCHANGED <<saved, live>>
    BY <1>4 DEF TaskExit
  <2>2. /\ runBar' = <<>> /\ outcomeBar' = Coop!Ending(<<>>, blocked', sblocked', ablocked')
        /\ ended' => /\ \A c \in Chans : blocked'[c] = <<>> /\ sblocked'[c] = <<>>
                     /\ \A u \in Tasks : ablocked'[u] = <<>>
    BY <1>1, <1>4, <2>1, SeesEnd DEF IInv, Going
  <2>3. opBar' = p
    <3> DEFINE w == W'
    <3>1. PlacedBy(Queues, r, w, p) /\ \A t \in Tasks \ Parked(w) : Redo(live, saved)[t] = p[t]
      OBVIOUS
    <3> HIDE DEF w, p
    <3>3. opIn(w, live, saved) = p
      BY <1>2, <3>1, OpsSeen
    <3>2. opBar' = opIn(W', live', saved')
      BY DEF opBar
    <3> QED BY <2>1, <3>2, <3>3 DEF w
  <2>4. ended' => Main \notin Queued'
    <3> SUFFICES ASSUME ended' PROVE Main \notin Queued'
      OBVIOUS
    <3>1. \A o \in Queues : W'[o] = <<>>
      BY <2>2 DEF W, WaitsIn, Queues
    <3>2. run' = <<>>
      BY <1>1, <1>4
    <3> QED BY <3>1, <3>2, OfEmpty DEF Queued
  <2> QED BY <1>2, <1>3, <1>4, <2>2, <2>3, <2>4
<1>5. CASE r # <<>>
  <2>1. Restore(saved, run', live) /\ ~halted'
    BY <1>1, <1>5 DEF TaskExit
  <2>2. Leaves(Queued \ {Me}) /\ Redo(live', saved') = [p EXCEPT ![Me] = Idle]
    BY <1>1, <1>5, <2>1, LeavesAndSwitches
  <2>3. /\ runBar' = run' /\ outcomeBar' = "running" /\ opBar' = Redo(live', saved') /\ ~ended'
    BY <2>1, SeenThen
  <2>4. [p EXCEPT ![Me] = Idle] = p
    BY <1>2
  <2>5. Coop!Ending(r, blocked', sblocked', ablocked') = "running"
    BY <1>5 DEF Coop!Ending
  <2> QED BY <1>1, <1>2, <1>3, <2>2, <2>3, <2>4, <2>5
<1> QED BY <1>4, <1>5

LEMMA SeesExitValue ==
  ASSUME IInv, IInv', ExitValue
  PROVE  Coop!Exit(Me)
<1> DEFINE o == <<"await", Me>>
           rest == Tail(run)
           p == Redo(live, saved)
           r == rest \o W[o]
           v == [W EXCEPT ![o] = <<>>]
<1>1. /\ ~halted /\ Me # Main /\ live.redo = Idle /\ tstate' = [tstate EXCEPT ![Me] = "done"]
      /\ ablocked' = [ablocked EXCEPT ![Me] = <<>>]
      /\ UNCHANGED <<blocked, sblocked, obj, queue, chanCap, used>>
  BY DEF ExitValue, TaskExit, chans
<1>2. /\ run \in Seq(Tasks) /\ run # <<>> /\ Me \in Tasks /\ Me \in Range(run)
      /\ W \in [Queues -> Seq(Tasks)] /\ PlacedBy(Queues, run, W, p)
      /\ Parked(W) \cap Range(run) = {} /\ Parked(W) \subseteq Tasks
  BY <1>1, AtWork
<1>3. TypeOK /\ o \in Queues /\ W[o] = ablocked[Me]
  BY <1>2, WTypes DEF IInv
<1>4. W' = v
  BY <1>1, <1>2, <1>3, WAwait
<1>5. PlacedBy(Queues, rest, W, p) /\ rest \in Seq(Tasks) /\ Range(rest) = Range(run) \ {Me}
  BY <1>2, RunAlone DEF Me
<1>6. TaskExit(r, ablocked') /\ r = Tail(run) \o ablocked[Me]
  BY <1>3 DEF ExitValue
<1>7. runBar = run /\ opBar[Me] = Idle /\ Coop!May(Me) /\ ~ended
  BY <1>1, Seen DEF ended
<1> HIDE DEF rest, p, o
<1>8. AreWoken(Tasks, Queues, rest, W, p, o)
  BY <1>2, <1>3, <1>5, AllWake
<1>9. /\ PlacedBy(Queues, r, v, p) /\ Parked(v) = Parked(W) \ Range(W[o]) /\ r \in Seq(Tasks)
      /\ Range(r) = Range(rest) \cup Range(W[o]) /\ Range(W[o]) \subseteq Parked(W)
  BY <1>8 DEF AreWoken, Parked
<1>10. W' \in [Queues -> Seq(Tasks)]
  <2>1. TypeOK'
    BY DEF IInv
  <2> QED BY <2>1, WaitsAre DEF W, TypeOK
<1> HIDE DEF r, v
<1>11. Range(r) \cup Parked(W') = (Range(run) \cup Parked(W)) \ {Me}
  BY <1>2, <1>4, <1>5, <1>9
<1>12. PlacedBy(Queues, r, W', Redo(live, saved))
  BY <1>4, <1>9 DEF p
<1>13. /\ runBar' = r /\ opBar' = opBar
       /\ outcomeBar' = Coop!Ending(r, blocked', sblocked', ablocked')
       /\ Main \in Queued \ {Me} <=> ~ended' /\ Main \in Queued'
  BY <1>1, <1>6, <1>9, <1>10, <1>11, <1>12, SeesTaskExit
<1>14. tstateBar' = [tstateBar EXCEPT ![Me] = "done"]
  <2>1. \A t \in Tasks : tstateBar'[t] = IF t = Me THEN "done" ELSE tstateBar[t]
    BY <1>1, <1>2, <1>3, <1>7, <1>13 DEF tstateBar, TypeOK
  <2>2. tstateBar' = [t \in Tasks |-> tstateBar'[t]] /\ tstateBar = [t \in Tasks |-> tstateBar[t]]
    BY DEF tstateBar
  <2> QED BY <2>1, <2>2
<1>15. capBar' = capBar /\ closedBar' = closedBar
  BY <1>1, SameChans
<1>16. runBar' = Tail(runBar) \o ablocked[Me] /\ Coop!Idle = Idle
  BY <1>3, <1>6, <1>7, <1>13, SameTerms
<1> QED BY <1>1, <1>7, <1>13, <1>14, <1>15, <1>16 DEF Coop!Exit

LEMMA SeesExitPlain ==
  ASSUME IInv, IInv', ExitPlain, ~strayed'
  PROVE  Coop!Exit(Me)
<1>1. /\ ~halted /\ Me = Main /\ live.redo = Idle
      /\ UNCHANGED <<blocked, sblocked, ablocked, tstate, obj, queue, chanCap, used>>
  BY DEF ExitPlain, TaskExit, chans
<1>2. /\ runBar = run /\ opBar[Me] = Idle /\ Coop!May(Me) /\ ~ended /\ TypeOK
  BY <1>1, Seen DEF ended
<1>3. ablocked[Me] = <<>>
  BY <1>1, T3Assumption DEF IInv, Going, Faced
<1>4. [ablocked EXCEPT ![Me] = <<>>] = ablocked
  BY <1>2, <1>3 DEF TypeOK
<1>5. capBar' = capBar /\ closedBar' = closedBar
  BY <1>1, SameChans
<1>6. /\ runBar' = Tail(run) /\ opBar' = opBar
      /\ outcomeBar' = Coop!Ending(runBar', blocked', sblocked', ablocked')
      /\ ended' \/ Main \notin Queued'
  <2>1. CASE active
    <3> DEFINE rest == Tail(run)
               p == Redo(live, saved)
    <3>1. /\ run \in Seq(Tasks) /\ run # <<>> /\ Me \in Range(run)
          /\ W \in [Queues -> Seq(Tasks)] /\ PlacedBy(Queues, run, W, p)
          /\ Parked(W) \cap Range(run) = {}
      BY <1>1, AtWork
    <3>2. PlacedBy(Queues, rest, W, p) /\ rest \in Seq(Tasks) /\ Range(rest) = Range(run) \ {Me}
      BY <3>1, RunAlone DEF Me
    <3>3. TaskExit(rest, ablocked') /\ W' = W
      BY <1>1, <2>1 DEF ExitPlain, W
    <3> HIDE DEF rest
    <3>4. Range(rest) \cup Parked(W') = (Range(run) \cup Parked(W)) \ {Me}
      BY <3>1, <3>2, <3>3
    <3>5. /\ runBar' = rest /\ opBar' = opBar
          /\ outcomeBar' = Coop!Ending(rest, blocked', sblocked', ablocked')
          /\ Main \in Queued \ {Me} <=> ~ended' /\ Main \in Queued'
      BY <1>1, <3>1, <3>2, <3>3, <3>4, SeesTaskExit
    <3> QED BY <1>1, <3>5 DEF rest
  <2>2. CASE ~active
    <3>1. halted' = TRUE /\ trap' = trap /\ UNCHANGED <<run, saved, live>>
      BY <2>2 DEF ExitPlain
    <3>2. ended' /\ runBar' = <<>> /\ outcomeBar' = "ended"
      BY <1>1, <3>1 DEF IInv, Going, ended, runBar, outcomeBar
    <3>3. opBar' = opBar
      BY <1>1, <3>1 DEF opBar, W
    <3>4. run = <<Main>> /\ Tail(<<Main>>) = <<>>
      BY <1>1, <2>2, MainAlone
    <3>5. /\ \A c \in Chans : blocked[c] = <<>> /\ sblocked[c] = <<>>
          /\ \A u \in Tasks : ablocked[u] = <<>>
      BY <1>1, <1>2, <2>2, WTypes DEF IInv, Going, Alone
    <3>6. Coop!Ending(<<>>, blocked', sblocked', ablocked') = "ended"
      BY <1>1, <3>5 DEF Coop!Ending
    <3> QED BY <3>2, <3>3, <3>4, <3>6
  <2> QED BY <2>1, <2>2
<1>7. tstateBar' = [tstateBar EXCEPT ![Me] = "done"]
  <2>1. \A t \in Tasks : tstateBar'[t] = IF t = Me THEN "done" ELSE tstateBar[t]
    BY <1>1, <1>6 DEF tstateBar
  <2>2. tstateBar' = [t \in Tasks |-> tstateBar'[t]] /\ tstateBar = [t \in Tasks |-> tstateBar[t]]
    BY DEF tstateBar
  <2> QED BY <2>1, <2>2
<1>8. Tail(run) = Tail(run) \o ablocked[Me]
  <2>1. Tail(run) \in Seq(Tasks)
    BY <1>1, AtWork, OfTail
  <2> QED BY <1>3, <2>1
<1> QED BY <1>1, <1>2, <1>4, <1>5, <1>6, <1>7, <1>8, SameTerms DEF Coop!Exit

LEMMA CoopInitial == Init => Coop!Init
<1> SUFFICES ASSUME Init PROVE Coop!Init
  OBVIOUS
<1>1. IInv /\ ~halted
  BY Initial DEF Init
<1>2. /\ runBar = run /\ outcomeBar = "running" /\ opBar = Redo(live, saved) /\ ~ended
  BY <1>1, Seen DEF ended
<1>3. live.of = Main /\ live.redo = Idle /\ \A t \in Tasks : saved[t] = Gone
  BY DEF Init
<1>4. opBar = [t \in Tasks |-> Coop!Idle]
  BY <1>1, <1>2, <1>3, SameTerms DEF Redo, IInv
<1>5. Main \in Queued
  BY <1>1 DEF Init, IInv, Going, MainsEnd, Queued, Range
<1>6. tstateBar = [t \in Tasks |-> IF t = Main THEN "running" ELSE "unborn"]
  BY <1>2, <1>5 DEF Init, tstateBar
<1>7. capBar = [c \in Chans |-> Coop!None] /\ closedBar = {}
  BY DEF Init, capBar, closedBar, Coop!None
<1> QED BY <1>2, <1>4, <1>6, <1>7 DEF Init, Coop!Init

LEMMA CoopStep ==
  IInv /\ IInv' /\ [Next]_vars => (~strayed' => Coop!Next \/ UNCHANGED Coop!vars)
<1> SUFFICES ASSUME IInv, IInv', [Next]_vars, ~strayed' PROVE Coop!Next \/ UNCHANGED Coop!vars
  OBVIOUS
<1>1. CASE UNCHANGED vars
  <2>1. UNCHANGED <<run, blocked, sblocked, ablocked, obj, queue, chanCap, tstate, saved, live,
                    halted, trap, used>>
    BY <1>1 DEF vars, queues, chans, ending
  <2>2. ended' = ended /\ W' = W /\ Queued' = Queued
    BY <2>1 DEF ended, W, Queued
  <2>3. UNCHANGED <<runBar, tstateBar, opBar, outcomeBar, capBar, closedBar>>
    BY <2>1, <2>2 DEF runBar, tstateBar, opBar, outcomeBar, capBar, closedBar
  <2> QED BY <2>1, <2>3 DEF Coop!vars
<1>2. CASE Next
  <2>1. ~halted => Me \in Tasks
    BY Seen
  <2>h. ~halted
    BY <1>2 DEF Next, ChannelNew, SendPush, SendBlock, SendTrap, RecvTake, RecvClosed, RecvBlock,
          RecvTrap, Close, TryRecv, Fork, Yield, AwaitTake, AwaitBlock, AwaitTrap, ExitValue,
          ExitPlain, BodyTrap, Starts, Begins, TrapWith
  <2>2. Coop!Step(Me) => Coop!Next
    BY <2>1, <2>h DEF Coop!Next
  <2>3. ASSUME NEW c \in Chans, NEW k \in Caps, ChannelNew(c, k) PROVE Coop!Step(Me)
    BY <2>3, SeesNewChannel DEF Coop!Step
  <2>4. ASSUME NEW c \in Chans, SendPush(c) PROVE Coop!Step(Me)
    BY <2>4, SeesSendPush DEF Coop!Step
  <2>5. ASSUME NEW c \in Chans, SendBlock(c) PROVE Coop!Step(Me)
    BY <2>5, SeesSendBlock DEF Coop!Step
  <2>6. ASSUME NEW c \in Chans, SendTrap(c) \/ RecvTrap(c) PROVE Coop!Step(Me)
    <3>1. Coop!Trap(Me)
      BY <2>6, SeesTrap DEF SendTrap, RecvTrap
    <3> QED BY <3>1 DEF Coop!Step
  <2>7. ASSUME NEW c \in Chans, RecvTake(c) \/ RecvClosed(c) PROVE Coop!Step(Me)
    BY <2>7, SeesRecv DEF Coop!Step
  <2>8. ASSUME NEW c \in Chans, RecvBlock(c) PROVE Coop!Step(Me)
    BY <2>8, SeesRecvBlock DEF Coop!Step
  <2>9. ASSUME NEW c \in Chans, Close(c) PROVE Coop!Step(Me)
    BY <2>9, SeesClose DEF Coop!Step
  <2>10. ASSUME NEW c \in Chans, TryRecv(c) PROVE FALSE
    BY <2>10 DEF TryRecv
  <2>11. ASSUME NEW u \in Tasks, Fork(u) PROVE Coop!Step(Me)
    BY <2>11, SeesFork DEF Coop!Step
  <2>12. CASE Yield
    BY <2>2, <2>12, SeesYield DEF Coop!Step
  <2>13. ASSUME NEW u \in Tasks, AwaitTake(u) PROVE Coop!Step(Me)
    BY <2>13, SeesAwaitTake DEF Coop!Step
  <2>14. ASSUME NEW u \in Tasks, AwaitBlock(u) PROVE Coop!Step(Me)
    BY <2>14, SeesAwaitBlock DEF Coop!Step
  <2>15. ASSUME NEW u \in Tasks, AwaitTrap(u) PROVE Coop!Step(Me)
    <3>1. Coop!Trap(Me)
      BY <2>15, SeesTrap DEF AwaitTrap
    <3> QED BY <3>1 DEF Coop!Step
  <2>16. CASE ExitValue \/ ExitPlain
    <3>1. Coop!Exit(Me)
      BY <2>16, SeesExitValue, SeesExitPlain
    <3> QED BY <2>2, <3>1 DEF Coop!Step
  <2>17. CASE BodyTrap
    <3>1. Coop!Trap(Me)
      BY <2>17, SeesTrap DEF BodyTrap
    <3> QED BY <2>2, <3>1 DEF Coop!Step
  <2> QED BY <1>2, <2>2, <2>3, <2>4, <2>5, <2>6, <2>7, <2>8, <2>9, <2>10, <2>11, <2>12, <2>13,
             <2>14, <2>15, <2>16, <2>17 DEF Next
<1> QED BY <1>1, <1>2

\* Until the program uses try_recv or returns inside a spawned block, every
\* syscall is a step CoopSched allows the head of R, whatever the capacities and
\* however many tasks there are: what the emulator schedules is what the reference
\* semantics defines, the rewound pc standing for the operation to be done again.
THEOREM EmulatorImplementsCoop == Spec => ImplementsCoop
BY CoopInitial, CoopStep, Invariant, PTL DEF Spec, ImplementsCoop

=============================================================================
