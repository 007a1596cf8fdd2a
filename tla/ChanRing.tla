------------------------------- MODULE ChanRing -------------------------------
(***************************************************************************)
(* The storage of one ManitChan of the C runtime, src/runtime/sync.c: a    *)
(* ring of values that an unbounded channel doubles when it is full.  Each *)
(* operation below runs with the channel's lock held from the test it has  *)
(* passed to its last assignment, and is one step.                         *)
(***************************************************************************)
EXTENDS Integers, Sequences

CONSTANTS Vals,          \* the values sent; 0 is what a drained channel answers
          Bounds,        \* arguments of channel_bounded; 0 for channel_new
          DefaultCap,    \* CHAN_DEFAULT_CAP
          MaxCap,        \* bound: the largest ring the model lets grow
          MallocMayFail  \* may malloc return NULL in manit_chan_grow?

Garbage == -1   \* a slot malloc returned and nothing has written

ASSUME RingAssumption ==
  /\ Garbage \notin Vals
  /\ Bounds \subseteq Nat /\ DefaultCap \in Nat \ {0} /\ MaxCap \in Nat
  /\ MallocMayFail \in BOOLEAN

VARIABLES buffer, capacity, count, head, tail, bounded, closed, fault,
          got   \* what the last channel_recv returned

ring == <<buffer, capacity, count, head, tail>>
ringVars == <<ring, bounded, closed, fault, got>>

\* channel_new, channel_bounded.
RingInit ==
  /\ \E b \in Bounds :
       /\ bounded = (b # 0)
       /\ capacity = IF bounded THEN b ELSE DefaultCap
  /\ buffer = [i \in 0..(capacity - 1) |-> Garbage]
  /\ count = 0 /\ head = 0 /\ tail = 0
  /\ closed = FALSE /\ fault = FALSE
  /\ got = 0

Full == count = capacity

\* Mutants of Grown: one memcpy of a queue that may be wrapped; the old head kept.
GrownOneRun ==
  [buffer |-> [i \in 0..(2 * capacity - 1) |->
                 IF i < count THEN buffer[i] ELSE Garbage],
   capacity |-> 2 * capacity, head |-> 0, tail |-> count]
GrownKeepsHead ==
  [buffer |-> [i \in 0..(2 * capacity - 1) |->
                 IF i < count THEN buffer[(head + i) % capacity] ELSE Garbage],
   capacity |-> 2 * capacity, head |-> head, tail |-> count]

\* The ring after manit_chan_grow has copied both runs of a wrapped queue.
Grown ==
  [buffer |-> [i \in 0..(2 * capacity - 1) |->
                 IF i < count THEN buffer[(head + i) % capacity] ELSE Garbage],
   capacity |-> 2 * capacity, head |-> 0, tail |-> count]

Same == [buffer |-> buffer, capacity |-> capacity, head |-> head, tail |-> tail]

\* The rings a send may find once its growing loop has ended: an unbounded full
\* ring doubles, or stays as it was when malloc fails.
AfterGrowing ==
  IF bounded \/ ~Full THEN {Same}
  ELSE {r \in {Grown} : r.capacity <= MaxCap}
         \cup (IF MallocMayFail THEN {Same} ELSE {})

\* channel_send on an open channel; a bounded full one blocks first.
Send(v) ==
  /\ ~fault /\ ~closed /\ ~(bounded /\ Full)
  /\ \E r \in AfterGrowing :
       /\ buffer' = [r.buffer EXCEPT ![r.tail] = v]
       /\ tail' = (r.tail + 1) % r.capacity
       /\ head' = r.head /\ capacity' = r.capacity
  /\ count' = count + 1
  /\ UNCHANGED <<bounded, closed, fault, got>>

SendClosed ==
  /\ ~fault /\ closed
  /\ fault' = TRUE
  /\ UNCHANGED <<ring, bounded, closed, got>>

Recv ==
  /\ ~fault /\ count > 0
  /\ got' = buffer[head]
  /\ head' = (head + 1) % capacity
  /\ count' = count - 1
  /\ UNCHANGED <<buffer, capacity, tail, bounded, closed, fault>>

RecvClosed ==
  /\ ~fault /\ count = 0 /\ closed
  /\ got' = 0
  /\ UNCHANGED <<ring, bounded, closed, fault>>

Close ==
  /\ ~fault /\ ~closed
  /\ closed' = TRUE
  /\ UNCHANGED <<ring, bounded, fault, got>>

RingNext ==
  \/ \E v \in Vals : Send(v)
  \/ SendClosed
  \/ Recv
  \/ RecvClosed
  \/ Close

RingSpec == RingInit /\ [][RingNext]_ringVars

-----------------------------------------------------------------------------

\* Every variable keeps its type, and head and tail stay inside the ring.
RingTypeOK ==
  /\ capacity \in Nat \ {0}
  /\ buffer \in [0..(capacity - 1) -> Vals \cup {Garbage}]
  /\ count \in Nat
  /\ head \in 0..(capacity - 1) /\ tail \in 0..(capacity - 1)
  /\ bounded \in BOOLEAN /\ closed \in BOOLEAN /\ fault \in BOOLEAN
  /\ got \in Vals \cup {0}

\* The slots of the queued values are distinct, none of them unwritten, and
\* the next send's slot lies just past them.
RingIntact ==
  /\ RingTypeOK
  /\ count <= capacity
  /\ tail = (head + count) % capacity
  /\ \A i \in 0..(count - 1) : buffer[(head + i) % capacity] # Garbage

\* The ring implements a queue of values, across wrapping and growing.
Queue == INSTANCE Fifo
           WITH bound <- IF bounded THEN capacity ELSE 0,
                items <- [i \in 1..count |-> buffer[(head + i - 1) % capacity]]

ImplementsFifo == Queue!Spec

=============================================================================
