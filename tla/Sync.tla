---------------------------------- MODULE Sync ----------------------------------
(***************************************************************************)
(* One program with a Mutex, a Semaphore and a Barrier, compiled for either*)
(* backend: the C runtime (CSync) or the T3 emulator (T3Sync).  Both are   *)
(* held to the one contract of SyncContract, which is what lets a program  *)
(* behave the same on both.                                                *)
(***************************************************************************)
EXTENDS SyncContract

CONSTANT Early   \* T3: may main use the objects before it first spawns?

VARIABLES impl,                 \* "c" or "t3"
          run, waiters,         \* of both
          permits, arrived, releases, op, spawned, used, outcome,
          held,                 \* of C
          active, holder        \* of T3

vars == <<seen, impl, run, waiters, permits, arrived, releases, op, spawned,
          used, outcome, held, active, holder>>

C == INSTANCE CSync
T3 == INSTANCE T3Sync WITH blocked <- waiters, redo <- op

ASSUME NobodyIsNoTask == T3!Nobody \notin Tasks

Init ==
  \/ impl = "c" /\ C!Init /\ active = TRUE /\ holder = T3!Nobody
  \/ impl = "t3" /\ T3!Init /\ held = FALSE

Next ==
  /\ UNCHANGED impl
  /\ \/ impl = "c" /\ C!Next /\ UNCHANGED <<active, holder>>
     \/ impl = "t3" /\ T3!Next /\ UNCHANGED held

Spec == Init /\ [][Next]_vars

-----------------------------------------------------------------------------

\* Every variable keeps its type, on either backend.
TypeOK == IF impl = "c" THEN C!TypeOK ELSE T3!TypeOK

\* Nobody waits for what is there and not spoken for, on either backend.
NoStrandedWaiter ==
  IF impl = "c" THEN C!NoStrandedWaiter ELSE T3!NoStrandedWaiter

\* A round of the barrier is whole: it lets through no more than its parties,
\* and when the program is over every complete round has had one leader and let
\* all of its parties through.
RoundsWhole ==
  /\ TypeOK
  /\ NoneTooMany
  /\ outcome # "running" => OneLeader /\ AllReleased

=============================================================================
