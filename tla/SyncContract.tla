----------------------------- MODULE SyncContract -----------------------------
(***************************************************************************)
(* What a program can observe of one Mutex, one Semaphore and one Barrier, *)
(* and the contract of structured waiting stated over it.  CSync (the C    *)
(* runtime) and T3Sync (the emulator) extend this module and record their  *)
(* observable events in its variables; Sync runs a program on either.      *)
(***************************************************************************)
EXTENDS Integers, Sequences, FiniteSets, Functions

CONSTANTS Tasks, Main,
          Permits,   \* Semaphore::new's argument
          Parties,   \* Barrier::new's argument
          MaxOps,    \* bound: locks, acquires, yields and spawns of one task
          Rounds     \* bound: Barrier::wait calls of one task

ASSUME SyncAssumption ==
  /\ Main \in Tasks /\ IsFiniteSet(Tasks)
  /\ Permits \in Nat /\ MaxOps \in Nat /\ Rounds \in Nat
  /\ Parties \in Nat \ {0}

VARIABLES holders,        \* the tasks between a lock that returned and unlock
          taken,          \* per task, acquires that returned less releases
          begun, passed,  \* per task, Barrier::wait calls begun and returned
          leads           \* how many of those returned true

seen == <<holders, taken, begun, passed, leads>>

Objects == {"mutex", "semaphore", "barrier"}

\* The sum of f over the tasks: the number of marks when each task t makes f[t].
Marks(f) == UNION {{t} \X (1..f[t]) : t \in Tasks}
Total(f) == Cardinality(Marks(f))

SeenInit ==
  /\ holders = {}
  /\ taken = [t \in Tasks |-> 0]
  /\ begun = [t \in Tasks |-> 0]
  /\ passed = [t \in Tasks |-> 0]
  /\ leads = 0

SeenTypeOK ==
  /\ holders \subseteq Tasks
  /\ taken \in [Tasks -> Nat]
  /\ begun \in [Tasks -> 0..Rounds]
  /\ passed \in [Tasks -> 0..Rounds]
  /\ leads \in Nat

-----------------------------------------------------------------------------

\* Contract 1: at most one task holds the Mutex.
MutualExclusion == Cardinality(holders) <= 1

\* Contract 2: a Semaphore(n) admits at most n holders.
AtMostPermits == Total(taken) <= Permits

\* Contract 3: a Barrier(n) releases nobody until n have arrived, each round
\* anew: a task is past its k-th wait only after n * k waits have begun.
HoldsBack == \A t \in Tasks : Parties * passed[t] <= Total(begun)

\* What the three objects promise, together.
KeepsContract == MutualExclusion /\ AtMostPermits /\ HoldsBack

\* A barrier lets through no more waits than its leaders' rounds have, and has
\* no more leaders than rounds are complete.
NoneTooMany ==
  /\ Total(passed) <= Parties * leads
  /\ Parties * leads <= Total(begun)

\* "Then all n pass and exactly one of them, the last to arrive, is the leader":
\* one wait of each complete round answered true.
OneLeader == leads = Total(begun) \div Parties

\* Every wait of a completed round has returned.
AllReleased == Total(passed) = Parties * (Total(begun) \div Parties)

=============================================================================
