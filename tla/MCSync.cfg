\* Three tasks share a mutex, a two-permit semaphore and a two-party barrier.
CONSTANTS
  Main = t0
  Tasks = {t0, t1, t2}
  Permits = 2
  Parties = 2
  MaxOps = 3
  Rounds = 1
  Early = FALSE
SPECIFICATION Spec
SYMMETRY Symmetry
INVARIANT KeepsContract
INVARIANT NoStrandedWaiter
\* The program stops when it ends or deadlocks.
CHECK_DEADLOCK FALSE
INVARIANT RoundsWhole
