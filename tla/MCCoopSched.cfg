\* Three tasks, one channel that may be unbounded or hold one value.
CONSTANTS
  Main = t0
  Tasks = {t0, t1, t2}
  Chans = {c1}
  Caps = {0, 1}
  MaxOps = 3
SPECIFICATION Spec
SYMMETRY Symmetry
INVARIANT TypeOK
INVARIANT NoLostWakeup
INVARIANT TrueDeadlock
INVARIANT WithinCapacity
\* The program stops when it ends, deadlocks or traps.
CHECK_DEADLOCK FALSE
