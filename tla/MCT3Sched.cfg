\* Three tasks, one channel that may be unbounded or hold one value; the program
\* may also use try_recv and return inside a spawned block.
CONSTANTS
  Main = t0
  Tasks = {t0, t1, t2}
  Chans = {c1}
  Caps = {0, 1}
  Uses = {"try_recv", "return"}
  MaxOps = 3
SPECIFICATION Spec
SYMMETRY Symmetry
INVARIANT EndReported
PROPERTY ImplementsCoop
\* The emulator halts.
CHECK_DEADLOCK FALSE
INVARIANT ContextsInOrder
