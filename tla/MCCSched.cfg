\* Three threads, one channel that may be unbounded or hold one value; every
\* thread but main in __task_main_done may wake spuriously.  No symmetry: the
\* run checks a liveness property.
CONSTANTS
  Main = t0
  Tasks = {t0, t1, t2}
  Chans = {c1}
  Caps = {0, 1}
  Spurious = {"wake"}
  MaxOps = 2
SPECIFICATION FairSpec
INVARIANT OnlyBatonRuns
INVARIANT ReportsTheEnd
PROPERTY ImplementsCoop
PROPERTY ProcessEnds
\* The process exits.
CHECK_DEADLOCK FALSE
INVARIANT CountersRight
