\* Three threads, one channel that may be unbounded or hold one value.  No
\* symmetry: the run checks a liveness property.
CONSTANTS
  Main = t0
  Tasks = {t0, t1, t2}
  Chans = {c1}
  Caps = {0, 1}
  MaxOps = 3
SPECIFICATION FairSpec
INVARIANT OnlyHeadRuns
PROPERTY EndIsFinal
PROPERTY ImplementsCoop
PROPERTY AllThreadsEnd
\* The program stops when every thread has ended.
CHECK_DEADLOCK FALSE
