\* Two tasks and one cell; memory never runs out.
CONSTANTS
  Main = t0
  Tasks = {t0, t1}
  Cells = {1}
  MaxDepth = 1
  MaxMarks = 2
  ReallocMayFail = FALSE
SPECIFICATION Spec
INVARIANT NothingHeldIsLost
\* The program ends when its last task does.
CHECK_DEADLOCK FALSE
