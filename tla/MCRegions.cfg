\* Three tasks, two cells and two marks: regions nested, interleaved, or beside
\* the mark of one that `?' left.
CONSTANTS
  Main = t0
  Tasks = {t0, t1, t2}
  Cells = {1, 2}
  MaxDepth = 2
  MaxMarks = 2
  ReallocMayFail = TRUE
SPECIFICATION Spec
SYMMETRY Symmetry
INVARIANT TypeOK
INVARIANT MarksAscend
INVARIANT FreedOnce
INVARIANT SoundWhenAlone
\* The program ends when its last task does.
CHECK_DEADLOCK FALSE
