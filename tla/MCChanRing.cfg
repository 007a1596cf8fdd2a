\* A bounded channel of three slots, or an unbounded one whose ring starts at
\* two slots and doubles to eight.
CONSTANTS
  Vals = {1, 2}
  Bounds = {0, 3}
  DefaultCap = 2
  MaxCap = 8
  MallocMayFail = FALSE
SPECIFICATION RingSpec
INVARIANT RingIntact
PROPERTY ImplementsFifo
\* A send on a closed channel faults and the process exits.
CHECK_DEADLOCK FALSE
