CONSTANTS
  Rounds = 2
  Programs <- All
SPECIFICATION Spec
INVARIANT MovedNeverRead
INVARIANT NothingEscapes
INVARIANT NoFalseAlarm
CHECK_DEADLOCK FALSE
