CONSTANTS
  WordTrits = 9
  I64Bits = 16
  InlineLimit = 16
  GrowthFloor = 20
  ImmTrits = 2
  LoopLimit = 1
  Fuel = 3000
  RegTrits = 3
  PoolHi = 6
  ParamMax = 5
  LitBase = 1000
  StackBase = 2000
  StringGap = 1024
  HeapBase = 2100
  MemWords = 2200
  DepthMax = 20
  Programs <- All
  Options <- Both
SPECIFICATION ToolSpec
INVARIANT SSAForm
INVARIANT CompiledAsDefined
INVARIANT AcceptedIsSafe
INVARIANT DominatorsExact
PROPERTY GrowthBounded
PROPERTY MeaningKept
INVARIANT LiveApart
INVARIANT AllocatorFed
INVARIANT CopiesTogether
INVARIANT NeverRefused
INVARIANT RunsAsMeant
INVARIANT FramesKept
CHECK_DEADLOCK FALSE
