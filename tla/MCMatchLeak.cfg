CONSTANTS
  WordTrits = 9
  I64Bits = 16
  InlineLimit = 16
  GrowthFloor = 20
  ImmTrits = 2
  LoopLimit = 1
  Fuel = 3000
  RegTrits = 3
  PoolHi = 6
  ParamMax = 5
  LitBase = 1000
  StackBase = 2000
  StringGap = 1024
  HeapBase = 2100
  MemWords = 2200
  DepthMax = 20
  Programs <- Leaks
  Options <- Both
SPECIFICATION ToolSpec
INVARIANT CompiledAsDefined
CHECK_DEADLOCK FALSE
