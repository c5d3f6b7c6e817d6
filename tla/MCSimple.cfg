SPECIFICATION Spec
CONSTANTS
  Archs <- MCArchs
  Memory <- MCMemory
  co_stack_size = 300
  RootBuffer = 16
  RootStack = 960
  Half = 4096
INVARIANT CpuFollowsScheduler
INVARIANT FloatsKept
INVARIANT LimitHolds
INVARIANT GreetsInOrder
PROPERTY Finishes
CHECK_DEADLOCK FALSE
