SPECIFICATION Spec
CONSTANTS
  Archs <- MCArchs
  Memory <- MCMemory
  co_stack_size <- MCSize
  RootBuffer = 16
  RootStack = 960
  Half = 4096
  ChangesFloatState = FALSE
  MaxDepth = 1
INVARIANT ControlFollows
INVARIANT RegistersRestored
INVARIANT StackKept
INVARIANT NoStrayWrites
INVARIANT EntryAligned
