SPECIFICATION Spec
CONSTANTS
  Archs = {"riscv64_soft"}
  Memory <- MCMemory
  co_stack_size <- MCSize
  RootBuffer = 16
  RootStack = 960
  Half = 1000
  ChangesFloatState = FALSE
  MaxDepth = 1
INVARIANT ControlFollows
