SPECIFICATION Spec
CONSTANTS
  Space = 28
  INT_SPAN = 4
  Mapped <- MCMapped
  MINIMUM_STACK_SIZE = 2
  Cothreads <- MCCothreads
  Sizes <- MCSizes
  MayWrap = FALSE
INVARIANT OverlapExact
 
CHECK_DEADLOCK FALSE
