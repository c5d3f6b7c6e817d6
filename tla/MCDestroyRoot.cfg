CONSTANTS
  MAX_COTHREADS = 3
  Channels <- Channels1
  BadChannel = "bad"
  Semaphores <- Semaphores1
  Args <- OneArg
  Rules <- AnyDestroy
SPECIFICATION Spec
INVARIANT RootNeverDestroyed
CHECK_DEADLOCK FALSE
