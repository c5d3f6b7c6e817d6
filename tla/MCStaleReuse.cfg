CONSTANTS
  MAX_COTHREADS = 3
  Channels <- Channels1
  BadChannel = "bad"
  Semaphores <- Semaphores1
  Args <- OneArg
  Rules <- StaleReuse
SPECIFICATION Spec
INVARIANT NoFault
