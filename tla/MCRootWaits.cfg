CONSTANTS
  MAX_COTHREADS = 3
  Channels <- Channels1
  BadChannel = "bad"
  Semaphores <- Semaphores1
  Args <- OneArg
  Rules <- RootWaits
SPECIFICATION Spec
PROPERTY WaitEndsBySignal
