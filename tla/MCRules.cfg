CONSTANTS
  MAX_COTHREADS = 4
  Channels <- Channels1
  BadChannel = "bad"
  Semaphores <- Semaphores1
  Args <- OneArg
  Rules <- AllRules
SPECIFICATION FairSpec
INVARIANTS ControlInv SchedulingInv HandleInv WaitListInv RootInv NoFault
PROPERTIES WaitEndsBySignal ReadyRuns RootRunsAgain ImplementsSystem
