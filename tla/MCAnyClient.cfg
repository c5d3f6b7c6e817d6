CONSTANTS
  MAX_COTHREADS = 3
  Channels <- NoChannels
  BadChannel = "bad"
  Semaphores <- Semaphores1
  Args <- OneArg
  Rules <- NoRules
SPECIFICATION Spec
INVARIANTS TypeOK CallerInv LinksInv
PROPERTY ResumesSaved
CHECK_DEADLOCK FALSE
