SPECIFICATION Spec
CONSTANTS
  NClients = 3
  Buckets = {0, 1}
  BUCKET_SIZE = 5
  Letters = {"k", "l", "m", "x", "y", "z"}
  Programs <- MCPrograms
INVARIANT LengthsInv
INVARIANT BufferHandedOver
INVARIANT ArgumentsInTime
INVARIANT ServerNoFault
PROPERTY ImplementsStore
PROPERTY AllServed
CHECK_DEADLOCK FALSE
