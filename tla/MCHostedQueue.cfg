CONSTANTS
  Capacity <- MCCapacity
  Items <- MCItems
  NoItem <- MCNoItem
SPECIFICATION Spec
INVARIANTS TypeOK RingInv
PROPERTY ImplementsFifo
