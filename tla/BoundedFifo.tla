---------------------------- MODULE BoundedFifo ----------------------------
(***************************************************************************)
(* What a hosted queue promises its callers: a first-in first-out queue of *)
(* at most Capacity items that reports, and never performs, a push on a    *)
(* full queue or a pop or peek on an empty one.                            *)
(***************************************************************************)
EXTENDS Integers, Sequences

CONSTANTS
  Capacity,   \* most items the queue holds
  Items,      \* what may be pushed
  NoItem      \* stands for the untouched output parameter of a failed call

VARIABLES
  fifo,       \* the items, front first
  ret         \* what the last call returned: error code and item

vars == <<fifo, ret>>

Result(err, item) == [err |-> err, item |-> item]

Init == fifo = <<>> /\ ret = Result("NOERR", NoItem)

Peek ==
  /\ ret' = IF fifo = <<>> THEN Result("EMPTY", NoItem) ELSE Result("NOERR", Head(fifo))
  /\ UNCHANGED fifo

Pop ==
  \/ /\ fifo = <<>>
     /\ ret' = Result("EMPTY", NoItem)
     /\ UNCHANGED fifo
  \/ /\ fifo # <<>>
     /\ ret' = Result("NOERR", Head(fifo))
     /\ fifo' = Tail(fifo)

Push(item) ==
  \/ /\ Len(fifo) = Capacity
     /\ ret' = Result("FULL", NoItem)
     /\ UNCHANGED fifo
  \/ /\ Len(fifo) < Capacity
     /\ ret' = Result("NOERR", NoItem)
     /\ fifo' = Append(fifo, item)

Next == Peek \/ Pop \/ \E item \in Items : Push(item)

Spec == Init /\ [][Next]_vars
=============================================================================
