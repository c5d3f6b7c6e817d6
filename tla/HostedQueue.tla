---------------------------- MODULE HostedQueue ----------------------------
(***************************************************************************)
(* libhostedqueue: the fixed capacity circular queue of cothread handles   *)
(* that holds both the free handles and the scheduling queue.  The queue's *)
(* bookkeeping (capacity, items, head, tail) and the caller's memory are   *)
(* separate, as in the code.  All indices stay below capacity, so the      *)
(* unsigned arithmetic of the code never wraps at the machine width.       *)
(***************************************************************************)
EXTENDS Integers, Sequences

CONSTANTS Capacity, Items, NoItem

(* hostedqueue_init refuses a capacity of 0; the library always passes     *)
(* LIBMICROKITCO_MAX_COTHREADS, which the header forces to be at least 2.  *)
ASSUME CapacityAssumption == Capacity \in Nat \ {0}

VARIABLES
  queue,    \* hosted_queue_t
  memory,   \* the caller's array of Capacity items
  ret       \* what the last call returned: error code and item

vars == <<queue, memory, ret>>

Slots == 0 .. Capacity - 1

(* The controller memory is zeroed before the queues are set up.           *)
ZeroItem == 0

Result(err, item) == [err |-> err, item |-> item]

hostedqueue_init ==
  /\ queue = [capacity |-> Capacity, items |-> 0, head |-> 0, tail |-> 0]
  /\ memory = [i \in Slots |-> ZeroItem]
  /\ ret = Result("NOERR", NoItem)

Peeked ==
  IF queue.items = 0 THEN Result("EMPTY", NoItem)
                     ELSE Result("NOERR", memory[queue.head])

hostedqueue_peek == ret' = Peeked /\ UNCHANGED <<queue, memory>>

(* A faulty hostedqueue_pop: head is left alone when it would wrap.        *)
Faulty_pop_wrap ==
  /\ ret' = Peeked
  /\ \/ Peeked.err = "EMPTY" /\ UNCHANGED queue
     \/ /\ Peeked.err = "NOERR"
        /\ queue' = [queue EXCEPT !.head = IF @ + 1 = Capacity THEN @ ELSE @ + 1,
                                  !.items = @ - 1]
  /\ UNCHANGED memory

hostedqueue_pop ==
  /\ ret' = Peeked
  /\ \/ Peeked.err = "EMPTY" /\ UNCHANGED queue
     \/ /\ Peeked.err = "NOERR"
        /\ queue' = [queue EXCEPT !.head = (@ + 1) % queue.capacity,
                                  !.items = @ - 1]
  /\ UNCHANGED memory

(* A faulty hostedqueue_push: the full test is off by one.                 *)
Faulty_push_full(item) ==
  /\ queue.items <= queue.capacity
  /\ ret' = Result("NOERR", NoItem)
  /\ memory' = [memory EXCEPT ![queue.tail] = item]
  /\ queue' = [queue EXCEPT !.items = @ + 1,
                            !.tail = (@ + 1) % queue.capacity]

(* A faulty hostedqueue_push: the item goes where a pop would take it.     *)
Faulty_push_slot(item) ==
  /\ queue.items # queue.capacity
  /\ ret' = Result("NOERR", NoItem)
  /\ memory' = [memory EXCEPT ![queue.head] = item]
  /\ queue' = [queue EXCEPT !.items = @ + 1,
                            !.tail = (@ + 1) % queue.capacity]

hostedqueue_push(item) ==
  \/ /\ queue.items = queue.capacity
     /\ ret' = Result("FULL", NoItem)
     /\ UNCHANGED <<queue, memory>>
  \/ /\ queue.items # queue.capacity
     /\ ret' = Result("NOERR", NoItem)
     /\ memory' = [memory EXCEPT ![queue.tail] = item]
     /\ queue' = [queue EXCEPT !.items = @ + 1,
                               !.tail = (@ + 1) % queue.capacity]

Next ==
  \/ hostedqueue_peek
  \/ hostedqueue_pop
  \/ \E item \in Items : hostedqueue_push(item)

Spec == hostedqueue_init /\ [][Next]_vars

-----------------------------------------------------------------------------
TypeOK ==
  /\ queue \in [capacity : {Capacity}, items : 0 .. Capacity,
                head : Slots, tail : Slots]
  /\ memory \in [Slots -> Items \cup {ZeroItem}]
  /\ ret \in [err : {"NOERR", "EMPTY", "FULL"},
              item : Items \cup {ZeroItem, NoItem}]

(* tail is kept by its own increments in push and head by those in pop,    *)
(* each reduced modulo capacity separately; whatever the interleaving of   *)
(* pushes and pops and however often they wrap, tail stays exactly items   *)
(* places after head, so a push never lands on an unread slot.             *)
RingInv == queue.tail = (queue.head + queue.items) % queue.capacity

(* The items between head and tail, front first.                           *)
Contents ==
  [i \in 1 .. queue.items |-> memory[(queue.head + i - 1) % queue.capacity]]

Fifo == INSTANCE BoundedFifo WITH fifo <- Contents

(* The circular queue behaves, call by call and error code by error code,  *)
(* as a bounded FIFO queue.                                                *)
ImplementsFifo == Fifo!Spec
=============================================================================
