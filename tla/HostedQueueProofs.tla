------------------------- MODULE HostedQueueProofs -------------------------
(***************************************************************************)
(* For every capacity: the circular queue keeps its indices in range, its  *)
(* tail items places after its head, and implements the bounded FIFO.      *)
(***************************************************************************)
EXTENDS HostedQueue, SequenceTheorems, TLAPS

(* The code only reduces indices that are at most a capacity too large.    *)
LEMMA Wrap ==
  ASSUME NEW c \in Nat \ {0}, NEW x \in 0 .. c - 1, NEW y \in 0 .. c
  PROVE  /\ (x + y) % c = IF x + y < c THEN x + y ELSE x + y - c
         /\ (x + y) % c \in 0 .. c - 1
<1>1. CASE x + y < c
  BY <1>1
<1>2. CASE x + y >= c
  <2>1. x + y = c * 1 + (x + y - c) /\ x + y - c \in 0 .. c - 1
    BY <1>2
  <2> QED BY <1>2, <2>1
<1> QED BY <1>1, <1>2

LEMMA NextSlot ==
  ASSUME NEW c \in Nat \ {0}, NEW x \in 0 .. c - 1
  PROVE  (x + 1) % c \in 0 .. c - 1
  BY Wrap

(* Advancing tail by one place makes room for one more position.           *)
LEMMA SlotAfter ==
  ASSUME NEW c \in Nat \ {0}, NEW h \in 0 .. c - 1, NEW n \in 0 .. c - 1
  PROVE  (((h + n) % c) + 1) % c = (h + (n + 1)) % c
<1>0. n \in 0 .. c
  OBVIOUS
<1>1. (h + n) % c = IF h + n < c THEN h + n ELSE h + n - c
  BY <1>0, Wrap
<1>2. CASE h + n < c
  BY <1>1, <1>2
<1>3. CASE h + n >= c
  <2>1. (h + (n + 1)) % c = h + (n + 1) - c
    <3>1. n + 1 \in 0 .. c /\ ~(h + (n + 1) < c)
      BY <1>3
    <3> QED BY <3>1, Wrap
  <2>2. h + n - c + 1 \in 0 .. c - 1
    BY <1>3
  <2>3. (h + n - c + 1) % c = h + n - c + 1
    BY <2>2
  <2> QED BY <1>1, <1>3, <2>1, <2>3
<1> QED BY <1>2, <1>3

(* Advancing head by one place shifts every position by one.               *)
LEMMA SlotNext ==
  ASSUME NEW c \in Nat \ {0}, NEW h \in 0 .. c - 1, NEW i \in 0 .. c - 1
  PROVE  (((h + 1) % c) + i) % c = (h + (i + 1)) % c
<1>0. 1 \in 0 .. c
  OBVIOUS
<1>1. (h + 1) % c = IF h + 1 < c THEN h + 1 ELSE h + 1 - c
  BY <1>0, Wrap
<1>2. CASE h + 1 < c
  BY <1>1, <1>2
<1>3. CASE h + 1 = c
  <2>1. (h + (i + 1)) % c = i
    BY <1>3, Wrap
  <2>2. (0 + i) % c = i
    OBVIOUS
  <2> QED BY <1>1, <1>3, <2>1, <2>2
<1> QED BY <1>2, <1>3

(* Positions less than a capacity apart have different slots.              *)
LEMMA SlotDistinct ==
  ASSUME NEW c \in Nat \ {0}, NEW h \in 0 .. c - 1,
         NEW i \in 0 .. c - 1, NEW j \in 0 .. c - 1, i # j
  PROVE  (h + i) % c # (h + j) % c
<1>0. i \in 0 .. c /\ j \in 0 .. c
  OBVIOUS
<1>1. /\ (h + i) % c = IF h + i < c THEN h + i ELSE h + i - c
      /\ (h + j) % c = IF h + j < c THEN h + j ELSE h + j - c
  BY <1>0, Wrap
<1> QED BY <1>1

(* hostedqueue_pop on a queue that has items advances head by one place.   *)
LEMMA PopEffect ==
  ASSUME TypeOK, hostedqueue_pop, queue.items # 0
  PROVE  /\ ret' = Result("NOERR", memory[queue.head])
         /\ memory' = memory
         /\ queue' = [capacity |-> Capacity, items |-> queue.items - 1,
                      head |-> (queue.head + 1) % Capacity, tail |-> queue.tail]
         /\ (queue.head + 1) % Capacity \in Slots
<1>1. (queue.head + 1) % Capacity \in Slots
  <2>1. queue.head \in 0 .. Capacity - 1
    BY DEF TypeOK, Slots
  <2> QED BY <2>1, CapacityAssumption, NextSlot DEF Slots
<1> DEFINE h == (queue.head + 1) % Capacity
<1>2. queue' = [queue EXCEPT !.head = h, !.items = queue.items - 1]
  BY DEF hostedqueue_pop, Peeked, Result, TypeOK
<1>3. ret' = Result("NOERR", memory[queue.head]) /\ memory' = memory
  BY DEF hostedqueue_pop, Peeked
<1> HIDE DEF h
<1>4. queue' = [capacity |-> Capacity, items |-> queue.items - 1,
                head |-> h, tail |-> queue.tail]
  BY <1>2 DEF TypeOK
<1> QED BY <1>1, <1>3, <1>4 DEF h

(* hostedqueue_push on a queue that has room fills the slot at tail.       *)
LEMMA PushEffect ==
  ASSUME NEW item, TypeOK, hostedqueue_push(item), queue.items # Capacity
  PROVE  /\ ret' = Result("NOERR", NoItem)
         /\ memory' = [memory EXCEPT ![queue.tail] = item]
         /\ queue' = [capacity |-> Capacity, items |-> queue.items + 1,
                      head |-> queue.head, tail |-> (queue.tail + 1) % Capacity]
         /\ (queue.tail + 1) % Capacity \in Slots
<1>1. (queue.tail + 1) % Capacity \in Slots
  <2>1. queue.tail \in 0 .. Capacity - 1
    BY DEF TypeOK, Slots
  <2> QED BY <2>1, CapacityAssumption, NextSlot DEF Slots
<1> DEFINE t == (queue.tail + 1) % Capacity
<1>2. queue' = [queue EXCEPT !.items = queue.items + 1, !.tail = t]
  BY DEF hostedqueue_push, TypeOK
<1>3. /\ ret' = Result("NOERR", NoItem)
      /\ memory' = [memory EXCEPT ![queue.tail] = item]
  BY DEF hostedqueue_push, TypeOK
<1> HIDE DEF t
<1>4. queue' = [capacity |-> Capacity, items |-> queue.items + 1,
                head |-> queue.head, tail |-> t]
  BY <1>2 DEF TypeOK
<1> QED BY <1>1, <1>3, <1>4 DEF t

(* TypeOK alone is inductive: pop tests for empty and push for full.       *)
LEMMA TypeStep == TypeOK /\ [Next]_vars => TypeOK'
<1> SUFFICES ASSUME TypeOK, [Next]_vars PROVE TypeOK'
  OBVIOUS
<1>1. CASE hostedqueue_peek
  BY <1>1, CapacityAssumption DEF hostedqueue_peek, Peeked, TypeOK, Slots, Result
<1>2. CASE hostedqueue_pop
  <2>1. CASE queue.items = 0
    BY <1>2, <2>1 DEF hostedqueue_pop, Peeked, TypeOK, Result
  <2>2. CASE queue.items # 0
    BY <1>2, <2>2, PopEffect, CapacityAssumption DEF TypeOK, Result, Slots
  <2> QED BY <2>1, <2>2
<1>3. ASSUME NEW item \in Items, hostedqueue_push(item) PROVE TypeOK'
  <2>1. CASE queue.items = Capacity
    BY <1>3, <2>1 DEF hostedqueue_push, TypeOK, Result
  <2>2. CASE queue.items # Capacity
    <3>1. /\ ret' = Result("NOERR", NoItem)
          /\ memory' = [memory EXCEPT ![queue.tail] = item]
          /\ queue' = [capacity |-> Capacity, items |-> queue.items + 1,
                       head |-> queue.head, tail |-> (queue.tail + 1) % Capacity]
          /\ (queue.tail + 1) % Capacity \in Slots
      BY <1>3, <2>2, PushEffect
    <3>2. queue.items + 1 \in 0 .. Capacity
      BY <2>2, CapacityAssumption DEF TypeOK
    <3>3. memory' \in [Slots -> Items \cup {ZeroItem}]
      BY <3>1 DEF TypeOK
    <3> QED BY <3>1, <3>2, <3>3 DEF TypeOK, Result
  <2> QED BY <2>1, <2>2
<1>4. CASE UNCHANGED vars
  BY <1>4 DEF vars, TypeOK
<1> QED BY <1>1, <1>2, <1>3, <1>4 DEF Next

LEMMA TypeInit == hostedqueue_init => TypeOK
  BY CapacityAssumption DEF hostedqueue_init, TypeOK, Slots, Result, ZeroItem

(* Indices and counts stay in range for every capacity.                    *)
THEOREM TypeCorrect == Spec => []TypeOK
  BY TypeInit, TypeStep, PTL DEF Spec

(* The tail that push maintains and the head that pop maintains stay items *)
(* places apart, modulo the capacity.                                      *)
LEMMA RingStep == TypeOK /\ RingInv /\ [Next]_vars => RingInv'
<1> SUFFICES ASSUME TypeOK, RingInv, [Next]_vars PROVE RingInv'
  OBVIOUS
<1>1. CASE hostedqueue_peek
  BY <1>1 DEF hostedqueue_peek, RingInv
<1>2. CASE hostedqueue_pop
  <2>1. CASE queue.items = 0
    BY <1>2, <2>1 DEF hostedqueue_pop, Peeked, RingInv, Result
  <2>2. CASE queue.items # 0
    <3>1. /\ queue'.capacity = Capacity /\ queue'.items = queue.items - 1
          /\ queue'.head = (queue.head + 1) % Capacity /\ queue'.tail = queue.tail
      BY <1>2, <2>2, PopEffect
    <3>2. queue.items - 1 \in 0 .. Capacity - 1 /\ queue.head \in 0 .. Capacity - 1
      BY <2>2, CapacityAssumption DEF TypeOK, Slots
    <3>3. (((queue.head + 1) % Capacity) + (queue.items - 1)) % Capacity
            = (queue.head + ((queue.items - 1) + 1)) % Capacity
      BY <3>2, SlotNext, CapacityAssumption
    <3>4. (queue.items - 1) + 1 = queue.items
      BY CapacityAssumption DEF TypeOK
    <3>5. queue.tail = (queue.head + queue.items) % Capacity
      BY DEF TypeOK, RingInv
    <3> QED BY <3>1, <3>3, <3>4, <3>5 DEF RingInv
  <2> QED BY <2>1, <2>2
<1>3. ASSUME NEW item \in Items, hostedqueue_push(item) PROVE RingInv'
  <2>1. CASE queue.items = Capacity
    BY <1>3, <2>1 DEF hostedqueue_push, RingInv, TypeOK
  <2>2. CASE queue.items # Capacity
    <3>1. /\ queue'.capacity = Capacity /\ queue'.items = queue.items + 1
          /\ queue'.head = queue.head /\ queue'.tail = (queue.tail + 1) % Capacity
      BY <1>3, <2>2, PushEffect
    <3>2. queue.items \in 0 .. Capacity - 1 /\ queue.head \in 0 .. Capacity - 1
      BY <2>2, CapacityAssumption DEF TypeOK, Slots
    <3>3. queue.tail = (queue.head + queue.items) % Capacity
      BY DEF TypeOK, RingInv
    <3>4. (((queue.head + queue.items) % Capacity) + 1) % Capacity
            = (queue.head + (queue.items + 1)) % Capacity
      BY <3>2, SlotAfter, CapacityAssumption
    <3> QED BY <3>1, <3>3, <3>4 DEF RingInv
  <2> QED BY <2>1, <2>2
<1>4. CASE UNCHANGED vars
  BY <1>4 DEF vars, RingInv
<1> QED BY <1>1, <1>2, <1>3, <1>4 DEF Next

LEMMA RingInit == hostedqueue_init => RingInv
  BY Wrap, CapacityAssumption DEF hostedqueue_init, RingInv

(* For every capacity, and however often head and tail have wrapped.       *)
THEOREM RingCorrect == Spec => []RingInv
  BY RingInit, RingStep, TypeInit, TypeStep, PTL DEF Spec

-----------------------------------------------------------------------------
(* The refinement: Contents is the FIFO's sequence.                        *)

ContentsOK ==
  /\ Contents \in Seq(Items \cup {ZeroItem})
  /\ Len(Contents) = queue.items
  /\ \A i \in 1 .. queue.items :
       Contents[i] = memory[(queue.head + (i - 1)) % Capacity]

LEMMA ContentsType == TypeOK => ContentsOK
<1> SUFFICES ASSUME TypeOK PROVE ContentsOK
  OBVIOUS
<1>1. \A i \in 1 .. queue.items : queue.head + i - 1 = queue.head + (i - 1)
  BY DEF TypeOK, Slots
<1>2. \A i \in 1 .. queue.items : (queue.head + (i - 1)) % Capacity \in Slots
  <2> TAKE i \in 1 .. queue.items
  <2>1. queue.head \in 0 .. Capacity - 1 /\ i - 1 \in 0 .. Capacity
    BY CapacityAssumption DEF TypeOK, Slots
  <2> QED BY <2>1, Wrap, CapacityAssumption DEF Slots
<1>3. queue.items \in Nat /\ queue.capacity = Capacity
  BY CapacityAssumption DEF TypeOK
<1>4. Contents = [i \in 1 .. queue.items |->
                    memory[(queue.head + (i - 1)) % Capacity]]
  BY <1>1, <1>3 DEF Contents
<1>5. \A i \in 1 .. queue.items :
        memory[(queue.head + (i - 1)) % Capacity] \in Items \cup {ZeroItem}
  BY <1>2 DEF TypeOK
<1>6. Contents \in [1 .. queue.items -> Items \cup {ZeroItem}]
  BY <1>4, <1>5
<1>7. Contents \in Seq(Items \cup {ZeroItem})
  BY <1>3, <1>6, SeqDef
<1>8. Len(Contents) = queue.items
  BY <1>3, <1>6, <1>7, LenProperties
<1> QED BY <1>4, <1>7, <1>8 DEF ContentsOK

(* A pop takes the first item and leaves the others in order.              *)
LEMMA PopRefines ==
  ASSUME TypeOK, TypeOK', hostedqueue_pop, queue.items # 0
  PROVE  Contents # <<>> /\ Contents' = Tail(Contents) /\ Head(Contents) = memory[queue.head]
<1>1. /\ Contents \in Seq(Items \cup {ZeroItem}) /\ Len(Contents) = queue.items
      /\ \A i \in 1 .. queue.items :
           Contents[i] = memory[(queue.head + (i - 1)) % Capacity]
  BY ContentsType DEF ContentsOK
<1>2. /\ Contents' \in Seq(Items \cup {ZeroItem}) /\ Len(Contents') = queue'.items
      /\ \A i \in 1 .. queue'.items :
           Contents'[i] = memory'[(queue'.head + (i - 1)) % Capacity]
  <2>1. ContentsOK'
    BY ContentsType, PTL
  <2> QED BY <2>1 DEF ContentsOK
<1>3. /\ memory' = memory /\ queue'.items = queue.items - 1
      /\ queue'.head = (queue.head + 1) % Capacity
  BY PopEffect
<1>4. queue.items \in 1 .. Capacity /\ queue.head \in 0 .. Capacity - 1
  BY CapacityAssumption DEF TypeOK, Slots
<1>5. ASSUME NEW i \in 1 .. queue.items - 1
      PROVE  Contents'[i] = Contents[i + 1]
  <2>1. i - 1 \in 0 .. Capacity - 1 /\ i + 1 \in 1 .. queue.items /\ (i - 1) + 1 = (i + 1) - 1
    BY <1>4, CapacityAssumption
  <2>2. (((queue.head + 1) % Capacity) + (i - 1)) % Capacity
          = (queue.head + ((i - 1) + 1)) % Capacity
    BY <1>4, <2>1, SlotNext, CapacityAssumption
  <2>3. Contents'[i] = memory[(((queue.head + 1) % Capacity) + (i - 1)) % Capacity]
    BY <1>2, <1>3
  <2>4. Contents[i + 1] = memory[(queue.head + ((i + 1) - 1)) % Capacity]
    BY <1>1, <2>1
  <2> QED BY <2>1, <2>2, <2>3, <2>4
<1>6. Contents[1] = memory[queue.head]
  <2>1. (queue.head + (1 - 1)) % Capacity = queue.head
    BY <1>4, CapacityAssumption
  <2> QED BY <1>1, <1>4, <2>1
<1>7. Contents # <<>> /\ Head(Contents) = Contents[1]
  BY <1>1, <1>4
<1>8. /\ Tail(Contents) \in Seq(Items \cup {ZeroItem})
      /\ Len(Tail(Contents)) = queue.items - 1
      /\ \A i \in 1 .. queue.items - 1 : Tail(Contents)[i] = Contents[i + 1]
  BY <1>1, <1>4, <1>7
<1>9. Contents' = Tail(Contents)
  BY <1>2, <1>3, <1>5, <1>8
<1> QED BY <1>6, <1>7, <1>9

(* A push on a queue that has room overwrites no slot in use.              *)
LEMMA PushRefines ==
  ASSUME NEW item \in Items, TypeOK, RingInv, TypeOK', hostedqueue_push(item),
         queue.items # Capacity
  PROVE  Contents' = Append(Contents, item)
<1>1. /\ Contents \in Seq(Items \cup {ZeroItem}) /\ Len(Contents) = queue.items
      /\ \A i \in 1 .. queue.items :
           Contents[i] = memory[(queue.head + (i - 1)) % Capacity]
  BY ContentsType DEF ContentsOK
<1>2. /\ Contents' \in Seq(Items \cup {ZeroItem}) /\ Len(Contents') = queue'.items
      /\ \A i \in 1 .. queue'.items :
           Contents'[i] = memory'[(queue'.head + (i - 1)) % Capacity]
  <2>1. ContentsOK'
    BY ContentsType, PTL
  <2> QED BY <2>1 DEF ContentsOK
<1>3. /\ memory' = [memory EXCEPT ![queue.tail] = item]
      /\ queue'.items = queue.items + 1 /\ queue'.head = queue.head
  BY PushEffect
<1>4. /\ queue.items \in 0 .. Capacity - 1 /\ queue.head \in 0 .. Capacity - 1
      /\ memory \in [Slots -> Items \cup {ZeroItem}] /\ queue.tail \in Slots
  BY CapacityAssumption DEF TypeOK, Slots
<1>5. queue.tail = (queue.head + queue.items) % Capacity
  BY DEF TypeOK, RingInv
<1>6. ASSUME NEW i \in 1 .. queue.items PROVE Contents'[i] = Contents[i]
  <2>1. i - 1 \in 0 .. Capacity - 1 /\ i - 1 # queue.items /\ i \in 1 .. queue.items + 1
    BY <1>4, CapacityAssumption
  <2>2. (queue.head + (i - 1)) % Capacity # queue.tail
    BY <1>4, <1>5, <2>1, SlotDistinct, CapacityAssumption
  <2>3. i - 1 \in 0 .. Capacity
    BY <2>1, CapacityAssumption
  <2>4. (queue.head + (i - 1)) % Capacity \in Slots
    BY <1>4, <2>3, Wrap, CapacityAssumption DEF Slots
  <2> QED BY <1>1, <1>2, <1>3, <1>4, <2>1, <2>2, <2>4
<1>7. Contents'[queue.items + 1] = item
  <2>1. (queue.items + 1) - 1 = queue.items /\ queue.items + 1 \in 1 .. queue.items + 1
    BY <1>4
  <2> QED BY <1>2, <1>3, <1>4, <1>5, <2>1
<1>8. /\ Append(Contents, item) \in Seq(Items \cup {ZeroItem})
      /\ Len(Append(Contents, item)) = queue.items + 1
      /\ \A i \in 1 .. queue.items : Append(Contents, item)[i] = Contents[i]
      /\ Append(Contents, item)[queue.items + 1] = item
  BY <1>1, <1>4
<1>9. ASSUME NEW i \in 1 .. queue.items + 1
      PROVE  Contents'[i] = Append(Contents, item)[i]
  <2>1. i \in 1 .. queue.items \/ i = queue.items + 1
    BY <1>4
  <2> QED BY <1>6, <1>7, <1>8, <2>1
<1>10. Len(Contents') = Len(Append(Contents, item))
  BY <1>2, <1>3, <1>8
<1>11. \A i \in 1 .. Len(Contents') : Contents'[i] = Append(Contents, item)[i]
  BY <1>2, <1>3, <1>9
<1>12. /\ Contents' \in Seq(Items \cup {ZeroItem})
       /\ Append(Contents, item) \in Seq(Items \cup {ZeroItem})
  BY <1>2, <1>8
<1> QED BY <1>10, <1>11, <1>12, SeqEqual, Zenon

LEMMA RefinesStep ==
  TypeOK /\ RingInv /\ TypeOK' /\ [Next]_vars => [Fifo!Next]_(Fifo!vars)
<1> SUFFICES ASSUME TypeOK, RingInv, TypeOK', [Next]_vars
             PROVE  [Fifo!Next]_(Fifo!vars)
  OBVIOUS
<1>0. Contents \in Seq(Items \cup {ZeroItem}) /\ Len(Contents) = queue.items
      /\ queue.items \in 0 .. Capacity
  BY ContentsType DEF TypeOK, ContentsOK
<1>e. Contents = <<>> <=> queue.items = 0
  BY <1>0
<1>1. CASE hostedqueue_peek
  <2>1. Contents' = Contents
    BY <1>1 DEF hostedqueue_peek, Contents
  <2>2. queue.items # 0 => Head(Contents) = memory[queue.head]
    <3> SUFFICES ASSUME queue.items # 0 PROVE Head(Contents) = memory[queue.head]
      OBVIOUS
    <3>1. queue.head \in 0 .. Capacity - 1 /\ 1 \in 1 .. queue.items
      BY CapacityAssumption DEF TypeOK, Slots
    <3>2. (queue.head + (1 - 1)) % Capacity = queue.head
      BY <3>1, CapacityAssumption
    <3>3. Contents[1] = memory[queue.head]
      BY <3>1, <3>2, ContentsType DEF ContentsOK
    <3> QED BY <1>0, <1>e, <3>3
  <2> QED BY <1>1, <1>e, <2>1, <2>2
          DEF hostedqueue_peek, Peeked, Result, Fifo!Next, Fifo!Peek, Fifo!Result
<1>2. CASE hostedqueue_pop
  <2>1. CASE queue.items = 0
    BY <1>2, <1>e, <2>1
       DEF hostedqueue_pop, Peeked, Result, Contents, Fifo!Next, Fifo!Pop, Fifo!Result
  <2>2. CASE queue.items # 0
    BY <1>2, <2>2, PopRefines, PopEffect
       DEF Result, Fifo!Next, Fifo!Pop, Fifo!Result
  <2> QED BY <2>1, <2>2
<1>3. ASSUME NEW item \in Items, hostedqueue_push(item) PROVE Fifo!Push(item)
  <2>1. CASE queue.items = Capacity
    BY <1>0, <1>3, <2>1
       DEF hostedqueue_push, TypeOK, Result, Contents, Fifo!Push, Fifo!Result
  <2>2. CASE queue.items # Capacity
    <3>1. Len(Contents) < Capacity
      BY <1>0, <2>2, CapacityAssumption
    <3> QED BY <1>3, <2>2, <3>1, PushRefines, PushEffect
            DEF Result, Fifo!Push, Fifo!Result
  <2> QED BY <2>1, <2>2
<1>4. CASE UNCHANGED vars
  BY <1>4 DEF vars, Contents, Fifo!vars
<1> QED BY <1>1, <1>2, <1>3, <1>4 DEF Next, Fifo!Next

(* The circular queue implements the bounded FIFO, for every capacity and  *)
(* every set of items.                                                     *)
THEOREM QueueIsFifo == Spec => ImplementsFifo
<1>1. hostedqueue_init => Fifo!Init
  BY DEF hostedqueue_init, Contents, Result, Fifo!Init, Fifo!Result
<1> QED
  BY <1>1, RefinesStep, RingInit, RingStep, TypeInit, TypeStep, PTL
     DEF Spec, ImplementsFifo, Fifo!Spec
=============================================================================
