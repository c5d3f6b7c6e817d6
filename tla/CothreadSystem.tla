--------------------------- MODULE CothreadSystem ---------------------------
(***************************************************************************)
(* What libmicrokitco promises a client that keeps its rules.  One thread  *)
(* has the CPU; the ready ones get it in the order in which they became    *)
(* ready; a semaphore remembers one signal or hands it to whoever waits    *)
(* longest, together with the CPU; the root thread never waits.  There are *)
(* no handles, queues, links or stale entries here.                        *)
(***************************************************************************)
EXTENDS Integers, Sequences, Functions

CONSTANTS Threads, Root, Sems

VARIABLES
  current,       \* the thread that has the CPU
  ready,         \* the threads that want it
  ahead,         \* pairs of ready threads: the first became ready earlier
  waiting,       \* for each semaphore, its waiters, the longest waiting first
  signalled,     \* the semaphores with a signal nobody waited for
  receiving      \* the root thread is waiting for a notification

vars == <<current, ready, ahead, waiting, signalled, receiving>>

Init ==
  /\ current = Root
  /\ ready = {}
  /\ ahead = {}
  /\ waiting = [s \in Sems |-> <<>>]
  /\ signalled = [s \in Sems |-> FALSE]
  /\ receiving = FALSE

(* The order once t has joined the ready threads r, or has left them.      *)
Joined(order, r, t) == order \cup {<<u, t>> : u \in r}
Left(order, t) == {p \in order : p[1] # t /\ p[2] # t}

(* The CPU goes to the one of r that nobody is ahead of.                   *)
Dispatch(r, order) ==
  \E t \in r : /\ \A u \in r : <<u, t>> \notin order
               /\ current' = t
               /\ ready' = r \ {t}
               /\ ahead' = Left(order, t)

Waits(t) == \E s \in Sems : t \in Range(waiting[s])

Spawn(t) ==
  /\ t \notin ready \cup {current} /\ ~Waits(t)
  /\ ready' = ready \cup {t}
  /\ ahead' = Joined(ahead, ready, t)
  /\ UNCHANGED <<current, waiting, signalled, receiving>>

Yield ==
  /\ Dispatch(ready \cup {current}, Joined(ahead, ready, current))
  /\ UNCHANGED <<waiting, signalled, receiving>>

WaitSignalled(s) ==
  /\ signalled[s]
  /\ signalled' = [signalled EXCEPT ![s] = FALSE]
  /\ UNCHANGED <<current, ready, ahead, waiting, receiving>>

Block(s) ==
  /\ ~signalled[s] /\ current # Root
  /\ waiting' = [waiting EXCEPT ![s] = Append(@, current)]
  /\ Dispatch(ready, ahead)
  /\ UNCHANGED <<signalled, receiving>>

SignalNobody(s) ==
  /\ waiting[s] = <<>>
  /\ signalled' = [signalled EXCEPT ![s] = TRUE]
  /\ UNCHANGED <<current, ready, ahead, waiting, receiving>>

Wake(s) ==
  /\ ~signalled[s] /\ waiting[s] # <<>>
  /\ current' = Head(waiting[s])
  /\ waiting' = [waiting EXCEPT ![s] = Tail(@)]
  /\ ready' = ready \cup {current}
  /\ ahead' = Joined(ahead, ready, current)
  /\ UNCHANGED <<signalled, receiving>>

Exit ==
  /\ current # Root
  /\ Dispatch(ready, ahead)
  /\ UNCHANGED <<waiting, signalled, receiving>>

Destroy(t) ==
  /\ current # Root /\ t \in ready \ {Root}
  /\ ready' = ready \ {t}
  /\ ahead' = Left(ahead, t)
  /\ UNCHANGED <<current, waiting, signalled, receiving>>

Return ==
  /\ current = Root
  /\ receiving' = TRUE
  /\ UNCHANGED <<current, ready, ahead, waiting, signalled>>

Receive ==
  /\ receiving' = FALSE
  /\ UNCHANGED <<current, ready, ahead, waiting, signalled>>

Next ==
  \/ /\ ~receiving
     /\ \/ Yield \/ Exit \/ Return
        \/ \E t \in Threads : Spawn(t) \/ Destroy(t)
        \/ \E s \in Sems : WaitSignalled(s) \/ Block(s) \/ SignalNobody(s) \/ Wake(s)
  \/ receiving /\ Receive

Spec == Init /\ [][Next]_vars

=============================================================================
