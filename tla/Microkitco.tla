----------------------------- MODULE Microkitco -----------------------------
(***************************************************************************)
(* libmicrokitco: cothreads multiplexed on the one kernel thread of a      *)
(* protection domain (PD).  Nothing runs in parallel inside a PD, so each  *)
(* call of the library is one step, up to and including the co_switch that *)
(* leaves it; what interleaves are the calls of the different cothreads,   *)
(* in the order the scheduler lets them run, and the notifications that    *)
(* arrive while the root thread waits in the Microkit event loop.          *)
(*                                                                         *)
(* The caller of every action is the thread `running`: the library takes   *)
(* its word for who is calling, and ControlInv says it is right to.        *)
(*                                                                         *)
(* The initial state is the one a successful microkit_cothread_init leaves *)
(* behind.  The two hosted queues are sequences here; HostedQueue shows    *)
(* that the circular queues behave as such.                                *)
(***************************************************************************)
EXTENDS Integers, Sequences, Functions

CONSTANTS
  MAX_COTHREADS,   \* LIBMICROKITCO_MAX_COTHREADS, the root thread included
  Channels,        \* Microkit channels, each with a semaphore of its own
  BadChannel,      \* a channel number not below MICROKIT_MAX_CHANNELS
  Semaphores,      \* semaphores in the client's own (zeroed) memory
  Args,            \* private arguments
  Rules            \* the rules the client keeps, see RuleNames

(* The header refuses to compile with fewer than two threads.              *)
ASSUME SizeAssumption == MAX_COTHREADS \in Nat /\ MAX_COTHREADS >= 2
ASSUME SemsAssumption == /\ Channels \cap Semaphores = {}
                         /\ BadChannel \notin Channels

ROOT == 0                          \* LIBMICROKITCO_ROOT_THREAD
NULL == -1                         \* LIBMICROKITCO_NULL_HANDLE
Threads == 0 .. MAX_COTHREADS - 1
Cothreads == 1 .. MAX_COTHREADS - 1
Sems == Channels \cup Semaphores
NoArg == "null"

(* What a client may pass as a handle: any thread, or one off either end.  *)
Handles == -1 .. MAX_COTHREADS

(***************************************************************************)
(* The library does not check everything it relies on.  Each rule below is *)
(* an obligation of the client; a configuration says which ones its client *)
(* keeps.  Destroying a blocked cothread is documented as undefined        *)
(* behaviour and no client here does it.                                   *)
(***************************************************************************)
RuleNames == {
  "valid_arguments",         \* no argument the library answers with a panic
  "semaphores_initialised",  \* semaphores are initialised once, before use
  "root_never_waits",        \* the root thread does not wait on a semaphore
  "cothreads_destroy",       \* only cothreads destroy, and only cothreads
  "no_stale_reuse" }         \* a destroyed ready cothread's handle is spawned
                             \* again only after the queue has drained it
ASSUME RulesAssumption == Rules \subseteq RuleNames

VARIABLES
  running,             \* co_controller->running
  state,               \* tcbs[t].state
  next_blocked,        \* tcbs[t].next_blocked_on_same_event
  private_arg,         \* tcbs[t].private_arg
  free_handle_queue,
  scheduling_queue,
  sem,                 \* every semaphore: the channels' and the client's
  co_active_handle,    \* libco: whose stack and registers the CPU is using
  context,             \* libco: where each thread's saved registers resume
  event_loop,          \* the root thread is in Microkit's receive
  fault,               \* why the PD has crashed, or "none"
  waiters              \* history: who blocked on a semaphore, in order

tcbs == <<state, next_blocked, private_arg>>
libco == <<co_active_handle, context>>
vars == <<running, tcbs, free_handle_queue, scheduling_queue, sem, libco,
          event_loop, fault, waiters>>

Obey(rule, condition) == rule \in Rules => condition

(* A faulty Full: the queues have no room for the root thread.             *)
Faulty_full(queue) == Len(queue) = MAX_COTHREADS - 1

Full(queue) == Len(queue) = MAX_COTHREADS

EmptySem == [set |-> FALSE, head |-> NULL, tail |-> NULL]
ZeroSem  == [set |-> FALSE, head |-> ROOT, tail |-> ROOT]

Init ==
  /\ running = ROOT
  /\ state = [t \in Threads |-> IF t = ROOT THEN "running" ELSE "not_active"]
  /\ next_blocked = [t \in Threads |-> IF t = ROOT THEN NULL ELSE 0]
  /\ private_arg = [t \in Threads |-> NoArg]
  /\ free_handle_queue = [i \in Cothreads |-> i]
  /\ scheduling_queue = <<>>
  /\ sem = [s \in Sems |-> IF s \in Channels THEN EmptySem ELSE ZeroSem]
  /\ co_active_handle = ROOT
  /\ context = [t \in Threads |-> IF t = ROOT THEN "live" ELSE "none"]
  /\ event_loop = FALSE
  /\ fault = "none"
  /\ waiters = [s \in Sems |-> <<>>]

-----------------------------------------------------------------------------
(* internal_co_fatal_errors_t, less the errors of microkit_cothread_init's *)
(* argument checks and those no step raises; and the fault of a spawn that *)
(* zeroes the root thread's missing stack.                                 *)
Errors == {
  "co_err_sem_sig_once_cannot_schedule_caller", "destroy_cannot_destroy_root",
  "destroy_cannot_release_handle", "destroy_already_not_initialised",
  "generic_invalid_handle", "init_already_initialised", "my_arg_called_from_root",
  "recv_ntfn_called_from_non_root_cothread", "recv_ntfn_invalid_channel",
  "spawn_cannot_schedule_new", "spawn_client_entry_is_null",
  "wait_on_channel_invalid_channel", "yield_cannot_schedule_caller", "null_stack" }

(* A write to an unmapped address stops the PD for good; what the call had *)
(* changed before it failed is of no consequence any more.                 *)
microkit_cothread_panic(err) ==
  /\ fault' = err
  /\ UNCHANGED <<running, tcbs, free_handle_queue, scheduling_queue, sem,
                 libco, event_loop, waiters>>

(* Client code is executing, on the thread `running`.                      *)
InClient == fault = "none" /\ ~event_loop

(* libco: saves the caller's registers, to resume inside the call `site`,  *)
(* and loads the target's.  Switching to oneself saves, then reloads.      *)
co_switch(target, site) ==
  /\ co_active_handle' = target
  /\ context' = [context EXCEPT ![co_active_handle] = site, ![target] = "live"]

(* internal_schedule and the switch: entries that are neither the root     *)
(* thread nor ready are popped and dropped; if that empties the queue the  *)
(* root thread runs.  q and st are the queue and states the caller left.   *)
Faulty_first_entry(q, st) == {1}   \* faulty: the entry's state is not tested

FirstRunnable(q, st) ==
  LET runnable == {i \in 1 .. Len(q) : q[i] = ROOT \/ st[q[i]] = "ready"}
  IN  {i \in runnable \cup {Len(q) + 1} : \A j \in runnable : i <= j}

(* A faulty internal_go_next: the chosen thread is peeked, not popped.     *)
Faulty_peek_next(q, st, site) ==
  \E i \in FirstRunnable(q, st) :
    LET next == IF i <= Len(q) THEN q[i] ELSE ROOT
    IN  /\ scheduling_queue' = SubSeq(q, i, Len(q))
        /\ state' = [st EXCEPT ![next] = "running"]
        /\ running' = next
        /\ co_switch(next, site)

internal_go_next(q, st, site) ==
  \E i \in FirstRunnable(q, st) :
    LET next == IF i <= Len(q) THEN q[i] ELSE ROOT
    IN  /\ scheduling_queue' = SubSeq(q, i + 1, Len(q))
        /\ state' = [st EXCEPT ![next] = "running"]
        /\ running' = next
        /\ co_switch(next, site)

-----------------------------------------------------------------------------
(* Semaphores.  The waiting cothreads of one semaphore are linked through  *)
(* their TCBs, from head to tail.                                          *)

semaphore_init(s) == sem' = [sem EXCEPT ![s] = EmptySem]

(* A faulty semaphore_wait: the newest waiter goes in front of the others. *)
Faulty_wait_lifo(s) ==
  /\ ~sem[s].set
  /\ next_blocked' = [next_blocked EXCEPT ![running] = sem[s].head]
  /\ sem' = [sem EXCEPT ![s].head = running,
                        ![s].tail = IF @ = NULL THEN running ELSE @]
  /\ waiters' = [waiters EXCEPT ![s] = Append(@, running)]
  /\ internal_go_next(scheduling_queue,
                      [state EXCEPT ![running] = "blocked"], "wait")
  /\ UNCHANGED private_arg

semaphore_wait(s) ==
  \/ /\ sem[s].set
     /\ sem' = [sem EXCEPT ![s].set = FALSE]
     /\ UNCHANGED <<running, tcbs, scheduling_queue, libco, waiters>>
  \/ /\ ~sem[s].set
     /\ IF sem[s].head = NULL
        THEN /\ sem' = [sem EXCEPT ![s].head = running, ![s].tail = running]
             /\ UNCHANGED next_blocked
        ELSE /\ next_blocked' = [next_blocked EXCEPT ![sem[s].tail] = running]
             /\ sem' = [sem EXCEPT ![s].tail = running]
     /\ waiters' = [waiters EXCEPT ![s] = IF running \in Range(@)
                                         THEN @ ELSE Append(@, running)]
     /\ internal_go_next(scheduling_queue,
                         [state EXCEPT ![running] = "blocked"], "wait")
     /\ UNCHANGED private_arg

(* A faulty MoveList: the woken thread keeps its link to the next waiter.  *)
Faulty_keep_link(s) ==
  /\ sem' = [sem EXCEPT ![s] = IF next_blocked[@.head] = NULL THEN EmptySem
                               ELSE [@ EXCEPT !.head = next_blocked[@]]]
  /\ waiters' = [waiters EXCEPT ![s] = IF @ = <<>> THEN @ ELSE Tail(@)]
  /\ UNCHANGED next_blocked

(* The thread at the head of the waiting list leaves it.                   *)
MoveList(s) ==
  LET head == sem[s].head
      next == next_blocked[head]
  IN  /\ IF next = NULL THEN semaphore_init(s)
                        ELSE sem' = [sem EXCEPT ![s].head = next]
      /\ next_blocked' = [next_blocked EXCEPT ![head] = NULL]
      /\ waiters' = [waiters EXCEPT ![s] = IF @ # <<>> /\ Head(@) = head
                                          THEN Tail(@) ELSE @]

(* Faulty Resumes: the caller is left out of the scheduling queue, or goes *)
(* to its front, or stays in the running state, or stays `running`.        *)
Faulty_resume_unqueued(head) ==
  /\ state' = [state EXCEPT ![running] = "ready", ![head] = "running"]
  /\ running' = head
  /\ co_switch(head, "signal")
  /\ UNCHANGED scheduling_queue

Faulty_resume_front(head) ==
  /\ scheduling_queue' = <<running>> \o scheduling_queue
  /\ state' = [state EXCEPT ![running] = "ready", ![head] = "running"]
  /\ running' = head
  /\ co_switch(head, "signal")

Faulty_resume_state(head) ==
  /\ scheduling_queue' = Append(scheduling_queue, running)
  /\ state' = [state EXCEPT ![head] = "running"]
  /\ running' = head
  /\ co_switch(head, "signal")

Faulty_resume_running(head) ==
  /\ scheduling_queue' = Append(scheduling_queue, running)
  /\ state' = [state EXCEPT ![running] = "ready", ![head] = "running"]
  /\ co_switch(head, "signal")
  /\ UNCHANGED running

(* The unblocked thread runs at once; the caller queues behind the rest.   *)
Resume(head) ==
  /\ scheduling_queue' = Append(scheduling_queue, running)
  /\ state' = [state EXCEPT ![running] = "ready", ![head] = "running"]
  /\ running' = head
  /\ co_switch(head, "signal")

(* A faulty Unblock: head is read again after the list has moved.          *)
Faulty_unblock_next(s) ==
  /\ MoveList(s)
  /\ Resume(next_blocked[sem[s].head])
  /\ UNCHANGED <<private_arg, free_handle_queue, event_loop, fault>>

Unblock(s) ==
  /\ MoveList(s)
  /\ Resume(sem[s].head)
  /\ UNCHANGED <<private_arg, free_handle_queue, event_loop, fault>>

microkit_cothread_semaphore_is_set(s) == sem[s].set

microkit_cothread_semaphore_is_queue_empty(s) == sem[s].head = NULL

semaphore_signal(s) ==
  \/ microkit_cothread_semaphore_is_set(s) /\ UNCHANGED vars
  \/ /\ ~microkit_cothread_semaphore_is_set(s)
     /\ microkit_cothread_semaphore_is_queue_empty(s)
     /\ sem' = [sem EXCEPT ![s].set = TRUE]
     /\ UNCHANGED <<running, tcbs, free_handle_queue, scheduling_queue, libco,
                    event_loop, fault, waiters>>
  \/ /\ ~microkit_cothread_semaphore_is_set(s)
     /\ ~microkit_cothread_semaphore_is_queue_empty(s)
     /\ \/ /\ Full(scheduling_queue)
           /\ microkit_cothread_panic("co_err_sem_sig_once_cannot_schedule_caller")
        \/ ~Full(scheduling_queue) /\ Unblock(s)

-----------------------------------------------------------------------------
(* Public functions.                                                       *)

microkit_cothread_init ==
  /\ InClient
  /\ Obey("valid_arguments", FALSE)
  /\ microkit_cothread_panic("init_already_initialised")

microkit_cothread_semaphore_init(s) ==
  /\ InClient
  /\ Obey("semaphores_initialised", sem[s] = ZeroSem)
  /\ semaphore_init(s)
  /\ UNCHANGED <<running, tcbs, free_handle_queue, scheduling_queue, libco,
                 event_loop, fault, waiters>>

(* While the root thread never waits, only an uninitialised semaphore has  *)
(* the zero handle at its head.                                            *)
Initialised(s) == Obey("semaphores_initialised", s \in Channels \/ sem[s] # ZeroSem)

microkit_cothread_semaphore_wait(s) ==
  /\ InClient
  /\ Initialised(s)
  /\ Obey("root_never_waits", running # ROOT)
  /\ semaphore_wait(s)
  /\ UNCHANGED <<free_handle_queue, event_loop, fault>>

microkit_cothread_semaphore_signal(s) ==
  /\ InClient
  /\ Initialised(s)
  /\ semaphore_signal(s)

Faulty_spawn_peek(new, arg) ==   \* faulty: the handle stays in the pool
  /\ private_arg' = [private_arg EXCEPT ![new] = arg]
  /\ context' = [context EXCEPT ![new] = "entry"]
  /\ state' = [state EXCEPT ![new] = "ready"]
  /\ next_blocked' = [next_blocked EXCEPT ![new] = NULL]
  /\ scheduling_queue' = Append(scheduling_queue, new)
  /\ UNCHANGED <<running, sem, free_handle_queue, co_active_handle, event_loop,
                 fault, waiters>>

(* new has just been popped.  Handle 0, should it ever be released, has no *)
(* stack: zeroing it writes to address 0.                                  *)
spawn(new, arg) ==
  \/ new = ROOT /\ microkit_cothread_panic("null_stack")
  \/ /\ new # ROOT /\ Full(scheduling_queue)
     /\ microkit_cothread_panic("spawn_cannot_schedule_new")
  \/ /\ new # ROOT /\ ~Full(scheduling_queue)
     /\ free_handle_queue' = Tail(free_handle_queue)
     /\ private_arg' = [private_arg EXCEPT ![new] = arg]
     /\ context' = [context EXCEPT ![new] = "entry"]   \* co_derive
     /\ state' = [state EXCEPT ![new] = "ready"]
     /\ next_blocked' = [next_blocked EXCEPT ![new] = NULL]
     /\ scheduling_queue' = Append(scheduling_queue, new)
     /\ UNCHANGED <<running, sem, co_active_handle, event_loop, fault, waiters>>

(* An exhausted pool makes the call return the null handle.                *)
microkit_cothread_spawn(client_entry, arg) ==
  /\ InClient
  /\ Obey("valid_arguments", client_entry # "null")
  /\ Obey("no_stale_reuse",
          free_handle_queue # <<>> =>
            Head(free_handle_queue) \notin Range(scheduling_queue))
  /\ \/ /\ client_entry = "null"
        /\ microkit_cothread_panic("spawn_client_entry_is_null")
     \/ /\ client_entry # "null" /\ free_handle_queue = <<>>
        /\ UNCHANGED vars
     \/ /\ client_entry # "null" /\ free_handle_queue # <<>>
        /\ spawn(Head(free_handle_queue), arg)

microkit_cothread_set_arg(cothread, arg) ==
  /\ InClient
  /\ \/ /\ cothread \in Threads /\ state[cothread] # "not_active"
        /\ private_arg' = [private_arg EXCEPT ![cothread] = arg]
        /\ UNCHANGED <<running, state, next_blocked, free_handle_queue, libco,
                       scheduling_queue, sem, event_loop, fault, waiters>>
     \/ /\ ~(cothread \in Threads /\ state[cothread] # "not_active")
        /\ Obey("valid_arguments", FALSE)
        /\ microkit_cothread_panic("generic_invalid_handle")

microkit_cothread_query_state(cothread) ==
  /\ InClient
  /\ \/ cothread \in Threads /\ UNCHANGED vars
     \/ /\ cothread \notin Threads
        /\ Obey("valid_arguments", FALSE)
        /\ microkit_cothread_panic("generic_invalid_handle")

microkit_cothread_my_arg ==
  /\ InClient
  /\ \/ running # ROOT /\ UNCHANGED vars
     \/ /\ running = ROOT
        /\ Obey("valid_arguments", FALSE)
        /\ microkit_cothread_panic("my_arg_called_from_root")

microkit_cothread_yield ==
  /\ InClient
  /\ \/ /\ Full(scheduling_queue)
        /\ microkit_cothread_panic("yield_cannot_schedule_caller")
     \/ /\ ~Full(scheduling_queue)
        /\ internal_go_next(Append(scheduling_queue, running),
                            [state EXCEPT ![running] = "ready"], "yield")
        /\ UNCHANGED <<next_blocked, private_arg, free_handle_queue, sem,
                       event_loop, fault, waiters>>

(* The handle goes back to the pool, and stays in the scheduling queue if  *)
(* it was ready.                                                           *)
Faulty_release(cothread) ==      \* faulty: only one's own TCB is marked
  /\ free_handle_queue' = Append(free_handle_queue, cothread)
  /\ \/ /\ cothread = running
        /\ internal_go_next(scheduling_queue,
                            [state EXCEPT ![cothread] = "not_active"], "dead")
     \/ /\ cothread # running
        /\ UNCHANGED <<running, state, scheduling_queue, libco>>
  /\ UNCHANGED <<next_blocked, private_arg, sem, event_loop, fault, waiters>>

Release(cothread) ==
  LET st == [state EXCEPT ![cothread] = "not_active"]
  IN  /\ free_handle_queue' = Append(free_handle_queue, cothread)
      /\ \/ /\ cothread = running
            /\ internal_go_next(scheduling_queue, st, "dead")
         \/ /\ cothread # running
            /\ state' = st
            /\ UNCHANGED <<running, scheduling_queue, libco>>
      /\ UNCHANGED <<next_blocked, private_arg, sem, event_loop, fault, waiters>>

(* The third test looks at the caller, not at the handle it was given.     *)
destroy(cothread) ==
  \/ /\ cothread \notin Threads
     /\ microkit_cothread_panic("generic_invalid_handle")
  \/ /\ cothread \in Threads
     /\ \/ /\ state[cothread] = "not_active"
           /\ microkit_cothread_panic("destroy_already_not_initialised")
        \/ /\ state[cothread] # "not_active" /\ running = ROOT
           /\ microkit_cothread_panic("destroy_cannot_destroy_root")
        \/ /\ state[cothread] # "not_active" /\ running # ROOT
           /\ Full(free_handle_queue)
           /\ microkit_cothread_panic("destroy_cannot_release_handle")
        \/ /\ state[cothread] # "not_active" /\ running # ROOT
           /\ ~Full(free_handle_queue)
           /\ Release(cothread)

microkit_cothread_destroy(cothread) ==
  /\ InClient
  /\ Obey("valid_arguments", cothread \in Threads /\ state[cothread] # "not_active")
  /\ Obey("cothreads_destroy", running # ROOT /\ cothread # ROOT)
  /\ cothread \in Threads => state[cothread] # "blocked"
  /\ destroy(cothread)

(* The client's entry point returns: the wrapper destroys the cothread.    *)
cothread_entry_wrapper == InClient /\ running # ROOT /\ destroy(running)

microkit_cothread_wait_on_channel(wake_on) ==
  /\ InClient
  /\ Obey("root_never_waits", running # ROOT)
  /\ \/ /\ wake_on \notin Channels
        /\ Obey("valid_arguments", FALSE)
        /\ microkit_cothread_panic("wait_on_channel_invalid_channel")
     \/ /\ wake_on \in Channels
        /\ semaphore_wait(wake_on)
        /\ UNCHANGED <<free_handle_queue, event_loop, fault>>

microkit_cothread_recv_ntfn(ch) ==
  /\ InClient
  /\ Obey("valid_arguments", running = ROOT /\ ch \in Channels)
  /\ \/ /\ running # ROOT
        /\ microkit_cothread_panic("recv_ntfn_called_from_non_root_cothread")
     \/ /\ running = ROOT /\ ch \notin Channels
        /\ microkit_cothread_panic("recv_ntfn_invalid_channel")
     \/ running = ROOT /\ ch \in Channels /\ semaphore_signal(ch)

-----------------------------------------------------------------------------
(* The Microkit event loop, which is not part of the repository: init() or *)
(* notified() returns on the root thread, and the root thread waits until  *)
(* a notification makes it enter notified() again.                         *)
HandlerReturns ==
  /\ InClient /\ running = ROOT
  /\ event_loop' = TRUE
  /\ UNCHANGED <<running, tcbs, free_handle_queue, scheduling_queue, sem,
                 libco, fault, waiters>>

Notified ==
  /\ fault = "none" /\ event_loop
  /\ event_loop' = FALSE
  /\ UNCHANGED <<running, tcbs, free_handle_queue, scheduling_queue, sem,
                 libco, fault, waiters>>

Next ==
  \/ microkit_cothread_init
  \/ \E s \in Semaphores : microkit_cothread_semaphore_init(s)
  \/ \E s \in Semaphores : microkit_cothread_semaphore_wait(s)
  \/ \E s \in Semaphores : microkit_cothread_semaphore_signal(s)
  \/ \E e \in {"entry", "null"}, a \in Args : microkit_cothread_spawn(e, a)
  \/ \E h \in Handles, a \in Args : microkit_cothread_set_arg(h, a)
  \/ \E h \in Handles : microkit_cothread_query_state(h)
  \/ microkit_cothread_my_arg
  \/ microkit_cothread_yield
  \/ \E h \in Handles : microkit_cothread_destroy(h)
  \/ cothread_entry_wrapper
  \/ \E c \in Channels \cup {BadChannel} : microkit_cothread_wait_on_channel(c)
  \/ \E c \in Channels \cup {BadChannel} : microkit_cothread_recv_ntfn(c)
  \/ HandlerReturns
  \/ Notified

Spec == Init /\ [][Next]_vars

(***************************************************************************)
(* The documentation asks cothreads to yield judiciously: a thread that    *)
(* has the CPU does not keep it for ever.  Switch is every way of letting  *)
(* go of it; a yield is always among them, so the fairness asks no more    *)
(* than that.                                                              *)
(***************************************************************************)
Switch ==
  \/ microkit_cothread_yield
  \/ \E s \in Semaphores : microkit_cothread_semaphore_wait(s) /\ running' # running
  \/ \E c \in Channels : microkit_cothread_wait_on_channel(c) /\ running' # running
  \/ cothread_entry_wrapper
  \/ HandlerReturns

FairSpec == Spec /\ WF_vars(Switch)

-----------------------------------------------------------------------------
States == {"not_active", "blocked", "ready", "running"}
Contexts == {"none", "live", "entry", "yield", "wait", "signal", "dead"}

TypeOK ==
  /\ running \in Threads
  /\ state \in [Threads -> States]
  /\ next_blocked \in [Threads -> Threads \cup {NULL}]
  /\ private_arg \in [Threads -> Args \cup {NoArg}]
  /\ free_handle_queue \in Seq(Threads)
  /\ scheduling_queue \in Seq(Threads)
  /\ sem \in [Sems -> [set : BOOLEAN, head : Threads \cup {NULL},
                        tail : Threads \cup {NULL}]]
  /\ co_active_handle \in Threads
  /\ context \in [Threads -> Contexts]
  /\ event_loop \in BOOLEAN
  /\ fault \in Errors \cup {"none"}
  /\ waiters \in [Sems -> Seq(Threads)]

(* The library identifies its caller by `running`, which it maintains next *)
(* to, not from, the context libco is executing.  Whatever a client calls  *)
(* and in whatever order, they name the same thread, and that thread alone *)
(* is live.                                                                *)
CallerInv ==
  /\ co_active_handle = running
  /\ state[running] = "running"
  /\ \A t \in Threads : context[t] = "live" <=> t = running
  /\ event_loop => running = ROOT

(* Whatever a client calls, a switch to a cothread loads registers that    *)
(* were saved or derived for it, and never those of a destroyed one, even  *)
(* though destroy leaves handles behind in the scheduling queue.           *)
ResumesSaved ==
  [][co_active_handle' # co_active_handle =>
       /\ context[co_active_handle'] \in {"entry", "yield", "wait", "signal"}
       /\ co_active_handle' # ROOT => state[co_active_handle'] \in {"ready", "blocked"}
    ]_vars

(* Whatever a client calls, the heads of the waiting lists and the links   *)
(* through the TCBs lead to blocked cothreads only, and to each of them    *)
(* from at most one place: no signal resumes a cothread twice, and none    *)
(* whose handle has been reused.  The root thread is exempt: a wait of its *)
(* may end unsignalled, and it then is still on the list.  A list with a   *)
(* head has a tail: no wait links itself behind tcbs[-1].                  *)
LinksInv ==
  LET First(s) == sem[s].head
      Link(t) == next_blocked[t]
  IN  /\ \A s \in Sems : First(s) \in Cothreads => state[First(s)] = "blocked"
      /\ \A t \in Threads : Link(t) \in Cothreads => state[Link(t)] = "blocked"
      /\ \A s, r \in Sems : First(s) \in Cothreads /\ First(s) = First(r) => s = r
      /\ \A t, u \in Threads : Link(t) \in Cothreads /\ Link(t) = Link(u) => t = u
      /\ \A s \in Sems, t \in Threads : First(s) \in Cothreads => First(s) # Link(t)
      /\ \A s \in Sems : First(s) # NULL => sem[s].tail # NULL

(* Exactly one thread is in the running state, and every other thread's    *)
(* registers were saved in the kind of call its state says it is in.       *)
ControlInv ==
  \A t \in Threads :
    /\ state[t] = "running" => t = running
    /\ state[t] = "ready" => context[t] \in {"entry", "yield", "signal"}
    /\ state[t] = "blocked" => context[t] = "wait"

(* No runnable thread is ever lost or scheduled twice: a ready thread is   *)
(* in the scheduling queue, nothing is in it more than once, and all else  *)
(* in it are the stale entries of cothreads destroyed while ready.         *)
SchedulingInv ==
  /\ IsInjective(scheduling_queue)
  /\ \A t \in Threads : state[t] = "ready" => t \in Range(scheduling_queue)
  /\ \A t \in Range(scheduling_queue) : state[t] \in {"ready", "not_active"}

(* Handles are neither leaked nor handed out twice: the pool holds each    *)
(* handle that no cothread is using, once, and never the root's.           *)
HandleInv ==
  /\ IsInjective(free_handle_queue)
  /\ Range(free_handle_queue) = {t \in Threads : state[t] = "not_active"}
  /\ ROOT \notin Range(free_handle_queue)

(* The links through the TCBs spell out, for every semaphore, exactly the  *)
(* cothreads that blocked on it and were not woken yet, in the order they  *)
(* came; every blocked cothread is on one list, in one place; a set        *)
(* semaphore has no waiters; and a thread on no list has no dangling link  *)
(* that its next wait would graft onto another list.                       *)
Linked(s) ==
  LET w == waiters[s]
  IN  IF w = <<>>
      THEN \/ sem[s].head = NULL
           \/ s \in Semaphores /\ sem[s] = ZeroSem
      ELSE /\ ~sem[s].set
           /\ sem[s].head = w[1]
           /\ sem[s].tail = w[Len(w)]
           /\ next_blocked[w[Len(w)]] = NULL
           /\ \A i \in 1 .. Len(w) - 1 : next_blocked[w[i]] = w[i + 1]

WaitListInv ==
  /\ \A s \in Sems : Linked(s)
  /\ \A s, r \in Sems : \A i \in DOMAIN waiters[s], j \in DOMAIN waiters[r] :
       waiters[s][i] = waiters[r][j] => s = r /\ i = j
  /\ \A t \in Threads :
       state[t] = "blocked" <=> \E s \in Sems : t \in Range(waiters[s])
  /\ \A t \in Threads : state[t] \in {"ready", "running"} => next_blocked[t] = NULL

(* Whenever a cothread has the CPU the root thread is in the scheduling    *)
(* queue: the PD can always get back to its event loop.                    *)
RootInv == running # ROOT => ROOT \in Range(scheduling_queue)

(* A client that keeps the rules never crashes its PD in the library, the  *)
(* two queues never overflow in particular.                                *)
NoFault == fault = "none"

(* A call of semaphore_wait that blocked returns only because the          *)
(* semaphore was signalled, and the longest waiting thread is the one that *)
(* gets the signal.                                                        *)
WaitEndsBySignal ==
  [][ \A t \in Threads :
        context[t] = "wait" /\ context'[t] = "live" =>
          \E s \in Sems : /\ waiters[s] # <<>>
                          /\ t = Head(waiters[s])
                          /\ waiters'[s] = Tail(waiters[s]) ]_vars

(* A ready cothread runs, is destroyed, or the root thread goes to the     *)
(* event loop: nobody is overtaken for ever in the scheduling queue.       *)
ReadyRuns ==
  \A t \in Cothreads : state[t] = "ready" ~> (state[t] # "ready" \/ event_loop)

(* The root thread gets the CPU again and again, so the PD never stops     *)
(* receiving for good.                                                     *)
RootRunsAgain == []<>(running = ROOT)

(* The abstract system: the ready threads, and who of them is before whom  *)
(* in the scheduling queue, whatever stale entries are between them.       *)
ReadyIn(st) == {t \in Threads : st[t] = "ready"}

Before(q, t, u) == \E i, j \in 1 .. Len(q) : i < j /\ q[i] = t /\ q[j] = u

Order(q, st) == {p \in ReadyIn(st) \X ReadyIn(st) : Before(q, p[1], p[2])}

System == INSTANCE CothreadSystem WITH
            Root <- ROOT,
            current <- running,
            ready <- ReadyIn(state),
            ahead <- Order(scheduling_queue, state),
            waiting <- waiters,
            signalled <- [s \in Sems |-> sem[s].set],
            receiving <- event_loop

(* With a client that keeps the rules the library is such a system: ready  *)
(* threads run in the order they became ready, whatever was destroyed and  *)
(* whichever handles were reused; a signal goes to the longest waiting     *)
(* thread, with the CPU, or is remembered once.                            *)
ImplementsSystem == System!Spec

-----------------------------------------------------------------------------
(* What the documentation or a comment says and the code does not do.      *)

(* destroy has a test commented "cannot destroy root thread".              *)
RootNeverDestroyed == state[ROOT] # "not_active"

=============================================================================
