-------------------------- MODULE MicrokitcoProofs --------------------------
(***************************************************************************)
(* What the library guarantees whatever its client calls: for every number *)
(* of threads, every set of channels and semaphores, and every choice of   *)
(* the rules the client keeps.                                             *)
(***************************************************************************)
EXTENDS Microkitco, SequenceTheorems, TLAPS

Saved == {"entry", "yield", "wait", "signal"}

(* Threads that do not have the CPU have registers to come back to.        *)
SavedInv ==
  /\ \A t \in Threads : state[t] = "running" => t = running
  /\ \A t \in Cothreads : state[t] \in {"ready", "blocked"} => context[t] \in Saved
  /\ running # ROOT => context[ROOT] \in Saved

(* Cothreads in the pool are not active and in it once.                    *)
PoolInv ==
  /\ \A i \in 1 .. Len(free_handle_queue) :
       free_handle_queue[i] # ROOT => state[free_handle_queue[i]] = "not_active"
  /\ \A i, j \in 1 .. Len(free_handle_queue) :
       free_handle_queue[i] # ROOT /\ free_handle_queue[i] = free_handle_queue[j]
         => i = j

AnyInv == TypeOK /\ CallerInv /\ SavedInv /\ LinksInv /\ PoolInv

LEMMA ThreadFacts ==
  /\ ROOT \in Threads
  /\ Cothreads = Threads \ {ROOT}
  /\ NULL \notin Threads
  /\ Threads \subseteq Int
  BY SizeAssumption DEF ROOT, NULL, Threads, Cothreads

-----------------------------------------------------------------------------
(* The scheduler picks an entry of the queue that is the root thread or    *)
(* ready and drops the entries before it, or falls back to the root        *)
(* thread when there is no such entry.                                     *)
LEMMA Scheduled ==
  ASSUME NEW q \in Seq(Threads), NEW st, NEW i \in FirstRunnable(q, st)
  PROVE  /\ i \in 1 .. Len(q) + 1
         /\ i <= Len(q) => q[i] \in Threads /\ (q[i] = ROOT \/ st[q[i]] = "ready")
         /\ \A j \in 1 .. Len(q) : j < i => q[j] # ROOT /\ st[q[j]] # "ready"
         /\ SubSeq(q, i + 1, Len(q)) \in Seq(Threads)
         /\ Len(SubSeq(q, i + 1, Len(q))) = IF i <= Len(q) THEN Len(q) - i ELSE 0
         /\ \A j \in 1 .. Len(q) - i : SubSeq(q, i + 1, Len(q))[j] = q[i + j]
<1> DEFINE runnable == {k \in 1 .. Len(q) : q[k] = ROOT \/ st[q[k]] = "ready"}
<1>1. Len(q) \in Nat
  BY LenProperties
<1>2. i \in runnable \cup {Len(q) + 1} /\ \A j \in runnable : i <= j
  BY DEF FirstRunnable
<1>3. i \in 1 .. Len(q) + 1
  BY <1>1, <1>2
<1>4. i <= Len(q) => q[i] \in Threads /\ (q[i] = ROOT \/ st[q[i]] = "ready")
  BY <1>1, <1>2, <1>3, ElementOfSeq
<1>5. \A j \in 1 .. Len(q) : j < i => q[j] # ROOT /\ st[q[j]] # "ready"
  BY <1>1, <1>2, <1>3
<1>6. \A j \in i + 1 .. Len(q) : q[j] \in Threads
  BY <1>1, <1>3, ElementOfSeq
<1>7. i + 1 \in Int /\ Len(q) \in Int
  BY <1>1, <1>3
<1>8. /\ SubSeq(q, i + 1, Len(q)) \in Seq(Threads)
      /\ Len(SubSeq(q, i + 1, Len(q)))
           = IF i + 1 <= Len(q) THEN Len(q) - (i + 1) + 1 ELSE 0
      /\ \A j \in 1 .. Len(q) - (i + 1) + 1 :
           SubSeq(q, i + 1, Len(q))[j] = q[(i + 1) + j - 1]
  BY <1>6, <1>7, SubSeqProperties
<1>9. Len(q) - (i + 1) + 1 = Len(q) - i /\ (i + 1 <= Len(q) \/ i = Len(q) \/ i = Len(q) + 1)
  BY <1>1, <1>3
<1>10. \A j \in 1 .. Len(q) - i : (i + 1) + j - 1 = i + j
  BY <1>1, <1>3
<1>11. Len(SubSeq(q, i + 1, Len(q))) = IF i <= Len(q) THEN Len(q) - i ELSE 0
  <2> DEFINE n == Len(q)
             m == Len(SubSeq(q, i + 1, n))
  <2>1. n \in Nat /\ i \in 1 .. n + 1 /\ m = IF i + 1 <= n THEN n - (i + 1) + 1 ELSE 0
    BY <1>1, <1>3, <1>8
  <2> HIDE DEF n, m
  <2>2. m = IF i <= n THEN n - i ELSE 0
    BY <2>1
  <2> QED BY <2>2 DEF n, m
<1>12. \A j \in 1 .. Len(q) - i : SubSeq(q, i + 1, Len(q))[j] = q[i + j]
  BY <1>8, <1>9, <1>10
<1> QED BY <1>3, <1>4, <1>5, <1>8, <1>11, <1>12

(* What internal_go_next does to the threads.  The caller has given up the *)
(* running state for x and saves its registers at site.                    *)
GoNextEffect(x, site) ==
  LET st == [state EXCEPT ![running] = x]
  IN  /\ scheduling_queue' \in Seq(Threads)
      /\ running' \in Threads
      /\ co_active_handle' = running'
      /\ running' = ROOT \/ st[running'] = "ready"
      /\ state' = [st EXCEPT ![running'] = "running"]
      /\ context' = [context EXCEPT ![running] = site, ![running'] = "live"]

LEMMA GoNext ==
  ASSUME TypeOK, CallerInv, NEW q \in Seq(Threads), NEW x, NEW site,
         internal_go_next(q, [state EXCEPT ![running] = x], site)
  PROVE  GoNextEffect(x, site)
<1> DEFINE st == [state EXCEPT ![running] = x]
<1>1. PICK i \in FirstRunnable(q, st) :
        LET next == IF i <= Len(q) THEN q[i] ELSE ROOT
        IN  /\ scheduling_queue' = SubSeq(q, i + 1, Len(q))
            /\ state' = [st EXCEPT ![next] = "running"]
            /\ running' = next
            /\ co_switch(next, site)
  BY DEF internal_go_next
<1>2. /\ i <= Len(q) => q[i] \in Threads /\ (q[i] = ROOT \/ st[q[i]] = "ready")
      /\ SubSeq(q, i + 1, Len(q)) \in Seq(Threads)
  BY Scheduled
<1>3. running' \in Threads /\ (running' = ROOT \/ st[running'] = "ready")
  BY <1>1, <1>2, ThreadFacts
<1> HIDE DEF st
<1>4. /\ scheduling_queue' \in Seq(Threads)
      /\ state' = [st EXCEPT ![running'] = "running"]
      /\ co_active_handle' = running'
      /\ context' = [context EXCEPT ![running] = site, ![running'] = "live"]
  BY <1>1, <1>2 DEF co_switch, CallerInv
<1> QED BY <1>3, <1>4 DEF GoNextEffect, st

(* What a step that switches may load.                                     *)
ResumesStep ==
  co_active_handle' # co_active_handle =>
    /\ context[co_active_handle'] \in Saved
    /\ co_active_handle' # ROOT => state[co_active_handle'] \in {"ready", "blocked"}

(* A call that ends in internal_go_next, seen from the other threads.      *)
LEMMA GoNextKeeps ==
  ASSUME TypeOK, CallerInv, SavedInv,
         NEW x \in {"ready", "blocked", "not_active"},
         NEW site \in {"yield", "wait", "dead"},
         x = "not_active" => running # ROOT,
         site = "dead" => x = "not_active",
         GoNextEffect(x, site),
         ~event_loop, UNCHANGED event_loop
  PROVE  /\ state' \in [Threads -> States]
         /\ context' \in [Threads -> Contexts]
         /\ CallerInv' /\ SavedInv' /\ ResumesStep
         /\ \A t \in Cothreads : /\ t # running
                                 /\ state[t] \in {"blocked", "not_active"}
                                 => state'[t] = state[t]
         /\ x # "ready" /\ running # ROOT => state'[running] = x
<1> DEFINE st == [state EXCEPT ![running] = x]
<1>1. /\ running \in Threads /\ state \in [Threads -> States]
      /\ context \in [Threads -> Contexts]
      /\ state[running] = "running" /\ co_active_handle = running
      /\ \A t \in Threads : context[t] = "live" <=> t = running
  BY DEF TypeOK, CallerInv
<1>2. /\ running' \in Threads /\ co_active_handle' = running'
      /\ running' = ROOT \/ st[running'] = "ready"
      /\ state' = [st EXCEPT ![running'] = "running"]
      /\ context' = [context EXCEPT ![running] = site, ![running'] = "live"]
  BY DEF GoNextEffect
<1>3. \A t \in Threads : st[t] = IF t = running THEN x ELSE state[t]
  BY <1>1
<1>4. \A t \in Threads : state'[t] = IF t = running' THEN "running" ELSE st[t]
  BY <1>1, <1>2
<1>5. \A t \in Threads : context'[t] = IF t = running' THEN "live"
                                       ELSE IF t = running THEN site ELSE context[t]
  BY <1>1, <1>2
<1>6. state' \in [Threads -> States] /\ context' \in [Threads -> Contexts]
  BY <1>1, <1>2 DEF States, Contexts
<1>7. CallerInv'
  BY <1>1, <1>2, <1>4, <1>5 DEF CallerInv
<1>8. SavedInv'
  <2>1. ASSUME NEW t \in Threads, state'[t] = "running" PROVE t = running'
    BY <1>3, <1>4, <2>1 DEF SavedInv
  <2>2. ASSUME NEW t \in Cothreads, state'[t] \in {"ready", "blocked"}
        PROVE  context'[t] \in Saved
    BY <1>3, <1>4, <1>5, <2>2, ThreadFacts DEF SavedInv, Saved
  <2>3. ASSUME running' # ROOT PROVE context'[ROOT] \in Saved
    BY <1>5, <2>3, ThreadFacts DEF SavedInv, Saved
  <2> QED BY <2>1, <2>2, <2>3 DEF SavedInv
<1>9. ResumesStep
  <2> SUFFICES ASSUME running' # running
               PROVE  /\ context[running'] \in Saved
                      /\ running' # ROOT => state[running'] \in {"ready", "blocked"}
    BY <1>1, <1>2 DEF ResumesStep
  <2>1. CASE running' = ROOT
    BY <2>1 DEF SavedInv
  <2>2. CASE running' # ROOT
    BY <1>2, <1>3, <2>2, ThreadFacts DEF SavedInv
  <2> QED BY <2>1, <2>2
<1>10. ASSUME NEW t \in Cothreads, t # running, state[t] \in {"blocked", "not_active"}
       PROVE  state'[t] = state[t]
  BY <1>2, <1>3, <1>4, <1>10, ThreadFacts
<1>11. ASSUME x # "ready", running # ROOT PROVE state'[running] = x
  BY <1>1, <1>2, <1>3, <1>4, <1>11
<1> QED BY <1>6, <1>7, <1>8, <1>9, <1>10, <1>11

(* A step that leaves the threads and the waiting lists alone.             *)
LEMMA Quiet ==
  ASSUME AnyInv, TypeOK', event_loop' => running = ROOT,
         UNCHANGED <<running, state, next_blocked, free_handle_queue, libco>>,
         \A s \in Sems : \/ sem'[s].head = sem[s].head /\ sem'[s].tail = sem[s].tail
                        \/ sem'[s].head = NULL
  PROVE  AnyInv' /\ ResumesStep
<1>1. CallerInv' /\ SavedInv' /\ PoolInv' /\ ResumesStep
  BY DEF AnyInv, CallerInv, SavedInv, PoolInv, ResumesStep, libco
<1>2. LinksInv'
  BY ThreadFacts DEF AnyInv, LinksInv
<1> QED BY <1>1, <1>2 DEF AnyInv

LEMMA Panic ==
  ASSUME AnyInv, NEW err \in Errors, microkit_cothread_panic(err)
  PROVE  AnyInv' /\ ResumesStep
<1>1. TypeOK'
  BY DEF AnyInv, TypeOK, microkit_cothread_panic, tcbs, libco
<1> QED BY <1>1, Quiet DEF AnyInv, CallerInv, microkit_cothread_panic, tcbs, libco

LEMMA Stutter ==
  ASSUME AnyInv, UNCHANGED vars
  PROVE  AnyInv' /\ ResumesStep
<1>1. TypeOK'
  BY DEF AnyInv, TypeOK, vars, tcbs, libco
<1> QED BY <1>1, Quiet DEF AnyInv, CallerInv, vars, tcbs, libco

-----------------------------------------------------------------------------
(* The running thread is on no waiting list, unless it is the root thread. *)
LEMMA RunningUnlinked ==
  ASSUME TypeOK, CallerInv, LinksInv, running # ROOT
  PROVE  /\ \A s \in Sems : sem[s].head # running
         /\ \A t \in Threads : next_blocked[t] # running
<1>1. running \in Cothreads /\ state[running] = "running"
  BY ThreadFacts DEF TypeOK, CallerInv
<1> QED BY <1>1 DEF LinksInv

LEMMA SemType ==
  ASSUME TypeOK, NEW s \in Sems
  PROVE  /\ sem[s].set \in BOOLEAN
         /\ sem[s].head \in Threads \cup {NULL}
         /\ sem[s].tail \in Threads \cup {NULL}
         /\ DOMAIN sem[s] = {"set", "head", "tail"}
  BY DEF TypeOK

LEMMA WaitKeeps ==
  ASSUME AnyInv, InClient, NEW s \in Sems, semaphore_wait(s),
         UNCHANGED <<free_handle_queue, event_loop, fault>>
  PROVE  AnyInv' /\ ResumesStep
<1> USE DEF AnyInv
<1>1. CASE sem[s].set
  <2>1. /\ sem' = [sem EXCEPT ![s].set = FALSE]
        /\ UNCHANGED <<running, tcbs, scheduling_queue, libco, waiters>>
    BY <1>1 DEF semaphore_wait
  <2>2. TypeOK'
    BY <2>1 DEF TypeOK, tcbs, libco
  <2>3. \A r \in Sems : sem'[r].head = sem[r].head /\ sem'[r].tail = sem[r].tail
    BY <2>1, SemType DEF TypeOK
  <2> QED BY <2>1, <2>2, <2>3, Quiet DEF tcbs, CallerInv
<1>2. CASE ~sem[s].set
  <2> DEFINE linked == sem[s].head # NULL
  <2>1. internal_go_next(scheduling_queue, [state EXCEPT ![running] = "blocked"], "wait")
    BY <1>2 DEF semaphore_wait
  <2>2. GoNextEffect("blocked", "wait")
    BY <2>1, GoNext DEF TypeOK
  <2>3. /\ state' \in [Threads -> States] /\ context' \in [Threads -> Contexts]
        /\ CallerInv' /\ SavedInv' /\ ResumesStep
        /\ \A t \in Cothreads : t # running /\ state[t] \in {"blocked", "not_active"}
                                  => state'[t] = state[t]
        /\ running # ROOT => state'[running] = "blocked"
    BY <2>2, GoNextKeeps DEF InClient
  <2>4. /\ sem' \in [Sems -> [set : BOOLEAN, head : Threads \cup {NULL},
                              tail : Threads \cup {NULL}]]
        /\ next_blocked' \in [Threads -> Threads \cup {NULL}]
    <3> DEFINE SemSet == [set : BOOLEAN, head : Threads \cup {NULL},
                          tail : Threads \cup {NULL}]
    <3>1. /\ sem \in [Sems -> SemSet] /\ running \in Threads
          /\ next_blocked \in [Threads -> Threads \cup {NULL}]
      BY DEF TypeOK
    <3>2. CASE linked
      <4>1. /\ next_blocked' = [next_blocked EXCEPT ![sem[s].tail] = running]
            /\ sem' = [sem EXCEPT ![s].tail = running]
        BY <1>2, <3>2 DEF semaphore_wait
      <4> QED BY <3>1, <4>1
    <3>3. CASE ~linked
      <4>1. /\ sem' = [sem EXCEPT ![s].head = running, ![s].tail = running]
            /\ UNCHANGED next_blocked
        BY <1>2, <3>3 DEF semaphore_wait
      <4> QED BY <3>1, <4>1
    <3> QED BY <3>2, <3>3
  <2>5. \A r \in Sems : sem'[r].head = IF r = s /\ ~linked THEN running ELSE sem[r].head
    BY <1>2 DEF semaphore_wait, TypeOK
  <2>6. \A t \in Threads :
          next_blocked'[t] = IF linked /\ t = sem[s].tail THEN running ELSE next_blocked[t]
    BY <1>2 DEF semaphore_wait, TypeOK
  <2>7. waiters' \in [Sems -> Seq(Threads)]
    <3>1. waiters[s] \in Seq(Threads) /\ running \in Threads
      BY DEF TypeOK
    <3>2. Append(waiters[s], running) \in Seq(Threads)
      BY <3>1
    <3> QED BY <1>2, <3>1, <3>2 DEF semaphore_wait, TypeOK
  <2>8. TypeOK'
    BY <1>2, <2>2, <2>3, <2>4, <2>7 DEF semaphore_wait, GoNextEffect, TypeOK
  <2>9. PoolInv'
    <3> SUFFICES ASSUME NEW i \in 1 .. Len(free_handle_queue), free_handle_queue[i] # ROOT
                 PROVE  state'[free_handle_queue[i]] = "not_active"
      BY DEF PoolInv
    <3>1. free_handle_queue[i] \in Cothreads
      BY ElementOfSeq, ThreadFacts DEF TypeOK
    <3> QED BY <2>3, <3>1 DEF PoolInv, CallerInv
  <2>10. LinksInv'
    <3>1. \A t \in Cothreads : state[t] = "blocked" => t # running /\ state'[t] = "blocked"
      BY <2>3 DEF CallerInv
    <3>2. running \in Cothreads => /\ state'[running] = "blocked"
                                   /\ \A r \in Sems : sem[r].head # running
                                   /\ \A t \in Threads : next_blocked[t] # running
      BY <2>3, RunningUnlinked, ThreadFacts
    <3>3. \A r \in Sems : sem'[r].tail = IF r = s THEN running ELSE sem[r].tail
      BY <1>2 DEF semaphore_wait, TypeOK
    <3>4. running # NULL
      BY ThreadFacts DEF TypeOK
    <3> HIDE DEF linked
    <3> QED BY <2>5, <2>6, <3>1, <3>2, <3>3, <3>4 DEF LinksInv
  <2> QED BY <2>3, <2>8, <2>9, <2>10
<1> QED BY <1>1, <1>2

(* Waking the head of a list moves the one reference to the next waiter    *)
(* from the head's TCB to the semaphore and leaves none to the head.       *)
LEMMA UnblockKeeps ==
  ASSUME AnyInv, InClient, NEW s \in Sems, sem[s].head # NULL, Unblock(s)
  PROVE  AnyInv' /\ ResumesStep
<1> USE DEF AnyInv
<1> DEFINE h == sem[s].head
           n == next_blocked[h]
           SemSet == [set : BOOLEAN, head : Threads \cup {NULL},
                      tail : Threads \cup {NULL}]
<1>1. /\ running \in Threads /\ state \in [Threads -> States]
      /\ context \in [Threads -> Contexts] /\ sem \in [Sems -> SemSet]
      /\ next_blocked \in [Threads -> Threads \cup {NULL}]
      /\ waiters \in [Sems -> Seq(Threads)] /\ scheduling_queue \in Seq(Threads)
  BY DEF TypeOK
<1>2. h \in Threads /\ n \in Threads \cup {NULL}
  BY <1>1
<1>3. h # ROOT => /\ state[h] = "blocked" /\ h # running /\ h \in Cothreads
                  /\ \A r \in Sems : sem[r].head = h => r = s
                  /\ \A t \in Threads : next_blocked[t] # h
  BY <1>2, ThreadFacts DEF LinksInv, CallerInv
<1>4. /\ sem' = IF n = NULL THEN [sem EXCEPT ![s] = EmptySem]
                            ELSE [sem EXCEPT ![s].head = n]
      /\ next_blocked' = [next_blocked EXCEPT ![h] = NULL]
      /\ waiters' = [waiters EXCEPT ![s] = IF @ # <<>> /\ Head(@) = h
                                          THEN Tail(@) ELSE @]
  BY DEF Unblock, MoveList, semaphore_init
<1>5. /\ scheduling_queue' = Append(scheduling_queue, running)
      /\ state' = [state EXCEPT ![running] = "ready", ![h] = "running"]
      /\ running' = h /\ co_active_handle' = h
      /\ context' = [context EXCEPT ![running] = "signal", ![h] = "live"]
      /\ UNCHANGED <<private_arg, free_handle_queue, event_loop, fault>>
  BY DEF Unblock, Resume, co_switch, CallerInv
<1> HIDE DEF n, h
<1>6. sem' \in [Sems -> SemSet] /\ \A r \in Sems : sem'[r].head = IF r = s THEN n ELSE sem[r].head
  <2>1. CASE n = NULL
    BY <1>1, <1>4, <2>1 DEF EmptySem
  <2>2. CASE n # NULL
    BY <1>1, <1>2, <1>4, <2>2
  <2> QED BY <2>1, <2>2
<1>7. /\ next_blocked' \in [Threads -> Threads \cup {NULL}]
      /\ \A t \in Threads : next_blocked'[t] = IF t = h THEN NULL ELSE next_blocked[t]
  BY <1>1, <1>2, <1>4
<1>8. /\ state' \in [Threads -> States]
      /\ \A t \in Threads : state'[t] = IF t = h THEN "running"
                                        ELSE IF t = running THEN "ready" ELSE state[t]
  BY <1>1, <1>2, <1>5 DEF States
<1>9. /\ context' \in [Threads -> Contexts]
      /\ \A t \in Threads : context'[t] = IF t = h THEN "live"
                                          ELSE IF t = running THEN "signal" ELSE context[t]
  BY <1>1, <1>2, <1>5 DEF Contexts
<1>10. waiters' \in [Sems -> Seq(Threads)] /\ scheduling_queue' \in Seq(Threads)
  <2>1. waiters[s] # <<>> => Tail(waiters[s]) \in Seq(Threads)
    BY <1>1, HeadTailProperties
  <2> QED BY <1>1, <1>4, <1>5, <2>1
<1>11. TypeOK'
  BY <1>2, <1>5, <1>6, <1>7, <1>8, <1>9, <1>10 DEF TypeOK
<1>12. CallerInv'
  BY <1>2, <1>5, <1>8, <1>9 DEF CallerInv, InClient
<1>13. SavedInv'
  BY <1>1, <1>5, <1>8, <1>9, ThreadFacts DEF SavedInv, Saved
<1>14. ResumesStep
  BY <1>2, <1>3, <1>5 DEF ResumesStep, SavedInv, CallerInv
<1>15. PoolInv'
  <2> SUFFICES ASSUME NEW i \in 1 .. Len(free_handle_queue), free_handle_queue[i] # ROOT
               PROVE  state'[free_handle_queue[i]] = "not_active"
    BY <1>5 DEF PoolInv
  <2>1. free_handle_queue[i] \in Threads /\ state[free_handle_queue[i]] = "not_active"
    BY ElementOfSeq DEF TypeOK, PoolInv
  <2> QED BY <1>3, <1>8, <2>1 DEF CallerInv
<1>16. LinksInv'
  <2>1. \A t \in Cothreads : state[t] = "blocked" /\ t # h => state'[t] = "blocked"
    BY <1>8, ThreadFacts DEF CallerInv
  <2>2. n \in Cothreads => n # h /\ \A r \in Sems : sem[r].head # n
    BY <1>2, <1>3, ThreadFacts DEF LinksInv, n
  <2>3. n \in Cothreads => /\ state[n] = "blocked"
                           /\ \A t \in Threads : next_blocked[t] = n => t = h
    BY <1>2 DEF LinksInv, n
  <2>4. NULL \notin Cothreads
    BY ThreadFacts
  <2>5. /\ \A r \in Sems : sem[r].head \in Cothreads /\ r # s => sem[r].head # h
        /\ \A t \in Threads : next_blocked[t] \in Cothreads => next_blocked[t] # h
    BY <1>3, ThreadFacts
  <2>6. \A r \in Sems : sem'[r].head \in Cothreads => state'[sem'[r].head] = "blocked"
    BY <1>6, <2>1, <2>2, <2>3, <2>5 DEF LinksInv
  <2>7. \A t \in Threads : next_blocked'[t] \in Cothreads => state'[next_blocked'[t]] = "blocked"
    BY <1>7, <2>1, <2>4, <2>5 DEF LinksInv
  <2>8. \A q, r \in Sems : sem'[q].head \in Cothreads /\ sem'[q].head = sem'[r].head => q = r
    BY <1>6, <2>2 DEF LinksInv
  <2>9. \A t, u \in Threads :
          next_blocked'[t] \in Cothreads /\ next_blocked'[t] = next_blocked'[u] => t = u
    BY <1>7, <2>4 DEF LinksInv
  <2>10. \A r \in Sems, t \in Threads :
           sem'[r].head \in Cothreads => sem'[r].head # next_blocked'[t]
    BY <1>6, <1>7, <2>3, <2>4 DEF LinksInv
  <2>11. \A r \in Sems : sem'[r].head # NULL => sem'[r].tail # NULL
    <3>1. CASE n = NULL
      BY <1>1, <1>4, <3>1 DEF LinksInv, EmptySem
    <3>2. CASE n # NULL
      BY <1>1, <1>4, <3>2 DEF LinksInv
    <3> QED BY <3>1, <3>2
  <2> QED BY <2>6, <2>7, <2>8, <2>9, <2>10, <2>11 DEF LinksInv
<1> QED BY <1>11, <1>12, <1>13, <1>14, <1>15, <1>16

LEMMA SignalKeeps ==
  ASSUME AnyInv, InClient, NEW s \in Sems, semaphore_signal(s)
  PROVE  AnyInv' /\ ResumesStep
<1>1. CASE UNCHANGED vars
  BY <1>1, Stutter
<1>2. CASE /\ sem' = [sem EXCEPT ![s].set = TRUE]
           /\ UNCHANGED <<running, tcbs, free_handle_queue, scheduling_queue, libco,
                          event_loop, fault, waiters>>
  <2>1. TypeOK'
    BY <1>2 DEF AnyInv, TypeOK, tcbs, libco
  <2>2. \A r \in Sems : sem'[r].head = sem[r].head /\ sem'[r].tail = sem[r].tail
    BY <1>2, SemType DEF AnyInv, TypeOK
  <2> QED BY <1>2, <2>1, <2>2, Quiet DEF AnyInv, CallerInv, tcbs
<1>3. CASE microkit_cothread_panic("co_err_sem_sig_once_cannot_schedule_caller")
  BY <1>3, Panic DEF Errors
<1>4. CASE sem[s].head # NULL /\ Unblock(s)
  BY <1>4, UnblockKeeps
<1> QED BY <1>1, <1>2, <1>3, <1>4
        DEF semaphore_signal, microkit_cothread_semaphore_is_queue_empty

(* A handle from the pool is on no waiting list.                           *)
LEMMA SpawnKeeps ==
  ASSUME AnyInv, InClient, NEW arg \in Args, free_handle_queue # <<>>,
         spawn(Head(free_handle_queue), arg)
  PROVE  AnyInv' /\ ResumesStep
<1> USE DEF AnyInv
<1> DEFINE new == Head(free_handle_queue)
<1>1. CASE microkit_cothread_panic("null_stack")
           \/ microkit_cothread_panic("spawn_cannot_schedule_new")
  BY <1>1, Panic DEF Errors
<1>2. CASE /\ new # ROOT
           /\ free_handle_queue' = Tail(free_handle_queue)
           /\ private_arg' = [private_arg EXCEPT ![new] = arg]
           /\ context' = [context EXCEPT ![new] = "entry"]
           /\ state' = [state EXCEPT ![new] = "ready"]
           /\ next_blocked' = [next_blocked EXCEPT ![new] = NULL]
           /\ scheduling_queue' = Append(scheduling_queue, new)
           /\ UNCHANGED <<running, sem, co_active_handle, event_loop, fault, waiters>>
  <2> DEFINE q == free_handle_queue
  <2>1. q \in Seq(Threads) /\ q # <<>>
    BY DEF TypeOK
  <2>2. /\ new \in Threads /\ new = q[1] /\ 1 \in 1 .. Len(q) /\ Len(q) \in Nat
        /\ Tail(q) \in Seq(Threads) /\ Len(Tail(q)) = Len(q) - 1
        /\ \A i \in 1 .. Len(Tail(q)) : Tail(q)[i] = q[i + 1]
    BY <2>1, HeadTailProperties, LenProperties
  <2>3. new \in Cothreads /\ state[new] = "not_active" /\ new # running
    BY <1>2, <2>2, ThreadFacts DEF PoolInv, CallerInv
  <2>4. TypeOK'
    <3>1. scheduling_queue' \in Seq(Threads)
      BY <1>2, <2>2 DEF TypeOK
    <3>2. state' \in [Threads -> States] /\ context' \in [Threads -> Contexts]
      BY <1>2 DEF TypeOK, States, Contexts
    <3> QED BY <1>2, <2>2, <3>1, <3>2 DEF TypeOK
  <2>5. \A t \in Threads : /\ state'[t] = IF t = new THEN "ready" ELSE state[t]
                           /\ context'[t] = IF t = new THEN "entry" ELSE context[t]
                           /\ next_blocked'[t] = IF t = new THEN NULL ELSE next_blocked[t]
    BY <1>2 DEF TypeOK
  <2> HIDE DEF new
  <2>6. CallerInv'
    BY <1>2, <2>3, <2>5 DEF CallerInv, InClient, TypeOK
  <2>7. SavedInv'
    BY <1>2, <2>3, <2>5, ThreadFacts DEF SavedInv, Saved
  <2>8. PoolInv'
    <3> DEFINE r == Tail(q)
    <3>1. /\ Len(r) = Len(q) - 1
          /\ \A i \in 1 .. Len(r) : r[i] = q[i + 1] /\ i + 1 \in 1 .. Len(q) /\ i + 1 # 1
      BY <2>2
    <3>2. \A i \in 1 .. Len(q) : q[i] \in Threads
      BY <2>1, ElementOfSeq
    <3>3. free_handle_queue' = r
      BY <1>2
    <3>4. /\ \A i \in 1 .. Len(q) : q[i] # ROOT => state[q[i]] = "not_active"
          /\ \A i, j \in 1 .. Len(q) : q[i] # ROOT /\ q[i] = q[j] => i = j
      BY DEF PoolInv
    <3> HIDE DEF r, q
    <3>5. ASSUME NEW i \in 1 .. Len(r), r[i] # ROOT PROVE state'[r[i]] = "not_active"
      <4>1. r[i] # new
        BY <2>2, <2>3, <3>1, <3>4, <3>5, ThreadFacts DEF q
      <4> QED BY <2>5, <3>1, <3>2, <3>4, <3>5, <4>1
    <3>6. ASSUME NEW i \in 1 .. Len(r), NEW j \in 1 .. Len(r), r[i] # ROOT, r[i] = r[j]
          PROVE  i = j
      BY <2>2, <3>1, <3>4, <3>6
    <3> QED BY <3>3, <3>5, <3>6 DEF PoolInv
  <2>9. LinksInv'
    BY <1>2, <2>3, <2>5, ThreadFacts DEF LinksInv, TypeOK
  <2> QED BY <1>2, <2>4, <2>6, <2>7, <2>8, <2>9 DEF ResumesStep
<1> QED BY <1>1, <1>2 DEF spawn

LEMMA YieldKeeps ==
  ASSUME AnyInv, microkit_cothread_yield
  PROVE  AnyInv' /\ ResumesStep
<1> USE DEF AnyInv
<1>1. CASE microkit_cothread_panic("yield_cannot_schedule_caller")
  BY <1>1, Panic DEF Errors
<1>2. CASE /\ internal_go_next(Append(scheduling_queue, running),
                               [state EXCEPT ![running] = "ready"], "yield")
           /\ UNCHANGED <<next_blocked, private_arg, free_handle_queue, sem,
                          event_loop, fault, waiters>>
  <2>1. Append(scheduling_queue, running) \in Seq(Threads)
    BY DEF TypeOK
  <2>2. GoNextEffect("ready", "yield")
    BY <1>2, <2>1, GoNext
  <2>3. ~event_loop
    BY DEF microkit_cothread_yield, InClient
  <2>4. /\ state' \in [Threads -> States] /\ context' \in [Threads -> Contexts]
        /\ CallerInv' /\ SavedInv' /\ ResumesStep
        /\ \A t \in Cothreads : t # running /\ state[t] \in {"blocked", "not_active"}
                                  => state'[t] = state[t]
    BY <1>2, <2>2, <2>3, GoNextKeeps
  <2>5. TypeOK'
    BY <1>2, <2>2, <2>4 DEF TypeOK, GoNextEffect
  <2>6. \A t \in Cothreads : state[t] \in {"blocked", "not_active"} => state'[t] = state[t]
    BY <2>4 DEF CallerInv
  <2>7. PoolInv'
    <3>1. \A i \in 1 .. Len(free_handle_queue) :
            free_handle_queue[i] # ROOT => free_handle_queue[i] \in Cothreads
      BY ElementOfSeq, ThreadFacts DEF TypeOK
    <3> QED BY <1>2, <2>6, <3>1 DEF PoolInv
  <2>8. LinksInv'
    BY <1>2, <2>6 DEF LinksInv
  <2> QED BY <2>4, <2>5, <2>7, <2>8
<1> QED BY <1>1, <1>2 DEF microkit_cothread_yield

(* A cothread that is not blocked is on no waiting list, so its handle can *)
(* go back to the pool.                                                    *)
LEMMA ReleaseKeeps ==
  ASSUME AnyInv, InClient, NEW c \in Threads, running # ROOT,
         state[c] \notin {"not_active", "blocked"}, Release(c)
  PROVE  AnyInv' /\ ResumesStep
<1> USE DEF AnyInv
<1> DEFINE q == free_handle_queue
<1>1. /\ free_handle_queue' = Append(q, c)
      /\ UNCHANGED <<next_blocked, private_arg, sem, event_loop, fault, waiters>>
  BY DEF Release
<1>2. /\ Append(q, c) \in Seq(Threads) /\ Len(Append(q, c)) = Len(q) + 1
      /\ \A i \in 1 .. Len(q) : Append(q, c)[i] = q[i]
      /\ Append(q, c)[Len(q) + 1] = c
      /\ \A i \in 1 .. Len(q) : q[i] \in Threads
      /\ Len(q) \in Nat
  BY AppendProperties, ElementOfSeq, LenProperties DEF TypeOK
<1>3. /\ TypeOK' /\ CallerInv' /\ SavedInv' /\ ResumesStep
      /\ \A t \in Cothreads : t # c /\ state[t] \in {"blocked", "not_active"}
                                => state'[t] = state[t]
      /\ c # ROOT => state'[c] = "not_active"
  <2>1. CASE c = running
    <3>1. internal_go_next(scheduling_queue, [state EXCEPT ![running] = "not_active"], "dead")
      BY <2>1 DEF Release
    <3>2. GoNextEffect("not_active", "dead")
      BY <3>1, GoNext DEF TypeOK
    <3>3. /\ state' \in [Threads -> States] /\ context' \in [Threads -> Contexts]
          /\ CallerInv' /\ SavedInv' /\ ResumesStep
          /\ \A t \in Cothreads : t # running /\ state[t] \in {"blocked", "not_active"}
                                    => state'[t] = state[t]
          /\ state'[running] = "not_active"
      BY <1>1, <3>2, GoNextKeeps DEF InClient
    <3>4. TypeOK'
      BY <1>1, <1>2, <3>2, <3>3 DEF TypeOK, GoNextEffect
    <3> QED BY <2>1, <3>3, <3>4
  <2>2. CASE c # running
    <3>1. /\ state' = [state EXCEPT ![c] = "not_active"]
          /\ UNCHANGED <<running, scheduling_queue, libco>>
      BY <2>2 DEF Release
    <3>2. \A t \in Threads : state'[t] = IF t = c THEN "not_active" ELSE state[t]
      BY <3>1 DEF TypeOK
    <3>3. TypeOK'
      BY <1>1, <1>2, <3>1 DEF TypeOK, libco, States
    <3>4. CallerInv' /\ SavedInv' /\ ResumesStep
      BY <1>1, <2>2, <3>1, <3>2, ThreadFacts
         DEF CallerInv, SavedInv, ResumesStep, TypeOK, libco
    <3> QED BY <3>2, <3>3, <3>4, ThreadFacts
  <2> QED BY <2>1, <2>2
<1>4. PoolInv'
  <2> DEFINE r == Append(q, c)
  <2>1. \A i \in 1 .. Len(r) : i \in 1 .. Len(q) \/ i = Len(q) + 1
    BY <1>2
  <2>2. \A i \in 1 .. Len(q) : q[i] # ROOT => q[i] # c /\ q[i] \in Cothreads
    BY <1>2, ThreadFacts DEF PoolInv
  <2>3. /\ \A i \in 1 .. Len(q) : q[i] # ROOT => state[q[i]] = "not_active"
        /\ \A i, j \in 1 .. Len(q) : q[i] # ROOT /\ q[i] = q[j] => i = j
    BY DEF PoolInv
  <2>4. /\ \A i \in 1 .. Len(q) : r[i] = q[i]
        /\ r[Len(q) + 1] = c
        /\ free_handle_queue' = r
    BY <1>1, <1>2
  <2> HIDE DEF r, q
  <2>5. ASSUME NEW i \in 1 .. Len(r), r[i] # ROOT PROVE state'[r[i]] = "not_active"
    BY <1>3, <2>1, <2>2, <2>3, <2>4, <2>5
  <2>6. ASSUME NEW i \in 1 .. Len(r), NEW j \in 1 .. Len(r), r[i] # ROOT, r[i] = r[j]
        PROVE  i = j
    BY <2>1, <2>2, <2>3, <2>4, <2>6
  <2> QED BY <2>4, <2>5, <2>6 DEF PoolInv
<1>5. LinksInv'
  <2>1. \A t \in Cothreads : state[t] = "blocked" => state'[t] = "blocked"
    BY <1>3
  <2>2. UNCHANGED <<sem, next_blocked>>
    BY <1>1
  <2> QED BY <2>1, <2>2 DEF LinksInv
<1> QED BY <1>3, <1>4, <1>5

LEMMA DestroyKeeps ==
  ASSUME AnyInv, InClient, NEW c, c \in Threads => state[c] # "blocked", destroy(c)
  PROVE  AnyInv' /\ ResumesStep
<1>1. CASE \E err \in Errors : microkit_cothread_panic(err)
  BY <1>1, Panic
<1>2. CASE c \in Threads /\ state[c] # "not_active" /\ running # ROOT /\ Release(c)
  BY <1>2, ReleaseKeeps
<1> QED BY <1>1, <1>2 DEF destroy, Errors

LEMMA SetArgKeeps ==
  ASSUME AnyInv, NEW c, NEW arg \in Args, microkit_cothread_set_arg(c, arg)
  PROVE  AnyInv' /\ ResumesStep
<1>1. CASE microkit_cothread_panic("generic_invalid_handle")
  BY <1>1, Panic DEF Errors
<1>2. CASE /\ private_arg' = [private_arg EXCEPT ![c] = arg]
           /\ UNCHANGED <<running, state, next_blocked, free_handle_queue, libco,
                          scheduling_queue, sem, event_loop, fault, waiters>>
  <2>1. TypeOK'
    BY <1>2 DEF AnyInv, TypeOK, libco
  <2> QED BY <1>2, <2>1, Quiet DEF AnyInv, CallerInv
<1> QED BY <1>1, <1>2 DEF microkit_cothread_set_arg

-----------------------------------------------------------------------------
LEMMA AnyInit == Init => AnyInv
<1> SUFFICES ASSUME Init PROVE AnyInv
  OBVIOUS
<1> USE DEF Init
<1>1. /\ free_handle_queue \in Seq(Threads) /\ Len(free_handle_queue) = MAX_COTHREADS - 1
      /\ \A i \in 1 .. MAX_COTHREADS - 1 :
           free_handle_queue[i] = i /\ i \in Threads /\ i # ROOT
  <2>1. MAX_COTHREADS - 1 \in Nat
    BY SizeAssumption
  <2>2. free_handle_queue \in [1 .. MAX_COTHREADS - 1 -> Threads]
    BY SizeAssumption DEF Cothreads, Threads
  <2>3. free_handle_queue \in Seq(Threads)
    BY <2>1, <2>2, SeqDef
  <2>4. Len(free_handle_queue) = MAX_COTHREADS - 1
    BY <2>1, <2>2, <2>3, LenProperties
  <2> QED BY <2>3, <2>4, SizeAssumption DEF Cothreads, Threads, ROOT
<1>2. TypeOK
  <2>1. /\ state \in [Threads -> States] /\ context \in [Threads -> Contexts]
        /\ running \in Threads /\ co_active_handle \in Threads
    BY ThreadFacts DEF States, Contexts
  <2>2. /\ next_blocked \in [Threads -> Threads \cup {NULL}]
        /\ private_arg \in [Threads -> Args \cup {NoArg}]
    BY ThreadFacts DEF ROOT
  <2>3. sem \in [Sems -> [set : BOOLEAN, head : Threads \cup {NULL},
                           tail : Threads \cup {NULL}]]
    BY ThreadFacts DEF EmptySem, ZeroSem
  <2>4. scheduling_queue \in Seq(Threads) /\ waiters \in [Sems -> Seq(Threads)]
    BY EmptySeq
  <2>5. event_loop \in BOOLEAN /\ fault \in Errors \cup {"none"}
    OBVIOUS
  <2> QED BY <1>1, <2>1, <2>2, <2>3, <2>4, <2>5 DEF TypeOK
<1>3. CallerInv /\ SavedInv
  BY ThreadFacts DEF CallerInv, SavedInv
<1>4. PoolInv
  BY <1>1 DEF PoolInv
<1>5. LinksInv
  BY ThreadFacts DEF LinksInv, EmptySem, ZeroSem, ROOT
<1> QED BY <1>2, <1>3, <1>4, <1>5 DEF AnyInv

LEMMA AnyStep ==
  ASSUME AnyInv, [Next]_vars
  PROVE  AnyInv' /\ ResumesStep
<1> DEFINE Goal == AnyInv' /\ ResumesStep
<1> HIDE DEF Goal
<1>1. CASE microkit_cothread_init
  BY <1>1, Panic DEF microkit_cothread_init, Errors, Goal
<1>2. ASSUME NEW s \in Semaphores, microkit_cothread_semaphore_init(s) PROVE Goal
  <2>1. /\ sem' = [sem EXCEPT ![s] = EmptySem]
        /\ UNCHANGED <<running, tcbs, free_handle_queue, scheduling_queue, libco,
                       event_loop, fault, waiters>>
    BY <1>2 DEF microkit_cothread_semaphore_init, semaphore_init
  <2>2. TypeOK'
    BY <2>1 DEF AnyInv, TypeOK, tcbs, libco, EmptySem
  <2>3. \A r \in Sems : \/ sem'[r].head = sem[r].head /\ sem'[r].tail = sem[r].tail
                        \/ sem'[r].head = NULL
    BY <2>1 DEF AnyInv, TypeOK, EmptySem
  <2> QED BY <2>1, <2>2, <2>3, Quiet DEF AnyInv, CallerInv, tcbs, Goal
<1>3. ASSUME NEW s \in Semaphores, microkit_cothread_semaphore_wait(s) PROVE Goal
  BY <1>3, WaitKeeps DEF microkit_cothread_semaphore_wait, Sems, Goal
<1>4. ASSUME NEW s \in Semaphores, microkit_cothread_semaphore_signal(s) PROVE Goal
  BY <1>4, SignalKeeps DEF microkit_cothread_semaphore_signal, Sems, Goal
<1>5. ASSUME NEW e, NEW a \in Args, microkit_cothread_spawn(e, a) PROVE Goal
  BY <1>5, SpawnKeeps, Panic, Stutter DEF microkit_cothread_spawn, Errors, Goal
<1>6. ASSUME NEW c, NEW a \in Args, microkit_cothread_set_arg(c, a) PROVE Goal
  BY <1>6, SetArgKeeps DEF Goal
<1>7. ASSUME NEW c, microkit_cothread_query_state(c) PROVE Goal
  BY <1>7, Panic, Stutter DEF microkit_cothread_query_state, Errors, Goal
<1>8. CASE microkit_cothread_my_arg
  BY <1>8, Panic, Stutter DEF microkit_cothread_my_arg, Errors, Goal
<1>9. CASE microkit_cothread_yield
  BY <1>9, YieldKeeps DEF Goal
<1>10. ASSUME NEW c, microkit_cothread_destroy(c) PROVE Goal
  BY <1>10, DestroyKeeps DEF microkit_cothread_destroy, Goal
<1>11. CASE cothread_entry_wrapper
  BY <1>11, DestroyKeeps DEF cothread_entry_wrapper, AnyInv, CallerInv, Goal
<1>12. ASSUME NEW c, microkit_cothread_wait_on_channel(c) PROVE Goal
  BY <1>12, WaitKeeps, Panic DEF microkit_cothread_wait_on_channel, Errors, Sems, Goal
<1>13. ASSUME NEW c, microkit_cothread_recv_ntfn(c) PROVE Goal
  BY <1>13, SignalKeeps, Panic DEF microkit_cothread_recv_ntfn, Errors, Sems, Goal
<1>14. CASE HandlerReturns \/ Notified
  <2>1. TypeOK'
    BY <1>14 DEF HandlerReturns, Notified, AnyInv, TypeOK, tcbs, libco
  <2> QED BY <1>14, <2>1, Quiet DEF HandlerReturns, Notified, tcbs, Goal
<1>15. CASE UNCHANGED vars
  BY <1>15, Stutter DEF Goal
<1> QED BY <1>1, <1>2, <1>3, <1>4, <1>5, <1>6, <1>7, <1>8, <1>9, <1>10, <1>11,
           <1>12, <1>13, <1>14, <1>15 DEF Next, Goal

LEMMA AnyInvariant == Spec => []AnyInv
<1>1. AnyInv /\ [Next]_vars => AnyInv'
  BY AnyStep
<1> QED BY <1>1, AnyInit, PTL DEF Spec

(* Every variable keeps its type, whatever the client calls.               *)
THEOREM TypeCorrect == Spec => []TypeOK
<1>1. AnyInv => TypeOK
  BY DEF AnyInv
<1> QED BY <1>1, AnyInvariant, PTL

(* The library never mistakes its caller: `running` names the one thread   *)
(* whose registers and stack the CPU is using.                             *)
THEOREM CallerCorrect == Spec => []CallerInv
<1>1. AnyInv => CallerInv
  BY DEF AnyInv
<1> QED BY <1>1, AnyInvariant, PTL

(* The waiting lists only ever lead to blocked cothreads, to each from at  *)
(* most one place.                                                         *)
THEOREM LinksCorrect == Spec => []LinksInv
<1>1. AnyInv => LinksInv
  BY DEF AnyInv
<1> QED BY <1>1, AnyInvariant, PTL

(* No switch loads the registers of a cothread that was never derived or   *)
(* has been destroyed, however the client abuses destroy and spawn.        *)
THEOREM ResumesOnlySaved == Spec => ResumesSaved
<1>1. AnyInv /\ [Next]_vars =>
        [co_active_handle' # co_active_handle =>
           /\ context[co_active_handle'] \in {"entry", "yield", "wait", "signal"}
           /\ co_active_handle' # ROOT => state[co_active_handle'] \in {"ready", "blocked"}
        ]_vars
  BY AnyStep DEF ResumesStep, Saved
<1> QED BY <1>1, AnyInvariant, PTL DEF Spec, ResumesSaved
=============================================================================
