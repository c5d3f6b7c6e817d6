----------------------- MODULE MicrokitcoRulesProofs -----------------------
(***************************************************************************)
(* What the library guarantees to a client that keeps all the rules: for   *)
(* every number of threads and every set of channels and semaphores.       *)
(* First what the scheduler and the handle pool keep; then the semaphores: *)
(* the links through the TCBs are the waiters in the order they came, and  *)
(* a wait ends by a signal only, the longest waiting thread's first; then  *)
(* that the library implements CothreadSystem.                             *)
(***************************************************************************)
EXTENDS MicrokitcoProofs, FiniteSetTheorems

(* The root thread is on no waiting list; only a semaphore that was never  *)
(* initialised, or the TCB of a cothread that was never spawned, has its   *)
(* handle, 0.                                                              *)
RootUnlinked ==
  /\ \A s \in Sems : sem[s].head = ROOT => s \in Semaphores /\ sem[s] = ZeroSem
  /\ \A t \in Threads : next_blocked[t] = ROOT => state[t] = "not_active"

RulesInv ==
  /\ AnyInv /\ NoFault
  /\ ControlInv /\ SchedulingInv /\ HandleInv /\ RootInv /\ RootUnlinked

-----------------------------------------------------------------------------
(* Queues hold distinct threads: with one thread missing there is room.    *)
LEMMA NotFull ==
  ASSUME NEW q \in Seq(Threads), IsInjective(q),
         NEW t \in Threads, t \notin Range(q)
  PROVE  ~Full(q)
<1> SUFFICES ASSUME Len(q) = MAX_COTHREADS PROVE FALSE
  BY DEF Full
<1>1. q \in [1 .. MAX_COTHREADS -> Threads \ {t}]
  <2>1. q \in [1 .. MAX_COTHREADS -> Threads] /\ DOMAIN q = 1 .. MAX_COTHREADS
    BY LenProperties
  <2> QED BY <2>1 DEF Range
<1>2. /\ IsFiniteSet(1 .. MAX_COTHREADS) /\ Cardinality(1 .. MAX_COTHREADS) = MAX_COTHREADS
      /\ IsFiniteSet(Threads) /\ Cardinality(Threads) = MAX_COTHREADS
  <2>1. MAX_COTHREADS \in Int /\ MAX_COTHREADS - 1 \in Int /\ 0 \in Int /\ 1 \in Int
        /\ ~(1 > MAX_COTHREADS) /\ ~(0 > MAX_COTHREADS - 1)
        /\ MAX_COTHREADS - 1 + 1 = MAX_COTHREADS /\ MAX_COTHREADS - 1 - 0 + 1 = MAX_COTHREADS
    BY SizeAssumption
  <2>2. /\ IsFiniteSet(1 .. MAX_COTHREADS)
        /\ Cardinality(1 .. MAX_COTHREADS) = MAX_COTHREADS - 1 + 1
    BY <2>1, FS_Interval
  <2>3. /\ IsFiniteSet(0 .. MAX_COTHREADS - 1)
        /\ Cardinality(0 .. MAX_COTHREADS - 1) = MAX_COTHREADS - 1 - 0 + 1
    BY <2>1, FS_Interval
  <2> QED BY <2>1, <2>2, <2>3 DEF Threads
<1>3. IsFiniteSet(Threads \ {t}) /\ Cardinality(Threads \ {t}) = MAX_COTHREADS - 1
  BY <1>2, FS_RemoveElement
<1>4. Cardinality(Threads \ {t}) < Cardinality(1 .. MAX_COTHREADS)
  BY <1>2, <1>3, SizeAssumption
<1>5. \E x, y \in 1 .. MAX_COTHREADS : x # y /\ q[x] = q[y]
  BY <1>1, <1>2, <1>3, <1>4, FS_PigeonHole
<1> QED BY <1>1, <1>5 DEF IsInjective

LEMMA RangeSeq ==
  ASSUME NEW q \in Seq(Threads)
  PROVE  /\ \A t : t \in Range(q) <=> \E i \in 1 .. Len(q) : q[i] = t
         /\ IsInjective(q) <=> \A i, j \in 1 .. Len(q) : q[i] = q[j] => i = j
         /\ Len(q) \in Nat
         /\ \A i \in 1 .. Len(q) : q[i] \in Threads
<1>1. DOMAIN q = 1 .. Len(q) /\ Len(q) \in Nat
  BY LenProperties
<1> QED BY <1>1, ElementOfSeq DEF Range, IsInjective

LEMMA AppendSeq ==
  ASSUME NEW q \in Seq(Threads), NEW t \in Threads
  PROVE  /\ Append(q, t) \in Seq(Threads)
         /\ Range(Append(q, t)) = Range(q) \cup {t}
         /\ IsInjective(q) /\ t \notin Range(q) => IsInjective(Append(q, t))
<1> DEFINE r == Append(q, t)
<1>1. /\ r \in Seq(Threads) /\ Len(r) = Len(q) + 1 /\ Len(q) \in Nat
      /\ \A i \in 1 .. Len(q) : r[i] = q[i]
      /\ r[Len(q) + 1] = t
  BY AppendProperties, LenProperties
<1> HIDE DEF r
<1>2. \A i \in 1 .. Len(r) : i \in 1 .. Len(q) \/ i = Len(q) + 1
  BY <1>1
<1>3. /\ \A i \in 1 .. Len(q) : i \in 1 .. Len(r)
      /\ Len(q) + 1 \in 1 .. Len(r)
  BY <1>1
<1>4. Range(r) = Range(q) \cup {t}
  <2>1. ASSUME NEW x \in Range(r) PROVE x \in Range(q) \cup {t}
    BY <1>1, <1>2, RangeSeq
  <2>2. ASSUME NEW x \in Range(q) \cup {t} PROVE x \in Range(r)
    BY <1>1, <1>3, RangeSeq
  <2> QED BY <2>1, <2>2
<1>5. ASSUME IsInjective(q), t \notin Range(q) PROVE IsInjective(r)
  <2>1. ASSUME NEW i \in 1 .. Len(r), NEW j \in 1 .. Len(r), r[i] = r[j] PROVE i = j
    BY <1>1, <1>2, <1>5, <2>1, RangeSeq
  <2> QED BY <1>1, <2>1, RangeSeq
<1> QED BY <1>1, <1>4, <1>5 DEF r

LEMMA TailSeq ==
  ASSUME NEW q \in Seq(Threads), q # <<>>, IsInjective(q)
  PROVE  /\ Tail(q) \in Seq(Threads)
         /\ Head(q) \in Range(q)
         /\ Range(Tail(q)) = Range(q) \ {Head(q)}
         /\ IsInjective(Tail(q))
<1> DEFINE r == Tail(q)
<1>1. /\ r \in Seq(Threads) /\ Len(r) = Len(q) - 1 /\ Len(q) \in Nat \ {0}
      /\ \A i \in 1 .. Len(r) : r[i] = q[i + 1]
      /\ Head(q) = q[1]
  BY HeadTailProperties, EmptySeq
<1> HIDE DEF r
<1>2. /\ \A i \in 1 .. Len(r) : i + 1 \in 1 .. Len(q) /\ i + 1 # 1
      /\ \A i \in 1 .. Len(q) : i = 1 \/ (i - 1 \in 1 .. Len(r) /\ r[i - 1] = q[i])
      /\ 1 \in 1 .. Len(q)
  BY <1>1
<1>3. Head(q) \in Range(q)
  BY <1>1, <1>2, RangeSeq
<1>4. \A i, j \in 1 .. Len(q) : q[i] = q[j] => i = j
  BY RangeSeq
<1>5. Range(r) = Range(q) \ {Head(q)}
  <2>1. ASSUME NEW x \in Range(r) PROVE x \in Range(q) \ {Head(q)}
    <3>1. PICK i \in 1 .. Len(r) : r[i] = x
      BY <1>1, RangeSeq
    <3> QED BY <1>1, <1>2, <1>4, <3>1, RangeSeq
  <2>2. ASSUME NEW x \in Range(q) \ {Head(q)} PROVE x \in Range(r)
    <3>1. PICK i \in 1 .. Len(q) : q[i] = x
      BY RangeSeq
    <3> QED BY <1>1, <1>2, <3>1, RangeSeq
  <2> QED BY <2>1, <2>2
<1>6. IsInjective(r)
  <2>1. ASSUME NEW i \in 1 .. Len(r), NEW j \in 1 .. Len(r), r[i] = r[j] PROVE i = j
    BY <1>1, <1>2, <1>4, <2>1
  <2> QED BY <1>1, <2>1, RangeSeq
<1> QED BY <1>1, <1>3, <1>5, <1>6 DEF r

-----------------------------------------------------------------------------
(* The scheduler's invariant for a queue q and states st.                  *)
QueueOK(q, st) ==
  /\ IsInjective(q)
  /\ \A t \in Threads : st[t] = "ready" => t \in Range(q)
  /\ \A t \in Range(q) : st[t] \in {"ready", "not_active"}

(* internal_go_next drops stale entries and nothing else: the thread it    *)
(* picks leaves the queue, every other ready thread and the root thread    *)
(* stay in it.                                                             *)
LEMMA GoNextQueue ==
  ASSUME NEW q \in Seq(Threads), NEW st \in [Threads -> States], NEW site,
         QueueOK(q, st), ROOT \in Range(q), internal_go_next(q, st, site)
  PROVE  /\ SchedulingInv' /\ RootInv'
         /\ running' \in Range(q)
         /\ state' = [st EXCEPT ![running'] = "running"]
<1>1. PICK i \in FirstRunnable(q, st) :
        LET next == IF i <= Len(q) THEN q[i] ELSE ROOT
        IN  /\ scheduling_queue' = SubSeq(q, i + 1, Len(q))
            /\ state' = [st EXCEPT ![next] = "running"]
            /\ running' = next
            /\ co_switch(next, site)
  BY DEF internal_go_next
<1> DEFINE r == SubSeq(q, i + 1, Len(q))
<1>2. /\ i \in 1 .. Len(q) + 1
      /\ i <= Len(q) => q[i] \in Threads /\ (q[i] = ROOT \/ st[q[i]] = "ready")
      /\ \A j \in 1 .. Len(q) : j < i => q[j] # ROOT /\ st[q[j]] # "ready"
      /\ r \in Seq(Threads)
      /\ Len(r) = IF i <= Len(q) THEN Len(q) - i ELSE 0
      /\ \A j \in 1 .. Len(q) - i : r[j] = q[i + j]
  BY Scheduled
<1> HIDE DEF r
<1>3. /\ \A t : t \in Range(q) <=> \E j \in 1 .. Len(q) : q[j] = t
      /\ \A j, k \in 1 .. Len(q) : q[j] = q[k] => j = k
      /\ Len(q) \in Nat /\ \A j \in 1 .. Len(q) : q[j] \in Threads
  BY RangeSeq DEF QueueOK
<1>4. PICK root \in 1 .. Len(q) : q[root] = ROOT
  BY <1>3
<1>5. i \in 1 .. Len(q) /\ i <= root
  BY <1>2, <1>3, <1>4
<1>6. /\ Len(r) = Len(q) - i
      /\ \A j \in 1 .. Len(r) : r[j] = q[i + j] /\ i + j \in 1 .. Len(q) /\ i + j # i
      /\ \A k \in 1 .. Len(q) : k > i => k - i \in 1 .. Len(r) /\ r[k - i] = q[k]
  BY <1>2, <1>3, <1>5
<1>7. /\ running' = q[i] /\ scheduling_queue' = r
      /\ state' = [st EXCEPT ![q[i]] = "running"]
  BY <1>1, <1>2, <1>3, <1>5 DEF r
<1>8. \A t \in Threads : state'[t] = IF t = q[i] THEN "running" ELSE st[t]
  BY <1>7
<1>9. \A t : t \in Range(r) <=> \E j \in 1 .. Len(r) : r[j] = t
  BY <1>2, RangeSeq
<1>10. IsInjective(r)
  <2>1. ASSUME NEW j \in 1 .. Len(r), NEW k \in 1 .. Len(r), r[j] = r[k] PROVE j = k
    BY <1>3, <1>5, <1>6, <2>1
  <2> QED BY <1>2, <2>1, RangeSeq
<1>11. ASSUME NEW k \in 1 .. Len(q), k >= i, q[k] # q[i] PROVE q[k] \in Range(r)
  BY <1>5, <1>6, <1>9, <1>11
<1>12. ASSUME NEW t \in Threads, state'[t] = "ready" PROVE t \in Range(r)
  <2>1. t # q[i] /\ st[t] = "ready"
    BY <1>8, <1>12
  <2>2. PICK k \in 1 .. Len(q) : q[k] = t
    BY <1>3, <2>1 DEF QueueOK
  <2>3. k >= i
    BY <1>2, <1>5, <2>1, <2>2
  <2> QED BY <1>11, <2>1, <2>2, <2>3
<1>13. ASSUME NEW t \in Range(r) PROVE state'[t] \in {"ready", "not_active"}
  <2>1. PICK j \in 1 .. Len(r) : r[j] = t
    BY <1>9
  <2>2. t = q[i + j] /\ i + j \in 1 .. Len(q) /\ i + j # i
    BY <1>6, <2>1
  <2>3. t # q[i] /\ t \in Threads /\ t \in Range(q)
    BY <1>3, <1>5, <2>2
  <2> QED BY <1>8, <2>3 DEF QueueOK
<1>14. SchedulingInv'
  BY <1>7, <1>10, <1>12, <1>13 DEF SchedulingInv
<1>15. RootInv'
  BY <1>4, <1>5, <1>7, <1>11 DEF RootInv
<1> QED BY <1>3, <1>5, <1>7, <1>14, <1>15

-----------------------------------------------------------------------------
LEMMA RulesQuiet ==
  ASSUME RulesInv, AnyInv',
         UNCHANGED <<running, state, next_blocked, free_handle_queue,
                     scheduling_queue, context, fault>>,
         \A s \in Sems : sem'[s] = sem[s] \/ sem'[s].head # ROOT
  PROVE  RulesInv'
  BY DEF RulesInv, NoFault, ControlInv, SchedulingInv, HandleInv, RootInv, RootUnlinked

LEMMA RulesStutter ==
  ASSUME RulesInv, AnyInv', UNCHANGED vars
  PROVE  RulesInv'
  BY RulesQuiet DEF vars, tcbs, libco

(* Facts about the thread that makes the call.                             *)
LEMMA CallerFacts ==
  ASSUME RulesInv
  PROVE  /\ running \in Threads /\ state[running] = "running"
         /\ running \notin Range(scheduling_queue)
         /\ running \notin Range(free_handle_queue)
         /\ ROOT \notin Range(free_handle_queue) /\ state[ROOT] # "not_active"
         /\ ~Full(scheduling_queue) /\ ~Full(free_handle_queue)
         /\ running # ROOT => ROOT \in Range(scheduling_queue)
<1>1. /\ running \in Threads /\ state[running] = "running"
      /\ running \notin Range(scheduling_queue)
      /\ ROOT \notin Range(free_handle_queue)
      /\ running # ROOT => ROOT \in Range(scheduling_queue)
  BY DEF RulesInv, AnyInv, TypeOK, CallerInv, SchedulingInv, HandleInv, RootInv
<1>2. running \notin Range(free_handle_queue) /\ state[ROOT] # "not_active"
  BY <1>1, ThreadFacts DEF RulesInv, HandleInv
<1>3. ~Full(scheduling_queue) /\ ~Full(free_handle_queue)
  BY <1>1, ThreadFacts, NotFull DEF RulesInv, AnyInv, TypeOK, SchedulingInv, HandleInv
<1> QED BY <1>1, <1>2, <1>3

(* A call that ends in internal_go_next.                                   *)
LEMMA RulesGoNext ==
  ASSUME RulesInv, NEW q \in Seq(Threads), NEW x, NEW site,
         \/ x = "ready" /\ site = "yield"
         \/ x = "blocked" /\ site = "wait"
         \/ x = "not_active" /\ site = "dead" /\ running # ROOT,
         QueueOK(q, [state EXCEPT ![running] = x]), ROOT \in Range(q),
         internal_go_next(q, [state EXCEPT ![running] = x], site)
  PROVE  /\ SchedulingInv' /\ RootInv' /\ ControlInv'
         /\ \A t \in Threads : state'[t] = "not_active" <=>
              state[t] = "not_active" \/ (t = running /\ x = "not_active")
<1> DEFINE st == [state EXCEPT ![running] = x]
<1>1. /\ running \in Threads /\ state[running] = "running" /\ state \in [Threads -> States]
      /\ context \in [Threads -> Contexts] /\ st \in [Threads -> States]
  BY CallerFacts DEF RulesInv, AnyInv, TypeOK, States
<1>2. SchedulingInv' /\ RootInv'
  BY <1>1, GoNextQueue
<1>3. GoNextEffect(x, site)
  BY GoNext DEF RulesInv, AnyInv
<1>4. /\ running' \in Threads /\ (running' = ROOT \/ st[running'] = "ready")
      /\ state' = [st EXCEPT ![running'] = "running"]
      /\ context' = [context EXCEPT ![running] = site, ![running'] = "live"]
  BY <1>3 DEF GoNextEffect
<1>5. \A t \in Threads : state'[t] = IF t = running' THEN "running"
                                     ELSE IF t = running THEN x ELSE state[t]
  BY <1>1, <1>4
<1>6. \A t \in Threads : context'[t] = IF t = running' THEN "live"
                                       ELSE IF t = running THEN site ELSE context[t]
  BY <1>1, <1>4
<1>7. ControlInv'
  BY <1>1, <1>5, <1>6 DEF RulesInv, ControlInv
<1>8. ASSUME NEW t \in Threads
      PROVE  state'[t] = "not_active" <=>
               state[t] = "not_active" \/ (t = running /\ x = "not_active")
  <2>1. CASE t = running'
    <3>1. t = ROOT => x # "not_active" \/ t # running
      OBVIOUS
    <3> QED BY <1>1, <1>4, <1>5, <2>1, <3>1, CallerFacts
  <2>2. CASE t # running'
    BY <1>1, <1>5, <2>2
  <2> QED BY <2>1, <2>2
<1> QED BY <1>2, <1>7, <1>8

LEMMA RulesYield ==
  ASSUME RulesInv, AnyInv', microkit_cothread_yield
  PROVE  RulesInv'
<1> DEFINE q == Append(scheduling_queue, running)
           st == [state EXCEPT ![running] = "ready"]
<1>1. /\ scheduling_queue \in Seq(Threads) /\ running \in Threads
      /\ state \in [Threads -> States]
  BY DEF RulesInv, AnyInv, TypeOK
<1>2. /\ internal_go_next(q, st, "yield")
      /\ UNCHANGED <<next_blocked, private_arg, free_handle_queue, sem,
                     event_loop, fault, waiters>>
  BY CallerFacts DEF microkit_cothread_yield
<1>3. /\ q \in Seq(Threads) /\ IsInjective(q)
      /\ Range(q) = Range(scheduling_queue) \cup {running}
  BY <1>1, AppendSeq, CallerFacts DEF RulesInv, SchedulingInv
<1> HIDE DEF q
<1>4. QueueOK(q, st)
  BY <1>1, <1>3 DEF QueueOK, RulesInv, SchedulingInv
<1>5. ROOT \in Range(q)
  BY <1>3, CallerFacts
<1>6. /\ SchedulingInv' /\ RootInv' /\ ControlInv'
      /\ \A t \in Threads : state'[t] = "not_active" <=> state[t] = "not_active"
  BY <1>2, <1>3, <1>4, <1>5, RulesGoNext
<1>7. HandleInv' /\ NoFault' /\ RootUnlinked'
  BY <1>2, <1>6 DEF RulesInv, HandleInv, NoFault, RootUnlinked
<1> QED BY <1>6, <1>7 DEF RulesInv

(* Waiting as a cothread on a semaphore that was initialised.              *)
LEMMA RulesWait ==
  ASSUME RulesInv, AnyInv', NEW s \in Sems, sem[s].head # ROOT, running # ROOT,
         semaphore_wait(s), UNCHANGED <<free_handle_queue, event_loop, fault>>
  PROVE  RulesInv'
<1>1. CASE sem[s].set
  <2>1. /\ sem' = [sem EXCEPT ![s].set = FALSE]
        /\ UNCHANGED <<running, tcbs, scheduling_queue, libco, waiters>>
    BY <1>1 DEF semaphore_wait
  <2>2. \A r \in Sems : sem'[r] = sem[r] \/ sem'[r].head # ROOT
    BY <2>1 DEF RulesInv, AnyInv, TypeOK
  <2> QED BY <2>1, <2>2, RulesQuiet DEF tcbs, libco
<1>2. CASE ~sem[s].set
  <2> DEFINE st == [state EXCEPT ![running] = "blocked"]
  <2>1. /\ internal_go_next(scheduling_queue, st, "wait")
        /\ IF sem[s].head = NULL
           THEN /\ sem' = [sem EXCEPT ![s].head = running, ![s].tail = running]
                /\ UNCHANGED next_blocked
           ELSE /\ next_blocked' = [next_blocked EXCEPT ![sem[s].tail] = running]
                /\ sem' = [sem EXCEPT ![s].tail = running]
    BY <1>2 DEF semaphore_wait
  <2>2. scheduling_queue \in Seq(Threads) /\ state \in [Threads -> States] /\ running \in Threads
    BY DEF RulesInv, AnyInv, TypeOK
  <2>3. QueueOK(scheduling_queue, st)
    <3>1. \A t \in Range(scheduling_queue) : t \in Threads
      BY <2>2, RangeSeq
    <3> QED BY <2>2, <3>1, CallerFacts DEF QueueOK, RulesInv, SchedulingInv
  <2>4. /\ SchedulingInv' /\ RootInv' /\ ControlInv'
        /\ \A t \in Threads : state'[t] = "not_active" <=> state[t] = "not_active"
    <3>1. ROOT \in Range(scheduling_queue)
      BY CallerFacts
    <3>2. /\ SchedulingInv' /\ RootInv' /\ ControlInv'
          /\ \A t \in Threads : state'[t] = "not_active" <=>
               state[t] = "not_active" \/ (t = running /\ "blocked" = "not_active")
      BY <2>1, <2>2, <2>3, <3>1, RulesGoNext
    <3> QED BY <3>2
  <2>5. \A r \in Sems : sem'[r] = sem[r] \/ sem'[r].head # ROOT
    <3>1. CASE sem[s].head = NULL
      BY <2>1, <3>1 DEF RulesInv, AnyInv, TypeOK
    <3>2. CASE sem[s].head # NULL
      BY <2>1, <3>2 DEF RulesInv, AnyInv, TypeOK
    <3> QED BY <3>1, <3>2
  <2>6. \A t \in Threads : next_blocked'[t] = next_blocked[t] \/ next_blocked'[t] # ROOT
    BY <2>1 DEF RulesInv, AnyInv, TypeOK
  <2>7. HandleInv' /\ NoFault' /\ RootUnlinked'
    BY <2>4, <2>5, <2>6 DEF RulesInv, HandleInv, NoFault, RootUnlinked
  <2> QED BY <2>4, <2>7 DEF RulesInv
<1> QED BY <1>1, <1>2

(* Waking the longest waiting cothread: it was in no queue, and the caller *)
(* takes its place among the ready threads.                                *)
LEMMA RulesUnblock ==
  ASSUME RulesInv, AnyInv', NEW s \in Sems, sem[s].head \notin {NULL, ROOT}, Unblock(s)
  PROVE  RulesInv'
<1> DEFINE h == sem[s].head
           q == Append(scheduling_queue, running)
<1>1. /\ scheduling_queue \in Seq(Threads) /\ running \in Threads
      /\ state \in [Threads -> States] /\ context \in [Threads -> Contexts]
      /\ next_blocked \in [Threads -> Threads \cup {NULL}]
      /\ h \in Cothreads /\ h \in Threads
      /\ co_active_handle = running /\ state[running] = "running"
  BY SemType, ThreadFacts DEF RulesInv, AnyInv, TypeOK, CallerInv
<1>2. state[h] = "blocked" /\ h # running
  BY <1>1 DEF RulesInv, AnyInv, LinksInv
<1>3. /\ scheduling_queue' = q /\ running' = h
      /\ state' = [state EXCEPT ![running] = "ready", ![h] = "running"]
      /\ context' = [context EXCEPT ![running] = "signal", ![h] = "live"]
      /\ UNCHANGED <<free_handle_queue, fault>>
  BY <1>1 DEF Unblock, Resume, co_switch
<1>4. /\ q \in Seq(Threads) /\ IsInjective(q)
      /\ Range(q) = Range(scheduling_queue) \cup {running}
  BY <1>1, AppendSeq, CallerFacts DEF RulesInv, SchedulingInv
<1>5. /\ next_blocked[h] # ROOT
      /\ next_blocked' = [next_blocked EXCEPT ![h] = NULL]
      /\ \A r \in Sems : sem'[r] = sem[r] \/ sem'[r].head # ROOT
  <2>1. next_blocked[h] # ROOT
    BY <1>1, <1>2 DEF RulesInv, RootUnlinked
  <2>2. next_blocked' = [next_blocked EXCEPT ![h] = NULL]
    BY DEF Unblock, MoveList
  <2>3. sem' = [sem EXCEPT ![s] = EmptySem] \/ sem' = [sem EXCEPT ![s].head = next_blocked[h]]
    BY DEF Unblock, MoveList, semaphore_init
  <2>4. \A r \in Sems : sem'[r] = sem[r] \/ sem'[r].head # ROOT
    BY <2>1, <2>3, ThreadFacts DEF RulesInv, AnyInv, TypeOK, EmptySem
  <2> QED BY <2>1, <2>2, <2>4
<1> HIDE DEF h, q
<1>6. \A t \in Threads : /\ state'[t] = IF t = h THEN "running"
                                        ELSE IF t = running THEN "ready" ELSE state[t]
                         /\ context'[t] = IF t = h THEN "live"
                                          ELSE IF t = running THEN "signal" ELSE context[t]
                         /\ next_blocked'[t] = IF t = h THEN NULL ELSE next_blocked[t]
  BY <1>1, <1>3, <1>5
<1>7. SchedulingInv'
  <2>1. \A t \in Range(q) : t \in Threads /\ t # h
    BY <1>1, <1>2, <1>4, RangeSeq DEF RulesInv, SchedulingInv
  <2> QED BY <1>1, <1>3, <1>4, <1>6, <2>1 DEF RulesInv, SchedulingInv
<1>8. ControlInv'
  BY <1>1, <1>2, <1>3, <1>6 DEF RulesInv, ControlInv
<1>9. HandleInv' /\ NoFault'
  BY <1>1, <1>2, <1>3, <1>6 DEF RulesInv, HandleInv, NoFault
<1>10. RootInv'
  BY <1>3, <1>4, CallerFacts DEF RootInv
<1>11. RootUnlinked'
  <2>1. \A t \in Threads : next_blocked'[t] = ROOT => state'[t] = "not_active"
    BY <1>1, <1>6, ThreadFacts DEF RulesInv, RootUnlinked
  <2> QED BY <1>5, <2>1 DEF RulesInv, RootUnlinked
<1> QED BY <1>7, <1>8, <1>9, <1>10, <1>11 DEF RulesInv

LEMMA RulesSignal ==
  ASSUME RulesInv, AnyInv', NEW s \in Sems, sem[s].head # ROOT, semaphore_signal(s)
  PROVE  RulesInv'
<1>1. CASE UNCHANGED vars
  BY <1>1, RulesStutter
<1>2. CASE /\ sem' = [sem EXCEPT ![s].set = TRUE]
           /\ UNCHANGED <<running, tcbs, free_handle_queue, scheduling_queue, libco,
                          event_loop, fault, waiters>>
  <2>1. \A r \in Sems : sem'[r] = sem[r] \/ sem'[r].head # ROOT
    BY <1>2 DEF RulesInv, AnyInv, TypeOK
  <2> QED BY <1>2, <2>1, RulesQuiet DEF tcbs, libco
<1>3. CASE sem[s].head # NULL /\ Unblock(s)
  BY <1>3, RulesUnblock
<1> QED BY <1>1, <1>2, <1>3, CallerFacts
        DEF semaphore_signal, microkit_cothread_semaphore_is_queue_empty

(* A handle from the pool that the scheduling queue has drained.           *)
LEMMA RulesSpawn ==
  ASSUME RulesInv, AnyInv', NEW arg, free_handle_queue # <<>>,
         Head(free_handle_queue) \notin Range(scheduling_queue),
         spawn(Head(free_handle_queue), arg)
  PROVE  RulesInv'
<1> DEFINE new == Head(free_handle_queue)
           r == Tail(free_handle_queue)
           q == Append(scheduling_queue, new)
<1>1. /\ scheduling_queue \in Seq(Threads) /\ running \in Threads
      /\ free_handle_queue \in Seq(Threads) /\ IsInjective(free_handle_queue)
      /\ state \in [Threads -> States] /\ context \in [Threads -> Contexts]
      /\ next_blocked \in [Threads -> Threads \cup {NULL}]
      /\ state[running] = "running"
  BY DEF RulesInv, AnyInv, TypeOK, HandleInv, CallerInv
<1>2. /\ new \in Range(free_handle_queue) /\ IsInjective(r)
      /\ Range(r) = Range(free_handle_queue) \ {new}
  BY <1>1, TailSeq
<1>3. new \in Threads /\ state[new] = "not_active" /\ new # ROOT /\ new # running
  BY <1>1, <1>2 DEF RulesInv, HandleInv
<1>4. /\ IsInjective(q) /\ Range(q) = Range(scheduling_queue) \cup {new}
  BY <1>1, <1>3, AppendSeq DEF RulesInv, SchedulingInv
<1>5. /\ free_handle_queue' = r /\ scheduling_queue' = q
      /\ context' = [context EXCEPT ![new] = "entry"]
      /\ state' = [state EXCEPT ![new] = "ready"]
      /\ next_blocked' = [next_blocked EXCEPT ![new] = NULL]
      /\ UNCHANGED <<running, sem, fault>>
  BY <1>3, CallerFacts DEF spawn
<1> HIDE DEF new, r, q
<1>6. \A t \in Threads : /\ state'[t] = IF t = new THEN "ready" ELSE state[t]
                         /\ context'[t] = IF t = new THEN "entry" ELSE context[t]
                         /\ next_blocked'[t] = IF t = new THEN NULL ELSE next_blocked[t]
  BY <1>1, <1>5
<1>7. SchedulingInv'
  <2>1. \A t \in Range(scheduling_queue) : t \in Threads
    BY <1>1, RangeSeq
  <2> QED BY <1>3, <1>4, <1>5, <1>6, <2>1 DEF RulesInv, SchedulingInv
<1>8. ControlInv'
  BY <1>3, <1>5, <1>6 DEF RulesInv, ControlInv
<1>9. HandleInv' /\ NoFault'
  BY <1>2, <1>3, <1>5, <1>6 DEF RulesInv, HandleInv, NoFault
<1>10. RootInv'
  BY <1>4, <1>5 DEF RulesInv, RootInv
<1>11. RootUnlinked'
  BY <1>5, <1>6, ThreadFacts DEF RulesInv, RootUnlinked
<1> QED BY <1>7, <1>8, <1>9, <1>10, <1>11 DEF RulesInv

(* A destroyed cothread leaves at most a stale queue entry.                *)
LEMMA RulesRelease ==
  ASSUME RulesInv, AnyInv', NEW c \in Cothreads, running # ROOT,
         state[c] \notin {"not_active", "blocked"}, Release(c)
  PROVE  RulesInv'
<1> DEFINE r == Append(free_handle_queue, c)
<1>1. /\ scheduling_queue \in Seq(Threads) /\ running \in Threads
      /\ free_handle_queue \in Seq(Threads) /\ IsInjective(free_handle_queue)
      /\ state \in [Threads -> States] /\ context \in [Threads -> Contexts]
      /\ state[running] = "running" /\ c \in Threads /\ c # ROOT
  BY ThreadFacts DEF RulesInv, AnyInv, TypeOK, HandleInv, CallerInv
<1>2. c \notin Range(free_handle_queue)
  BY DEF RulesInv, HandleInv
<1>3. IsInjective(r) /\ Range(r) = Range(free_handle_queue) \cup {c}
  BY <1>1, <1>2, AppendSeq
<1>4. /\ free_handle_queue' = r
      /\ UNCHANGED <<next_blocked, sem, fault>>
  BY DEF Release
<1> HIDE DEF r
<1>5. /\ SchedulingInv' /\ RootInv' /\ ControlInv'
      /\ \A t \in Threads : state'[t] = "not_active" <=> state[t] = "not_active" \/ t = c
  <2>1. CASE c = running
    <3> DEFINE st == [state EXCEPT ![running] = "not_active"]
    <3>1. internal_go_next(scheduling_queue, st, "dead")
      BY <2>1 DEF Release
    <3>2. ROOT \in Range(scheduling_queue)
      BY CallerFacts
    <3>3. QueueOK(scheduling_queue, st)
      <4>1. \A t \in Range(scheduling_queue) : t \in Threads
        BY <1>1, RangeSeq
      <4> QED BY <1>1, <4>1, CallerFacts DEF QueueOK, RulesInv, SchedulingInv
    <3>4. /\ SchedulingInv' /\ RootInv' /\ ControlInv'
          /\ \A t \in Threads : state'[t] = "not_active" <=>
               state[t] = "not_active" \/ (t = running /\ "not_active" = "not_active")
      BY <1>1, <3>1, <3>2, <3>3, RulesGoNext
    <3> QED BY <2>1, <3>4
  <2>2. CASE c # running
    <3>1. /\ state' = [state EXCEPT ![c] = "not_active"]
          /\ UNCHANGED <<running, scheduling_queue, libco>>
      BY <2>2 DEF Release
    <3>2. \A t \in Threads : state'[t] = IF t = c THEN "not_active" ELSE state[t]
      BY <1>1, <3>1
    <3>3. \A t \in Range(scheduling_queue) : t \in Threads
      BY <1>1, RangeSeq
    <3>4. SchedulingInv'
      BY <3>1, <3>2, <3>3 DEF RulesInv, SchedulingInv
    <3>5. RootInv' /\ ControlInv'
      BY <3>1, <3>2 DEF RulesInv, RootInv, ControlInv, libco
    <3> QED BY <3>2, <3>4, <3>5
  <2> QED BY <2>1, <2>2
<1>6. HandleInv' /\ NoFault' /\ RootUnlinked'
  BY <1>1, <1>3, <1>4, <1>5 DEF RulesInv, HandleInv, NoFault, RootUnlinked
<1> QED BY <1>5, <1>6 DEF RulesInv

-----------------------------------------------------------------------------
LEMMA RulesInit == Init => RulesInv
<1> SUFFICES ASSUME Init PROVE RulesInv
  OBVIOUS
<1>1. AnyInv
  BY AnyInit
<1> USE DEF Init
<1>2. NoFault /\ RootInv
  BY DEF NoFault, RootInv
<1>3. ControlInv
  BY DEF ControlInv
<1>4. SchedulingInv
  <2>1. DOMAIN scheduling_queue = {} /\ Range(scheduling_queue) = {}
    BY DEF Range
  <2> QED BY <2>1 DEF SchedulingInv, IsInjective
<1>5. HandleInv
  <2>1. DOMAIN free_handle_queue = Cothreads /\ \A i \in Cothreads : free_handle_queue[i] = i
    OBVIOUS
  <2>2. Range(free_handle_queue) = Cothreads /\ IsInjective(free_handle_queue)
    BY <2>1 DEF Range, IsInjective
  <2> QED BY <2>2, ThreadFacts DEF HandleInv
<1>6. RootUnlinked
  BY ThreadFacts DEF RootUnlinked, EmptySem, Sems, ROOT, NULL
<1> QED BY <1>1, <1>2, <1>3, <1>4, <1>5, <1>6 DEF RulesInv

(* The rules make every semaphore that is used one that was initialised.   *)
LEMMA InitialisedHead ==
  ASSUME RuleNames \subseteq Rules, RulesInv, NEW s \in Sems, Initialised(s)
  PROVE  sem[s].head # ROOT
  BY SemsAssumption DEF RuleNames, RulesInv, RootUnlinked, Initialised, Obey

LEMMA RulesDestroy ==
  ASSUME RulesInv, AnyInv', NEW c \in Cothreads, running # ROOT,
         state[c] \notin {"not_active", "blocked"}, destroy(c)
  PROVE  RulesInv'
<1>1. Release(c)
  BY CallerFacts, ThreadFacts DEF destroy
<1> QED BY <1>1, RulesRelease

LEMMA RulesStep ==
  ASSUME RuleNames \subseteq Rules, RulesInv, [Next]_vars
  PROVE  RulesInv'
<1>0. AnyInv'
  BY AnyStep DEF RulesInv
<1>1. CASE microkit_cothread_init
  BY <1>1 DEF microkit_cothread_init, Obey, RuleNames
<1>2. ASSUME NEW s \in Semaphores, microkit_cothread_semaphore_init(s) PROVE RulesInv'
  <2>1. /\ sem' = [sem EXCEPT ![s] = EmptySem]
        /\ UNCHANGED <<running, tcbs, free_handle_queue, scheduling_queue, libco, fault>>
    BY <1>2 DEF microkit_cothread_semaphore_init, semaphore_init
  <2>2. \A r \in Sems : sem'[r] = sem[r] \/ sem'[r].head # ROOT
    BY <2>1, ThreadFacts DEF RulesInv, AnyInv, TypeOK, EmptySem
  <2> QED BY <1>0, <2>1, <2>2, RulesQuiet DEF tcbs, libco
<1>3. ASSUME NEW s \in Semaphores, microkit_cothread_semaphore_wait(s) PROVE RulesInv'
  <2>1. s \in Sems /\ sem[s].head # ROOT
    BY <1>3, InitialisedHead DEF microkit_cothread_semaphore_wait, Sems
  <2> QED BY <1>0, <1>3, <2>1, RulesWait
          DEF microkit_cothread_semaphore_wait, Obey, RuleNames
<1>4. ASSUME NEW s \in Semaphores, microkit_cothread_semaphore_signal(s) PROVE RulesInv'
  <2>1. s \in Sems /\ sem[s].head # ROOT
    BY <1>4, InitialisedHead DEF microkit_cothread_semaphore_signal, Sems
  <2> QED BY <1>0, <1>4, <2>1, RulesSignal DEF microkit_cothread_semaphore_signal
<1>5. ASSUME NEW e, NEW a, microkit_cothread_spawn(e, a) PROVE RulesInv'
  <2>1. /\ e # "null"
        /\ free_handle_queue # <<>> =>
             Head(free_handle_queue) \notin Range(scheduling_queue)
    BY <1>5 DEF microkit_cothread_spawn, Obey, RuleNames
  <2>2. CASE UNCHANGED vars
    BY <1>0, <2>2, RulesStutter
  <2>3. CASE free_handle_queue # <<>> /\ spawn(Head(free_handle_queue), a)
    BY <1>0, <2>1, <2>3, RulesSpawn
  <2> QED BY <1>5, <2>1, <2>2, <2>3 DEF microkit_cothread_spawn
<1>6. ASSUME NEW c, NEW a, microkit_cothread_set_arg(c, a) PROVE RulesInv'
  <2>1. UNCHANGED <<running, state, next_blocked, free_handle_queue, libco,
                    scheduling_queue, sem, event_loop, fault, waiters>>
    BY <1>6 DEF microkit_cothread_set_arg, Obey, RuleNames
  <2> QED BY <1>0, <2>1, RulesQuiet DEF libco
<1>7. ASSUME NEW c, microkit_cothread_query_state(c) PROVE RulesInv'
  BY <1>0, <1>7, RulesStutter DEF microkit_cothread_query_state, Obey, RuleNames
<1>8. CASE microkit_cothread_my_arg
  BY <1>0, <1>8, RulesStutter DEF microkit_cothread_my_arg, Obey, RuleNames
<1>9. CASE microkit_cothread_yield
  BY <1>0, <1>9, RulesYield
<1>10. ASSUME NEW c, microkit_cothread_destroy(c) PROVE RulesInv'
  <2>1. /\ c \in Threads /\ state[c] \notin {"not_active", "blocked"}
        /\ running # ROOT /\ c # ROOT /\ destroy(c)
    BY <1>10 DEF microkit_cothread_destroy, Obey, RuleNames
  <2> QED BY <1>0, <2>1, RulesDestroy, ThreadFacts
<1>11. CASE cothread_entry_wrapper
  <2>1. /\ running \in Cothreads /\ state[running] = "running"
        /\ running # ROOT /\ destroy(running)
    BY <1>11, CallerFacts, ThreadFacts DEF cothread_entry_wrapper
  <2> QED BY <1>0, <2>1, RulesDestroy
<1>12. ASSUME NEW c, microkit_cothread_wait_on_channel(c) PROVE RulesInv'
  <2>1. /\ c \in Channels /\ running # ROOT /\ semaphore_wait(c)
        /\ UNCHANGED <<free_handle_queue, event_loop, fault>>
    BY <1>12 DEF microkit_cothread_wait_on_channel, Obey, RuleNames
  <2>2. c \in Sems /\ sem[c].head # ROOT
    BY <2>1, InitialisedHead DEF Sems, Initialised, Obey
  <2> QED BY <1>0, <2>1, <2>2, RulesWait
<1>13. ASSUME NEW c, microkit_cothread_recv_ntfn(c) PROVE RulesInv'
  <2>1. c \in Channels /\ semaphore_signal(c)
    BY <1>13 DEF microkit_cothread_recv_ntfn, Obey, RuleNames
  <2>2. c \in Sems /\ sem[c].head # ROOT
    BY <2>1, InitialisedHead DEF Sems, Initialised, Obey
  <2> QED BY <1>0, <2>1, <2>2, RulesSignal
<1>14. CASE HandlerReturns \/ Notified
  BY <1>0, <1>14, RulesQuiet DEF HandlerReturns, Notified, tcbs, libco
<1>15. CASE UNCHANGED vars
  BY <1>0, <1>15, RulesStutter
<1> QED BY <1>1, <1>2, <1>3, <1>4, <1>5, <1>6, <1>7, <1>8, <1>9, <1>10, <1>11,
           <1>12, <1>13, <1>14, <1>15 DEF Next

LEMMA RulesInvariant ==
  ASSUME RuleNames \subseteq Rules
  PROVE  Spec => []RulesInv
<1>1. RulesInv /\ [Next]_vars => RulesInv'
  BY RulesStep
<1> QED BY <1>1, RulesInit, PTL DEF Spec

(* A client that keeps the rules never panics in the library, nor makes it *)
(* write to a missing stack: neither queue can overflow.                   *)
THEOREM RulesNoFault ==
  ASSUME RuleNames \subseteq Rules
  PROVE  Spec => []NoFault
<1>1. RulesInv => NoFault
  BY DEF RulesInv
<1> QED BY <1>1, RulesInvariant, PTL

(* No runnable thread is lost or scheduled twice.                          *)
THEOREM RulesScheduling ==
  ASSUME RuleNames \subseteq Rules
  PROVE  Spec => []SchedulingInv
<1>1. RulesInv => SchedulingInv
  BY DEF RulesInv
<1> QED BY <1>1, RulesInvariant, PTL

(* No handle is leaked, and none is handed out while it is in use.         *)
THEOREM RulesHandles ==
  ASSUME RuleNames \subseteq Rules
  PROVE  Spec => []HandleInv
<1>1. RulesInv => HandleInv
  BY DEF RulesInv
<1> QED BY <1>1, RulesInvariant, PTL

(* Every thread that is not running resumes in the call it left.           *)
THEOREM RulesControl ==
  ASSUME RuleNames \subseteq Rules
  PROVE  Spec => []ControlInv
<1>1. RulesInv => ControlInv
  BY DEF RulesInv
<1> QED BY <1>1, RulesInvariant, PTL

(* The root thread is scheduled whenever a cothread runs.                  *)
THEOREM RulesRoot ==
  ASSUME RuleNames \subseteq Rules
  PROVE  Spec => []RootInv
<1>1. RulesInv => RootInv
  BY DEF RulesInv
<1> QED BY <1>1, RulesInvariant, PTL

-----------------------------------------------------------------------------
(* The waiting lists of the semaphores.                                    *)
ListInv == RulesInv /\ WaitListInv

(* The wait of a thread that resumes ends because it heads a waiting list. *)
SignalledStep ==
  \A t \in Threads :
    context[t] = "wait" /\ context'[t] = "live" =>
      \E s \in Sems : /\ waiters[s] # <<>>
                      /\ t = Head(waiters[s])
                      /\ waiters'[s] = Tail(waiters[s])

-----------------------------------------------------------------------------
LEMMA WaiterSeq ==
  ASSUME TypeOK, NEW s \in Sems
  PROVE  /\ waiters[s] \in Seq(Threads) /\ Len(waiters[s]) \in Nat
         /\ DOMAIN waiters[s] = 1 .. Len(waiters[s])
         /\ \A i \in 1 .. Len(waiters[s]) : waiters[s][i] \in Threads
         /\ waiters[s] # <<>> <=> Len(waiters[s]) >= 1
         /\ waiters[s] # <<>> => Head(waiters[s]) = waiters[s][1]
<1>1. waiters[s] \in Seq(Threads)
  BY DEF TypeOK
<1>2. /\ Len(waiters[s]) \in Nat /\ DOMAIN waiters[s] = 1 .. Len(waiters[s])
      /\ \A i \in 1 .. Len(waiters[s]) : waiters[s][i] \in Threads
  BY <1>1, LenProperties, ElementOfSeq
<1>3. waiters[s] # <<>> <=> Len(waiters[s]) >= 1
  BY <1>1, <1>2, EmptySeq
<1>4. waiters[s] # <<>> => Head(waiters[s]) = waiters[s][1]
  BY <1>1, HeadTailProperties
<1> QED BY <1>1, <1>2, <1>3, <1>4

(* The root thread never is blocked, the caller is on no list.             *)
LEMMA NotWaiting ==
  ASSUME ListInv
  PROVE  /\ state[ROOT] # "blocked"
         /\ \A s \in Sems : \A i \in 1 .. Len(waiters[s]) :
              /\ state[waiters[s][i]] = "blocked"
              /\ waiters[s][i] # ROOT /\ waiters[s][i] # running
<1>1. state[ROOT] # "blocked" /\ state[running] # "blocked"
  <2>1. RulesInv
    BY DEF ListInv
  <2>2. state[running] = "running" /\ (running # ROOT => ROOT \in Range(scheduling_queue))
    BY <2>1, CallerFacts
  <2> QED BY <2>1, <2>2 DEF RulesInv, SchedulingInv
<1>2. ASSUME NEW s \in Sems, NEW i \in 1 .. Len(waiters[s])
      PROVE  state[waiters[s][i]] = "blocked"
  <2>1. /\ i \in DOMAIN waiters[s] /\ waiters[s][i] \in Threads
    BY WaiterSeq DEF ListInv, RulesInv, AnyInv
  <2>2. waiters[s][i] \in Range(waiters[s])
    BY <2>1 DEF Range
  <2> QED BY <2>1, <2>2 DEF ListInv, WaitListInv
<1> QED BY <1>1, <1>2

(* What the head of an initialised semaphore says about its waiters.       *)
LEMMA HeadTells ==
  ASSUME ListInv, NEW s \in Sems
  PROVE  /\ sem[s].head = NULL => waiters[s] = <<>>
         /\ sem[s].head = ROOT => waiters[s] = <<>>
         /\ sem[s].set => waiters[s] = <<>> /\ sem[s].head = NULL
         /\ sem[s].head \notin {NULL, ROOT} => waiters[s] # <<>>
<1>1. /\ Linked(s)
      /\ waiters[s] # <<>> => 1 \in 1 .. Len(waiters[s]) /\ waiters[s][1] \in Threads
  BY WaiterSeq DEF ListInv, WaitListInv, RulesInv, AnyInv
<1>2. waiters[s] # <<>> => waiters[s][1] # ROOT /\ waiters[s][1] # NULL
  BY <1>1, NotWaiting, ThreadFacts
<1> QED BY <1>1, <1>2 DEF Linked, ZeroSem

(* A step that changes no list.                                            *)
LEMMA SameLists ==
  ASSUME ListInv, UNCHANGED waiters,
         \A s \in Sems : sem'[s] = sem[s] \/ (waiters[s] = <<>> /\ sem'[s].head = NULL),
         \A t \in Threads : state'[t] = "blocked" <=> state[t] = "blocked",
         \A t \in Threads : state[t] = "blocked" => next_blocked'[t] = next_blocked[t],
         \A t \in Threads : state'[t] \in {"ready", "running"} => next_blocked'[t] = NULL
  PROVE  WaitListInv'
<1>1. ASSUME NEW s \in Sems PROVE Linked(s)'
  <2>1. CASE waiters[s] = <<>>
    BY <2>1 DEF ListInv, WaitListInv, Linked
  <2>2. CASE waiters[s] # <<>>
    <3>1. /\ Len(waiters[s]) \in Nat /\ Len(waiters[s]) >= 1
          /\ \A i \in 1 .. Len(waiters[s]) :
               waiters[s][i] \in Threads /\ state[waiters[s][i]] = "blocked"
      BY <2>2, WaiterSeq, NotWaiting DEF ListInv, RulesInv, AnyInv
    <3>2. \A i \in 1 .. Len(waiters[s]) :
            next_blocked'[waiters[s][i]] = next_blocked[waiters[s][i]]
      BY <3>1
    <3>3. Len(waiters[s]) \in 1 .. Len(waiters[s])
          /\ \A i \in 1 .. Len(waiters[s]) - 1 : i \in 1 .. Len(waiters[s])
      BY <3>1
    <3> QED BY <2>2, <3>2, <3>3 DEF ListInv, WaitListInv, Linked
  <2> QED BY <2>1, <2>2
<1> QED BY <1>1 DEF ListInv, WaitListInv

-----------------------------------------------------------------------------
(* Who internal_go_next takes the CPU to was not waiting.                  *)
LEMMA GoNextLists ==
  ASSUME ListInv, NEW q \in Seq(Threads), NEW x \in {"ready", "blocked", "not_active"},
         NEW site \in {"yield", "wait", "dead"}, ROOT \in Range(q),
         running = ROOT => x = "ready",
         internal_go_next(q, [state EXCEPT ![running] = x], site)
  PROVE  /\ \A t \in Threads : state'[t] = "blocked" <=>
              state[t] = "blocked" \/ (t = running /\ x = "blocked")
         /\ \A t \in Threads : state'[t] \in {"ready", "running"} =>
              state[t] \in {"ready", "running"}
         /\ \A t \in Threads : ~(context[t] = "wait" /\ context'[t] = "live")
<1> DEFINE st == [state EXCEPT ![running] = x]
<1>1. /\ running \in Threads /\ state[running] = "running" /\ state \in [Threads -> States]
      /\ context \in [Threads -> Contexts] /\ context[running] = "live"
  BY CallerFacts DEF ListInv, RulesInv, AnyInv, TypeOK, CallerInv
<1>2. GoNextEffect(x, site)
  BY GoNext DEF ListInv, RulesInv, AnyInv
<1>3. /\ running' \in Threads /\ (running' = ROOT \/ st[running'] = "ready")
      /\ state' = [st EXCEPT ![running'] = "running"]
      /\ context' = [context EXCEPT ![running] = site, ![running'] = "live"]
  BY <1>2 DEF GoNextEffect
<1>4. \A t \in Threads : /\ state'[t] = IF t = running' THEN "running"
                                        ELSE IF t = running THEN x ELSE state[t]
                         /\ context'[t] = IF t = running' THEN "live"
                                          ELSE IF t = running THEN site ELSE context[t]
  BY <1>1, <1>3
<1>5. state[ROOT] \in {"ready", "running"} /\ (state[ROOT] = "running" => ROOT = running)
  BY <1>1, ThreadFacts, NotWaiting, CallerFacts DEF ListInv, RulesInv, ControlInv, States
<1>6. running' # running => state[running'] = "ready"
  BY <1>1, <1>3, <1>5
<1>7. running' = running => x = "ready"
  BY <1>1, <1>3
<1>8. \A t \in Threads : state[t] = "ready" => context[t] # "wait"
  BY DEF ListInv, RulesInv, ControlInv
<1> QED BY <1>1, <1>3, <1>4, <1>6, <1>7, <1>8

LEMMA ListsWait ==
  ASSUME ListInv, TypeOK', NEW s \in Sems, sem[s].head # ROOT, running # ROOT, semaphore_wait(s)
  PROVE  WaitListInv' /\ SignalledStep
<1> DEFINE w == waiters[s]
<1>1. CASE sem[s].set
  <2>1. /\ sem' = [sem EXCEPT ![s].set = FALSE]
        /\ UNCHANGED <<running, tcbs, scheduling_queue, libco, waiters>>
    BY <1>1 DEF semaphore_wait
  <2>2. \A r \in Sems : sem'[r] = sem[r] \/ (waiters[r] = <<>> /\ sem'[r].head = NULL)
    BY <1>1, <2>1, HeadTells DEF ListInv, RulesInv, AnyInv, TypeOK
  <2>3. WaitListInv'
    BY <2>1, <2>2, SameLists DEF tcbs, ListInv, WaitListInv
  <2> QED BY <2>1, <2>3 DEF SignalledStep, libco
<1>2. CASE ~sem[s].set
  <2>1. internal_go_next(scheduling_queue, [state EXCEPT ![running] = "blocked"], "wait")
    BY <1>2 DEF semaphore_wait
  <2>2. scheduling_queue \in Seq(Threads) /\ ROOT \in Range(scheduling_queue)
    BY CallerFacts DEF ListInv, RulesInv, AnyInv, TypeOK
  <2>3. /\ \A t \in Threads : state'[t] = "blocked" <=> state[t] = "blocked" \/ t = running
        /\ \A t \in Threads : state'[t] \in {"ready", "running"} =>
             state[t] \in {"ready", "running"}
        /\ \A t \in Threads : ~(context[t] = "wait" /\ context'[t] = "live")
    BY <2>1, <2>2, GoNextLists
  <2>4. /\ w \in Seq(Threads) /\ Len(w) \in Nat /\ running \in Threads
        /\ w # <<>> <=> Len(w) >= 1
        /\ \A i \in 1 .. Len(w) : w[i] \in Threads /\ w[i] # running
        /\ next_blocked \in [Threads -> Threads \cup {NULL}]
        /\ next_blocked[running] = NULL
    BY WaiterSeq, NotWaiting DEF ListInv, RulesInv, AnyInv, TypeOK, CallerInv, WaitListInv
  <2>5. running \notin Range(w)
    BY <2>4, WaiterSeq DEF Range, ListInv, RulesInv, AnyInv
  <2> DEFINE v == Append(w, running)
  <2>6. /\ v \in Seq(Threads) /\ Len(v) = Len(w) + 1 /\ DOMAIN v = 1 .. Len(w) + 1
        /\ \A i \in 1 .. Len(w) : v[i] = w[i]
        /\ v[Len(w) + 1] = running /\ v # <<>>
    BY <2>4, AppendProperties, LenProperties, EmptySeq
  <2>7. /\ \A r \in Sems : waiters'[r] = IF r = s THEN v ELSE waiters[r]
    BY <1>2, <2>5 DEF semaphore_wait, ListInv, RulesInv, AnyInv, TypeOK
  <2> HIDE DEF v
  <2>8. /\ \A r \in Sems : r # s => sem'[r] = sem[r]
        /\ ~sem'[s].set /\ sem'[s].tail = running
        /\ sem'[s].head = IF w = <<>> THEN running ELSE w[1]
        /\ \A t \in Threads : next_blocked'[t] =
             IF w # <<>> /\ t = w[Len(w)] THEN running ELSE next_blocked[t]
    <3>1. CASE w = <<>>
      <4>1. sem[s].head = NULL
        BY <3>1, HeadTells, SemType DEF ListInv, RulesInv, AnyInv
      <4>2. /\ sem' = [sem EXCEPT ![s].head = running, ![s].tail = running]
            /\ UNCHANGED next_blocked
        BY <1>2, <4>1 DEF semaphore_wait
      <4> QED BY <1>2, <3>1, <4>2 DEF ListInv, RulesInv, AnyInv, TypeOK
    <3>2. CASE w # <<>>
      <4>1. sem[s].head # NULL /\ sem[s].head = w[1] /\ sem[s].tail = w[Len(w)]
        BY <3>2, HeadTells DEF ListInv, WaitListInv, Linked
      <4>2. /\ next_blocked' = [next_blocked EXCEPT ![w[Len(w)]] = running]
            /\ sem' = [sem EXCEPT ![s].tail = running]
        BY <1>2, <4>1 DEF semaphore_wait
      <4>3. sem \in [Sems -> [set : BOOLEAN, head : Threads \cup {NULL},
                              tail : Threads \cup {NULL}]]
        BY DEF ListInv, RulesInv, AnyInv, TypeOK
      <4> HIDE DEF w
      <4> QED BY <1>2, <2>4, <3>2, <4>1, <4>2, <4>3
    <3> QED BY <3>1, <3>2
  <2>9. \A r \in Sems : \A i \in 1 .. Len(waiters[r]) :
          /\ waiters[r][i] \in Threads /\ waiters[r][i] # running
          /\ \A j \in 1 .. Len(w) : waiters[r][i] = w[j] => r = s /\ i = j
    BY WaiterSeq, NotWaiting DEF ListInv, RulesInv, AnyInv, WaitListInv
  <2>10. ASSUME NEW r \in Sems PROVE Linked(r)'
    <3>1. CASE r = s
      <4>1. waiters'[s] = v /\ Len(v) \in 1 .. Len(v)
        BY <2>4, <2>6, <2>7
      <4>2. ~sem'[s].set /\ sem'[s].head = v[1] /\ sem'[s].tail = v[Len(v)]
        BY <2>4, <2>6, <2>8
      <4>3. next_blocked'[running] = NULL
        BY <2>4, <2>8
      <4>4. ASSUME NEW i \in 1 .. Len(v) - 1 PROVE next_blocked'[v[i]] = v[i + 1]
        <5>1. i \in 1 .. Len(w) /\ Len(w) \in 1 .. Len(w) /\ v[i] = w[i] /\ w[i] \in Threads
              /\ w # <<>>
          BY <2>4, <2>6
        <5>2. CASE i = Len(w)
          BY <2>6, <2>8, <5>1, <5>2
        <5>3. CASE i # Len(w)
          <6>1. /\ i \in 1 .. Len(w) - 1 /\ i + 1 \in 1 .. Len(w)
            BY <2>4, <5>1, <5>3
          <6>2. w[i] # w[Len(w)]
            BY <2>9, <5>1, <5>3
          <6>3. next_blocked[w[i]] = w[i + 1]
            BY <5>1, <6>1 DEF ListInv, WaitListInv, Linked
          <6> QED BY <2>6, <2>8, <5>1, <6>1, <6>2, <6>3
        <5> QED BY <5>2, <5>3
      <4> QED BY <2>6, <3>1, <4>1, <4>2, <4>3, <4>4 DEF Linked
    <3>2. CASE r # s
      <4> DEFINE u == waiters[r]
      <4>1. waiters'[r] = u /\ sem'[r] = sem[r] /\ Linked(r)
            /\ Len(u) \in Nat /\ (u # <<>> => Len(u) >= 1)
        BY <2>7, <2>8, <3>2, WaiterSeq DEF ListInv, WaitListInv, RulesInv, AnyInv
      <4>2. \A i \in 1 .. Len(u) : next_blocked'[u[i]] = next_blocked[u[i]]
        <5>1. \A i \in 1 .. Len(u) : u[i] \in Threads
          BY <2>9
        <5>2. w # <<>> => Len(w) \in 1 .. Len(w)
          BY <2>4
        <5> QED BY <2>8, <2>9, <3>2, <5>1, <5>2
      <4>3. u # <<>> => Len(u) \in 1 .. Len(u)
        BY <4>1
      <4>4. \A i \in 1 .. Len(u) - 1 : i \in 1 .. Len(u)
        BY <4>1
      <4> HIDE DEF u
      <4>5. CASE u = <<>>
        BY <4>1, <4>5 DEF Linked, u
      <4>6. CASE u # <<>>
        BY <4>1, <4>2, <4>3, <4>4, <4>6 DEF Linked, u
      <4> QED BY <4>5, <4>6
    <3> QED BY <3>1, <3>2
  <2>11. \A r \in Sems : DOMAIN waiters[r] = 1 .. Len(waiters[r])
    BY WaiterSeq DEF ListInv, RulesInv, AnyInv
  <2>12. ASSUME NEW p \in Sems, NEW r \in Sems,
                NEW i \in DOMAIN waiters'[p], NEW j \in DOMAIN waiters'[r],
                waiters'[p][i] = waiters'[r][j]
         PROVE  p = r /\ i = j
    <3>1. \A k \in 1 .. Len(w) + 1 : k \in 1 .. Len(w) \/ k = Len(w) + 1
      BY <2>4
    <3>2. \A a, b \in Sems : \A k \in DOMAIN waiters[a], l \in DOMAIN waiters[b] :
            waiters[a][k] = waiters[b][l] => a = b /\ k = l
      BY DEF ListInv, WaitListInv
    <3>3. \A a \in Sems : \A k \in DOMAIN waiters'[a] :
            \/ waiters'[a][k] = running /\ a = s /\ k = Len(w) + 1
            \/ /\ k \in DOMAIN waiters[a] /\ waiters'[a][k] = waiters[a][k]
               /\ waiters[a][k] # running
      <4> SUFFICES ASSUME NEW a \in Sems, NEW k \in DOMAIN waiters'[a]
                   PROVE  \/ waiters'[a][k] = running /\ a = s /\ k = Len(w) + 1
                          \/ /\ k \in DOMAIN waiters[a] /\ waiters'[a][k] = waiters[a][k]
                             /\ waiters[a][k] # running
        OBVIOUS
      <4>1. CASE a = s
        <5>1. waiters'[a] = v /\ k \in 1 .. Len(w) + 1
          BY <2>6, <2>7, <4>1
        <5>2. CASE k \in 1 .. Len(w)
          BY <2>6, <2>9, <2>11, <4>1, <5>1, <5>2
        <5>3. CASE k = Len(w) + 1
          BY <2>6, <4>1, <5>1, <5>3
        <5> QED BY <3>1, <5>1, <5>2, <5>3
      <4>2. CASE a # s
        BY <2>7, <2>9, <2>11, <4>2
      <4> QED BY <4>1, <4>2
    <3> QED BY <2>12, <3>2, <3>3
  <2>13. ASSUME NEW t \in Threads
         PROVE  state'[t] = "blocked" <=> \E r \in Sems : t \in Range(waiters'[r])
    <3>1. Range(v) = Range(w) \cup {running}
      BY <2>4, AppendSeq DEF v
    <3>2. state[t] = "blocked" <=> \E r \in Sems : t \in Range(waiters[r])
      BY DEF ListInv, WaitListInv
    <3> QED BY <2>3, <2>7, <3>1, <3>2
  <2>14. ASSUME NEW t \in Threads, state'[t] \in {"ready", "running"}
         PROVE  next_blocked'[t] = NULL
    <3>1. state[t] \in {"ready", "running"} /\ next_blocked[t] = NULL
      BY <2>3, <2>14 DEF ListInv, WaitListInv
    <3>2. w # <<>> => t # w[Len(w)]
      <4>1. w # <<>> => Len(w) \in 1 .. Len(w)
        BY <2>4
      <4> QED BY <3>1, <4>1, NotWaiting
    <3> QED BY <2>8, <3>1, <3>2
  <2>15. WaitListInv'
    BY <2>10, <2>12, <2>13, <2>14 DEF WaitListInv
  <2> QED BY <2>3, <2>15 DEF SignalledStep
<1> QED BY <1>1, <1>2

(* Waking the head: the list is what followed it.                          *)
LEMMA ListsUnblock ==
  ASSUME ListInv, TypeOK', NEW s \in Sems, sem[s].head \notin {NULL, ROOT}, Unblock(s)
  PROVE  WaitListInv' /\ SignalledStep
<1> DEFINE w == waiters[s]
           h == sem[s].head
           n == next_blocked[h]
           v == Tail(w)
<1>1. /\ w \in Seq(Threads) /\ w # <<>> /\ Len(w) \in Nat /\ Len(w) >= 1
      /\ \A i \in 1 .. Len(w) : w[i] \in Threads
      /\ 1 \in 1 .. Len(w) /\ Len(w) \in 1 .. Len(w)
      /\ Head(w) = w[1]
  <2>1. w # <<>>
    BY HeadTells
  <2> QED BY <2>1, WaiterSeq DEF ListInv, RulesInv, AnyInv
<1>2. /\ h = w[1] /\ sem[s].tail = w[Len(w)] /\ ~sem[s].set
      /\ next_blocked[w[Len(w)]] = NULL
      /\ \A i \in 1 .. Len(w) - 1 : next_blocked[w[i]] = w[i + 1]
  BY <1>1 DEF ListInv, WaitListInv, Linked
<1>3. /\ h \in Threads /\ state[h] = "blocked" /\ h # running
  BY <1>1, <1>2, NotWaiting
<1>4. /\ v \in Seq(Threads) /\ Len(v) = Len(w) - 1 /\ DOMAIN v = 1 .. Len(v)
      /\ \A i \in 1 .. Len(v) : v[i] = w[i + 1]
      /\ v # <<>> <=> Len(v) >= 1
  <2>1. /\ v \in Seq(Threads) /\ Len(v) = Len(w) - 1
        /\ \A i \in 1 .. Len(v) : v[i] = w[i + 1]
    BY <1>1, HeadTailProperties
  <2> HIDE DEF v
  <2>2. DOMAIN v = 1 .. Len(v) /\ Len(v) \in Nat /\ (v = <<>> <=> Len(v) = 0)
    BY <2>1, LenProperties, EmptySeq
  <2> QED BY <2>1, <2>2
<1>5. /\ v = <<>> => n = NULL
      /\ v # <<>> => n = v[1] /\ n # NULL
  <2>1. CASE v = <<>>
    BY <1>1, <1>2, <1>4, <2>1
  <2>2. CASE v # <<>>
    <3>1. 1 \in 1 .. Len(w) - 1 /\ 1 \in 1 .. Len(v) /\ 2 \in 1 .. Len(w)
      BY <1>1, <1>4, <2>2
    <3> QED BY <1>1, <1>2, <1>4, <3>1, ThreadFacts
  <2> QED BY <2>1, <2>2
<1>6. /\ sem' = IF n = NULL THEN [sem EXCEPT ![s] = EmptySem]
                            ELSE [sem EXCEPT ![s].head = n]
      /\ next_blocked' = [next_blocked EXCEPT ![h] = NULL]
      /\ waiters' = [waiters EXCEPT ![s] = IF @ # <<>> /\ Head(@) = h
                                          THEN Tail(@) ELSE @]
  BY DEF Unblock, MoveList, semaphore_init
<1>7. \A r \in Sems : waiters'[r] = IF r = s THEN v ELSE waiters[r]
  BY <1>1, <1>2, <1>6 DEF ListInv, RulesInv, AnyInv, TypeOK
<1>8. /\ state' = [state EXCEPT ![running] = "ready", ![h] = "running"]
      /\ context' = [context EXCEPT ![co_active_handle] = "signal", ![h] = "live"]
  BY DEF Unblock, Resume, co_switch
<1> HIDE DEF v, n, h
<1>9. /\ \A r \in Sems : r # s => sem'[r] = sem[r]
      /\ v = <<>> => sem'[s].head = NULL
      /\ v # <<>> => ~sem'[s].set /\ sem'[s].head = v[1] /\ sem'[s].tail = w[Len(w)]
  <2>1. sem \in [Sems -> [set : BOOLEAN, head : Threads \cup {NULL},
                          tail : Threads \cup {NULL}]]
    BY DEF ListInv, RulesInv, AnyInv, TypeOK
  <2>2. CASE v = <<>>
    BY <1>5, <1>6, <2>1, <2>2 DEF EmptySem
  <2>3. CASE v # <<>>
    BY <1>2, <1>5, <1>6, <2>1, <2>3
  <2> QED BY <2>2, <2>3
<1>10. /\ \A t \in Threads : next_blocked'[t] = IF t = h THEN NULL ELSE next_blocked[t]
       /\ \A t \in Threads : state'[t] = IF t = h THEN "running"
                                         ELSE IF t = running THEN "ready" ELSE state[t]
       /\ \A t \in Threads : context'[t] = "live" => context[t] = "live" \/ t = h
  BY <1>6, <1>8 DEF ListInv, RulesInv, AnyInv, TypeOK
<1>11. \A r \in Sems : \A i \in 1 .. Len(waiters[r]) :
         /\ waiters[r][i] \in Threads
         /\ waiters[r][i] = h => r = s /\ i = 1
  BY <1>1, <1>2, WaiterSeq DEF ListInv, RulesInv, AnyInv, WaitListInv
<1>12. ASSUME NEW r \in Sems PROVE Linked(r)'
  <2>1. CASE r = s /\ v = <<>>
    BY <1>7, <1>9, <2>1 DEF Linked
  <2>2. CASE r = s /\ v # <<>>
    <3>1. /\ Len(v) \in 1 .. Len(v) /\ v[Len(v)] = w[Len(w)] /\ Len(w) # 1
      BY <1>1, <1>4, <2>2
    <3>2. w[Len(w)] # h /\ next_blocked'[v[Len(v)]] = NULL
      BY <1>1, <1>2, <1>10, <1>11, <3>1
    <3>3. ASSUME NEW i \in 1 .. Len(v) - 1 PROVE next_blocked'[v[i]] = v[i + 1]
      <4>1. /\ i \in 1 .. Len(v) /\ i + 1 \in 1 .. Len(v) /\ i + 1 \in 1 .. Len(w) - 1
            /\ i + 1 \in 1 .. Len(w) /\ i + 1 # 1
        BY <1>1, <1>4
      <4>2. v[i] = w[i + 1] /\ v[i + 1] = w[(i + 1) + 1]
        BY <1>4, <4>1
      <4>3. w[i + 1] # h /\ w[i + 1] \in Threads
        BY <1>1, <1>11, <4>1
      <4> QED BY <1>2, <1>10, <4>1, <4>2, <4>3
    <3> QED BY <1>7, <1>9, <2>2, <3>1, <3>2, <3>3 DEF Linked
  <2>3. CASE r # s
    <3> DEFINE u == waiters[r]
    <3>1. /\ waiters'[r] = u /\ sem'[r] = sem[r] /\ Linked(r)
          /\ Len(u) \in Nat /\ (u # <<>> => Len(u) >= 1)
      BY <1>7, <1>9, <2>3, WaiterSeq DEF ListInv, WaitListInv, RulesInv, AnyInv
    <3>2. \A i \in 1 .. Len(u) : next_blocked'[u[i]] = next_blocked[u[i]]
      BY <1>10, <1>11, <2>3
    <3>3. /\ u # <<>> => Len(u) \in 1 .. Len(u)
          /\ \A i \in 1 .. Len(u) - 1 : i \in 1 .. Len(u)
      BY <3>1
    <3> HIDE DEF u
    <3>4. CASE u = <<>>
      BY <3>1, <3>4 DEF Linked, u
    <3>5. CASE u # <<>>
      BY <3>1, <3>2, <3>3, <3>5 DEF Linked, u
    <3> QED BY <3>4, <3>5
  <2> QED BY <2>1, <2>2, <2>3
<1>13. ASSUME NEW p \in Sems, NEW r \in Sems,
              NEW i \in DOMAIN waiters'[p], NEW j \in DOMAIN waiters'[r],
              waiters'[p][i] = waiters'[r][j]
       PROVE  p = r /\ i = j
  <2>1. \A a, b \in Sems : \A k \in DOMAIN waiters[a], l \in DOMAIN waiters[b] :
          waiters[a][k] = waiters[b][l] => a = b /\ k = l
    BY DEF ListInv, WaitListInv
  <2>2. \A a \in Sems : DOMAIN waiters[a] = 1 .. Len(waiters[a])
    BY WaiterSeq DEF ListInv, RulesInv, AnyInv
  <2>3. \A k \in 1 .. Len(v) : k + 1 \in 1 .. Len(w) /\ k \in Int
    BY <1>1, <1>4
  <2>4. \A a \in Sems : \A k \in DOMAIN waiters'[a] :
          \/ a # s /\ k \in DOMAIN waiters[a] /\ waiters'[a][k] = waiters[a][k]
          \/ /\ a = s /\ k \in Int /\ k + 1 \in DOMAIN waiters[a]
             /\ waiters'[a][k] = waiters[a][k + 1]
    BY <1>4, <1>7, <2>2, <2>3
  <2>5. CASE p # s
    BY <1>13, <2>1, <2>4, <2>5
  <2>6. CASE p = s
    <3>1. i \in Int /\ i + 1 \in DOMAIN waiters[s] /\ waiters'[p][i] = waiters[s][i + 1]
      BY <2>4, <2>6
    <3>2. r = s
      <4>1. CASE r # s
        <5>1. j \in DOMAIN waiters[r] /\ waiters'[r][j] = waiters[r][j]
          BY <2>4, <4>1
        <5>2. waiters[s][i + 1] = waiters[r][j]
          BY <1>13, <3>1, <5>1
        <5> QED BY <2>1, <3>1, <5>1, <5>2
      <4> QED BY <4>1
    <3>3. j \in Int /\ j + 1 \in DOMAIN waiters[s] /\ waiters'[r][j] = waiters[s][j + 1]
      BY <2>4, <3>2
    <3>4. waiters[s][i + 1] = waiters[s][j + 1]
      BY <1>13, <3>1, <3>3
    <3>5. i + 1 = j + 1
      BY <2>1, <3>1, <3>3, <3>4
    <3> QED BY <2>6, <3>1, <3>2, <3>3, <3>5
  <2> QED BY <2>5, <2>6
<1>14. ASSUME NEW t \in Threads
       PROVE  state'[t] = "blocked" <=> \E r \in Sems : t \in Range(waiters'[r])
  <2>1. IsInjective(w)
    BY <1>1, RangeSeq, WaiterSeq DEF ListInv, RulesInv, AnyInv, WaitListInv
  <2>2. Range(v) = Range(w) \ {h} /\ h \in Range(w)
    BY <1>1, <1>2, <2>1, TailSeq DEF v
  <2>3. \A r \in Sems : r # s => h \notin Range(waiters[r])
    BY <1>11, WaiterSeq DEF Range, ListInv, RulesInv, AnyInv
  <2>4. state[t] = "blocked" <=> \E r \in Sems : t \in Range(waiters[r])
    BY DEF ListInv, WaitListInv
  <2>5. state[running] # "blocked"
    BY DEF ListInv, RulesInv, AnyInv, CallerInv
  <2>6. CASE t = h
    BY <1>3, <1>7, <1>10, <2>2, <2>3, <2>6
  <2>7. CASE t # h
    BY <1>3, <1>7, <1>10, <2>2, <2>4, <2>5, <2>7
  <2> QED BY <2>6, <2>7
<1>15. ASSUME NEW t \in Threads, state'[t] \in {"ready", "running"}
       PROVE  next_blocked'[t] = NULL
  BY <1>10, <1>15 DEF ListInv, WaitListInv, RulesInv, AnyInv, CallerInv
<1>16. WaitListInv'
  BY <1>12, <1>13, <1>14, <1>15 DEF WaitListInv
<1>17. SignalledStep
  BY <1>1, <1>2, <1>7, <1>10 DEF SignalledStep, v
<1> QED BY <1>16, <1>17

LEMMA ListsSignal ==
  ASSUME ListInv, TypeOK', NEW s \in Sems, sem[s].head # ROOT, semaphore_signal(s)
  PROVE  WaitListInv' /\ SignalledStep
<1>1. CASE UNCHANGED vars
  BY <1>1, SameLists DEF vars, tcbs, libco, SignalledStep, ListInv, WaitListInv
<1>2. CASE /\ sem[s].head = NULL
           /\ sem' = [sem EXCEPT ![s].set = TRUE]
           /\ UNCHANGED <<running, tcbs, free_handle_queue, scheduling_queue, libco,
                          event_loop, fault, waiters>>
  <2>1. \A r \in Sems : sem'[r] = sem[r] \/ (waiters[r] = <<>> /\ sem'[r].head = NULL)
    BY <1>2, HeadTells DEF ListInv, RulesInv, AnyInv, TypeOK
  <2> QED BY <1>2, <2>1, SameLists DEF tcbs, libco, SignalledStep, ListInv, WaitListInv
<1>3. CASE sem[s].head # NULL /\ Unblock(s)
  BY <1>3, ListsUnblock
<1>4. ~Full(scheduling_queue)
  BY CallerFacts DEF ListInv
<1> QED BY <1>1, <1>2, <1>3, <1>4
        DEF semaphore_signal, microkit_cothread_semaphore_is_queue_empty

(* A step that touches neither a semaphore nor a blocked thread.           *)
LEMMA ListsElse ==
  ASSUME ListInv, UNCHANGED <<sem, waiters>>,
         \A t \in Threads : state'[t] = "blocked" <=> state[t] = "blocked",
         \A t \in Threads :
           \/ next_blocked'[t] = next_blocked[t] /\
              (state'[t] \in {"ready", "running"} => state[t] \in {"ready", "running"})
           \/ next_blocked'[t] = NULL /\ state[t] # "blocked",
         \A t \in Threads : ~(context[t] = "wait" /\ context'[t] = "live")
  PROVE  WaitListInv' /\ SignalledStep
<1>1. \A t \in Threads : state'[t] \in {"ready", "running"} => next_blocked'[t] = NULL
  BY DEF ListInv, WaitListInv
<1>2. \A t \in Threads : state[t] = "blocked" => next_blocked'[t] = next_blocked[t]
  OBVIOUS
<1>3. WaitListInv'
  BY <1>1, <1>2, SameLists
<1> QED BY <1>3 DEF SignalledStep

LEMMA ListsDestroy ==
  ASSUME ListInv, NEW c \in Cothreads, running # ROOT,
         state[c] \notin {"not_active", "blocked"}, destroy(c)
  PROVE  WaitListInv' /\ SignalledStep
<1>1. Release(c) /\ c \in Threads
  BY CallerFacts, ThreadFacts DEF destroy, ListInv
<1>2. UNCHANGED <<next_blocked, sem, waiters>>
  BY <1>1 DEF Release
<1>3. CASE c = running
  <2>1. internal_go_next(scheduling_queue, [state EXCEPT ![running] = "not_active"], "dead")
    BY <1>1, <1>3 DEF Release
  <2>2. scheduling_queue \in Seq(Threads) /\ ROOT \in Range(scheduling_queue)
    BY CallerFacts DEF ListInv, RulesInv, AnyInv, TypeOK
  <2>3. /\ \A t \in Threads : state'[t] = "blocked" <=> state[t] = "blocked"
        /\ \A t \in Threads : state'[t] \in {"ready", "running"} =>
             state[t] \in {"ready", "running"}
        /\ \A t \in Threads : ~(context[t] = "wait" /\ context'[t] = "live")
    BY <2>1, <2>2, GoNextLists
  <2> QED BY <1>2, <2>3, ListsElse
<1>4. CASE c # running
  <2>1. state' = [state EXCEPT ![c] = "not_active"] /\ UNCHANGED libco
    BY <1>1, <1>4 DEF Release
  <2>2. \A t \in Threads : state'[t] = IF t = c THEN "not_active" ELSE state[t]
    BY <1>1, <2>1 DEF ListInv, RulesInv, AnyInv, TypeOK
  <2> QED BY <1>2, <2>1, <2>2, ListsElse DEF libco
<1> QED BY <1>3, <1>4

LEMMA ListsYield ==
  ASSUME ListInv, microkit_cothread_yield
  PROVE  WaitListInv' /\ SignalledStep
<1> DEFINE q == Append(scheduling_queue, running)
<1>1. /\ internal_go_next(q, [state EXCEPT ![running] = "ready"], "yield")
      /\ UNCHANGED <<next_blocked, sem, waiters>>
  BY CallerFacts DEF microkit_cothread_yield, ListInv
<1>2. q \in Seq(Threads) /\ ROOT \in Range(q)
  BY AppendSeq, CallerFacts DEF ListInv, RulesInv, AnyInv, TypeOK
<1> HIDE DEF q
<1>3. /\ \A t \in Threads : state'[t] = "blocked" <=> state[t] = "blocked"
      /\ \A t \in Threads : state'[t] \in {"ready", "running"} =>
           state[t] \in {"ready", "running"}
      /\ \A t \in Threads : ~(context[t] = "wait" /\ context'[t] = "live")
  BY <1>1, <1>2, GoNextLists
<1> QED BY <1>1, <1>3, ListsElse

(* A pooled handle was not blocked.                                        *)
LEMMA ListsSpawn ==
  ASSUME ListInv, NEW arg, free_handle_queue # <<>>, spawn(Head(free_handle_queue), arg)
  PROVE  WaitListInv' /\ SignalledStep
<1> DEFINE new == Head(free_handle_queue)
<1>1. free_handle_queue \in Seq(Threads) /\ IsInjective(free_handle_queue)
  BY DEF ListInv, RulesInv, AnyInv, TypeOK, HandleInv
<1>2. new \in Range(free_handle_queue)
  BY <1>1, TailSeq
<1>3. new \in Threads /\ state[new] = "not_active" /\ new # ROOT
  BY <1>2 DEF ListInv, RulesInv, HandleInv
<1>4. /\ context' = [context EXCEPT ![new] = "entry"]
      /\ state' = [state EXCEPT ![new] = "ready"]
      /\ next_blocked' = [next_blocked EXCEPT ![new] = NULL]
      /\ UNCHANGED <<sem, waiters>>
  BY <1>3, CallerFacts DEF spawn, ListInv
<1> HIDE DEF new
<1>5. \A t \in Threads : /\ state'[t] = IF t = new THEN "ready" ELSE state[t]
                         /\ context'[t] = IF t = new THEN "entry" ELSE context[t]
                         /\ next_blocked'[t] = IF t = new THEN NULL ELSE next_blocked[t]
  BY <1>3, <1>4 DEF ListInv, RulesInv, AnyInv, TypeOK
<1> QED BY <1>3, <1>4, <1>5, ListsElse

-----------------------------------------------------------------------------
LEMMA ListsInit == Init => ListInv
<1> SUFFICES ASSUME Init PROVE WaitListInv
  BY RulesInit DEF ListInv
<1> USE DEF Init
<1>1. \A s \in Sems : Linked(s)
  BY DEF Linked, EmptySem, Sems
<1>2. \A s \in Sems : DOMAIN waiters[s] = {} /\ Range(waiters[s]) = {}
  BY DEF Range
<1>3. \A t \in Threads : state[t] \in {"ready", "running"} => next_blocked[t] = NULL
  OBVIOUS
<1> QED BY <1>1, <1>2, <1>3 DEF WaitListInv

LEMMA ListsStep ==
  ASSUME RuleNames \subseteq Rules, ListInv, [Next]_vars
  PROVE  ListInv' /\ SignalledStep
<1> DEFINE Goal == WaitListInv' /\ SignalledStep
<1>0. RulesInv /\ RulesInv' /\ TypeOK'
  BY RulesStep DEF ListInv, RulesInv, AnyInv
<1> SUFFICES Goal
  BY <1>0 DEF ListInv
<1>1. CASE microkit_cothread_init
  BY <1>1 DEF microkit_cothread_init, Obey, RuleNames
<1>2. ASSUME NEW s \in Semaphores, microkit_cothread_semaphore_init(s) PROVE Goal
  <2>1. /\ sem[s] = ZeroSem /\ sem' = [sem EXCEPT ![s] = EmptySem]
        /\ UNCHANGED <<tcbs, libco, waiters>>
    BY <1>2 DEF microkit_cothread_semaphore_init, semaphore_init, Obey, RuleNames
  <2>2. s \in Sems /\ waiters[s] = <<>>
    BY <2>1, HeadTells DEF Sems, ZeroSem
  <2>3. \A r \in Sems : sem'[r] = sem[r] \/ (waiters[r] = <<>> /\ sem'[r].head = NULL)
    BY <2>1, <2>2 DEF ListInv, RulesInv, AnyInv, TypeOK, EmptySem
  <2> QED BY <2>1, <2>3, SameLists DEF tcbs, libco, ListInv, WaitListInv, SignalledStep
<1>3. ASSUME NEW s \in Semaphores, microkit_cothread_semaphore_wait(s) PROVE Goal
  <2>1. s \in Sems /\ sem[s].head # ROOT
    BY <1>0, <1>3, InitialisedHead DEF microkit_cothread_semaphore_wait, Sems
  <2> QED BY <1>0, <1>3, <2>1, ListsWait
          DEF microkit_cothread_semaphore_wait, Obey, RuleNames
<1>4. ASSUME NEW s \in Semaphores, microkit_cothread_semaphore_signal(s) PROVE Goal
  <2>1. s \in Sems /\ sem[s].head # ROOT
    BY <1>0, <1>4, InitialisedHead DEF microkit_cothread_semaphore_signal, Sems
  <2> QED BY <1>0, <1>4, <2>1, ListsSignal DEF microkit_cothread_semaphore_signal
<1>5. CASE UNCHANGED <<state, next_blocked, sem, libco, waiters>>
  BY <1>5, ListsElse DEF libco, Goal
<1> HIDE DEF Goal
<1>6. ASSUME NEW e, NEW a, microkit_cothread_spawn(e, a) PROVE Goal
  BY <1>5, <1>6, ListsSpawn
     DEF microkit_cothread_spawn, Obey, RuleNames, Goal, vars, tcbs
<1>7. ASSUME NEW c, NEW a, microkit_cothread_set_arg(c, a) PROVE Goal
  BY <1>5, <1>7 DEF microkit_cothread_set_arg, Obey, RuleNames
<1>8. ASSUME NEW c, microkit_cothread_query_state(c) PROVE Goal
  BY <1>5, <1>8 DEF microkit_cothread_query_state, Obey, RuleNames, vars, tcbs
<1>9. CASE microkit_cothread_my_arg
  BY <1>5, <1>9 DEF microkit_cothread_my_arg, Obey, RuleNames, vars, tcbs
<1>10. CASE microkit_cothread_yield
  BY <1>10, ListsYield DEF Goal
<1>11. ASSUME NEW c, microkit_cothread_destroy(c) PROVE Goal
  <2>1. /\ c \in Threads /\ state[c] \notin {"not_active", "blocked"}
        /\ running # ROOT /\ c # ROOT /\ destroy(c)
    BY <1>11 DEF microkit_cothread_destroy, Obey, RuleNames
  <2> QED BY <2>1, ListsDestroy, ThreadFacts DEF Goal
<1>12. CASE cothread_entry_wrapper
  <2>1. /\ running \in Cothreads /\ state[running] = "running"
        /\ running # ROOT /\ destroy(running)
    BY <1>0, <1>12, CallerFacts, ThreadFacts DEF cothread_entry_wrapper
  <2> QED BY <2>1, ListsDestroy DEF Goal
<1>13. ASSUME NEW c, microkit_cothread_wait_on_channel(c) PROVE Goal
  <2>1. c \in Channels /\ running # ROOT /\ semaphore_wait(c)
    BY <1>13 DEF microkit_cothread_wait_on_channel, Obey, RuleNames
  <2>2. c \in Sems /\ sem[c].head # ROOT
    BY <1>0, <2>1, InitialisedHead DEF Sems, Initialised, Obey
  <2> QED BY <1>0, <2>1, <2>2, ListsWait DEF Goal
<1>14. ASSUME NEW c, microkit_cothread_recv_ntfn(c) PROVE Goal
  <2>1. c \in Channels /\ semaphore_signal(c)
    BY <1>14 DEF microkit_cothread_recv_ntfn, Obey, RuleNames
  <2>2. c \in Sems /\ sem[c].head # ROOT
    BY <1>0, <2>1, InitialisedHead DEF Sems, Initialised, Obey
  <2> QED BY <1>0, <2>1, <2>2, ListsSignal DEF Goal
<1>15. CASE HandlerReturns \/ Notified \/ UNCHANGED vars
  BY <1>5, <1>15 DEF HandlerReturns, Notified, vars, tcbs
<1> QED BY <1>1, <1>2, <1>3, <1>4, <1>6, <1>7, <1>8, <1>9, <1>10, <1>11,
           <1>12, <1>13, <1>14, <1>15 DEF Next

LEMMA ListInvariant ==
  ASSUME RuleNames \subseteq Rules
  PROVE  Spec => []ListInv
<1>1. ListInv /\ [Next]_vars => ListInv'
  BY ListsStep
<1> QED BY <1>1, ListsInit, PTL DEF Spec

(* For a client that keeps the rules the links through the TCBs are the    *)
(* waiters of each semaphore, in order, and no thread is on two lists.     *)
THEOREM RulesWaitLists ==
  ASSUME RuleNames \subseteq Rules
  PROVE  Spec => []WaitListInv
<1>1. ListInv => WaitListInv
  BY DEF ListInv
<1> QED BY <1>1, ListInvariant, PTL

(* For a client that keeps the rules a wait that blocked returns only by a *)
(* signal, which goes to the thread that has waited longest.               *)
THEOREM RulesWaitEnds ==
  ASSUME RuleNames \subseteq Rules
  PROVE  Spec => WaitEndsBySignal
<1>1. ListInv /\ [Next]_vars =>
        [ \A t \in Threads :
            context[t] = "wait" /\ context'[t] = "live" =>
              \E s \in Sems : /\ waiters[s] # <<>>
                              /\ t = Head(waiters[s])
                              /\ waiters'[s] = Tail(waiters[s]) ]_vars
  BY ListsStep DEF SignalledStep
<1> QED BY <1>1, ListInvariant, PTL DEF Spec, WaitEndsBySignal

-----------------------------------------------------------------------------
(* Relations on the threads, and what is in one that a queue makes.        *)
LEMMA SamePairs ==
  ASSUME NEW A \in SUBSET (Threads \X Threads), NEW B \in SUBSET (Threads \X Threads),
         \A u, v \in Threads : <<u, v>> \in A <=> <<u, v>> \in B
  PROVE  A = B
  OBVIOUS

LEMMA OrderPairs ==
  ASSUME NEW q, NEW st
  PROVE  /\ Order(q, st) \in SUBSET (Threads \X Threads)
         /\ ReadyIn(st) \subseteq Threads
         /\ \A u, v \in Threads : <<u, v>> \in Order(q, st) <=>
              st[u] = "ready" /\ st[v] = "ready" /\ Before(q, u, v)
  BY DEF Order, ReadyIn

LEMMA JoinedPairs ==
  ASSUME NEW A \in SUBSET (Threads \X Threads), NEW r \in SUBSET Threads, NEW t \in Threads
  PROVE  /\ System!Joined(A, r, t) \in SUBSET (Threads \X Threads)
         /\ \A u, v \in Threads : <<u, v>> \in System!Joined(A, r, t) <=>
              <<u, v>> \in A \/ (v = t /\ u \in r)
  BY DEF System!Joined

LEMMA LeftPairs ==
  ASSUME NEW A \in SUBSET (Threads \X Threads), NEW t \in Threads
  PROVE  /\ System!Left(A, t) \in SUBSET (Threads \X Threads)
         /\ \A u, v \in Threads : <<u, v>> \in System!Left(A, t) <=>
              <<u, v>> \in A /\ u # t /\ v # t
  BY DEF System!Left

(* A thread that becomes ready and joins the queue is behind all others.   *)
LEMMA OrderAppend ==
  ASSUME NEW q \in Seq(Threads), NEW st, NEW st2, NEW t \in Threads,
         t \notin Range(q), st[t] # "ready", st2[t] = "ready",
         \A u \in Threads : st[u] = "ready" => u \in Range(q),
         \A u \in Threads \ {t} : st2[u] = "ready" <=> st[u] = "ready"
  PROVE  /\ ReadyIn(st2) = ReadyIn(st) \cup {t}
         /\ Order(Append(q, t), st2) = System!Joined(Order(q, st), ReadyIn(st), t)
<1> DEFINE r == Append(q, t)
<1>1. /\ Len(q) \in Nat /\ Len(r) = Len(q) + 1
      /\ \A i \in 1 .. Len(q) : r[i] = q[i] /\ q[i] # t
      /\ r[Len(q) + 1] = t
      /\ \A u : u \in Range(q) <=> \E i \in 1 .. Len(q) : q[i] = u
  BY RangeSeq, AppendProperties
<1> HIDE DEF r
<1>2. ASSUME NEW u \in Threads, NEW v \in Threads, u \in Range(q)
      PROVE  Before(r, u, v) <=> Before(q, u, v) \/ v = t
  <2>1. ASSUME Before(r, u, v) PROVE Before(q, u, v) \/ v = t
    <3>1. PICK i \in 1 .. Len(r), j \in 1 .. Len(r) : i < j /\ r[i] = u /\ r[j] = v
      BY <2>1 DEF Before
    <3>2. CASE j \in 1 .. Len(q)
      BY <1>1, <3>1, <3>2 DEF Before
    <3> QED BY <1>1, <3>1, <3>2
  <2>2. ASSUME Before(q, u, v) PROVE Before(r, u, v)
    <3>1. PICK i \in 1 .. Len(q), j \in 1 .. Len(q) : i < j /\ q[i] = u /\ q[j] = v
      BY <2>2 DEF Before
    <3> QED BY <1>1, <3>1 DEF Before
  <2>3. ASSUME v = t PROVE Before(r, u, v)
    <3>1. PICK i \in 1 .. Len(q) : q[i] = u
      BY <1>1, <1>2
    <3>2. /\ i \in 1 .. Len(r) /\ Len(q) + 1 \in 1 .. Len(r) /\ i < Len(q) + 1
          /\ r[i] = u /\ r[Len(q) + 1] = v
      BY <1>1, <2>3, <3>1
    <3> QED BY <3>2 DEF Before
  <2> QED BY <2>1, <2>2, <2>3
<1>3. ASSUME NEW u \in Threads, NEW v \in Threads
      PROVE  /\ ~Before(r, t, v)
             /\ v = t => ~Before(q, u, v)
  BY <1>1 DEF Before
<1>4. ReadyIn(st2) = ReadyIn(st) \cup {t}
  BY DEF ReadyIn
<1> DEFINE A == Order(q, st)
           B == Order(r, st2)
<1>5. /\ A \in SUBSET (Threads \X Threads) /\ B \in SUBSET (Threads \X Threads)
      /\ \A u, v \in Threads : <<u, v>> \in A <=> st[u] = "ready" /\ st[v] = "ready" /\ Before(q, u, v)
      /\ \A u, v \in Threads : <<u, v>> \in B <=> st2[u] = "ready" /\ st2[v] = "ready" /\ Before(r, u, v)
  BY OrderPairs
<1> HIDE DEF A, B
<1>6. ASSUME NEW u \in Threads, NEW v \in Threads
      PROVE  <<u, v>> \in B <=> <<u, v>> \in A \/ (v = t /\ u \in ReadyIn(st))
  <2>1. u \in ReadyIn(st) <=> st[u] = "ready"
    BY DEF ReadyIn
  <2>2. CASE u = t
    BY <1>3, <1>5, <2>1, <2>2
  <2>3. CASE u # t /\ st[u] # "ready"
    BY <1>5, <2>1, <2>3
  <2>4. CASE u # t /\ st[u] = "ready"
    BY <1>2, <1>3, <1>5, <2>1, <2>4
  <2> QED BY <2>2, <2>3, <2>4
<1>7. B = System!Joined(A, ReadyIn(st), t)
  <2>1. ReadyIn(st) \in SUBSET Threads
    BY DEF ReadyIn
  <2> DEFINE J == System!Joined(A, ReadyIn(st), t)
  <2>2. /\ J \in SUBSET (Threads \X Threads)
        /\ \A u, v \in Threads : <<u, v>> \in J <=> <<u, v>> \in A \/ (v = t /\ u \in ReadyIn(st))
    BY <1>5, <2>1, JoinedPairs
  <2> HIDE DEF J
  <2>3. \A u, v \in Threads : <<u, v>> \in B <=> <<u, v>> \in J
    BY <1>6, <2>2
  <2>4. B = J
    BY <1>5, <2>2, <2>3, SamePairs
  <2> QED BY <2>4 DEF J
<1> QED BY <1>4, <1>7 DEF r, A, B

(* A destroyed thread's stale entry is between nobody and nobody.          *)
LEMMA OrderDrop ==
  ASSUME NEW q, NEW st, NEW st2, NEW t \in Threads, st2[t] # "ready",
         \A u \in Threads \ {t} : st2[u] = "ready" <=> st[u] = "ready"
  PROVE  /\ ReadyIn(st2) = ReadyIn(st) \ {t}
         /\ Order(q, st2) = System!Left(Order(q, st), t)
<1>1. ReadyIn(st2) = ReadyIn(st) \ {t}
  BY DEF ReadyIn
<1> DEFINE A == Order(q, st)
           B == Order(q, st2)
           L == System!Left(A, t)
<1>2. /\ A \in SUBSET (Threads \X Threads) /\ B \in SUBSET (Threads \X Threads)
      /\ \A u, v \in Threads : <<u, v>> \in A <=> st[u] = "ready" /\ st[v] = "ready" /\ Before(q, u, v)
      /\ \A u, v \in Threads : <<u, v>> \in B <=> st2[u] = "ready" /\ st2[v] = "ready" /\ Before(q, u, v)
  BY OrderPairs
<1> HIDE DEF A, B
<1>3. /\ L \in SUBSET (Threads \X Threads)
      /\ \A u, v \in Threads : <<u, v>> \in L <=> <<u, v>> \in A /\ u # t /\ v # t
  BY <1>2, LeftPairs
<1> HIDE DEF L
<1>4. \A u, v \in Threads : <<u, v>> \in B <=> <<u, v>> \in L
  BY <1>2, <1>3
<1>5. B = L
  BY <1>2, <1>3, <1>4, SamePairs
<1> QED BY <1>1, <1>5 DEF A, B, L

LEMMA OrderSame ==
  ASSUME NEW q, NEW st, NEW st2, \A u \in Threads : st2[u] = "ready" <=> st[u] = "ready"
  PROVE  ReadyIn(st2) = ReadyIn(st) /\ Order(q, st2) = Order(q, st)
<1>1. ReadyIn(st2) = ReadyIn(st)
  BY DEF ReadyIn
<1> QED BY <1>1 DEF Order

-----------------------------------------------------------------------------
(* internal_go_next takes the first ready thread of the queue, and the     *)
(* order of the others stays, whatever stale entries are dropped.          *)
LEMMA GoNextDispatches ==
  ASSUME NEW q \in Seq(Threads), NEW st \in [Threads -> States], NEW site,
         QueueOK(q, st), ROOT \in Range(q), st[ROOT] = "ready", internal_go_next(q, st, site)
  PROVE  \E t \in ReadyIn(st) :
           /\ \A u \in ReadyIn(st) : <<u, t>> \notin Order(q, st)
           /\ running' = t
           /\ ReadyIn(state') = ReadyIn(st) \ {t}
           /\ Order(scheduling_queue', state') = System!Left(Order(q, st), t)
<1>1. PICK i \in FirstRunnable(q, st) :
        LET next == IF i <= Len(q) THEN q[i] ELSE ROOT
        IN  /\ scheduling_queue' = SubSeq(q, i + 1, Len(q))
            /\ state' = [st EXCEPT ![next] = "running"]
            /\ running' = next
            /\ co_switch(next, site)
  BY DEF internal_go_next
<1> DEFINE r == SubSeq(q, i + 1, Len(q))
           t == q[i]
<1>2. /\ i \in 1 .. Len(q) + 1
      /\ i <= Len(q) => q[i] \in Threads /\ (q[i] = ROOT \/ st[q[i]] = "ready")
      /\ \A j \in 1 .. Len(q) : j < i => q[j] # ROOT /\ st[q[j]] # "ready"
      /\ Len(r) = IF i <= Len(q) THEN Len(q) - i ELSE 0
      /\ \A j \in 1 .. Len(q) - i : r[j] = q[i + j]
  BY Scheduled
<1> HIDE DEF r
<1>3. /\ \A u : u \in Range(q) <=> \E j \in 1 .. Len(q) : q[j] = u
      /\ \A j, k \in 1 .. Len(q) : q[j] = q[k] => j = k
      /\ Len(q) \in Nat /\ \A j \in 1 .. Len(q) : q[j] \in Threads
  BY RangeSeq DEF QueueOK
<1>4. i \in 1 .. Len(q)
  BY <1>2, <1>3
<1>5. /\ t \in Threads /\ st[t] = "ready"
      /\ Len(r) = Len(q) - i
      /\ \A j \in 1 .. Len(r) : r[j] = q[i + j] /\ i + j \in 1 .. Len(q) /\ i + j # i
      /\ \A k \in 1 .. Len(q) : k > i => k - i \in 1 .. Len(r) /\ r[k - i] = q[k]
  BY <1>2, <1>3, <1>4
<1>6. running' = t /\ scheduling_queue' = r /\ state' = [st EXCEPT ![t] = "running"]
  BY <1>1, <1>4, <1>3 DEF r
<1>7. \A u \in Threads : state'[u] = IF u = t THEN "running" ELSE st[u]
  BY <1>6
<1>8. ReadyIn(state') = ReadyIn(st) \ {t} /\ t \in ReadyIn(st)
  BY <1>5, <1>7 DEF ReadyIn
<1>9. ASSUME NEW u \in Threads, st[u] = "ready" PROVE ~Before(q, u, t)
  BY <1>2, <1>3, <1>4, <1>9 DEF Before
<1>10. ASSUME NEW u \in Threads, NEW v \in Threads, st[u] = "ready", u # t
       PROVE  Before(r, u, v) <=> Before(q, u, v)
  <2>1. ASSUME Before(r, u, v) PROVE Before(q, u, v)
    <3>1. PICK j \in 1 .. Len(r), k \in 1 .. Len(r) : j < k /\ r[j] = u /\ r[k] = v
      BY <2>1 DEF Before
    <3>2. i + j \in 1 .. Len(q) /\ i + k \in 1 .. Len(q) /\ q[i + j] = u /\ q[i + k] = v
          /\ i + j < i + k
      BY <1>4, <1>5, <3>1
    <3> QED BY <3>2 DEF Before
  <2>2. ASSUME Before(q, u, v) PROVE Before(r, u, v)
    <3>1. PICK j \in 1 .. Len(q), k \in 1 .. Len(q) : j < k /\ q[j] = u /\ q[k] = v
      BY <2>2 DEF Before
    <3>2. j > i /\ k > i
      BY <1>2, <1>4, <1>10, <3>1
    <3>3. /\ j - i \in 1 .. Len(r) /\ k - i \in 1 .. Len(r) /\ r[j - i] = u /\ r[k - i] = v
          /\ j - i < k - i
      BY <1>4, <1>5, <3>1, <3>2
    <3> QED BY <3>3 DEF Before
  <2> QED BY <2>1, <2>2
<1> DEFINE A == Order(q, st)
           B == Order(r, state')
           L == System!Left(A, t)
<1>11. /\ A \in SUBSET (Threads \X Threads) /\ B \in SUBSET (Threads \X Threads)
       /\ \A u, v \in Threads : <<u, v>> \in A <=> st[u] = "ready" /\ st[v] = "ready" /\ Before(q, u, v)
       /\ \A u, v \in Threads : <<u, v>> \in B <=> state'[u] = "ready" /\ state'[v] = "ready" /\ Before(r, u, v)
  BY OrderPairs
<1> HIDE DEF A, B, t
<1>12. /\ L \in SUBSET (Threads \X Threads)
       /\ \A u, v \in Threads : <<u, v>> \in L <=> <<u, v>> \in A /\ u # t /\ v # t
  BY <1>5, <1>11, LeftPairs
<1> HIDE DEF L
<1>13. \A u, v \in Threads : <<u, v>> \in B <=> <<u, v>> \in L
  BY <1>7, <1>10, <1>11, <1>12
<1>14. B = L
  BY <1>11, <1>12, <1>13, SamePairs
<1>15. \A u \in ReadyIn(st) : <<u, t>> \notin A
  BY <1>5, <1>9, <1>11 DEF ReadyIn
<1> QED BY <1>6, <1>8, <1>14, <1>15 DEF A, B, L

LEMMA Dispatched ==
  ASSUME NEW q \in Seq(Threads), NEW st \in [Threads -> States], NEW site,
         QueueOK(q, st), ROOT \in Range(q), st[ROOT] = "ready", internal_go_next(q, st, site)
  PROVE  System!Dispatch(ReadyIn(st), Order(q, st))
<1>1. ReadyIn(state)' = ReadyIn(state') /\ Order(scheduling_queue, state)' = Order(scheduling_queue', state')
  BY DEF ReadyIn, Order, Before
<1> QED BY <1>1, GoNextDispatches DEF System!Dispatch

-----------------------------------------------------------------------------
(* What the steps below use of the invariant.                              *)
LEMMA ReadyFacts ==
  ASSUME ListInv
  PROVE  /\ scheduling_queue \in Seq(Threads) /\ state \in [Threads -> States]
         /\ running \in Threads /\ state[running] = "running" /\ running \notin Range(scheduling_queue)
         /\ QueueOK(scheduling_queue, state) /\ ROOT \in Threads
         /\ running # ROOT => ROOT \in Range(scheduling_queue) /\ state[ROOT] = "ready"
         /\ sem \in [Sems -> [set : BOOLEAN, head : Threads \cup {NULL}, tail : Threads \cup {NULL}]]
         /\ waiters \in [Sems -> Seq(Threads)]
         /\ ~Full(scheduling_queue)
<1>1. RulesInv /\ TypeOK
  BY DEF ListInv, RulesInv, AnyInv
<1>2. /\ running \in Threads /\ state[running] = "running" /\ running \notin Range(scheduling_queue)
      /\ running # ROOT => ROOT \in Range(scheduling_queue)
      /\ state[ROOT] # "not_active" /\ ~Full(scheduling_queue)
  BY <1>1, CallerFacts
<1>3. QueueOK(scheduling_queue, state)
  BY <1>1 DEF RulesInv, SchedulingInv, QueueOK
<1>4. running # ROOT => state[ROOT] = "ready"
  BY <1>2, <1>3 DEF QueueOK
<1> QED BY <1>1, <1>2, <1>3, <1>4, ThreadFacts DEF TypeOK

(* A step that changes nothing the abstract system sees.                   *)
LEMMA Unseen ==
  ASSUME UNCHANGED <<running, scheduling_queue, state, waiters, event_loop>>,
         \A s \in Sems : sem'[s].set = sem[s].set
  PROVE  UNCHANGED System!vars
<1>1. [s \in Sems |-> sem[s].set]' = [s \in Sems |-> sem[s].set]
  OBVIOUS
<1>2. ReadyIn(state)' = ReadyIn(state) /\ Order(scheduling_queue, state)' = Order(scheduling_queue, state)
  BY DEF ReadyIn, Order, Before
<1> QED BY <1>1, <1>2 DEF System!vars

LEMMA YieldIsYield ==
  ASSUME ListInv, microkit_cothread_yield
  PROVE  System!Yield
<1> DEFINE q == Append(scheduling_queue, running)
           st == [state EXCEPT ![running] = "ready"]
<1>1. /\ internal_go_next(q, st, "yield") /\ UNCHANGED <<sem, event_loop, waiters>>
  BY ReadyFacts DEF microkit_cothread_yield
<1>2. /\ q \in Seq(Threads) /\ Range(q) = Range(scheduling_queue) \cup {running} /\ IsInjective(q)
  BY ReadyFacts, AppendSeq DEF QueueOK
<1>3. st \in [Threads -> States] /\ \A t \in Threads : st[t] = IF t = running THEN "ready" ELSE state[t]
  BY ReadyFacts DEF States
<1>4. \A t \in Range(q) : t \in Threads
  BY <1>2, RangeSeq
<1> HIDE DEF st
<1>5. QueueOK(q, st) /\ ROOT \in Range(q) /\ st[ROOT] = "ready"
  BY <1>2, <1>3, <1>4, ReadyFacts DEF QueueOK
<1>6. /\ ReadyIn(st) = ReadyIn(state) \cup {running}
      /\ Order(q, st) = System!Joined(Order(scheduling_queue, state), ReadyIn(state), running)
  BY <1>3, ReadyFacts, OrderAppend DEF QueueOK
<1>7. System!Dispatch(ReadyIn(st), Order(q, st))
  BY <1>1, <1>2, <1>3, <1>5, Dispatched
<1> QED BY <1>1, <1>6, <1>7 DEF System!Yield

(* A cothread that leaves the CPU, to wait or for good.                    *)
LEMMA Leaves ==
  ASSUME ListInv, running # ROOT, NEW x \in {"blocked", "not_active"}, NEW site,
         internal_go_next(scheduling_queue, [state EXCEPT ![running] = x], site)
  PROVE  System!Dispatch(ReadyIn(state), Order(scheduling_queue, state))
<1> DEFINE st == [state EXCEPT ![running] = x]
<1>1. st \in [Threads -> States] /\ \A t \in Threads : st[t] = IF t = running THEN x ELSE state[t]
  BY ReadyFacts DEF States
<1>2. \A t \in Range(scheduling_queue) : t \in Threads /\ t # running
  BY ReadyFacts, RangeSeq
<1> HIDE DEF st
<1>3. QueueOK(scheduling_queue, st) /\ ROOT \in Range(scheduling_queue) /\ st[ROOT] = "ready"
  BY <1>1, <1>2, ReadyFacts DEF QueueOK
<1>4. ReadyIn(st) = ReadyIn(state) /\ Order(scheduling_queue, st) = Order(scheduling_queue, state)
  BY <1>1, ReadyFacts, OrderSame
<1>5. System!Dispatch(ReadyIn(st), Order(scheduling_queue, st))
  BY <1>1, <1>3, ReadyFacts, Dispatched DEF st
<1> QED BY <1>4, <1>5

LEMMA WaitIsWait ==
  ASSUME ListInv, NEW s \in Sems, running # ROOT, semaphore_wait(s), UNCHANGED event_loop
  PROVE  System!WaitSignalled(s) \/ System!Block(s)
<1> DEFINE sig == [r \in Sems |-> sem[r].set]
<1>1. CASE sem[s].set
  <2>1. sem' = [sem EXCEPT ![s].set = FALSE] /\ UNCHANGED <<running, state, scheduling_queue, waiters>>
    BY <1>1 DEF semaphore_wait, tcbs
  <2>2. sig' = [sig EXCEPT ![s] = FALSE]
    BY <2>1, ReadyFacts
  <2>3. ReadyIn(state)' = ReadyIn(state) /\ Order(scheduling_queue, state)' = Order(scheduling_queue, state)
    BY <2>1 DEF ReadyIn, Order, Before
  <2> QED BY <1>1, <2>1, <2>2, <2>3 DEF System!WaitSignalled
<1>2. CASE ~sem[s].set
  <2>1. /\ internal_go_next(scheduling_queue, [state EXCEPT ![running] = "blocked"], "wait")
        /\ waiters' = [waiters EXCEPT ![s] = IF running \in Range(@) THEN @ ELSE Append(@, running)]
        /\ \/ sem' = [sem EXCEPT ![s].head = running, ![s].tail = running]
           \/ sem' = [sem EXCEPT ![s].tail = running]
    BY <1>2 DEF semaphore_wait
  <2>2. running \notin Range(waiters[s])
    BY ReadyFacts DEF ListInv, WaitListInv
  <2>3. waiters' = [waiters EXCEPT ![s] = Append(@, running)]
    BY <2>1, <2>2
  <2>4. sig' = sig
    <3>1. CASE sem' = [sem EXCEPT ![s].head = running, ![s].tail = running]
      <4>1. \A r \in Sems : sem'[r].set = sem[r].set
        BY <3>1, ReadyFacts
      <4> QED BY <4>1
    <3>2. CASE sem' = [sem EXCEPT ![s].tail = running]
      <4>1. \A r \in Sems : sem'[r].set = sem[r].set
        BY <3>2, ReadyFacts
      <4> QED BY <4>1
    <3> QED BY <2>1, <3>1, <3>2
  <2>5. System!Dispatch(ReadyIn(state), Order(scheduling_queue, state))
    BY <2>1, Leaves
  <2> QED BY <1>2, <2>3, <2>4, <2>5 DEF System!Block
<1> QED BY <1>1, <1>2

(* The caller that makes way for a blocked thread joins the ready ones.    *)
LEMMA CallerJoins ==
  ASSUME ListInv, NEW h \in Threads, h # running, state[h] = "blocked"
  PROVE  LET st == [state EXCEPT ![running] = "ready", ![h] = "running"]
         IN  /\ ReadyIn(st) = ReadyIn(state) \cup {running}
             /\ Order(Append(scheduling_queue, running), st) =
                  System!Joined(Order(scheduling_queue, state), ReadyIn(state), running)
<1>0. PICK st : st = [state EXCEPT ![running] = "ready", ![h] = "running"]
  OBVIOUS
<1>1. \A t \in Threads : st[t] = IF t = h THEN "running" ELSE IF t = running THEN "ready" ELSE state[t]
  BY <1>0, ReadyFacts
<1>2. /\ scheduling_queue \in Seq(Threads)
      /\ running \in Threads
      /\ running \notin Range(scheduling_queue)
  BY ReadyFacts
<1>3. \A u \in Threads : state[u] = "ready" => u \in Range(scheduling_queue)
  BY ReadyFacts DEF QueueOK
<1>4. state[running] # "ready"
  BY ReadyFacts
<1>5. st[running] = "ready"
  BY <1>1, <1>2
<1>6. \A u \in Threads \ {running} : st[u] = "ready" <=> state[u] = "ready"
  BY <1>1
<1>7. /\ ReadyIn(st) = ReadyIn(state) \cup {running}
      /\ Order(Append(scheduling_queue, running), st) =
           System!Joined(Order(scheduling_queue, state), ReadyIn(state), running)
  BY ONLY <1>2, <1>3, <1>4, <1>5, <1>6, OrderAppend
<1> QED BY <1>0, <1>7

LEMMA SignalIsSignal ==
  ASSUME ListInv, NEW s \in Sems, sem[s].head # ROOT, semaphore_signal(s)
  PROVE  UNCHANGED System!vars \/ System!SignalNobody(s) \/ System!Wake(s)
<1> DEFINE sig == [r \in Sems |-> sem[r].set]
<1>1. CASE UNCHANGED vars
  BY <1>1, Unseen DEF vars, tcbs
<1>2. CASE sem[s].head = NULL /\ ~sem[s].set
  <2>1. /\ sem' = [sem EXCEPT ![s].set = TRUE]
        /\ UNCHANGED <<running, state, scheduling_queue, event_loop, waiters>>
    BY <1>2 DEF semaphore_signal, microkit_cothread_semaphore_is_set,
                microkit_cothread_semaphore_is_queue_empty, tcbs
  <2>2. sig' = [sig EXCEPT ![s] = TRUE]
    BY <2>1, ReadyFacts
  <2>3. ReadyIn(state)' = ReadyIn(state) /\ Order(scheduling_queue, state)' = Order(scheduling_queue, state)
    BY <2>1 DEF ReadyIn, Order, Before
  <2>4. waiters[s] = <<>>
    BY <1>2, HeadTells
  <2> QED BY <2>1, <2>2, <2>3, <2>4 DEF System!SignalNobody
<1>3. CASE sem[s].head # NULL /\ ~sem[s].set /\ Unblock(s)
  <2> DEFINE h == sem[s].head
             q == Append(scheduling_queue, running)
             n == next_blocked[h]
  <2>1. waiters[s] # <<>> /\ 1 \in 1 .. Len(waiters[s]) /\ Head(waiters[s]) = waiters[s][1]
    <3>1. waiters[s] # <<>>
      BY <1>3, HeadTells
    <3> QED BY <3>1, WaiterSeq DEF ListInv, RulesInv, AnyInv
  <2>2. h = Head(waiters[s]) /\ h \in Threads /\ h # running /\ state[h] = "blocked"
    <3>1. h = waiters[s][1]
      BY <2>1 DEF ListInv, WaitListInv, Linked
    <3>2. waiters[s][1] \in Threads
      BY <2>1, WaiterSeq DEF ListInv, RulesInv, AnyInv
    <3> QED BY <2>1, <3>1, <3>2, NotWaiting
  <2>3. /\ sem' = IF n = NULL THEN [sem EXCEPT ![s] = EmptySem] ELSE [sem EXCEPT ![s].head = n]
        /\ waiters' = [waiters EXCEPT ![s] = IF @ # <<>> /\ Head(@) = h THEN Tail(@) ELSE @]
        /\ scheduling_queue' = q
        /\ state' = [state EXCEPT ![running] = "ready", ![h] = "running"]
        /\ running' = h /\ event_loop' = event_loop
    BY <1>3 DEF Unblock, MoveList, Resume, semaphore_init
  <2>4. waiters' = [waiters EXCEPT ![s] = Tail(@)]
    BY <2>1, <2>2, <2>3
  <2>5. sig' = sig
    <3>1. CASE n = NULL
      <4>1. \A r \in Sems : sem'[r].set = sem[r].set
        BY <1>3, <2>3, <3>1, ReadyFacts DEF EmptySem
      <4> QED BY <4>1
    <3>2. CASE n # NULL
      <4>1. \A r \in Sems : sem'[r].set = sem[r].set
        BY <2>3, <3>2, ReadyFacts
      <4> QED BY <4>1
    <3> QED BY <3>1, <3>2
  <2> HIDE DEF h
  <2>6. /\ ReadyIn(state)' = ReadyIn([state EXCEPT ![running] = "ready", ![h] = "running"])
        /\ Order(scheduling_queue, state)' =
             Order(q, [state EXCEPT ![running] = "ready", ![h] = "running"])
    BY <2>3 DEF ReadyIn, Order, Before
  <2>7. /\ ReadyIn(state)' = ReadyIn(state) \cup {running}
        /\ Order(scheduling_queue, state)' =
             System!Joined(Order(scheduling_queue, state), ReadyIn(state), running)
    BY <2>2, <2>6, CallerJoins
  <2> QED BY <1>3, <2>1, <2>2, <2>3, <2>4, <2>5, <2>7 DEF System!Wake
<1> QED BY <1>1, <1>2, <1>3, ReadyFacts DEF semaphore_signal,
           microkit_cothread_semaphore_is_set, microkit_cothread_semaphore_is_queue_empty

LEMMA SpawnIsSpawn ==
  ASSUME ListInv, NEW arg, free_handle_queue # <<>>,
         Head(free_handle_queue) \notin Range(scheduling_queue),
         spawn(Head(free_handle_queue), arg)
  PROVE  \E t \in Threads : System!Spawn(t)
<1> DEFINE t == Head(free_handle_queue)
<1>1. t \in Range(free_handle_queue) /\ t # ROOT /\ t \in Threads /\ state[t] = "not_active"
  <2>1. free_handle_queue \in Seq(Threads) /\ HandleInv
    BY DEF ListInv, RulesInv, AnyInv, TypeOK
  <2>2. t \in Range(free_handle_queue)
    BY <2>1, TailSeq DEF HandleInv
  <2> QED BY <2>1, <2>2 DEF HandleInv
<1> HIDE DEF t
<1>2. /\ state' = [state EXCEPT ![t] = "ready"]
      /\ scheduling_queue' = Append(scheduling_queue, t)
      /\ UNCHANGED <<running, sem, event_loop, waiters>>
  BY <1>1, ReadyFacts DEF spawn, t
<1> DEFINE st == [state EXCEPT ![t] = "ready"]
<1>3. \A u \in Threads : st[u] = IF u = t THEN "ready" ELSE state[u]
  BY ReadyFacts
<1>4. /\ ReadyIn(state)' = ReadyIn(st)
      /\ Order(scheduling_queue, state)' = Order(Append(scheduling_queue, t), st)
  BY <1>2 DEF ReadyIn, Order, Before
<1> HIDE DEF st
<1>5. t \notin Range(scheduling_queue) /\ st[t] = "ready" /\ state[t] # "ready"
  BY <1>1, <1>3 DEF t
<1>6. \A u \in Threads \ {t} : st[u] = "ready" <=> state[u] = "ready"
  BY <1>3
<1>7. scheduling_queue \in Seq(Threads) /\ \A u \in Threads : state[u] = "ready" => u \in Range(scheduling_queue)
  BY ReadyFacts DEF QueueOK
<1>8. /\ ReadyIn(st) = ReadyIn(state) \cup {t}
      /\ Order(Append(scheduling_queue, t), st) =
           System!Joined(Order(scheduling_queue, state), ReadyIn(state), t)
  BY <1>1, <1>5, <1>6, <1>7, OrderAppend
<1>9. t \notin ReadyIn(state) \cup {running} /\ \A s \in Sems : t \notin Range(waiters[s])
  BY <1>1, ReadyFacts DEF ReadyIn, ListInv, WaitListInv
<1>10. System!Spawn(t)
  BY <1>2, <1>8, <1>4, <1>9 DEF System!Spawn, System!Waits, System!Range, Range
<1> QED BY <1>1, <1>10

LEMMA DestroyIsDestroy ==
  ASSUME ListInv, NEW c \in Cothreads, running # ROOT,
         state[c] \notin {"not_active", "blocked"}, destroy(c)
  PROVE  System!Exit \/ System!Destroy(c)
<1>1. Release(c) /\ c \in Threads /\ c # ROOT
  BY CallerFacts, ThreadFacts DEF destroy, ListInv
<1>2. CASE c = running
  BY <1>1, <1>2, Leaves DEF Release, System!Exit
<1>3. CASE c # running
  <2>1. /\ state' = [state EXCEPT ![c] = "not_active"]
        /\ UNCHANGED <<running, scheduling_queue, sem, event_loop, waiters>>
    BY <1>1, <1>3 DEF Release
  <2>2. state[c] = "ready"
    BY <1>1, <1>3, ReadyFacts DEF ListInv, RulesInv, ControlInv, States
  <2> DEFINE st == [state EXCEPT ![c] = "not_active"]
  <2>3. \A u \in Threads : st[u] = IF u = c THEN "not_active" ELSE state[u]
    BY ReadyFacts
  <2>4. /\ ReadyIn(state)' = ReadyIn(st)
        /\ Order(scheduling_queue, state)' = Order(scheduling_queue, st)
    BY <2>1 DEF ReadyIn, Order, Before
  <2> HIDE DEF st
  <2>5. st[c] # "ready" /\ \A u \in Threads \ {c} : st[u] = "ready" <=> state[u] = "ready"
    BY <1>1, <2>3
  <2>6. /\ ReadyIn(st) = ReadyIn(state) \ {c}
        /\ Order(scheduling_queue, st) = System!Left(Order(scheduling_queue, state), c)
    BY <1>1, <2>5, OrderDrop
  <2>7. c \in ReadyIn(state) \ {ROOT}
    BY <1>1, <2>2 DEF ReadyIn
  <2> QED BY <2>1, <2>6, <2>4, <2>7 DEF System!Destroy
<1> QED BY <1>2, <1>3

-----------------------------------------------------------------------------
LEMMA SystemInit ==
  ASSUME Init
  PROVE  System!Init
<1>1. [s \in Sems |-> sem[s].set] = [s \in Sems |-> FALSE]
  BY DEF Init, EmptySem, ZeroSem
<1>2. ReadyIn(state) = {}
  BY DEF Init, ReadyIn
<1>3. Order(scheduling_queue, state) = {}
  BY <1>2 DEF Order
<1> QED BY <1>1, <1>2, <1>3 DEF Init, System!Init

LEMMA SystemStep ==
  ASSUME RuleNames \subseteq Rules, ListInv, [Next]_vars
  PROVE  System!Next \/ UNCHANGED System!vars
<1>0. RulesInv /\ TypeOK
  BY DEF ListInv, RulesInv, AnyInv
<1>1. CASE microkit_cothread_init
  BY <1>1 DEF microkit_cothread_init, Obey, RuleNames
<1>2. ASSUME NEW s \in Semaphores, microkit_cothread_semaphore_init(s)
      PROVE  UNCHANGED System!vars
  <2>1. /\ sem' = [sem EXCEPT ![s] = EmptySem] /\ sem[s] = ZeroSem
        /\ UNCHANGED <<running, scheduling_queue, state, waiters, event_loop>>
    BY <1>2 DEF microkit_cothread_semaphore_init, semaphore_init, tcbs, Obey, RuleNames
  <2>2. /\ sem'[s].set = FALSE /\ sem[s].set = FALSE
        /\ \A r \in Sems : r # s => sem'[r] = sem[r]
    BY <2>1, ReadyFacts DEF EmptySem, ZeroSem, Sems
  <2>3. \A r \in Sems : sem'[r].set = sem[r].set
    BY <2>2
  <2> QED BY <2>1, <2>3, Unseen
<1>3. ASSUME NEW s \in Semaphores, microkit_cothread_semaphore_wait(s)
      PROVE  System!Next
  <2>1. /\ s \in Sems /\ running # ROOT /\ ~event_loop /\ semaphore_wait(s) /\ UNCHANGED event_loop
    BY <1>3 DEF microkit_cothread_semaphore_wait, Sems, InClient, Obey, RuleNames
  <2>2. System!WaitSignalled(s) \/ System!Block(s)
    BY <2>1, WaitIsWait
  <2> QED BY <2>1, <2>2 DEF System!Next
<1>4. ASSUME NEW s \in Semaphores, microkit_cothread_semaphore_signal(s)
      PROVE  System!Next \/ UNCHANGED System!vars
  <2>1. s \in Sems /\ sem[s].head # ROOT /\ ~event_loop /\ semaphore_signal(s)
    BY <1>0, <1>4, InitialisedHead DEF microkit_cothread_semaphore_signal, Sems, InClient
  <2>2. UNCHANGED System!vars \/ System!SignalNobody(s) \/ System!Wake(s)
    BY <2>1, SignalIsSignal
  <2> QED BY <2>1, <2>2 DEF System!Next
<1>5. ASSUME NEW e, NEW a, microkit_cothread_spawn(e, a)
      PROVE  System!Next \/ UNCHANGED System!vars
  <2>1. /\ e # "null" /\ ~event_loop
        /\ free_handle_queue # <<>> =>
             Head(free_handle_queue) \notin Range(scheduling_queue)
    BY <1>5 DEF microkit_cothread_spawn, InClient, Obey, RuleNames
  <2>2. CASE UNCHANGED vars
    BY <2>2, Unseen DEF vars, tcbs
  <2>3. CASE free_handle_queue # <<>> /\ spawn(Head(free_handle_queue), a)
    <3>1. \E t \in Threads : System!Spawn(t)
      BY <2>1, <2>3, SpawnIsSpawn
    <3> QED BY <2>1, <3>1 DEF System!Next
  <2> QED BY <1>5, <2>1, <2>2, <2>3 DEF microkit_cothread_spawn
<1>6. ASSUME NEW c, NEW a, microkit_cothread_set_arg(c, a)
      PROVE  UNCHANGED System!vars
  <2>1. UNCHANGED <<running, state, scheduling_queue, sem, event_loop, waiters>>
    BY <1>6 DEF microkit_cothread_set_arg, Obey, RuleNames
  <2> QED BY <2>1, Unseen
<1>7. ASSUME NEW c, microkit_cothread_query_state(c)
      PROVE  UNCHANGED System!vars
  <2>1. UNCHANGED vars
    BY <1>7 DEF microkit_cothread_query_state, Obey, RuleNames
  <2> QED BY <2>1, Unseen DEF vars, tcbs
<1>8. CASE microkit_cothread_my_arg
  <2>1. UNCHANGED vars
    BY <1>8 DEF microkit_cothread_my_arg, Obey, RuleNames
  <2> QED BY <2>1, Unseen DEF vars, tcbs
<1>9. CASE microkit_cothread_yield
  <2>1. ~event_loop
    BY <1>9 DEF microkit_cothread_yield, InClient
  <2> QED BY <1>9, <2>1, YieldIsYield DEF System!Next
<1>10. ASSUME NEW c, microkit_cothread_destroy(c) PROVE System!Next
  <2>1. /\ c \in Threads /\ state[c] \notin {"not_active", "blocked"}
        /\ running # ROOT /\ c # ROOT /\ ~event_loop /\ destroy(c)
    BY <1>10 DEF microkit_cothread_destroy, InClient, Obey, RuleNames
  <2>2. System!Exit \/ System!Destroy(c)
    BY <2>1, DestroyIsDestroy, ThreadFacts
  <2> QED BY <2>1, <2>2 DEF System!Next
<1>11. CASE cothread_entry_wrapper
  <2>1. /\ running \in Cothreads /\ running \in Threads /\ state[running] = "running"
        /\ running # ROOT /\ ~event_loop /\ destroy(running)
    BY <1>11, ReadyFacts, ThreadFacts DEF cothread_entry_wrapper, InClient
  <2>2. System!Exit \/ System!Destroy(running)
    BY <2>1, DestroyIsDestroy
  <2> QED BY <2>1, <2>2 DEF System!Next
<1>12. ASSUME NEW c, microkit_cothread_wait_on_channel(c) PROVE System!Next
  <2>1. /\ c \in Sems /\ running # ROOT /\ ~event_loop /\ semaphore_wait(c) /\ UNCHANGED event_loop
    BY <1>12 DEF microkit_cothread_wait_on_channel, InClient, Sems, Obey, RuleNames
  <2>2. System!WaitSignalled(c) \/ System!Block(c)
    BY <2>1, WaitIsWait
  <2> QED BY <2>1, <2>2 DEF System!Next
<1>13. ASSUME NEW c, microkit_cothread_recv_ntfn(c)
       PROVE  System!Next \/ UNCHANGED System!vars
  <2>1. c \in Channels /\ ~event_loop /\ semaphore_signal(c)
    BY <1>13 DEF microkit_cothread_recv_ntfn, InClient, Obey, RuleNames
  <2>2. c \in Sems /\ sem[c].head # ROOT
    BY <1>0, <2>1, InitialisedHead DEF Sems, Initialised, Obey
  <2>3. UNCHANGED System!vars \/ System!SignalNobody(c) \/ System!Wake(c)
    BY <2>1, <2>2, SignalIsSignal
  <2> QED BY <2>1, <2>2, <2>3 DEF System!Next
<1>14. ASSUME UNCHANGED <<running, scheduling_queue, state, waiters, sem>>
       PROVE  /\ UNCHANGED [s \in Sems |-> sem[s].set]
              /\ UNCHANGED ReadyIn(state) /\ UNCHANGED Order(scheduling_queue, state)
  BY <1>14 DEF ReadyIn, Order, Before
<1>15. CASE HandlerReturns
  <2>1. /\ running = ROOT /\ ~event_loop /\ event_loop' = TRUE
        /\ UNCHANGED <<running, scheduling_queue, state, waiters, sem>>
    BY <1>15 DEF HandlerReturns, InClient, tcbs
  <2>2. System!Return
    BY <1>14, <2>1 DEF System!Return
  <2> QED BY <2>1, <2>2 DEF System!Next
<1>16. CASE Notified
  <2>1. /\ event_loop /\ event_loop' = FALSE
        /\ UNCHANGED <<running, scheduling_queue, state, waiters, sem>>
    BY <1>16 DEF Notified, tcbs
  <2>2. System!Receive
    BY <1>14, <2>1 DEF System!Receive
  <2> QED BY <2>1, <2>2 DEF System!Next
<1>17. CASE UNCHANGED vars
  BY <1>17, Unseen DEF vars, tcbs
<1> QED BY <1>1, <1>2, <1>3, <1>4, <1>5, <1>6, <1>7, <1>8, <1>9, <1>10, <1>11,
           <1>12, <1>13, <1>15, <1>16, <1>17 DEF Next

(* With a client that keeps the rules the library is the abstract system,  *)
(* however many threads, semaphores and channels there are: in particular  *)
(* who runs next never depends on the stale entries that destroy leaves in *)
(* the scheduling queue, and every signal reaches the longest waiting.     *)
THEOREM RulesSystem ==
  ASSUME RuleNames \subseteq Rules
  PROVE  Spec => ImplementsSystem
<1>1. ListInv /\ [Next]_vars => [System!Next]_(System!vars)
  BY SystemStep
<1> QED BY <1>1, SystemInit, ListInvariant, PTL DEF Spec, ImplementsSystem, System!Spec

=============================================================================
