---------------------------- MODULE CodisProofs ----------------------------
(***************************************************************************)
(* Codis, for any number of clients and buckets, any programs and any      *)
(* schedule: the buckets never overflow and their lengths are right; the   *)
(* server makes no call that the library answers with a crash; a buffer is *)
(* used by one side at a time; and the whole implements CodisStore.        *)
(***************************************************************************)
EXTENDS Codis, FiniteSetTheorems, NaturalsInduction, WellFoundedInduction, TLAPS

(* What a client posts is a string that fits the shared buffer.            *)
PostedInv ==
  /\ program \in Programs
  /\ step \in [Clients -> Nat]
  /\ DOMAIN ipc = Clients
  /\ \A c \in Clients : /\ DOMAIN ipc[c] = {"head", "data"}
                        /\ ipc[c].data \in Seq(Letters)
                        /\ Len(ipc[c].data) + 2 < BUCKET_SIZE

(* A handler beyond its wait has a channel: the wait panics without one.   *)
ServingInv ==
  /\ DOMAIN spc = {ROOT} \cup Handlers /\ DOMAIN my_owned_args = Handlers
  /\ \A t \in Handlers :
       fault = "none" /\ spc[t] \in {"fetch", "execute", "notify"} => my_owned_args[t] \in Clients

StoredInv ==
  /\ db \in [Buckets -> Seq(Letters)]
  /\ data_len \in [Buckets -> Nat]
  /\ \A b \in Buckets : data_len[b] = Len(db[b]) /\ data_len[b] < BUCKET_SIZE

CodisInv == PostedInv /\ ServingInv /\ StoredInv

(* strnlen gives the length of a string that is no longer than its bound.  *)
LEMMA StrnlenExact == ASSUME NEW s \in Seq(Letters), NEW n \in Int, Len(s) <= n
                      PROVE  strnlen(s, n) = Len(s)
  <1>1. Len(s) \in Int
    OBVIOUS
  <1>2. ASSUME NEW x \in {Len(s), n}, \A y \in {Len(s), n} : x <= y
        PROVE  x = Len(s)
    BY <1>1, <1>2
  <1>3. \E x \in {Len(s), n} : \A y \in {Len(s), n} : x <= y
    BY <1>1
  <1> QED BY <1>2, <1>3 DEF strnlen, Min

LEMMA EmptyFits == ASSUME NEW s, s = <<>>
                   PROVE  s \in Seq(Letters) /\ Len(s) + 2 < BUCKET_SIZE
  <1>1. s \in Seq(Letters) /\ Len(s) = 0
    OBVIOUS
  <1> QED BY <1>1, SizesAssumption

LEMMA RequestTyped ==
  ASSUME NEW p \in Programs, NEW c \in Clients, NEW i \in 1 .. Len(p[c])
  PROVE  /\ p[c][i] \in [cmd : STRING, bucket : Buckets, data : Seq(Letters)]
         /\ 2 + Len(p[c][i].data) + 1 <= BUCKET_SIZE
  <1> DEFINE R == [cmd : STRING, bucket : Buckets, data : Seq(Letters)]
  <1>1. p[c] \in Seq(R) /\ 2 + Len(p[c][i].data) + 1 <= BUCKET_SIZE
    BY ProgramsAssumption
  <1> HIDE DEF R
  <1>2. p[c][i] \in R
    BY <1>1
  <1> QED BY <1>1, <1>2 DEF R

LEMMA CodisInit == Init => CodisInv
  <1> SUFFICES ASSUME Init PROVE CodisInv
    OBVIOUS
  <1>1. PostedInv
    <2>1. DOMAIN ipc = Clients
          /\ \A c \in Clients : ipc[c].data = <<>> /\ DOMAIN ipc[c] = {"head", "data"}
      BY DEF Init
    <2>2. step \in [Clients -> Nat] /\ program \in Programs
      BY DEF Init
    <2> QED BY <2>1, <2>2, EmptyFits DEF PostedInv
  <1>2. ServingInv
    BY SizesAssumption DEF Init, ServingInv, ROOT, Handlers
  <1>3. StoredInv
    BY SizesAssumption DEF Init, StoredInv
  <1> QED BY <1>1, <1>2, <1>3 DEF CodisInv

(* The steps of the root thread and of the event loop touch none of this.  *)
LEMMA RootStep == ASSUME CodisInv, fault = "none",
                         UNCHANGED <<program, step, ipc, my_owned_args, db, data_len>>,
                         NEW label, spc' = spc \/ spc' = [spc EXCEPT ![ROOT] = label]
                  PROVE  CodisInv'
  <1>1. \A t \in Handlers : spc'[t] = spc[t]
    BY SizesAssumption DEF CodisInv, ServingInv, ROOT, Handlers
  <1>2. ServingInv'
    BY <1>1 DEF CodisInv, ServingInv
  <1> QED BY <1>2 DEF CodisInv, PostedInv, StoredInv

(* A step of handler t to label that leaves the store and the buffers.     *)
LEMMA HandlerStep == ASSUME CodisInv, NEW t \in Handlers, NEW label, At(t, spc[t]), Goto(t, label),
                            UNCHANGED <<program, step, ipc, db, data_len>>,
                            \A u \in Handlers \ {t} : my_owned_args'[u] = my_owned_args[u],
                            DOMAIN my_owned_args' = Handlers,
                            fault' = "none" /\ label \in {"fetch", "execute", "notify"} =>
                              my_owned_args'[t] \in Clients
                     PROVE  CodisInv'
  <1>1. /\ spc'[t] = label /\ DOMAIN spc' = DOMAIN spc
        /\ \A u \in Handlers \ {t} : spc'[u] = spc[u]
    BY DEF Goto, CodisInv, ServingInv
  <1>2. ServingInv'
    BY <1>1 DEF CodisInv, ServingInv, At
  <1> QED BY <1>2 DEF CodisInv, PostedInv, StoredInv

(* A request changes the store as StoredInv says and leaves a string that  *)
(* fits in the buffer.                                                     *)
LEMMA ExecuteStep == ASSUME CodisInv, NEW t \in Handlers, HandlerExecute(t) PROVE CodisInv'
  <1> DEFINE c == my_owned_args[t]
             b == fetched[t][3]
  <1>1. /\ fault = "none" /\ spc[t] = "execute" /\ Goto(t, "notify")
        /\ fault' = fault /\ my_owned_args' = my_owned_args /\ program' = program /\ step' = step
    BY DEF HandlerExecute, At, library, clients
  <1>2. c \in Clients
    BY <1>1 DEF CodisInv, ServingInv
  <1>3. \/ Read(c, b)
        \/ Append_(c, b)
        \/ Delete(b) /\ ipc' = [ipc EXCEPT ![c].head = <<"retval", 1>>]
        \/ UNCHANGED <<db, data_len, ipc>>
    BY DEF HandlerExecute
  <1> HIDE DEF b, c
  <1>4. ServingInv'
    <2>1. /\ spc'[t] = "notify" /\ DOMAIN spc' = DOMAIN spc
          /\ \A u \in Handlers \ {t} : spc'[u] = spc[u]
      BY <1>1 DEF Goto, CodisInv, ServingInv
    <2> QED BY <1>1, <2>1 DEF CodisInv, ServingInv
  <1>5. PostedInv'
    <2>1. \/ ipc' = ipc
          \/ \E h : ipc' = [ipc EXCEPT ![c].head = h]
          \/ \E h : ipc' = [ipc EXCEPT ![c] = [head |-> h, data |-> <<>>]]
      BY <1>3 DEF Read, Append_
    <2>2. DOMAIN ipc = Clients /\ \A d \in Clients : DOMAIN ipc[d] = {"head", "data"}
      BY DEF CodisInv, PostedInv
    <2>3. CASE ipc' = ipc
      BY <1>1, <2>3 DEF CodisInv, PostedInv
    <2>4. ASSUME NEW h, ipc' = [ipc EXCEPT ![c].head = h] PROVE PostedInv'
      <3>1. DOMAIN ipc' = Clients /\ \A d \in Clients :
              ipc'[d].data = ipc[d].data /\ DOMAIN ipc'[d] = {"head", "data"}
        BY <1>2, <2>2, <2>4
      <3> QED BY <1>1, <3>1 DEF CodisInv, PostedInv
    <2>5. ASSUME NEW h, ipc' = [ipc EXCEPT ![c] = [head |-> h, data |-> <<>>]] PROVE PostedInv'
      <3>1. DOMAIN ipc' = Clients /\ \A d \in Clients :
              /\ ipc'[d].data = IF d = c THEN <<>> ELSE ipc[d].data
              /\ DOMAIN ipc'[d] = {"head", "data"}
        BY <1>2, <2>2, <2>5
      <3> QED BY <1>1, <3>1, EmptyFits DEF CodisInv, PostedInv
    <2> QED BY <2>1, <2>3, <2>4, <2>5
  <1>6. StoredInv'
    <2>1. CASE UNCHANGED <<db, data_len>>
      BY <2>1 DEF CodisInv, StoredInv
    <2>2. CASE Delete(b)
      <3>1. CASE b \in Buckets
        BY <2>2, <3>1, SizesAssumption DEF Delete, CodisInv, StoredInv
      <3>2. CASE b \notin Buckets
        BY <2>2, <3>2 DEF Delete, CodisInv, StoredInv
      <3> QED BY <3>1, <3>2
    <2>3. CASE Append_(c, b) /\ ~UNCHANGED <<db, data_len>>
      <3> DEFINE data == ipc[c].data
      <3>1. data \in Seq(Letters) /\ Len(data) \in Nat /\ Len(data) <= BUCKET_SIZE - 2
        BY <1>2, SizesAssumption DEF CodisInv, PostedInv
      <3>2. strnlen(data, BUCKET_SIZE - 2) = Len(data)
        BY <3>1, StrnlenExact, SizesAssumption
      <3>3. /\ ~(data_len[b] + Len(data) + 1 > BUCKET_SIZE)
            /\ db' = [db EXCEPT ![b] = @ \o data]
            /\ data_len' = [data_len EXCEPT ![b] = @ + Len(data)]
        BY <2>3, <3>2 DEF Append_, Rejected
      <3> HIDE DEF data
      <3>4. CASE b \in Buckets
        <4>1. db[b] \in Seq(Letters) /\ data_len[b] \in Nat /\ data_len[b] = Len(db[b])
          BY <3>4 DEF CodisInv, StoredInv
        <4>2. db[b] \o data \in Seq(Letters) /\ Len(db[b] \o data) = data_len[b] + Len(data)
          BY <3>1, <4>1
        <4> QED BY <3>1, <3>3, <3>4, <4>1, <4>2, SizesAssumption DEF CodisInv, StoredInv
      <3>5. CASE b \notin Buckets
        BY <3>3, <3>5 DEF CodisInv, StoredInv
      <3> QED BY <3>4, <3>5
    <2> QED BY <1>3, <2>1, <2>2, <2>3 DEF Read
  <1> QED BY <1>4, <1>5, <1>6 DEF CodisInv

LEMMA ServerStep == ASSUME CodisInv, Server PROVE CodisInv'
  <1>1. CASE ServerSpawn
    BY <1>1, RootStep DEF ServerSpawn, At, Goto, OthersThanServer, clients
  <1>2. CASE ServerYield
    BY <1>2, RootStep DEF ServerYield, At, Goto, OthersThanServer, clients
  <1>3. CASE ServerReturn
    BY <1>3, RootStep DEF ServerReturn, Goto, OthersThanServer, clients, Lib!HandlerReturns, Lib!InClient
  <1>4. CASE ServerReceive
    BY <1>4, RootStep DEF ServerReceive, clients, Lib!Notified
  <1>5. CASE notified
    BY <1>5, RootStep DEF notified, At, OthersThanServer, clients
  <1>6. ASSUME NEW t \in Handlers, client_handler(t) PROVE CodisInv'
    <2>1. CASE HandlerStart(t)
      BY <2>1, HandlerStep DEF HandlerStart, At, OthersThanServer, clients, CodisInv, ServingInv
    <2>2. CASE HandlerWait(t)
      <3>1. fault' = "none" => my_owned_args[t] \in Clients
        BY <2>2 DEF HandlerWait, Lib!microkit_cothread_wait_on_channel, Lib!microkit_cothread_panic
      <3> QED BY <2>2, <3>1, HandlerStep DEF HandlerWait, At, OthersThanServer, clients, CodisInv, ServingInv
    <2>3. CASE HandlerFetch(t)
      BY <2>3, HandlerStep DEF HandlerFetch, At, OthersThanServer, clients, library, CodisInv, ServingInv
    <2>4. CASE HandlerExecute(t)
      BY <2>4, ExecuteStep
    <2>5. CASE HandlerNotify(t)
      BY <2>5, HandlerStep DEF HandlerNotify, At, clients, library, CodisInv, ServingInv
    <2> QED BY <1>6, <2>1, <2>2, <2>3, <2>4, <2>5 DEF client_handler
  <1> QED BY <1>1, <1>2, <1>3, <1>4, <1>5, <1>6 DEF Server

LEMMA ClientStep == ASSUME CodisInv, NEW c \in Clients, Client(c) PROVE CodisInv'
  <1>1. CASE ClientWrite(c)
    <2> DEFINE r == program[c][step[c] + 1]
    <2>1. /\ step[c] < Len(program[c]) /\ step' = [step EXCEPT ![c] = @ + 1] /\ program' = program
          /\ UNCHANGED <<fault, spc, my_owned_args, db, data_len>>
      BY <1>1 DEF ClientWrite, library, server
    <2>2. DOMAIN ipc' = DOMAIN ipc /\ \A d \in Clients :
            /\ DOMAIN ipc'[d] = {"head", "data"}
            /\ ipc'[d].data = ipc[d].data \/ (d = c /\ ipc'[d].data = r.data)
      <3>1. PICK h, s : /\ ipc' = [ipc EXCEPT ![c] = [head |-> h, data |-> s]]
                        /\ s = ipc[c].data \/ s = r.data
        BY <1>1 DEF ClientWrite, CodisInv, PostedInv
      <3> HIDE DEF r
      <3>2. DOMAIN ipc = Clients /\ \A d \in Clients : DOMAIN ipc[d] = {"head", "data"}
        BY DEF CodisInv, PostedInv
      <3>3. /\ DOMAIN ipc' = DOMAIN ipc
            /\ \A d \in Clients : ipc'[d] = IF d = c THEN [head |-> h, data |-> s] ELSE ipc[d]
        BY <3>1, <3>2
      <3> QED BY <3>1, <3>2, <3>3
    <2>3. program \in Programs /\ step[c] \in Nat
      BY DEF CodisInv, PostedInv
    <2>4. r.data \in Seq(Letters) /\ 2 + Len(r.data) + 1 <= BUCKET_SIZE
      <3>1. step[c] + 1 \in 1 .. Len(program[c])
        BY <2>1, <2>3, ProgramsAssumption
      <3> QED BY <2>3, <3>1, RequestTyped
    <2>5. Len(r.data) \in Nat /\ \A d \in Clients : Len(ipc[d].data) \in Nat
      BY <2>4 DEF CodisInv, PostedInv
    <2> HIDE DEF r
    <2>6. PostedInv'
      <3>1. step' \in [Clients -> Nat]
        BY <2>1, <2>3 DEF CodisInv, PostedInv
      <3>2. DOMAIN ipc = Clients
            /\ \A d \in Clients : ipc[d].data \in Seq(Letters) /\ Len(ipc[d].data) + 2 < BUCKET_SIZE
        BY DEF CodisInv, PostedInv
      <3>3. Len(r.data) + 2 < BUCKET_SIZE
        BY <2>4, <2>5, SizesAssumption
      <3>4. ASSUME NEW d \in Clients
            PROVE  ipc'[d].data \in Seq(Letters) /\ Len(ipc'[d].data) + 2 < BUCKET_SIZE
        BY <2>2, <2>4, <3>2, <3>3
      <3> QED BY <2>1, <2>2, <2>3, <3>1, <3>2, <3>4 DEF PostedInv
    <2> QED BY <2>1, <2>6 DEF CodisInv, ServingInv, StoredInv
  <1>2. CASE ~ClientWrite(c)
    <2>1. UNCHANGED <<program, step, ipc, fault, spc, my_owned_args, db, data_len>>
      BY <1>2 DEF Client, ClientInit, ClientNotify, ClientWait, ClientNotified, ClientRead, library, server
    <2> QED BY <2>1 DEF CodisInv, PostedInv, ServingInv, StoredInv
  <1> QED BY <1>1, <1>2

LEMMA CodisStep == CodisInv /\ [Next]_vars => CodisInv'
  <1>1. CodisInv /\ UNCHANGED vars => CodisInv'
    BY DEF vars, library, server, clients, CodisInv, PostedInv, ServingInv, StoredInv
  <1> QED BY <1>1, ServerStep, ClientStep DEF Next

(* However requests of however many clients interleave, data_len is the    *)
(* length of the string in its bucket, and the bucket has room for it and  *)
(* its terminator.                                                         *)
THEOREM BucketsNeverOverflow == Spec => []LengthsInv
  <1>1. CodisInv => LengthsInv
    BY SizesAssumption DEF CodisInv, StoredInv, LengthsInv
  <1> QED BY <1>1, CodisInit, CodisStep, PTL DEF Spec

-----------------------------------------------------------------------------
(* The server's threads take turns in a fixed pattern: init spawns the     *)
(* handlers one by one, its yield runs each to its first wait, and from    *)
(* then on at most one handler is awake, the one the root thread signalled *)
(* last.  k handlers have been spawned:                                    *)
Spawning(k) ==
  /\ running = ROOT /\ ~event_loop
  /\ spc[ROOT] = IF k < NClients THEN "init" ELSE "yield"
  /\ Len(free_handle_queue) = NClients - k
  /\ \A i \in 1 .. NClients - k : free_handle_queue[i] = k + i
  /\ Len(scheduling_queue) = k
  /\ \A i \in 1 .. k : scheduling_queue[i] = i
  /\ state[ROOT] = "running"
  /\ \A t \in Handlers : /\ state[t] = IF t <= k THEN "ready" ELSE "not_active"
                         /\ spc[t] = "start"

(* Handler t has run to a wait on its channel.                             *)
Waits(t) == state[t] = "blocked" /\ spc[t] = "fetch"

(* The handlers before h wait, h runs for the first time, the others and   *)
(* then the root thread are queued behind it:                              *)
Starting(h) ==
  /\ running = h /\ ~event_loop
  /\ spc[ROOT] = "returning" /\ spc[h] \in {"start", "wait"}
  /\ Len(scheduling_queue) = NClients - h + 1
  /\ \A i \in 1 .. NClients - h : scheduling_queue[i] = h + i
  /\ scheduling_queue[NClients - h + 1] = ROOT
  /\ state[ROOT] = "ready" /\ state[h] = "running"
  /\ \A t \in Handlers : t < h => Waits(t)
  /\ \A t \in Handlers : t > h => state[t] = "ready" /\ spc[t] = "start"

(* The root thread is back in init, in the event loop or in notified:      *)
Dispatching ==
  /\ running = ROOT /\ state[ROOT] = "running"
  /\ spc[ROOT] \in {"returning", "dispatch"}
  /\ event_loop => spc[ROOT] = "dispatch"
  /\ scheduling_queue = <<>>
  /\ \A t \in Handlers : Waits(t)

(* Handler h has been signalled and works on a request, or has done so:    *)
Serving(h) ==
  /\ running = h /\ ~event_loop /\ state[h] = "running"
  /\ spc[h] \in {"fetch", "execute", "notify", "wait"}
  /\ spc[ROOT] = "dispatch" /\ state[ROOT] = "ready"
  /\ scheduling_queue = <<ROOT>>
  /\ \A t \in Handlers \ {h} : Waits(t)

ServerThreads == {ROOT} \cup Handlers

(* A handler is alone on the semaphore of its own channel.                 *)
OwnSemaphore(c) == /\ DOMAIN sem[c] = {"set", "head", "tail"}
                   /\ ~sem[c].set
                   /\ sem[c].head = IF state[c] = "blocked" THEN c ELSE Lib!NULL

ServerTypes ==
  /\ fault = "none"
  /\ DOMAIN state = ServerThreads /\ DOMAIN spc = ServerThreads
  /\ DOMAIN next_blocked = ServerThreads /\ DOMAIN private_arg = ServerThreads
  /\ free_handle_queue \in Seq(ServerThreads) /\ scheduling_queue \in Seq(ServerThreads)
  /\ DOMAIN sem = Clients
  /\ \A c \in Clients : OwnSemaphore(c)
  /\ \A t \in Handlers : state[t] # "not_active" => next_blocked[t] = Lib!NULL /\ private_arg[t] = t
  /\ DOMAIN my_owned_args = Handlers
  /\ \A t \in Handlers : my_owned_args[t] = IF spc[t] = "start" THEN 0 ELSE t

ServerInv ==
  /\ ServerTypes
  /\ \/ \E k \in 0 .. NClients : Spawning(k)
     \/ \E h \in Handlers : Starting(h)
     \/ Dispatching
     \/ \E h \in Handlers : Serving(h)

(* The handler of client c is awake and has not answered yet.              *)
Works(c) == running = c /\ spc[c] \in {"fetch", "execute", "notify"}

(* A request is in one place at a time: notified to the server, in a badge *)
(* being dispatched, with its handler, or on the way back.                 *)
Posted(c) == c \in to_server \/ c \in badge
OnePlace(c) ==
  /\ ~(c \in to_server /\ c \in badge)
  /\ ~(Posted(c) /\ Works(c))
  /\ ~(Posted(c) /\ c \in to_client)
  /\ ~(Works(c) /\ c \in to_client)

(* Only while its client waits is a request in any of these places; from   *)
(* the handler's execution of it on, it counts as answered.                *)
ProtocolOf(c) ==
  /\ OnePlace(c)
  /\ cpc[c] \in {"init", "write", "notify", "wait", "blocked", "read", "done"}
  /\ async_io_sem[c] = IF cpc[c] = "blocked" THEN "waiting" ELSE "empty"
  /\ Posted(c) \/ Works(c) \/ c \in to_client => cpc[c] \in {"wait", "blocked"}
  /\ Posted(c) => ~answered[c]
  /\ Works(c) => (answered[c] <=> spc[c] = "notify")
  /\ c \in to_client => answered[c]
  /\ cpc[c] = "notify" => ~answered[c]
  /\ cpc[c] = "read" => answered[c]

(* Until it is answered, the buffer holds the request its client posted.   *)
RequestOf(c) == program[c][step[c]]

HoldsRequest(c) ==
  /\ step[c] \in 1 .. Len(program[c])
  /\ ipc[c].head = <<"request", RequestOf(c).cmd, RequestOf(c).bucket>>
  /\ RequestOf(c).cmd = "append" => ipc[c].data = RequestOf(c).data

BufferOf(c) ==
  /\ step[c] = 0 => cpc[c] \in {"init", "write"}
  /\ step[c] <= Len(program[c])
  /\ cpc[c] \in {"notify", "wait", "blocked"} /\ ~answered[c] => HoldsRequest(c)
  /\ Works(c) /\ spc[c] = "execute" => fetched[c] = ipc[c].head

ProtocolInv ==
  /\ to_server \subseteq Clients /\ badge \subseteq Clients /\ to_client \subseteq Clients
  /\ DOMAIN cpc = Clients /\ DOMAIN async_io_sem = Clients /\ DOMAIN fetched = Handlers
  /\ answered \in [Clients -> BOOLEAN]
  /\ \A c \in Clients : ProtocolOf(c) /\ BufferOf(c)

RequestInv == CodisInv /\ ServerInv /\ ProtocolInv

(* No request is with a handler before the root thread dispatches it.      *)
Idle == \A c \in Clients : ~Works(c)

LEMMA IdlePhases == ASSUME \/ \E k \in 0 .. NClients : Spawning(k)
                           \/ \E h \in Handlers : Starting(h)
                           \/ Dispatching
                    PROVE  Idle
  <1>1. ROOT \notin Clients /\ Clients = Handlers
    BY SizesAssumption DEF Clients, Handlers, ROOT
  <1> QED BY <1>1 DEF Idle, Works, Spawning, Starting, Dispatching

(* internal_go_next takes the first entry of the queue if it can run.      *)
LEMMA GoNextFirst ==
  ASSUME NEW q \in Seq(ServerThreads), Len(q) >= 1, NEW st, NEW site,
         q[1] = ROOT \/ st[q[1]] = "ready", Lib!internal_go_next(q, st, site)
  PROVE  /\ scheduling_queue' = SubSeq(q, 2, Len(q))
         /\ state' = [st EXCEPT ![q[1]] = "running"]
         /\ running' = q[1]
  <1>1. PICK i \in Lib!FirstRunnable(q, st) :
          LET next == IF i <= Len(q) THEN q[i] ELSE Lib!ROOT
          IN  /\ scheduling_queue' = SubSeq(q, i + 1, Len(q))
              /\ state' = [st EXCEPT ![next] = "running"]
              /\ running' = next
    BY DEF Lib!internal_go_next
  <1>2. i = 1
    BY DEF Lib!FirstRunnable, Lib!ROOT, ROOT
  <1> QED BY <1>1, <1>2

LEMMA SpawnedCount == ASSUME NEW k \in 0 .. NClients, Spawning(k) PROVE Spawned = k
  <1>1. {t \in Handlers : state[t] # "not_active"} = 1 .. k
    BY SizesAssumption DEF Spawning, Handlers
  <1>2. Cardinality(1 .. k) = k
    BY FS_Interval
  <1> QED BY <1>1, <1>2 DEF Spawned

LEMMA ServerInit == Init => ServerInv
  <1> SUFFICES ASSUME Init PROVE ServerInv
    OBVIOUS
  <1>1. Lib!Threads = ServerThreads /\ Lib!Cothreads = Handlers /\ Lib!Sems = Clients
        /\ Lib!ROOT = ROOT /\ ROOT \notin Handlers /\ NClients \in Nat \ {0}
    BY SizesAssumption DEF Lib!Threads, Lib!Cothreads, Lib!Sems, ServerThreads, Handlers,
      Clients, Lib!ROOT, ROOT
  <1>2. /\ running = ROOT /\ ~event_loop /\ fault = "none" /\ scheduling_queue = <<>>
        /\ state = [t \in ServerThreads |-> IF t = ROOT THEN "running" ELSE "not_active"]
        /\ free_handle_queue = [i \in Handlers |-> i]
        /\ sem = [c \in Clients |-> Lib!EmptySem]
        /\ DOMAIN next_blocked = ServerThreads /\ DOMAIN private_arg = ServerThreads
        /\ spc = [t \in ServerThreads |-> IF t = ROOT THEN "init" ELSE "start"]
        /\ my_owned_args = [t \in Handlers |-> 0]
    BY <1>1 DEF Init, Lib!Init, ServerThreads
  <1>3. free_handle_queue \in Seq(ServerThreads) /\ Len(free_handle_queue) = NClients
    BY <1>1, <1>2 DEF Handlers, ServerThreads
  <1>4. Handlers \subseteq ServerThreads /\ Clients = Handlers /\ ROOT \in ServerThreads
    BY DEF ServerThreads, Clients, Handlers
  <1>5. ServerTypes
    BY <1>1, <1>2, <1>3, <1>4 DEF ServerTypes, OwnSemaphore, Lib!EmptySem
  <1>6. Spawning(0)
    <2>1. \A i \in 1 .. NClients : free_handle_queue[i] = i
      BY <1>2 DEF Handlers
    <2> QED BY <1>1, <1>2, <1>3, <1>4, <2>1 DEF Spawning
  <1> QED BY <1>1, <1>5, <1>6 DEF ServerInv

(* The channel notified takes from the badge is one of those in it.        *)
LEMMA MinOfBadge == ASSUME badge \subseteq Clients, badge # {} PROVE Min(badge) \in badge
  <1>1. badge \subseteq Nat
    BY SizesAssumption DEF Clients
  <1>2. PICK x \in badge : \A y \in badge : ~(<<y, x>> \in OpToRel(<, Nat))
    BY <1>1, NatLessThanWellFounded, WFMin
  <1>3. \A y \in badge : x <= y
    <2> TAKE y \in badge
    <2>1. y \in Nat /\ x \in Nat
      BY <1>1
    <2>2. ~(y < x)
      BY <1>2, <2>1 DEF OpToRel
    <2> QED BY <2>1, <2>2
  <1> QED BY <1>3 DEF Min

LEMMA SpawnStep == ASSUME ServerInv, ServerSpawn PROVE ServerInv'
  <1>1. running = ROOT /\ spc[ROOT] = "init" /\ ROOT \notin Handlers /\ NClients \in Nat \ {0}
    BY SizesAssumption DEF ServerSpawn, At, Handlers, ROOT
  <1>2. PICK k \in 0 .. NClients : Spawning(k)
    BY <1>1 DEF ServerInv, Starting, Dispatching, Serving
  <1>3. k < NClients /\ k \in Nat /\ k + 1 \in Handlers /\ Spawned = k
    BY <1>1, <1>2, SpawnedCount DEF Spawning, Handlers
  <1>4. free_handle_queue # <<>> /\ Head(free_handle_queue) = k + 1
        /\ free_handle_queue \in Seq(ServerThreads) /\ scheduling_queue \in Seq(ServerThreads)
    BY <1>1, <1>2, <1>3 DEF Spawning, ServerInv, ServerTypes
  <1>5. Lib!spawn(k + 1, k + 1)
    BY <1>3, <1>4 DEF ServerSpawn, Lib!microkit_cothread_spawn
  <1>6. /\ free_handle_queue' = Tail(free_handle_queue)
        /\ private_arg' = [private_arg EXCEPT ![k + 1] = k + 1]
        /\ state' = [state EXCEPT ![k + 1] = "ready"]
        /\ next_blocked' = [next_blocked EXCEPT ![k + 1] = Lib!NULL]
        /\ scheduling_queue' = Append(scheduling_queue, k + 1)
        /\ UNCHANGED <<running, sem, event_loop, fault, my_owned_args>>
    <2>1. ~Lib!Full(scheduling_queue) /\ k + 1 # Lib!ROOT
      BY <1>1, <1>2, <1>3 DEF Lib!Full, Spawning, Lib!ROOT
    <2> QED BY <1>5, <2>1 DEF Lib!spawn, ServerSpawn
  <1>7. spc' = [spc EXCEPT ![ROOT] = IF k + 1 = NClients THEN "yield" ELSE "init"]
    BY <1>3 DEF ServerSpawn, Goto
  <1>8. /\ DOMAIN spc' = ServerThreads /\ DOMAIN state' = ServerThreads
        /\ DOMAIN private_arg' = ServerThreads /\ DOMAIN next_blocked' = ServerThreads
        /\ \A t \in Handlers : /\ spc'[t] = "start"
                               /\ state'[t] = IF t <= k + 1 THEN "ready" ELSE "not_active"
                               /\ t <= k + 1 => private_arg'[t] = t /\ next_blocked'[t] = Lib!NULL
        /\ spc'[ROOT] = (IF k + 1 < NClients THEN "init" ELSE "yield")
        /\ state'[ROOT] = "running"
    BY <1>1, <1>2, <1>3, <1>6, <1>7 DEF ServerInv, ServerTypes, Spawning, ServerThreads, Handlers
  <1>9. /\ free_handle_queue' \in Seq(ServerThreads) /\ scheduling_queue' \in Seq(ServerThreads)
        /\ Len(free_handle_queue') = NClients - (k + 1)
        /\ \A i \in 1 .. NClients - (k + 1) : free_handle_queue'[i] = (k + 1) + i
        /\ Len(scheduling_queue') = k + 1
        /\ \A i \in 1 .. k + 1 : scheduling_queue'[i] = i
    BY <1>1, <1>2, <1>3, <1>4, <1>6 DEF Spawning, ServerThreads
  <1>10. Spawning(k + 1)'
    BY <1>1, <1>2, <1>3, <1>6, <1>8, <1>9 DEF Spawning
  <1>11. ServerTypes'
    <2>1. \A c \in Clients : OwnSemaphore(c)'
      BY <1>2, <1>6, <1>8 DEF ServerInv, ServerTypes, OwnSemaphore, Spawning, Clients, Handlers
    <2>2. \A t \in Handlers : my_owned_args'[t] = IF spc'[t] = "start" THEN 0 ELSE t
      BY <1>2, <1>6, <1>8 DEF ServerInv, ServerTypes, Spawning
    <2> QED BY <1>6, <1>8, <1>9, <2>1, <2>2 DEF ServerInv, ServerTypes, Handlers
  <1>12. k + 1 \in 0 .. NClients
    BY <1>1, <1>3
  <1> QED BY <1>10, <1>11, <1>12 DEF ServerInv

LEMMA YieldStep == ASSUME ServerInv, ServerYield PROVE ServerInv' /\ Idle'
  <1>1. running = ROOT /\ spc[ROOT] = "yield" /\ ROOT \notin Handlers /\ NClients \in Nat \ {0}
        /\ 1 \in Handlers /\ Handlers \subseteq ServerThreads /\ ROOT \in ServerThreads
    BY SizesAssumption DEF ServerYield, At, Handlers, ROOT, ServerThreads
  <1>2. PICK k \in 0 .. NClients : Spawning(k)
    BY <1>1 DEF ServerInv, Starting, Dispatching, Serving
  <1>3. k = NClients
    BY <1>1, <1>2 DEF Spawning
  <1> DEFINE q == Append(scheduling_queue, ROOT)
             st == [state EXCEPT ![ROOT] = "ready"]
  <1>4. /\ scheduling_queue \in Seq(ServerThreads)
        /\ Len(scheduling_queue) = NClients
        /\ \A i \in 1 .. NClients : scheduling_queue[i] = i
        /\ DOMAIN state = ServerThreads
        /\ \A t \in Handlers : state[t] = "ready" /\ spc[t] = "start"
    BY <1>1, <1>2, <1>3 DEF Spawning, ServerInv, ServerTypes, Handlers
  <1>5. /\ q \in Seq(ServerThreads) /\ Len(q) = NClients + 1
        /\ \A i \in 1 .. NClients : q[i] = i
        /\ q[1] = 1 /\ q[NClients + 1] = ROOT
    BY <1>1, <1>4
  <1>6. DOMAIN st = ServerThreads /\ st[ROOT] = "ready" /\ \A t \in Handlers : st[t] = "ready"
    BY <1>1, <1>4
  <1>7. /\ Lib!internal_go_next(q, st, "yield")
        /\ UNCHANGED <<next_blocked, private_arg, free_handle_queue, sem, event_loop, fault>>
        /\ spc' = [spc EXCEPT ![ROOT] = "returning"] /\ my_owned_args' = my_owned_args
    BY <1>1, <1>4 DEF ServerYield, Lib!microkit_cothread_yield, Lib!Full, Goto
  <1> HIDE DEF q, st
  <1>8. scheduling_queue' = SubSeq(q, 2, Len(q)) /\ state' = [st EXCEPT ![1] = "running"] /\ running' = 1
    <2>1. q \in Seq(ServerThreads) /\ Len(q) >= 1 /\ (q[1] = ROOT \/ st[q[1]] = "ready") /\ q[1] = 1
      BY <1>1, <1>5, <1>6
    <2>2. Lib!internal_go_next(q, st, "yield")
      BY <1>7
    <2> QED BY ONLY <2>1, <2>2, GoNextFirst
  <1>9. /\ scheduling_queue' \in Seq(ServerThreads) /\ Len(scheduling_queue') = NClients
        /\ \A i \in 1 .. NClients - 1 : scheduling_queue'[i] = 1 + i
        /\ scheduling_queue'[NClients] = ROOT
    BY <1>1, <1>5, <1>8
  <1>10. /\ DOMAIN state' = ServerThreads /\ DOMAIN spc' = ServerThreads
         /\ state'[ROOT] = "ready" /\ state'[1] = "running"
         /\ \A t \in Handlers \ {1} : state'[t] = "ready"
         /\ spc'[ROOT] = "returning" /\ \A t \in Handlers : spc'[t] = "start"
    BY <1>1, <1>4, <1>6, <1>7, <1>8 DEF ServerInv, ServerTypes
  <1>11. Starting(1)'
    <2>1. \A t \in Handlers : ~(t < 1) /\ (t > 1 => t # 1)
      BY <1>1 DEF Handlers
    <2> QED BY <1>1, <1>2, <1>7, <1>8, <1>9, <1>10, <2>1 DEF Starting, Spawning
  <1>12. ServerTypes'
    <2>1. \A t \in Handlers : state[t] # "not_active" /\ state[t] # "blocked" /\ state'[t] # "blocked"
      BY <1>4, <1>10
    <2>2. \A c \in Clients : OwnSemaphore(c)'
      BY <1>7, <2>1 DEF ServerInv, ServerTypes, OwnSemaphore, Clients, Handlers
    <2>3. \A t \in Handlers : my_owned_args'[t] = IF spc'[t] = "start" THEN 0 ELSE t
      BY <1>4, <1>7, <1>10 DEF ServerInv, ServerTypes
    <2> QED BY <1>7, <1>9, <1>10, <2>1, <2>2, <2>3 DEF ServerInv, ServerTypes
  <1>13. Idle'
    BY <1>11 DEF Starting, Idle, Works
  <1> QED BY <1>1, <1>11, <1>12, <1>13 DEF ServerInv

LEMMA EventLoopStep == ASSUME ServerInv, ServerReturn \/ ServerReceive PROVE ServerInv'
  <1>1. ROOT \notin Handlers /\ ROOT \in ServerThreads /\ Handlers \subseteq ServerThreads
    BY SizesAssumption DEF Handlers, ROOT, ServerThreads
  <1>2. /\ Dispatching
        /\ UNCHANGED <<running, state, next_blocked, private_arg, free_handle_queue,
                       scheduling_queue, sem, fault, my_owned_args>>
        /\ spc' = [spc EXCEPT ![ROOT] = "dispatch"] \/ (spc' = spc /\ ~event_loop')
    BY <1>1 DEF ServerInv, ServerReturn, ServerReceive, Lib!HandlerReturns, Lib!Notified, Lib!tcbs,
      Spawning, Starting, Serving, Goto, Lib!InClient
  <1>3. /\ \A t \in Handlers : spc'[t] = spc[t]
        /\ spc'[ROOT] = "dispatch" \/ (spc'[ROOT] = spc[ROOT] /\ ~event_loop')
        /\ DOMAIN spc' = ServerThreads
    BY <1>1, <1>2 DEF ServerInv, ServerTypes
  <1>4. Dispatching'
    BY <1>2, <1>3 DEF Dispatching, Waits
  <1>5. ServerTypes'
    BY <1>2, <1>3 DEF ServerInv, ServerTypes, OwnSemaphore
  <1> QED BY <1>4, <1>5 DEF ServerInv

(* A notification wakes the handler of its channel and nobody else.        *)
LEMMA NotifiedStep ==
  ASSUME ServerInv, badge \subseteq Clients, notified
  PROVE  /\ ServerInv' /\ spc' = spc
         /\ Dispatching /\ running' = Min(badge) /\ Min(badge) \in badge
  <1>0. PICK c : c = Min(badge)
    OBVIOUS
  <1>1. /\ running = ROOT /\ spc[ROOT] = "dispatch" /\ badge # {} /\ spc' = spc
        /\ my_owned_args' = my_owned_args /\ Lib!microkit_cothread_recv_ntfn(c)
    BY <1>0 DEF notified, At
  <1>2. c \in badge /\ c \in Clients
    BY <1>0, <1>1, MinOfBadge
  <1>3. ROOT \notin Handlers /\ ROOT \in ServerThreads /\ Handlers \subseteq ServerThreads
        /\ Clients = Handlers /\ c \in Handlers /\ Lib!ROOT = ROOT /\ NClients \in Nat \ {0}
        /\ c # Lib!NULL
    BY <1>2, SizesAssumption DEF Handlers, ROOT, Lib!ROOT, ServerThreads, Clients, Lib!NULL
  <1>4. Dispatching
    BY <1>1, <1>3 DEF ServerInv, Spawning, Starting, Serving
  <1>5. ~sem[c].set /\ sem[c].head = c /\ next_blocked[c] = Lib!NULL
    BY <1>3, <1>4 DEF ServerInv, ServerTypes, OwnSemaphore, Dispatching, Waits
  <1>6. Lib!Unblock(c) /\ ~event_loop
    BY <1>1, <1>2, <1>3, <1>4, <1>5 DEF Lib!microkit_cothread_recv_ntfn, Lib!semaphore_signal, Lib!InClient,
      Lib!microkit_cothread_semaphore_is_set, Lib!microkit_cothread_semaphore_is_queue_empty,
      Lib!Full, Dispatching
  <1>7. /\ sem' = [sem EXCEPT ![c] = Lib!EmptySem]
        /\ next_blocked' = [next_blocked EXCEPT ![c] = Lib!NULL]
        /\ scheduling_queue' = Append(scheduling_queue, ROOT)
        /\ state' = [state EXCEPT ![ROOT] = "ready", ![c] = "running"]
        /\ running' = c
        /\ UNCHANGED <<private_arg, free_handle_queue, event_loop, fault>>
    BY <1>1, <1>5, <1>6 DEF Lib!Unblock, Lib!MoveList, Lib!Resume, Lib!semaphore_init
  <1>8. /\ DOMAIN state' = ServerThreads /\ DOMAIN sem' = Clients /\ DOMAIN next_blocked' = ServerThreads
        /\ scheduling_queue' = <<ROOT>>
        /\ state'[ROOT] = "ready" /\ state'[c] = "running"
        /\ sem'[c] = Lib!EmptySem /\ next_blocked'[c] = Lib!NULL
        /\ \A t \in Handlers \ {c} : /\ state'[t] = state[t] /\ sem'[t] = sem[t]
                                     /\ next_blocked'[t] = next_blocked[t]
    BY <1>3, <1>4, <1>7 DEF Dispatching, ServerInv, ServerTypes
  <1>9. Serving(c)'
    BY <1>1, <1>3, <1>4, <1>6, <1>7, <1>8 DEF Serving, Dispatching, Waits
  <1>10. ServerTypes'
    <2>1. <<ROOT>> \in Seq(ServerThreads)
      BY <1>3
    <2>2. \A d \in Clients : OwnSemaphore(d)'
      <3>1. OwnSemaphore(c)'
        BY <1>8 DEF OwnSemaphore, Lib!EmptySem
      <3>2. \A d \in Clients \ {c} : OwnSemaphore(d)'
        BY <1>3, <1>8 DEF OwnSemaphore, ServerInv, ServerTypes
      <3> QED BY <3>1, <3>2
    <2>3. \A t \in Handlers : state'[t] # "not_active" => next_blocked'[t] = Lib!NULL /\ private_arg'[t] = t
      BY <1>3, <1>4, <1>7, <1>8 DEF ServerInv, ServerTypes, Dispatching, Waits
    <2> QED BY <1>1, <1>7, <1>8, <2>1, <2>2, <2>3 DEF ServerInv, ServerTypes
  <1> QED BY <1>0, <1>1, <1>2, <1>3, <1>4, <1>7, <1>9, <1>10 DEF ServerInv

(* Handler t goes on to label, without a call into the library.            *)
LEMMA AwakeStep ==
  ASSUME ServerInv, NEW t \in Handlers, running = t, NEW label, Goto(t, label),
         spc[t] \in {"fetch", "execute", "notify"}, label \in {"execute", "notify", "wait"},
         UNCHANGED <<library, my_owned_args>>
  PROVE  ServerInv' /\ Serving(t)
  <1>1. ROOT \notin Handlers /\ ROOT \in ServerThreads /\ Handlers \subseteq ServerThreads
    BY SizesAssumption DEF Handlers, ROOT, ServerThreads
  <1>2. Serving(t)
    BY <1>1 DEF ServerInv, Spawning, Starting, Dispatching, Serving
  <1>3. /\ DOMAIN spc' = ServerThreads /\ spc'[t] = label /\ spc'[ROOT] = spc[ROOT]
        /\ \A u \in Handlers \ {t} : spc'[u] = spc[u]
    BY <1>1 DEF ServerInv, ServerTypes, Goto
  <1>4. Serving(t)'
    BY <1>2, <1>3 DEF Serving, Waits, library
  <1>5. ServerTypes'
    BY <1>2, <1>3 DEF ServerInv, ServerTypes, OwnSemaphore, library
  <1> QED BY <1>2, <1>4, <1>5 DEF ServerInv

LEMMA StartStep == ASSUME ServerInv, NEW t \in Handlers, HandlerStart(t) PROVE ServerInv' /\ Idle /\ Idle'
  <1>1. ROOT \notin Handlers /\ ROOT \in ServerThreads /\ Handlers \subseteq ServerThreads
        /\ NClients \in Nat \ {0} /\ Lib!ROOT = ROOT
    BY SizesAssumption DEF Handlers, ROOT, ServerThreads, Lib!ROOT
  <1>2. running = t /\ spc[t] = "start" /\ spc' = [spc EXCEPT ![t] = "wait"]
    BY DEF HandlerStart, At, Goto
  <1>3. Starting(t)
    BY <1>1, <1>2 DEF ServerInv, Spawning, Starting, Dispatching, Serving
  <1>4. /\ UNCHANGED <<running, state, next_blocked, private_arg, free_handle_queue,
                       scheduling_queue, sem, event_loop, fault>>
        /\ my_owned_args' = [my_owned_args EXCEPT ![t] = t]
    BY <1>1, <1>2, <1>3 DEF HandlerStart, Lib!microkit_cothread_my_arg, Lib!vars, Lib!tcbs, InitFrame,
      Starting, ServerInv, ServerTypes
  <1>5. /\ DOMAIN spc' = ServerThreads /\ spc'[t] = "wait" /\ spc'[ROOT] = spc[ROOT]
        /\ \A u \in Handlers \ {t} : spc'[u] = spc[u] /\ my_owned_args'[u] = my_owned_args[u]
        /\ DOMAIN my_owned_args' = Handlers /\ my_owned_args'[t] = t
    BY <1>1, <1>2, <1>4 DEF ServerInv, ServerTypes
  <1>6. Starting(t)'
    <2>1. \A u \in Handlers : u < t \/ u > t => u # t
      BY DEF Handlers
    <2> QED BY <1>3, <1>4, <1>5, <2>1 DEF Starting, Waits
  <1>7. ServerTypes'
    BY <1>4, <1>5 DEF ServerInv, ServerTypes, OwnSemaphore
  <1>8. Idle /\ Idle'
    BY <1>3, <1>6 DEF Starting, Idle, Works
  <1> QED BY <1>6, <1>7, <1>8 DEF ServerInv

(* A handler waits only on its own channel, so it blocks there, alone; the *)
(* thread queued first goes on.                                            *)
LEMMA WaitStep == ASSUME ServerInv, NEW t \in Handlers, HandlerWait(t) PROVE ServerInv' /\ Idle'
  <1>1. ROOT \notin Handlers /\ ROOT \in ServerThreads /\ Handlers \subseteq ServerThreads
        /\ NClients \in Nat \ {0} /\ Lib!ROOT = ROOT /\ Clients = Handlers
        /\ t \in Nat /\ t >= 1 /\ t <= NClients
    BY SizesAssumption DEF Handlers, ROOT, ServerThreads, Lib!ROOT, Clients
  <1>2. running = t /\ spc[t] = "wait" /\ spc' = [spc EXCEPT ![t] = "fetch"]
        /\ my_owned_args' = my_owned_args /\ my_owned_args[t] = t
    BY DEF HandlerWait, At, Goto, ServerInv, ServerTypes
  <1>3. Starting(t) \/ Serving(t)
    BY <1>1, <1>2 DEF ServerInv, Spawning, Starting, Dispatching, Serving
  <1>4. ~sem[t].set /\ sem[t].head = Lib!NULL /\ DOMAIN sem[t] = {"set", "head", "tail"}
        /\ state[t] = "running"
    BY <1>1, <1>3 DEF ServerInv, ServerTypes, OwnSemaphore, Starting, Serving
  <1> DEFINE q == scheduling_queue
             st == [state EXCEPT ![t] = "blocked"]
  <1>5. /\ sem' = [sem EXCEPT ![t].head = t, ![t].tail = t]
        /\ Lib!internal_go_next(q, st, "wait")
        /\ UNCHANGED <<next_blocked, private_arg, free_handle_queue, event_loop, fault>>
    <2>1. ~sem[t].set /\ sem[t].head = Lib!NULL
      BY <1>4
    <2>2. Lib!semaphore_wait(t) /\ UNCHANGED <<free_handle_queue, event_loop, fault>>
      BY <1>1, <1>2 DEF HandlerWait, Lib!microkit_cothread_wait_on_channel
    <2> QED BY <1>2, <2>1, <2>2 DEF Lib!semaphore_wait
  <1>6. q \in Seq(ServerThreads) /\ Len(q) >= 1
        /\ q[1] = IF Starting(t) /\ t < NClients THEN t + 1 ELSE ROOT
    <2>1. CASE Starting(t)
      BY <1>1, <2>1 DEF Starting, ServerInv, ServerTypes
    <2>2. CASE ~Starting(t)
      BY <1>1, <1>3, <2>2 DEF Serving, ServerInv, ServerTypes
    <2> QED BY <2>1, <2>2
  <1>7. /\ DOMAIN st = ServerThreads /\ st[t] = "blocked"
        /\ \A u \in ServerThreads \ {t} : st[u] = state[u]
    BY <1>1 DEF ServerInv, ServerTypes
  <1>8. q[1] # ROOT => st[q[1]] = "ready"
    <2> SUFFICES ASSUME q[1] # ROOT PROVE st[q[1]] = "ready"
      OBVIOUS
    <2>1. Starting(t) /\ t < NClients /\ q[1] = t + 1
      <3> HIDE DEF q
      <3> QED BY <1>6
    <2>2. t + 1 \in Handlers /\ t + 1 > t /\ t + 1 # t
      BY <1>1, <2>1 DEF Handlers
    <2> QED BY <1>1, <1>7, <2>1, <2>2 DEF Starting
  <1> HIDE DEF q, st
  <1>9. /\ scheduling_queue' = SubSeq(q, 2, Len(q))
        /\ state' = [st EXCEPT ![q[1]] = "running"] /\ running' = q[1]
    <2>1. q[1] = ROOT \/ st[q[1]] = "ready"
      BY <1>8
    <2>2. Lib!internal_go_next(q, st, "wait")
      BY <1>5
    <2>3. q \in Seq(ServerThreads) /\ Len(q) >= 1
      BY <1>6
    <2> QED BY ONLY <2>1, <2>2, <2>3, GoNextFirst
  <1>10. /\ DOMAIN spc' = ServerThreads /\ spc'[t] = "fetch"
         /\ \A u \in ServerThreads \ {t} : spc'[u] = spc[u]
    BY <1>1, <1>2 DEF ServerInv, ServerTypes
  <1>11. /\ DOMAIN sem' = Clients
         /\ DOMAIN sem'[t] = {"set", "head", "tail"} /\ ~sem'[t].set /\ sem'[t].head = t
         /\ \A u \in Handlers \ {t} : sem'[u] = sem[u]
    <2>1. DOMAIN sem = Clients /\ t \in DOMAIN sem
      BY <1>1 DEF ServerInv, ServerTypes
    <2>2. /\ DOMAIN sem' = Clients
          /\ sem'[t] = [sem[t] EXCEPT !.head = t, !.tail = t]
          /\ \A u \in Handlers \ {t} : sem'[u] = sem[u]
      BY <1>1, <1>5, <2>1
    <2> QED BY <1>4, <2>2
  <1>12. q[1] # t /\ q[1] \in ServerThreads
    BY <1>1, <1>6 DEF Handlers, ServerThreads
  <1>13. /\ DOMAIN state' = ServerThreads /\ state'[t] = "blocked" /\ state'[q[1]] = "running"
         /\ \A u \in ServerThreads \ {t, q[1]} : state'[u] = state[u]
    BY <1>1, <1>7, <1>9, <1>12
  <1>14. ServerTypes'
    <2>1. \A u \in Handlers : state'[u] # "blocked" <=> (state[u] # "blocked" /\ u # t)
      <3>1. q[1] \in Handlers => state[q[1]] = "ready"
        BY <1>1, <1>7, <1>8, <1>12
      <3> QED BY <1>1, <1>13, <3>1
    <2>2. \A c \in Clients : OwnSemaphore(c)'
      <3>1. \A c \in Clients \ {t} : OwnSemaphore(c)'
        BY <1>1, <1>11, <2>1 DEF OwnSemaphore, ServerInv, ServerTypes
      <3>2. OwnSemaphore(t)'
        BY <1>11, <1>13 DEF OwnSemaphore
      <3> QED BY <3>1, <3>2
    <2>3. \A u \in Handlers : state'[u] # "not_active" => state[u] # "not_active"
      BY <1>1, <1>4, <1>7, <1>8, <1>12, <1>13
    <2>4. \A u \in Handlers : my_owned_args'[u] = IF spc'[u] = "start" THEN 0 ELSE u
      BY <1>1, <1>2, <1>10 DEF ServerInv, ServerTypes
    <2>5. scheduling_queue' \in Seq(ServerThreads)
      BY <1>6, <1>9
    <2> QED BY <1>2, <1>5, <1>10, <1>11, <1>13, <2>2, <2>3, <2>4, <2>5 DEF ServerInv, ServerTypes
  <1>15. CASE Starting(t) /\ t < NClients
    <2>1. q[1] = t + 1 /\ t + 1 \in Handlers
      BY <1>1, <1>6, <1>15 DEF Handlers
    <2>2. /\ Len(scheduling_queue') = NClients - (t + 1) + 1
          /\ \A i \in 1 .. NClients - (t + 1) : scheduling_queue'[i] = (t + 1) + i
          /\ scheduling_queue'[NClients - (t + 1) + 1] = ROOT
      BY <1>1, <1>6, <1>9, <1>15 DEF Starting, q
    <2>3. \A u \in Handlers : /\ u < t + 1 => u < t \/ u = t
                              /\ u > t + 1 => u > t /\ u \notin {t, t + 1}
                              /\ u < t => u \notin {t, t + 1}
      BY <1>1 DEF Handlers
    <2>4. /\ \A u \in Handlers : u < t + 1 => Waits(u)'
          /\ \A u \in Handlers : u > t + 1 => state'[u] = "ready" /\ spc'[u] = "start"
          /\ spc'[t + 1] = "start" /\ state'[ROOT] = "ready" /\ spc'[ROOT] = "returning"
      <3>1. \A u \in Handlers : u < t + 1 => Waits(u)'
        BY <1>1, <1>10, <1>13, <1>15, <2>1, <2>3 DEF Starting, Waits
      <3>2. \A u \in Handlers : u > t + 1 => state'[u] = "ready" /\ spc'[u] = "start"
        BY <1>1, <1>10, <1>13, <1>15, <2>1, <2>3 DEF Starting
      <3>3. spc'[t + 1] = "start" /\ state'[ROOT] = "ready" /\ spc'[ROOT] = "returning"
        BY <1>1, <1>10, <1>13, <1>15, <2>1 DEF Starting
      <3> QED BY <3>1, <3>2, <3>3
    <2>5. Starting(t + 1)'
      BY <1>5, <1>9, <1>13, <1>15, <2>1, <2>2, <2>4 DEF Starting
    <2>6. Idle'
      BY <2>5 DEF Starting, Idle, Works
    <2> QED BY <1>14, <2>1, <2>5, <2>6 DEF ServerInv
  <1>16. CASE ~(Starting(t) /\ t < NClients)
    <2>1. q[1] = ROOT /\ scheduling_queue' = <<>>
      BY <1>1, <1>3, <1>6, <1>9, <1>16 DEF Starting, Serving, q
    <2>2. \A u \in Handlers \ {t} : Waits(u)
      BY <1>1, <1>3, <1>16 DEF Starting, Serving, Handlers
    <2>3. \A u \in Handlers : Waits(u)'
      BY <1>1, <1>10, <1>13, <2>1, <2>2 DEF Waits
    <2>4. spc'[ROOT] \in {"returning", "dispatch"} /\ ~event_loop'
      BY <1>1, <1>3, <1>5, <1>10 DEF Starting, Serving
    <2>5. Dispatching'
      BY <1>9, <1>13, <2>1, <2>3, <2>4 DEF Dispatching
    <2>6. Idle'
      BY <1>1, <2>5 DEF Dispatching, Idle, Works
    <2> QED BY <1>14, <2>5, <2>6 DEF ServerInv
  <1> QED BY <1>15, <1>16

-----------------------------------------------------------------------------
(* The protocol between the clients and the handlers.  A step leaves what  *)
(* it says of client c alone if it is Unmoved.                             *)
Unmoved(c) ==
  /\ cpc'[c] = cpc[c] /\ async_io_sem'[c] = async_io_sem[c] /\ answered'[c] = answered[c]
  /\ program'[c] = program[c] /\ step'[c] = step[c] /\ ipc'[c] = ipc[c] /\ fetched'[c] = fetched[c]
  /\ c \in to_server' <=> c \in to_server
  /\ c \in badge' <=> c \in badge
  /\ c \in to_client' <=> c \in to_client
  /\ Works(c)' <=> Works(c)
  /\ Works(c) => spc'[c] = spc[c]

LEMMA UnmovedStep == ASSUME NEW c, ProtocolOf(c), BufferOf(c), Unmoved(c)
                     PROVE  ProtocolOf(c)' /\ BufferOf(c)'
  <1>1. ProtocolOf(c)'
    BY DEF ProtocolOf, Unmoved, OnePlace, Posted
  <1>2. BufferOf(c)'
    BY DEF BufferOf, Unmoved, HoldsRequest, RequestOf
  <1> QED BY <1>1, <1>2

LEMMA ProtocolInit == Init => ProtocolInv
  <1> SUFFICES ASSUME Init PROVE ProtocolInv
    OBVIOUS
  <1>1. /\ to_server = {} /\ badge = {} /\ to_client = {} /\ program \in Programs
        /\ cpc = [c \in Clients |-> "init"] /\ async_io_sem = [c \in Clients |-> "empty"]
        /\ answered = [c \in Clients |-> FALSE] /\ step = [c \in Clients |-> 0]
        /\ fetched = [t \in Handlers |-> <<"none">>] /\ running = 0
    BY DEF Init, Lib!Init, Lib!ROOT
  <1>2. ASSUME NEW c \in Clients PROVE ProtocolOf(c) /\ BufferOf(c)
    <2>1. ~Works(c) /\ ~Posted(c) /\ c \notin to_client
      BY <1>1, SizesAssumption DEF Works, Posted, Clients
    <2>2. Len(program[c]) \in Nat
      BY <1>1, ProgramsAssumption
    <2> QED BY <1>1, <2>1, <2>2 DEF ProtocolOf, BufferOf, OnePlace, Posted
  <1> QED BY <1>1, <1>2 DEF ProtocolInv

ClientSide == <<cpc, async_io_sem, answered, program, step, ipc>>

LEMMA IdleStep == ASSUME ProtocolInv, Idle, Idle', UNCHANGED <<ClientSide, fetched, badge, to_server, to_client>>
                  PROVE  ProtocolInv'
  <1>1. \A c \in Clients : Unmoved(c)
    BY DEF Unmoved, Idle, ClientSide
  <1> QED BY <1>1, UnmovedStep DEF ProtocolInv, ClientSide

LEMMA ReceiveProtocol == ASSUME ServerInv, ProtocolInv, ServerReceive PROVE ProtocolInv'
  <1>1. running = ROOT /\ running' = ROOT /\ ROOT \notin Clients
    <2>1. event_loop /\ running' = running
      BY DEF ServerReceive, Lib!Notified
    <2> QED BY <2>1, SizesAssumption DEF ServerInv, Spawning, Starting, Dispatching, Serving, Clients, ROOT
  <1>2. /\ badge' = to_server /\ to_server' = {} /\ to_client' = to_client
        /\ UNCHANGED <<ClientSide, fetched>>
    BY DEF ServerReceive, clients, ClientSide
  <1>3. ASSUME NEW c \in Clients PROVE ProtocolOf(c)' /\ BufferOf(c)'
    <2>1. ~Works(c) /\ ~Works(c)'
      BY <1>1, <1>3 DEF Works
    <2>2. ProtocolOf(c)'
      BY <1>2, <2>1 DEF ProtocolInv, ProtocolOf, OnePlace, Posted, ClientSide
    <2>3. BufferOf(c)'
      BY <1>2, <2>1 DEF ProtocolInv, BufferOf, HoldsRequest, RequestOf, ClientSide
    <2> QED BY <2>2, <2>3
  <1> QED BY <1>2, <1>3 DEF ProtocolInv, ClientSide

LEMMA NotifiedProtocol == ASSUME ServerInv, ProtocolInv, notified PROVE ProtocolInv'
  <1>1. badge \subseteq Clients
    BY DEF ProtocolInv
  <1>2. PICK m : m = Min(badge)
    OBVIOUS
  <1>3. spc' = spc /\ Dispatching /\ running' = m /\ m \in badge /\ m \in Clients
    BY <1>1, <1>2, NotifiedStep
  <1>4. badge' = badge \ {m} /\ UNCHANGED <<ClientSide, fetched, to_server, to_client>>
    BY <1>2 DEF notified, OthersThanServer, clients, ClientSide
  <1>5. Idle
    BY <1>3, IdlePhases
  <1>6. ASSUME NEW c \in Clients \ {m} PROVE ProtocolOf(c)' /\ BufferOf(c)'
    <2>1. Unmoved(c)
      BY <1>3, <1>4, <1>5, <1>6 DEF Unmoved, Idle, Works, ClientSide
    <2> QED BY <1>6, <2>1, UnmovedStep DEF ProtocolInv
  <1>7. ProtocolOf(m)' /\ BufferOf(m)'
    <2>1. Works(m)' /\ spc'[m] = "fetch"
      BY <1>3 DEF Works, Dispatching, Waits, Clients, Handlers
    <2>2. ProtocolOf(m) /\ BufferOf(m) /\ Posted(m) /\ ~Works(m)
      BY <1>3, <1>5 DEF ProtocolInv, Posted, Idle
    <2>3. ProtocolOf(m)'
      BY <1>3, <1>4, <2>1, <2>2 DEF ProtocolOf, OnePlace, Posted, ClientSide
    <2>4. BufferOf(m)'
      BY <1>4, <2>1, <2>2 DEF BufferOf, HoldsRequest, RequestOf, ClientSide
    <2> QED BY <2>3, <2>4
  <1> QED BY <1>4, <1>6, <1>7 DEF ProtocolInv, ClientSide

(* What a step of handler t on a request does to the other clients.        *)
LEMMA OthersUnmoved ==
  ASSUME NEW t \in Handlers, running = t, running' = t, NEW c \in Clients \ {t},
         UNCHANGED <<cpc, async_io_sem, program, step, badge, to_server>>,
         ipc'[c] = ipc[c], answered'[c] = answered[c], fetched'[c] = fetched[c],
         c \in to_client' <=> c \in to_client
  PROVE  Unmoved(c)
  BY DEF Unmoved, Works

LEMMA FetchProtocol == ASSUME ServerInv, ProtocolInv, NEW t \in Handlers, HandlerFetch(t) PROVE ProtocolInv'
  <1>1. /\ running = t /\ spc[t] = "fetch" /\ running' = t /\ spc' = [spc EXCEPT ![t] = "execute"]
        /\ my_owned_args[t] = t /\ DOMAIN fetched = Handlers /\ DOMAIN spc = ServerThreads
        /\ fetched' = [fetched EXCEPT ![t] = ipc[t].head] /\ t \in Clients /\ t \in ServerThreads
        /\ UNCHANGED <<ClientSide, badge, to_server, to_client>>
    BY DEF HandlerFetch, At, Goto, ServerInv, ServerTypes, ProtocolInv, OthersThanServer, clients,
      ClientSide, library, ServerThreads, Clients, Handlers
  <1>2. ASSUME NEW c \in Clients \ {t} PROVE ProtocolOf(c)' /\ BufferOf(c)'
    <2>1. Unmoved(c)
      BY <1>1, <1>2, OthersUnmoved DEF ClientSide
    <2> QED BY <1>2, <2>1, UnmovedStep DEF ProtocolInv
  <1>3. ProtocolOf(t)' /\ BufferOf(t)'
    <2>1. Works(t) /\ Works(t)' /\ spc'[t] = "execute" /\ fetched'[t] = ipc[t].head
      BY <1>1 DEF Works
    <2>2. ProtocolOf(t)'
      BY <1>1, <2>1 DEF ProtocolInv, ProtocolOf, OnePlace, Posted, ClientSide
    <2>3. BufferOf(t)'
      BY <1>1, <2>1 DEF ProtocolInv, BufferOf, HoldsRequest, RequestOf, ClientSide
    <2> QED BY <2>2, <2>3
  <1>4. DOMAIN fetched' = Handlers
    BY <1>1
  <1> QED BY <1>1, <1>2, <1>3, <1>4 DEF ProtocolInv, ClientSide

LEMMA ExecuteProtocol == ASSUME RequestInv, NEW t \in Handlers, HandlerExecute(t) PROVE ProtocolInv'
  <1>1. /\ running = t /\ spc[t] = "execute" /\ running' = t /\ spc' = [spc EXCEPT ![t] = "notify"]
        /\ my_owned_args[t] = t /\ DOMAIN spc = ServerThreads /\ t \in Clients /\ t \in ServerThreads
        /\ answered' = [answered EXCEPT ![t] = TRUE] /\ answered \in [Clients -> BOOLEAN]
        /\ UNCHANGED <<cpc, async_io_sem, program, step, badge, to_server, to_client, fetched>>
    BY DEF HandlerExecute, At, Goto, RequestInv, ServerInv, ServerTypes, ProtocolInv, clients,
      library, ServerThreads, Clients, Handlers
  <1>2. \A c \in Clients \ {t} : ipc'[c] = ipc[c]
    BY <1>1 DEF HandlerExecute, Read, Append_, RequestInv, CodisInv, PostedInv
  <1>3. /\ \A c \in Clients \ {t} : answered'[c] = answered[c]
        /\ answered'[t] = TRUE /\ answered' \in [Clients -> BOOLEAN]
    BY <1>1
  <1>4. ASSUME NEW c \in Clients \ {t} PROVE ProtocolOf(c)' /\ BufferOf(c)'
    <2>1. Unmoved(c)
      BY <1>1, <1>2, <1>3, <1>4, OthersUnmoved
    <2> QED BY <1>4, <2>1, UnmovedStep DEF RequestInv, ProtocolInv
  <1>5. ProtocolOf(t)' /\ BufferOf(t)'
    <2>1. Works(t) /\ Works(t)' /\ spc'[t] = "notify" /\ ProtocolOf(t) /\ BufferOf(t)
      BY <1>1 DEF Works, RequestInv, ProtocolInv
    <2>2. ProtocolOf(t)'
      BY <1>1, <1>3, <2>1 DEF ProtocolOf, OnePlace, Posted
    <2>3. BufferOf(t)'
      BY <1>1, <1>3, <2>1 DEF BufferOf
    <2> QED BY <2>2, <2>3
  <1> QED BY <1>1, <1>3, <1>4, <1>5 DEF RequestInv, ProtocolInv

LEMMA AnswerProtocol == ASSUME ServerInv, ProtocolInv, NEW t \in Handlers, HandlerNotify(t) PROVE ProtocolInv'
  <1>1. /\ running = t /\ spc[t] = "notify" /\ running' = t /\ spc' = [spc EXCEPT ![t] = "wait"]
        /\ my_owned_args[t] = t /\ DOMAIN spc = ServerThreads /\ t \in Clients /\ t \in ServerThreads
        /\ to_client' = to_client \cup {t}
        /\ UNCHANGED <<ClientSide, fetched, badge, to_server>>
    BY DEF HandlerNotify, At, Goto, ServerInv, ServerTypes, clients, ClientSide, library,
      ServerThreads, Clients, Handlers
  <1>2. ASSUME NEW c \in Clients \ {t} PROVE ProtocolOf(c)' /\ BufferOf(c)'
    <2>1. Unmoved(c)
      BY <1>1, <1>2, OthersUnmoved DEF ClientSide
    <2> QED BY <1>2, <2>1, UnmovedStep DEF ProtocolInv
  <1>3. ProtocolOf(t)' /\ BufferOf(t)'
    <2>1. Works(t) /\ ~Works(t)' /\ ProtocolOf(t) /\ BufferOf(t)
      BY <1>1 DEF Works, ProtocolInv
    <2>2. ProtocolOf(t)'
      BY <1>1, <2>1 DEF ProtocolOf, OnePlace, Posted, ClientSide
    <2>3. BufferOf(t)'
      BY <1>1, <2>1 DEF BufferOf, HoldsRequest, RequestOf, ClientSide
    <2> QED BY <2>2, <2>3
  <1> QED BY <1>1, <1>2, <1>3 DEF ProtocolInv, ClientSide

(* What a step of client c leaves alone.                                   *)
LEMMA ClientOthers ==
  ASSUME ProtocolInv, NEW c \in Clients, Client(c), NEW d \in Clients \ {c},
         ipc'[d] = ipc[d], step'[d] = step[d]
  PROVE  Unmoved(d)
  <1>1. /\ UNCHANGED <<running, spc, fetched, badge, program>>
        /\ cpc'[d] = cpc[d] /\ async_io_sem'[d] = async_io_sem[d] /\ answered'[d] = answered[d]
        /\ d \in to_server' <=> d \in to_server
        /\ d \in to_client' <=> d \in to_client
    BY DEF Client, ClientInit, ClientWrite, ClientNotify, ClientWait, ClientNotified, ClientRead,
      CGoto, library, server, ProtocolInv
  <1> QED BY <1>1 DEF Unmoved, Works

LEMMA ClientProtocol == ASSUME RequestInv, NEW c \in Clients, Client(c) PROVE ProtocolInv'
  <1>1. UNCHANGED <<running, spc, fetched, badge, program>> /\ (Works(c)' <=> Works(c))
    BY DEF Client, ClientInit, ClientWrite, ClientNotify, ClientWait, ClientNotified, ClientRead,
      library, server, Works
  <1>2. /\ DOMAIN cpc = Clients /\ DOMAIN async_io_sem = Clients /\ answered \in [Clients -> BOOLEAN]
        /\ to_server \subseteq Clients /\ to_client \subseteq Clients
        /\ ProtocolOf(c) /\ BufferOf(c)
        /\ step \in [Clients -> Nat] /\ DOMAIN ipc = Clients /\ program \in Programs
    BY DEF RequestInv, ProtocolInv, CodisInv, PostedInv
  <1>3. Len(program[c]) \in Nat
    BY <1>2, ProgramsAssumption
  <1>4. /\ DOMAIN cpc' = Clients /\ DOMAIN async_io_sem' = Clients
        /\ answered' \in [Clients -> BOOLEAN]
        /\ to_server' \subseteq Clients /\ to_client' \subseteq Clients
        /\ \A d \in Clients \ {c} : ipc'[d] = ipc[d] /\ step'[d] = step[d]
    BY <1>2 DEF Client, ClientInit, ClientWrite, ClientNotify, ClientWait, ClientNotified, ClientRead, CGoto
  <1>5. ASSUME NEW d \in Clients \ {c} PROVE ProtocolOf(d)' /\ BufferOf(d)'
    <2>1. ProtocolInv
      BY DEF RequestInv
    <2>2. Unmoved(d)
      BY <1>4, <1>5, <2>1, ClientOthers
    <2> QED BY <1>5, <2>1, <2>2, UnmovedStep DEF ProtocolInv
  <1>6. ProtocolOf(c)' /\ BufferOf(c)'
    <2>1. CASE ClientInit(c)
      <3>1. /\ cpc[c] = "init" /\ cpc'[c] = "write" /\ async_io_sem'[c] = "empty"
            /\ UNCHANGED <<step, ipc, to_server, to_client, answered>>
        BY <1>2, <2>1 DEF ClientInit, CGoto
      <3>2. ProtocolOf(c)'
        BY <1>1, <1>2, <3>1 DEF ProtocolOf, OnePlace, Posted
      <3>3. BufferOf(c)'
        BY <1>1, <1>2, <3>1 DEF BufferOf, ProtocolOf
      <3> QED BY <3>2, <3>3
    <2>2. CASE ClientWrite(c)
      <3> DEFINE r == program[c][step[c] + 1]
      <3>1. /\ cpc[c] = "write" /\ step[c] < Len(program[c]) /\ cpc'[c] = "notify"
            /\ step'[c] = step[c] + 1 /\ ~answered'[c]
            /\ ipc'[c] = [head |-> <<"request", r.cmd, r.bucket>>,
                          data |-> IF r.cmd = "append" THEN r.data ELSE ipc[c].data]
            /\ UNCHANGED <<async_io_sem, to_server, to_client>>
        BY <1>2, <2>2 DEF ClientWrite, CGoto
      <3>2. ProtocolOf(c)'
        BY <1>1, <1>2, <3>1 DEF ProtocolOf, OnePlace, Posted
      <3>3. ~Works(c)' /\ step'[c] \in 1 .. Len(program'[c]) /\ program'[c][step'[c]] = r
        BY <1>1, <1>2, <1>3, <3>1 DEF ProtocolOf
      <3> HIDE DEF r
      <3>4. ipc'[c].head = <<"request", r.cmd, r.bucket>> /\ (r.cmd = "append" => ipc'[c].data = r.data)
        BY <3>1
      <3>5. BufferOf(c)'
        BY <1>1, <1>2, <1>3, <3>1, <3>3, <3>4 DEF BufferOf, HoldsRequest, RequestOf
      <3> QED BY <3>2, <3>5
    <2>3. CASE ClientNotify(c)
      <3>1. /\ cpc[c] = "notify" /\ cpc'[c] = "wait" /\ to_server' = to_server \cup {c}
            /\ UNCHANGED <<async_io_sem, step, ipc, to_client, answered>>
        BY <1>2, <2>3 DEF ClientNotify, CGoto
      <3>2. ProtocolOf(c)'
        BY <1>1, <1>2, <3>1 DEF ProtocolOf, OnePlace, Posted
      <3>3. BufferOf(c)'
        BY <1>1, <1>2, <3>1 DEF BufferOf, HoldsRequest, RequestOf, ProtocolOf
      <3> QED BY <3>2, <3>3
    <2>4. CASE ClientWait(c)
      <3>1. /\ cpc[c] = "wait" /\ cpc'[c] = "blocked" /\ async_io_sem'[c] = "waiting"
            /\ UNCHANGED <<step, ipc, to_server, to_client, answered>>
        BY <1>2, <2>4 DEF ClientWait, CGoto, ProtocolOf
      <3>2. ProtocolOf(c)'
        BY <1>1, <1>2, <3>1 DEF ProtocolOf, OnePlace, Posted
      <3>3. BufferOf(c)'
        BY <1>1, <1>2, <3>1 DEF BufferOf, HoldsRequest, RequestOf
      <3> QED BY <3>2, <3>3
    <2>5. CASE ClientNotified(c)
      <3>1. /\ cpc[c] = "blocked" /\ cpc'[c] = "read" /\ async_io_sem'[c] = "empty"
            /\ to_client' = to_client \ {c} /\ c \in to_client
            /\ UNCHANGED <<step, ipc, to_server, answered>>
        BY <1>2, <2>5 DEF ClientNotified, CGoto, ProtocolOf
      <3>2. ProtocolOf(c)'
        BY <1>1, <1>2, <3>1 DEF ProtocolOf, OnePlace, Posted
      <3>3. BufferOf(c)'
        BY <1>1, <1>2, <3>1 DEF BufferOf, ProtocolOf, OnePlace
      <3> QED BY <3>2, <3>3
    <2>6. CASE ClientRead(c)
      <3>1. /\ cpc[c] = "read" /\ cpc'[c] \in {"write", "done"}
            /\ UNCHANGED <<async_io_sem, step, ipc, to_server, to_client, answered>>
        BY <1>2, <2>6 DEF ClientRead, CGoto
      <3>2. ProtocolOf(c)'
        BY <1>1, <1>2, <3>1 DEF ProtocolOf, OnePlace, Posted
      <3>3. BufferOf(c)'
        BY <1>1, <1>2, <3>1 DEF BufferOf, ProtocolOf
      <3> QED BY <3>2, <3>3
    <2> QED BY <2>1, <2>2, <2>3, <2>4, <2>5, <2>6 DEF Client
  <1>7. fetched' = fetched /\ DOMAIN fetched = Handlers /\ badge' \subseteq Clients
    BY <1>1 DEF RequestInv, ProtocolInv
  <1> QED BY <1>4, <1>5, <1>6, <1>7 DEF ProtocolInv

LEMMA RequestStep == RequestInv /\ [Next]_vars => RequestInv'
  <1> SUFFICES ASSUME RequestInv, [Next]_vars PROVE ServerInv' /\ ProtocolInv'
    BY CodisStep DEF RequestInv
  <1> USE DEF RequestInv
  <1>1. CASE UNCHANGED vars
    <2>1. UNCHANGED <<library, server, ClientSide, to_server, to_client>>
      BY <1>1 DEF vars, clients, ClientSide
    <2>2. ServerInv'
      BY <2>1 DEF library, server, ServerInv, ServerTypes, OwnSemaphore, Spawning, Starting, Dispatching,
        Serving, Waits
    <2>3. \A c \in Clients : Unmoved(c)
      BY <2>1 DEF Unmoved, library, server, ClientSide, Works
    <2>4. ProtocolInv'
      BY <2>1, <2>3, UnmovedStep DEF ProtocolInv, server, ClientSide
    <2> QED BY <2>2, <2>4
  <1>2. ASSUME NEW c \in Clients, Client(c) PROVE ServerInv' /\ ProtocolInv'
    <2>1. UNCHANGED <<library, server>>
      BY <1>2 DEF Client, ClientInit, ClientWrite, ClientNotify, ClientWait, ClientNotified, ClientRead
    <2>2. ServerInv'
      BY <2>1 DEF library, server, ServerInv, ServerTypes, OwnSemaphore, Spawning, Starting, Dispatching,
        Serving, Waits
    <2> QED BY <1>2, <2>2, ClientProtocol
  <1>3. CASE ServerSpawn
    <2>1. ServerInv'
      BY <1>3, SpawnStep
    <2>2. running = ROOT /\ running' = ROOT
      BY <1>3 DEF ServerSpawn, At, Lib!microkit_cothread_spawn, Lib!spawn, Lib!microkit_cothread_panic, Lib!vars
    <2>3. Idle /\ Idle'
      BY <2>2, SizesAssumption DEF Idle, Works, Clients, ROOT
    <2> QED BY <1>3, <2>1, <2>3, IdleStep DEF ServerSpawn, OthersThanServer, clients, ClientSide
  <1>4. CASE ServerYield
    <2>1. ServerInv' /\ Idle'
      BY <1>4, YieldStep
    <2>2. Idle
      BY <1>4, SizesAssumption DEF ServerYield, At, Idle, Works, Clients, ROOT
    <2> QED BY <1>4, <2>1, <2>2, IdleStep DEF ServerYield, OthersThanServer, clients, ClientSide
  <1>5. CASE ServerReturn
    <2>1. ServerInv'
      BY <1>5, EventLoopStep
    <2>2. Idle /\ Idle'
      BY <1>5, SizesAssumption DEF ServerReturn, Lib!HandlerReturns, Idle, Works, Clients, ROOT
    <2> QED BY <1>5, <2>1, <2>2, IdleStep DEF ServerReturn, OthersThanServer, clients, ClientSide
  <1>6. CASE ServerReceive
    BY <1>6, EventLoopStep, ReceiveProtocol
  <1>7. CASE notified
    BY <1>7, NotifiedStep, NotifiedProtocol DEF ProtocolInv
  <1>8. ASSUME NEW t \in Handlers, client_handler(t) PROVE ServerInv' /\ ProtocolInv'
    <2>1. CASE HandlerStart(t)
      <3>1. ServerInv' /\ Idle /\ Idle'
        BY <2>1, StartStep
      <3> QED BY <2>1, <3>1, IdleStep DEF HandlerStart, OthersThanServer, clients, ClientSide
    <2>2. CASE HandlerWait(t)
      <3>1. ServerInv' /\ Idle'
        BY <2>2, WaitStep
      <3>2. Idle
        BY <2>2 DEF HandlerWait, At, Idle, Works
      <3> QED BY <2>2, <3>1, <3>2, IdleStep DEF HandlerWait, OthersThanServer, clients, ClientSide
    <2>3. CASE HandlerFetch(t)
      BY <2>3, AwakeStep, FetchProtocol DEF HandlerFetch, At
    <2>4. CASE HandlerExecute(t)
      BY <2>4, AwakeStep, ExecuteProtocol DEF HandlerExecute, At
    <2>5. CASE HandlerNotify(t)
      BY <2>5, AwakeStep, AnswerProtocol DEF HandlerNotify, At
    <2> QED BY <1>8, <2>1, <2>2, <2>3, <2>4, <2>5 DEF client_handler
  <1> QED BY <1>1, <1>2, <1>3, <1>4, <1>5, <1>6, <1>7, <1>8 DEF Next, Server

LEMMA RequestInvariant == Spec => []RequestInv
  <1>1. Init => RequestInv
    BY CodisInit, ServerInit, ProtocolInit DEF RequestInv
  <1> QED BY <1>1, RequestStep, PTL DEF Spec

(* The server never makes a call that the library answers with a crash,    *)
(* however many clients it has and whatever they post.                     *)
THEOREM ServerNeverFaults == Spec => []ServerNoFault
  <1>1. RequestInv => ServerNoFault
    BY DEF RequestInv, ServerInv, ServerTypes, ServerNoFault
  <1> QED BY <1>1, RequestInvariant, PTL

(* Every handler has copied its argument before the frame of init is gone, *)
(* and no two handlers serve the same client.                              *)
THEOREM HandlersOwnArguments == Spec => []ArgumentsInTime
  <1>1. RequestInv => ArgumentsInTime
    <2> SUFFICES ASSUME RequestInv PROVE ArgumentsInTime
      OBVIOUS
    <2>1. event_loop => Dispatching
      BY DEF RequestInv, ServerInv, Spawning, Starting, Serving
    <2>2. event_loop => \A t \in Handlers : spc[t] # "start"
      BY <2>1 DEF Dispatching, Waits
    <2>3. \A t \in Handlers : my_owned_args[t] # 0 => my_owned_args[t] = t
      BY DEF RequestInv, ServerInv, ServerTypes
    <2> QED BY <2>2, <2>3 DEF ArgumentsInTime
  <1> QED BY <1>1, RequestInvariant, PTL

(* The shared buffer changes hands: a handler works on it only while its   *)
(* client waits, and a client reads only what the handler has finished,    *)
(* although nothing but two binary notifications separates them.           *)
THEOREM BuffersHandedOver == Spec => []BufferHandedOver
  <1>1. RequestInv => BufferHandedOver
    <2> SUFFICES ASSUME RequestInv, NEW t \in Handlers, my_owned_args[t] # 0
                 PROVE  /\ spc[t] \in {"execute", "notify"} => cpc[t] \in {"wait", "blocked"}
                        /\ cpc[t] = "read" => answered[t]
      BY DEF BufferHandedOver, RequestInv, ServerInv, ServerTypes
    <2>1. spc[t] \in {"execute", "notify"} => Works(t)
      BY DEF RequestInv, ServerInv, Spawning, Starting, Dispatching, Serving, Waits, Works, Handlers
    <2>2. ProtocolOf(t)
      BY DEF RequestInv, ProtocolInv, Handlers, Clients
    <2> QED BY <2>1, <2>2 DEF ProtocolOf
  <1> QED BY <1>1, RequestInvariant, PTL

-----------------------------------------------------------------------------
(* Codis implements the store: a request takes effect when its handler     *)
(* executes it, and every other step but the posting and the end of a      *)
(* request goes unnoticed.                                                 *)

(* What the store sees of client c, unchanged by the step.                 *)
Unseen(c) == PhaseOf(c)' = PhaseOf(c) /\ LatestOf(c)' = LatestOf(c) /\ AnswerOf(c)' = AnswerOf(c)

LEMMA PostedRequest ==
  ASSUME NEW p \in Programs, NEW c \in Clients, NEW i \in 1 .. Len(p[c])
  PROVE  p[c][i] \in Requests
  <1>1. DOMAIN p[c] = 1 .. Len(p[c])
    BY ProgramsAssumption
  <1> QED BY <1>1 DEF Requests

LEMMA StoreInit == Init => Store!Init
  <1> SUFFICES ASSUME Init PROVE Store!Init
    OBVIOUS
  <1>1. /\ db = [b \in Buckets |-> <<>>] /\ program \in Programs
        /\ cpc = [c \in Clients |-> "init"] /\ step = [c \in Clients |-> 0]
    BY DEF Init
  <1>2. ASSUME NEW c \in Clients
        PROVE  PhaseOf(c) = "idle" /\ AnswerOf(c) = <<"none">> /\ LatestOf(c) \in Requests
    <2>1. PhaseOf(c) = "idle" /\ AnswerOf(c) = <<"none">> /\ LatestOf(c) = program[c][1]
      BY <1>1 DEF PhaseOf, AnswerOf, LatestOf
    <2>2. program[c] # <<>> /\ program[c] \in Seq([cmd : STRING, bucket : Buckets, data : Seq(Letters)])
      BY <1>1, ProgramsAssumption
    <2>3. 1 \in 1 .. Len(program[c])
      BY <2>2
    <2> QED BY <1>1, <2>1, <2>3, PostedRequest
  <1> QED BY <1>1, <1>2 DEF Store!Init

LEMMA UnseenStep == ASSUME db' = db, \A c \in Clients : Unseen(c) PROVE UNCHANGED Store!vars
  BY DEF Store!vars, Unseen

LEMMA InvokeStep == ASSUME RequestInv, NEW c \in Clients, ClientWrite(c) PROVE Store!Invoke(c)
  <1>1. /\ step \in [Clients -> Nat] /\ program \in Programs /\ DOMAIN cpc = Clients
        /\ answered \in [Clients -> BOOLEAN] /\ DOMAIN ipc = Clients
    BY DEF RequestInv, ProtocolInv, CodisInv, PostedInv
  <1>2. /\ cpc[c] = "write" /\ step[c] < Len(program[c]) /\ cpc'[c] = "notify"
        /\ step'[c] = step[c] + 1 /\ ~answered'[c] /\ db' = db /\ program' = program
        /\ \A d \in Clients \ {c} : /\ cpc'[d] = cpc[d] /\ step'[d] = step[d] /\ ipc'[d] = ipc[d]
                                    /\ answered'[d] = answered[d]
    BY <1>1 DEF ClientWrite, CGoto, server
  <1>3. step[c] + 1 \in 1 .. Len(program[c]) /\ step[c] + 1 # 0
    BY <1>1, <1>2, ProgramsAssumption
  <1>4. /\ PhaseOf(c) = "idle" /\ PhaseOf(c)' = "pending" /\ AnswerOf(c)' = <<"none">>
        /\ LatestOf(c)' = program[c][step[c] + 1]
    BY <1>2, <1>3 DEF PhaseOf, AnswerOf, LatestOf
  <1>5. program[c][step[c] + 1] \in Requests
    BY <1>1, <1>3, PostedRequest
  <1>6. \A d \in Clients \ {c} : Unseen(d)
    BY <1>2 DEF Unseen, PhaseOf, AnswerOf, LatestOf
  <1> QED BY <1>2, <1>4, <1>5, <1>6 DEF Store!Invoke, Unseen

LEMMA FinishStep == ASSUME RequestInv, NEW c \in Clients, ClientRead(c) PROVE Store!Finish(c)
  <1>1. DOMAIN cpc = Clients /\ ProtocolOf(c)
    BY DEF RequestInv, ProtocolInv
  <1>2. /\ cpc[c] = "read" /\ cpc'[c] \in {"write", "done"} /\ answered[c] /\ db' = db
        /\ UNCHANGED <<program, step, ipc, answered>>
        /\ \A d \in Clients \ {c} : cpc'[d] = cpc[d]
    BY <1>1 DEF ClientRead, CGoto, server, ProtocolOf
  <1>3. /\ PhaseOf(c) = "done" /\ PhaseOf(c)' = "idle" /\ AnswerOf(c)' = <<"none">>
        /\ LatestOf(c)' = LatestOf(c)
    BY <1>2 DEF PhaseOf, AnswerOf, LatestOf
  <1>4. \A d \in Clients \ {c} : Unseen(d)
    BY <1>2 DEF Unseen, PhaseOf, AnswerOf, LatestOf
  <1> QED BY <1>2, <1>3, <1>4 DEF Store!Finish, Unseen

(* The handler executes what its client posted, on the store as it is.     *)
LEMMA ApplyStep == ASSUME RequestInv, NEW t \in Handlers, HandlerExecute(t) PROVE Store!Apply(t)
  <1>1. /\ running = t /\ spc[t] = "execute" /\ t \in Clients /\ my_owned_args[t] = t
        /\ answered' = [answered EXCEPT ![t] = TRUE] /\ answered \in [Clients -> BOOLEAN]
        /\ UNCHANGED <<cpc, program, step>>
        /\ program \in Programs /\ db \in [Buckets -> Seq(Letters)] /\ DOMAIN ipc = Clients
        /\ DOMAIN ipc[t] = {"head", "data"}
    BY DEF HandlerExecute, At, RequestInv, ServerInv, ServerTypes, ProtocolInv, clients, CodisInv,
      PostedInv, StoredInv, Clients, Handlers
  <1>2. /\ cpc[t] \in {"wait", "blocked"} /\ ~answered[t] /\ HoldsRequest(t)
        /\ fetched[t] = ipc[t].head
    BY <1>1 DEF RequestInv, ProtocolInv, ProtocolOf, BufferOf, Works
  <1>3. PICK r : r = RequestOf(t)
    OBVIOUS
  <1>4. /\ r \in [cmd : STRING, bucket : Buckets, data : Seq(Letters)]
        /\ 2 + Len(r.data) + 1 <= BUCKET_SIZE
        /\ step[t] # 0
        /\ fetched[t][2] = r.cmd /\ fetched[t][3] = r.bucket
        /\ ipc[t].head[1] = "request"
        /\ r.cmd = "append" => ipc[t].data = r.data
    BY <1>1, <1>2, <1>3, RequestTyped DEF HoldsRequest, RequestOf
  <1>5. PICK b : b = r.bucket
    OBVIOUS
  <1>6. /\ b \in Buckets /\ db[b] \in Seq(Letters) /\ Len(db[b]) \in Nat /\ data_len[b] = Len(db[b])
        /\ r.data \in Seq(Letters) /\ Len(r.data) \in Nat
    BY <1>1, <1>4, <1>5 DEF RequestInv, CodisInv, StoredInv
  <1>7. \/ r.cmd = "read" /\ Read(t, b)
        \/ r.cmd = "append" /\ Append_(t, b)
        \/ r.cmd = "delete" /\ Delete(b) /\ ipc' = [ipc EXCEPT ![t].head = <<"retval", 1>>]
        \/ r.cmd \notin {"read", "append", "delete"} /\ UNCHANGED <<db, data_len, ipc>>
    BY <1>1, <1>4, <1>5 DEF HandlerExecute
  <1>8. /\ PhaseOf(t) = "pending" /\ PhaseOf(t)' = "done"
        /\ LatestOf(t) = r /\ LatestOf(t)' = r
        /\ AnswerOf(t)' = IF ipc'[t].head[1] = "request" THEN <<"none">> ELSE ipc'[t].head
    <2>1. answered'[t] = TRUE /\ cpc'[t] = cpc[t]
      BY <1>1
    <2> QED BY <1>1, <1>2, <1>3, <1>4, <2>1 DEF PhaseOf, LatestOf, AnswerOf, RequestOf
  <1>9. \A c \in Clients \ {t} : Unseen(c)
    <2>1. \A c \in Clients \ {t} : ipc'[c] = ipc[c] /\ answered'[c] = answered[c]
      BY <1>1, <1>7 DEF Read, Append_
    <2> QED BY <1>1, <2>1 DEF Unseen, PhaseOf, AnswerOf, LatestOf
  <1>10. /\ db' = [db EXCEPT ![b] = Store!Effect(r)]
         /\ AnswerOf(t)' = Store!Answer(r)
    <2>1. CASE r.cmd = "read"
      <3>1. db' = db /\ ipc'[t].head = <<"string", db[b]>>
        BY <1>1, <1>7, <2>1 DEF Read
      <3>2. Store!Effect(r) = db[b] /\ Store!Answer(r) = <<"string", db[b]>>
        BY <1>5, <2>1 DEF Store!Effect, Store!Answer
      <3> QED BY <1>1, <1>6, <1>8, <3>1, <3>2
    <2>2. CASE r.cmd = "append"
      <3>1. strnlen(r.data, BUCKET_SIZE - 2) = Len(r.data)
        BY <1>4, <1>6, StrnlenExact, SizesAssumption
      <3>2. ipc[t].data = r.data /\ Append_(t, b)
        BY <1>4, <1>7, <2>2
      <3>3. Rejected(b, Len(r.data)) <=> ~Store!Fits(r)
        <4>1. Store!Fits(r) <=> Len(db[b]) + Len(r.data) <= BUCKET_SIZE - 1
          BY <1>5 DEF Store!Fits
        <4>2. Rejected(b, Len(r.data)) <=> Len(db[b]) + Len(r.data) + 1 > BUCKET_SIZE
          BY <1>6 DEF Rejected
        <4>3. \A m, n \in Nat : m + n + 1 > BUCKET_SIZE <=> ~(m + n <= BUCKET_SIZE - 1)
          BY SizesAssumption
        <4>4. Len(db[b]) \in Nat /\ Len(r.data) \in Nat
          BY <1>6
        <4> QED BY <4>1, <4>2, <4>3, <4>4
      <3>4. CASE Rejected(b, Len(r.data))
        <4>1. db' = db /\ ipc'[t].head = <<"retval", 0>>
          BY <1>1, <3>1, <3>2, <3>4 DEF Append_
        <4>2. Store!Effect(r) = db[b] /\ Store!Answer(r) = <<"retval", 0>>
          BY <1>5, <2>2, <3>3, <3>4 DEF Store!Effect, Store!Answer
        <4> QED BY <1>1, <1>6, <1>8, <4>1, <4>2
      <3>5. CASE ~Rejected(b, Len(r.data))
        <4>1. /\ db' = [db EXCEPT ![b] = db[b] \o r.data]
              /\ data_len' = [data_len EXCEPT ![b] = data_len[b] + Len(r.data)]
              /\ ipc' = [ipc EXCEPT ![t].head = <<"retval", data_len'[b]>>]
          BY <3>1, <3>2, <3>5 DEF Append_
        <4>2. data_len'[b] = Len(db[b]) + Len(r.data)
          BY <1>6, <4>1 DEF RequestInv, CodisInv, StoredInv
        <4>3. ipc'[t].head = <<"retval", Len(db[b]) + Len(r.data)>>
          BY <1>1, <4>1, <4>2
        <4>4. Len(db[b] \o r.data) = Len(db[b]) + Len(r.data)
          BY <1>6
        <4>5. Store!Effect(r) = db[b] \o r.data
              /\ Store!Answer(r) = <<"retval", Len(db[b]) + Len(r.data)>>
          BY <1>5, <2>2, <3>3, <3>5, <4>4 DEF Store!Effect, Store!Answer
        <4>6. AnswerOf(t)' = <<"retval", Len(db[b]) + Len(r.data)>>
          <5>1. PICK n : n = Len(db[b]) + Len(r.data)
            OBVIOUS
          <5>2. ipc'[t].head = <<"retval", n>> /\ <<"retval", n>>[1] = "retval"
            BY <4>3, <5>1
          <5> QED BY <1>8, <5>1, <5>2
        <4> QED BY <4>1, <4>5, <4>6
      <3> QED BY <3>4, <3>5
    <2>3. CASE r.cmd = "delete"
      <3>1. db' = [db EXCEPT ![b] = <<>>] /\ ipc'[t].head = <<"retval", 1>>
        BY <1>1, <1>7, <2>3 DEF Delete
      <3>2. Store!Effect(r) = <<>> /\ Store!Answer(r) = <<"retval", 1>>
        BY <2>3 DEF Store!Effect, Store!Answer
      <3> QED BY <1>8, <3>1, <3>2
    <2>4. CASE r.cmd \notin {"read", "append", "delete"}
      <3>1. db' = db /\ ipc' = ipc
        BY <1>7, <2>4
      <3>2. Store!Effect(r) = db[b] /\ Store!Answer(r) = <<"none">>
        BY <1>5, <2>4 DEF Store!Effect, Store!Answer
      <3> QED BY <1>1, <1>4, <1>6, <1>8, <3>1, <3>2
    <2> QED BY <2>1, <2>2, <2>3, <2>4
  <1> QED BY <1>1, <1>5, <1>8, <1>9, <1>10 DEF Store!Apply, Unseen

LEMMA StoreStep == RequestInv /\ [Next]_vars => [Store!Next]_(Store!vars)
  <1> SUFFICES ASSUME RequestInv, [Next]_vars PROVE Store!Next \/ UNCHANGED Store!vars
    OBVIOUS
  <1>1. ASSUME UNCHANGED <<db, cpc, program, step, ipc, answered>> PROVE UNCHANGED Store!vars
    BY <1>1, UnseenStep DEF Unseen, PhaseOf, AnswerOf, LatestOf
  <1>2. CASE UNCHANGED vars
    BY <1>1, <1>2 DEF vars, server, clients
  <1>3. ASSUME NEW c \in Clients, Client(c) PROVE Store!Next \/ UNCHANGED Store!vars
    <2>1. CASE ClientWrite(c)
      BY <2>1, InvokeStep DEF Store!Next
    <2>2. CASE ClientRead(c)
      BY <2>2, FinishStep DEF Store!Next
    <2>3. CASE ClientInit(c) \/ ClientNotify(c) \/ ClientWait(c) \/ ClientNotified(c)
      <3>1. DOMAIN cpc = Clients /\ ProtocolOf(c)
        BY DEF RequestInv, ProtocolInv
      <3>2. /\ UNCHANGED <<db, program, step, ipc, answered>>
            /\ \A d \in Clients \ {c} : cpc'[d] = cpc[d]
            /\ \/ cpc[c] = "init" /\ cpc'[c] = "write"
               \/ cpc[c] \in {"notify", "wait", "blocked"} /\ cpc'[c] \in {"wait", "blocked", "read"}
        BY <2>3, <3>1 DEF ClientInit, ClientNotify, ClientWait, ClientNotified, CGoto, server, ProtocolOf
      <3>3. Unseen(c)
        BY <3>2 DEF Unseen, PhaseOf, AnswerOf, LatestOf
      <3>4. \A d \in Clients \ {c} : Unseen(d)
        BY <3>2 DEF Unseen, PhaseOf, AnswerOf, LatestOf
      <3> QED BY <3>2, <3>3, <3>4, UnseenStep
    <2> QED BY <1>3, <2>1, <2>2, <2>3 DEF Client
  <1>4. ASSUME NEW t \in Handlers, HandlerExecute(t) PROVE Store!Next
    BY <1>4, ApplyStep DEF Store!Next, Clients, Handlers
  <1>5. CASE Server /\ ~\E t \in Handlers : HandlerExecute(t)
    BY <1>1, <1>5 DEF Server, ServerSpawn, ServerYield, ServerReturn, ServerReceive, notified,
      client_handler, HandlerStart, HandlerWait, HandlerFetch, HandlerNotify, OthersThanServer, clients
  <1> QED BY <1>2, <1>3, <1>4, <1>5 DEF Next

(* For any number of clients, any programs and any schedule, Codis is the  *)
(* store: each request takes effect once and as a whole, between its       *)
(* posting and its answer, and the answer is the right one for the strings *)
(* in the buckets at that moment.                                          *)
THEOREM CodisIsAStore == Spec => ImplementsStore
  <1> QED BY StoreInit, StoreStep, RequestInvariant, PTL DEF Spec, ImplementsStore, Store!Spec

=============================================================================
