------------------------------- MODULE Codis -------------------------------
(***************************************************************************)
(* The Codis example: a server PD that serves each client from a cothread  *)
(* of its own, written with libmicrokitco, and client PDs that block a     *)
(* cothread on a semaphore until the answer is there.  A request and its   *)
(* answer travel in one shared buffer per client; the only signals are     *)
(* Microkit notifications, which are binary: a second one before the first *)
(* is received is lost.  A PD may be preempted between any two steps.      *)
(*                                                                         *)
(* The server's threads run on the library of module Microkitco.  A client *)
(* has one cothread besides its root thread, which therefore receives      *)
(* exactly while the cothread is blocked or has ended.  Strings are        *)
(* sequences, without their terminator.                                    *)
(***************************************************************************)
EXTENDS Integers, Sequences, FiniteSetsExt

CONSTANTS
  NClients,
  Buckets,
  BUCKET_SIZE,
  Letters,       \* what strings are made of
  Programs       \* what the clients' co_mains may be: a set of functions from
                 \* clients to sequences of requests

(* The requests of each client's co_main, one after the other; the strings *)
(* they append are abstracted to letters.                                  *)
Request(cmd, bucket, data) == [cmd |-> cmd, bucket |-> bucket, data |-> data]

client1_co_main == << Request("append", 0, <<"k">>), Request("append", 0, <<"l", "m">>) >>
client2_co_main == << Request("append", 0, <<"x">>), Request("append", 0, <<"y">>) >>
client3_co_main == << Request("read", 0, <<>>) >>

Clients == 1 .. NClients                  \* a client and its channel
Handlers == 1 .. NClients                 \* the server's cothreads
ROOT == 0

ASSUME SizesAssumption == /\ NClients \in Nat \ {0}
                          /\ BUCKET_SIZE \in Nat /\ BUCKET_SIZE > 2

(* A co_main posts at least one request; each names a bucket there is and, *)
(* with its terminated string, fits the shared buffer, which has the size  *)
(* of a bucket.                                                            *)
ASSUME ProgramsAssumption ==
  \A p \in Programs : \A c \in Clients :
    /\ p[c] \in Seq([cmd : STRING, bucket : Buckets, data : Seq(Letters)])
    /\ p[c] # <<>>
    /\ \A i \in 1 .. Len(p[c]) : 2 + Len(p[c][i].data) + 1 <= BUCKET_SIZE

VARIABLES
  (* the server PD: the library, the database and the threads' locals      *)
  running, state, next_blocked, private_arg, free_handle_queue,
  scheduling_queue, sem, co_active_handle, context, event_loop, fault, waiters,
  db, data_len,
  spc,             \* where each server thread is
  my_owned_args,   \* each handler's copy of its argument: a channel
  fetched,         \* each handler's cmd and bucket
  badge,           \* the notifications the event loop is dispatching
  (* the client PDs                                                        *)
  program, step,   \* the programs, and how many requests each has posted
  cpc,             \* where each co_main is
  async_io_sem,    \* server_async_io_sem: "empty", "set" or "waiting"
  (* between the PDs                                                       *)
  ipc,             \* the shared buffers: the first bytes, and the rest
  to_server, to_client,   \* channels with an undelivered notification
  answered         \* history: the latest request has been carried out

library == <<running, state, next_blocked, private_arg, free_handle_queue,
             scheduling_queue, sem, co_active_handle, context, event_loop,
             fault, waiters>>
server == <<db, data_len, spc, my_owned_args, fetched, badge>>
clients == <<program, step, cpc, async_io_sem>>
vars == <<library, server, clients, ipc, to_server, to_client, answered>>

Lib == INSTANCE Microkitco WITH
         MAX_COTHREADS <- NClients + 1, Channels <- Clients, BadChannel <- 0,
         Semaphores <- {}, Args <- Clients, Rules <- {}

Init ==
  /\ Lib!Init
  /\ db = [b \in Buckets |-> <<>>]
  /\ data_len = [b \in Buckets |-> 0]
  /\ spc = [t \in {ROOT} \cup Handlers |-> IF t = ROOT THEN "init" ELSE "start"]
  /\ my_owned_args = [t \in Handlers |-> 0]
  /\ fetched = [t \in Handlers |-> <<"none">>]
  /\ badge = {}
  /\ program \in Programs
  /\ step = [c \in Clients |-> 0]
  /\ cpc = [c \in Clients |-> "init"]
  /\ async_io_sem = [c \in Clients |-> "empty"]
  /\ ipc = [c \in Clients |-> [head |-> <<"none">>, data |-> <<>>]]
  /\ to_server = {}
  /\ to_client = {}
  /\ answered = [c \in Clients |-> FALSE]

-----------------------------------------------------------------------------
(* The server.                                                             *)
At(t, label) == fault = "none" /\ running = t /\ spc[t] = label
Goto(t, label) == spc' = [spc EXCEPT ![t] = label]

OthersThanServer == UNCHANGED <<clients, ipc, to_server, to_client, answered>>

(* init: one cothread for each client, in the order of the channels.       *)
Spawned == Cardinality({t \in Handlers : state[t] # "not_active"})

ServerSpawn ==
  /\ At(ROOT, "init")
  /\ Lib!microkit_cothread_spawn("entry", Spawned + 1)
  /\ Goto(ROOT, IF Spawned + 1 = NClients THEN "yield" ELSE "init")
  /\ UNCHANGED <<db, data_len, my_owned_args, fetched, badge>>
  /\ OthersThanServer

Faulty_server_yield ==     \* faulty: init returns without running the handlers
  /\ At(ROOT, "yield")
  /\ Goto(ROOT, "returning")
  /\ UNCHANGED library
  /\ UNCHANGED <<db, data_len, my_owned_args, fetched, badge>>
  /\ OthersThanServer

ServerYield ==
  /\ At(ROOT, "yield")
  /\ Lib!microkit_cothread_yield
  /\ Goto(ROOT, "returning")
  /\ UNCHANGED <<db, data_len, my_owned_args, fetched, badge>>
  /\ OthersThanServer

(* The root thread returns to the event loop, from init or after the last  *)
(* channel of a badge; the loop waits for the next badge, and calls        *)
(* notified for its channels in ascending order.                           *)
ServerReturn ==
  /\ running = ROOT /\ spc[ROOT] \in {"returning", "dispatch"} /\ badge = {}
  /\ Lib!HandlerReturns
  /\ Goto(ROOT, "dispatch")
  /\ UNCHANGED <<db, data_len, my_owned_args, fetched, badge>>
  /\ OthersThanServer

ServerReceive ==
  /\ to_server # {}
  /\ Lib!Notified
  /\ badge' = to_server
  /\ to_server' = {}
  /\ UNCHANGED <<db, data_len, spc, my_owned_args, fetched>>
  /\ UNCHANGED <<clients, ipc, to_client, answered>>

Faulty_notified ==           \* faulty: only one channel of a badge is signalled
  /\ At(ROOT, "dispatch") /\ badge # {}
  /\ Lib!microkit_cothread_recv_ntfn(Min(badge))
  /\ badge' = {}
  /\ UNCHANGED <<db, data_len, spc, my_owned_args, fetched>>
  /\ OthersThanServer

notified ==
  /\ At(ROOT, "dispatch") /\ badge # {}
  /\ Lib!microkit_cothread_recv_ntfn(Min(badge))
  /\ badge' = badge \ {Min(badge)}
  /\ UNCHANGED <<db, data_len, spc, my_owned_args, fetched>>
  /\ OthersThanServer

(* The argument is a pointer into the frame of init, which is gone once    *)
(* init has returned.                                                      *)
InitFrame == spc[ROOT] \in {"init", "yield", "returning"} /\ ~event_loop

HandlerStart(t) ==
  /\ At(t, "start")
  /\ Lib!microkit_cothread_my_arg
  /\ my_owned_args' = [my_owned_args EXCEPT ![t] =
                         IF InitFrame THEN private_arg[t] ELSE 0]
  /\ Goto(t, "wait")
  /\ UNCHANGED <<db, data_len, fetched, badge>>
  /\ OthersThanServer

Faulty_handler_wait(t) ==    \* faulty: the argument is not copied but read again
  /\ At(t, "wait")
  /\ Lib!microkit_cothread_wait_on_channel(IF InitFrame THEN private_arg[t] ELSE 0)
  /\ Goto(t, "fetch")
  /\ UNCHANGED <<db, data_len, my_owned_args, fetched, badge>>
  /\ OthersThanServer

HandlerWait(t) ==
  /\ At(t, "wait")
  /\ Lib!microkit_cothread_wait_on_channel(my_owned_args[t])
  /\ Goto(t, "fetch")
  /\ UNCHANGED <<db, data_len, my_owned_args, fetched, badge>>
  /\ OthersThanServer

(* The bucket is read through a char, which is unsigned on the two targets *)
(* the example is built for: the number the client wrote.                  *)
HandlerFetch(t) ==
  /\ At(t, "fetch")
  /\ fetched' = [fetched EXCEPT ![t] = ipc[my_owned_args[t]].head]
  /\ Goto(t, "execute")
  /\ UNCHANGED <<library, db, data_len, my_owned_args, badge>>
  /\ OthersThanServer

(* A faulty Delete: the length of the deleted string stays.                *)
Faulty_delete(b) == db' = [db EXCEPT ![b] = <<>>] /\ UNCHANGED data_len

Delete(b) ==
  /\ data_len' = [data_len EXCEPT ![b] = 0]
  /\ db' = [db EXCEPT ![b] = <<>>]

Rejected(b, input_len) == data_len[b] + input_len + 1 > BUCKET_SIZE

strnlen(string, n) == Min({Len(string), n})

Faulty_append(c, b) ==    \* faulty: the length before the string is appended
  LET data == ipc[c].data
      input_len == strnlen(data, BUCKET_SIZE - 2)
  IN  IF Rejected(b, input_len)
      THEN /\ ipc' = [ipc EXCEPT ![c].head = <<"retval", 0>>]
           /\ UNCHANGED <<db, data_len>>
      ELSE /\ db' = [db EXCEPT ![b] = @ \o data]
           /\ data_len' = [data_len EXCEPT ![b] = @ + input_len]
           /\ ipc' = [ipc EXCEPT ![c].head = <<"retval", data_len[b]>>]

Append_(c, b) ==
  LET data == ipc[c].data
      input_len == strnlen(data, BUCKET_SIZE - 2)
  IN  IF Rejected(b, input_len)
      THEN /\ ipc' = [ipc EXCEPT ![c].head = <<"retval", 0>>]
           /\ UNCHANGED <<db, data_len>>
      ELSE /\ db' = [db EXCEPT ![b] = @ \o data]
           /\ data_len' = [data_len EXCEPT ![b] = @ + input_len]
           /\ ipc' = [ipc EXCEPT ![c].head = <<"retval", data_len'[b]>>]

(* strncpy copies to the terminator, whatever length it is given.          *)
Read(c, b) ==
  /\ ipc' = [ipc EXCEPT ![c] = [head |-> <<"string", db[b]>>, data |-> <<>>]]
  /\ UNCHANGED <<db, data_len>>

HandlerExecute(t) ==
  /\ At(t, "execute")
  /\ LET c == my_owned_args[t]
         cmd == fetched[t][2]
         b == fetched[t][3]
     IN  /\ \/ cmd = "read" /\ Read(c, b)
            \/ cmd = "append" /\ Append_(c, b)
            \/ /\ cmd = "delete" /\ Delete(b)
               /\ ipc' = [ipc EXCEPT ![c].head = <<"retval", 1>>]
            \/ /\ cmd \notin {"read", "append", "delete"}
               /\ UNCHANGED <<db, data_len, ipc>>
         /\ answered' = [answered EXCEPT ![c] = TRUE]
  /\ Goto(t, "notify")
  /\ UNCHANGED <<library, my_owned_args, fetched, badge, clients, to_server, to_client>>

HandlerNotify(t) ==
  /\ At(t, "notify")
  /\ to_client' = to_client \cup {my_owned_args[t]}
  /\ Goto(t, "wait")
  /\ UNCHANGED <<library, db, data_len, my_owned_args, fetched, badge>>
  /\ UNCHANGED <<clients, ipc, to_server, answered>>

client_handler(t) == \/ HandlerStart(t) \/ HandlerWait(t) \/ HandlerFetch(t)
                     \/ HandlerExecute(t) \/ HandlerNotify(t)

Server == \/ ServerSpawn \/ ServerYield \/ ServerReturn \/ ServerReceive
          \/ notified \/ \E t \in Handlers : client_handler(t)

-----------------------------------------------------------------------------
(* The clients.                                                            *)
CGoto(c, label) == cpc' = [cpc EXCEPT ![c] = label]

(* init: spawns co_main, initialises the semaphore, yields to co_main.     *)
ClientInit(c) ==
  /\ cpc[c] = "init"
  /\ async_io_sem' = [async_io_sem EXCEPT ![c] = "empty"]
  /\ CGoto(c, "write")
  /\ UNCHANGED <<library, server, program, step, ipc, to_server, to_client, answered>>

(* Only an append has a string to copy; the bytes of the command overwrite *)
(* the beginning of the latest answer.                                     *)
ClientWrite(c) ==
  /\ cpc[c] = "write" /\ step[c] < Len(program[c])
  /\ step' = [step EXCEPT ![c] = @ + 1]
  /\ LET r == program[c][step[c] + 1]
     IN  ipc' = [ipc EXCEPT ![c] =
                   [head |-> <<"request", r.cmd, r.bucket>>,
                    data |-> IF r.cmd = "append" THEN r.data ELSE @.data]]
  /\ answered' = [answered EXCEPT ![c] = FALSE]
  /\ CGoto(c, "notify")
  /\ UNCHANGED <<library, server, program, async_io_sem, to_server, to_client>>

ClientNotify(c) ==
  /\ cpc[c] = "notify"
  /\ to_server' = to_server \cup {c}
  /\ CGoto(c, "wait")
  /\ UNCHANGED <<library, server, program, step, async_io_sem, ipc, to_client, answered>>

(* Faulty: co_main does not wait for the answer.                           *)
Faulty_client_wait(c) ==
  /\ cpc[c] = "wait"
  /\ CGoto(c, "read")
  /\ UNCHANGED async_io_sem
  /\ UNCHANGED <<library, server, program, step, ipc, to_server, to_client, answered>>

(* The answer cannot be received while co_main runs, so it never finds the *)
(* semaphore set: it blocks, and the root thread goes to the event loop.   *)
ClientWait(c) ==
  /\ cpc[c] = "wait"
  /\ async_io_sem' = [async_io_sem EXCEPT ![c] = IF @ = "set" THEN "empty" ELSE "waiting"]
  /\ CGoto(c, IF async_io_sem[c] = "set" THEN "read" ELSE "blocked")
  /\ UNCHANGED <<library, server, program, step, ipc, to_server, to_client, answered>>

(* notified: signals the semaphore, which wakes co_main if it waits.       *)
ClientNotified(c) ==
  /\ c \in to_client /\ cpc[c] \in {"blocked", "done"}
  /\ to_client' = to_client \ {c}
  /\ async_io_sem' = [async_io_sem EXCEPT ![c] = IF @ = "waiting" THEN "empty" ELSE "set"]
  /\ CGoto(c, IF async_io_sem[c] = "waiting" THEN "read" ELSE cpc[c])
  /\ UNCHANGED <<library, server, program, step, ipc, to_server, answered>>

(* The answer is printed; after the last one co_main returns and ends.     *)
ClientRead(c) ==
  /\ cpc[c] = "read"
  /\ CGoto(c, IF step[c] < Len(program[c]) THEN "write" ELSE "done")
  /\ UNCHANGED <<library, server, program, step, async_io_sem, ipc, to_server, to_client, answered>>

Client(c) == \/ ClientInit(c) \/ ClientWrite(c) \/ ClientNotify(c)
             \/ ClientWait(c) \/ ClientNotified(c) \/ ClientRead(c)

Next == Server \/ \E c \in Clients : Client(c)

(* Every PD that has something to do gets the CPU eventually: the server   *)
(* has the highest priority, and each PD blocks again before long.         *)
Spec == /\ Init /\ [][Next]_vars
        /\ WF_vars(Server) /\ \A c \in Clients : WF_vars(Client(c))

-----------------------------------------------------------------------------
(* What a client of the abstract store is doing, with which request, and   *)
(* what its answer is, if there is one.                                    *)
PhaseOf(c) == IF cpc[c] \in {"init", "write", "done"} THEN "idle"
              ELSE IF answered[c] THEN "done" ELSE "pending"

LatestOf(c) == program[c][IF step[c] = 0 THEN 1 ELSE step[c]]

AnswerOf(c) == IF PhaseOf(c) # "done" \/ ipc[c].head[1] = "request"
               THEN <<"none">> ELSE ipc[c].head

Requests == UNION {UNION {{p[c][i] : i \in DOMAIN p[c]} : c \in Clients} : p \in Programs}

Store == INSTANCE CodisStore WITH
  MaxLength <- BUCKET_SIZE - 1,
  store <- db,
  phase <- [c \in Clients |-> PhaseOf(c)],
  request <- [c \in Clients |-> LatestOf(c)],
  answer <- [c \in Clients |-> AnswerOf(c)]

(* Codis is such a store: its clients see each request take effect once,   *)
(* as a whole and before they read the answer, although the answer shares  *)
(* the buffer with the request and notifications may be merged.            *)
ImplementsStore == Store!Spec

(* The length the server keeps for a bucket is that of the string in it,   *)
(* so the bound on appends protects the bucket, and the copy of a read,    *)
(* which ignores its bound, ends within the shared buffer.                 *)
LengthsInv ==
  \A b \in Buckets : data_len[b] = Len(db[b]) /\ Len(db[b]) + 1 <= BUCKET_SIZE

(* A client's buffer is never used from both sides: while a handler works  *)
(* on a request its client neither writes nor reads, and a client that     *)
(* reads the answer has its request carried out.                           *)
BufferHandedOver ==
  \A t \in Handlers : my_owned_args[t] # 0 =>
    LET c == my_owned_args[t]
    IN  /\ spc[t] \in {"execute", "notify"} => cpc[c] \in {"wait", "blocked"}
        /\ cpc[c] = "read" => answered[c]

(* The arguments live in the frame of init: each handler has copied its    *)
(* own before init returns, and no two handlers serve one client.          *)
ArgumentsInTime ==
  /\ event_loop => \A t \in Handlers : spc[t] # "start"
  /\ \A t, u \in Handlers :
       my_owned_args[t] = my_owned_args[u] /\ my_owned_args[t] # 0 => t = u

(* The server never makes a call that the library answers with a crash:    *)
(* its handlers wait on valid channels, its root thread receives, and no   *)
(* queue of the library overflows.                                         *)
ServerNoFault == fault = "none"

(* Every client gets all its answers: no notification that matters is      *)
(* merged away, and nobody waits for one that was sent before.             *)
AllServed == <>(\A c \in Clients : cpc[c] = "done")

=============================================================================
