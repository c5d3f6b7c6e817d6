----------------------------- MODULE CodisStore -----------------------------
(***************************************************************************)
(* What Codis promises its clients: a map from buckets to strings on which *)
(* every request takes effect at once, some time between the moment the    *)
(* client posts it and the moment it has the answer.                       *)
(***************************************************************************)
EXTENDS Naturals, Sequences

CONSTANTS Clients, Buckets,
          Requests,     \* records [cmd, bucket, data]
          MaxLength     \* of a string in a bucket

VARIABLES store,        \* the string in each bucket
          phase,        \* what each client is doing: idle, pending, done
          request,      \* each client's latest request
          answer        \* and the answer to it

vars == <<store, phase, request, answer>>

Init ==
  /\ store = [b \in Buckets |-> <<>>]
  /\ phase = [c \in Clients |-> "idle"]
  /\ request \in [Clients -> Requests]
  /\ answer = [c \in Clients |-> <<"none">>]

Invoke(c) ==
  /\ phase[c] = "idle"
  /\ phase' = [phase EXCEPT ![c] = "pending"]
  /\ \E r \in Requests : request' = [request EXCEPT ![c] = r]
  /\ answer' = [answer EXCEPT ![c] = <<"none">>]
  /\ UNCHANGED store

(* The string a request leaves in its bucket, and its answer.              *)
Fits(r) == Len(store[r.bucket]) + Len(r.data) <= MaxLength

Effect(r) ==
  CASE r.cmd = "append" /\ Fits(r) -> store[r.bucket] \o r.data
    [] r.cmd = "delete" -> <<>>
    [] OTHER -> store[r.bucket]

Answer(r) ==
  CASE r.cmd = "read" -> <<"string", store[r.bucket]>>
    [] r.cmd = "append" -> <<"retval", IF Fits(r) THEN Len(Effect(r)) ELSE 0>>
    [] r.cmd = "delete" -> <<"retval", 1>>
    [] OTHER -> <<"none">>

Apply(c) ==
  /\ phase[c] = "pending"
  /\ phase' = [phase EXCEPT ![c] = "done"]
  /\ store' = [store EXCEPT ![request[c].bucket] = Effect(request[c])]
  /\ answer' = [answer EXCEPT ![c] = Answer(request[c])]
  /\ UNCHANGED request

Finish(c) ==
  /\ phase[c] = "done"
  /\ phase' = [phase EXCEPT ![c] = "idle"]
  /\ answer' = [answer EXCEPT ![c] = <<"none">>]
  /\ UNCHANGED <<store, request>>

Next == \E c \in Clients : Invoke(c) \/ Apply(c) \/ Finish(c)

Spec == Init /\ [][Next]_vars

=============================================================================
