------------------------------ MODULE KVStore ------------------------------
(***************************************************************************)
(* What the block store promises its callers: a map from keys to values    *)
(* that survives restarts.  A Set takes effect when it ends, a Del at      *)
(* once, a Get answers with the value the key had when it looked the key   *)
(* up.  A restart drops the calls in progress and nothing else.            *)
(***************************************************************************)
CONSTANTS Keys, Values, Absent, Clients, NoCall

VARIABLES
    kv,     \* the value of each key, or Absent
    call,   \* the call each client is in
    reply   \* what the last Get to return answered

kvVars == <<kv, call, reply>>

Calls == [op : {"set", "get"}, key : Keys, value : Values \cup {Absent}]

KVInit ==
    /\ kv = [k \in Keys |-> Absent]
    /\ call = [c \in Clients |-> NoCall]
    /\ reply = Absent

BeginSet(c, k, v) ==
    /\ call[c] = NoCall
    /\ call' = [call EXCEPT ![c] = [op |-> "set", key |-> k, value |-> v]]
    /\ UNCHANGED <<kv, reply>>

EndSet(c) ==
    /\ call[c] # NoCall
    /\ call[c].op = "set"
    /\ kv' = [kv EXCEPT ![call[c].key] = call[c].value]
    /\ call' = [call EXCEPT ![c] = NoCall]
    /\ UNCHANGED reply

Del(c, k) ==
    /\ call[c] = NoCall
    /\ kv' = [kv EXCEPT ![k] = Absent]
    /\ UNCHANGED <<call, reply>>

\* A key that does not exist is reported at once.
GetMissing(c, k) ==
    /\ call[c] = NoCall
    /\ kv[k] = Absent
    /\ reply' = Absent
    /\ UNCHANGED <<kv, call>>

BeginGet(c, k) ==
    /\ call[c] = NoCall
    /\ kv[k] # Absent
    /\ call' = [call EXCEPT ![c] = [op |-> "get", key |-> k, value |-> kv[k]]]
    /\ UNCHANGED <<kv, reply>>

EndGet(c) ==
    /\ call[c] # NoCall
    /\ call[c].op = "get"
    /\ reply' = call[c].value
    /\ call' = [call EXCEPT ![c] = NoCall]
    /\ UNCHANGED kv

Restart ==
    /\ call' = [c \in Clients |-> NoCall]
    /\ reply' = Absent
    /\ UNCHANGED kv

KVNext ==
    \/ Restart
    \/ \E c \in Clients :
           \/ EndSet(c)
           \/ EndGet(c)
           \/ \E k \in Keys : Del(c, k) \/ GetMissing(c, k) \/ BeginGet(c, k)
           \/ \E k \in Keys, v \in Values : BeginSet(c, k, v)

KVSpec == KVInit /\ [][KVNext]_kvVars
=============================================================================
