------------------------------ MODULE LRUFile ------------------------------
(***************************************************************************)
(* LRUFileHandler (filesystem/lru_file.go): a least-recently-used list of  *)
(* keys in front of the block store.  Every operation first works on the   *)
(* block store and then, in a second critical section, on the list; adding *)
(* a key may evict another one, which deletes that key from the store.     *)
(*                                                                         *)
(* Of the block store the handler uses the keys that exist and the order   *)
(* of the records in the index file, which Initiate replays.  Eviction     *)
(* happens inside the critical section of the list and is part of it.  The *)
(* goroutine that Initiate starts for DefragContent changes neither, as    *)
(* long as no write races with it; BlockStore has it.                      *)
(***************************************************************************)
EXTENDS Integers, Sequences, FiniteSets, SequencesExt

CONSTANTS
    Keys, Clients,
    NoCall,       \* the client is in no call
    Capacity,     \* FILESYSTEM_LRU_CAPACITY, in keys
    MaxLog,       \* bound: index records when a client calls SetContent
    MaxRestarts   \* bound: restarts

ASSUME CapacityAssumption == Capacity \in Nat

VARIABLES
    live,      \* the keys of the block store
    log,       \* the records of its index file, [key, exist]
    list,      \* lruInstance.list, most recent first
    table,     \* the keys of lruInstance.table
    size,      \* lruInstance.size
    client,    \* what each client still has to do to the list
    ranging,   \* the record Initiate replays next, 0 when it is done
    initial,   \* the keys of the block store when Initiate began
    restarts   \* how often the process has been restarted

lruVars == <<live, log, list, table, size, client, ranging, initial, restarts>>

LRUInit ==
    /\ live = {}
    /\ log = << >>
    /\ list = << >>
    /\ table = {}
    /\ size = 0
    /\ client = [c \in Clients |-> NoCall]
    /\ ranging = 0
    /\ initial = {}
    /\ restarts = 0

-----------------------------------------------------------------------------
\* list.MoveToFront or list.PushFront.
ToFront(k) == <<k>> \o (IF k \in table THEN Remove(list, k) ELSE list)

\* A wrong Add for RestartKeepsKeys: size is incremented for a
\* key that is already in the list, too.
AddCountedTwice(k) ==
    LET listed == ToFront(k)
        over == size + 1 > Capacity
    IN
    /\ list' = IF over THEN Front(listed) ELSE listed
    /\ table' = ToSet(list')
    /\ size' = IF over THEN size ELSE size + 1
    /\ live' = IF over THEN live \ {Last(listed)} ELSE live
    /\ log' = IF over THEN Append(log, [key |-> Last(listed), exist |-> FALSE]) ELSE log

\* A wrong Add for ListIsStore: the evicted key stays in the block store.
AddWithoutDelFunc(k) ==
    LET grown == size + (IF k \in table THEN 0 ELSE 1)
        listed == ToFront(k)
        over == grown > Capacity /\ listed # << >>
    IN
    /\ list' = IF over THEN Front(listed) ELSE listed
    /\ table' = ToSet(list')
    /\ size' = IF over THEN grown - 1 ELSE grown
    /\ UNCHANGED <<live, log>>

\* lruInstance.Add and checkCapacity.  Before the call size is at most the
\* capacity, so the loop of checkCapacity runs at most once: it drops the key
\* at the back and calls delFunc, which deletes it from the block store.
Add(k) ==
    LET grown == size + (IF k \in table THEN 0 ELSE 1)
        listed == ToFront(k)
    IN
    IF grown > Capacity
    THEN LET victim == Last(listed) IN
         /\ list' = Front(listed)
         /\ table' = (table \cup {k}) \ {victim}
         /\ size' = grown - 1
         /\ live' = live \ {victim}
         /\ log' = Append(log, [key |-> victim, exist |-> FALSE])
    ELSE /\ list' = listed
         /\ table' = table \cup {k}
         /\ size' = grown
         /\ UNCHANGED <<live, log>>

\* lruInstance.Del.
Del(k) ==
    /\ IF k \in table
       THEN list' = Remove(list, k) /\ table' = table \ {k} /\ size' = size - 1
       ELSE UNCHANGED <<list, table, size>>
    /\ UNCHANGED <<live, log>>

-----------------------------------------------------------------------------
Serving == ranging = 0

\* SetContent: blockInstance.Set.
SetContent(c, k) ==
    /\ Serving
    /\ client[c] = NoCall
    /\ Len(log) < MaxLog
    /\ live' = live \cup {k}
    /\ log' = Append(log, [key |-> k, exist |-> TRUE])
    /\ client' = [client EXCEPT ![c] = [op |-> "add", key |-> k]]
    /\ UNCHANGED <<list, table, size, ranging, initial, restarts>>

\* GetContent: blockInstance.Get.  The call returns the error at once when the
\* key does not exist, and changes nothing.
GetContent(c, k) ==
    /\ Serving
    /\ client[c] = NoCall
    /\ k \in live
    /\ client' = [client EXCEPT ![c] = [op |-> "add", key |-> k]]
    /\ UNCHANGED <<live, log, list, table, size, ranging, initial, restarts>>

\* DelContent: blockInstance.Del, which logs the deletion in any case.
DelContent(c, k) ==
    /\ Serving
    /\ client[c] = NoCall
    /\ Len(log) < MaxLog
    /\ live' = live \ {k}
    /\ log' = Append(log, [key |-> k, exist |-> FALSE])
    /\ client' = [client EXCEPT ![c] = [op |-> "del", key |-> k]]
    /\ UNCHANGED <<list, table, size, ranging, initial, restarts>>

\* The second half of SetContent and GetContent.
LruAdd(c) ==
    /\ client[c] # NoCall
    /\ client[c].op = "add"
    /\ Add(client[c].key)
    /\ client' = [client EXCEPT ![c] = NoCall]
    /\ UNCHANGED <<ranging, initial, restarts>>

\* The second half of DelContent.
LruDel(c) ==
    /\ client[c] # NoCall
    /\ client[c].op = "del"
    /\ Del(client[c].key)
    /\ client' = [client EXCEPT ![c] = NoCall]
    /\ UNCHANGED <<ranging, initial, restarts>>

\* dumpIndex leaves one record for each key, in any order (see BlockIndex).
Dump ==
    /\ Serving
    /\ \E order \in SetToSeqs(live) :
           log' = [i \in DOMAIN order |-> [key |-> order[i], exist |-> TRUE]]
    /\ UNCHANGED <<live, list, table, size, client, ranging, initial, restarts>>

-----------------------------------------------------------------------------
\* The process stops and Initiate runs in a new one, up to blockInstance.Range.
Restart ==
    /\ restarts < MaxRestarts
    /\ restarts' = restarts + 1
    /\ list' = << >>
    /\ table' = {}
    /\ size' = 0
    /\ client' = [c \in Clients |-> NoCall]
    /\ ranging' = 1
    /\ initial' = live
    /\ UNCHANGED <<live, log>>

\* A wrong RangeRecord for InitiateEnds: a deletion record is added, too.
RangeRecordAdding ==
    /\ ~Serving
    /\ ranging <= Len(log)
    /\ Len(log) < 4 * MaxLog
    /\ Add(log[ranging].key)
    /\ ranging' = ranging + 1
    /\ UNCHANGED <<client, initial, restarts>>

\* Range calls Add or Del for the next record of the index file.  An eviction
\* appends to the file that is being read.
RangeRecord ==
    /\ ~Serving
    /\ ranging <= Len(log)
    /\ IF log[ranging].exist THEN Add(log[ranging].key) ELSE Del(log[ranging].key)
    /\ ranging' = ranging + 1
    /\ UNCHANGED <<client, initial, restarts>>

\* Range has reached the end of the file; Initiate returns.
RangeEnd ==
    /\ ~Serving
    /\ ranging > Len(log)
    /\ ranging' = 0
    /\ UNCHANGED <<live, log, list, table, size, client, initial, restarts>>

LRUNext ==
    \/ \E c \in Clients, k \in Keys :
           SetContent(c, k) \/ GetContent(c, k) \/ DelContent(c, k)
    \/ \E c \in Clients : LruAdd(c) \/ LruDel(c)
    \/ Dump
    \/ Restart
    \/ RangeRecord
    \/ RangeEnd

-----------------------------------------------------------------------------
Quiescent == Serving /\ \A c \in Clients : client[c] = NoCall

\* The list is what it stands for.  Between two critical sections it holds each key of
\* the table once, size counts them, and there are at most Capacity of them: size never
\* drifts from the list, which would make checkCapacity evict too much or too little.
\* With nobody in the middle of a call its keys are the keys of the block store: nothing
\* is stored that can never be evicted, and nothing is listed that is not stored.
ListIsStore ==
    /\ ToSet(list) = table
    /\ IsInjective(list)
    /\ size = Len(list)
    /\ size <= Capacity
    /\ Quiescent => table = live

\* "LRU on the keys, limits the number of keys": with nobody in the middle of
\* a call, the block store holds at most Capacity keys.
StoreWithinCapacity == Quiescent => Cardinality(live) <= Capacity

\* "Walk all the keys of the block": a restart keeps the keys that exist, as
\* long as the file has records of at most Capacity keys.  (With records of more,
\* deleted ones, the replay evicts keys that would fit.)
RestartKeepsKeys ==
    ~Serving /\ Cardinality({log[i].key : i \in 1..Len(log)}) <= Capacity
        => live = initial

\* Initiate returns, although the evictions it causes append records to the
\* very file it is reading.
InitiateEnds == ~Serving ~> Serving
=============================================================================
