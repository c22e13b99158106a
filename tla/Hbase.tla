-------------------------------- MODULE Hbase --------------------------------
(***************************************************************************)
(* The clients of an hbase handler, HbaseDatabaseHandler of                *)
(* database/habase.go: a channel of capacity MaxActive, filled when the    *)
(* handler is made.  Each operation takes a client and gives it back; the  *)
(* length of the channel is looked at before sending, in a step of its     *)
(* own.  Scan gives its client back too, and returns a scanner that goes   *)
(* on using it.  Close is an operation that never returns.                 *)
(*                                                                         *)
(* The channel is Go's: senders and receivers that block are queued, and a *)
(* value goes from one to the other in that order.                         *)
(***************************************************************************)
EXTENDS Naturals, Sequences, FiniteSets, SequencesExt

CONSTANTS
    Callers,   \* goroutines that call operations
    Scanning,  \* bound: those of them that call Scan, each with one open scanner
    MaxActive, \* capacity of the channel
    Nobody     \* no client

ASSUME HbaseAssumption == MaxActive \in Nat \ {0} /\ IsFiniteSet(Callers) /\ Nobody \notin Nat

\* Enough for the channel and one client for each caller.  The identity of a client
\* that is closed and dropped is used again.
Clients == 1..(MaxActive + Cardinality(Callers))

VARIABLES
    channel, \* clients in the channel, and the queues of blocked callers
    calls,   \* where each caller is, with its client
    scanners \* callers with an open scanner, which uses the client that its Scan had

hbaseVars == <<channel, calls, scanners>>

Quiet == [op |-> "none", at |-> "idle", client |-> Nobody]

\* NewHandler.
HbaseInit ==
    /\ channel = [buffer |-> [i \in 1..MaxActive |-> i], senders |-> << >>, receivers |-> << >>]
    /\ calls = [p \in Callers |-> Quiet]
    /\ scanners = {}

InUse == Range(channel.buffer) \cup {calls[p].client : p \in Callers}

\* The operations: Get, Put, Delete, Append, Increment and CheckAndPut are one.
Call(p, op) ==
    /\ calls[p].at = "idle"
    /\ op = "scan" => p \in Scanning \ scanners
    /\ calls' = [calls EXCEPT ![p] = [op |-> op, at |-> "check", client |-> Nobody]]
    /\ UNCHANGED <<channel, scanners>>

\* GetHandler looks at the length and makes a client if there is none.
GetChecks(p) ==
    /\ calls[p].at = "check"
    /\ IF channel.buffer = << >>
       THEN \E c \in Clients \ InUse :
                /\ \A d \in Clients \ InUse : c <= d
                /\ calls' = [calls EXCEPT ![p].at = "put", ![p].client = c]
       ELSE calls' = [calls EXCEPT ![p].at = "take"]
    /\ UNCHANGED <<channel, scanners>>

\* A wrong Sent for HeldByOne: GetHandler returns the client that it made and has sent.
SentKept(call) ==
    CASE call.at \in {"put", "putting"} -> [call EXCEPT !.at = "use"]
      [] call.op = "close" -> [call EXCEPT !.at = "check", !.client = Nobody]
      [] OTHER -> Quiet

\* Where a caller goes once its client is sent: GetHandler receives, ReleaseHandler
\* ends the operation, except for Close, which takes the next.
Sent(call) ==
    CASE call.at \in {"put", "putting"} -> [call EXCEPT !.at = "take", !.client = Nobody]
      [] call.op = "close" -> [call EXCEPT !.at = "check", !.client = Nobody]
      [] OTHER -> Quiet

\* A channel send: to a blocked receiver, to the buffer, or p is blocked.
Send(p) ==
    /\ calls[p].at \in {"put", "give"}
    /\ IF channel.receivers # << >>
       THEN /\ channel' = [channel EXCEPT !.receivers = Tail(@)]
            /\ calls' = [calls EXCEPT ![p] = Sent(@),
                             ![Head(channel.receivers)].at = "use",
                             ![Head(channel.receivers)].client = calls[p].client]
       ELSE IF Len(channel.buffer) < MaxActive
       THEN /\ channel' = [channel EXCEPT !.buffer = Append(@, calls[p].client)]
            /\ calls' = [calls EXCEPT ![p] = Sent(@)]
       ELSE /\ channel' = [channel EXCEPT !.senders = Append(@, p)]
            /\ calls' = [calls EXCEPT ![p].at = IF @ = "put" THEN "putting" ELSE "giving"]
    /\ UNCHANGED scanners

\* A wrong Take for OperationsReturn: the last that blocked is the first to go on.
TakeFromLast(p) ==
    /\ calls[p].at = "take"
    /\ channel.buffer # << >>
    /\ IF channel.senders = << >>
       THEN /\ channel' = [channel EXCEPT !.buffer = Tail(@)]
            /\ calls' = [calls EXCEPT ![p].at = "use", ![p].client = Head(channel.buffer)]
       ELSE LET last == Last(channel.senders)
            IN  /\ channel' = [channel EXCEPT !.senders = Front(@),
                                   !.buffer = Append(Tail(@), calls[last].client)]
                /\ calls' = [calls EXCEPT ![p].at = "use", ![p].client = Head(channel.buffer),
                                          ![last] = Sent(@)]
    /\ UNCHANGED scanners

\* A channel receive: the client of the first blocked sender goes to the buffer.
Take(p) ==
    /\ calls[p].at = "take"
    /\ IF channel.buffer = << >>
       THEN /\ channel' = [channel EXCEPT !.receivers = Append(@, p)]
            /\ calls' = [calls EXCEPT ![p].at = "taking"]
       ELSE IF channel.senders = << >>
       THEN /\ channel' = [channel EXCEPT !.buffer = Tail(@)]
            /\ calls' = [calls EXCEPT ![p].at = "use", ![p].client = Head(channel.buffer)]
       ELSE LET first == Head(channel.senders)
            IN  /\ channel' = [channel EXCEPT !.senders = Tail(@),
                                   !.buffer = Append(Tail(@), calls[first].client)]
                /\ calls' = [calls EXCEPT ![p].at = "use", ![p].client = Head(channel.buffer),
                                          ![first] = Sent(@)]
    /\ UNCHANGED scanners

\* The operation ends, with a result, an error or a panic (Get, of a row that
\* exists); the client is released, by Close too, which has closed it.  Scan, unless it
\* fails, leaves a scanner that uses it.
Operate(p) ==
    /\ calls[p].at = "use"
    /\ calls' = [calls EXCEPT ![p].at = "release"]
    /\ \/ UNCHANGED scanners
       \/ calls[p].op = "scan" /\ scanners' = scanners \cup {p}
    /\ UNCHANGED channel

\* Close of a scanner.  Its Next, before that, changes nothing here: it asks the server
\* with the client of its Scan, be that in the channel, closed or another operation's by
\* then; no step of the handler depends on it.
ScannerClose(p) ==
    /\ p \in scanners
    /\ scanners' = scanners \ {p}
    /\ UNCHANGED <<channel, calls>>

\* A wrong ReleaseChecks for ClientsRemain: it drops the client if one more fits.
ReleaseChecksLow(p) ==
    /\ calls[p].at = "release"
    /\ IF Len(channel.buffer) >= MaxActive - 1
       THEN calls' = [calls EXCEPT ![p] = Sent(@)]
       ELSE calls' = [calls EXCEPT ![p].at = "give"]
    /\ UNCHANGED <<channel, scanners>>

\* ReleaseHandler looks at the length, and drops the client if the channel is full.
ReleaseChecks(p) ==
    /\ calls[p].at = "release"
    /\ IF Len(channel.buffer) = MaxActive
       THEN calls' = [calls EXCEPT ![p] = Sent(@)]
       ELSE calls' = [calls EXCEPT ![p].at = "give"]
    /\ UNCHANGED <<channel, scanners>>

CallerStep(p) ==
    GetChecks(p) \/ Send(p) \/ Take(p) \/ Operate(p) \/ ReleaseChecks(p)

HbaseNext ==
    \E p \in Callers : \/ \E op \in {"operation", "scan", "close"} : Call(p, op)
                       \/ CallerStep(p)
                       \/ ScannerClose(p)

HbaseSpec == HbaseInit /\ [][HbaseNext]_hbaseVars

-----------------------------------------------------------------------------
Holds(p) == calls[p].client # Nobody

ChannelTypeOK ==
    /\ channel \in [buffer : Seq(Clients), senders : Seq(Callers), receivers : Seq(Callers)]
    /\ Len(channel.buffer) <= MaxActive
    /\ calls \in [Callers -> [op : {"none", "operation", "scan", "close"},
                              at : {"idle", "check", "put", "putting", "take", "taking", "use",
                                    "release", "give", "giving"},
                              client : Clients \cup {Nobody}]]

HbaseTypeOK == ChannelTypeOK /\ scanners \subseteq Callers

\* GetHandler gives a client to one operation at a time, however the operations
\* interleave: from GetHandler to ReleaseHandler it is in no other one and not in the
\* channel, where it is once at most.  This is of operations: a scanner uses the
\* client of its Scan after that has released it.
HeldByOne ==
    /\ \A i, j \in DOMAIN channel.buffer :
           channel.buffer[i] = channel.buffer[j] => i = j
    /\ \A p, q \in Callers :
           Holds(p) /\ calls[p].client = calls[q].client => p = q
    /\ \A p \in Callers : calls[p].client \notin Range(channel.buffer)

\* The clients that the handler was made with are never used up: whatever lengths the
\* callers saw before they made, sent, received or dropped a client (GetHandler,
\* ReleaseHandler), MaxActive at least are in the channel or with operations, so that
\* one comes to a caller that waits for it.
ClientsRemain == Cardinality(InUse \ {Nobody}) >= MaxActive

\* As long as clients are taken from the channel every operation other than Close
\* returns: a blocked sender is at some time the first.  Without that a caller may
\* be blocked for ever, sending a client to a channel that has filled since it
\* looked at the length.
OperationsReturn ==
    ([]<><<\E p \in Callers : Take(p)>>_hbaseVars) =>
        \A p \in Callers : calls[p].op \in {"operation", "scan"} ~> calls[p].op = "none"
=============================================================================
