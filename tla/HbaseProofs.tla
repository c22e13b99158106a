----------------------------- MODULE HbaseProofs -----------------------------
(***************************************************************************)
(* For any callers and any capacity of the channel: the channel keeps to   *)
(* its capacity, and a client is in it once or held by one operation.      *)
(***************************************************************************)
EXTENDS Hbase, TLAPS, FiniteSetTheorems

Distinct(b) == \A i, j \in 1..Len(b) : b[i] = b[j] => i = j
Within(b) == {b[i] : i \in 1..Len(b)}

LEMMA TailDistinct ==
    ASSUME NEW S, NEW b \in Seq(S), b # << >>, Distinct(b)
    PROVE  /\ Tail(b) \in Seq(S) /\ Head(b) \in S /\ Len(Tail(b)) = Len(b) - 1
           /\ Distinct(Tail(b))
           /\ Head(b) \notin Within(Tail(b))
           /\ Within(b) = Within(Tail(b)) \cup {Head(b)}
<1>1. /\ Tail(b) \in Seq(S) /\ Len(Tail(b)) = Len(b) - 1 /\ Len(b) \in Nat /\ Len(b) > 0
      /\ Head(b) = b[1] /\ b[1] \in S
      /\ \A i \in 1..Len(Tail(b)) : Tail(b)[i] = b[i + 1]
  OBVIOUS
<1>2. Distinct(Tail(b))
  BY <1>1 DEF Distinct
<1>3. Head(b) \notin Within(Tail(b))
  BY <1>1 DEF Distinct, Within
<1>4. ASSUME NEW x \in Within(b) PROVE x \in Within(Tail(b)) \cup {Head(b)}
  <2>1. PICK i \in 1..Len(b) : x = b[i]
    BY DEF Within
  <2>2. CASE i = 1
    BY SMTT(30), <1>1, <2>1, <2>2
  <2>3. CASE i # 1
    <3>1. i - 1 \in 1..Len(Tail(b)) /\ Tail(b)[i - 1] = x
      BY SMTT(30), <1>1, <2>1, <2>3
    <3> QED BY <3>1 DEF Within
  <2> QED BY <2>2, <2>3
<1>5. ASSUME NEW x \in Within(Tail(b)) \cup {Head(b)} PROVE x \in Within(b)
  BY <1>1 DEF Within
<1> QED BY SMTT(30), <1>1, <1>2, <1>3, <1>4, <1>5

LEMMA AppendDistinct ==
    ASSUME NEW S, NEW b \in Seq(S), Distinct(b), NEW x \in S, x \notin Within(b)
    PROVE  /\ Append(b, x) \in Seq(S) /\ Len(Append(b, x)) = Len(b) + 1
           /\ Distinct(Append(b, x))
           /\ Within(Append(b, x)) = Within(b) \cup {x}
<1>1. /\ Append(b, x) \in Seq(S) /\ Len(Append(b, x)) = Len(b) + 1 /\ Len(b) \in Nat
      /\ \A i \in 1..Len(b) : Append(b, x)[i] = b[i]
      /\ Append(b, x)[Len(b) + 1] = x
  OBVIOUS
<1>2. Distinct(Append(b, x))
  BY <1>1 DEF Distinct, Within
<1>3. Within(Append(b, x)) = Within(b) \cup {x}
  BY <1>1 DEF Within
<1> QED BY SMTT(30), <1>1, <1>2, <1>3

Having == {"put", "putting", "use", "release", "give", "giving"}

\* A caller has a client in some places and not in others; the blocked callers are
\* queued once.
Queued ==
    /\ \A p \in Callers : calls[p].client # Nobody <=> calls[p].at \in Having
    /\ Distinct(channel.senders) /\ Distinct(channel.receivers)
    /\ \A p \in Within(channel.senders) : calls[p].at \in {"putting", "giving"}
    /\ \A p \in Within(channel.receivers) : calls[p].at = "taking"

Apart ==
    /\ Distinct(channel.buffer)
    /\ \A p, q \in Callers : Holds(p) /\ calls[p].client = calls[q].client => p = q
    /\ \A p \in Callers : calls[p].client \notin Within(channel.buffer)

HbaseInv == ChannelTypeOK /\ Queued /\ Apart

LEMMA ApartIsHeldByOne == ChannelTypeOK => (Apart <=> HeldByOne)
<1> SUFFICES ASSUME ChannelTypeOK PROVE Apart <=> HeldByOne
  OBVIOUS
<1>1. DOMAIN channel.buffer = 1..Len(channel.buffer)
  BY DEF ChannelTypeOK
<1> QED BY <1>1 DEF Apart, HeldByOne, Distinct, Within, Range

CallRecord == [op : {"none", "operation", "scan", "close"},
          at : {"idle", "check", "put", "putting", "take", "taking", "use", "release", "give", "giving"},
          client : Clients \cup {Nobody}]

LEMMA InitInv == HbaseInit => HbaseInv
<1> SUFFICES ASSUME HbaseInit PROVE HbaseInv
  OBVIOUS
<1>1. /\ MaxActive \in Nat /\ Cardinality(Callers) \in Nat /\ Nobody \notin Nat
      /\ \A i \in 1..MaxActive : i \in Clients
      /\ Nobody \notin Clients
  BY HbaseAssumption, FS_CardinalityType DEF Clients
<1> DEFINE b == [i \in 1..MaxActive |-> i]
<1>2. b \in Seq(Clients) /\ Len(b) = MaxActive /\ \A i \in 1..MaxActive : b[i] = i
  BY <1>1
<1>3. << >> \in Seq(Callers) /\ Len(<< >>) = 0
  OBVIOUS
<1>4. /\ channel = [buffer |-> b, senders |-> << >>, receivers |-> << >>]
      /\ calls = [p \in Callers |-> Quiet]
  BY DEF HbaseInit
<1>5. Distinct(b) /\ Nobody \notin Within(b)
  BY <1>1, <1>2 DEF Distinct, Within
<1> HIDE DEF b
<1>6. Quiet \in CallRecord
  BY DEF Quiet, CallRecord
<1>7. ChannelTypeOK
  BY SMTT(30), <1>1, <1>2, <1>3, <1>4, <1>6 DEF ChannelTypeOK, CallRecord
<1>8. Queued
  BY <1>3, <1>4 DEF Queued, Quiet, Having, Distinct, Within
<1>9. Apart
  BY <1>4, <1>5 DEF Apart, Holds, Quiet
<1> QED BY SMTT(30), <1>7, <1>8, <1>9 DEF HbaseInv

LEMMA Types ==
    ASSUME ChannelTypeOK
    PROVE  /\ channel.buffer \in Seq(Clients) /\ Len(channel.buffer) \in Nat
           /\ Len(channel.buffer) <= MaxActive /\ MaxActive \in Nat
           /\ channel.senders \in Seq(Callers) /\ channel.receivers \in Seq(Callers)
           /\ channel = [buffer |-> channel.buffer, senders |-> channel.senders,
                         receivers |-> channel.receivers]
           /\ calls \in [Callers -> CallRecord]
           /\ Nobody \notin Clients
<1>1. Nobody \notin Clients /\ MaxActive \in Nat
  BY SMTT(30), HbaseAssumption, FS_CardinalityType DEF Clients
<1> QED BY <1>1 DEF ChannelTypeOK, CallRecord

\* A step of one caller that is not blocked and leaves the channel alone.
LEMMA LocalInv ==
    ASSUME HbaseInv, NEW p \in Callers, NEW c \in CallRecord,
           calls' = [calls EXCEPT ![p] = c], UNCHANGED channel,
           calls[p].at \notin {"putting", "giving", "taking"},
           c.client # Nobody <=> c.at \in Having,
           c.client \in {calls[p].client, Nobody} \/ c.client \notin InUse
    PROVE  HbaseInv'
<1>1. /\ calls \in [Callers -> CallRecord] /\ Nobody \notin Clients
      /\ channel.buffer \in Seq(Clients) /\ DOMAIN channel.buffer = 1..Len(channel.buffer)
  BY Types DEF HbaseInv
<1>2. calls'[p] = c /\ \A q \in Callers \ {p} : calls'[q] = calls[q]
  BY <1>1
<1>3. ChannelTypeOK'
  BY <1>1 DEF HbaseInv, ChannelTypeOK, CallRecord
<1>4. Queued'
  <2>1. \A q \in Callers : calls'[q].client # Nobody <=> calls'[q].at \in Having
    BY <1>2 DEF HbaseInv, Queued
  <2>2. \A q \in Within(channel.senders) : q \in Callers /\ calls[q].at \in {"putting", "giving"}
    BY Types DEF HbaseInv, Queued, Within
  <2>3. \A q \in Within(channel.receivers) : q \in Callers /\ calls[q].at = "taking"
    BY Types DEF HbaseInv, Queued, Within
  <2> QED BY SMTT(30), <1>2, <2>1, <2>2, <2>3 DEF HbaseInv, Queued
<1>5. Apart'
  <2>1. /\ \A q \in Callers : c.client = calls[q].client /\ c.client # Nobody => q = p
        /\ c.client \notin Within(channel.buffer)
    <3>1. CASE c.client \notin InUse
      BY SMTT(30), <1>1, <3>1 DEF InUse, Range, Within
    <3>2. CASE c.client = calls[p].client
      BY <3>2 DEF HbaseInv, Apart, Holds
    <3>3. CASE c.client = Nobody
      BY SMTT(30), <1>1, <3>3 DEF Within
    <3> QED BY SMTT(30), <3>1, <3>2, <3>3
  <2> QED BY SMTT(30), <1>2, <2>1 DEF HbaseInv, Apart, Holds
<1> QED BY SMTT(30), <1>3, <1>4, <1>5 DEF HbaseInv

\* Where a caller goes after its client was sent.
LEMMA SentType ==
    ASSUME NEW c \in CallRecord
    PROVE  /\ Sent(c) \in CallRecord /\ Sent(c).client = Nobody
           /\ Sent(c).at \in {"take", "check", "idle"}
BY Zenon DEF Sent, Quiet, CallRecord

LEMMA OthersInv ==
    ASSUME HbaseInv, NEW p \in Callers,
           \/ \E op \in {"operation", "scan", "close"} : Call(p, op)
           \/ GetChecks(p) \/ Operate(p) \/ ReleaseChecks(p)
    PROVE  HbaseInv'
<1>1. calls \in [Callers -> CallRecord] /\ calls[p] \in CallRecord /\ Nobody \notin Clients
  BY Types DEF HbaseInv
<1>2. calls[p].client # Nobody <=> calls[p].at \in Having
  BY DEF HbaseInv, Queued
<1>3. ASSUME NEW op \in {"operation", "scan", "close"}, Call(p, op) PROVE HbaseInv'
  <2> DEFINE c == [op |-> op, at |-> "check", client |-> Nobody]
  <2>1. c \in CallRecord /\ c.client = Nobody /\ c.at \notin Having
    BY DEF CallRecord, Having
  <2>2. /\ calls' = [calls EXCEPT ![p] = c] /\ UNCHANGED channel
        /\ calls[p].at \notin {"putting", "giving", "taking"}
    BY <1>3 DEF Call
  <2> HIDE DEF c
  <2> QED BY Zenon, <2>1, <2>2, LocalInv
<1>4. ASSUME GetChecks(p) PROVE HbaseInv'
  <2>1. UNCHANGED channel /\ calls[p].at = "check"
    BY <1>4 DEF GetChecks
  <2>2. ASSUME NEW x \in Clients \ InUse, calls' = [calls EXCEPT ![p].at = "put", ![p].client = x]
        PROVE  HbaseInv'
    <3> DEFINE c == [calls[p] EXCEPT !.at = "put", !.client = x]
    <3>1. c \in CallRecord /\ c.client = x /\ c.at \in Having
      BY Zenon, <1>1 DEF CallRecord, Having
    <3>2. calls' = [calls EXCEPT ![p] = c]
      BY Zenon, <1>1, <2>2
    <3> HIDE DEF c
    <3> QED BY Zenon, <1>1, <2>1, <3>1, <3>2, LocalInv
  <2>3. ASSUME calls' = [calls EXCEPT ![p].at = "take"] PROVE HbaseInv'
    <3> DEFINE c == [calls[p] EXCEPT !.at = "take"]
    <3>1. c \in CallRecord /\ c.client = Nobody /\ c.at \notin Having
      BY <1>1, <1>2, <2>1 DEF CallRecord, Having
    <3>2. calls' = [calls EXCEPT ![p] = c]
      BY SMTT(30), <1>1, <2>3
    <3> HIDE DEF c
    <3> QED BY Zenon, <2>1, <3>1, <3>2, LocalInv
  <2> QED BY <1>4, <2>2, <2>3 DEF GetChecks
<1>5. ASSUME NEW at \in {"release", "give"}, calls' = [calls EXCEPT ![p].at = at], UNCHANGED channel,
             calls[p].at \in {"use", "release"}
      PROVE  HbaseInv'
  <2> DEFINE c == [calls[p] EXCEPT !.at = at]
  <2>1. c \in CallRecord /\ c.client = calls[p].client /\ c.client # Nobody /\ c.at \in Having
    BY <1>1, <1>2, <1>5 DEF CallRecord, Having
  <2>2. calls' = [calls EXCEPT ![p] = c]
    BY <1>1, <1>5
  <2> HIDE DEF c
  <2> QED BY Zenon, <1>5, <2>1, <2>2, LocalInv
<1>6. ASSUME calls' = [calls EXCEPT ![p] = Sent(@)], UNCHANGED channel, calls[p].at = "release"
      PROVE  HbaseInv'
  <2> DEFINE c == Sent(calls[p])
  <2>1. c \in CallRecord /\ c.client = Nobody /\ c.at \notin Having
    BY <1>1, SentType DEF Having
  <2>2. calls' = [calls EXCEPT ![p] = c]
    BY <1>6
  <2> HIDE DEF c
  <2> QED BY Zenon, <1>6, <2>1, <2>2, LocalInv
<1>7. Operate(p) => HbaseInv'
  BY <1>5 DEF Operate
<1>8. ReleaseChecks(p) => HbaseInv'
  BY SMTT(30), <1>5, <1>6 DEF ReleaseChecks
<1> QED BY <1>3, <1>4, <1>7, <1>8

\* The facts about the queues and the callers in a state of the invariant.
LEMMA Facts ==
    ASSUME HbaseInv
    PROVE  /\ \A q \in Within(channel.senders) : /\ q \in Callers
                                                 /\ calls[q].at \in {"putting", "giving"}
                                                 /\ calls[q].client # Nobody
           /\ \A q \in Within(channel.receivers) : /\ q \in Callers
                                                   /\ calls[q].at = "taking"
                                                   /\ calls[q].client = Nobody
           /\ Distinct(channel.senders) /\ Distinct(channel.receivers) /\ Distinct(channel.buffer)
           /\ \A q \in Callers : calls[q].client # Nobody => calls[q].client \in Clients
<1>1. /\ \A q \in Within(channel.senders) : q \in Callers
      /\ \A q \in Within(channel.receivers) : q \in Callers
  BY Types DEF HbaseInv, Within
<1>2. \A q \in Callers : calls[q] \in CallRecord
  BY Types DEF HbaseInv
<1> QED BY SMTT(30), <1>1, <1>2 DEF HbaseInv, Queued, Apart, Having, CallRecord

\* After a step that moves clients between callers and the channel, no client is in
\* two places, if it was so for the clients that are in new places.
LEMMA ApartAgain ==
    ASSUME Distinct(channel'.buffer),
           \A r, t \in Callers : calls'[r].client # Nobody /\ calls'[r].client = calls'[t].client => r = t,
           \A r \in Callers : calls'[r].client \notin Within(channel'.buffer)
    PROVE  Apart'
BY DEF Apart, Holds

LEMMA HadApart ==
    ASSUME HbaseInv
    PROVE  /\ \A r, t \in Callers : calls[r].client # Nobody /\ calls[r].client = calls[t].client => r = t
           /\ \A r \in Callers : calls[r].client \notin Within(channel.buffer)
           /\ Nobody \notin Within(channel.buffer)
<1>1. Nobody \notin Within(channel.buffer)
  BY Types DEF HbaseInv, Within
<1> QED BY <1>1 DEF HbaseInv, Apart, Holds

LEMMA SendInv == ASSUME HbaseInv, NEW p \in Callers, Send(p) PROVE HbaseInv'
<1>1. /\ calls \in [Callers -> CallRecord] /\ calls[p] \in CallRecord /\ Nobody \notin Clients
      /\ calls[p].at \in {"put", "give"}
  BY SMTT(30), Types DEF HbaseInv, Send
<1>2. calls[p].client # Nobody /\ calls[p].client \in Clients
  BY SMTT(30), <1>1, Facts DEF HbaseInv, Queued, Having
<1> DEFINE c == Sent(calls[p])
<1>3. c \in CallRecord /\ c.client = Nobody /\ c.at \in {"take", "check", "idle"}
  BY SMTT(30), <1>1, SentType
<1>4. CASE channel.receivers # << >>
  <2> DEFINE q == Head(channel.receivers)
             u == [calls[q] EXCEPT !.at = "use", !.client = calls[p].client]
  <2>1. /\ q \in Within(channel.receivers) /\ q \in Callers
        /\ Tail(channel.receivers) \in Seq(Callers) /\ Distinct(Tail(channel.receivers))
        /\ q \notin Within(Tail(channel.receivers))
        /\ Within(channel.receivers) = Within(Tail(channel.receivers)) \cup {q}
    BY SMTT(30), <1>4, Types, Facts, TailDistinct DEF HbaseInv
  <2>2. q # p /\ calls[q].client = Nobody /\ calls[q] \in CallRecord
    BY SMTT(30), <1>1, <2>1, Facts
  <2>3. u \in CallRecord /\ u.at = "use" /\ u.client = calls[p].client
    BY Zenon, <1>2, <2>2 DEF CallRecord
  <2>4. /\ channel' = [channel EXCEPT !.receivers = Tail(@)]
        /\ calls' = [calls EXCEPT ![p] = Sent(@), ![q].at = "use", ![q].client = calls[p].client]
    BY <1>4 DEF Send
  <2>5. calls' = [calls EXCEPT ![p] = c, ![q] = u]
    BY Zenon, <1>1, <2>1, <2>2, <2>4
  <2>6. /\ channel'.buffer = channel.buffer /\ channel'.senders = channel.senders
        /\ channel'.receivers = Tail(channel.receivers)
        /\ channel' \in [buffer : Seq(Clients), senders : Seq(Callers), receivers : Seq(Callers)]
    BY Zenon, <2>1, <2>4, Types DEF HbaseInv, ChannelTypeOK
  <2> HIDE DEF q, u, c
  <2>7. /\ calls' \in [Callers -> CallRecord] /\ calls'[p] = c /\ calls'[q] = u
        /\ \A r \in Callers \ {p, q} : calls'[r] = calls[r]
    BY <1>1, <1>3, <2>1, <2>2, <2>3, <2>5
  <2>8. ChannelTypeOK'
    BY SMTT(30), <2>6, <2>7 DEF HbaseInv, ChannelTypeOK, CallRecord
  <2>9. Queued'
    <3>1. \A r \in Callers : calls'[r].client # Nobody <=> calls'[r].at \in Having
      BY SMTT(30), <1>2, <1>3, <2>3, <2>7 DEF HbaseInv, Queued, Having
    <3>2. \A r \in Within(channel.senders) : calls'[r].at \in {"putting", "giving"}
      BY SMTT(30), <1>1, <2>1, <2>7, Facts
    <3>3. \A r \in Within(Tail(channel.receivers)) : calls'[r].at = "taking"
      BY SMTT(30), <1>1, <2>1, <2>7, Facts
    <3> QED BY SMTT(30), <2>1, <2>6, <3>1, <3>2, <3>3, Facts DEF Queued
  <2>10. Apart'
    <3>1. /\ calls'[p].client = Nobody /\ calls'[q].client = calls[p].client
          /\ \A r \in Callers \ {p, q} : calls'[r].client = calls[r].client
      BY SMTT(30), <1>3, <2>3, <2>7
    <3>2. \A r, t \in Callers :
              calls'[r].client # Nobody /\ calls'[r].client = calls'[t].client => r = t
      BY SMTT(30), <1>2, <3>1, HadApart
    <3>3. \A r \in Callers : calls'[r].client \notin Within(channel.buffer)
      BY SMTT(30), <3>1, HadApart
    <3> QED BY SMTT(30), <2>6, <3>2, <3>3, Facts, ApartAgain
  <2> QED BY SMTT(30), <2>8, <2>9, <2>10 DEF HbaseInv
<1>5. CASE channel.receivers = << >> /\ Len(channel.buffer) < MaxActive
  <2> DEFINE x == calls[p].client
  <2>1. /\ channel' = [channel EXCEPT !.buffer = Append(@, x)]
        /\ calls' = [calls EXCEPT ![p] = c]
    BY <1>5 DEF Send
  <2>2. x \notin Within(channel.buffer) /\ \A r \in Callers \ {p} : calls[r].client # x
    BY <1>2 DEF HbaseInv, Apart, Holds
  <2>3. /\ Append(channel.buffer, x) \in Seq(Clients)
        /\ Len(Append(channel.buffer, x)) = Len(channel.buffer) + 1
        /\ Distinct(Append(channel.buffer, x))
        /\ Within(Append(channel.buffer, x)) = Within(channel.buffer) \cup {x}
    BY SMTT(30), <1>2, <2>2, Types, Facts, AppendDistinct DEF HbaseInv
  <2> HIDE DEF x, c
  <2>4. /\ channel'.buffer = Append(channel.buffer, x)
        /\ channel'.senders = channel.senders /\ channel'.receivers = channel.receivers
        /\ channel' \in [buffer : Seq(Clients), senders : Seq(Callers), receivers : Seq(Callers)]
    BY Zenon, <2>1, <2>3, Types DEF HbaseInv, ChannelTypeOK
  <2>5. /\ calls' \in [Callers -> CallRecord] /\ calls'[p] = c
        /\ \A r \in Callers \ {p} : calls'[r] = calls[r]
    BY <1>1, <1>3, <2>1
  <2>6. ChannelTypeOK'
    BY <1>5, <2>3, <2>4, <2>5, Types DEF HbaseInv, ChannelTypeOK, CallRecord
  <2>7. Queued'
    <3>1. \A r \in Callers : calls'[r].client # Nobody <=> calls'[r].at \in Having
      BY SMTT(30), <1>3, <2>5 DEF HbaseInv, Queued, Having
    <3>2. \A r \in Within(channel.senders) : calls'[r].at \in {"putting", "giving"}
      BY SMTT(30), <1>1, <2>5, Facts
    <3>3. \A r \in Within(channel.receivers) : calls'[r].at = "taking"
      BY SMTT(30), <1>1, <2>5, Facts
    <3> QED BY SMTT(30), <2>4, <3>1, <3>2, <3>3, Facts DEF Queued
  <2>8. Apart'
    <3>1. calls'[p].client = Nobody /\ \A r \in Callers \ {p} : calls'[r].client = calls[r].client
      BY SMTT(30), <1>3, <2>5
    <3>2. \A r, t \in Callers :
              calls'[r].client # Nobody /\ calls'[r].client = calls'[t].client => r = t
      BY SMTT(30), <3>1, HadApart
    <3>3. \A r \in Callers : calls'[r].client \notin Within(channel'.buffer)
      BY SMTT(30), <1>2, <2>2, <2>3, <2>4, <3>1, HadApart DEF x
    <3> QED BY SMTT(30), <2>3, <2>4, <3>2, <3>3, ApartAgain
  <2> QED BY SMTT(30), <2>6, <2>7, <2>8 DEF HbaseInv
<1>6. CASE channel.receivers = << >> /\ ~ Len(channel.buffer) < MaxActive
  <2> DEFINE at == IF calls[p].at = "put" THEN "putting" ELSE "giving"
             u == [calls[p] EXCEPT !.at = at]
  <2>1. /\ channel' = [channel EXCEPT !.senders = Append(@, p)]
        /\ calls' = [calls EXCEPT ![p] = u]
    BY SMTT(30), <1>1, <1>6 DEF Send
  <2>2. u \in CallRecord /\ u.at \in {"putting", "giving"} /\ u.client = calls[p].client
    BY SMTT(30), <1>1 DEF CallRecord
  <2>3. p \notin Within(channel.senders) /\ p \notin Within(channel.receivers)
    BY SMTT(30), <1>1, Facts
  <2>4. /\ Append(channel.senders, p) \in Seq(Callers) /\ Distinct(Append(channel.senders, p))
        /\ Within(Append(channel.senders, p)) = Within(channel.senders) \cup {p}
    BY SMTT(30), <2>3, Types, Facts, AppendDistinct DEF HbaseInv
  <2> HIDE DEF u
  <2>5. /\ channel'.buffer = channel.buffer /\ channel'.receivers = channel.receivers
        /\ channel'.senders = Append(channel.senders, p)
        /\ channel' \in [buffer : Seq(Clients), senders : Seq(Callers), receivers : Seq(Callers)]
    BY Zenon, <2>1, <2>4, Types DEF HbaseInv, ChannelTypeOK
  <2>6. /\ calls' \in [Callers -> CallRecord] /\ calls'[p] = u
        /\ \A r \in Callers \ {p} : calls'[r] = calls[r]
    BY <1>1, <2>1, <2>2
  <2>7. ChannelTypeOK'
    BY <2>5, <2>6 DEF HbaseInv, ChannelTypeOK, CallRecord
  <2>8. Queued'
    <3>1. \A r \in Callers : calls'[r].client # Nobody <=> calls'[r].at \in Having
      BY SMTT(30), <1>2, <2>2, <2>6 DEF HbaseInv, Queued, Having
    <3>2. \A r \in Within(channel'.senders) : calls'[r].at \in {"putting", "giving"}
      BY SMTT(30), <2>2, <2>4, <2>5, <2>6, Facts
    <3>3. \A r \in Within(channel.receivers) : calls'[r].at = "taking"
      BY SMTT(30), <2>3, <2>6, Facts
    <3> QED BY SMTT(30), <2>4, <2>5, <3>1, <3>2, <3>3, Facts DEF Queued
  <2>9. Apart'
    <3>1. \A r \in Callers : calls'[r].client = calls[r].client
      BY SMTT(30), <2>2, <2>6
    <3> QED BY SMTT(30), <2>5, <3>1, HadApart, Facts, ApartAgain
  <2> QED BY SMTT(30), <2>7, <2>8, <2>9 DEF HbaseInv
<1> QED BY SMTT(30), <1>4, <1>5, <1>6

LEMMA TakeInv == ASSUME HbaseInv, NEW p \in Callers, Take(p) PROVE HbaseInv'
<1>1. /\ calls \in [Callers -> CallRecord] /\ calls[p] \in CallRecord /\ Nobody \notin Clients
      /\ calls[p].at = "take"
  BY SMTT(30), Types DEF HbaseInv, Take
<1>2. calls[p].client = Nobody
  BY SMTT(30), <1>1 DEF HbaseInv, Queued, Having
<1>3. p \notin Within(channel.senders) /\ p \notin Within(channel.receivers)
  BY SMTT(30), <1>1, Facts
<1>4. CASE channel.buffer = << >>
  <2> DEFINE u == [calls[p] EXCEPT !.at = "taking"]
  <2>1. /\ channel' = [channel EXCEPT !.receivers = Append(@, p)]
        /\ calls' = [calls EXCEPT ![p] = u]
    BY SMTT(30), <1>1, <1>4 DEF Take
  <2>2. u \in CallRecord /\ u.at = "taking" /\ u.client = Nobody
    BY SMTT(30), <1>1, <1>2 DEF CallRecord
  <2>3. /\ Append(channel.receivers, p) \in Seq(Callers) /\ Distinct(Append(channel.receivers, p))
        /\ Within(Append(channel.receivers, p)) = Within(channel.receivers) \cup {p}
    BY SMTT(30), <1>3, Types, Facts, AppendDistinct DEF HbaseInv
  <2> HIDE DEF u
  <2>4. /\ channel'.buffer = channel.buffer /\ channel'.senders = channel.senders
        /\ channel'.receivers = Append(channel.receivers, p)
        /\ channel' \in [buffer : Seq(Clients), senders : Seq(Callers), receivers : Seq(Callers)]
    BY Zenon, <2>1, <2>3, Types DEF HbaseInv, ChannelTypeOK
  <2>5. /\ calls' \in [Callers -> CallRecord] /\ calls'[p] = u
        /\ \A r \in Callers \ {p} : calls'[r] = calls[r]
    BY <1>1, <2>1, <2>2
  <2>6. ChannelTypeOK'
    BY <2>4, <2>5 DEF HbaseInv, ChannelTypeOK, CallRecord
  <2>7. Queued'
    <3>1. \A r \in Callers : calls'[r].client # Nobody <=> calls'[r].at \in Having
      BY SMTT(30), <2>2, <2>5 DEF HbaseInv, Queued, Having
    <3>2. \A r \in Within(channel.senders) : calls'[r].at \in {"putting", "giving"}
      BY SMTT(30), <1>3, <2>5, Facts
    <3>3. \A r \in Within(channel'.receivers) : calls'[r].at = "taking"
      BY SMTT(30), <2>2, <2>3, <2>4, <2>5, Facts
    <3> QED BY SMTT(30), <2>3, <2>4, <3>1, <3>2, <3>3, Facts DEF Queued
  <2>8. Apart'
    <3>1. \A r \in Callers : calls'[r].client = calls[r].client
      BY SMTT(30), <1>2, <2>2, <2>5
    <3> QED BY SMTT(30), <2>4, <3>1, HadApart, Facts, ApartAgain
  <2> QED BY SMTT(30), <2>6, <2>7, <2>8 DEF HbaseInv
<1> DEFINE x == Head(channel.buffer)
           rest == Tail(channel.buffer)
           u == [calls[p] EXCEPT !.at = "use", !.client = x]
<1>5. ASSUME channel.buffer # << >>
      PROVE  /\ rest \in Seq(Clients) /\ Len(rest) = Len(channel.buffer) - 1 /\ Distinct(rest)
             /\ x \in Clients /\ x # Nobody
             /\ x \notin Within(rest) /\ Within(channel.buffer) = Within(rest) \cup {x}
             /\ \A r \in Callers : calls[r].client # x
             /\ u \in CallRecord /\ u.at = "use" /\ u.client = x
  <2>1. /\ rest \in Seq(Clients) /\ Len(rest) = Len(channel.buffer) - 1 /\ Distinct(rest)
        /\ x \in Clients /\ x \notin Within(rest) /\ Within(channel.buffer) = Within(rest) \cup {x}
    BY SMTT(30), <1>5, Types, Facts, TailDistinct DEF HbaseInv
  <2>2. \A r \in Callers : calls[r].client # x
    BY SMTT(30), <2>1, HadApart
  <2>3. u \in CallRecord /\ u.at = "use" /\ u.client = x
    BY Zenon, <1>1, <2>1 DEF CallRecord
  <2> QED BY SMTT(30), <1>1, <2>1, <2>2, <2>3
<1>6. CASE channel.buffer # << >> /\ channel.senders = << >>
  <2>1. /\ channel' = [channel EXCEPT !.buffer = rest]
        /\ calls' = [calls EXCEPT ![p] = u]
    BY Zenon, <1>1, <1>6 DEF Take
  <2> HIDE DEF x, rest, u
  <2>2. /\ channel'.buffer = rest
        /\ channel'.senders = channel.senders /\ channel'.receivers = channel.receivers
        /\ channel' \in [buffer : Seq(Clients), senders : Seq(Callers), receivers : Seq(Callers)]
    BY Zenon, <1>5, <1>6, <2>1, Types DEF HbaseInv, ChannelTypeOK
  <2>3. /\ calls' \in [Callers -> CallRecord] /\ calls'[p] = u
        /\ \A r \in Callers \ {p} : calls'[r] = calls[r]
    BY <1>1, <1>5, <1>6, <2>1
  <2>4. ChannelTypeOK'
    BY SMTT(30), <1>5, <1>6, <2>2, <2>3, Types DEF HbaseInv, ChannelTypeOK, CallRecord
  <2>5. Queued'
    <3>1. \A r \in Callers : calls'[r].client # Nobody <=> calls'[r].at \in Having
      BY SMTT(30), <1>5, <1>6, <2>3 DEF HbaseInv, Queued, Having
    <3>2. \A r \in Within(channel.senders) : calls'[r].at \in {"putting", "giving"}
      BY SMTT(30), <1>3, <2>3, Facts
    <3>3. \A r \in Within(channel.receivers) : calls'[r].at = "taking"
      BY SMTT(30), <1>3, <2>3, Facts
    <3> QED BY SMTT(30), <2>2, <3>1, <3>2, <3>3, Facts DEF Queued
  <2>6. Apart'
    <3>1. calls'[p].client = x /\ \A r \in Callers \ {p} : calls'[r].client = calls[r].client
      BY SMTT(30), <1>5, <1>6, <2>3
    <3>2. \A r, t \in Callers :
              calls'[r].client # Nobody /\ calls'[r].client = calls'[t].client => r = t
      BY SMTT(30), <1>5, <1>6, <3>1, HadApart
    <3>3. \A r \in Callers : calls'[r].client \notin Within(rest)
      BY SMTT(30), <1>5, <1>6, <3>1, HadApart
    <3> QED BY SMTT(30), <1>5, <1>6, <2>2, <3>2, <3>3, ApartAgain
  <2> QED BY SMTT(30), <2>4, <2>5, <2>6 DEF HbaseInv
<1>7. CASE channel.buffer # << >> /\ channel.senders # << >>
  <2> DEFINE first == Head(channel.senders)
             y == calls[first].client
             c == Sent(calls[first])
             queue == Tail(channel.senders)
             buffer == Append(rest, y)
  <2>1. /\ first \in Callers /\ first \in Within(channel.senders)
        /\ queue \in Seq(Callers) /\ Distinct(queue)
        /\ first \notin Within(queue) /\ Within(channel.senders) = Within(queue) \cup {first}
    BY SMTT(30), <1>7, Types, Facts, TailDistinct DEF HbaseInv
  <2>2. first # p /\ y # Nobody /\ y \in Clients /\ y \notin Within(rest) /\ y # x
    BY SMTT(30), <1>3, <1>5, <1>7, <2>1, Facts, HadApart
  <2>3. /\ buffer \in Seq(Clients) /\ Len(buffer) = Len(channel.buffer) /\ Distinct(buffer)
        /\ Within(buffer) = Within(rest) \cup {y}
    <3> HIDE DEF rest, y
    <3> QED BY SMTT(30), <1>5, <1>7, <2>2, Types, AppendDistinct DEF HbaseInv
  <2>4. c \in CallRecord /\ c.client = Nobody /\ c.at \in {"take", "check", "idle"}
    BY SMTT(30), <1>1, <2>1, SentType
  <2>5. /\ channel' = [channel EXCEPT !.senders = Tail(@), !.buffer = Append(Tail(@), y)]
        /\ calls' = [calls EXCEPT ![p].at = "use", ![p].client = x, ![first] = Sent(@)]
    BY SMTT(30), <1>7 DEF Take
  <2>6. calls' = [calls EXCEPT ![p] = u, ![first] = c]
    BY Zenon, <1>1, <2>1, <2>2, <2>5
  <2>7. /\ channel'.buffer = buffer /\ channel'.senders = queue
        /\ channel'.receivers = channel.receivers
    BY <2>5, Types DEF HbaseInv
  <2>8. channel' \in [buffer : Seq(Clients), senders : Seq(Callers), receivers : Seq(Callers)]
    BY Zenon, <2>1, <2>3, <2>5, Types DEF HbaseInv, ChannelTypeOK
  <2> HIDE DEF x, rest, u, first, y, c, queue, buffer
  <2>9. /\ calls' \in [Callers -> CallRecord] /\ calls'[p] = u /\ calls'[first] = c
        /\ \A r \in Callers \ {p, first} : calls'[r] = calls[r]
    BY <1>1, <1>5, <1>7, <2>1, <2>2, <2>4, <2>6
  <2>10. ChannelTypeOK'
    BY SMTT(30), <2>3, <2>7, <2>8, <2>9, Types DEF HbaseInv, ChannelTypeOK, CallRecord
  <2>11. Queued'
    <3>1. \A r \in Callers : calls'[r].client # Nobody <=> calls'[r].at \in Having
      BY SMTT(30), <1>5, <1>7, <2>4, <2>9 DEF HbaseInv, Queued, Having
    <3>2. \A r \in Within(queue) : calls'[r].at \in {"putting", "giving"}
      BY SMTT(30), <1>3, <2>1, <2>9, Facts
    <3>3. \A r \in Within(channel.receivers) : calls'[r].at = "taking"
      BY SMTT(30), <1>3, <2>1, <2>9, Facts
    <3> QED BY SMTT(30), <2>1, <2>7, <3>1, <3>2, <3>3, Facts DEF Queued
  <2>12. Apart'
    <3>1. /\ calls'[p].client = x /\ calls'[first].client = Nobody
          /\ \A r \in Callers \ {p, first} : calls'[r].client = calls[r].client
      BY SMTT(30), <1>5, <1>7, <2>4, <2>9
    <3>2. \A r, t \in Callers :
              calls'[r].client # Nobody /\ calls'[r].client = calls'[t].client => r = t
      BY SMTT(30), <1>5, <1>7, <3>1, HadApart
    <3>3. \A r \in Callers \ {p, first} : calls[r].client # y
      BY SMTT(30), <2>1, <2>2, HadApart DEF y
    <3>4. \A r \in Callers : calls'[r].client \notin Within(buffer)
      BY SMTT(30), <1>5, <1>7, <2>2, <2>3, <3>1, <3>3, HadApart
    <3> QED BY SMTT(30), <2>3, <2>7, <3>2, <3>4, ApartAgain
  <2> QED BY SMTT(30), <2>10, <2>11, <2>12 DEF HbaseInv
<1> QED BY SMTT(30), <1>4, <1>6, <1>7

LEMMA ScannersStep ==
    ASSUME scanners \subseteq Callers, [HbaseNext]_hbaseVars
    PROVE  scanners' \subseteq Callers
<1>1. \/ UNCHANGED scanners
      \/ \E p \in Callers : scanners' = scanners \cup {p} \/ scanners' = scanners \ {p}
  BY Zenon DEF HbaseNext, CallerStep, Call, GetChecks, Send, Take, Operate, ReleaseChecks, ScannerClose, hbaseVars
<1> QED BY SMTT(30), <1>1

LEMMA StepInv == HbaseInv /\ [HbaseNext]_hbaseVars => HbaseInv'
<1> SUFFICES ASSUME HbaseInv, [HbaseNext]_hbaseVars PROVE HbaseInv'
  OBVIOUS
<1>1. CASE UNCHANGED <<channel, calls>>
  BY <1>1 DEF HbaseInv, ChannelTypeOK, Queued, Apart, Holds
<1>2. CASE UNCHANGED hbaseVars
  BY SMTT(30), <1>1, <1>2 DEF hbaseVars
<1>3. ASSUME NEW p \in Callers, ScannerClose(p) PROVE HbaseInv'
  BY SMTT(30), <1>1, <1>3 DEF ScannerClose
<1> QED BY SMTT(30), <1>2, <1>3, OthersInv, SendInv, TakeInv DEF HbaseNext, CallerStep

\* For any number of operations at once and any capacity, the channel of clients in
\* habase.go keeps to its capacity, although its length is checked before a client is sent.
THEOREM HbaseTypeTheorem == HbaseSpec => []HbaseTypeOK
<1>1. HbaseInit => HbaseTypeOK
  BY InitInv DEF HbaseInv, HbaseTypeOK, HbaseInit
<1>2. HbaseTypeOK /\ HbaseInv /\ [HbaseNext]_hbaseVars => HbaseTypeOK'
  BY SMTT(30), StepInv, ScannersStep DEF HbaseInv, HbaseTypeOK
<1> QED BY InitInv, StepInv, <1>1, <1>2, PTL DEF HbaseSpec

\* For any number of operations at once and any capacity, no two operations hold the
\* same client between GetHandler and ReleaseHandler, and none holds one that is in the
\* channel, with scanners open or not.
THEOREM HeldByOneTheorem == HbaseSpec => []HeldByOne
<1>1. HbaseInv => HeldByOne
  BY ApartIsHeldByOne DEF HbaseInv
<1> QED BY InitInv, StepInv, <1>1, PTL DEF HbaseSpec
=============================================================================
