---------------------------- MODULE SessionProofs ----------------------------
(***************************************************************************)
(* For any clients, any number of requests at once and any ids: nobody is  *)
(* given the session of somebody else, a saved session expires, and a      *)
(* destroyed one stays destroyed.                                          *)
(***************************************************************************)
EXTENDS Session, TLAPS

Ids == Sids \cup {NoSid}

Places == {"none", "ready", "read", "new", "expire", "regenerate"}

Stores == [id : Ids, direct : BOOLEAN]

Request ==
    [at : Places, client : Clients \cup {NoSid}, cookie : Ids, query : Ids, header : Ids,
     new : Ids, store : Stores, answer : SUBSET Ids]

Jar == [cookie : Ids, given : Ids]

Key == [exists : BOOLEAN, ttl : BOOLEAN]

Fate == [destroyed : BOOLEAN, by : SUBSET Requests]

SessionType ==
    /\ backend \in [Sids -> Key]
    /\ jar \in [Clients -> Jar]
    /\ sessions \in [Requests -> Request]
    /\ owner \in [Sids -> Clients \cup {NoSid}]
    /\ outlived \in [Sids -> Fate]

\* The ids that a request has in any place.
Mentions(q) == {q.cookie, q.query, q.header, q.new, q.store.id} \cup q.answer

\* The ids in the jar of a client.
Kept(j) == {j.cookie, j.given}

\* An id is only where its client's requests, or its client, have it.
Owned ==
    /\ \A q \in Requests : /\ sessions[q].at = "none" => sessions[q] = Unused
                           /\ sessions[q].at # "none" => sessions[q].client \in Clients
                           /\ \A s \in Sids : s \in Mentions(sessions[q]) => owner[s] = sessions[q].client
    /\ \A c \in Clients, s \in Sids : s \in Kept(jar[c]) => owner[s] = c

LEMMA UnusedType == Unused \in Request
BY DEF Unused, NoStore, Store, Stores, Request, Places, Ids

LEMMA UnusedHasNothing == Unused.at = "none" /\ Unused.store.id = NoSid
BY DEF Unused, NoStore, Store

LEMMA InitType == SessionInit => SessionType /\ Owned
<1> SUFFICES ASSUME SessionInit PROVE SessionType /\ Owned
  OBVIOUS
<1>1. NoSid \notin Sids
  BY Zenon, SessionAssumption
<1>2. SessionType
  BY UnusedType DEF SessionInit, SessionType, Missing, Undestroyed, EmptyJar, Jar, Ids, Key, Fate
<1>3. \A q \in Requests, s \in Sids : s \notin Mentions(sessions[q])
  BY <1>1 DEF SessionInit, Mentions, Unused, NoStore, Store
<1>4. \A c \in Clients, s \in Sids : s \notin Kept(jar[c])
  BY <1>1 DEF SessionInit, Kept, EmptyJar
<1>5. \A q \in Requests : sessions[q] = Unused /\ sessions[q].at = "none"
  BY DEF SessionInit, Unused
<1> QED BY <1>2, <1>3, <1>4, <1>5 DEF Owned

\* A command leaves a request as it is but for its place.
LEMMA CommandType ==
    ASSUME SessionType, NEW r \in Requests, NEW at \in Places, Command(r, at)
    PROVE  sessions' \in [Requests -> Request]
<1>1. sessions \in [Requests -> Request]
  BY DEF SessionType
<1> QED BY <1>1 DEF Request, Command

\* A new id, in the request and its response.
LEMMA CarryType ==
    ASSUME NEW q \in Request, NEW s \in Ids, NEW store \in Stores
    PROVE  Carry(q, s, store) \in Request
<1> DEFINE c == IF q.cookie = NoSid THEN s ELSE q.cookie
           h == IF "header" \in enabled THEN s ELSE q.header
<1>1. /\ c \in Ids /\ h \in Ids /\ NoSid \in Ids /\ {s} \in SUBSET Ids
      /\ "ready" \in Places
  BY DEF Request, Ids, Places
<1>2. Carry(q, s, store) = [q EXCEPT !.at = "ready", !.store = store, !.new = NoSid,
                                     !.answer = {s}, !.cookie = c, !.header = h]
  BY DEF Carry, Request
<1> HIDE DEF c, h
<1> QED BY Zenon, <1>1, <1>2 DEF Request

LEMMA StoreType ==
    ASSUME NEW s \in Ids
    PROVE  /\ Store(s) \in Stores
           /\ NoStore \in Stores
           /\ Store(s).id = s /\ NoStore.id = NoSid
BY DEF NoStore, Store, Stores, Ids

LEMMA StepType == SessionType /\ Owned /\ [SessionNext]_sessionVars => SessionType'
<1> SUFFICES ASSUME SessionType, Owned, [SessionNext]_sessionVars PROVE SessionType'
  OBVIOUS
<1>1. ASSUME NEW r \in Requests, NEW c \in Clients, Arrive(r, c) PROVE SessionType'
  <2> DEFINE cookie == jar[c].cookie
             query == IF "query" \in enabled THEN jar[c].given ELSE NoSid
             header == IF "header" \in enabled THEN jar[c].given ELSE NoSid
             q == [Unused EXCEPT !.at = "ready", !.client = c, !.cookie = cookie,
                                 !.query = query, !.header = header]
  <2>1. cookie \in Ids /\ query \in Ids /\ header \in Ids
    BY DEF SessionType, Jar, Ids
  <2>2. q \in Request
    <3> HIDE DEF cookie, query, header
    <3> QED BY Zenon, <2>1, UnusedType DEF Request, Places
  <2>3. sessions' = [sessions EXCEPT ![r] = q]
    BY <1>1 DEF Arrive
  <2>4. sessions' \in [Requests -> Request]
    <3> HIDE DEF q
    <3> QED BY <2>2, <2>3 DEF SessionType
  <2> QED BY <1>1, <2>4 DEF SessionType, Arrive, fixed
<1>2. ASSUME NEW r \in Requests, Respond(r) PROVE SessionType'
  <2>1. sessions' \in [Requests -> Request]
    BY <1>2, UnusedType DEF Respond, SessionType
  <2>2. sessions[r] \in Request /\ sessions[r].client \in Clients
    BY <1>2 DEF Respond, AtRest, Owned, SessionType
  <2>3. jar' \in [Clients -> Jar]
    <3>1. CASE UNCHANGED jar
      BY <3>1 DEF SessionType
    <3>2. ASSUME NEW s \in sessions[r].answer,
                 jar' = [jar EXCEPT ![sessions[r].client] = Keeps(@, s)]
          PROVE  jar' \in [Clients -> Jar]
      <4>1. s \in Ids
        BY <2>2 DEF Request
      <4>2. Keeps(jar[sessions[r].client], s) \in Jar
        BY <2>2, <4>1 DEF Keeps, Jar, SessionType
      <4> QED BY Zenon, <3>2, <4>2 DEF SessionType
    <3> QED BY <1>2, <3>1, <3>2 DEF Respond
  <2>4. outlived' \in [Sids -> Fate]
    BY <1>2 DEF Respond, SessionType, Forget, Fate
  <2> QED BY <1>2, <2>1, <2>3, <2>4 DEF Respond, SessionType, fixed
<1>3. ASSUME NEW r \in Requests, StartChecks(r) \/ GetStore(r) \/ Read(r) \/ GetStoreById(r)
      PROVE  SessionType'
  <2>1. getSid(r) \in Ids
    BY DEF getSid, SessionType, Request
  <2>2. sessions' \in [Requests -> Request]
    <3>1. CASE StartChecks(r) \/ GetStore(r)
      BY <3>1, CommandType DEF StartChecks, GetStore, Places
    <3>2. CASE Read(r)
      <4> DEFINE store == IF Exist(getSid(r)) THEN sessions[r].store ELSE Store(getSid(r))
      <4>1. sessions[r] \in Request /\ store \in Stores
        BY <2>1, StoreType DEF SessionType, Request
      <4>2. sessions' = [sessions EXCEPT ![r].at = "ready", ![r].store = store]
        BY <3>2 DEF Read, SessionType
      <4> HIDE DEF store
      <4> QED BY Zenon, <4>1, <4>2 DEF SessionType, Request, Places
    <3>3. CASE GetStoreById(r)
      <4> DEFINE store == [id |-> getSid(r), direct |-> TRUE]
      <4>1. sessions[r] \in Request /\ store \in Stores
        BY <2>1 DEF SessionType, Stores
      <4>2. sessions' = [sessions EXCEPT ![r].store = store]
        BY <3>3 DEF GetStoreById
      <4> HIDE DEF store
      <4> QED BY <4>1, <4>2 DEF SessionType, Request
    <3> QED BY <1>3, <3>1, <3>2, <3>3
  <2> QED BY <1>3, <2>2 DEF SessionType, StartChecks, GetStore, Read, GetStoreById, fixed
<1>4. ASSUME NEW r \in Requests, StartNew(r) PROVE SessionType'
  <2>1. CASE Command(r, "ready") /\ UNCHANGED owner
    BY <1>4, <2>1, CommandType DEF SessionType, StartNew, Places, fixed
  <2>2. ASSUME NEW s \in Sids, owner' = [owner EXCEPT ![s] = sessions[r].client],
               sessions' = [sessions EXCEPT ![r] = Carry(@, s, Store(s))]
        PROVE  SessionType'
    <3>1. sessions[r] \in Request /\ s \in Ids
      BY DEF SessionType, Ids
    <3>2. Carry(sessions[r], s, Store(s)) \in Request
      BY <3>1, CarryType, StoreType
    <3>3. sessions' \in [Requests -> Request]
      BY <2>2, <3>2 DEF SessionType
    <3>4. owner' \in [Sids -> Clients \cup {NoSid}]
      BY <2>2, <3>1 DEF SessionType, Request
    <3> QED BY <1>4, <3>3, <3>4 DEF SessionType, StartNew, fixed
  <2> QED BY <1>4, <2>1, <2>2 DEF StartNew
<1>5. ASSUME NEW r \in Requests, ReleaseSets(r) PROVE SessionType'
  <2>1. sessions' \in [Requests -> Request]
    BY <1>5, CommandType DEF ReleaseSets, Places
  <2>2. backend' \in [Sids -> Key]
    BY Zenon, <1>5 DEF ReleaseSets, SetKey, SessionType, Key
  <2>3. outlived' \in [Sids -> Fate]
    BY Zenon, <1>5 DEF ReleaseSets, Undestroyed, SessionType, Fate
  <2> QED BY <1>5, <2>1, <2>2, <2>3 DEF SessionType, ReleaseSets, fixed
<1>6. ASSUME NEW r \in Requests, ReleaseExpires(r) PROVE SessionType'
  <2>1. sessions' \in [Requests -> Request]
    BY <1>6, CommandType DEF ReleaseExpires, Places
  <2>2. backend' \in [Sids -> Key]
    BY <1>6 DEF ReleaseExpires, Expire, SessionType, Key
  <2> QED BY <1>6, <2>1, <2>2 DEF SessionType, ReleaseExpires, fixed
<1>7. ASSUME NEW r \in Requests, Destroy(r) PROVE SessionType'
  <2>1. sessions' \in [Requests -> Request]
    <3> DEFINE s == sessions[r].cookie
               answer == CASE s # NoSid /\ "cookie" \in enabled -> {NoSid}
                           [] s = NoSid \/ "header" \in enabled -> {}
                           [] OTHER -> sessions[r].answer
    <3>1. sessions[r] \in Request /\ answer \in SUBSET Ids /\ NoSid \in Ids
      BY DEF SessionType, Request, Ids
    <3>2. sessions' = [sessions EXCEPT ![r].header = NoSid, ![r].answer = answer]
      BY <1>7 DEF Destroy, SessionType
    <3> HIDE DEF answer
    <3> QED BY Zenon, <3>1, <3>2 DEF SessionType, Request
  <2> DEFINE s == sessions[r].cookie
             d == [destroyed |-> TRUE, by |-> {q \in Requests : sessions[q].at # "none"}]
  <2>2. \/ UNCHANGED <<backend, outlived>>
        \/ /\ backend' = [backend EXCEPT ![s] = Missing]
           /\ outlived' = [outlived EXCEPT ![s] = d]
    BY <1>7 DEF Destroy
  <2>3. /\ Missing \in Key
        /\ d \in Fate
    BY DEF Missing, Key, Fate
  <2>4. /\ backend' \in [Sids -> Key]
        /\ outlived' \in [Sids -> Fate]
    <3> HIDE DEF d, s
    <3> QED BY <2>2, <2>3 DEF SessionType
  <2> QED BY <1>7, <2>1, <2>4 DEF SessionType, Destroy, fixed
<1>8. ASSUME NEW r \in Requests, RegenerateID(r) PROVE SessionType'
  <2>1. PICK s \in Sids :
           /\ owner' = [owner EXCEPT ![s] = sessions[r].client]
           /\ \/ \E store \in {NoStore, Store(s)} :
                     sessions' = [sessions EXCEPT ![r] = Carry(@, s, store)] /\ UNCHANGED backend
              \/ /\ SetKey(s)
                 /\ sessions' = [sessions EXCEPT ![r].at = "regenerate", ![r].new = s]
    BY Zenon, <1>8 DEF RegenerateID
  <2>2. sessions[r] \in Request /\ s \in Ids
    BY SMTT(30) DEF SessionType, Ids
  <2>3. owner' \in [Sids -> Clients \cup {NoSid}]
    BY <2>1, <2>2 DEF SessionType, Request
  <2>4. ASSUME NEW store \in {NoStore, Store(s)},
               sessions' = [sessions EXCEPT ![r] = Carry(@, s, store)], UNCHANGED backend
        PROVE  SessionType'
    <3>1. Carry(sessions[r], s, store) \in Request
      BY <2>2, CarryType, StoreType
    <3>2. sessions' \in [Requests -> Request]
      BY <2>4, <3>1 DEF SessionType
    <3> QED BY <1>8, <2>3, <2>4, <3>2 DEF SessionType, RegenerateID, fixed
  <2>5. ASSUME SetKey(s), sessions' = [sessions EXCEPT ![r].at = "regenerate", ![r].new = s]
        PROVE  SessionType'
    <3>1. sessions' \in [Requests -> Request]
      BY Zenon, <2>2, <2>5 DEF SessionType, Request, Places
    <3>2. backend' \in [Sids -> Key]
      BY <2>5 DEF SetKey, SessionType, Key
    <3> QED BY <1>8, <2>3, <3>1, <3>2 DEF SessionType, RegenerateID, fixed
  <2> QED BY <2>1, <2>4, <2>5
<1>9. ASSUME NEW r \in Requests, RegenerateExpires(r) PROVE SessionType'
  <2> DEFINE s == sessions[r].new
             store == IF s \in failed' THEN NoStore ELSE Store(s)
  <2>1. sessions[r] \in Request /\ s \in Ids
    BY DEF SessionType, Request
  <2>2. store \in Stores
    BY <2>1, StoreType
  <2>3. sessions' = [sessions EXCEPT ![r] = Carry(@, s, store)]
    BY <1>9 DEF RegenerateExpires
  <2>4. sessions' \in [Requests -> Request]
    <3> HIDE DEF store, s
    <3> QED BY <2>1, <2>2, <2>3, CarryType DEF SessionType
  <2>5. backend' \in [Sids -> Key]
    BY <1>9 DEF RegenerateExpires, Expire, SessionType, Key
  <2> QED BY <1>9, <2>4, <2>5 DEF SessionType, RegenerateExpires, fixed
<1>10. ASSUME NEW s \in Sids, KeyExpires(s) PROVE SessionType'
  BY <1>10 DEF SessionType, KeyExpires, Missing, Key, fixed
<1>11. CASE SessionCrash
  BY SMTT(30), <1>11, UnusedType DEF SessionType, SessionCrash, Forget, Fate, fixed
<1>12. CASE UNCHANGED sessionVars
  BY <1>12 DEF SessionType, sessionVars
<1> QED BY <1>1, <1>2, <1>3, <1>4, <1>5, <1>6, <1>7, <1>8, <1>9, <1>10, <1>11, <1>12
        DEF SessionNext

-----------------------------------------------------------------------------
\* A request gets an id that it has, or that is generated for it.
LEMMA KeepsOwned ==
    ASSUME SessionType, Owned, NEW r \in Requests, sessions[r].at # "none", NEW q \in Request,
           sessions' = [sessions EXCEPT ![r] = q],
           q.at # "none", q.client = sessions[r].client,
           NEW new \in SUBSET Sids,
           \A s \in new : owner[s] = NoSid /\ owner'[s] = sessions[r].client,
           \A s \in Sids \ new : owner'[s] = owner[s],
           \A s \in Sids : s \in Mentions(q) => s \in new \/ s \in Mentions(sessions[r]),
           UNCHANGED jar
    PROVE  Owned'
<1>1. NoSid \notin Sids /\ NoSid \notin Clients
  BY Zenon, SessionAssumption
<1>2. ASSUME NEW p \in Requests
      PROVE  /\ sessions'[p].at = "none" => sessions'[p] = Unused
             /\ sessions'[p].at # "none" => sessions'[p].client \in Clients
             /\ \A s \in Sids : s \in Mentions(sessions'[p]) => owner'[s] = sessions'[p].client
  <2>1. CASE p = r
    <3>1. sessions'[p] = q
      BY <2>1 DEF SessionType
    <3> QED BY <3>1, <2>1 DEF Owned
  <2>2. CASE p # r
    <3>1. sessions'[p] = sessions[p]
      BY <2>2 DEF SessionType
    <3>2. ASSUME NEW s \in Sids, s \in Mentions(sessions[p]) PROVE s \notin new
      <4>1. owner[s] = sessions[p].client
        BY <3>2 DEF Owned
      <4>2. CASE sessions[p].at = "none"
        BY <1>1, <3>2, <4>2 DEF Owned, Unused, NoStore, Store, Mentions
      <4>3. CASE sessions[p].at # "none"
        BY <1>1, <4>1, <4>3 DEF Owned
      <4> QED BY <4>2, <4>3
    <3> QED BY <3>1, <3>2 DEF Owned
  <2> QED BY <2>1, <2>2
<1>3. ASSUME NEW c \in Clients, NEW s \in Sids, s \in Kept(jar'[c]) PROVE owner'[s] = c
  BY <1>1, <1>3 DEF Owned, Kept
<1> QED BY <1>2, <1>3 DEF Owned

LEMMA StepOwned == SessionType /\ Owned /\ [SessionNext]_sessionVars => Owned'
<1> SUFFICES ASSUME SessionType, Owned, [SessionNext]_sessionVars PROVE Owned'
  OBVIOUS
<1>1. NoSid \notin Sids /\ NoSid \notin Clients
  BY Zenon, SessionAssumption
<1>2. sessions' \in [Requests -> Request]
  BY StepType DEF SessionType
<1>3. ASSUME NEW r \in Requests, sessions[r].at # "none",
             \A p \in Requests \ {r} : sessions'[p] = sessions[p],
             sessions'[r].at # "none", sessions'[r].client = sessions[r].client,
             \/ /\ UNCHANGED owner
                /\ \A s \in Sids : s \in Mentions(sessions'[r]) => s \in Mentions(sessions[r])
             \/ \E s \in Sids : /\ sessionID(s)
                                /\ owner' = [owner EXCEPT ![s] = sessions[r].client]
                                /\ \A t \in Sids : t \in Mentions(sessions'[r]) =>
                                       t = s \/ t \in Mentions(sessions[r]),
             UNCHANGED jar
      PROVE  Owned'
  <2>1. sessions' = [sessions EXCEPT ![r] = sessions'[r]]
    BY <1>2, <1>3 DEF SessionType
  <2>2. CASE /\ UNCHANGED owner
             /\ \A s \in Sids : s \in Mentions(sessions'[r]) => s \in Mentions(sessions[r])
    <3> DEFINE new == {}
    <3>1. /\ new \in SUBSET Sids
          /\ \A s \in new : owner[s] = NoSid /\ owner'[s] = sessions[r].client
          /\ \A s \in Sids \ new : owner'[s] = owner[s]
          /\ \A s \in Sids : s \in Mentions(sessions'[r]) => s \in new \/ s \in Mentions(sessions[r])
      BY <2>2
    <3> HIDE DEF new
    <3> QED BY <1>2, <1>3, <2>1, <3>1, KeepsOwned
  <2>3. ASSUME NEW s \in Sids, sessionID(s), owner' = [owner EXCEPT ![s] = sessions[r].client],
               \A t \in Sids : t \in Mentions(sessions'[r]) => t = s \/ t \in Mentions(sessions[r])
        PROVE  Owned'
    <3> DEFINE new == {s}
    <3>1. /\ new \in SUBSET Sids
          /\ \A t \in new : owner[t] = NoSid /\ owner'[t] = sessions[r].client
          /\ \A t \in Sids \ new : owner'[t] = owner[t]
          /\ \A t \in Sids : t \in Mentions(sessions'[r]) => t \in new \/ t \in Mentions(sessions[r])
      BY <2>3 DEF sessionID, SessionType
    <3> HIDE DEF new
    <3> QED BY <1>2, <1>3, <2>1, <3>1, KeepsOwned
  <2> QED BY <1>3, <2>2, <2>3
<1>4. ASSUME NEW r \in Requests, NEW c \in Clients, Arrive(r, c) PROVE Owned'
  <2>1. /\ sessions'[r].at = "ready" /\ sessions'[r].client = c
        /\ \A s \in Sids : s \in Mentions(sessions'[r]) => s \in Kept(jar[c])
    BY <1>1, <1>4 DEF Arrive, SessionType, Unused, NoStore, Store, Mentions, Kept
  <2>2. \A p \in Requests \ {r} : sessions'[p] = sessions[p]
    BY <1>4 DEF Arrive, SessionType
  <2>3. UNCHANGED <<owner, jar>>
    BY <1>4 DEF Arrive
  <2> QED BY <2>1, <2>2, <2>3 DEF Owned, Kept
<1>5. ASSUME NEW r \in Requests, Respond(r) PROVE Owned'
  <2> DEFINE old == sessions[r].client
  <2>1. sessions[r] \in Request /\ old \in Clients
    BY <1>5 DEF Respond, AtRest, Owned, SessionType
  <2>2. \A s \in Kept(jar'[old]) : s \in sessions[r].answer \/ s \in Kept(jar[old])
    <3>1. CASE UNCHANGED jar
      BY <3>1 DEF Kept
    <3>2. ASSUME NEW s \in sessions[r].answer, jar' = [jar EXCEPT ![old] = Keeps(@, s)]
          PROVE  \A t \in Kept(jar'[old]) : t = s \/ t \in Kept(jar[old])
      <4>1. jar'[old] = Keeps(jar[old], s)
        BY <2>1, <3>2 DEF SessionType
      <4> QED BY <4>1 DEF Keeps, Kept
    <3> QED BY <1>5, <3>1, <3>2 DEF Respond
  <2>3. \A s \in Sids : s \in Kept(jar'[old]) => owner[s] = old
    BY <2>1, <2>2 DEF Owned, Mentions
  <2>4. \A c \in Clients \ {old} : jar'[c] = jar[c]
    BY <1>5 DEF Respond, SessionType
  <2>5. /\ sessions'[r] = Unused
        /\ \A p \in Requests \ {r} : sessions'[p] = sessions[p]
    BY <1>5 DEF Respond, SessionType
  <2>6. \A s \in Sids : s \notin Mentions(Unused)
    BY <1>1 DEF Mentions, Unused, NoStore, Store
  <2>7. UNCHANGED owner /\ Unused.at = "none"
    BY <1>5 DEF Respond, Unused
  <2>8. \A c \in Clients, s \in Sids : s \in Kept(jar'[c]) => owner'[s] = c
    BY <2>3, <2>4, <2>7 DEF Owned, Kept
  <2> QED BY <2>5, <2>6, <2>7, <2>8 DEF Owned
<1>6. ASSUME NEW r \in Requests,
             \/ StartChecks(r) \/ GetStore(r) \/ ReleaseSets(r) \/ ReleaseExpires(r)
      PROVE  Owned'
  <2>1. PICK at \in Places \ {"none"} : Command(r, at)
    BY <1>6 DEF StartChecks, GetStore, ReleaseSets, ReleaseExpires, Places
  <2>2. sessions[r].at # "none" /\ UNCHANGED <<owner, jar>>
    BY <1>6 DEF StartChecks, GetStore, ReleaseSets, ReleaseExpires, AtRest
  <2>3. /\ sessions'[r] = [sessions[r] EXCEPT !.at = at]
        /\ \A p \in Requests \ {r} : sessions'[p] = sessions[p]
        /\ sessions[r] \in Request
    BY <2>1 DEF Command, SessionType
  <2>4. /\ sessions'[r].at = at /\ sessions'[r].client = sessions[r].client
        /\ Mentions(sessions'[r]) = Mentions(sessions[r])
    BY <2>3 DEF Mentions, Request
  <2> QED BY Zenon, <1>3, <2>2, <2>3, <2>4
<1>7. ASSUME NEW r \in Requests, Read(r) \/ GetStoreById(r) PROVE Owned'
  <2>1. /\ sessions[r].at # "none" /\ UNCHANGED <<owner, jar>>
        /\ \A p \in Requests \ {r} : sessions'[p] = sessions[p]
        /\ sessions[r] \in Request
    BY <1>7 DEF Read, GetStoreById, AtRest, SessionType
  <2>2. /\ sessions'[r].at = "ready" /\ sessions'[r].client = sessions[r].client
        /\ sessions'[r].cookie = sessions[r].cookie /\ sessions'[r].header = sessions[r].header
        /\ sessions'[r].query = sessions[r].query
        /\ sessions'[r].new = sessions[r].new /\ sessions'[r].answer = sessions[r].answer
        /\ sessions'[r].store.id \in {sessions[r].store.id, getSid(r)}
    BY <1>7, <2>1 DEF Read, GetStoreById, SessionType, Request, Store, AtRest
  <2>3. getSid(r) \in {sessions[r].cookie, sessions[r].query, sessions[r].header}
    BY DEF getSid
  <2>4. \A s \in Sids : s \in Mentions(sessions'[r]) => s \in Mentions(sessions[r])
    BY <2>2, <2>3 DEF Mentions
  <2> QED BY <1>3, <2>1, <2>2, <2>4
<1>8. ASSUME NEW r \in Requests, Destroy(r) PROVE Owned'
  <2>1. /\ sessions[r].at = "ready" /\ UNCHANGED <<owner, jar>>
        /\ \A p \in Requests \ {r} : sessions'[p] = sessions[p]
        /\ sessions[r] \in Request
    BY <1>8 DEF Destroy, AtRest, SessionType
  <2>2. PICK answer \in {{}, sessions[r].answer, {NoSid}} :
            sessions' = [sessions EXCEPT ![r].header = NoSid, ![r].answer = answer]
    <3> DEFINE s == sessions[r].cookie
               answer == CASE s # NoSid /\ "cookie" \in enabled -> {NoSid}
                           [] s = NoSid \/ "header" \in enabled -> {}
                           [] OTHER -> sessions[r].answer
    <3>1. answer \in {{}, sessions[r].answer, {NoSid}}
      OBVIOUS
    <3>2. sessions' = [sessions EXCEPT ![r].header = NoSid, ![r].answer = answer]
      BY SMTT(30), <1>8 DEF Destroy, SessionType
    <3> QED BY Zenon, <3>1, <3>2
  <2>3. sessions'[r] = [sessions[r] EXCEPT !.header = NoSid, !.answer = answer]
    BY <2>2 DEF SessionType
  <2>4. /\ sessions'[r].at = "ready" /\ sessions'[r].client = sessions[r].client
        /\ \A s \in Sids : s \in Mentions(sessions'[r]) => s \in Mentions(sessions[r])
    BY <1>1, <2>1, <2>3 DEF Mentions, Request
  <2> QED BY <1>3, <2>1, <2>4
<1>9. ASSUME NEW r \in Requests, sessions[r].at # "none", NEW s \in Ids, NEW store \in Stores,
             store.id \in {s, NoSid},
             sessions' = [sessions EXCEPT ![r] = Carry(@, s, store)]
      PROVE  /\ sessions'[r].at # "none" /\ sessions'[r].client = sessions[r].client
             /\ \A p \in Requests \ {r} : sessions'[p] = sessions[p]
             /\ \A t \in Sids : t \in Mentions(sessions'[r]) => t = s \/ t \in Mentions(sessions[r])
  <2>1. /\ sessions'[r] = Carry(sessions[r], s, store)
        /\ \A p \in Requests \ {r} : sessions'[p] = sessions[p]
        /\ sessions[r] \in Request
    BY <1>9 DEF SessionType
  <2>2. /\ sessions'[r].at = "ready" /\ sessions'[r].client = sessions[r].client
        /\ sessions'[r].cookie \in {sessions[r].cookie, s}
        /\ sessions'[r].header \in {sessions[r].header, s} /\ sessions'[r].query = sessions[r].query
        /\ sessions'[r].new = NoSid /\ sessions'[r].store = store /\ sessions'[r].answer = {s}
    BY <2>1 DEF Carry, Request
  <2> QED BY <1>1, <1>9, <2>1, <2>2 DEF Mentions
<1>10. ASSUME NEW r \in Requests, StartNew(r) PROVE Owned'
  <2>1. sessions[r].at # "none" /\ UNCHANGED jar
    BY <1>10 DEF StartNew
  <2>2. CASE Command(r, "ready") /\ UNCHANGED owner
    <3>1. /\ sessions'[r] = [sessions[r] EXCEPT !.at = "ready"]
          /\ \A p \in Requests \ {r} : sessions'[p] = sessions[p]
          /\ sessions[r] \in Request
      BY <2>2 DEF Command, SessionType
    <3>2. /\ sessions'[r].at = "ready" /\ sessions'[r].client = sessions[r].client
          /\ Mentions(sessions'[r]) = Mentions(sessions[r])
      BY <3>1 DEF Mentions, Request
    <3> QED BY Zenon, <1>3, <2>1, <2>2, <3>1, <3>2
  <2>3. ASSUME NEW s \in Sids, sessionID(s), owner' = [owner EXCEPT ![s] = sessions[r].client],
               sessions' = [sessions EXCEPT ![r] = Carry(@, s, Store(s))]
        PROVE  Owned'
    <3>1. s \in Ids /\ Store(s) \in Stores /\ Store(s).id \in {s, NoSid}
      BY StoreType DEF Ids
    <3>2. /\ sessions'[r].at # "none" /\ sessions'[r].client = sessions[r].client
          /\ \A p \in Requests \ {r} : sessions'[p] = sessions[p]
          /\ \A t \in Sids : t \in Mentions(sessions'[r]) => t = s \/ t \in Mentions(sessions[r])
      BY Zenon, <1>9, <2>1, <2>3, <3>1
    <3> QED BY Zenon, <1>3, <2>1, <2>3, <3>2
  <2> QED BY <1>10, <2>2, <2>3 DEF StartNew
<1>11. ASSUME NEW r \in Requests, RegenerateID(r) PROVE Owned'
  <2>1. PICK s \in Sids :
           /\ sessionID(s)
           /\ owner' = [owner EXCEPT ![s] = sessions[r].client]
           /\ \/ \E store \in {NoStore, Store(s)} :
                     sessions' = [sessions EXCEPT ![r] = Carry(@, s, store)]
              \/ sessions' = [sessions EXCEPT ![r].at = "regenerate", ![r].new = s]
    BY Zenon, <1>11 DEF RegenerateID
  <2>2. sessions[r].at # "none" /\ UNCHANGED jar
    BY <1>11 DEF RegenerateID, AtRest
  <2>3. ASSUME NEW store \in {NoStore, Store(s)},
               sessions' = [sessions EXCEPT ![r] = Carry(@, s, store)]
        PROVE  Owned'
    <3>1. s \in Ids /\ store \in Stores /\ store.id \in {s, NoSid}
      BY StoreType DEF Ids
    <3> QED BY Zenon, <1>3, <1>9, <2>1, <2>2, <2>3, <3>1
  <2>4. ASSUME sessions' = [sessions EXCEPT ![r].at = "regenerate", ![r].new = s] PROVE Owned'
    <3>1. /\ sessions'[r] = [sessions[r] EXCEPT !.at = "regenerate", !.new = s]
          /\ \A p \in Requests \ {r} : sessions'[p] = sessions[p]
          /\ sessions[r] \in Request
      BY <2>4 DEF SessionType
    <3>2. /\ sessions'[r].at = "regenerate" /\ sessions'[r].client = sessions[r].client
          /\ \A t \in Sids : t \in Mentions(sessions'[r]) => t = s \/ t \in Mentions(sessions[r])
      BY <3>1 DEF Mentions, Request
    <3> QED BY Zenon, <1>3, <2>1, <2>2, <3>1, <3>2
  <2> QED BY <2>1, <2>3, <2>4
<1>12. ASSUME NEW r \in Requests, RegenerateExpires(r) PROVE Owned'
  <2> DEFINE s == sessions[r].new
  <2>1. PICK store \in {NoStore, Store(s)} : sessions' = [sessions EXCEPT ![r] = Carry(@, s, store)]
    BY Zenon, <1>12 DEF RegenerateExpires
  <2>2. sessions[r].at # "none" /\ UNCHANGED <<owner, jar>> /\ s \in Ids
    BY <1>12 DEF RegenerateExpires, SessionType, Request
  <2>3. store \in Stores /\ store.id \in {s, NoSid}
    BY <2>2, StoreType
  <2>4. s \in Mentions(sessions[r])
    BY DEF Mentions
  <2> HIDE DEF s
  <2>5. /\ sessions'[r].at # "none" /\ sessions'[r].client = sessions[r].client
        /\ \A p \in Requests \ {r} : sessions'[p] = sessions[p]
        /\ \A t \in Sids : t \in Mentions(sessions'[r]) => t \in Mentions(sessions[r])
    BY Zenon, <1>9, <2>1, <2>2, <2>3, <2>4
  <2> QED BY <1>3, <2>2, <2>5
<1>13. CASE SessionCrash
  <2>1. \A p \in Requests : sessions'[p] = Unused
    BY <1>13 DEF SessionCrash
  <2>2. \A s \in Sids : s \notin Mentions(Unused)
    BY <1>1 DEF Mentions, Unused, NoStore, Store
  <2>3. Unused.at = "none" /\ UNCHANGED <<owner, jar>>
    BY <1>13 DEF Unused, SessionCrash
  <2> QED BY <2>1, <2>2, <2>3 DEF Owned, Kept
<1>14. CASE UNCHANGED sessionVars \/ \E s \in Sids : KeyExpires(s)
  BY SMTT(30), <1>14 DEF Owned, sessionVars, KeyExpires, Mentions, Kept
<1> QED BY <1>4, <1>5, <1>6, <1>7, <1>8, <1>10, <1>11, <1>12, <1>13, <1>14 DEF SessionNext
-----------------------------------------------------------------------------
\* The request has set the key of s and not yet made it expire.
Saving(q, s) == \/ sessions[q].at = "expire" /\ sessions[q].store.id = s
                \/ sessions[q].at = "regenerate" /\ sessions[q].new = s

\* Only the request of the step changes.
LEMMA Others ==
    ASSUME SessionType, NEW r \in Requests,
           \/ (\E c \in Clients : Arrive(r, c)) \/ Respond(r)
           \/ StartChecks(r) \/ GetStore(r) \/ Read(r) \/ StartNew(r) \/ GetStoreById(r)
           \/ ReleaseSets(r) \/ ReleaseExpires(r) \/ Destroy(r)
           \/ RegenerateID(r) \/ RegenerateExpires(r)
    PROVE  \A q \in Requests \ {r} : sessions'[q] = sessions[q]
BY Zenon DEF SessionType, Arrive, Respond, StartChecks, GetStore, Read, StartNew, GetStoreById,
       ReleaseSets, ReleaseExpires, Destroy, RegenerateID, RegenerateExpires, Command

LEMMA StepPermanent ==
    SessionType /\ NeverPermanent /\ [SessionNext]_sessionVars => NeverPermanent'
<1> SUFFICES ASSUME SessionType, NeverPermanent, [SessionNext]_sessionVars PROVE NeverPermanent'
  BY SMTT(30)
<1>1. /\ NeverPermanent <=> \A s \in Sids : backend[s].exists /\ ~ backend[s].ttl =>
                                s \in failed \/ \E q \in Requests : Saving(q, s)
      /\ NeverPermanent' <=> \A s \in Sids : backend'[s].exists /\ ~ backend'[s].ttl =>
                                s \in failed' \/ \E q \in Requests : Saving(q, s)'
  BY SMTT(30) DEF NeverPermanent, Saving
<1>2. ASSUME NEW r \in Requests, sessions[r].at \notin {"expire", "regenerate"},
             \A q \in Requests \ {r} : sessions'[q] = sessions[q],
             UNCHANGED <<backend, failed>>
      PROVE  NeverPermanent'
  BY <1>1, <1>2 DEF Saving
<1>3. ASSUME NEW r \in Requests,
             \/ (\E c \in Clients : Arrive(r, c)) \/ Respond(r)
             \/ StartChecks(r) \/ GetStore(r) \/ Read(r) \/ StartNew(r) \/ GetStoreById(r)
      PROVE  NeverPermanent'
  <2>1. /\ sessions[r].at \notin {"expire", "regenerate"} /\ UNCHANGED <<backend, failed>>
    BY Zenon, <1>3 DEF Arrive, Respond, StartChecks, GetStore, Read, StartNew, GetStoreById, AtRest
  <2> QED BY SMTT(30), <1>2, <1>3, <2>1, Others
<1>4. ASSUME NEW r \in Requests, NEW s, Saving(r, s)', sessions[r].at \notin {"expire", "regenerate"},
             \A q \in Requests \ {r} : sessions'[q] = sessions[q],
             SetKey(s), failed' = failed \ {s} \/ UNCHANGED failed
      PROVE  NeverPermanent'
  <2>1. \A t \in Sids \ {s} : backend'[t] = backend[t]
    BY <1>4 DEF SetKey, SessionType
  <2> QED BY <1>1, <1>4, <2>1 DEF Saving
<1>5. ASSUME NEW r \in Requests, ReleaseSets(r) PROVE NeverPermanent'
  <2>1. sessions[r].at = "ready" /\ sessions'[r] = [sessions[r] EXCEPT !.at = "expire"]
    BY <1>5 DEF ReleaseSets, AtRest, Command, SessionType
  <2>2. Saving(r, sessions[r].store.id)'
    BY <2>1 DEF Saving, SessionType, Request
  <2>3. SetKey(sessions[r].store.id) /\ failed' = failed \ {sessions[r].store.id}
    BY <1>5 DEF ReleaseSets
  <2> QED BY <1>4, <1>5, <2>1, <2>2, <2>3, Others
<1>6. ASSUME NEW r \in Requests, NEW s, \A t \in Sids : Saving(r, t) => t = s,
             \A q \in Requests \ {r} : sessions'[q] = sessions[q],
             Expire(s)
      PROVE  NeverPermanent'
  <2>1. /\ \A t \in Sids \ {s} : backend'[t] = backend[t]
        /\ \A t \in failed : t \in failed'
    BY <1>6 DEF Expire, SessionType
  <2>2. ASSUME s \in Sids, backend'[s].exists, ~ backend'[s].ttl PROVE s \in failed'
    BY <1>6, <2>2 DEF Expire, SessionType, Key
  <2> QED BY <1>1, <1>6, <2>1, <2>2 DEF Saving
<1>7. ASSUME NEW r \in Requests, ReleaseExpires(r) PROVE NeverPermanent'
  <2>1. /\ \A t \in Sids : Saving(r, t) => t = sessions[r].store.id
        /\ Expire(sessions[r].store.id)
    BY SMTT(30), <1>7 DEF ReleaseExpires, Saving
  <2> QED BY <1>6, <1>7, <2>1, Others
<1>8. ASSUME NEW r \in Requests, RegenerateExpires(r) PROVE NeverPermanent'
  <2>1. /\ \A t \in Sids : Saving(r, t) => t = sessions[r].new
        /\ Expire(sessions[r].new)
    BY <1>8 DEF RegenerateExpires, Saving
  <2> QED BY <1>6, <1>8, <2>1, Others
<1>9. ASSUME NEW r \in Requests, Destroy(r) PROVE NeverPermanent'
  <2>1. sessions[r].at = "ready"
    BY <1>9 DEF Destroy, AtRest
  <2>2. CASE UNCHANGED <<backend, failed>>
    BY SMTT(30), <1>2, <1>9, <2>1, <2>2, Others
  <2>3. ASSUME NEW s, backend' = [backend EXCEPT ![s] = Missing], failed' = failed \ {s}
        PROVE  NeverPermanent'
    <3>1. /\ \A t \in Sids \ {s} : backend'[t] = backend[t]
          /\ s \in Sids => ~ backend'[s].exists
      BY <2>3 DEF Missing, SessionType
    <3> QED BY <1>1, <1>9, <2>1, <2>3, <3>1, Others DEF Saving
  <2> QED BY <1>9, <2>2, <2>3 DEF Destroy
<1>10. ASSUME NEW r \in Requests, RegenerateID(r) PROVE NeverPermanent'
  <2>1. sessions[r].at = "ready" /\ UNCHANGED failed
    BY <1>10 DEF RegenerateID, AtRest
  <2>2. CASE UNCHANGED backend
    BY <1>2, <1>10, <2>1, <2>2, Others
  <2>3. ASSUME NEW s \in Sids, SetKey(s),
               sessions' = [sessions EXCEPT ![r].at = "regenerate", ![r].new = s]
        PROVE  NeverPermanent'
    <3>1. Saving(r, s)'
      BY <2>3 DEF Saving, SessionType, Request
    <3> QED BY Zenon, <1>4, <1>10, <2>1, <2>3, <3>1, Others
  <2> QED BY <1>10, <2>2, <2>3 DEF RegenerateID
<1>11. ASSUME NEW s \in Sids, KeyExpires(s) PROVE NeverPermanent'
  <2>1. /\ \A t \in Sids \ {s} : backend'[t] = backend[t]
        /\ ~ backend'[s].exists
    BY <1>11 DEF KeyExpires, Missing, SessionType
  <2> QED BY <1>1, <1>11, <2>1 DEF KeyExpires, Saving
<1>12. CASE SessionCrash
  BY <1>1, <1>12 DEF SessionCrash, Saving
<1>13. CASE UNCHANGED sessionVars
  BY <1>1, <1>13 DEF sessionVars, Saving
<1> QED BY <1>3, <1>5, <1>7, <1>8, <1>9, <1>10, <1>11, <1>12, <1>13 DEF SessionNext
-----------------------------------------------------------------------------
\* A request that was not there when s was destroyed has no way to save it, but for a
\* store that was opened by its id.
Harmless(q, s) == /\ sessions[q].store.id = s => sessions[q].store.direct
                  /\ sessions[q].at = "read" => getSid(q) # s
                  /\ sessions[q].at = "regenerate" => sessions[q].new # s

Destroyed ==
    /\ revived = {}
    /\ \A s \in Sids : outlived[s].destroyed => ~ backend[s].exists /\ owner[s] # NoSid
    /\ \A q \in Requests, s \in Sids :
           outlived[s].destroyed /\ q \notin outlived[s].by => Harmless(q, s)
    /\ \A q \in Requests : sessions[q].store.id = NoSid => sessions[q].store = NoStore

LEMMA StepDestroyed ==
    SessionType /\ Owned /\ Destroyed /\ [SessionNext]_sessionVars => Destroyed'
<1> SUFFICES ASSUME SessionType, Owned, Destroyed, [SessionNext]_sessionVars PROVE Destroyed'
  OBVIOUS
<1>1. NoSid \notin Sids /\ NoSid \notin Clients /\ SessionType'
  BY Zenon, SessionAssumption, StepType
<1>2. ASSUME NEW r \in Requests,
             \A q \in Requests \ {r} : sessions'[q] = sessions[q],
             \A s \in Sids : outlived[s].destroyed /\ r \notin outlived[s].by => Harmless(r, s)',
             sessions'[r].store.id = NoSid => sessions'[r].store = NoStore,
             \A s \in Sids : outlived[s].destroyed => ~ backend'[s].exists /\ owner'[s] # NoSid,
             UNCHANGED <<outlived, revived>>
      PROVE  Destroyed'
  BY <1>2 DEF Destroyed, Harmless, getSid
<1>3. ASSUME NEW r \in Requests, NEW c \in Clients, Arrive(r, c) PROVE Destroyed'
  <2>1. /\ sessions'[r].at = "ready" /\ sessions'[r].store = NoStore
        /\ UNCHANGED <<backend, owner, outlived, revived>>
    BY <1>3 DEF Arrive, SessionType, Unused
  <2>2. NoStore.id = NoSid
    BY DEF NoStore, Store
  <2>3. \A s \in Sids : Harmless(r, s)'
    BY <1>1, <2>1, <2>2 DEF Harmless
  <2>4. \A s \in Sids : outlived[s].destroyed => ~ backend'[s].exists /\ owner'[s] # NoSid
    BY SMTT(30), <2>1 DEF Destroyed
  <2> QED BY <1>2, <1>3, <2>1, <2>3, <2>4, Others
<1>4. ASSUME NEW r \in Requests, StartChecks(r) \/ GetStore(r) PROVE Destroyed'
  <2>1. PICK at \in {"read", "new"} : /\ Command(r, at)
                                      /\ at = "read" => Exist(getSid(r))
                                      /\ sessions[r].at = "ready"
    BY <1>4 DEF StartChecks, GetStore, AtRest
  <2>2. UNCHANGED <<backend, owner, outlived, revived>>
    BY <1>4 DEF StartChecks, GetStore
  <2>3. /\ sessions'[r].at = at /\ sessions'[r].store = sessions[r].store
        /\ getSid(r)' = getSid(r)
    BY <2>1 DEF Command, SessionType, Request, getSid
  <2>4. \A s \in Sids : outlived[s].destroyed => ~ backend'[s].exists /\ owner'[s] # NoSid
    BY <2>2 DEF Destroyed
  <2>5. \A s \in Sids : outlived[s].destroyed /\ r \notin outlived[s].by => Harmless(r, s)'
    BY SMTT(30), <2>1, <2>2, <2>3, <2>4 DEF Harmless, Destroyed, Exist
  <2>6. sessions'[r].store.id = NoSid => sessions'[r].store = NoStore
    BY SMTT(30), <2>3 DEF Destroyed
  <2> QED BY <1>2, <1>4, <2>2, <2>4, <2>5, <2>6, Others
<1>5. ASSUME NEW r \in Requests, Read(r) PROVE Destroyed'
  <2>1. /\ sessions[r].at = "read" /\ sessions'[r].at = "ready"
        /\ sessions'[r].store \in {sessions[r].store, Store(getSid(r))}
        /\ UNCHANGED <<backend, owner, outlived, revived>>
    BY <1>5 DEF Read, SessionType
  <2>2. Store(getSid(r)).id = getSid(r) /\ (getSid(r) = NoSid => Store(getSid(r)) = NoStore)
    BY Zenon DEF Store, NoStore
  <2>3. \A s \in Sids : outlived[s].destroyed /\ r \notin outlived[s].by => Harmless(r, s)'
    BY <2>1, <2>2 DEF Harmless, Destroyed
  <2>4. sessions'[r].store.id = NoSid => sessions'[r].store = NoStore
    BY <2>1, <2>2 DEF Destroyed
  <2>5. \A s \in Sids : outlived[s].destroyed => ~ backend'[s].exists /\ owner'[s] # NoSid
    BY <2>1 DEF Destroyed
  <2> QED BY <1>2, <1>5, <2>1, <2>3, <2>4, <2>5, Others
<1>6. ASSUME NEW r \in Requests, GetStoreById(r) PROVE Destroyed'
  <2>1. /\ sessions'[r].at = "ready"
        /\ sessions'[r].store.direct /\ sessions'[r].store.id # NoSid
        /\ UNCHANGED <<backend, owner, outlived, revived>>
    BY <1>6 DEF GetStoreById, AtRest, SessionType
  <2>2. \A s \in Sids : Harmless(r, s)'
    BY SMTT(30), <2>1 DEF Harmless
  <2>3. \A s \in Sids : outlived[s].destroyed => ~ backend'[s].exists /\ owner'[s] # NoSid
    BY SMTT(30), <2>1 DEF Destroyed
  <2> QED BY <1>2, <1>6, <2>1, <2>2, <2>3, Others
<1>7. ASSUME NEW r \in Requests, NEW s \in Sids, sessionID(s),
             owner' = [owner EXCEPT ![s] = sessions[r].client], sessions[r].client \in Clients
      PROVE  /\ ~ outlived[s].destroyed
             /\ \A t \in Sids : outlived[t].destroyed => owner'[t] # NoSid
  BY <1>1, <1>7 DEF sessionID, Destroyed, SessionType
<1>8. ASSUME NEW r \in Requests, NEW s \in Ids, NEW store \in {NoStore, Store(s)},
             sessions' = [sessions EXCEPT ![r] = Carry(@, s, store)]
      PROVE  /\ sessions'[r].at = "ready"
             /\ sessions'[r].store.id \in {s, NoSid}
             /\ sessions'[r].store.id = NoSid => sessions'[r].store = NoStore
  <2>1. sessions'[r].at = "ready" /\ sessions'[r].store = store
    BY <1>8 DEF Carry, SessionType, Request
  <2>2. store.id \in {s, NoSid} /\ (store.id = NoSid => store = NoStore)
    BY DEF Store, NoStore
  <2> QED BY <2>1, <2>2
<1>9. ASSUME NEW r \in Requests, StartNew(r) \/ RegenerateID(r) PROVE Destroyed'
  <2>1. UNCHANGED <<outlived, revived>> /\ sessions[r].at # "none" /\ sessions[r].client \in Clients
    BY SMTT(30), <1>9 DEF StartNew, RegenerateID, AtRest, Owned
  <2>2. CASE Command(r, "ready") /\ UNCHANGED <<owner, backend>>
    <3>1. sessions'[r].at = "ready" /\ sessions'[r].store = sessions[r].store
      BY SMTT(30), <2>2 DEF Command, SessionType, Request
    <3>2. /\ \A s \in Sids : outlived[s].destroyed /\ r \notin outlived[s].by => Harmless(r, s)'
          /\ \A s \in Sids : outlived[s].destroyed => ~ backend'[s].exists /\ owner'[s] # NoSid
          /\ sessions'[r].store.id = NoSid => sessions'[r].store = NoStore
      BY SMTT(30), <2>2, <3>1 DEF Destroyed, Harmless
    <3> QED BY Zenon, <1>2, <1>9, <2>1, <3>2, Others
  <2>3. ASSUME NEW s \in Sids, sessionID(s), owner' = [owner EXCEPT ![s] = sessions[r].client],
               NEW store \in {NoStore, Store(s)},
               sessions' = [sessions EXCEPT ![r] = Carry(@, s, store)], UNCHANGED backend
        PROVE  Destroyed'
    <3>1. /\ sessions'[r].at = "ready"
          /\ sessions'[r].store.id \in {s, NoSid}
          /\ sessions'[r].store.id = NoSid => sessions'[r].store = NoStore
      BY Zenon, <1>8, <2>3 DEF Ids
    <3>2. /\ ~ outlived[s].destroyed
          /\ \A t \in Sids : outlived[t].destroyed => ~ backend'[t].exists /\ owner'[t] # NoSid
      BY Zenon, <1>7, <2>1, <2>3 DEF Destroyed
    <3>3. \A t \in Sids : outlived[t].destroyed => Harmless(r, t)'
      BY <1>1, <3>1, <3>2 DEF Harmless
    <3> QED BY Zenon, <1>2, <1>9, <2>1, <3>1, <3>2, <3>3, Others
  <2>4. ASSUME NEW s \in Sids, sessionID(s), owner' = [owner EXCEPT ![s] = sessions[r].client],
               SetKey(s), sessions' = [sessions EXCEPT ![r].at = "regenerate", ![r].new = s]
        PROVE  Destroyed'
    <3>1. /\ sessions'[r].at = "regenerate" /\ sessions'[r].new = s
          /\ sessions'[r].store = sessions[r].store
      BY <2>4 DEF SessionType, Request
    <3>2. \A t \in Sids \ {s} : backend'[t] = backend[t]
      BY <2>4 DEF SetKey, SessionType
    <3>3. /\ ~ outlived[s].destroyed
          /\ \A t \in Sids : outlived[t].destroyed => ~ backend'[t].exists /\ owner'[t] # NoSid
      BY Zenon, <1>7, <2>1, <2>4, <3>2 DEF Destroyed
    <3>4. \A t \in Sids : outlived[t].destroyed /\ r \notin outlived[t].by => Harmless(r, t)'
      BY <3>1, <3>3 DEF Harmless, Destroyed
    <3>5. sessions'[r].store.id = NoSid => sessions'[r].store = NoStore
      BY <3>1 DEF Destroyed
    <3> QED BY <1>2, <1>9, <2>1, <3>3, <3>4, <3>5, Others
  <2>5. CASE StartNew(r)
    BY <2>2, <2>3, <2>5 DEF StartNew
  <2>6. CASE RegenerateID(r)
    BY Zenon, <2>3, <2>4, <2>6 DEF RegenerateID
  <2> QED BY <1>9, <2>5, <2>6
<1>10. ASSUME NEW r \in Requests, ReleaseExpires(r) PROVE Destroyed'
  <2>1. /\ sessions'[r].at = "ready" /\ sessions'[r].store = sessions[r].store
        /\ UNCHANGED <<owner, outlived, revived>>
    BY <1>10 DEF ReleaseExpires, Command, SessionType, Request
  <2>2. \A s \in Sids : ~ backend[s].exists => ~ backend'[s].exists
    BY SMTT(30), <1>10 DEF ReleaseExpires, Expire, SessionType, Key
  <2>3. /\ \A s \in Sids : outlived[s].destroyed /\ r \notin outlived[s].by => Harmless(r, s)'
        /\ \A s \in Sids : outlived[s].destroyed => ~ backend'[s].exists /\ owner'[s] # NoSid
        /\ sessions'[r].store.id = NoSid => sessions'[r].store = NoStore
    BY SMTT(30), <2>1, <2>2 DEF Destroyed, Harmless
  <2> QED BY <1>2, <1>10, <2>1, <2>3, Others
<1>11. ASSUME NEW r \in Requests, RegenerateExpires(r) PROVE Destroyed'
  <2> DEFINE s == sessions[r].new
  <2>1. /\ UNCHANGED <<owner, outlived, revived>> /\ sessions[r].at = "regenerate" /\ s \in Ids
        /\ \E store \in {NoStore, Store(s)} : sessions' = [sessions EXCEPT ![r] = Carry(@, s, store)]
    BY Zenon, <1>11 DEF RegenerateExpires, SessionType, Request
  <2>2. /\ sessions'[r].at = "ready"
        /\ sessions'[r].store.id \in {s, NoSid}
        /\ sessions'[r].store.id = NoSid => sessions'[r].store = NoStore
    BY Zenon, <1>8, <2>1
  <2>3. \A t \in Sids : ~ backend[t].exists => ~ backend'[t].exists
    BY <1>11 DEF RegenerateExpires, Expire, SessionType, Key
  <2>4. /\ \A t \in Sids : outlived[t].destroyed /\ r \notin outlived[t].by => Harmless(r, t)'
        /\ \A t \in Sids : outlived[t].destroyed => ~ backend'[t].exists /\ owner'[t] # NoSid
    BY <1>1, <2>1, <2>2, <2>3 DEF Destroyed, Harmless
  <2> QED BY Zenon, <1>2, <1>11, <2>1, <2>2, <2>4, Others
<1>12. ASSUME NEW r \in Requests, ReleaseSets(r) PROVE Destroyed'
  <2> DEFINE s == sessions[r].store.id
  <2>1. /\ sessions'[r].at = "expire" /\ sessions'[r].store = sessions[r].store
        /\ sessions[r].store # NoStore /\ s \in Ids
    BY <1>12 DEF ReleaseSets, Command, SessionType, Request, Stores
  <2>2. s \in Sids
    BY SMTT(30), <2>1 DEF Destroyed, Ids
  <2>3. revived' = {}
    <3>1. outlived[s].destroyed /\ r \notin outlived[s].by => sessions[r].store.direct
      BY SMTT(30), <2>2 DEF Destroyed, Harmless
    <3> QED BY SMTT(30), <1>12, <3>1 DEF ReleaseSets, Destroyed
  <2>4. /\ outlived'[s] = Undestroyed /\ \A t \in Sids \ {s} : outlived'[t] = outlived[t]
        /\ \A t \in Sids \ {s} : backend'[t] = backend[t]
        /\ UNCHANGED owner
    BY <1>12, <2>2 DEF ReleaseSets, SetKey, SessionType
  <2>5. ~ Undestroyed.destroyed
    BY SMTT(30) DEF Undestroyed
  <2>6. \A q \in Requests \ {r} : sessions'[q] = sessions[q]
    BY <1>12, Others
  <2>7. \A t \in Sids : outlived'[t].destroyed => t # s
    BY SMTT(30), <2>4, <2>5
  <2>8. \A t \in Sids : outlived'[t].destroyed => ~ backend'[t].exists /\ owner'[t] # NoSid
    BY <2>4, <2>7 DEF Destroyed
  <2>9. \A q \in Requests, t \in Sids :
            outlived'[t].destroyed /\ q \notin outlived'[t].by => Harmless(q, t)'
    <3> SUFFICES ASSUME NEW q \in Requests, NEW t \in Sids, outlived'[t].destroyed,
                        q \notin outlived'[t].by
                 PROVE  Harmless(q, t)'
      BY SMTT(30)
    <3>1. Harmless(q, t)
      BY SMTT(30), <2>4, <2>7 DEF Destroyed
    <3>2. CASE q = r
      BY <2>1, <3>1, <3>2 DEF Harmless
    <3>3. CASE q # r
      BY <2>6, <3>1, <3>3 DEF Harmless, getSid
    <3> QED BY <3>2, <3>3
  <2> QED BY <2>1, <2>3, <2>6, <2>8, <2>9 DEF Destroyed
<1>13. ASSUME NEW r \in Requests, Destroy(r) PROVE Destroyed'
  <2> DEFINE s == sessions[r].cookie
  <2>1. /\ sessions[r].at = "ready" /\ sessions[r].client \in Clients
        /\ sessions'[r].at = "ready" /\ sessions'[r].store = sessions[r].store
        /\ UNCHANGED <<owner, revived>>
    BY SMTT(30), <1>13 DEF Destroy, AtRest, SessionType, Request, Owned
  <2>2. CASE UNCHANGED <<backend, outlived>>
    <3>1. /\ \A t \in Sids : outlived[t].destroyed /\ r \notin outlived[t].by => Harmless(r, t)'
          /\ \A t \in Sids : outlived[t].destroyed => ~ backend'[t].exists /\ owner'[t] # NoSid
          /\ sessions'[r].store.id = NoSid => sessions'[r].store = NoStore
      BY SMTT(30), <2>1, <2>2 DEF Destroyed, Harmless
    <3> QED BY Zenon, <1>2, <1>13, <2>1, <2>2, <3>1, Others
  <2>3. CASE /\ s # NoSid
             /\ backend' = [backend EXCEPT ![s] = Missing]
             /\ outlived' = [outlived EXCEPT ![s] =
                   [destroyed |-> TRUE, by |-> {q \in Requests : sessions[q].at # "none"}]]
    <3>1. s \in Sids /\ owner[s] # NoSid
      <4>1. s \in Sids /\ s \in Mentions(sessions[r])
        BY SMTT(30), <2>3 DEF SessionType, Request, Ids, Mentions
      <4> QED BY SMTT(30), <1>1, <2>1, <4>1 DEF Owned
    <3>2. /\ ~ backend'[s].exists /\ \A t \in Sids \ {s} : backend'[t] = backend[t]
          /\ outlived'[s].by = {q \in Requests : sessions[q].at # "none"}
          /\ \A t \in Sids \ {s} : outlived'[t] = outlived[t]
      BY SMTT(30), <2>3, <3>1 DEF Missing, SessionType
    <3>3. \A q \in Requests \ {r} : sessions'[q] = sessions[q]
      BY SMTT(30), <1>13, Others
    <3>4. \A t \in Sids : outlived'[t].destroyed => ~ backend'[t].exists /\ owner'[t] # NoSid
      BY <2>1, <3>1, <3>2 DEF Destroyed
    <3>5. \A q \in Requests, t \in Sids :
              outlived'[t].destroyed /\ q \notin outlived'[t].by => Harmless(q, t)'
      <4> SUFFICES ASSUME NEW q \in Requests, NEW t \in Sids, outlived'[t].destroyed,
                          q \notin outlived'[t].by
                   PROVE  Harmless(q, t)'
        BY SMTT(30)
      <4>1. CASE t = s
        <5>1. q # r /\ sessions'[q] = Unused
          BY Zenon, <2>1, <3>2, <3>3, <4>1 DEF Owned
        <5> QED BY <1>1, <5>1, UnusedHasNothing DEF Harmless
      <4>2. CASE t # s
        <5>1. Harmless(q, t)
          BY SMTT(30), <3>2, <4>2 DEF Destroyed
        <5>2. CASE q = r
          BY SMTT(30), <2>1, <5>1, <5>2 DEF Harmless
        <5>3. CASE q # r
          BY SMTT(30), <3>3, <5>1, <5>3 DEF Harmless, getSid
        <5> QED BY SMTT(30), <5>2, <5>3
      <4> QED BY SMTT(30), <4>1, <4>2
    <3> QED BY SMTT(30), <2>1, <3>3, <3>4, <3>5 DEF Destroyed
  <2> QED BY <1>13, <2>2, <2>3 DEF Destroy
<1>14. ASSUME NEW rs \in SUBSET Requests, Forget(rs),
              \A q \in Requests : \/ q \in rs /\ sessions'[q] = Unused
                                  \/ q \notin rs /\ sessions'[q] = sessions[q],
              UNCHANGED <<backend, owner, revived>>
       PROVE  Destroyed'
  <2>1. \A t \in Sids : /\ outlived'[t].destroyed = outlived[t].destroyed
                        /\ outlived'[t].by = outlived[t].by \ rs
    BY SMTT(30), <1>14 DEF Forget, SessionType, Fate
  <2>2. \A q \in Requests, t \in Sids :
            outlived'[t].destroyed /\ q \notin outlived'[t].by => Harmless(q, t)'
    <3> SUFFICES ASSUME NEW q \in Requests, NEW t \in Sids, outlived'[t].destroyed,
                        q \notin outlived'[t].by
                 PROVE  Harmless(q, t)'
      BY SMTT(30)
    <3>1. CASE q \in rs /\ sessions'[q] = Unused
      BY <1>1, <3>1, UnusedHasNothing DEF Harmless
    <3>2. CASE q \notin rs /\ sessions'[q] = sessions[q]
      BY SMTT(30), <2>1, <3>2 DEF Destroyed, Harmless, getSid
    <3> QED BY SMTT(30), <1>14, <3>1, <3>2
  <2>3. \A q \in Requests : sessions'[q].store.id = NoSid => sessions'[q].store = NoStore
    BY <1>14 DEF Destroyed, Unused
  <2> QED BY <1>14, <2>1, <2>2, <2>3 DEF Destroyed
<1>15. ASSUME NEW r \in Requests, Respond(r) PROVE Destroyed'
  <2>1. Forget({r}) /\ sessions'[r] = Unused /\ UNCHANGED <<backend, owner, revived>>
    BY SMTT(30), <1>15 DEF Respond, SessionType
  <2>2. \A q \in Requests : \/ q \in {r} /\ sessions'[q] = Unused
                            \/ q \notin {r} /\ sessions'[q] = sessions[q]
    BY SMTT(30), <1>15, <2>1, Others
  <2> QED BY SMTT(30), <1>14, <2>1, <2>2
<1>16. CASE SessionCrash
  BY <1>14, <1>16 DEF SessionCrash
<1>17. ASSUME NEW s \in Sids, KeyExpires(s) PROVE Destroyed'
  <2>1. \A t \in Sids : ~ backend[t].exists => ~ backend'[t].exists
    BY SMTT(30), <1>17 DEF KeyExpires, Missing, SessionType
  <2> QED BY <1>17, <2>1 DEF KeyExpires, Destroyed, Harmless, getSid
<1>18. CASE UNCHANGED sessionVars
  BY SMTT(30), <1>18 DEF sessionVars, Destroyed, Harmless, getSid
<1> QED BY <1>3, <1>4, <1>5, <1>6, <1>9, <1>10, <1>11, <1>12, <1>13, <1>15, <1>16, <1>17, <1>18
        DEF SessionNext

-----------------------------------------------------------------------------
SessionInv == SessionType /\ Owned /\ NeverPermanent /\ Destroyed

LEMMA InitInv == SessionInit => SessionInv
<1> SUFFICES ASSUME SessionInit PROVE NeverPermanent /\ Destroyed
  BY SMTT(30), InitType DEF SessionInv
<1>1. NeverPermanent
  BY DEF SessionInit, NeverPermanent, Missing
<1>2. \A s \in Sids : ~ outlived[s].destroyed
  BY DEF SessionInit, Undestroyed
<1> QED BY <1>1, <1>2 DEF SessionInit, Destroyed, Unused

LEMMA StepInv == SessionInv /\ [SessionNext]_sessionVars => SessionInv'
BY StepType, StepOwned, StepPermanent, StepDestroyed DEF SessionInv

\* For any clients and any number of requests at once, Start, RegenerateID and
\* Release give nobody the session of somebody else.
THEOREM OwnSessionTheorem == SessionSpec => []OwnSession
<1>1. SessionInv => OwnSession
  <2> SUFFICES ASSUME SessionInv PROVE OwnSession
    OBVIOUS
  <2>1. ASSUME NEW r \in Requests, sessions[r].store.id # NoSid
        PROVE  owner[sessions[r].store.id] = sessions[r].client
    <3>1. sessions[r].store.id \in Sids
      BY <2>1 DEF SessionInv, SessionType, Request, Stores, Ids
    <3> QED BY <3>1 DEF SessionInv, Owned, Mentions
  <2>2. ASSUME NEW c \in Clients, NEW s \in {jar[c].cookie, jar[c].given} \ {NoSid}
        PROVE  owner[s] = c
    <3>1. s \in Sids
      BY DEF SessionInv, SessionType, Jar, Ids
    <3> QED BY <3>1 DEF SessionInv, Owned, Kept
  <2> QED BY <2>1, <2>2 DEF OwnSession
<1> QED BY InitInv, StepInv, <1>1, PTL DEF SessionSpec

\* For any number of requests that save sessions at once, a saved session expires,
\* unless a command failed or the process crashed between the two.
THEOREM NeverPermanentTheorem == SessionSpec => []NeverPermanent
<1>1. SessionInv => NeverPermanent
  BY DEF SessionInv
<1> QED BY InitInv, StepInv, <1>1, PTL DEF SessionSpec

\* A destroyed session is not saved again by a request that came later, with any
\* number of requests of its client in progress.
THEOREM DestroyedStaysTheorem == SessionSpec => []DestroyedStays
<1>1. SessionInv => DestroyedStays
  BY DEF SessionInv, Destroyed, DestroyedStays
<1> QED BY InitInv, StepInv, <1>1, PTL DEF SessionSpec
=============================================================================
