------------------------------- MODULE Session -------------------------------
(***************************************************************************)
(* The Session component (session/protocol.go) with its redis and mysql    *)
(* handlers (session/redis.go, session/mysql.go): sessions found by the id *)
(* that a client sends in a cookie, the url or a header, opened as a       *)
(* store, and saved by Release.  Several requests of a client run at once. *)
(*                                                                         *)
(* One step is one command of the backend.  A failed command with no       *)
(* effect is a step that changes nothing.  The data of a session is left   *)
(* out: Set, Get, Delete and Flush work on the map of a store under its    *)
(* lock, and no command depends on it.  The table of the mysql handler is  *)
(* external: reading a row finds one or none.                              *)
(***************************************************************************)
EXTENDS Naturals, FiniteSets

CONSTANTS
    Clients,  \* browsers, each keeping the id of a session
    Requests, \* requests in progress at one time
    Sids,     \* session ids that may be generated
    Carriers  \* what may be enabled, sets of "cookie", "query" and "header"

NoSid == 0

ASSUME SessionAssumption == Sids \subseteq Nat \ {NoSid} /\ NoSid \notin Clients

VARIABLES
    sessionProvider, \* "redis" or "mysql"
    enabled,         \* EnableSetCookie, EnableSidInUrlQuery, EnableSidInHttpHeader
    backend,         \* redis: by session id, whether it exists and expires
    jar,             \* the id in the cookie of each client, and the one it was given last
    sessions,        \* the requests
    owner,           \* the client that an id was generated for
    outlived,        \* by id, if it was destroyed and not saved since, and the requests of then
    revived,         \* ids saved again by a request that came after they were destroyed
    failed           \* ids set for which Expire did not follow

sessionVars == <<sessionProvider, enabled, backend, jar, sessions, owner, outlived, revived, failed>>
fixed == <<sessionProvider, enabled>>

Missing == [exists |-> FALSE, ttl |-> FALSE]

Undestroyed == [destroyed |-> FALSE, by |-> {}]

\* A store; direct if it was opened by GetStoreById.
Store(s) == [id |-> s, direct |-> FALSE]
NoStore == Store(NoSid)

\* A request: the first of its cookies with the session's name, which is the one that
\* is read, the ids in its url and its header, the id being generated, and what its
\* response tells the client to keep (at most one id, NoSid to drop the cookie).
Unused == [at |-> "none", client |-> NoSid, cookie |-> NoSid, query |-> NoSid,
           header |-> NoSid, new |-> NoSid, store |-> NoStore, answer |-> {}]

EmptyJar == [cookie |-> NoSid, given |-> NoSid]

\* OnStartup has used the configured handler.
SessionInit ==
    /\ sessionProvider \in {"redis", "mysql"}
    /\ enabled \in Carriers
    /\ backend = [s \in Sids |-> Missing]
    /\ jar = [c \in Clients |-> EmptyJar]
    /\ sessions = [r \in Requests |-> Unused]
    /\ owner = [s \in Sids |-> NoSid]
    /\ outlived = [s \in Sids |-> Undestroyed]
    /\ revived = {}
    /\ failed = {}

AtRest(r) == sessions[r].at = "ready"
Command(r, at) == sessions' = [sessions EXCEPT ![r].at = at]

\* A wrong sessionID for OwnSession: too few bytes to tell the ids apart.
sessionIDShort(s) == s \in Sids

\* sessionID: random bytes, taken never to repeat.  The ids are alike, the least will do.
sessionID(s) == s \in Sids /\ owner[s] = NoSid /\ \A t \in Sids : t < s => owner[t] # NoSid

\* getSid: the first cookie, else the parameter of the url, else the header, each of
\* these if it is enabled.
getSid(r) ==
    CASE sessions[r].cookie # NoSid -> sessions[r].cookie
      [] sessions[r].cookie = NoSid /\ sessions[r].query # NoSid -> sessions[r].query
      [] OTHER -> sessions[r].header

-----------------------------------------------------------------------------
\* A request with the cookie of the client, and the id that it was given in the url or
\* the header where those are read.
Arrive(r, c) ==
    /\ sessions[r].at = "none"
    /\ sessions' = [sessions EXCEPT ![r] =
                       [Unused EXCEPT !.at = "ready", !.client = c,
                            !.cookie = jar[c].cookie,
                            !.query = IF "query" \in enabled THEN jar[c].given ELSE NoSid,
                            !.header = IF "header" \in enabled THEN jar[c].given ELSE NoSid]]
    /\ UNCHANGED <<fixed, backend, jar, owner, outlived, revived, failed>>

Forget(rs) == outlived' = [s \in Sids |-> [outlived[s] EXCEPT !.by = @ \ rs]]

\* What a client keeps of a response that gives the id s, or drops the cookie.
Keeps(kept, s) ==
    [cookie |-> IF "cookie" \in enabled THEN s ELSE kept.cookie,
     given |-> IF s # NoSid /\ enabled # {"cookie"} THEN s ELSE kept.given]

\* The response is written.
Respond(r) ==
    /\ AtRest(r)
    /\ \/ sessions[r].answer = {} /\ UNCHANGED jar
       \/ \E s \in sessions[r].answer :
              jar' = [jar EXCEPT ![sessions[r].client] = Keeps(@, s)]
    /\ sessions' = [sessions EXCEPT ![r] = Unused]
    /\ Forget({r})
    /\ UNCHANGED <<fixed, backend, owner, revived, failed>>

\* Whether a session exists: redis has its key.  The mysql handler answers with an
\* error whether it finds a row or not.
Exist(s) == s # NoSid /\ sessionProvider = "redis" /\ backend[s].exists

\* A wrong StartChecks for DestroyedStays: an id that the request has is used as it is.
StartChecksNothing(r) ==
    /\ AtRest(r)
    /\ sessionProvider = "redis"
    /\ Command(r, IF getSid(r) # NoSid THEN "read" ELSE "new")
    /\ UNCHANGED <<fixed, backend, jar, owner, outlived, revived, failed>>

\* Start: the session of the request, or else a new one.
StartChecks(r) ==
    /\ AtRest(r)
    /\ sessionProvider = "redis"
    /\ Command(r, IF Exist(getSid(r)) THEN "read" ELSE "new")
    /\ UNCHANGED <<fixed, backend, jar, owner, outlived, revived, failed>>

\* GetStore: the session of the request, or else an error.
GetStore(r) ==
    /\ AtRest(r)
    /\ Exist(getSid(r))
    /\ Command(r, "read")
    /\ UNCHANGED <<fixed, backend, jar, owner, outlived, revived, failed>>

\* Read of the redis handler asserts bytes of what Get returns as a string, so that a
\* session that exists is an error.  One that is not there is opened empty.
Read(r) ==
    /\ sessions[r].at = "read"
    /\ sessions' = [sessions EXCEPT ![r].at = "ready",
                        ![r].store = IF Exist(getSid(r)) THEN @
                                     ELSE Store(getSid(r))]
    /\ UNCHANGED <<fixed, backend, jar, owner, outlived, revived, failed>>

\* GetStoreById, called with the id of the request.
GetStoreById(r) ==
    /\ AtRest(r)
    /\ getSid(r) # NoSid
    /\ ~ Exist(getSid(r))
    /\ sessions' = [sessions EXCEPT ![r].store = [id |-> getSid(r), direct |-> TRUE]]
    /\ UNCHANGED <<fixed, backend, jar, owner, outlived, revived, failed>>

\* The id s is added to the request and to the response, after any it had.
Carry(request, s, store) ==
    [request EXCEPT !.at = "ready", !.store = store, !.new = NoSid, !.answer = {s},
                    !.cookie = IF @ = NoSid THEN s ELSE @,
                    !.header = IF "header" \in enabled THEN s ELSE @]

\* Start generates an id, reads it, which finds nothing, and sends it; or fails.
StartNew(r) ==
    /\ sessions[r].at = "new"
    /\ \/ Command(r, "ready") /\ UNCHANGED owner
       \/ \E s \in Sids :
              /\ sessionID(s)
              /\ owner' = [owner EXCEPT ![s] = sessions[r].client]
              /\ sessions' = [sessions EXCEPT ![r] = Carry(@, s, Store(s))]
    /\ UNCHANGED <<fixed, backend, jar, outlived, revived, failed>>

-----------------------------------------------------------------------------
SetKey(s) == backend' = [backend EXCEPT ![s] = [exists |-> TRUE, ttl |-> FALSE]]

\* Expire, of a key that may be gone by now; or it fails, and the key stays for ever.
Expire(s) ==
    \/ backend' = [backend EXCEPT ![s].ttl = backend[s].exists] /\ UNCHANGED failed
    \/ failed' = failed \cup {s} /\ UNCHANGED backend

\* Release saves the whole map of the store: the key is set, without an expiry, ...
ReleaseSets(r) ==
    /\ AtRest(r)
    /\ sessionProvider = "redis"
    /\ sessions[r].store # NoStore
    /\ LET s == sessions[r].store.id
           late == outlived[s].destroyed /\ r \notin outlived[s].by /\ ~ sessions[r].store.direct
       IN  /\ SetKey(s)
           /\ revived' = IF late THEN revived \cup {s} ELSE revived
           /\ outlived' = [outlived EXCEPT ![s] = Undestroyed]
           /\ failed' = failed \ {s}
    /\ Command(r, "expire")
    /\ UNCHANGED <<fixed, jar, owner>>

\* A wrong ReleaseExpires for NeverPermanent: only the key of a store opened by its id.
ReleaseExpiresDirect(r) ==
    /\ sessions[r].at = "expire"
    /\ IF sessions[r].store.direct THEN Expire(sessions[r].store.id) ELSE UNCHANGED <<backend, failed>>
    /\ Command(r, "ready")
    /\ UNCHANGED <<fixed, jar, owner, outlived, revived>>

\* ... and then made to expire.
ReleaseExpires(r) ==
    /\ sessions[r].at = "expire"
    /\ Expire(sessions[r].store.id)
    /\ Command(r, "ready")
    /\ UNCHANGED <<fixed, jar, owner, outlived, revived>>

\* Release of the mysql handler changes rows of the table, and no error is seen: a
\* step that changes nothing here.

\* Destroy: an id in the header is taken off the request and the response.  The session
\* of the first cookie is deleted, which may fail unseen, and the client told to drop it.
Destroy(r) ==
    /\ AtRest(r)
    /\ LET s == sessions[r].cookie
       IN  /\ sessions' = [sessions EXCEPT ![r].header = NoSid,
                               ![r].answer = CASE s # NoSid /\ "cookie" \in enabled -> {NoSid}
                                               [] s = NoSid \/ "header" \in enabled -> {}
                                               [] OTHER -> @]
           /\ \/ UNCHANGED <<backend, outlived, failed>>
              \/ /\ s # NoSid
                 /\ sessionProvider = "redis"
                 /\ backend' = [backend EXCEPT ![s] = Missing]
                 /\ outlived' = [outlived EXCEPT ![s] =
                       [destroyed |-> TRUE, by |-> {q \in Requests : sessions[q].at # "none"}]]
                 /\ failed' = failed \ {s}
    /\ UNCHANGED <<fixed, jar, owner, revived>>

\* RegenerateID generates an id.  Without a cookie it is read, and opened empty.
\* With one, Regenerate gets the old session: of redis a session that exists is an error
\* again, one that does not is set empty under the new id; of mysql a row gives its data.
RegenerateID(r) ==
    /\ AtRest(r)
    /\ \E s \in Sids :
           /\ sessionID(s)
           /\ owner' = [owner EXCEPT ![s] = sessions[r].client]
           /\ LET Gives(store) == sessions' = [sessions EXCEPT ![r] = Carry(@, s, store)]
                  old == sessions[r].cookie
              IN  \/ Gives(NoStore) /\ UNCHANGED backend
                  \/ /\ old = NoSid /\ sessionProvider = "redis"
                     /\ Gives(Store(s))
                     /\ UNCHANGED backend
                  \/ /\ old # NoSid /\ sessionProvider = "redis" /\ ~ Exist(old)
                     /\ SetKey(s)
                     /\ sessions' = [sessions EXCEPT ![r].at = "regenerate", ![r].new = s]
                  \/ /\ old # NoSid /\ sessionProvider = "mysql"
                     /\ Gives(Store(s))
                     /\ UNCHANGED backend
    /\ UNCHANGED <<fixed, jar, outlived, revived, failed>>

\* The new key is made to expire, and its id sent whether or not that succeeds.
RegenerateExpires(r) ==
    /\ sessions[r].at = "regenerate"
    /\ LET s == sessions[r].new
       IN  /\ Expire(s)
           /\ sessions' = [sessions EXCEPT ![r] =
                  Carry(@, s, IF s \in failed' THEN NoStore ELSE Store(s))]
    /\ UNCHANGED <<fixed, jar, owner, outlived, revived>>

\* The key of a session expires.
KeyExpires(s) ==
    /\ backend[s].ttl
    /\ backend' = [backend EXCEPT ![s] = Missing]
    /\ UNCHANGED <<fixed, jar, sessions, owner, outlived, revived, failed>>

\* The process crashes and starts again; the clients get no response.
SessionCrash ==
    /\ failed' = failed \cup {sessions[r].store.id : r \in {q \in Requests : sessions[q].at = "expire"}}
                        \cup {sessions[r].new : r \in {q \in Requests : sessions[q].at = "regenerate"}}
    /\ sessions' = [r \in Requests |-> Unused]
    /\ Forget(Requests)
    /\ UNCHANGED <<fixed, backend, jar, owner, revived>>

SessionNext ==
    \/ \E r \in Requests :
           \/ \E c \in Clients : Arrive(r, c)
           \/ Respond(r)
           \/ StartChecks(r) \/ GetStore(r) \/ Read(r) \/ StartNew(r)
           \/ GetStoreById(r)
           \/ ReleaseSets(r) \/ ReleaseExpires(r)
           \/ Destroy(r)
           \/ RegenerateID(r) \/ RegenerateExpires(r)
    \/ \E s \in Sids : KeyExpires(s)
    \/ SessionCrash

SessionSpec == SessionInit /\ [][SessionNext]_sessionVars

-----------------------------------------------------------------------------
\* The session an open store is saved under, and the id that a client keeps, were
\* generated for that client: with requests of several clients in progress, nobody
\* is given or overwrites the session of somebody else (Start, RegenerateID, Release).
OwnSession ==
    /\ \A r \in Requests : LET s == sessions[r].store.id
                           IN  s # NoSid => owner[s] = sessions[r].client
    /\ \A c \in Clients : \A s \in {jar[c].cookie, jar[c].given} \ {NoSid} : owner[s] = c

\* A saved session expires, though Release and Regenerate set the key and its expiry
\* by two commands and several requests save it at once: one that has no expiry is
\* still being saved, or its second command failed or was cut off by a crash.
NeverPermanent ==
    \A s \in Sids : backend[s].exists /\ ~ backend[s].ttl =>
        \/ s \in failed
        \/ \E r \in Requests : \/ sessions[r].at = "expire" /\ sessions[r].store.id = s
                               \/ sessions[r].at = "regenerate" /\ sessions[r].new = s

\* A destroyed session is not saved again, unless by a request that was in progress
\* when it was destroyed or that opened it by its id: Start gives a request with the
\* old cookie a new id.
DestroyedStays == revived = {}
=============================================================================
