-------------------------------- MODULE Redis --------------------------------
(***************************************************************************)
(* RedisPool of kvstore/redis.go: every command takes a connection of the  *)
(* pool, makes the key of the server from the handler's prefix and its     *)
(* argument, sends the command, and gives the connection back, deferred,   *)
(* on every way out.                                                       *)
(*                                                                         *)
(* The pool (redigo) and the server are external.  The pool refuses a      *)
(* connection beyond MaxActiveConns, keeps at most MaxIdleConns and drops  *)
(* one that has failed.  A key of the server has a type and members, and   *)
(* may expire.  Prefixes and keys are sequences of characters.             *)
(***************************************************************************)
EXTENDS Naturals, Sequences, FiniteSets, SequencesExt

CONSTANTS
    Commanders,     \* goroutines that send commands
    KeyPrefixes,    \* key prefixes of the handlers, one pool each
    RedisKeys,      \* keys that commands are given
    KeyTypes,       \* the Go types of a key, among "string", "int64", "int", "other"
    Members,        \* fields of a hash, members of a set
    MaxActiveConns, \* 0 for no limit
    MaxIdleConns

VARIABLES
    pools,    \* by prefix, the connections in use and the idle ones
    commands, \* what each goroutine is doing
    server    \* by key of the server

redisVars == <<pools, commands, server>>

ServerKeys == {prefix \o key : prefix \in KeyPrefixes, key \in RedisKeys}
Gone == [type |-> "none", members |-> {}, ttl |-> FALSE]
NoCommand == [at |-> "idle", failed |-> FALSE]

\* NewHandler makes a pool, without a connection, for each handler.
RedisInit ==
    /\ pools = [p \in KeyPrefixes |-> [active |-> 0, idle |-> 0]]
    /\ commands = [c \in Commanders |-> NoCommand]
    /\ server = [k \in ServerKeys |-> Gone]

-----------------------------------------------------------------------------
\* What the server has under a key after a member is added or removed; a key of
\* another type is an error of the command.
AddMember(type, m, old) ==
    IF old.type \in {type, "none"}
    THEN [type |-> type, members |-> old.members \cup {m}, ttl |-> old.ttl] ELSE old
RemoveMember(type, m, old) ==
    CASE old.type # type -> old
      [] old.members \subseteq {m} -> Gone
      [] OTHER -> [old EXCEPT !.members = @ \ {m}]

\* Get, Keys and Exists read.
StringCommands == {"GET", "SET", "DEL", "KEYS", "EXPIRE", "EXISTS"}
StringCommand(name, m, old) ==
    CASE name = "SET" -> [type |-> "string", members |-> {m}, ttl |-> FALSE]
      [] name = "DEL" -> Gone
      [] name = "EXPIRE" /\ old # Gone -> [old EXCEPT !.ttl = TRUE]
      [] OTHER -> old

\* Hmget, Hget, Hlen and Hgetall read.
HashCommands == {"HMSET", "HSET", "HDEL", "HGET"}
HashCommand(name, m, old) ==
    CASE name \in {"HMSET", "HSET"} -> AddMember("hash", m, old)
      [] name = "HDEL" -> RemoveMember("hash", m, old)
      [] OTHER -> old

\* Scard reads.
SetCommands == {"SADD", "SCARD"}
SetCommand(name, m, old) == IF name = "SADD" THEN AddMember("set", m, old) ELSE old

\* Zcard, Zscore and the ranges read.
ZsetCommands == {"ZADD", "ZREM", "ZRANGE"}
ZsetCommand(name, m, old) ==
    CASE name = "ZADD" -> AddMember("zset", m, old)
      [] name = "ZREM" -> RemoveMember("zset", m, old)
      [] OTHER -> old

\* Zscan, Sscan, Hscan, Scan and Sort read; Scan looks at all keys of the server.
ScanCommands == {"SCAN"}

Command(name, m, old) ==
    CASE name \in StringCommands -> StringCommand(name, m, old)
      [] name \in HashCommands -> HashCommand(name, m, old)
      [] name \in SetCommands -> SetCommand(name, m, old)
      [] name \in ZsetCommands -> ZsetCommand(name, m, old)
      [] OTHER -> old

CommandNames == StringCommands \cup HashCommands \cup SetCommands \cup ZsetCommands \cup ScanCommands

-----------------------------------------------------------------------------
\* this.Pool.Get(): a connection, or one on which every command is an error.
Acquire(c, prefix) ==
    /\ commands[c].at = "idle"
    /\ LET refused == MaxActiveConns # 0 /\ pools[prefix].active = MaxActiveConns
       IN  /\ commands' = [commands EXCEPT ![c] =
                              [at |-> "key", failed |-> refused, prefix |-> prefix,
                               conn |-> ~refused]]
           /\ pools' = IF refused THEN pools
                       ELSE [pools EXCEPT ![prefix].active = @ + 1,
                                          ![prefix].idle = IF @ > 0 THEN @ - 1 ELSE 0]
    /\ UNCHANGED server

\* generateKey of a string, an int64 or bytes.
GenerateKey(prefix, key) == prefix \o key

\* A wrong KeyFails for ConnectionsReturned: the way out does not give back.
KeyFailsEarly(c, type) ==
    /\ commands[c].at = "key"
    /\ type \in {"int", "other"}
    /\ commands' = [commands EXCEPT ![c] = NoCommand]
    /\ UNCHANGED <<pools, server>>

\* generateKey of another type is an error; of an int it is a panic, as the key is
\* asserted to be an int64.  The deferred Close is on both ways out.
KeyFails(c, type) ==
    /\ commands[c].at = "key"
    /\ type \in {"int", "other"}
    /\ commands' = [commands EXCEPT ![c].at = "close"]
    /\ UNCHANGED <<pools, server>>

\* The command is sent, unless Zadd has no values, and answered or not.
Do(c, type, name, key, m) ==
    /\ commands[c].at = "key"
    /\ type \in {"string", "int64"}
    /\ LET k == GenerateKey(commands[c].prefix, key)
       IN  \/ /\ ~commands[c].failed
              /\ server' = [server EXCEPT ![k] = Command(name, m, @)]
              /\ commands' = [commands EXCEPT ![c].at = "close"]
           \/ /\ commands' = [commands EXCEPT ![c].at = "close", ![c].failed = TRUE]
              /\ UNCHANGED server
    /\ UNCHANGED pools

\* c.Close(), deferred: the connection is idle, or dropped.
CloseConn(c) ==
    /\ commands[c].at = "close"
    /\ LET p == commands[c].prefix
           kept == ~commands[c].failed /\ pools[p].idle < MaxIdleConns
       IN  pools' = IF commands[c].conn
                    THEN [pools EXCEPT ![p].active = @ - 1, ![p].idle = IF kept THEN @ + 1 ELSE @]
                    ELSE pools
    /\ commands' = [commands EXCEPT ![c] = NoCommand]
    /\ UNCHANGED server

\* The server drops a key whose time is over.
KeyExpires(k) ==
    /\ server[k].ttl
    /\ server' = [server EXCEPT ![k] = Gone]
    /\ UNCHANGED <<pools, commands>>

RedisNext ==
    \/ \E c \in Commanders, prefix \in KeyPrefixes : Acquire(c, prefix)
    \/ \E c \in Commanders, type \in KeyTypes :
           \/ KeyFails(c, type)
           \/ \E name \in CommandNames, key \in RedisKeys, m \in Members :
                  Do(c, type, name, key, m)
    \/ \E c \in Commanders : CloseConn(c)
    \/ \E k \in ServerKeys : KeyExpires(k)

-----------------------------------------------------------------------------
\* However a command ends, with an answer, an error of its key or of the
\* connection, or a panic, it has given back what it took: the connections in use
\* are those of the commands in progress, and within the limits of the pool.
ConnectionsReturned ==
    \A p \in KeyPrefixes :
        LET using == {c \in Commanders : /\ commands[c].at # "idle"
                                         /\ commands[c].prefix = p
                                         /\ commands[c].conn}
        IN  /\ pools[p].active = Cardinality(using)
            /\ MaxActiveConns # 0 => pools[p].active <= MaxActiveConns
            /\ pools[p].idle <= MaxIdleConns
=============================================================================
