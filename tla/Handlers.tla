------------------------------ MODULE Handlers ------------------------------
(***************************************************************************)
(* The handlers by name of the Kvstore and the Database component, sql and *)
(* nosql (kvstore/protocol.go, database/protocol.go with redis.go,         *)
(* mysql.go and habase.go): a component uses a provider, an object with a  *)
(* map of handlers, and NewHandler returns the provider's handler of a     *)
(* name or makes it.  The components have no lock.                         *)
(***************************************************************************)
EXTENDS Naturals, Sequences, FiniteSets

CONSTANTS
    Users,   \* goroutines that ask for handlers
    Names,   \* names of handlers
    MaxMade, \* bound: handlers made
    MaxUses, \* bound: calls of Use
    None

ASSUME HandlersAssumption == None \notin Nat /\ MaxUses \in Nat

\* Providers by the call of Use that made them.
Objects == 1..MaxUses

VARIABLES
    provider, \* how many calls of Use there were; if the last has run Initiate
    mapped,   \* the providers that have a map
    handlers, \* by provider and name
    dropped,  \* by provider, how many handlers there were when its map was made anew
    users,    \* what each goroutine is doing
    called,   \* for each handler made, how many there were when its maker called NewHandler
    crashed   \* a provider's map was written while it was used

handlersVars == <<provider, mapped, handlers, dropped, users, called, crashed>>

made == Len(called)

NoHandlers == [n \in Names |-> None]

Idle == [at |-> "idle", name |-> None, handler |-> None, use |-> 0, called |-> 0,
         nomap |-> FALSE]

HandlersInit ==
    /\ provider = [uses |-> 0, initiated |-> TRUE]
    /\ mapped = {}
    /\ handlers = [o \in Objects |-> NoHandlers]
    /\ dropped = [o \in Objects |-> 0]
    /\ users = [u \in Users |-> Idle]
    /\ called = << >>
    /\ crashed = FALSE

\* Use, in Initiate with the built-in provider, in OnStartup with the configured
\* one, and in Initiate of a session handler.  A new provider is put in place ...
Use ==
    /\ provider.initiated
    /\ provider.uses < MaxUses
    /\ provider' = [uses |-> provider.uses + 1, initiated |-> FALSE]
    /\ UNCHANGED <<mapped, handlers, dropped, users, called, crashed>>

\* ... and then its Initiate makes its map, also if it has one by now.
UseInitiates ==
    /\ ~ provider.initiated
    /\ provider' = [uses |-> provider.uses, initiated |-> TRUE]
    /\ mapped' = mapped \cup {provider.uses}
    /\ handlers' = [handlers EXCEPT ![provider.uses] = NoHandlers]
    /\ dropped' = [dropped EXCEPT ![provider.uses] = made]
    /\ UNCHANGED <<users, called, crashed>>

\* NewHandler and GetHandler begin: they read which provider is in use.
Calls(u, at, name) ==
    /\ users[u].at \in {"idle", "has"}
    /\ provider.uses > 0
    /\ users' = [users EXCEPT ![u] = [at |-> at, name |-> name, handler |-> None,
                                      use |-> provider.uses, called |-> made,
                                      nomap |-> FALSE]]
    /\ UNCHANGED <<provider, mapped, handlers, dropped, called, crashed>>

NewHandler(u, name) == Calls(u, "new", name)
GetHandler(u, name) == Calls(u, "get", name)

\* A wrong Looks for HandlerIsShared: NewHandler always makes one.
LooksNowhere(u) ==
    /\ users[u].at \in {"new", "get"}
    /\ users' = [users EXCEPT ![u] = IF users[u].at = "new" THEN [@ EXCEPT !.at = "none"] ELSE Idle]
    /\ UNCHANGED <<provider, mapped, handlers, dropped, called, crashed>>

\* They ask it for the handler of the name.  GetHandler never makes one; that of the
\* nosql handler was meant to, and looks for another text in the error.
Looks(u) ==
    /\ users[u].at \in {"new", "get"}
    /\ LET h == handlers[users[u].use][users[u].name]
       IN  users' = [users EXCEPT ![u] =
                        CASE h # None -> [@ EXCEPT !.at = "has", !.handler = h, !.called = 0]
                          [] h = None /\ @.at = "new" -> [@ EXCEPT !.at = "none"]
                          [] OTHER -> Idle]
    /\ UNCHANGED <<provider, mapped, handlers, dropped, called, crashed>>

\* NewHandler without one reads again which provider is in use, merges the defaults of
\* the component into the configuration and has the provider make a handler, which
\* looks whether it has a map.
NewHandlerCalls(u) ==
    /\ users[u].at = "none"
    /\ users' = [users EXCEPT ![u].at = "make", ![u].use = provider.uses,
                              ![u].nomap = provider.uses \notin mapped]
    /\ UNCHANGED <<provider, mapped, handlers, dropped, called, crashed>>

\* NewHandler of the provider puts a new handler into its map, or into a map that it
\* makes for it, in place of one that may be there by now, ...
NewHandlerMakes(u) ==
    /\ users[u].at = "make"
    /\ made < MaxMade
    /\ called' = Append(called, users[u].called)
    /\ users' = [users EXCEPT ![u].at = "has", ![u].handler = made + 1, ![u].called = 0,
                              ![u].nomap = FALSE]
    /\ LET o == users[u].use
           n == users[u].name
       IN  /\ mapped' = mapped \cup {o}
           /\ handlers' = [handlers EXCEPT ![o] =
                              [IF users[u].nomap THEN NoHandlers ELSE @ EXCEPT ![n] = made + 1]]
           /\ dropped' = [dropped EXCEPT ![o] = IF users[u].nomap THEN made ELSE @]
    /\ UNCHANGED <<provider, crashed>>

\* ... or makes none, as the configuration is not valid.
NewHandlerFails(u) ==
    /\ users[u].at = "make"
    /\ users' = [users EXCEPT ![u] = Idle]
    /\ UNCHANGED <<provider, mapped, handlers, dropped, called, crashed>>

\* A provider's map, written by a goroutine while another writes or reads it.
ConcurrentMapWrites ==
    /\ \E u, w \in Users : /\ u # w /\ users[u].use = users[w].use
                           /\ users[u].at = "make" /\ users[w].at \in {"make", "new", "get"}
    /\ crashed' = TRUE
    /\ UNCHANGED <<provider, mapped, handlers, dropped, users, called>>

HandlersNext ==
    /\ ~crashed
    /\ \/ Use \/ UseInitiates
       \/ \E u \in Users, name \in Names : NewHandler(u, name) \/ GetHandler(u, name)
       \/ \E u \in Users : Looks(u) \/ NewHandlerCalls(u) \/ NewHandlerMakes(u) \/ NewHandlerFails(u)
       \/ ConcurrentMapWrites

HandlersSpec == HandlersInit /\ [][HandlersNext]_handlersVars

-----------------------------------------------------------------------------
\* Two handlers of a name that goroutines were given by the same provider are one,
\* though Use and NewHandler take no lock, unless NewHandler for the later one was
\* called before the earlier one was there, or the earlier one was dropped when the
\* provider's map was made anew: by Initiate, after Use had put the provider in place,
\* or by a NewHandler that had found no map.
HandlerIsShared ==
    \A u, v \in Users :
        (/\ users[u].at = "has" /\ users[v].at = "has"
         /\ users[u].name = users[v].name
         /\ users[u].use = users[v].use
         /\ users[u].handler < users[v].handler) =>
            \/ called[users[v].handler] < users[u].handler
            \/ users[u].handler <= dropped[users[u].use]
=============================================================================
