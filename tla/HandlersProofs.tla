--------------------------- MODULE HandlersProofs ---------------------------
(***************************************************************************)
(* For any goroutines, names and providers: the handler of a name is       *)
(* shared, except by calls of NewHandler that overlap and when the map of  *)
(* a provider that is in place is made anew.                               *)
(***************************************************************************)
EXTENDS Handlers, TLAPS

User == [at : {"idle", "new", "get", "none", "make", "has"}, name : Names \cup {None},
         handler : Nat \cup {None}, use : Nat, called : Nat, nomap : BOOLEAN]

HandlersType ==
    /\ provider.uses \in 0..MaxUses
    /\ handlers \in [Objects -> [Names -> Nat \cup {None}]]
    /\ dropped \in [Objects -> Nat]
    /\ users \in [Users -> User]
    /\ called \in Seq(Nat)

\* Nobody is ahead of the handlers made, and of the providers used.
Bounded ==
    /\ \A o \in Objects, n \in Names : handlers[o][n] # None =>
           handlers[o][n] \in 1..made /\ o <= provider.uses
    /\ \A u \in Users : users[u].at # "idle" =>
           /\ users[u].use \in 1..provider.uses
           /\ users[u].called <= made
           /\ users[u].name \in Names
           /\ users[u].at = "has" => users[u].handler \in 1..made

\* A handler of provider o that was not dropped.
Kept(u, o) == users[u].at = "has" /\ users[u].use = o /\ users[u].handler > dropped[o]

\* A handler that was not dropped is in the map of its provider, or was replaced by
\* one for which NewHandler had been called before.
InMap(u) ==
    LET h == handlers[users[u].use][users[u].name]
    IN  /\ h # None
        /\ users[u].handler <= h
        /\ users[u].handler < h => called[h] < users[u].handler

\* A goroutine called NewHandler before there was one of that name of provider o.
CalledFirst(w, o) ==
    /\ handlers[o][users[w].name] # None => users[w].called < handlers[o][users[w].name]
    /\ \A u \in Users : Kept(u, o) /\ users[u].name = users[w].name =>
           users[w].called < users[u].handler

\* The providers of which that is known: those used since it called, and the one it
\* asked once that had none.
Since(w, o) ==
    \/ users[w].at = "new" /\ o > users[w].use
    \/ users[w].at \in {"none", "make"} /\ o >= users[w].use

HandlersInv ==
    /\ HandlersType
    /\ Bounded
    /\ \A u \in Users, o \in Objects : Kept(u, o) => InMap(u)
    /\ \A w \in Users, o \in Objects : Since(w, o) => CalledFirst(w, o)
    /\ HandlerIsShared

LEMMA InitInv == HandlersInit => HandlersInv
<1> SUFFICES ASSUME HandlersInit PROVE HandlersInv
  OBVIOUS
<1>1. HandlersType
  BY HandlersAssumption DEF HandlersInit, HandlersType, User, Idle, NoHandlers, Objects
<1>2. \A u \in Users : users[u].at = "idle"
  BY DEF HandlersInit, Idle
<1>3. \A o \in Objects, n \in Names : handlers[o][n] = None
  BY DEF HandlersInit, NoHandlers
<1> QED BY <1>1, <1>2, <1>3 DEF HandlersInv, Bounded, Kept, Since, HandlerIsShared

\* Use and Initiate, which empties the map of the provider in use.
LEMMA UseInv == HandlersInv /\ (Use \/ UseInitiates) => HandlersInv'
<1> SUFFICES ASSUME HandlersInv, Use \/ UseInitiates PROVE HandlersInv'
  OBVIOUS
<1>1. made \in Nat /\ None \notin Nat /\ MaxUses \in Nat
  BY HandlersAssumption DEF HandlersInv, HandlersType, made
<1>2. /\ UNCHANGED <<users, called, made>>
      /\ provider'.uses \in 0..MaxUses /\ provider.uses <= provider'.uses
  <2>1. provider.uses \in 0..MaxUses
    BY DEF HandlersInv, HandlersType
  <2>2. CASE Use
    BY <1>1, <2>1, <2>2 DEF Use, made
  <2>3. CASE UseInitiates
    <3>1. provider'.uses = provider.uses /\ UNCHANGED <<users, called>>
      BY SMTT(30), <2>3 DEF UseInitiates
    <3> QED BY <1>1, <2>1, <3>1 DEF made
  <2> QED BY <2>2, <2>3
<1>3. CASE Use
  <2>1. UNCHANGED <<handlers, dropped>>
    BY <1>3 DEF Use
  <2>2. HandlersType' /\ Bounded'
    BY SMTT(30), <1>1, <1>2, <2>1 DEF HandlersInv, HandlersType, Bounded, User, Objects
  <2> QED BY <1>2, <2>1, <2>2 DEF HandlersInv, Kept, InMap, Since, CalledFirst, HandlerIsShared
<1>4. CASE UseInitiates
  <2> DEFINE p == provider.uses
  <2>1. /\ handlers' = [handlers EXCEPT ![p] = NoHandlers]
        /\ dropped' = [dropped EXCEPT ![p] = made]
    BY <1>4 DEF UseInitiates
  <2>2. HandlersType'
    BY Zenon, <1>1, <1>2, <2>1 DEF HandlersInv, HandlersType, NoHandlers
  <2>3. \A o \in Objects : /\ o # p => handlers'[o] = handlers[o] /\ dropped'[o] = dropped[o]
                           /\ o = p => dropped'[o] = made
                           /\ \A n \in Names : \/ handlers'[o][n] = None
                                               \/ o # p
    BY <2>1 DEF HandlersInv, HandlersType, NoHandlers
  <2>4. Bounded'
    <3>1. provider'.uses = provider.uses
      BY <1>4 DEF UseInitiates
    <3>2. ASSUME NEW o \in Objects, NEW n \in Names, handlers'[o][n] # None
          PROVE  handlers'[o][n] \in 1..made' /\ o <= provider'.uses
      BY <1>2, <2>3, <3>1, <3>2 DEF HandlersInv, Bounded
    <3> QED BY <1>2, <3>1, <3>2 DEF HandlersInv, Bounded
  <2>5. ASSUME NEW u \in Users, NEW o \in Objects, Kept(u, o)'
        PROVE  o # p /\ Kept(u, o)
    <3>1. users[u].at = "has" /\ users[u].use = o /\ users[u].handler > dropped'[o]
      BY <1>2, <2>5 DEF Kept
    <3>2. users[u].handler \in 1..made
      BY <3>1 DEF HandlersInv, Bounded
    <3> QED BY <1>1, <2>3, <3>1, <3>2 DEF Kept
  <2>6. \A u \in Users : users[u].at = "has" => users[u].use \in Objects /\ users[u].name \in Names
    <3>1. 1..provider.uses \subseteq Objects
      BY <1>1 DEF HandlersInv, HandlersType, Objects
    <3> QED BY <3>1 DEF HandlersInv, Bounded
  <2>7. ASSUME NEW u \in Users, NEW o \in Objects, Kept(u, o)' PROVE InMap(u)'
    <3>1. users'[u] = users[u] /\ users[u].use = o /\ o # p /\ Kept(u, o)
      BY <1>2, <2>5, <2>7 DEF Kept
    <3> QED BY <1>2, <2>3, <3>1 DEF HandlersInv, InMap
  <2>8. ASSUME NEW w \in Users, NEW o \in Objects, Since(w, o)' PROVE CalledFirst(w, o)'
    <3>1. Since(w, o) /\ CalledFirst(w, o) /\ users'[w] = users[w] /\ users[w].name \in Names
      BY <1>2, <2>8 DEF Since, HandlersInv, Bounded
    <3>2. \A u \in Users : Kept(u, o)' => Kept(u, o) /\ users'[u] = users[u]
      BY <1>2, <2>5
    <3>3. handlers'[o][users[w].name] = None \/ handlers'[o] = handlers[o]
      BY <2>3, <3>1
    <3> QED BY <3>1, <3>2, <3>3 DEF CalledFirst
  <2>9. HandlerIsShared'
    <3> SUFFICES ASSUME NEW a \in Users, NEW b \in Users, users[a].at = "has", users[b].at = "has",
                        users[a].name = users[b].name, users[a].use = users[b].use,
                        users[a].handler < users[b].handler
                 PROVE  \/ called[users[b].handler] < users[a].handler
                        \/ users[a].handler <= dropped'[users[a].use]
      BY <1>2 DEF HandlerIsShared
    <3>1. \/ called[users[b].handler] < users[a].handler
          \/ users[a].handler <= dropped[users[a].use]
      BY DEF HandlersInv, HandlerIsShared
    <3>2. users[a].handler \in 1..made /\ users[a].use \in Objects
      BY <2>6 DEF HandlersInv, Bounded
    <3> QED BY <1>1, <2>3, <3>1, <3>2
  <2> QED BY <2>2, <2>4, <2>7, <2>8, <2>9 DEF HandlersInv
<1> QED BY <1>3, <1>4

\* A step of goroutine v alone, to q: a handler that it gets is the one in the map, and
\* what Since says of it holds.
LEMMA LocalInv ==
    ASSUME HandlersInv, NEW v \in Users, NEW q \in User,
           UNCHANGED <<provider, handlers, dropped, called>>,
           users' = [users EXCEPT ![v] = q],
           q.at # "idle" => q.use \in 1..provider.uses /\ q.called <= made /\ q.name \in Names,
           q.at = "has" => handlers[q.use][q.name] # None /\ q.handler = handlers[q.use][q.name],
           \A o \in Objects :
               (q.at = "new" /\ o > q.use) \/ (q.at \in {"none", "make"} /\ o >= q.use) =>
                   /\ handlers[o][q.name] # None => q.called < handlers[o][q.name]
                   /\ \A u \in Users : Kept(u, o) /\ users[u].name = q.name =>
                          q.called < users[u].handler
    PROVE  HandlersInv'
<1>1. made \in Nat /\ None \notin Nat /\ UNCHANGED made /\ 1..provider.uses \subseteq Objects
  BY HandlersAssumption DEF HandlersInv, HandlersType, made, Objects
<1>2. users'[v] = q /\ \A u \in Users \ {v} : users'[u] = users[u]
  BY DEF HandlersInv, HandlersType
<1>3. HandlersType'
  BY DEF HandlersInv, HandlersType
<1>4. Bounded'
  <2>1. q.at = "has" => q.handler \in 1..made
    BY <1>1 DEF HandlersInv, Bounded
  <2>2. \A u \in Users : users'[u].at # "idle" =>
           /\ users'[u].use \in 1..provider.uses
           /\ users'[u].called <= made
           /\ users'[u].name \in Names
           /\ users'[u].at = "has" => users'[u].handler \in 1..made
    BY <1>2, <2>1 DEF HandlersInv, Bounded
  <2> QED BY <1>1, <2>2 DEF HandlersInv, Bounded
<1>5. ASSUME NEW u \in Users, NEW o \in Objects, Kept(u, o)' PROVE InMap(u)'
  <2>1. CASE u = v
    <3>1. q.at = "has" /\ handlers[q.use][q.name] \in Nat
      BY SMTT(30), <1>1, <1>2, <1>5, <2>1 DEF Kept, HandlersInv, Bounded
    <3> QED BY <1>1, <1>2, <2>1, <3>1 DEF InMap
  <2>2. CASE u # v
    BY <1>2, <1>5, <2>2 DEF Kept, HandlersInv, InMap
  <2> QED BY <2>1, <2>2
<1>6. ASSUME NEW w \in Users, NEW o \in Objects, Since(w, o)' PROVE CalledFirst(w, o)'
  <2>1. ASSUME w = v PROVE CalledFirst(w, o)'
    <3>1. /\ handlers[o][q.name] # None => q.called < handlers[o][q.name]
          /\ \A u \in Users : Kept(u, o) /\ users[u].name = q.name => q.called < users[u].handler
      <4>1. (q.at = "new" /\ o > q.use) \/ (q.at \in {"none", "make"} /\ o >= q.use)
        <5>1. users'[w] = q
          BY <1>2, <2>1
        <5> QED BY ONLY <1>6, <5>1 DEF Since
      <4> QED BY <4>1
    <3>2. \A u \in Users : Kept(u, o)' => u # v /\ Kept(u, o)
      BY <1>2, <1>6, <2>1 DEF Kept, Since
    <3> QED BY <1>2, <2>1, <3>1, <3>2 DEF CalledFirst
  <2>2. ASSUME w # v PROVE CalledFirst(w, o)'
    <3>1. users'[w] = users[w] /\ CalledFirst(w, o)
      BY <1>2, <1>6, <2>2 DEF Since, HandlersInv
    <3>2. ASSUME NEW u \in Users, Kept(u, o)', users'[u].name = users[w].name
          PROVE  users[w].called < users'[u].handler
      <4>1. CASE u # v
        BY <1>2, <3>1, <3>2, <4>1 DEF CalledFirst, Kept
      <4>2. CASE u = v
        BY <1>2, <3>1, <3>2, <4>2 DEF CalledFirst, Kept
      <4> QED BY <4>1, <4>2
    <3> QED BY <3>1, <3>2 DEF CalledFirst
  <2> QED BY <2>1, <2>2
<1>7. HandlerIsShared'
  <2> SUFFICES ASSUME NEW a \in Users, NEW b \in Users, users'[a].at = "has", users'[b].at = "has",
                      users'[a].name = users'[b].name, users'[a].use = users'[b].use,
                      users'[a].handler < users'[b].handler
               PROVE  \/ called[users'[b].handler] < users'[a].handler
                      \/ users'[a].handler <= dropped[users'[a].use]
    BY DEF HandlerIsShared
  <2>1. PICK o \in Objects : /\ o = users'[a].use /\ dropped[o] \in Nat
                             /\ users'[a].handler \in Nat /\ users'[b].handler \in Nat
    BY <1>1, <1>3, <1>4 DEF Bounded, HandlersType
  <2>2. CASE a # v /\ b # v
    BY SMTT(30), <1>2, <2>2 DEF HandlersInv, HandlerIsShared
  <2>3. CASE b = v
    <3>1. Kept(a, o)' => InMap(a)'
      BY <1>5, <2>1
    <3>2. users'[b].handler = handlers[o][users'[a].name]
      BY SMTT(30), <1>2, <2>1, <2>3
    <3> QED BY <2>1, <3>1, <3>2 DEF Kept, InMap
  <2>4. CASE a = v
    <3>1. Kept(b, o)' => InMap(b)'
      BY <1>5, <2>1
    <3>2. users'[a].handler = handlers[o][users'[b].name]
      BY <1>2, <2>1, <2>4
    <3> QED BY <2>1, <3>1, <3>2 DEF Kept, InMap
  <2> QED BY <2>2, <2>3, <2>4
<1> QED BY <1>3, <1>4, <1>5, <1>6, <1>7 DEF HandlersInv

LEMMA CallsInv ==
    ASSUME HandlersInv, NEW v \in Users, NEW name \in Names, NEW at \in {"new", "get"}, Calls(v, at, name)
    PROVE  HandlersInv'
<1> DEFINE q == [at |-> at, name |-> name, handler |-> None, use |-> provider.uses, called |-> made,
               nomap |-> FALSE]
<1>1. made \in Nat /\ None \notin Nat /\ provider.uses \in 1..MaxUses /\ MaxUses \in Nat
  BY HandlersAssumption DEF HandlersInv, HandlersType, made, Calls
<1>2. /\ q \in User /\ q.at = at /\ q.name = name /\ q.use = provider.uses /\ q.called = made
  BY <1>1 DEF User
<1>3. users' = [users EXCEPT ![v] = q] /\ UNCHANGED <<provider, handlers, dropped, called>>
  BY DEF Calls
<1> HIDE DEF q
<1>4. ASSUME NEW o \in Objects, o > provider.uses
      PROVE  handlers[o][name] = None /\ \A u \in Users : ~ Kept(u, o)
  BY <1>1, <1>4 DEF HandlersInv, Bounded, Kept, Objects
<1>5. q.use \in 1..provider.uses /\ q.called <= made /\ q.name \in Names /\ q.at \in {"new", "get"}
  BY <1>1, <1>2
<1> QED BY Zenon, <1>2, <1>3, <1>4, <1>5, LocalInv

LEMMA LooksInv == ASSUME HandlersInv, NEW v \in Users, Looks(v) PROVE HandlersInv'
<1> DEFINE h == handlers[users[v].use][users[v].name]
           has == [users[v] EXCEPT !.at = "has", !.handler = h, !.called = 0]
           none == [users[v] EXCEPT !.at = "none"]
<1>1. made \in Nat /\ None \notin Nat /\ 1..provider.uses \subseteq Objects
  BY HandlersAssumption DEF HandlersInv, HandlersType, made, Objects
<1>2. /\ users[v] \in User /\ users[v].name \in Names /\ users[v].use \in 1..provider.uses
      /\ users[v].called <= made /\ users[v].at \in {"new", "get"} /\ users[v].use \in Objects
  BY <1>1 DEF Looks, HandlersInv, HandlersType, Bounded
<1>3. h \in Nat \cup {None}
  BY <1>1, <1>2 DEF HandlersInv, HandlersType
<1>4. UNCHANGED <<provider, handlers, dropped, called>>
  BY DEF Looks
<1>5. \/ h # None /\ users' = [users EXCEPT ![v] = has]
      \/ h = None /\ users[v].at = "new" /\ users' = [users EXCEPT ![v] = none]
      \/ users' = [users EXCEPT ![v] = Idle]
  BY Zenon DEF Looks, HandlersInv, HandlersType
<1>6. CASE h # None /\ users' = [users EXCEPT ![v] = has]
  <2>1. /\ has \in User /\ has.at = "has" /\ has.handler = h /\ has.called = 0
        /\ has.use = users[v].use /\ has.name = users[v].name
    BY Zenon, <1>2, <1>3 DEF User
  <2> HIDE DEF has
  <2>2. /\ has.use \in 1..provider.uses /\ has.called <= made /\ has.name \in Names
        /\ handlers[has.use][has.name] # None /\ has.handler = handlers[has.use][has.name]
    BY <1>1, <1>2, <1>6, <2>1
  <2> QED BY Zenon, <1>4, <1>6, <2>1, <2>2, LocalInv
<1>7. CASE h = None /\ users[v].at = "new" /\ users' = [users EXCEPT ![v] = none]
  <2>1. /\ none \in User /\ none.at = "none" /\ none.called = users[v].called
        /\ none.use = users[v].use /\ none.name = users[v].name
    BY <1>2 DEF User
  <2>2. ASSUME NEW o \in Objects, o >= users[v].use
        PROVE  /\ handlers[o][users[v].name] # None => users[v].called < handlers[o][users[v].name]
               /\ \A u \in Users : Kept(u, o) /\ users[u].name = users[v].name =>
                      users[v].called < users[u].handler
    <3>1. CASE o > users[v].use
      BY <1>7, <3>1 DEF HandlersInv, Since, CalledFirst
    <3>2. CASE o = users[v].use
      <4>1. \A u \in Users : Kept(u, o) => users[u].use = o /\ InMap(u)
        BY DEF HandlersInv, Kept
      <4> QED BY <1>7, <3>2, <4>1 DEF InMap
    <3> QED BY <1>1, <1>2, <2>2, <3>1, <3>2 DEF Objects
  <2> HIDE DEF none
  <2> QED BY Zenon, <1>2, <1>4, <1>7, <2>1, <2>2, LocalInv
<1>8. CASE users' = [users EXCEPT ![v] = Idle]
  <2>1. Idle \in User /\ Idle.at = "idle"
    BY DEF Idle, User
  <2> QED BY Zenon, <1>4, <1>8, <2>1, LocalInv
<1> QED BY <1>5, <1>6, <1>7, <1>8

LEMMA NewHandlerCallsInv ==
    ASSUME HandlersInv, NEW v \in Users, NewHandlerCalls(v) \/ NewHandlerFails(v)
    PROVE  HandlersInv'
<1>1. made \in Nat /\ None \notin Nat /\ 1..provider.uses \subseteq Objects /\ provider.uses \in Nat
  BY HandlersAssumption DEF HandlersInv, HandlersType, made, Objects
<1>2. UNCHANGED <<provider, handlers, dropped, called>>
  BY DEF NewHandlerCalls, NewHandlerFails
<1>3. CASE NewHandlerCalls(v)
  <2> DEFINE q == [users[v] EXCEPT !.at = "make", !.use = provider.uses,
                          !.nomap = provider.uses \notin mapped]
  <2>1. /\ users[v] \in User /\ users[v].name \in Names /\ users[v].use \in 1..provider.uses
        /\ users[v].called <= made /\ users[v].at = "none"
    BY <1>3 DEF NewHandlerCalls, HandlersInv, HandlersType, Bounded
  <2>2. users' = [users EXCEPT ![v] = q]
    BY Zenon, <1>3 DEF NewHandlerCalls, HandlersInv, HandlersType
  <2>3. /\ q \in User /\ q.at = "make" /\ q.called = users[v].called
        /\ q.use = provider.uses /\ q.name = users[v].name
    BY Zenon, <1>1, <2>1 DEF User
  <2>4. ASSUME NEW o \in Objects, o >= provider.uses
        PROVE  /\ handlers[o][users[v].name] # None => users[v].called < handlers[o][users[v].name]
               /\ \A u \in Users : Kept(u, o) /\ users[u].name = users[v].name =>
                      users[v].called < users[u].handler
    <3>1. o >= users[v].use
      BY <1>1, <2>1, <2>4 DEF Objects
    <3>2. CalledFirst(v, o)
      BY <2>1, <3>1 DEF HandlersInv, Since
    <3> QED BY <3>2 DEF CalledFirst
  <2>5. q.use \in 1..provider.uses
    BY <1>1, <2>1, <2>3
  <2> HIDE DEF q
  <2> QED BY Zenon, <1>2, <2>1, <2>2, <2>3, <2>4, <2>5, LocalInv
<1>4. CASE NewHandlerFails(v)
  <2>1. Idle \in User /\ Idle.at = "idle"
    BY DEF Idle, User
  <2>2. users' = [users EXCEPT ![v] = Idle]
    BY <1>4 DEF NewHandlerFails
  <2> QED BY Zenon, <1>2, <2>1, <2>2, LocalInv
<1> QED BY <1>3, <1>4

\* NewHandler of a provider: the new handler is put into the map, or into a new one.
LEMMA NewHandlerMakesInv == ASSUME HandlersInv, NEW v \in Users, NewHandlerMakes(v) PROVE HandlersInv'
<1> DEFINE n == users[v].name
           p == users[v].use
           h == made + 1
<1>1. made \in Nat /\ None \notin Nat /\ 1..provider.uses \subseteq Objects
  BY SMTT(30), HandlersAssumption DEF HandlersInv, HandlersType, made, Objects
<1>2. /\ users[v].at = "make" /\ users[v] \in User /\ n \in Names /\ p \in 1..provider.uses
      /\ p \in Objects /\ users[v].called <= made /\ UNCHANGED provider
  BY <1>1 DEF NewHandlerMakes, HandlersInv, HandlersType, Bounded
<1>3. /\ made' = h /\ called'[h] = users[v].called
      /\ \A i \in 1..made : called'[i] = called[i]
      /\ called' \in Seq(Nat)
  BY <1>1, <1>2 DEF NewHandlerMakes, made, HandlersInv, HandlersType, User
<1>4. /\ users'[v].at = "has" /\ users'[v].handler = h /\ users'[v].use = p
      /\ users'[v].name = n /\ users'[v].called = 0
      /\ \A u \in Users \ {v} : users'[u] = users[u]
      /\ users' \in [Users -> User]
  <2> DEFINE q == [users[v] EXCEPT !.at = "has", !.handler = h, !.called = 0, !.nomap = FALSE]
  <2>1. users \in [Users -> User] /\ h \in Nat
    BY <1>1 DEF HandlersInv, HandlersType
  <2>2. users' = [users EXCEPT ![v] = q]
    BY Zenon, <2>1 DEF NewHandlerMakes
  <2>3. /\ q \in User /\ q.at = "has" /\ q.handler = h /\ q.use = p
        /\ q.name = n /\ q.called = 0
    BY Zenon, <1>2, <2>1 DEF User
  <2> HIDE DEF q, h, n, p
  <2> QED BY <2>1, <2>2, <2>3
<1>5. /\ handlers' = [handlers EXCEPT ![p] = [IF users[v].nomap THEN NoHandlers ELSE @ EXCEPT ![n] = h]]
      /\ dropped' = [dropped EXCEPT ![p] = IF users[v].nomap THEN made ELSE @]
  BY DEF NewHandlerMakes
<1>6. /\ handlers' \in [Objects -> [Names -> Nat \cup {None}]] /\ dropped' \in [Objects -> Nat]
      /\ \A o \in Objects : o # p => dropped'[o] = dropped[o] /\ handlers'[o] = handlers[o]
      /\ handlers'[p][n] = h
      /\ \/ /\ dropped'[p] = dropped[p]
            /\ \A m \in Names \ {n} : handlers'[p][m] = handlers[p][m]
         \/ /\ dropped'[p] = made
            /\ \A m \in Names \ {n} : handlers'[p][m] = None
  <2>1. handlers \in [Objects -> [Names -> Nat \cup {None}]] /\ dropped \in [Objects -> Nat] /\ h \in Nat
    BY <1>1 DEF HandlersInv, HandlersType
  <2>2. NoHandlers \in [Names -> Nat \cup {None}] /\ \A m \in Names : NoHandlers[m] = None
    BY DEF NoHandlers
  <2> DEFINE old == IF users[v].nomap THEN NoHandlers ELSE handlers[p]
             new == [old EXCEPT ![n] = h]
  <2>3. /\ new \in [Names -> Nat \cup {None}] /\ new[n] = h
        /\ \A m \in Names \ {n} : new[m] = old[m]
    <3>1. old \in [Names -> Nat \cup {None}]
      BY <1>2, <2>1, <2>2
    <3> HIDE DEF old, h, n, p
    <3> QED BY <1>2, <2>1, <3>1
  <2>4. handlers' = [handlers EXCEPT ![p] = new]
    BY <1>2, <1>5, <2>1
  <2>5. CASE users[v].nomap
    <3>1. \A m \in Names \ {n} : new[m] = None
      BY <2>2, <2>3, <2>5
    <3>2. dropped' = [dropped EXCEPT ![p] = made]
      BY <1>5, <2>5
    <3> HIDE DEF new, old, h, n, p
    <3> QED BY <1>1, <1>2, <2>1, <2>3, <2>4, <3>1, <3>2
  <2>6. CASE ~ users[v].nomap
    <3>1. \A m \in Names \ {n} : new[m] = handlers[p][m]
      BY <2>3, <2>6
    <3>2. dropped' = dropped
      BY SMTT(30), <1>2, <1>5, <2>1, <2>6
    <3> HIDE DEF new, old, h, n, p
    <3> QED BY <1>1, <1>2, <2>1, <2>3, <2>4, <3>1, <3>2
  <2> QED BY <2>5, <2>6
<1>7. HandlersType'
  BY SMTT(30), <1>2, <1>3, <1>4, <1>6 DEF HandlersInv, HandlersType
<1>8. Bounded'
  <2>1. ASSUME NEW o \in Objects, NEW m \in Names, handlers'[o][m] # None
        PROVE  handlers'[o][m] \in 1..made' /\ o <= provider'.uses
    <3>1. CASE o = p /\ m = n
      BY <1>1, <1>2, <1>3, <1>6, <2>1, <3>1
    <3>2. CASE o # p \/ m # n
      <4>1. handlers'[o][m] = handlers[o][m]
        BY <1>6, <2>1, <3>2
      <4>2. handlers[o][m] \in 1..made /\ o <= provider.uses
        BY <2>1, <4>1 DEF HandlersInv, Bounded
      <4> QED BY SMTT(30), <1>1, <1>2, <1>3, <4>1, <4>2
    <3> QED BY <3>1, <3>2
  <2>2. ASSUME NEW u \in Users, users'[u].at # "idle"
        PROVE  /\ users'[u].use \in 1..provider'.uses
               /\ users'[u].called <= made'
               /\ users'[u].name \in Names
               /\ users'[u].at = "has" => users'[u].handler \in 1..made'
    <3>1. CASE u = v
      BY <1>1, <1>2, <1>3, <1>4, <3>1
    <3>2. CASE u # v
      <4>1. /\ users[u].use \in 1..provider.uses /\ users[u].called <= made
            /\ users[u].name \in Names /\ users[u].called \in Nat
            /\ users[u].at = "has" => users[u].handler \in 1..made
        BY <1>4, <2>2, <3>2 DEF HandlersInv, HandlersType, User, Bounded
      <4> QED BY SMTT(30), <1>1, <1>2, <1>3, <1>4, <3>2, <4>1
    <3> QED BY <3>1, <3>2
  <2> QED BY <2>1, <2>2 DEF Bounded
<1> HIDE DEF h, n, p
<1>9. ASSUME NEW u \in Users \ {v}, NEW o \in Objects, Kept(u, o)'
      PROVE  /\ Kept(u, o) /\ users'[u] = users[u] /\ users[u].handler \in 1..made
             /\ users[u].name \in Names /\ InMap(u)
             /\ o = p => \A m \in Names \ {n} : handlers'[p][m] = handlers[p][m]
             /\ o = p /\ users[u].name = n => users[v].called < users[u].handler
  <2>1. users[u].at = "has" /\ users[u].use = o /\ users[u].handler > dropped'[o]
    BY <1>4, <1>9 DEF Kept
  <2>2. users[u].handler \in 1..made /\ users[u].name \in Names
    BY <2>1 DEF HandlersInv, Bounded
  <2>3. dropped'[o] = dropped[o] /\ (o = p => \A m \in Names \ {n} : handlers'[p][m] = handlers[p][m])
    BY <1>1, <1>6, <2>1, <2>2
  <2>4. Kept(u, o) /\ InMap(u)
    BY <2>1, <2>3 DEF Kept, HandlersInv
  <2>5. CalledFirst(v, p)
    <3>1. Since(v, p)
      BY <1>1, <1>2 DEF Since, p, HandlersInv, HandlersType
    <3> QED BY <1>2, <3>1 DEF HandlersInv
  <2> QED BY <1>4, <2>2, <2>3, <2>4, <2>5 DEF CalledFirst, n
<1>10. ASSUME NEW u \in Users, NEW o \in Objects, Kept(u, o)' PROVE InMap(u)'
  <2>1. CASE u = v
    BY SMTT(30), <1>1, <1>4, <1>6, <2>1 DEF InMap, h
  <2>2. CASE u # v /\ o = p /\ users[u].name = n
    <3>1. /\ users'[u] = users[u] /\ users[u].handler \in 1..made
          /\ users[v].called < users[u].handler /\ users[u].use = o
      BY <1>9, <1>10, <2>2 DEF Kept
    <3> QED BY SMTT(30), <1>1, <1>3, <1>6, <2>2, <3>1 DEF InMap, h
  <2>3. CASE u # v /\ (o # p \/ users[u].name # n)
    <3>1. InMap(u) /\ users'[u] = users[u] /\ users[u].use = o /\ users[u].name \in Names
      BY <1>9, <1>10, <2>3 DEF Kept
    <3>2. handlers'[o][users[u].name] = handlers[o][users[u].name]
      BY SMTT(30), <1>6, <1>9, <1>10, <2>3, <3>1
    <3>3. handlers[o][users[u].name] \in 1..made
      BY <3>1 DEF InMap, HandlersInv, Bounded
    <3> QED BY <1>3, <3>1, <3>2, <3>3 DEF InMap
  <2> QED BY <2>1, <2>2, <2>3
<1>11. ASSUME NEW w \in Users, NEW o \in Objects, Since(w, o)' PROVE CalledFirst(w, o)'
  <2>1. /\ w # v /\ users'[w] = users[w] /\ users[w].called <= made /\ users[w].called \in Nat
        /\ users[w].name \in Names /\ CalledFirst(w, o)
    BY SMTT(30), <1>4, <1>11 DEF Since, HandlersInv, Bounded, HandlersType, User
  <2>2. handlers'[o][users[w].name] # None => users[w].called < handlers'[o][users[w].name]
    <3>1. CASE o = p /\ users[w].name = n
      BY <1>1, <1>6, <2>1, <3>1 DEF h
    <3>2. CASE o # p \/ users[w].name # n
      BY <1>6, <2>1, <3>2 DEF CalledFirst
    <3> QED BY <3>1, <3>2
  <2>3. ASSUME NEW u \in Users, Kept(u, o)', users'[u].name = users[w].name
        PROVE  users[w].called < users'[u].handler
    <3>1. CASE u = v
      BY SMTT(30), <1>1, <1>4, <2>1, <3>1 DEF h
    <3>2. CASE u # v
      BY <1>9, <2>1, <2>3, <3>2 DEF CalledFirst
    <3> QED BY <3>1, <3>2
  <2> QED BY <2>1, <2>2, <2>3 DEF CalledFirst
<1>12. HandlerIsShared'
  <2> SUFFICES ASSUME NEW a \in Users, NEW b \in Users, users'[a].at = "has", users'[b].at = "has",
                      users'[a].name = users'[b].name, users'[a].use = users'[b].use,
                      users'[a].handler < users'[b].handler
               PROVE  \/ called'[users'[b].handler] < users'[a].handler
                      \/ users'[a].handler <= dropped'[users'[a].use]
    BY SMTT(30) DEF HandlerIsShared
  <2>1. PICK o \in Objects : /\ o = users'[a].use /\ dropped'[o] \in Nat
                             /\ users'[a].handler \in 1..made' /\ users'[b].handler \in 1..made'
    BY SMTT(30), <1>1, <1>2, <1>7, <1>8 DEF Bounded, HandlersType
  <2>2. a # v
    BY <1>1, <1>3, <1>4, <2>1 DEF h
  <2>3. CASE b = v
    <3>1. Kept(a, o)' => users[v].called < users'[a].handler
      BY <1>4, <1>9, <2>1, <2>2, <2>3
    <3> QED BY SMTT(30), <1>3, <1>4, <2>1, <2>3, <3>1 DEF Kept
  <2>4. CASE b # v
    <3>1. \/ called[users[b].handler] < users[a].handler
          \/ users[a].handler <= dropped[o]
      BY <1>4, <2>1, <2>2, <2>4 DEF HandlersInv, HandlerIsShared
    <3>2. users[b].handler \in 1..made /\ users[a].handler \in 1..made
      BY <1>4, <2>2, <2>4 DEF HandlersInv, Bounded
    <3>3. dropped'[o] = dropped[o] \/ dropped'[o] = made
      BY <1>6
    <3> QED BY SMTT(30), <1>1, <1>3, <1>4, <2>1, <2>2, <2>4, <3>1, <3>2, <3>3 DEF h
  <2> QED BY <2>3, <2>4
<1> QED BY <1>7, <1>8, <1>10, <1>11, <1>12 DEF HandlersInv

LEMMA StepInv == HandlersInv /\ [HandlersNext]_handlersVars => HandlersInv'
<1> SUFFICES ASSUME HandlersInv, [HandlersNext]_handlersVars PROVE HandlersInv'
  OBVIOUS
<1>1. CASE Use \/ UseInitiates
  BY <1>1, UseInv
<1>2. ASSUME NEW u \in Users, NEW name \in Names, NewHandler(u, name) \/ GetHandler(u, name)
      PROVE  HandlersInv'
  BY <1>2, CallsInv DEF NewHandler, GetHandler
<1>3. ASSUME NEW u \in Users, Looks(u) PROVE HandlersInv'
  BY <1>3, LooksInv
<1>4. ASSUME NEW u \in Users, NewHandlerCalls(u) \/ NewHandlerFails(u) PROVE HandlersInv'
  BY SMTT(30), <1>4, NewHandlerCallsInv
<1>5. ASSUME NEW u \in Users, NewHandlerMakes(u) PROVE HandlersInv'
  BY SMTT(30), <1>5, NewHandlerMakesInv
<1>6. CASE UNCHANGED handlersVars \/ ConcurrentMapWrites
  <2>1. UNCHANGED <<provider, handlers, dropped, users, called>>
    BY <1>6 DEF handlersVars, ConcurrentMapWrites
  <2> QED BY SMTT(30), <2>1 DEF HandlersInv, HandlersType, Bounded, made, Kept, InMap, Since, CalledFirst,
                      HandlerIsShared
<1> QED BY <1>1, <1>2, <1>3, <1>4, <1>5, <1>6 DEF HandlersNext

\* For any number of goroutines, names and providers, a provider gives one handler of
\* a name to all, except where calls of NewHandler overlap (Looks, NewHandlerMakes) and
\* where the map of a provider that is in place is made anew (UseInitiates, or a
\* NewHandler that had found no map).
THEOREM HandlerIsSharedTheorem == HandlersSpec => []HandlerIsShared
<1>1. HandlersInv => HandlerIsShared
  BY DEF HandlersInv
<1> QED BY InitInv, StepInv, <1>1, PTL DEF HandlersSpec
=============================================================================
