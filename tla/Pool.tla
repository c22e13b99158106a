-------------------------------- MODULE Pool --------------------------------
(***************************************************************************)
(* The connection pool of utility/pooling.go: threads borrow connections   *)
(* with Get and give them back with Recycle (Put, or Remove after an       *)
(* error), at most MaxIdle at a time, and wait on a condition variable     *)
(* when the limit is reached.                                              *)
(*                                                                         *)
(* A step is what a thread does between taking and releasing the lock of   *)
(* the condition, or what it does without it: testing a connection,        *)
(* calling NewFn, closing a connection, using one.                         *)
(***************************************************************************)
EXTENDS Integers, Sequences, FiniteSets, SequencesExt

CONSTANTS
    Threads, Conns,
    NoConn,
    MaxIdle   \* the limit, 0 for none

ASSUME MaxIdleAssumption == MaxIdle \in Nat
ASSUME ThreadsAssumption == IsFiniteSet(Threads)

VARIABLES
    idleNum,  \* pool.idleNum: connections that count towards the limit
    idle,     \* pool.idle, most recently used first
    closed,   \* pool.closed
    waiting,  \* threads in cond.Wait that nobody has signalled
    pc,       \* where each thread is
    conn,     \* the connection each thread works on
    tries,    \* idle connections the thread's Get may still try
    failed,   \* did the last Do of the thread fail?
    open      \* the connections that are open

poolVars == <<idleNum, idle, closed, waiting>>
threadVars == <<pc, conn, tries, failed>>
vars == <<poolVars, threadVars, open>>

Init ==
    /\ idleNum = 0
    /\ idle = << >>
    /\ closed = FALSE
    /\ waiting = {}
    /\ pc = [t \in Threads |-> "idle"]
    /\ conn = [t \in Threads |-> NoConn]
    /\ tries = [t \in Threads |-> 0]
    /\ failed = [t \in Threads |-> FALSE]
    /\ open = {}

Goto(t, l) == pc' = [pc EXCEPT ![t] = l]

\* A wrong Signal for GetReturns and NoLostWakeup: it wakes nobody.
SignalNobody == {waiting}

\* What cond.Signal may leave of the waiting threads: one less.
Signal == IF waiting = {} THEN {{}} ELSE {waiting \ {t} : t \in waiting}

-----------------------------------------------------------------------------
\* The body of the loop in Get, entered with the lock, with num connections
\* counted, n idle ones to try and w threads waiting, up to the point where it
\* gives up the lock.
Loop(t, num, n, w) ==
    IF n > 0 /\ idle # << >>
    THEN /\ idle' = Tail(idle)
         /\ conn' = [conn EXCEPT ![t] = Head(idle)]
         /\ tries' = [tries EXCEPT ![t] = n - 1]
         /\ idleNum' = num
         /\ waiting' = w
         /\ Goto(t, "testing")
    ELSE /\ conn' = [conn EXCEPT ![t] = NoConn]
         /\ tries' = [tries EXCEPT ![t] = 0]
         /\ UNCHANGED idle
         /\ \/ /\ closed
               /\ idleNum' = num
               /\ waiting' = w
               /\ Goto(t, "idle")
            \/ /\ ~closed
               /\ MaxIdle = 0 \/ num < MaxIdle
               /\ idleNum' = num + 1
               /\ waiting' = w
               /\ Goto(t, "creating")
            \/ /\ ~closed
               /\ ~(MaxIdle = 0 \/ num < MaxIdle)
               /\ idleNum' = num
               /\ waiting' = w \cup {t}
               /\ Goto(t, "waiting")

Get(t) ==
    /\ pc[t] = "idle"
    /\ Loop(t, idleNum, Len(idle), waiting)
    /\ UNCHANGED <<closed, failed, open>>

\* cond.Wait returns and the loop starts again.
Wake(t) ==
    /\ pc[t] = "waiting"
    /\ t \notin waiting
    /\ Loop(t, idleNum, Len(idle), waiting)
    /\ UNCHANGED <<closed, failed, open>>

\* TestOnBorrow accepts the connection, or there is no TestOnBorrow: Get
\* returns it.
TestSucceeds(t) ==
    /\ pc[t] = "testing"
    /\ Goto(t, "using")
    /\ failed' = [failed EXCEPT ![t] = FALSE]
    /\ UNCHANGED <<poolVars, conn, tries, open>>

\* TestOnBorrow refuses it: it is closed.
TestFails(t) ==
    /\ pc[t] = "testing"
    /\ open' = open \ {conn[t]}
    /\ conn' = [conn EXCEPT ![t] = NoConn]
    /\ Goto(t, "refused")
    /\ UNCHANGED <<poolVars, tries, failed>>

\* A wrong Relock for Accounting: the refused connection is still counted.
RelockUncounted(t) ==
    /\ pc[t] = "refused"
    /\ \E w \in Signal : Loop(t, idleNum, tries[t], w)
    /\ UNCHANGED <<closed, failed, open>>

\* Get has the lock again, and goes on with the next idle connection.
Relock(t) ==
    /\ pc[t] = "refused"
    /\ \E w \in Signal : Loop(t, idleNum - 1, tries[t], w)
    /\ UNCHANGED <<closed, failed, open>>

\* NewFn returns a connection.
NewSucceeds(t) ==
    /\ pc[t] = "creating"
    /\ \E c \in Conns \ open :
           /\ open' = open \cup {c}
           /\ conn' = [conn EXCEPT ![t] = c]
    /\ failed' = [failed EXCEPT ![t] = FALSE]
    /\ Goto(t, "using")
    /\ UNCHANGED <<poolVars, tries>>

\* NewFn fails; Get takes the lock to give back its place.
NewFails(t) ==
    /\ pc[t] = "creating"
    /\ idleNum' = idleNum - 1
    /\ waiting' \in Signal
    /\ Goto(t, "idle")
    /\ UNCHANGED <<idle, closed, conn, tries, failed, open>>

-----------------------------------------------------------------------------
\* The caller uses the connection; Do keeps the error of the last use.
Do(t) ==
    /\ pc[t] = "using"
    /\ \E err \in BOOLEAN : failed' = [failed EXCEPT ![t] = err]
    /\ UNCHANGED <<poolVars, pc, conn, tries, open>>

\* Put and Remove on a closed pool return an error and do not close the
\* connection.
GiveUp(t) ==
    /\ closed
    /\ Goto(t, "idle")
    /\ conn' = [conn EXCEPT ![t] = NoConn]
    /\ UNCHANGED poolVars

\* Put: back to the front of the list; with more than MaxIdle idle connections
\* the one at the back is closed, after the lock is released.
Put(t) ==
    IF closed THEN GiveUp(t)
    ELSE LET pushed == <<conn[t]>> \o idle
             over == Len(pushed) > MaxIdle
         IN
         /\ waiting' \in Signal
         /\ idle' = IF over THEN Front(pushed) ELSE pushed
         /\ idleNum' = IF over THEN idleNum - 1 ELSE idleNum
         /\ conn' = [conn EXCEPT ![t] = IF over THEN Last(pushed) ELSE NoConn]
         /\ Goto(t, IF over THEN "closing" ELSE "idle")
         /\ UNCHANGED closed

\* A wrong PoolRemove for NoLeak: the connection is not closed.
PoolRemoveUnclosed(t) ==
    IF closed THEN GiveUp(t)
    ELSE /\ waiting' \in Signal
         /\ idleNum' = idleNum - 1
         /\ conn' = [conn EXCEPT ![t] = NoConn]
         /\ Goto(t, "idle")
         /\ UNCHANGED <<idle, closed>>

\* Remove: the connection no longer counts, and is closed after the lock is
\* released.
PoolRemove(t) ==
    IF closed THEN GiveUp(t)
    ELSE /\ waiting' \in Signal
         /\ idleNum' = idleNum - 1
         /\ Goto(t, "closing")
         /\ UNCHANGED <<idle, closed, conn>>

Recycle(t) ==
    /\ pc[t] = "using"
    /\ IF failed[t] THEN PoolRemove(t) ELSE Put(t)
    /\ UNCHANGED <<tries, failed, open>>

\* The connection that left the pool is closed, without the lock.
CloseConn(t) ==
    /\ pc[t] = "closing"
    /\ open' = open \ {conn[t]}
    /\ conn' = [conn EXCEPT ![t] = NoConn]
    /\ Goto(t, "idle")
    /\ UNCHANGED <<poolVars, tries, failed>>

\* Close.  The list it then walks to close the idle connections is the one it
\* has just emptied.
Close ==
    /\ ~closed
    /\ closed' = TRUE
    /\ idle' = << >>
    /\ waiting' = {}
    /\ UNCHANGED <<idleNum, threadVars, open>>

\* What a thread does once it is in a call, or holds a connection.
Step(t) ==
    \/ Wake(t)
    \/ TestSucceeds(t)
    \/ TestFails(t)
    \/ Relock(t)
    \/ NewSucceeds(t)
    \/ NewFails(t)
    \/ Recycle(t)
    \/ CloseConn(t)

Next ==
    \/ \E t \in Threads : Get(t) \/ Do(t) \/ Step(t)
    \/ Close

Spec == Init /\ [][Next]_vars

\* NewFn, TestOnBorrow and Close of a connection return, the lock is fair, and
\* callers recycle what they borrow.
FairSpec == Spec /\ \A t \in Threads : WF_vars(Step(t))

-----------------------------------------------------------------------------
\* The threads whose connection, or the place for it, counts in idleNum.
Counted == {t \in Threads : pc[t] \in {"testing", "refused", "creating", "using"}}

\* The types of the state.
TypeOK ==
    /\ idleNum \in Int
    /\ idle \in Seq(Conns)
    /\ closed \in BOOLEAN
    /\ waiting \subseteq {t \in Threads : pc[t] = "waiting"}
    /\ pc \in [Threads -> {"idle", "waiting", "testing", "refused", "creating",
                           "using", "closing"}]
    /\ conn \in [Threads -> Conns \cup {NoConn}]
    /\ tries \in [Threads -> Nat]
    /\ failed \in [Threads -> BOOLEAN]
    /\ open \subseteq Conns

\* idleNum is exactly the number of connections that are idle or with a
\* thread, whatever fails on the way, so the limit neither leaks away nor is
\* passed.  Close forgets the idle ones without counting them down.
Accounting ==
    /\ ~closed => idleNum = Len(idle) + Cardinality(Counted)
    /\ closed => idleNum >= Cardinality(Counted)
    /\ MaxIdle > 0 => idleNum <= MaxIdle

\* No lost wakeup: while threads wait although there is something to have (an
\* idle connection, a free place, the news that the pool is closed), one of
\* those that waited is already awake to take it.
NoLostWakeup ==
    waiting # {} /\ (closed \/ idle # << >> \/ idleNum < MaxIdle)
        => \E t \in Threads : pc[t] = "waiting" /\ t \notin waiting

\* The inductive invariant behind Accounting and NoLostWakeup: as long as
\* threads wait there are at least as many awake ones as things to have.
Woken == {t \in Threads : pc[t] = "waiting" /\ t \notin waiting}

PoolInv ==
    /\ TypeOK
    /\ Accounting
    /\ \A t \in Threads : pc[t] \in {"testing", "using", "closing"} => conn[t] \in Conns
    /\ closed => idle = << >>
    /\ waiting # {} =>
           /\ ~closed
           /\ MaxIdle > 0
           /\ Len(idle) + MaxIdle - idleNum <= Cardinality(Woken)

\* As long as the pool is open, every open connection is in the idle list or
\* with exactly one thread: none is leaked, none is lent twice.
NoLeak ==
    ~closed =>
        /\ open = ToSet(idle) \cup {conn[t] : t \in {u \in Threads : conn[u] # NoConn}}
        /\ IsInjective(idle)
        /\ \A t \in Threads : conn[t] # NoConn =>
               /\ conn[t] \notin ToSet(idle)
               /\ \A u \in Threads \ {t} : conn[u] # conn[t]

\* A Get that has to wait returns, with a connection or with an error, also when
\* connections fail and when the pool is closed under it, unless the other threads
\* call Get again and again for ever: each of them may take what the thread was woken
\* for, which then goes back to wait.
GetReturns ==
    \A t \in Threads :
        \/ pc[t] = "waiting" ~> pc[t] \in {"using", "idle"}
        \/ []<><<\E u \in Threads \ {t} : Get(u)>>_vars
=============================================================================
