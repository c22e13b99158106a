----------------------------- MODULE PoolProofs -----------------------------
(***************************************************************************)
(* For any finite set of threads, any set of connections and any limit:    *)
(* idleNum counts the connections exactly, the limit is kept, and no       *)
(* wakeup is lost.                                                         *)
(***************************************************************************)
EXTENDS Pool, TLAPS, FiniteSetTheorems

\* Every set of threads is finite; adding or removing one changes its size by
\* one.
LEMMA ThreadSets ==
    ASSUME NEW S \in SUBSET Threads, NEW t
    PROVE  /\ Cardinality(S) \in Nat
           /\ t \notin S => Cardinality(S \cup {t}) = Cardinality(S) + 1
           /\ t \in S => Cardinality(S \ {t}) = Cardinality(S) - 1
           /\ t \in S => Cardinality(S) > 0
<1>1. IsFiniteSet(S)
  BY ThreadsAssumption, FS_Subset
<1>2. Cardinality(S) \in Nat
  BY <1>1, FS_CardinalityType
<1>3. t \in S => Cardinality(S) # 0
  BY <1>1, FS_EmptySet
<1>4. t \notin S => Cardinality(S \cup {t}) = Cardinality(S) + 1
  BY <1>1, FS_AddElement
<1>5. t \in S => Cardinality(S \ {t}) = Cardinality(S) - 1
  BY <1>1, FS_RemoveElement
<1> QED BY <1>2, <1>3, <1>4, <1>5

\* cond.Signal wakes one of the waiting threads, if there is one.
LEMMA SignalWakesOne ==
    ASSUME NEW w \in Signal
    PROVE  \/ waiting = {} /\ w = {}
           \/ \E t \in waiting : w = waiting \ {t}
BY DEF Signal

\* The loop of Get, from any of the three places it is entered at: a place is
\* given to the thread only if there is one, and it waits only if there is
\* nothing to have.
LEMMA LoopInv ==
    ASSUME TypeOK,
           \A u \in Threads : pc[u] \in {"testing", "using", "closing"} => conn[u] \in Conns,
           NEW t \in Threads, NEW num \in Int, NEW n \in Nat, NEW w \in SUBSET waiting,
           t \notin w,
           ~closed => num = Len(idle) + Cardinality(Counted \ {t}),
           closed => idle = << >> /\ num >= Cardinality(Counted \ {t}),
           MaxIdle > 0 => num <= MaxIdle,
           MaxIdle > 0 => n >= Len(idle) \/ num < MaxIdle,
           w # {} => /\ ~closed
                     /\ MaxIdle > 0
                     /\ Len(idle) + MaxIdle - num <=
                          1 + Cardinality({u \in Threads \ {t} : pc[u] = "waiting" /\ u \notin w}),
           Loop(t, num, n, w),
           UNCHANGED <<closed, failed, open>>
    PROVE  PoolInv'
<1> DEFINE C == Counted \ {t}
           W == {u \in Threads \ {t} : pc[u] = "waiting" /\ u \notin w}
<1>1. /\ C \in SUBSET Threads /\ W \in SUBSET Threads
      /\ Cardinality(C) \in Nat /\ Cardinality(W) \in Nat
      /\ Cardinality(C \cup {t}) = Cardinality(C) + 1
  BY ThreadSets DEF Counted
<1>2. Len(idle) \in Nat /\ MaxIdle \in Nat
  BY MaxIdleAssumption DEF TypeOK
<1>3. CASE n > 0 /\ idle # << >>
  <2>1. /\ idle' = Tail(idle)
        /\ conn' = [conn EXCEPT ![t] = Head(idle)]
        /\ tries' = [tries EXCEPT ![t] = n - 1]
        /\ idleNum' = num /\ waiting' = w
        /\ pc' = [pc EXCEPT ![t] = "testing"]
    BY <1>3 DEF Loop, Goto
  <2>2. /\ Tail(idle) \in Seq(Conns) /\ Head(idle) \in Conns
        /\ Len(Tail(idle)) = Len(idle) - 1
    BY <1>3 DEF TypeOK
  <2>3. TypeOK'
    BY <2>1, <2>2, <1>3 DEF TypeOK
  <2>4. Counted' = C \cup {t} /\ Woken' = W
    BY <2>1 DEF Counted, Woken, TypeOK
  <2>5. Accounting'
    BY SMTT(30), <1>1, <1>2, <1>3, <2>1, <2>2, <2>4 DEF Accounting
  <2>6. (\A u \in Threads : pc[u] \in {"testing", "using", "closing"} => conn[u] \in Conns)'
    BY <2>1, <2>2 DEF TypeOK
  <2>7. waiting' # {} => ~closed' /\ MaxIdle > 0
                         /\ Len(idle') + MaxIdle - idleNum' <= Cardinality(W)
    BY <1>1, <1>2, <2>1, <2>2
  <2> QED BY <1>3, <2>3, <2>4, <2>5, <2>6, <2>7 DEF PoolInv
<1>4. CASE ~(n > 0 /\ idle # << >>)
  <2>1. /\ conn' = [conn EXCEPT ![t] = NoConn]
        /\ tries' = [tries EXCEPT ![t] = 0]
        /\ UNCHANGED idle
    BY <1>4 DEF Loop
  <2>2. (pc' = [pc EXCEPT ![t] = "idle"] \/ pc' = [pc EXCEPT ![t] = "creating"]
            \/ pc' = [pc EXCEPT ![t] = "waiting"])
        => (\A u \in Threads : pc[u] \in {"testing", "using", "closing"} => conn[u] \in Conns)'
    BY <2>1 DEF TypeOK
  <2>3. CASE /\ closed
             /\ idleNum' = num /\ waiting' = w
             /\ pc' = [pc EXCEPT ![t] = "idle"]
    <3>1. TypeOK'
      BY <2>1, <2>3 DEF TypeOK
    <3>2. Counted' = C
      BY <2>3 DEF Counted, TypeOK
    <3> QED BY SMTT(30), <1>1, <2>1, <2>2, <2>3, <3>1, <3>2 DEF PoolInv, Accounting
  <2>4. CASE /\ ~closed
             /\ MaxIdle = 0 \/ num < MaxIdle
             /\ idleNum' = num + 1 /\ waiting' = w
             /\ pc' = [pc EXCEPT ![t] = "creating"]
    <3>1. TypeOK'
      BY <2>1, <2>4 DEF TypeOK
    <3>2. Counted' = C \cup {t} /\ Woken' = W
      BY <2>4 DEF Counted, Woken, TypeOK
    <3>3. Accounting'
      BY SMTT(30), <1>1, <1>2, <2>1, <2>4, <3>2 DEF Accounting
    <3>4. waiting' # {} => ~closed' /\ MaxIdle > 0
                           /\ Len(idle') + MaxIdle - idleNum' <= Cardinality(W)
      BY SMTT(30), <1>1, <1>2, <2>1, <2>4
    <3> QED BY SMTT(30), <2>1, <2>2, <2>4, <3>1, <3>2, <3>3, <3>4 DEF PoolInv
  <2>5. CASE /\ ~closed
             /\ ~(MaxIdle = 0 \/ num < MaxIdle)
             /\ idleNum' = num /\ waiting' = w \cup {t}
             /\ pc' = [pc EXCEPT ![t] = "waiting"]
    <3>1. TypeOK'
      BY <2>1, <2>5 DEF TypeOK
    <3>2. Counted' = C /\ Woken' = W
      BY <2>5 DEF Counted, Woken, TypeOK
    <3>3. idle = << >> => Len(idle) = 0
      OBVIOUS
    <3>4. Len(idle) = 0 /\ num = MaxIdle /\ MaxIdle > 0
      BY <1>2, <1>4, <2>5, <3>3
    <3>5. Accounting'
      BY SMTT(30), <1>1, <1>2, <2>1, <2>5, <3>2 DEF Accounting
    <3>6. Len(idle') + MaxIdle - idleNum' <= Cardinality(W)
      BY <1>1, <2>1, <2>5, <3>4
    <3> QED BY <2>1, <2>2, <2>5, <3>1, <3>2, <3>4, <3>5, <3>6 DEF PoolInv
  <2> QED BY <1>4, <2>3, <2>4, <2>5 DEF Loop, Goto
<1> QED BY <1>3, <1>4

LEMMA InitInv == Init => PoolInv
<1> SUFFICES ASSUME Init PROVE PoolInv
  OBVIOUS
<1>1. TypeOK
  <2>1. idle \in Seq(Conns)
    BY DEF Init
  <2>2. open \subseteq Conns /\ waiting \subseteq {t \in Threads : pc[t] = "waiting"}
    BY DEF Init
  <2>3. closed \in BOOLEAN /\ failed \in [Threads -> BOOLEAN]
    BY DEF Init
  <2>4. /\ idleNum \in Int
        /\ conn \in [Threads -> Conns \cup {NoConn}]
        /\ tries \in [Threads -> Nat]
        /\ pc \in [Threads -> {"idle", "waiting", "testing", "refused", "creating",
                               "using", "closing"}]
    BY DEF Init
  <2> QED BY <2>1, <2>2, <2>3, <2>4 DEF TypeOK
<1>2. Counted = {}
  BY DEF Init, Counted
<1>3. Cardinality(Counted) = 0 /\ Len(idle) = 0
  BY <1>2, FS_EmptySet DEF Init
<1> QED BY <1>1, <1>3, MaxIdleAssumption DEF Init, PoolInv, Accounting

LEMMA GetInv ==
    ASSUME PoolInv, NEW t \in Threads, Get(t)
    PROVE  PoolInv'
<1>1. t \notin Counted /\ t \notin waiting /\ t \notin Woken
  BY DEF PoolInv, TypeOK, Get, Counted, Woken
<1>2. Counted \ {t} = Counted
      /\ {u \in Threads \ {t} : pc[u] = "waiting" /\ u \notin waiting} = Woken
  BY <1>1 DEF Woken
<1>3. /\ idleNum \in Int /\ Len(idle) \in Nat /\ MaxIdle \in Nat
      /\ waiting \in SUBSET waiting
  BY MaxIdleAssumption DEF PoolInv, TypeOK
<1>5. Cardinality(Woken) \in Nat
  BY ThreadSets DEF Woken
<1> QED BY SMTT(30), <1>1, <1>2, <1>3, <1>5, LoopInv DEF PoolInv, Accounting, Get

LEMMA WakeInv ==
    ASSUME PoolInv, NEW t \in Threads, Wake(t)
    PROVE  PoolInv'
<1>1. t \notin Counted /\ t \in Woken
  BY DEF PoolInv, TypeOK, Wake, Counted, Woken
<1>2. Counted \ {t} = Counted
      /\ {u \in Threads \ {t} : pc[u] = "waiting" /\ u \notin waiting} = Woken \ {t}
  BY <1>1 DEF Woken
<1>3. /\ idleNum \in Int /\ Len(idle) \in Nat /\ MaxIdle \in Nat
      /\ waiting \in SUBSET waiting
  BY MaxIdleAssumption DEF PoolInv, TypeOK
<1>5. Cardinality(Woken) \in Nat /\ Cardinality(Woken \ {t}) = Cardinality(Woken) - 1
  BY <1>1, ThreadSets DEF Woken
<1> QED BY SMTT(30), <1>1, <1>2, <1>3, <1>5, LoopInv DEF PoolInv, Accounting, Wake

LEMMA RelockInv ==
    ASSUME PoolInv, NEW t \in Threads, Relock(t)
    PROVE  PoolInv'
<1>1. PICK w \in Signal : Loop(t, idleNum - 1, tries[t], w)
  BY DEF Relock
<1>2. t \in Counted /\ t \notin waiting
  BY DEF PoolInv, TypeOK, Relock, Counted
<1>3. w \in SUBSET waiting /\ t \notin w
  BY <1>2, SignalWakesOne
<1>4. idleNum - 1 \in Int /\ tries[t] \in Nat /\ Len(idle) \in Nat /\ MaxIdle \in Nat
  BY MaxIdleAssumption DEF PoolInv, TypeOK
<1>5. Cardinality(Counted) \in Nat
      /\ Cardinality(Counted \ {t}) = Cardinality(Counted) - 1
  BY <1>2, ThreadSets DEF Counted
<1>6. ~closed => idleNum - 1 = Len(idle) + Cardinality(Counted \ {t})
  BY <1>4, <1>5 DEF PoolInv, Accounting, TypeOK
<1>7. closed => idle = << >> /\ idleNum - 1 >= Cardinality(Counted \ {t})
  BY <1>4, <1>5 DEF PoolInv, Accounting, TypeOK
<1>8. MaxIdle > 0 => idleNum - 1 <= MaxIdle /\ idleNum - 1 < MaxIdle
  BY <1>4 DEF PoolInv, Accounting, TypeOK
<1> DEFINE W == {u \in Threads \ {t} : pc[u] = "waiting" /\ u \notin w}
<1>9. ASSUME w # {}
       PROVE  /\ ~closed
              /\ MaxIdle > 0
              /\ Len(idle) + MaxIdle - (idleNum - 1) <= 1 + Cardinality(W)
  <2>1. PICK v \in waiting : w = waiting \ {v}
    BY <1>9, SignalWakesOne
  <2>2. W = Woken \cup {v} /\ v \notin Woken
    BY <1>2, <2>1 DEF PoolInv, TypeOK, Woken, Relock
  <2>3. Cardinality(Woken) \in Nat /\ Cardinality(W) = Cardinality(Woken) + 1
    BY <2>2, ThreadSets DEF Woken
  <2>4. idleNum \in Int
    BY DEF PoolInv, TypeOK
  <2> QED BY <1>4, <2>1, <2>3, <2>4 DEF PoolInv
<1>11. TypeOK /\ \A u \in Threads : pc[u] \in {"testing", "using", "closing"} => conn[u] \in Conns
  BY DEF PoolInv
<1>12. UNCHANGED <<closed, failed, open>>
  BY DEF Relock
<1> QED BY <1>1, <1>3, <1>4, <1>6, <1>7, <1>8, <1>9, <1>11, <1>12, LoopInv

\* A thread that is counted signals and moves on.  The signal pays for what the
\* step leaves for others to have.
LEMMA SignalInv ==
    ASSUME PoolInv, NEW t \in Counted, NEW l, waiting' \in Signal, Goto(t, l),
           l \in {"idle", "closing"}
    PROVE  /\ waiting' \subseteq {u \in Threads : pc'[u] = "waiting"}
           /\ pc' \in [Threads -> {"idle", "waiting", "testing", "refused", "creating",
                                   "using", "closing"}]
           /\ Cardinality(Counted) \in Nat
           /\ Cardinality(Counted') = Cardinality(Counted) - 1
           /\ waiting' # {} => /\ waiting # {}
                               /\ Cardinality(Woken) \in Nat
                               /\ Cardinality(Woken') = Cardinality(Woken) + 1
<1>1. waiting \subseteq {u \in Threads : pc[u] = "waiting"}
      /\ pc \in [Threads -> {"idle", "waiting", "testing", "refused", "creating",
                             "using", "closing"}]
      /\ t \in Threads /\ pc[t] # "waiting" /\ pc' = [pc EXCEPT ![t] = l]
  BY DEF PoolInv, TypeOK, Counted, Goto
<1>2. waiting' \subseteq waiting
  BY SignalWakesOne
<1>3. Counted' = Counted \ {t}
  BY <1>1 DEF Counted
<1>4. Cardinality(Counted) \in Nat /\ Cardinality(Counted') = Cardinality(Counted) - 1
  BY <1>3, ThreadSets DEF Counted
<1>5. ASSUME waiting' # {}
      PROVE  /\ waiting # {}
             /\ Cardinality(Woken) \in Nat
             /\ Cardinality(Woken') = Cardinality(Woken) + 1
  <2>1. PICK v \in waiting : waiting' = waiting \ {v}
    BY <1>5, SignalWakesOne
  <2>2. Woken' = Woken \cup {v} /\ v \notin Woken
    BY <1>1, <2>1 DEF Woken
  <2> QED BY <2>1, <2>2, ThreadSets DEF Woken
<1> QED BY <1>1, <1>2, <1>4, <1>5

LEMMA TestInv ==
    ASSUME PoolInv, NEW t \in Threads, TestSucceeds(t) \/ TestFails(t)
    PROVE  PoolInv'
<1>1. TypeOK'
  <2>1. CASE TestSucceeds(t)
    BY <2>1 DEF PoolInv, TypeOK, TestSucceeds, Goto, poolVars
  <2>2. CASE TestFails(t)
    BY <2>2 DEF PoolInv, TypeOK, TestFails, Goto, poolVars
  <2> QED BY <2>1, <2>2
<1>2. Counted' = Counted /\ Woken' = Woken /\ UNCHANGED poolVars
  BY DEF PoolInv, TypeOK, TestSucceeds, TestFails, Goto, Counted, Woken, poolVars
<1>3. (\A u \in Threads : pc[u] \in {"testing", "using", "closing"} => conn[u] \in Conns)'
  BY DEF PoolInv, TypeOK, TestSucceeds, TestFails, Goto
<1> QED BY <1>1, <1>2, <1>3 DEF PoolInv, Accounting, poolVars

LEMMA NewInv ==
    ASSUME PoolInv, NEW t \in Threads, NewSucceeds(t) \/ NewFails(t)
    PROVE  PoolInv'
<1>1. CASE NewSucceeds(t)
  <2>1. TypeOK'
    BY <1>1 DEF PoolInv, TypeOK, NewSucceeds, Goto, poolVars
  <2>2. Counted' = Counted /\ Woken' = Woken /\ UNCHANGED poolVars
    BY <1>1 DEF PoolInv, TypeOK, NewSucceeds, Goto, Counted, Woken, poolVars
  <2>3. (\A u \in Threads : pc[u] \in {"testing", "using", "closing"} => conn[u] \in Conns)'
    BY <1>1 DEF PoolInv, TypeOK, NewSucceeds, Goto
  <2> QED BY <2>1, <2>2, <2>3 DEF PoolInv, Accounting, poolVars
<1>2. CASE NewFails(t)
  <2>1. t \in Counted /\ idleNum' = idleNum - 1 /\ waiting' \in Signal /\ Goto(t, "idle")
        /\ UNCHANGED <<idle, closed, conn, tries, failed, open>>
    BY <1>2 DEF NewFails, Counted
  <2>2. TypeOK'
    BY <2>1, SignalInv DEF PoolInv, TypeOK
  <2>3. idleNum \in Int /\ Len(idle) \in Nat /\ MaxIdle \in Nat
    BY MaxIdleAssumption DEF PoolInv, TypeOK
  <2>4. Accounting'
    BY ZenonT(1), SMTT(30), <2>1, <2>3, SignalInv DEF PoolInv, Accounting
  <2>5. (\A u \in Threads : pc[u] \in {"testing", "using", "closing"} => conn[u] \in Conns)'
    BY <2>1 DEF PoolInv, TypeOK, Goto
  <2>6. waiting' # {} => ~closed' /\ MaxIdle > 0
                         /\ Len(idle') + MaxIdle - idleNum' <= Cardinality(Woken')
    BY <2>1, <2>3, SignalInv DEF PoolInv
  <2> QED BY SMTT(30), <2>1, <2>2, <2>4, <2>5, <2>6 DEF PoolInv
<1> QED BY SMTT(30), <1>1, <1>2

\* What Put leaves of the list is a list, one longer or as long as before.
LEMMA PushFacts ==
    ASSUME NEW c \in Conns, idle \in Seq(Conns)
    PROVE  /\ <<c>> \o idle \in Seq(Conns) /\ Len(<<c>> \o idle) = Len(idle) + 1
           /\ Front(<<c>> \o idle) \in Seq(Conns) /\ Len(Front(<<c>> \o idle)) = Len(idle)
           /\ Last(<<c>> \o idle) \in Conns
<1> DEFINE p == <<c>> \o idle
<1>1. p \in Seq(Conns) /\ Len(p) = Len(idle) + 1 /\ Len(idle) \in Nat
  OBVIOUS
<1> HIDE DEF p
<1>2. Front(p) \in Seq(Conns) /\ Len(Front(p)) = Len(idle)
  BY <1>1 DEF Front
<1>3. Last(p) \in Conns
  BY <1>1 DEF Last
<1> QED BY <1>1, <1>2, <1>3 DEF p

LEMMA RecycleInv ==
    ASSUME PoolInv, NEW t \in Threads, Recycle(t)
    PROVE  PoolInv'
<1>1. /\ pc[t] = "using" /\ t \in Counted /\ conn[t] \in Conns
      /\ UNCHANGED <<tries, failed, open>>
  BY DEF Recycle, Counted, PoolInv
<1>2. idleNum \in Int /\ idle \in Seq(Conns) /\ Len(idle) \in Nat /\ MaxIdle \in Nat
  BY MaxIdleAssumption DEF PoolInv, TypeOK
<1>3. CASE closed
  <2>1. /\ Goto(t, "idle") /\ conn' = [conn EXCEPT ![t] = NoConn]
        /\ UNCHANGED poolVars
    BY <1>3 DEF Recycle, PoolRemove, Put, GiveUp
  <2>2. TypeOK'
    BY <1>1, <2>1 DEF PoolInv, TypeOK, Goto, poolVars
  <2>3. Counted' = Counted \ {t}
    BY <2>1 DEF PoolInv, TypeOK, Goto, Counted
  <2>4. Cardinality(Counted) \in Nat /\ Cardinality(Counted') = Cardinality(Counted) - 1
    BY <1>1, <2>3, ThreadSets DEF Counted
  <2>5. (\A u \in Threads : pc[u] \in {"testing", "using", "closing"} => conn[u] \in Conns)'
    BY <2>1 DEF PoolInv, TypeOK, Goto
  <2>6. Accounting'
    BY <1>2, <1>3, <2>1, <2>4 DEF PoolInv, Accounting, poolVars
  <2> QED BY SMTT(30), <1>3, <2>1, <2>2, <2>5, <2>6 DEF PoolInv, poolVars
<1>4. ASSUME ~closed, closed' = closed, waiting' \in Signal,
             pc'[t] \in {"idle", "closing"}, Goto(t, pc'[t]),
             conn'[t] \in Conns \cup {NoConn}, conn' = [conn EXCEPT ![t] = conn'[t]],
             pc'[t] = "closing" => conn'[t] \in Conns,
             idle' \in Seq(Conns), idleNum' \in {idleNum, idleNum - 1},
             idleNum' - Len(idle') = idleNum - Len(idle) - 1
      PROVE  PoolInv'
  <2>1. /\ waiting' \subseteq {u \in Threads : pc'[u] = "waiting"}
        /\ pc' \in [Threads -> {"idle", "waiting", "testing", "refused", "creating",
                                "using", "closing"}]
        /\ Cardinality(Counted) \in Nat
        /\ Cardinality(Counted') = Cardinality(Counted) - 1
        /\ waiting' # {} => /\ waiting # {}
                            /\ Cardinality(Woken) \in Nat
                            /\ Cardinality(Woken') = Cardinality(Woken) + 1
    BY <1>1, <1>4, SignalInv
  <2>2. TypeOK'
    <3>1. conn \in [Threads -> Conns \cup {NoConn}]
      BY DEF PoolInv, TypeOK
    <3>2. conn' \in [Threads -> Conns \cup {NoConn}]
      BY <1>4, <3>1
    <3>3. idleNum' \in Int
      BY <1>2, <1>4
    <3> QED BY SMTT(30), <1>1, <1>4, <2>1, <3>2, <3>3 DEF PoolInv, TypeOK
  <2>3. Len(idle') \in Nat /\ idleNum' \in Int
    BY <1>2, <1>4
  <2>4. Accounting'
    <3>1. /\ idleNum = Len(idle) + Cardinality(Counted)
          /\ MaxIdle > 0 => idleNum <= MaxIdle
      BY <1>4 DEF PoolInv, Accounting
    <3>2. idleNum' = Len(idle') + Cardinality(Counted')
      BY SMTT(30), <1>2, <1>4, <2>1, <2>3, <3>1
    <3>3. MaxIdle > 0 => idleNum' <= MaxIdle
      BY <1>2, <1>4, <3>1
    <3> QED BY <1>4, <3>2, <3>3 DEF Accounting
  <2>5. (\A u \in Threads : pc[u] \in {"testing", "using", "closing"} => conn[u] \in Conns)'
    BY <1>4 DEF PoolInv, TypeOK, Goto
  <2>6. waiting' # {} => ~closed' /\ MaxIdle > 0
                         /\ Len(idle') + MaxIdle - idleNum' <= Cardinality(Woken')
    <3>1. waiting # {} => ~closed /\ MaxIdle > 0
                          /\ Len(idle) + MaxIdle - idleNum <= Cardinality(Woken)
      BY DEF PoolInv
    <3> QED BY SMTT(30), <1>2, <1>4, <2>1, <2>3, <3>1
  <2> QED BY SMTT(30), <1>4, <2>2, <2>4, <2>5, <2>6 DEF PoolInv
<1>5. CASE ~closed /\ failed[t]
  <2>1. /\ waiting' \in Signal /\ idleNum' = idleNum - 1 /\ Goto(t, "closing")
        /\ UNCHANGED <<idle, closed, conn>>
    BY <1>5 DEF Recycle, PoolRemove
  <2>2. /\ conn' = [conn EXCEPT ![t] = conn'[t]] /\ conn'[t] \in Conns
        /\ pc'[t] = "closing"
    BY <1>1, <2>1 DEF PoolInv, TypeOK, Goto
  <2> QED BY SMTT(30), <1>2, <1>4, <1>5, <2>1, <2>2
<1>6. CASE ~closed /\ ~failed[t]
  <2> DEFINE pushed == <<conn[t]>> \o idle
             over == Len(pushed) > MaxIdle
  <2>1. /\ waiting' \in Signal
        /\ idle' = IF over THEN Front(pushed) ELSE pushed
        /\ idleNum' = IF over THEN idleNum - 1 ELSE idleNum
        /\ conn' = [conn EXCEPT ![t] = IF over THEN Last(pushed) ELSE NoConn]
        /\ Goto(t, IF over THEN "closing" ELSE "idle")
        /\ UNCHANGED closed
    BY <1>6 DEF Recycle, Put
  <2>2. /\ pushed \in Seq(Conns) /\ Len(pushed) = Len(idle) + 1
        /\ Front(pushed) \in Seq(Conns) /\ Len(Front(pushed)) = Len(idle)
        /\ Last(pushed) \in Conns
    BY <1>1, <1>2, PushFacts
  <2> HIDE DEF pushed
  <2>3. /\ pc'[t] = (IF over THEN "closing" ELSE "idle")
        /\ conn'[t] = (IF over THEN Last(pushed) ELSE NoConn)
    BY <2>1 DEF PoolInv, TypeOK, Goto
  <2>4. /\ Goto(t, pc'[t]) /\ conn' = [conn EXCEPT ![t] = conn'[t]]
    BY <2>1, <2>3
  <2>5. /\ idle' \in Seq(Conns) /\ idleNum' \in {idleNum, idleNum - 1}
        /\ idleNum' - Len(idle') = idleNum - Len(idle) - 1
    <3>1. CASE over
      BY SMTT(30), <1>2, <2>1, <2>2, <3>1
    <3>2. CASE ~over
      BY SMTT(30), <1>2, <2>1, <2>2, <3>2
    <3> QED BY <3>1, <3>2
  <2>6. /\ pc'[t] \in {"idle", "closing"} /\ conn'[t] \in Conns \cup {NoConn}
        /\ pc'[t] = "closing" => conn'[t] \in Conns
    BY <2>2, <2>3
  <2> QED BY SMTT(30), <1>4, <1>6, <2>1, <2>4, <2>5, <2>6
<1> QED BY <1>3, <1>5, <1>6

LEMMA OthersInv ==
    ASSUME PoolInv, NEW t \in Threads, CloseConn(t) \/ Do(t)
    PROVE  PoolInv'
<1>1. TypeOK'
  <2>1. CASE CloseConn(t)
    BY <2>1 DEF PoolInv, TypeOK, CloseConn, Goto, poolVars
  <2>2. CASE Do(t)
    BY <2>2 DEF PoolInv, TypeOK, Do, poolVars
  <2> QED BY <2>1, <2>2
<1>2. Counted' = Counted /\ Woken' = Woken /\ UNCHANGED poolVars
  BY DEF PoolInv, TypeOK, CloseConn, Do, Goto, Counted, Woken, poolVars
<1>3. (\A u \in Threads : pc[u] \in {"testing", "using", "closing"} => conn[u] \in Conns)'
  BY DEF PoolInv, TypeOK, CloseConn, Do, Goto
<1> QED BY SMTT(30), <1>1, <1>2, <1>3 DEF PoolInv, Accounting, poolVars

LEMMA CloseInv == PoolInv /\ Close => PoolInv'
<1> SUFFICES ASSUME PoolInv, Close PROVE PoolInv'
  OBVIOUS
<1>1. << >> \in Seq(Conns)
  OBVIOUS
<1>2. TypeOK'
  BY <1>1 DEF PoolInv, TypeOK, Close, threadVars
<1>3. Counted' = Counted
  BY DEF Close, threadVars, Counted
<1>4. Cardinality(Counted) \in Nat
  BY ThreadSets DEF Counted
<1>5. Len(idle) \in Nat
  BY DEF PoolInv, TypeOK
<1>6. Accounting'
  BY <1>3, <1>4, <1>5 DEF PoolInv, TypeOK, Accounting, Close
<1> QED BY <1>2, <1>6 DEF PoolInv, Close, threadVars

LEMMA NextInv == PoolInv /\ [Next]_vars => PoolInv'
<1> SUFFICES ASSUME PoolInv, [Next]_vars PROVE PoolInv'
  OBVIOUS
<1>1. CASE UNCHANGED vars
  BY <1>1 DEF vars, poolVars, threadVars, PoolInv, TypeOK, Accounting, Counted, Woken
<1> QED BY <1>1, GetInv, WakeInv, TestInv, RelockInv, NewInv, RecycleInv, OthersInv, CloseInv
        DEF Next, Step

\* While threads wait, something to have means that some thread is awake.
LEMMA InvSafe == PoolInv => Accounting /\ NoLostWakeup
<1> SUFFICES ASSUME PoolInv, waiting # {}, closed \/ idle # << >> \/ idleNum < MaxIdle
             PROVE  Woken # {}
  BY DEF PoolInv, NoLostWakeup, Woken
<1>1. Len(idle) \in Nat /\ (idle # << >> => Len(idle) > 0) /\ idleNum \in Int /\ MaxIdle \in Nat
  BY MaxIdleAssumption DEF PoolInv, TypeOK
<1>2. Len(idle) + MaxIdle - idleNum > 0
  BY <1>1 DEF PoolInv, Accounting
<1>3. Cardinality(Woken) # 0
  BY <1>1, <1>2 DEF PoolInv
<1> QED BY <1>3, FS_EmptySet

\* For any number of threads and connections and any limit, pooling.go counts
\* its connections exactly: the limit is never passed, and no failure of NewFn,
\* TestOnBorrow or Do eats a place.
THEOREM AccountingTheorem == Spec => [](TypeOK /\ Accounting)
<1>1. PoolInv => TypeOK /\ Accounting
  BY DEF PoolInv
<1> QED BY InitInv, NextInv, <1>1, PTL DEF Spec

\* For any number of threads and connections and any limit, pooling.go loses no
\* wakeup, although it signals one thread at a time and never broadcasts before
\* Close.
THEOREM WakeupTheorem == Spec => []NoLostWakeup
BY InitInv, NextInv, InvSafe, PTL DEF Spec
=============================================================================
