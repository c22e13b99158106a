-------------------------- MODULE BlockIndexProofs --------------------------
(***************************************************************************)
(* For any sets of keys and positions: as long as no write to the          *)
(* temporary file and no rename fails, the file blockIndex replays to the  *)
(* table in memory at every moment, and a restart loses nothing.           *)
(***************************************************************************)
EXTENDS BlockIndex, TLAPS

\* What a record appended to a file does to the replay of it: it sets the
\* index of its key and leaves the other keys alone.
LEMMA LatestAppend ==
    ASSUME NEW s \in Seq(Record), NEW k \in Keys, NEW p \in Index
    PROVE  LET t == Append(s, [key |-> k, index |-> p]) IN
           /\ t \in Seq(Record)
           /\ Latest(t, k, p)
           /\ Mentions(t, k)
           /\ \A q \in Keys \ {k} : /\ Mentions(t, q) <=> Mentions(s, q)
                                    /\ \A x : Latest(s, q, x) => Latest(t, q, x)
<1> DEFINE r == [key |-> k, index |-> p]
           t == Append(s, r)
<1>1. /\ r \in Record
      /\ t \in Seq(Record)
      /\ Len(t) = Len(s) + 1
      /\ DOMAIN t = 1 .. Len(t)
      /\ DOMAIN s = 1 .. Len(s)
      /\ Len(s) \in Nat
      /\ t[Len(t)] = r
      /\ \A i \in DOMAIN s : i \in DOMAIN t /\ t[i] = s[i]
      /\ \A i \in DOMAIN t : i \in DOMAIN s \/ i = Len(t)
  BY DEF Record
<1> HIDE DEF t
<1>2. Latest(t, k, p) /\ Mentions(t, k)
  BY <1>1 DEF Latest, Mentions
<1>3. ASSUME NEW q \in Keys \ {k}
      PROVE  Mentions(t, q) <=> Mentions(s, q)
  BY <1>1, <1>3 DEF Mentions
<1>4. ASSUME NEW q \in Keys \ {k}, NEW x, Latest(s, q, x)
      PROVE  Latest(t, q, x)
  <2>1. CASE x = NoIndex /\ \A i \in DOMAIN s : s[i].key # q
    BY <1>1, <2>1 DEF Latest
  <2>2. CASE \E i \in DOMAIN s : /\ s[i] = [key |-> q, index |-> x]
                                 /\ \A j \in DOMAIN s : j > i => s[j].key # q
    BY <1>1, <2>2 DEF Latest
  <2> QED BY <1>4, <2>1, <2>2 DEF Latest
<1> QED BY <1>1, <1>2, <1>3, <1>4 DEF t

\* What copying a buffer behind a file does: keys the buffer mentions get
\* their index from the buffer, the others keep the one of the file.
LEMMA LatestConcat ==
    ASSUME NEW s \in Seq(Record), NEW t \in Seq(Record), NEW k \in Keys, NEW p
    PROVE  /\ s \o t \in Seq(Record)
           /\ Mentions(t, k) /\ Latest(t, k, p) => Latest(s \o t, k, p)
           /\ ~Mentions(t, k) /\ Latest(s, k, p) => Latest(s \o t, k, p)
<1> DEFINE u == s \o t
<1>1. /\ u \in Seq(Record)
      /\ Len(s) \in Nat /\ Len(t) \in Nat
      /\ DOMAIN u = 1 .. (Len(s) + Len(t))
      /\ DOMAIN s = 1 .. Len(s)
      /\ DOMAIN t = 1 .. Len(t)
      /\ \A i \in DOMAIN s : i \in DOMAIN u /\ u[i] = s[i]
      /\ \A i \in DOMAIN t : Len(s) + i \in DOMAIN u /\ u[Len(s) + i] = t[i]
      /\ \A i \in DOMAIN u : i \in DOMAIN s \/ i - Len(s) \in DOMAIN t
  OBVIOUS
<1> HIDE DEF u
<1>2. ASSUME Mentions(t, k), Latest(t, k, p)
      PROVE  Latest(u, k, p)
  <2>1. PICK i \in DOMAIN t : /\ t[i] = [key |-> k, index |-> p]
                              /\ \A j \in DOMAIN t : j > i => t[j].key # k
    BY <1>2 DEF Mentions, Latest
  <2>2. Len(s) + i \in DOMAIN u /\ u[Len(s) + i] = [key |-> k, index |-> p]
    BY <1>1, <2>1
  <2>3. ASSUME NEW j \in DOMAIN u, j > Len(s) + i
        PROVE  u[j].key # k
    <3>1. j - Len(s) \in DOMAIN t /\ j - Len(s) > i /\ u[j] = t[j - Len(s)]
      BY <1>1, <2>3
    <3> QED BY <2>1, <3>1
  <2> QED BY <2>2, <2>3 DEF Latest
<1>3. ASSUME ~Mentions(t, k), Latest(s, k, p)
      PROVE  Latest(u, k, p)
  <2>1. ASSUME NEW j \in DOMAIN u, j \notin DOMAIN s
        PROVE  u[j].key # k
    <3>1. j - Len(s) \in DOMAIN t /\ u[j] = t[j - Len(s)]
      BY <1>1, <2>1
    <3> QED BY <1>3, <3>1 DEF Mentions
  <2>2. CASE p = NoIndex /\ \A i \in DOMAIN s : s[i].key # k
    BY <1>1, <2>1, <2>2 DEF Latest
  <2>3. CASE \E i \in DOMAIN s : /\ s[i] = [key |-> k, index |-> p]
                                 /\ \A j \in DOMAIN s : j > i => s[j].key # k
    BY <1>1, <2>1, <2>3 DEF Latest
  <2> QED BY <1>3, <2>2, <2>3 DEF Latest
<1> QED BY <1>1, <1>2, <1>3 DEF u

\* Replaying a file gives each key at most one index.
LEMMA LatestUnique ==
    ASSUME NEW s \in Seq(Record), NEW k, NEW p, NEW q,
           Latest(s, k, p), Latest(s, k, q)
    PROVE  p = q
<1>1. CASE \A i \in DOMAIN s : s[i].key # k
  BY <1>1 DEF Latest
<1>2. CASE \E i \in DOMAIN s : s[i].key = k
  <2>1. PICK i \in DOMAIN s : /\ s[i] = [key |-> k, index |-> p]
                              /\ \A j \in DOMAIN s : j > i => s[j].key # k
    BY <1>2 DEF Latest
  <2>2. PICK m \in DOMAIN s : /\ s[m] = [key |-> k, index |-> q]
                              /\ \A j \in DOMAIN s : j > m => s[j].key # k
    BY <1>2 DEF Latest
  <2>3. i \in Int /\ m \in Int
    OBVIOUS
  <2>4. i = m
    BY <2>1, <2>2, <2>3
  <2> QED BY <2>1, <2>2, <2>4
<1> QED BY <1>1, <1>2

\* A table the file replays to is the table LoadIndexFromFile returns.
LEMMA LoadReplays ==
    ASSUME NEW s \in Seq(Record), NEW T \in Tables,
           \A k \in Keys : Latest(s, k, T[k])
    PROVE  LoadIndexFromFile(s) = T
<1>1. ASSUME NEW k \in Keys
      PROVE  (CHOOSE p \in Index : Latest(s, k, p)) = T[k]
  <2> DEFINE c == CHOOSE p \in Index : Latest(s, k, p)
  <2>1. T[k] \in Index /\ Latest(s, k, T[k])
    BY DEF Tables
  <2>2. Latest(s, k, c)
    BY <2>1
  <2> HIDE DEF c
  <2>3. c = T[k]
    BY <2>1, <2>2, LatestUnique
  <2> QED BY <2>3 DEF c
<1> QED BY <1>1 DEF LoadIndexFromFile, Tables

\* An empty file or buffer holds no record of any key.
LEMMA EmptyReplay ==
    /\ << >> \in Seq(Record)
    /\ \A k : Latest(<< >>, k, NoIndex) /\ ~Mentions(<< >>, k)
BY DEF Latest, Mentions

-----------------------------------------------------------------------------
\* The loop of dumpIndex writes every entry and the rename succeeds; dumpIndex
\* may still return early.
OnlyDumpFails == Faults \subseteq {"dump"}

\* Initiate on an empty directory establishes the invariant.
LEMMA InitInv == IndexInit => IndexInv
<1> SUFFICES ASSUME IndexInit PROVE IndexInv
  OBVIOUS
<1>1. NoIndex \in Index /\ [k \in Keys |-> NoIndex] \in Tables
  BY DEF Index, Tables
<1>2. IndexTypeOK
  BY <1>1, EmptyReplay DEF IndexInit, IndexTypeOK, IdleDump, FileNames
<1> QED BY <1>2, EmptyReplay DEF IndexInit, IndexInv, Durable, IdleDump, FileNames

\* writeIndex and Del keep file, buffer and table in step.
LEMMA WriteIndexInv ==
    ASSUME IndexInv, NEW k \in Keys, NEW p \in Index, WriteIndex(k, p)
    PROVE  IndexInv'
<1> DEFINE r == [key |-> k, index |-> p]
           old == file["blockIndex"]
           new == Append(old, r)
           buf == Append(buffer, r)
<1>1. /\ IndexTypeOK
      /\ handle = "blockIndex"
      /\ old \in Seq(Record)
      /\ buffer \in Seq(Record)
      /\ indexTable \in [Keys -> Index]
  BY DEF IndexInv, IndexTypeOK, FileNames, Tables
<1>2. /\ file' = [file EXCEPT !["blockIndex"] = new]
      /\ buffer' = IF buffering THEN buf ELSE buffer
      /\ indexTable' = [indexTable EXCEPT ![k] = p]
      /\ UNCHANGED <<handle, buffering, dump>>
  BY <1>1 DEF WriteIndex, LogRecord
<1>3. /\ new \in Seq(Record)
      /\ Latest(new, k, p)
      /\ \A q \in Keys \ {k} : \A x : Latest(old, q, x) => Latest(new, q, x)
  BY <1>1, LatestAppend
<1>4. /\ buf \in Seq(Record)
      /\ Latest(buf, k, p)
      /\ Mentions(buf, k)
      /\ \A q \in Keys \ {k} : /\ Mentions(buf, q) <=> Mentions(buffer, q)
                               /\ \A x : Latest(buffer, q, x) => Latest(buf, q, x)
  BY <1>1, LatestAppend
<1> HIDE DEF new, buf
<1>5. /\ file'["blockIndex"] = new
      /\ file'["blockIndexTemp"] = file["blockIndexTemp"]
      /\ indexTable'[k] = p
      /\ \A q \in Keys \ {k} : indexTable'[q] = indexTable[q]
  BY <1>1, <1>2 DEF IndexTypeOK, FileNames
<1>6. IndexTypeOK'
  BY <1>1, <1>2, <1>3, <1>4 DEF IndexTypeOK, FileNames, Tables
<1>7. Durable'
  BY <1>3, <1>5 DEF IndexInv, Durable
<1>8. (\A q \in Keys : Mentions(buffer, q) => Latest(buffer, q, indexTable[q]))'
  <2>1. CASE buffering
    BY <1>2, <1>4, <1>5, <2>1 DEF IndexInv
  <2>2. CASE ~buffering
    BY <1>2, <2>2, EmptyReplay DEF IndexInv
  <2> QED BY <2>1, <2>2
<1>9. (dump.pc \in {"open", "write"} =>
          \A q \in Keys : Mentions(buffer, q) \/ dump.table[q] = indexTable[q])'
  <2> SUFFICES ASSUME dump.pc \in {"open", "write"}, NEW q \in Keys
               PROVE  Mentions(buffer', q) \/ dump.table[q] = indexTable'[q]
    BY <1>2
  <2>1. buffering /\ buffer' = buf
    BY <1>2 DEF IndexInv
  <2> QED BY <1>4, <1>5, <2>1 DEF IndexInv
<1> QED
  BY <1>2, <1>5, <1>6, <1>7, <1>8, <1>9 DEF IndexInv

\* Every step of dumpIndex keeps the invariant.
LEMMA DumpInv ==
    ASSUME OnlyDumpFails, IndexInv, DumpIndex
    PROVE  IndexInv'
<1> USE DEF IndexInv
<1>1. CASE DumpBegin
  BY SMTT(30), <1>1 DEF DumpBegin, IndexTypeOK, Durable
<1>2. CASE DumpLoad
  <2>1. LoadIndexFromFile(file["blockIndex"]) = indexTable
    BY LoadReplays DEF IndexTypeOK, Durable, FileNames
  <2> QED BY <1>2, <2>1 DEF DumpLoad, IndexTypeOK, Durable
<1>3. CASE DumpOpen
  <2>1. /\ file' = [file EXCEPT !["blockIndexTemp"] = << >>]
        /\ file'["blockIndexTemp"] = << >>
        /\ file'["blockIndex"] = file["blockIndex"]
        /\ dump' = [dump EXCEPT !.pc = "write",
                                !.todo = {k \in Keys : dump.table[k] # NoIndex}]
        /\ dump'.pc = "write" /\ dump'.table = dump.table
        /\ dump'.todo = {k \in Keys : dump.table[k] # NoIndex}
        /\ UNCHANGED <<indexTable, handle, buffering, buffer>>
    BY <1>3 DEF DumpOpen, IndexTypeOK, FileNames
  <2>2. IndexTypeOK'
    BY <2>1, EmptyReplay DEF IndexTypeOK, FileNames
  <2>3. \A k \in Keys : (IF k \in dump'.todo THEN NoIndex ELSE dump'.table[k]) = NoIndex
    BY <2>1
  <2> QED BY <1>3, <2>1, <2>2, <2>3, EmptyReplay DEF DumpOpen, Durable
<1>4. ASSUME NEW k \in Keys, DumpWrite(k)
      PROVE  IndexInv'
  <2> DEFINE temp == file["blockIndexTemp"]
             new == Append(temp, [key |-> k, index |-> dump.table[k]])
             Written(q) == IF q \in dump.todo THEN NoIndex ELSE dump.table[q]
  <2>1. /\ dump.pc = "write" /\ k \in dump.todo
        /\ file' = [file EXCEPT !["blockIndexTemp"] = new]
        /\ dump' = [dump EXCEPT !.todo = @ \ {k}]
        /\ UNCHANGED <<indexTable, handle, buffering, buffer>>
    BY <1>4 DEF DumpWrite, OnlyDumpFails
  <2>2. /\ temp \in Seq(Record) /\ dump.table[k] \in Index
        /\ \A q \in Keys : Latest(temp, q, Written(q))
    BY <2>1 DEF IndexTypeOK, FileNames, Tables
  <2>3. /\ new \in Seq(Record)
        /\ Latest(new, k, dump.table[k])
        /\ \A q \in Keys \ {k} : Latest(new, q, Written(q))
    BY <2>2, LatestAppend
  <2> HIDE DEF new
  <2>4. /\ file'["blockIndexTemp"] = new
        /\ file'["blockIndex"] = file["blockIndex"]
        /\ dump'.pc = "write" /\ dump'.table = dump.table
        /\ dump'.todo = dump.todo \ {k}
    BY <2>1 DEF IndexTypeOK, FileNames
  <2>5. IndexTypeOK'
    BY SMTT(30), <2>1, <2>3 DEF IndexTypeOK, FileNames
  <2>6. \A q \in Keys : Latest(new, q, IF q \in dump'.todo THEN NoIndex ELSE dump'.table[q])
    BY <2>3, <2>4
  <2> QED BY <2>1, <2>4, <2>5, <2>6 DEF Durable
<1>5. CASE DumpSwitch
  <2> DEFINE temp == file["blockIndexTemp"]
             merged == temp \o buffer
  <2>1. /\ dump.pc = "write" /\ dump.todo = {}
        /\ file' = [file EXCEPT !["blockIndex"] = merged, !["blockIndexTemp"] = << >>]
        /\ handle' = "blockIndex"
        /\ buffering' = FALSE /\ buffer' = << >> /\ dump' = IdleDump
        /\ UNCHANGED indexTable
    BY <1>5 DEF DumpSwitch, OnlyDumpFails
  <2>2. temp \in Seq(Record) /\ buffer \in Seq(Record)
    BY DEF IndexTypeOK, FileNames
  <2>3. ASSUME NEW k \in Keys
        PROVE  Latest(merged, k, indexTable[k])
    <3>1. CASE Mentions(buffer, k)
      BY <2>2, <3>1, LatestConcat
    <3>2. CASE ~Mentions(buffer, k)
      <4>1. Latest(temp, k, indexTable[k])
        BY <2>1, <3>2
      <4> QED BY <2>2, <3>2, <4>1, LatestConcat
    <3> QED BY <3>1, <3>2
  <2>4. merged \in Seq(Record)
    BY <2>2
  <2> HIDE DEF merged
  <2>5. file'["blockIndex"] = merged
    BY <2>1 DEF IndexTypeOK, FileNames
  <2>6. IndexTypeOK'
    BY <2>1, <2>4, EmptyReplay DEF IndexTypeOK, FileNames, IdleDump, Tables, Index
  <2> QED BY <2>1, <2>3, <2>5, <2>6, EmptyReplay DEF Durable, IdleDump
<1>6. CASE DumpFail
  <2>1. dump' = IdleDump /\ UNCHANGED <<indexTable, file, handle, buffering, buffer>>
    BY <1>6 DEF DumpFail
  <2>2. IndexTypeOK'
    BY <2>1 DEF IndexTypeOK, IdleDump, Tables, Index
  <2> QED BY <2>1, <2>2 DEF IdleDump, Durable
<1> QED BY <1>1, <1>2, <1>3, <1>4, <1>5, <1>6 DEF DumpIndex

\* A restart reloads the table it lost.
LEMMA RestartInv ==
    ASSUME IndexInv, RestartIndex
    PROVE  IndexInv' /\ indexTable' = indexTable
<1>1. LoadIndexFromFile(file["blockIndex"]) = indexTable
  BY LoadReplays DEF IndexInv, IndexTypeOK, Durable, FileNames
<1>2. /\ indexTable' = indexTable /\ handle' = "blockIndex"
      /\ buffering' = FALSE /\ buffer' = << >> /\ dump' = IdleDump
      /\ UNCHANGED file
  BY <1>1 DEF RestartIndex
<1>3. IndexTypeOK'
  BY <1>2, EmptyReplay DEF IndexInv, IndexTypeOK, FileNames, IdleDump, Tables, Index
<1> QED BY <1>2, <1>3, EmptyReplay DEF IndexInv, Durable, IdleDump

\* The invariant is inductive.
LEMMA NextInv ==
    ASSUME OnlyDumpFails
    PROVE  IndexInv /\ [IndexNext]_indexVars => IndexInv'
<1> SUFFICES ASSUME IndexInv, [IndexNext]_indexVars PROVE IndexInv'
  OBVIOUS
<1>1. ASSUME NEW k \in Keys, NEW p \in Positions, WriteIndex(k, p)
      PROVE  IndexInv'
  BY <1>1, WriteIndexInv DEF Index
<1>2. ASSUME NEW k \in Keys, DelIndex(k)
      PROVE  IndexInv'
  BY <1>2, WriteIndexInv DEF DelIndex, Index
<1>3. CASE DumpIndex
  BY <1>3, DumpInv
<1>4. CASE RestartIndex
  BY <1>4, RestartInv
<1>5. CASE UNCHANGED indexVars
  BY <1>5 DEF indexVars, IndexInv, IndexTypeOK, Durable
<1> QED BY <1>1, <1>2, <1>3, <1>4, <1>5 DEF IndexNext

\* The types, and the AOF: at every moment blockIndex replays to indexTable,
\* however the steps of dumpIndex interleave with writeIndex, Del, early
\* returns and restarts.
THEOREM DurableTheorem ==
    ASSUME OnlyDumpFails
    PROVE  IndexSpec => [](IndexTypeOK /\ Durable)
<1>1. IndexInv => IndexTypeOK /\ Durable
  BY DEF IndexInv
<1> QED BY <1>1, InitInv, NextInv, PTL DEF IndexSpec

\* No restart, whatever it interrupts, loses an acknowledged Set or Del.
THEOREM RestartTheorem ==
    ASSUME OnlyDumpFails
    PROVE  IndexSpec => RestartLosesNothing
<1>1. IndexInv => [RestartIndex => indexTable' = indexTable]_indexVars
  BY RestartInv
<1> QED BY <1>1, InitInv, NextInv, PTL DEF IndexSpec, RestartLosesNothing

\* The index implements DurableIndex: initial states are initial states, a
\* step is a PutIndex or leaves the table alone.
THEOREM RefinementTheorem ==
    ASSUME OnlyDumpFails
    PROVE  IndexSpec => ImplementsDurableIndex
<1>1. IndexInit => D!DurableInit
  BY DEF IndexInit, D!DurableInit
<1>2. IndexInv /\ [IndexNext]_indexVars => [D!DurableNext]_indexTable
  <2> SUFFICES ASSUME IndexInv, [IndexNext]_indexVars
               PROVE  [D!DurableNext]_indexTable
    OBVIOUS
  <2>1. ASSUME NEW k \in Keys, NEW p \in Index, WriteIndex(k, p)
        PROVE  D!DurableNext
    BY <2>1 DEF WriteIndex, D!DurableNext, D!PutIndex, Index
  <2>2. ASSUME NEW k \in Keys, NEW p \in Positions, WriteIndex(k, p)
        PROVE  D!DurableNext
    BY <2>1, <2>2 DEF Index
  <2>3. ASSUME NEW k \in Keys, DelIndex(k)
        PROVE  D!DurableNext
    BY <2>1, <2>3 DEF DelIndex, Index
  <2>4. CASE DumpIndex
    BY <2>4 DEF DumpIndex, DumpBegin, DumpLoad, DumpOpen, DumpWrite, DumpSwitch, DumpFail
  <2>5. CASE RestartIndex
    BY <2>5, RestartInv
  <2>6. CASE UNCHANGED indexVars
    BY <2>6 DEF indexVars
  <2> QED BY <2>2, <2>3, <2>4, <2>5, <2>6 DEF IndexNext
<1> QED
  BY <1>1, <1>2, InitInv, NextInv, PTL
  DEF IndexSpec, ImplementsDurableIndex, D!DurableSpec
=============================================================================
