----------------------------- MODULE BlockStore -----------------------------
(***************************************************************************)
(* The block store (filesystem/block): clients call Set, Get and Del       *)
(* concurrently, values live in append-only content files, the index says  *)
(* where, and DefragContent moves the live records out of old content      *)
(* files and removes those.  The index is the one DurableIndex describes;  *)
(* BlockIndex shows that its file and its dump implement it.               *)
(*                                                                         *)
(* A content record is two cells, a head with the key and the lengths and  *)
(* a body with the value, and sizes and offsets count cells: a write that  *)
(* fails half way leaves the head alone.  Records have the same size.      *)
(*                                                                         *)
(* A critical section of contentMutex or indexMutex is one step; Set, Get  *)
(* and rebuildIndex are several, because they let go of one lock before    *)
(* they take the next.                                                     *)
(***************************************************************************)
EXTENDS Integers, Sequences, FiniteSets

CONSTANTS
    Keys, Values, Clients,
    NoIndex,         \* no index: the key does not exist
    NoFile,          \* Block.contentWriter is nil
    Absent,          \* the value of a key that does not exist
    Broken,          \* the value of a key whose index leads nowhere
    Mixed,           \* a value made of the bytes of another record
    NoCall,          \* the client is in no call
    ContentFaults,   \* may a write to a content file fail half way?
    Races,           \* what may race with DefragContent, see below
    MaxSize,         \* Block.maxSize, 0 for no limit
    MaxFiles,        \* bound: content files ever created
    MaxCells         \* bound: cells in one content file

\* "update": a client writes the index of a key while rebuildIndex moves it.
\* "read": a client is between the index and the content of a Get when the
\* file is removed.  "slowSet": a client has been between the content and the
\* index of a Set for as long as FILESYSTEM_DEFRAG_CONTENT_LIFETIME.
ASSUME RacesAssumption == Races \subseteq {"update", "read", "slowSet"}

ASSUME BoundsAssumption ==
    /\ MaxSize \in Nat
    /\ MaxFiles \in Nat
    /\ MaxCells \in Nat

ContentFiles == 1 .. MaxFiles

Positions == [file : ContentFiles, offset : 1 .. MaxCells]

VARIABLES
    indexTable,  \* Block.indexTable
    content,     \* the cells of each content file, removed ones included
    linked,      \* the content files the directory lists
    created,     \* how many content files have been created
    writer,      \* the file Block.contentWriter appends to
    writerSize,  \* contentWriter.size
    client,      \* the call each client is in
    reply,       \* what the last Get to return answered
    defrag       \* the local state of the DefragContent goroutine

INSTANCE DurableIndex

contentVars == <<content, linked, created, writer, writerSize>>
vars == <<indexTable, contentVars, client, reply, defrag>>

HeadCell(k) == [part |-> "head", key |-> k]
BodyCell(v) == [part |-> "body", value |-> v]

IsHead(f, offset) == offset \in DOMAIN content[f] /\ content[f][offset].part = "head"
IsBody(f, offset) == offset \in DOMAIN content[f] /\ content[f][offset].part = "body"

\* kvstore.get has a head to read at the index, and enough bytes after it.
Filled(p) == IsHead(p.file, p.offset) /\ p.offset + 1 \in DOMAIN content[p.file]

\* readContent: the file must still be there and have a record where the index says.
\* Neither the key nor where the value comes from is looked at: a head that was left
\* alone is filled up with the bytes that follow it.
ValueAt(p) ==
    CASE p.file \in linked /\ Filled(p) /\ IsBody(p.file, p.offset + 1) ->
            content[p.file][p.offset + 1].value
      [] p.file \in linked /\ Filled(p) /\ ~ IsBody(p.file, p.offset + 1) -> Mixed
      [] OTHER -> Broken

\* What a Get of k that nothing races with returns.
Stored(k) == IF indexTable[k] = NoIndex THEN Absent ELSE ValueAt(indexTable[k])

IdleDefrag == [pc |-> "idle", file |-> 0, offset |-> 0, index |-> NoIndex]

-----------------------------------------------------------------------------
\* Initiate on an empty directory.
Init ==
    /\ DurableInit
    /\ content = [f \in ContentFiles |-> << >>]
    /\ linked = {}
    /\ created = 0
    /\ writer = NoFile
    /\ writerSize = 0
    /\ client = [c \in Clients |-> NoCall]
    /\ reply = Absent
    /\ defrag = IdleDefrag

\* updateContentWriter: there is no content file yet, or it is full.
NeedsFile == writer = NoFile \/ (MaxSize > 0 /\ writerSize >= MaxSize)

\* contentWriter.size when the record is written.
CurrentSize == IF NeedsFile THEN 0 ELSE writerSize

\* A wrong AppendContent for GetIsAtomic: the file is truncated instead of
\* opened for appending.
AppendContentTruncating(f, cells) ==
    /\ IF NeedsFile
       THEN f = created + 1 /\ created' = f /\ linked' = linked \cup {f}
       ELSE f = writer /\ UNCHANGED <<created, linked>>
    /\ f \in ContentFiles
    /\ content' = [content EXCEPT ![f] = cells]
    /\ writer' = f

\* writeContent appends the cells to the content file f, a new one when the
\* current one is full.
AppendContent(f, cells) ==
    /\ IF NeedsFile
       THEN f = created + 1 /\ created' = f /\ linked' = linked \cup {f}
       ELSE f = writer /\ UNCHANGED <<created, linked>>
    /\ f \in ContentFiles
    /\ Len(content[f]) + Len(cells) <= MaxCells
    /\ content' = [content EXCEPT ![f] = @ \o cells]
    /\ writer' = f

\* contentWriter.Write succeeds and returns the index p.  The offset in p is
\* the size the writer has counted, which is not where the record is once a
\* write has failed.
WriteContent(k, v, p) ==
    /\ p.offset = CurrentSize + 1
    /\ AppendContent(p.file, <<HeadCell(k), BodyCell(v)>>)
    /\ writerSize' = CurrentSize + 2

\* contentWriter.Write fails after the head is in the file; the counted size
\* stays.
WriteContentShort(k) ==
    /\ ContentFaults
    /\ \E f \in ContentFiles : AppendContent(f, <<HeadCell(k)>>)
    /\ writerSize' = CurrentSize

-----------------------------------------------------------------------------
\* Set, first half.
SetContent(c, k, v) ==
    /\ client[c] = NoCall
    /\ \E p \in Positions :
           /\ WriteContent(k, v, p)
           /\ client' = [client EXCEPT ![c] =
                  [op |-> "set", key |-> k, value |-> v, index |-> p]]
    /\ UNCHANGED <<indexTable, reply, defrag>>

\* Set returns the error of writeContent.
SetFails(c, k) ==
    /\ client[c] = NoCall
    /\ WriteContentShort(k)
    /\ UNCHANGED <<indexTable, client, reply, defrag>>

\* May a client write the index of k now?
MayWriteIndex(k) ==
    (defrag.pc # "idle" /\ defrag.pc # "scan"
        /\ content[defrag.file][defrag.offset].key = k) => "update" \in Races

\* Set, second half.
SetIndex(c) ==
    /\ client[c] # NoCall
    /\ client[c].op = "set"
    /\ MayWriteIndex(client[c].key)
    /\ PutIndex(client[c].key, client[c].index)
    /\ client' = [client EXCEPT ![c] = NoCall]
    /\ UNCHANGED <<contentVars, reply, defrag>>

Del(c, k) ==
    /\ client[c] = NoCall
    /\ MayWriteIndex(k)
    /\ PutIndex(k, NoIndex)
    /\ UNCHANGED <<contentVars, client, reply, defrag>>

\* Get of a key that is not in the table.
GetMissing(c, k) ==
    /\ client[c] = NoCall
    /\ indexTable[k] = NoIndex
    /\ reply' = Absent
    /\ UNCHANGED <<indexTable, contentVars, client, defrag>>

\* Get, first half; value is what the key holds at this moment.
GetIndex(c, k) ==
    /\ client[c] = NoCall
    /\ indexTable[k] # NoIndex
    /\ client' = [client EXCEPT ![c] =
           [op |-> "get", key |-> k, value |-> Stored(k), index |-> indexTable[k]]]
    /\ UNCHANGED <<indexTable, contentVars, reply, defrag>>

\* Get, second half: what the index says is in the file now, or an error.
GetContent(c) ==
    /\ client[c] # NoCall
    /\ client[c].op = "get"
    /\ reply' = ValueAt(client[c].index)
    /\ client' = [client EXCEPT ![c] = NoCall]
    /\ UNCHANGED <<indexTable, contentVars, defrag>>

-----------------------------------------------------------------------------
\* The clients in a call of this kind whose index points into the file f.
PointingInto(f, op) ==
    {c \in Clients : client[c] # NoCall /\ client[c].op = op /\ client[c].index.file = f}

\* DefragContent opens the file f: it is large enough, and old enough (which
\* keeps away the Sets that are still running, if they are not too slow).
DefragBegin(f) ==
    /\ defrag.pc = "idle"
    /\ f \in linked
    /\ Len(content[f]) >= MaxSize
    /\ PointingInto(f, "set") # {} => "slowSet" \in Races
    /\ defrag' = [IdleDefrag EXCEPT !.pc = "scan", !.file = f, !.offset = 1]
    /\ UNCHANGED <<indexTable, contentVars, client, reply>>

Scanned == content[defrag.file][defrag.offset]

Here == [file |-> defrag.file, offset |-> defrag.offset]

\* SequentialRead finds the end of the file: there is nothing at the offset, a
\* head alone, or no head, of whose bytes the lengths lead beyond the end.  (If
\* they do not, the same offset is read again and again, and no step follows.)
AtEnd == ~ Filled(Here)

\* A wrong DefragScan for ImplementsKVStore: rebuildIndex does not compare the
\* record with the latest index.
DefragScanUnchecked ==
    /\ defrag.pc = "scan"
    /\ ~AtEnd
    /\ defrag' = IF indexTable[Scanned.key] # NoIndex
                 THEN [defrag EXCEPT !.pc = "setContent"]
                 ELSE [defrag EXCEPT !.offset = @ + 2]
    /\ UNCHANGED <<indexTable, contentVars, client, reply>>

\* SequentialRead, and rebuildIndex up to its call of Set: the record is
\* skipped unless the table still points to it.
DefragScan ==
    /\ defrag.pc = "scan"
    /\ ~AtEnd
    /\ defrag' = IF indexTable[Scanned.key] = Here
                 THEN [defrag EXCEPT !.pc = "setContent"]
                 ELSE [defrag EXCEPT !.offset = @ + 2]
    /\ UNCHANGED <<indexTable, contentVars, client, reply>>

\* rebuildIndex reads the content and calls Set: the content half.
DefragSetContent ==
    /\ defrag.pc = "setContent"
    /\ \E p \in Positions :
           /\ WriteContent(Scanned.key, ValueAt(Here), p)
           /\ defrag' = [defrag EXCEPT !.pc = "setIndex", !.index = p]
    /\ UNCHANGED <<indexTable, client, reply>>

\* The error of that Set is dropped and the scan goes on.
DefragSetFails ==
    /\ defrag.pc = "setContent"
    /\ WriteContentShort(Scanned.key)
    /\ defrag' = [defrag EXCEPT !.pc = "scan", !.offset = @ + 2]
    /\ UNCHANGED <<indexTable, client, reply>>

\* rebuildIndex calls Set: the index half.
DefragSetIndex ==
    /\ defrag.pc = "setIndex"
    /\ PutIndex(Scanned.key, defrag.index)
    /\ defrag' = [defrag EXCEPT !.pc = "scan", !.offset = @ + 2, !.index = NoIndex]
    /\ UNCHANGED <<contentVars, client, reply>>

\* A wrong DefragRemove for Resolves: the file goes at the first record that
\* needs no move.
DefragRemoveEarly ==
    /\ defrag.pc = "scan"
    /\ linked' = linked \ {defrag.file}
    /\ defrag' = IdleDefrag
    /\ UNCHANGED <<indexTable, content, created, writer, writerSize, client, reply>>

\* The end of the file: it is closed and removed.
DefragRemove ==
    /\ defrag.pc = "scan"
    /\ AtEnd
    /\ PointingInto(defrag.file, "get") # {} => "read" \in Races
    /\ linked' = linked \ {defrag.file}
    /\ defrag' = IdleDefrag
    /\ UNCHANGED <<indexTable, content, created, writer, writerSize, client, reply>>

DefragContent ==
    \/ \E f \in ContentFiles : DefragBegin(f)
    \/ DefragScan
    \/ DefragSetContent
    \/ DefragSetFails
    \/ DefragSetIndex
    \/ DefragRemove

-----------------------------------------------------------------------------
\* A wrong Restart for OneWritableFile: Initiate does not take up the file it
\* was writing to.
RestartWithNewFile ==
    /\ writer' = NoFile
    /\ writerSize' = 0
    /\ client' = [c \in Clients |-> NoCall]
    /\ reply' = Absent
    /\ defrag' = IdleDefrag
    /\ UNCHANGED <<indexTable, content, linked, created>>

\* The process stops and Initiate runs in a new one: a file that is not full
\* becomes the content file, its size is read from the file; the index is
\* loaded again.
Restart ==
    /\ LET open == {f \in linked : MaxSize > 0 => Len(content[f]) < MaxSize} IN
       IF open = {}
       THEN writer' = NoFile /\ writerSize' = 0
       ELSE \E f \in open : writer' = f /\ writerSize' = Len(content[f])
    /\ client' = [c \in Clients |-> NoCall]
    /\ reply' = Absent
    /\ defrag' = IdleDefrag
    /\ UNCHANGED <<indexTable, content, linked, created>>

Next ==
    \/ \E c \in Clients :
           \/ SetIndex(c)
           \/ GetContent(c)
           \/ \E k \in Keys : Del(c, k) \/ GetMissing(c, k) \/ GetIndex(c, k) \/ SetFails(c, k)
           \/ \E k \in Keys, v \in Values : SetContent(c, k, v)
    \/ DefragContent
    \/ Restart

Spec == Init /\ [][Next]_vars

-----------------------------------------------------------------------------
\* "From the key one gets the position of the value, and from it the value":
\* the index of every key leads to a complete record of that key, in a file
\* that exists.
Resolves ==
    \A k \in Keys : indexTable[k] # NoIndex =>
        LET p == indexTable[k]
        IN  /\ p.file \in linked
            /\ Filled(p)
            /\ content[p.file][p.offset].key = k
            /\ IsBody(p.file, p.offset + 1)

\* "At any moment only one file can be written": at most one content file is
\* below its limit, and it is the one the writer has open.
OneWritableFile ==
    \A f \in linked : MaxSize > 0 /\ Len(content[f]) < MaxSize => writer = f

\* A Get answers with what the index it looked up led to at that moment,
\* whatever Set, Del, DefragContent and failing writes do before it opens the
\* file; it can only find the file gone.  (After a failed write that may be a
\* mixed value, but never one value first and another one later.)
GetIsAtomic ==
    \A c \in Clients : client[c] # NoCall /\ client[c].op = "get" =>
        ValueAt(client[c].index) \in {client[c].value, Broken}

\* DefragContent moves records; it never changes what a key holds.
DefragKeepsValues ==
    [][DefragContent => \A k \in Keys : Stored(k)' = Stored(k)]_vars

\* The block store keeps the promise of KVStore.
KV == INSTANCE KVStore WITH
          kv <- [k \in Keys |-> Stored(k)],
          call <- [c \in Clients |->
                      IF client[c] = NoCall THEN NoCall
                      ELSE [op |-> client[c].op, key |-> client[c].key,
                            value |-> client[c].value]]

ImplementsKVStore == KV!KVSpec
=============================================================================
