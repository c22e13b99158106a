----------------------------- MODULE BlockIndex -----------------------------
(***************************************************************************)
(* The index of the block store (filesystem/block): the in-memory          *)
(* indexTable, the append-only file blockIndex that must reproduce it      *)
(* after a restart, and the periodic dumpIndex that compacts that file     *)
(* while Set and Del keep appending to it.                                 *)
(*                                                                         *)
(* What indexMutex protects is one step: the append to the file and the    *)
(* update of indexTable in writeIndex and Del; each of the two critical    *)
(* sections of dumpIndex.  What dumpIndex does between them, without the   *)
(* lock, is one step per file operation.                                   *)
(***************************************************************************)
EXTENDS Integers, Sequences, FiniteSets

CONSTANTS
    Keys,           \* the keys of the store
    Positions,      \* the content positions (filename, offset, length)
    NoIndex,        \* no index: NewDelIndex in a file, no entry in a table
    Faults,         \* which errors of the file system may happen
    MaxIndexRecords \* bound: records in the file being appended to, in the buffer

ASSUME NoIndexAssumption == NoIndex \notin Positions

\* "dump": loading the file, opening the temporary one or copying the buffer
\* fails.  "tempWrite": writing one entry to the temporary file fails.
\* "rename": os.Rename fails.
ASSUME FaultsAssumption == Faults \subseteq {"dump", "tempWrite", "rename"}

VARIABLES
    indexTable,  \* Block.indexTable
    file,        \* the records of the files blockIndex and blockIndexTemp
    handle,      \* the name of the file Block.indexWriter has open
    buffering,   \* has WriteAndBuffered been called on Block.indexWriter?
    buffer,      \* fileBufferWriteSeeker.buffer of Block.indexWriter
    dump         \* the local state of the dumpIndex goroutine

indexVars == <<indexTable, file, handle, buffering, buffer, dump>>

Index == Positions \cup {NoIndex}

Record == [key : Keys, index : Index]

FileNames == {"blockIndex", "blockIndexTemp"}

\* Replaying s leaves p as the index of k: p comes from the last record of k,
\* or there is no record of k and p is no index.
Latest(s, k, p) ==
    \/ /\ p = NoIndex
       /\ \A i \in DOMAIN s : s[i].key # k
    \/ \E i \in DOMAIN s : /\ s[i] = [key |-> k, index |-> p]
                           /\ \A j \in DOMAIN s : j > i => s[j].key # k

\* The table obtained by reading the records of s in order: a record sets the
\* index of its key, a deletion record removes it.
LoadIndexFromFile(s) ==
    [k \in Keys |-> CHOOSE p \in Index : Latest(s, k, p)]

IdleDump == [pc |-> "idle", table |-> [k \in Keys |-> NoIndex], todo |-> {}]

-----------------------------------------------------------------------------
\* NewFileBlockHandler, and Initiate on an empty directory.
IndexInit ==
    /\ indexTable = [k \in Keys |-> NoIndex]
    /\ file = [f \in FileNames |-> << >>]
    /\ handle = "blockIndex"
    /\ buffering = FALSE
    /\ buffer = << >>
    /\ dump = IdleDump

\* indexWriter.Write: the record goes to the open file, and to the buffer
\* once WriteAndBuffered has been called.
LogRecord(k, p) ==
    LET r == [key |-> k, index |-> p] IN
    /\ Len(file[handle]) < MaxIndexRecords /\ Len(buffer) < MaxIndexRecords
    /\ file' = [file EXCEPT ![handle] = Append(@, r)]
    /\ buffer' = IF buffering THEN Append(buffer, r) ELSE buffer

\* writeIndex.
WriteIndex(k, p) ==
    /\ LogRecord(k, p)
    /\ indexTable' = [indexTable EXCEPT ![k] = p]
    /\ UNCHANGED <<handle, buffering, dump>>

\* Del.  The deletion record is written whether or not the key exists.
DelIndex(k) == WriteIndex(k, NoIndex)

-----------------------------------------------------------------------------
\* dumpIndex, lines 118-120: start copying what is logged to the buffer.
DumpBegin ==
    /\ dump.pc = "idle"
    /\ buffering' = TRUE
    /\ dump' = [dump EXCEPT !.pc = "load"]
    /\ UNCHANGED <<indexTable, file, handle, buffer>>

\* LoadIndexFromFile, without the lock.  The file only grows meanwhile, so
\* reading it to its end is reading what it holds when the end is reached.
DumpLoad ==
    /\ dump.pc = "load"
    /\ dump' = [dump EXCEPT !.pc = "open",
                            !.table = LoadIndexFromFile(file["blockIndex"])]
    /\ UNCHANGED <<indexTable, file, handle, buffering, buffer>>

\* NewIndexWriter(blockIndexTemp, trunc).  When an earlier rename failed this
\* truncates the very file Block.indexWriter has open.
DumpOpen ==
    /\ dump.pc = "open"
    /\ file' = [file EXCEPT !["blockIndexTemp"] = << >>]
    /\ dump' = [dump EXCEPT !.pc = "write",
                            !.todo = {k \in Keys : dump.table[k] # NoIndex}]
    /\ UNCHANGED <<indexTable, handle, buffering, buffer>>

\* A wrong DumpWrite for RestoredWasCurrent: the entry is written with the
\* index of another key, a loop variable shared by the iterations.
DumpWriteOtherIndex(k) ==
    /\ dump.pc = "write"
    /\ k \in dump.todo
    /\ \E other \in Keys :
           file' = [file EXCEPT !["blockIndexTemp"] =
                        Append(@, [key |-> k, index |-> dump.table[other]])]
    /\ dump' = [dump EXCEPT !.todo = @ \ {k}]
    /\ UNCHANGED <<indexTable, handle, buffering, buffer>>

\* One iteration of the loop over the loaded table, in any order (a map); an
\* entry that cannot be written is skipped.
DumpWrite(k) ==
    /\ dump.pc = "write"
    /\ k \in dump.todo
    /\ \/ file' = [file EXCEPT !["blockIndexTemp"] =
                       Append(@, [key |-> k, index |-> dump.table[k]])]
       \/ "tempWrite" \in Faults /\ UNCHANGED file
    /\ dump' = [dump EXCEPT !.todo = @ \ {k}]
    /\ UNCHANGED <<indexTable, handle, buffering, buffer>>

\* A wrong DumpSwitch for Durable: the handle is switched before the buffer is
\* copied, so what was logged during the dump goes with the old file.
DumpSwitchWithoutBuffer ==
    /\ dump.pc = "write"
    /\ dump.todo = {}
    /\ file' = [file EXCEPT !["blockIndex"] = file["blockIndexTemp"],
                            !["blockIndexTemp"] = << >>]
    /\ buffering' = FALSE
    /\ buffer' = << >>
    /\ dump' = IdleDump
    /\ UNCHANGED <<indexTable, handle>>

\* The second critical section: copy the buffer behind the compacted entries,
\* close the old file, rename, switch to the new writer.  The error of
\* os.Rename is not looked at.
DumpSwitch ==
    /\ dump.pc = "write"
    /\ dump.todo = {}
    /\ LET merged == file["blockIndexTemp"] \o buffer IN
       \/ /\ file' = [file EXCEPT !["blockIndex"] = merged,
                                  !["blockIndexTemp"] = << >>]
          /\ handle' = "blockIndex"
       \/ /\ "rename" \in Faults
          /\ file' = [file EXCEPT !["blockIndexTemp"] = merged]
          /\ handle' = "blockIndexTemp"
    /\ buffering' = FALSE
    /\ buffer' = << >>
    /\ dump' = IdleDump
    /\ UNCHANGED indexTable

\* The early returns of dumpIndex.  The writer stays open and goes on copying
\* to its buffer.
DumpFail ==
    /\ "dump" \in Faults
    /\ \/ dump.pc \in {"load", "open"}
       \/ dump.pc = "write" /\ dump.todo = {}
    /\ dump' = IdleDump
    /\ UNCHANGED <<indexTable, file, handle, buffering, buffer>>

DumpIndex ==
    \/ DumpBegin
    \/ DumpLoad
    \/ DumpOpen
    \/ \E k \in Keys : DumpWrite(k)
    \/ DumpSwitch
    \/ DumpFail

\* A wrong RestartIndex for ImplementsDurableIndex: loadIndex is not called.
RestartIndexEmpty ==
    /\ indexTable' = [k \in Keys |-> NoIndex]
    /\ handle' = "blockIndex"
    /\ buffering' = FALSE
    /\ buffer' = << >>
    /\ dump' = IdleDump
    /\ UNCHANGED file

\* The process stops at any point and Initiate runs in a new one: blockIndex
\* is opened for appending and loadIndex fills the table from it.  A file
\* blockIndexTemp left behind stays where it is.
RestartIndex ==
    /\ indexTable' = LoadIndexFromFile(file["blockIndex"])
    /\ handle' = "blockIndex"
    /\ buffering' = FALSE
    /\ buffer' = << >>
    /\ dump' = IdleDump
    /\ UNCHANGED file

IndexNext ==
    \/ \E k \in Keys, p \in Positions : WriteIndex(k, p)
    \/ \E k \in Keys : DelIndex(k)
    \/ DumpIndex
    \/ RestartIndex

IndexSpec == IndexInit /\ [][IndexNext]_indexVars

-----------------------------------------------------------------------------
Tables == [Keys -> Index]

\* The types of the state of the index.
IndexTypeOK ==
    /\ indexTable \in Tables
    /\ file \in [FileNames -> Seq(Record)]
    /\ handle \in FileNames
    /\ buffering \in BOOLEAN
    /\ buffer \in Seq(Record)
    /\ dump \in [pc : {"idle", "load", "open", "write"},
                 table : Tables, todo : SUBSET Keys]

\* "The AOF is on": at every moment, also in the middle of a dump, replaying
\* the file blockIndex gives the table in memory, so no acknowledged Set or
\* Del depends on the next dump.
Durable == \A k \in Keys : Latest(file["blockIndex"], k, indexTable[k])

\* The inductive invariant behind Durable.  While a dump runs, a key is either
\* mentioned by the buffer, which then ends with its current index, or its
\* index has not changed since the file was loaded; the temporary file replays
\* to the part of the loaded table that has been written to it.
Mentions(s, k) == \E i \in DOMAIN s : s[i].key = k

IndexInv ==
    /\ IndexTypeOK
    /\ Durable
    /\ handle = "blockIndex"
    /\ ~buffering => buffer = << >> /\ dump.pc = "idle"
    /\ \A k \in Keys : Mentions(buffer, k) => Latest(buffer, k, indexTable[k])
    /\ dump.pc \in {"open", "write"} =>
           \A k \in Keys : Mentions(buffer, k) \/ dump.table[k] = indexTable[k]
    /\ dump.pc = "write" =>
           \A k \in Keys : Latest(file["blockIndexTemp"], k,
                                 IF k \in dump.todo THEN NoIndex ELSE dump.table[k])

\* A restart, at any point of a dump and of the operations racing it, brings
\* back exactly the table of the process that stopped.
RestartLosesNothing ==
    [][RestartIndex => indexTable' = indexTable]_indexVars

\* Seen from the rest of the store the index is a durable table: the steps of
\* dumpIndex and restarts do not show, writeIndex and Del change one entry.
D == INSTANCE DurableIndex

ImplementsDurableIndex == D!DurableSpec
=============================================================================
