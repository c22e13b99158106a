---------------------------- MODULE DurableIndex ----------------------------
(***************************************************************************)
(* What the index of the block store promises the rest of the store: a     *)
(* table from keys to content positions that changes only by writeIndex    *)
(* and Del, one entry at a time, and that a restart does not change.       *)
(* BlockIndex implements it with a file, a buffer and dumpIndex.           *)
(***************************************************************************)
CONSTANTS Keys, Positions, NoIndex

VARIABLE indexTable

DurableInit == indexTable = [k \in Keys |-> NoIndex]

\* writeIndex, and with NoIndex Del.
PutIndex(k, p) == indexTable' = [indexTable EXCEPT ![k] = p]

DurableNext == \E k \in Keys, p \in Positions \cup {NoIndex} : PutIndex(k, p)

DurableSpec == DurableInit /\ [][DurableNext]_indexTable
=============================================================================
