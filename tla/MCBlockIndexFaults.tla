------------------------- MODULE MCBlockIndexFaults -------------------------
(***************************************************************************)
(* The index of the block store when the file system fails, for TLC.  A    *)
(* history variable remembers every index each key has ever had, to say    *)
(* what a restart may bring back; a counter bounds the writes.             *)
(***************************************************************************)
EXTENDS BlockIndex, TLC

CONSTANT MaxWrites  \* bound: calls of writeIndex and Del

VARIABLES history, writes

faultVars == <<indexVars, history, writes>>

FaultSymmetry == Permutations(Keys) \cup Permutations(Positions)

FaultInit ==
    /\ IndexInit
    /\ history = [k \in Keys |-> {NoIndex}]
    /\ writes = 0

FaultNext ==
    /\ \/ /\ writes < MaxWrites
          /\ writes' = writes + 1
          /\ \E k \in Keys : DelIndex(k) \/ \E p \in Positions : WriteIndex(k, p)
       \/ /\ DumpIndex \/ RestartIndex
          /\ UNCHANGED writes
    /\ history' = [k \in Keys |-> history[k] \cup {indexTable'[k]}]

FaultSpec == FaultInit /\ [][FaultNext]_faultVars

\* Whatever fails while dumpIndex runs, a restart gives each key an index that
\* the key once had: it may bring an old state back, but loadIndex never makes
\* one up.
RestoredWasCurrent ==
    [][RestartIndex => \A k \in Keys : indexTable'[k] \in history[k]]_faultVars
=============================================================================
