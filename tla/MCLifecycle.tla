----------------------------- MODULE MCLifecycle -----------------------------
(***************************************************************************)
(* Starting, stopping and starting again: the engine with the registry of  *)
(* MCEngine, and the LRU file store with one client and place for two of   *)
(* three keys.  They share no state; a behaviour is one of one of them.    *)
(***************************************************************************)
EXTENDS MCEngine, LRUFile

VARIABLE part

allVars == <<part, vars, lruVars>>

EnginePart == part = "engine" /\ UNCHANGED <<part, lruVars>>
LRUPart == part = "lru" /\ UNCHANGED <<part, vars>>

LifecycleInit == part \in {"engine", "lru"} /\ Init /\ LRUInit

LifecycleNext ==
    \/ EnginePart /\ Next
    \/ LRUPart /\ LRUNext

\* The engine as in its FairSpec.  Initiate of the LRU runs to its end, nothing in it
\* waits.
LifecycleSpec ==
    /\ LifecycleInit
    /\ [][LifecycleNext]_allVars
    /\ WF_allVars(EnginePart /\ Step)
    /\ WF_allVars(EnginePart /\ Startup)
    /\ WF_allVars(LRUPart /\ (RangeRecord \/ RangeEnd))
=============================================================================
