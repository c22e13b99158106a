----------------------------- MODULE MCLRUFile -----------------------------
(***************************************************************************)
(* LRUFileHandler with several clients, for TLC.  Keys and clients are     *)
(* interchangeable.                                                        *)
(***************************************************************************)
EXTENDS LRUFile, TLC

LRUSymmetry == Permutations(Keys) \cup Permutations(Clients)

Spec == LRUInit /\ [][LRUNext]_lruVars
=============================================================================
