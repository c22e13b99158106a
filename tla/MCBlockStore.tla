---------------------------- MODULE MCBlockStore ----------------------------
(***************************************************************************)
(* The block store for TLC.  Keys, values and clients are interchangeable. *)
(***************************************************************************)
EXTENDS BlockStore, TLC

StoreSymmetry ==
    Permutations(Keys) \cup Permutations(Values) \cup Permutations(Clients)
=============================================================================
