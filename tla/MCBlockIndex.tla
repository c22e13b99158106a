---------------------------- MODULE MCBlockIndex ----------------------------
(***************************************************************************)
(* The index of the block store for TLC.  Keys are interchangeable, and so *)
(* are positions.                                                          *)
(***************************************************************************)
EXTENDS BlockIndex, TLC

IndexSymmetry == Permutations(Keys) \cup Permutations(Positions)
=============================================================================
