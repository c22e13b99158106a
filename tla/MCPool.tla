------------------------------- MODULE MCPool -------------------------------
(***************************************************************************)
(* The connection pool for TLC: three threads and two places.              *)
(***************************************************************************)
EXTENDS Pool
=============================================================================
