------------------------------ MODULE MCEngine ------------------------------
(***************************************************************************)
(* Small registries for TLC: Config, two components a1 and a2 of the same  *)
(* name, a component b that needs it, and a middleware.                    *)
(***************************************************************************)
EXTENDS Engine

CONSTANTS a1, a2, b, m, A, B, C

ConfigName == [canonical |-> C, capital |-> TRUE]

MCRaw ==
    [o \in Objects |->
        CASE o = Config -> ConfigName
          [] o = b -> [canonical |-> B, capital |-> TRUE]
          [] OTHER -> [canonical |-> A, capital |-> TRUE]]

\* The name of a2 starts with a small letter.
MCRawSmall == [MCRaw EXCEPT ![a2].capital = FALSE]

MCNeeds ==
    [t \in Targets |->
        CASE t = b -> {A, C}
          [] t = Callback -> {A}
          [] t = m -> {C}
          [] OTHER -> {}]
=============================================================================
