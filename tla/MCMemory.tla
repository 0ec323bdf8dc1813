-------------------------------- MODULE MCMemory --------------------------------
(* The builder and the stores share no variable, so their interleavings add *)
(* nothing: TLC explores the builder while the stores are as at the start,  *)
(* and the stores while the builder is new.                                 *)
EXTENDS Memory

Untouched == /\ version = 1 /\ clock = 0 /\ stored = {} /\ cache = 0
             /\ \A t \in Tasks : pc[t] = "idle"

Apart == usual = 0 \/ Untouched
=============================================================================
