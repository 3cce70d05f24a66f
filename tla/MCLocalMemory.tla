--------------------------- MODULE MCLocalMemory ---------------------------
(* An instance of LocalMemory for TLC: token estimates. *)
EXTENDS LocalMemory

OneEach == [t \in Turn |-> 1]
=============================================================================
