-------------------------- MODULE MCMemoryManager --------------------------
(* Instances of MemoryManager for TLC: token estimates. *)
EXTENDS MemoryManager

OneEach == [t \in Turn |-> 1]              \* every turn is as long as the others

Alternating == [t \in Turn |-> 1 + (t % 2)]  \* questions and longer answers
=============================================================================
