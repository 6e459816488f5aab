------------------------- MODULE MCVirtualRegistry -------------------------
(* Instances of VirtualRegistry for TLC. *)
EXTENDS VirtualRegistry

\* Keys of two classes with one actor id share the root name.
OneName == [k \in Keys |-> CHOOSE n \in Names : TRUE]
=============================================================================
