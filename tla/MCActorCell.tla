---------------------------- MODULE MCActorCell ----------------------------
(* Instances of ActorCell for TLC. *)
EXTENDS ActorCell

\* NEVER, AfterMessage for the payload of the asks, ONE_TIME, AfterIdle.
AllPolicies ==
    {NoPolicy, [after |-> Asks, idle |-> FALSE], [after |-> Messages, idle |-> FALSE],
     [after |-> {}, idle |-> TRUE]}

Symmetric == Permutations(Tells) \cup Permutations(Asks)
=============================================================================
