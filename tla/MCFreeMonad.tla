---------------------------- MODULE MCFreeMonad ----------------------------
(* An instance of FreeMonad for TLC: one workflow of any shape up to two       *)
(* continuations, beside another that takes the cached interpreter.            *)
EXTENDS FreeMonad

MCValues == {"x", "y", "none"}

\* Answers that tell the operations and their arguments apart.
MCAnswers == [op \in [kind : {"spawn", "tell", "ask", "stop", "get_ref"}, arg : MCValues] |->
    IF (op.kind = "ask") = (op.arg = "x") THEN "y" ELSE "x"]

AskX == Suspend([kind |-> "ask", arg |-> "x"])

MCLeaves == {Pure("x"), AskX, Suspend([kind |-> "get_ref", arg |-> "x"])}

\* A workflow that goes on according to the value it gets.
Branch == [v \in MCValues |-> IF v = "y" THEN Pure(v) ELSE Suspend([kind |-> "spawn", arg |-> v])]

MCKonts == {Return, Do("ask"), Do("tell"), Do("get_ref"), Branch}

MCTerms ==
    MCLeaves \cup {FlatMap(t, f) : t \in MCLeaves, f \in MCKonts}
             \cup {FlatMap(FlatMap(t, f), g) : t \in MCLeaves, f \in MCKonts, g \in MCKonts}
             \cup {FlatMap(t, Both(f, g)) : t \in MCLeaves, f \in MCKonts, g \in MCKonts}

MCPrograms == [w \in {"A", "B"} |->
    IF w = "A" THEN MCTerms ELSE {AskX, FlatMap(AskX, Do("spawn"))}]
=============================================================================
