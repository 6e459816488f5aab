----------------------------- MODULE MCFlowRun ------------------------------
EXTENDS FlowRun

says(s, starts, late) == [says |-> s, starts |-> starts, late |-> late]

MCAgents == "a" :> says({"yes", "no"}, TRUE, FALSE) @@ "b" :> says({"yes", "raises"}, TRUE, FALSE)
            @@ "c" :> says({"no", "odd", "yes"}, TRUE, TRUE) @@ "m" :> says({"yes", "memory"}, TRUE, FALSE)
            @@ "n" :> says({"yes"}, FALSE, FALSE) @@ "h" :> says({}, TRUE, TRUE)

A == agent("a")
B == agent("b")
C == agent("c")
M == agent("m")
N == agent("n")
H == ctx_ask("h")
D == ctx_ask("b")

layer(ps, n) == moa_layer(ps, C, n)

Chains ==
    {flat_map(map(A, "f"), B), branch(C, [yes |-> A, odd |-> pure("odd")]), branch_on(A, B, N),
     recover(B, "handled"), recover_with(N, A), fallback_to(flat_map(A, B), C),
     divert_to(A, B), and_then(A, "log"), and_then(A, "raise"), filter(C),
     flat_map(pure("f"), pure("raise")), loop(C, 3), loop_with_state(C, 2)}

Parallels ==
    {zip(A, B), zip(flat_map(A, B), C), recover(zip_all(<<A, B, N>>), "handled"),
     race(<<A, B>>), race(<<flat_map(A, B), C, N>>), fallback_to(race(<<B, N>>), A),
     zip(zip(A, B), N), race(<<zip(A, B), B>>), zip(race(<<A, B>>), B),
     divert_to(zip(A, A), race(<<A, B>>))}

Quorums ==
    {at_least(1, <<B>>), at_least(2, <<A, B, M>>), at_least(1, <<B, N>>),
     moa_tree(<<layer(<<B, N>>, 1), layer(<<B>>, 1)>>), moa_tree(<<layer(<<A, B>>, 2)>>)}

Actors ==
    {ctx_sequence(<<D, H>>), ctx_race(<<D, H>>), ctx_race(<<D, D, H>>), ctx_zip(D, H),
     future_with("recover_with", D, ctx_ask("a")), future_with("fallback_to", D, H),
     future_with("flat_map", D, D), future("recover", D, "handled", ""),
     future("transform", D, "raise", "handled"), future("on_complete", D, "log", "raise"),
     future("and_then", ctx_race(<<D, D>>), "raise", ""),
     future("map", D, "f", "")}

MCPrograms == Chains \cup Parallels \cup Quorums \cup Actors
=============================================================================
