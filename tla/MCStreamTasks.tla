--------------------------- MODULE MCStreamTasks ---------------------------
(* An instance of StreamTasks for TLC: five tasks, so that map_async may run    *)
(* two functions more than its parallelism and flat_map_merge has to wait.      *)
EXTENDS StreamTasks

MCTasks == 1..5

\* Lengths and ends of the first tasks, padded with sources that are never asked.
MCPad(s, d) == [t \in MCTasks |-> IF t \in DOMAIN s THEN s[t] ELSE d]

MCLoad(k, o, lens, fins) ==
    [kind |-> k, overflow |-> o, len |-> MCPad(lens, 0), fin |-> MCPad(fins, "end")]

MCEnds == {"end", "error"}

MCLoads ==
    {MCLoad("merge", "drop_new", <<m, n>>, <<e, f>>) : m, n \in 0..2, e, f \in MCEnds}
    \cup {MCLoad("buffer", "drop_new", <<n>>, <<e>>) : n \in 0..4, e \in MCEnds}
    \cup {MCLoad("map_async", "drop_new", <<n>>, <<e, "end", f, g, "end">>) :
             n \in {0, 2, 4}, e \in MCEnds, f, g \in {"end", "error", "timeout"}}
    \cup {MCLoad("flat_map_merge", "drop_new", <<n, 1, l, 1>>, <<e, f, "end", "end">>) :
             n \in {0, 2, 3}, l \in {0, 2}, e, f \in MCEnds}
    \cup {MCLoad("channel", o, l, <<"end">>) :
             o \in {"drop_new", "drop_head"}, l \in {<<2, 1, 1>>, <<2, 2>>}}
=============================================================================
