-------------------------- MODULE MCStreamPipeline --------------------------
(* An instance of StreamPipeline for TLC: every operator alone, and chains of   *)
(* two in which one may raise, stop early, hold items back or time out.         *)
EXTENDS StreamPipeline

Plain(names) == {[is |-> s] : s \in names}

MCSimple == Plain({"map", "map_async", "and_then", "flat_map", "concat", "prepend", "zip_with",
                   "scan", "take_while", "filter", "collect", "map_concat", "enumerate",
                   "intersperse", "distinct", "recover", "recover_with", "map_error", "throttle",
                   "keep_alive", "idle_timeout", "completion_timeout", "watch_termination"})

MCSized == {[is |-> s, n |-> k] : s \in {"take", "drop", "grouped", "grouped_within", "interleave"},
                                  k \in {1, 2}}
           \cup {[is |-> "sliding", n |-> 2, step |-> k] : k \in {1, 2}}

MCInner == MCSimple \cup {o \in MCSized : o.n = 1 \/ o.is \in {"sliding", "grouped"}}

MCOuter == Plain({"map", "recover", "keep_alive", "enumerate", "recover_with", "zip_with",
                  "watch_termination"})
           \cup {[is |-> "take", n |-> 1], [is |-> "drop", n |-> 1],
                 [is |-> "grouped_within", n |-> 2]}

MCChains == {<<[is |-> "map"], [is |-> "filter"], [is |-> "take", n |-> 2]>>} \cup {<<o>> : o \in MCSimple \cup MCSized}
            \cup MCInner \X MCOuter

MCItems == {<<>>, <<<<1>>>>, <<<<2>>, <<1>>>>, <<<<1>>, <<1>>, <<2>>>>, <<<<1>>, <<3>>, <<1>>>>,
            <<<<1>>, <<2>>, <<4>>, <<1>>>>}

MCSources == {Trace(s, e) : s \in MCItems, e \in {"end", "boom"}}

MCOthers == {Trace(<<<<5>>, <<6>>>>, "end"), Trace(<<<<5>>>>, "crash")}
=============================================================================
