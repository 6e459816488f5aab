---------------------------- MODULE FlowMeaning -----------------------------
(* What a flow may answer, by recursion on its shape and with no notion of      *)
(* tasks, actors or time: what FlowRun is held against.                         *)
EXTENDS Flow

IsValue(o) == o.is = "value"

\* One outcome of each of several.
OneOfEach(D) == {c \in [DOMAIN D -> UNION {D[i] : i \in DOMAIN D}] :
                  \A i \in DOMAIN D : c[i] \in D[i]}

Successes(c) == {i \in DOMAIN c : IsValue(c[i])}

\* Everything succeeds, or any one failure is the failure of all.
All(c) == IF Successes(c) = DOMAIN c THEN {Value(Tuple([i \in DOMAIN c |-> c[i].v]))}
          ELSE {c[i] : i \in DOMAIN c \ Successes(c)}

\* A success when there is one.
Some(c) == IF Successes(c) = {} THEN {c[i] : i \in DOMAIN c}
           ELSE {c[i] : i \in Successes(c)}

\* Every domain failure is kept beside the successes; n of these are needed, and
\* a system failure is the failure of all.
Quorum(n, c) ==
    LET system == {i \in DOMAIN c : ~IsValue(c[i]) /\ Says(c[i].v) = "memory"}
        part(i) == Append(c[i].v, IF IsValue(c[i]) THEN "succeeded" ELSE "failed")
        parts   == IF Len(c) = 1 THEN Append(part(1), "one")
                   ELSE Tuple([i \in DOMAIN c |-> part(i)])
    IN IF system # {} THEN {c[i] : i \in system}
       ELSE IF Cardinality(Successes(c)) >= n THEN {Value(parts)}
       ELSE {Error(Append(parts, "quorum"))}

RECURSIVE Means(_, _), MeansLoop(_, _, _)

OfEach(s, In(_)) == [i \in 1..Len(s) |-> Means(s[i], In(i))]

MeansAfter(flow, v, o) ==
    CASE flow.op \in {"flat_map", "recover_with"} -> Means(flow.next, o.v)
      [] flow.op = "fallback_to" -> Means(flow.next, v)
      [] flow.op = "branch_on"   -> Means(IF Yes(o.v) THEN flow.next ELSE flow.other, o.v)
      [] flow.op = "branch"      -> IF Says(o.v) \in DOMAIN flow.cases
                                    THEN Means(flow.cases[Says(o.v)], o.v)
                                    ELSE {Error(Append(o.v, "KeyError"))}
      [] flow.op \in {"map", "recover"} -> {Apply(flow.f, o.v)}
      [] flow.op = "and_then"    -> {IF flow.f = "raise" THEN Apply("raise", o.v) ELSE o}
      [] flow.op = "filter"      -> {IF Yes(o.v) THEN o ELSE Error(Append(o.v, "filter"))}
      [] flow.op = "divert_to"   -> {o}

OnlyErrors == {"recover", "recover_with", "fallback_to"}

\* transform hands what its success function raises to its failure function.
MeansFuture(flow, o) ==
    LET then(k) == {Apply(flow[k], o.v)}
        tap(k)  == IF flow[k] = "raise" THEN then(k) ELSE {o}
        raises  == flow.fn = "transform" /\ IsValue(o) /\ flow.f = "raise"
    IN CASE raises -> {Apply(flow.g, r.v) : r \in then("f")}
         [] flow.fn \in {"map", "transform"} /\ IsValue(o) /\ ~raises  -> then("f")
         [] flow.fn = "recover" /\ ~IsValue(o)                         -> then("f")
         [] flow.fn = "transform" /\ ~IsValue(o)                       -> then("g")
         [] flow.fn \in {"and_then", "on_complete"} /\ IsValue(o)      -> tap("f")
         [] flow.fn = "on_complete" /\ ~IsValue(o)                     -> tap("g")
         [] flow.fn = "flat_map" /\ IsValue(o)                         -> Means(flow.next, o.v)
         [] flow.fn \in {"recover_with", "fallback_to"} /\ ~IsValue(o) -> Means(flow.next, o.v)
         [] OTHER                                                      -> {o}

Means(flow, v) ==
    CASE flow.op \in {"agent", "ask"} ->
             Unstarted(flow.id) \cup Late(flow.id)
             \cup (IF Agents[flow.id].starts THEN Answers(flow.id, v) ELSE {})
      [] flow.op = "pure" -> {Apply(flow.f, v)}
      [] flow.op = "zip"  -> UNION {All(c) : c \in OneOfEach(OfEach(flow.kids, LAMBDA i: Part(v, i)))}
      [] flow.op = "race" -> UNION {Means(k, v) : k \in ToSet(flow.kids)}
      [] flow.op = "first" -> UNION {Some(c) : c \in OneOfEach(OfEach(flow.kids, LAMBDA i: v))}
      [] flow.op = "at_least" ->
             LET w    == Append(v, "copies")
                 in(i) == IF Len(flow.kids) = 1 THEN v ELSE Part(w, i)
             IN UNION {Quorum(flow.n, c) : c \in OneOfEach(OfEach(flow.kids, in))}
      [] flow.op \in {"loop", "loop_with_state"} ->
             MeansLoop(flow, IF flow.op = "loop" THEN v ELSE Append(v, "init"), flow.max)
      [] flow.op \in {"moa_layer", "moa_tree"} -> Means(Expand(flow), v)
      [] flow.op = "future" -> UNION {MeansFuture(flow, o) : o \in Means(flow.src, v)}
      [] OTHER ->
             LET outs == Means(flow.src, v)
                 goes(o) == IsValue(o) # (flow.op \in OnlyErrors)
             IN UNION {IF goes(o) THEN MeansAfter(flow, v, o) ELSE {o} : o \in outs}

\* At most `left` more answers of the body, the last of which must be Done.
MeansLoop(flow, v, left) ==
    IF left = 0 THEN {Error(Append(v, "max_iter"))}
    ELSE UNION {IF ~IsValue(o) \/ Yes(o.v) THEN {o}
                ELSE IF Says(o.v) = "no" THEN MeansLoop(flow, o.v, left - 1)
                ELSE {Error(Append(o.v, "TypeError"))} : o \in Means(flow.src, v)}
=============================================================================
