-------------------------------- MODULE Flow --------------------------------
(* Flows as data (flow/, moa/), the futures an actor composes (core/actor.py,  *)
(* core/composable_future.py), and what each may answer, timing left out.      *)
(* A value is the sequence of what was done to get it.                         *)
EXTENDS Naturals, Sequences, FiniteSets, SequencesExt

CONSTANT Agents    \* by name: what it says, whether it starts, may time out

Value(v) == [is |-> "value", v |-> v]
Error(v) == [is |-> "error", v |-> v]
Cancelled == [is |-> "cancelled", v |-> <<>>]

(* Constructors.                                                               *)

agent(id)  == [op |-> "agent", id |-> id]
pure(f)    == [op |-> "pure", f |-> f]
zip_all(s) == [op |-> "zip", kids |-> s]
race(s)    == [op |-> "race", kids |-> s]
loop(b, n) == [op |-> "loop", src |-> b, max |-> n]
loop_with_state(b, n) == [op |-> "loop_with_state", src |-> b, max |-> n]

map(s, f)             == [op |-> "map", src |-> s, f |-> f]
flat_map(s, n)        == [op |-> "flat_map", src |-> s, next |-> n]
zip(l, r)             == zip_all(<<l, r>>)
branch(s, cases)      == [op |-> "branch", src |-> s, cases |-> cases]
branch_on(s, yes, no) == [op |-> "branch_on", src |-> s, next |-> yes, other |-> no]
recover(s, f)         == [op |-> "recover", src |-> s, f |-> f]
recover_with(s, n)    == [op |-> "recover_with", src |-> s, next |-> n]
fallback_to(s, n)     == [op |-> "fallback_to", src |-> s, next |-> n]
divert_to(s, n)       == [op |-> "divert_to", src |-> s, next |-> n]
and_then(s, f)        == [op |-> "and_then", src |-> s, f |-> f]
filter(s)             == [op |-> "filter", src |-> s]

at_least(n, s)            == [op |-> "at_least", n |-> n, kids |-> s]
moa_layer(ps, a, n)       == [op |-> "moa_layer", kids |-> ps, aggregator |-> a, n |-> n]
moa_tree(layers)          == [op |-> "moa_tree", layers |-> layers]

\* An actor's own: an ephemeral child, several at once, and the methods of the
\* future each returns.
ctx_ask(id)      == [op |-> "ask", id |-> id]
ctx_sequence(s)  == zip_all(s)
ctx_race(s)      == [op |-> "first", kids |-> s]
ctx_zip(a, b)    == map(ctx_sequence(<<a, b>>), "pair")
future(fn, s, f, g)   == [op |-> "future", fn |-> fn, src |-> s, f |-> f, g |-> g]
future_with(fn, s, n) == [op |-> "future", fn |-> fn, src |-> s, next |-> n]

(* User functions and predicates, by name.                                     *)

Says(v) == IF v = <<>> THEN "no" ELSE Last(v)
Yes(v)  == Says(v) = "yes"

\* _wrap_err raises a MemoryError again; _extract_directive keeps the directive
\* of a LayerOutput, which an "odd" answer is here; _inject_directive adds it.
Apply(f, v) ==
    CASE f = "raise"                         -> Error(Append(v, "raise"))
      [] f = "wrap_err" /\ Says(v) = "memory" -> Error(v)
      [] f = "inject"                        -> Value(IF Says(v) = "directive" THEN Append(v, f)
                                                      ELSE v)
      [] f = "extract"                       -> Value(IF Says(v) = "odd"
                                                      THEN Append(v, "directive") ELSE v)
      [] f = "unwrap"                        -> Value(IF Says(v) = "directive" THEN Front(v)
                                                      ELSE v)
      [] OTHER                               -> Value(Append(v, f))

Part(v, i) == Append(v, <<"1", "2", "3", "4">>[i])   \* the i-th of the inputs v holds
Tuple(s)   == <<"(">> \o FlattenSeq(s) \o <<")">>

(* at_least and the moa patterns stand for other flows.                        *)

Ok(v) == Len(SelectSeq(v, LAMBDA x: x = "wrap_ok"))

EnoughAny(n, v) == Ok(v) > 0   \* a mutant
Enough(n, v) == Ok(v) >= n

\* QuorumResult, or the RuntimeError.
Split(v) == [i \in 1..Len(v) |-> CASE v[i] = "wrap_ok"  -> "succeeded"
                                   [] v[i] = "wrap_err" -> "failed"
                                   [] OTHER             -> v[i]]

Validate(n, v) == IF Enough(n, v) THEN Value(Split(v)) ELSE Error(Append(Split(v), "quorum"))

Wrapped(s) == [i \in 1..Len(s) |-> recover(map(s[i], "wrap_ok"), "wrap_err")]

validated(s, n) == [op |-> "validate", src |-> s, n |-> n]

ExpandQuorum(flow) ==
    LET w == Wrapped(flow.kids)
    IN validated(IF Len(w) = 1 THEN map(w[1], "one")
                 ELSE flat_map(pure("copies"), zip_all(w)), flow.n)

ExpandLayer(flow) ==
    map(flat_map(flat_map(pure("inject"), at_least(flow.n, flow.kids)),
                 flow.aggregator), "extract")

ExpandTree(flow) ==
    map(FoldLeft(flat_map, pure("input"), flow.layers), "unwrap")

Derived == {"at_least", "moa_layer", "moa_tree"}

Expand(flow) == CASE flow.op = "at_least"  -> ExpandQuorum(flow)
                  [] flow.op = "moa_layer" -> ExpandLayer(flow)
                  [] flow.op = "moa_tree"  -> ExpandTree(flow)

Parallel == {"zip", "race", "first"}

Subs(flow) ==
    LET at(k) == IF k \in DOMAIN flow THEN {flow[k]} ELSE {}
    IN IF flow.op \in Derived THEN {Expand(flow)}
       ELSE at("src") \cup at("next") \cup at("other")
            \cup (IF "kids" \in DOMAIN flow THEN ToSet(flow.kids) ELSE {})
            \cup (IF "cases" \in DOMAIN flow
                  THEN {flow.cases[c] : c \in DOMAIN flow.cases} ELSE {})

RECURSIVE Nodes(_)
Nodes(flow) == {flow} \cup UNION {Nodes(s) : s \in Subs(flow)}

(* What an agent may answer.                                                   *)

Answer(id, v, s) == IF s \in {"raises", "memory"} THEN Error(v \o <<id, s>>)
                    ELSE Value(v \o <<id, s>>)

Answers(id, v) == {Answer(id, v, s) : s \in Agents[id].says}
Late(id)       == IF Agents[id].late THEN {Error(<<id, "timeout">>)} ELSE {}
Unstarted(id)  == IF Agents[id].starts THEN {} ELSE {Error(<<id, "on_started">>)}
=============================================================================
