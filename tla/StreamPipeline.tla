--------------------------- MODULE StreamPipeline ---------------------------
(* Chains of the generators of core/composable_stream.py between a source and   *)
(* a sink, pulled one item at a time. A timed operator cancels the __anext__ it *)
(* waits for, which finishes every generator below it.                          *)
EXTENDS StreamLaws

CONSTANTS Chains,    \* sequences of operators, the one next to the source first
          Sources,   \* traces of the source: of, from_iterable, unfold, ...
          Others,    \* traces of the second stream of zip_with, concat, ...
          Sinks      \* "list", "first", "last", "reduce", "count"

\* The operators; the number of items of take and drop, a batch, a window or a
\* turn, and the step of a window.
Operators ==
    [is : {"map", "map_async", "and_then", "flat_map", "concat", "prepend", "zip_with", "scan",
           "take_while", "filter", "collect", "map_concat", "enumerate", "intersperse", "distinct",
           "recover", "recover_with", "map_error", "throttle", "keep_alive", "idle_timeout",
           "completion_timeout", "watch_termination"}]
    \cup [is : {"take", "drop"}, n : Nat]
    \cup [is : {"grouped", "grouped_within", "interleave"}, n : Nat \ {0}]
    \cup [is : {"sliding"}, n : Nat \ {0}, step : Nat \ {0}]

\* A TimeoutError of a source would pass for one of with_timeout.
ASSUME Pipelines ==
    /\ \A c \in Chains : c \in Seq(Operators)
    /\ \A t \in Sources \cup Others : /\ t = Trace(t.items, t.fin) /\ t.items \in Seq(Seq(Nat))
                                     /\ t.fin \notin {"on", "pending", "running", "timeout"}
    /\ Sinks \subseteq {"list", "first", "last", "reduce", "count"}

VARIABLES
    chain, source, other, sink,
    pos,      \* the items the source has yielded; past its end it has finished
    stage,    \* of each generator: mem, its variables; out, what it has yet to
              \* yield; st, "on" or how it ends
    at,       \* who runs: 0 the source, k the k-th generator, then the sink
    seen,     \* the items the sink has consumed
    acc,      \* its accumulator
    verdict,  \* "running", or how the sink ended
    calls,    \* calls of the callbacks of watch_termination: by which generator, of what
    late,     \* completion_timeout's deadline has passed
    fired     \* a with_timeout has fired

vars == <<chain, source, other, sink, pos, stage, at, seen, acc, verdict, calls, late, fired>>

Top == Len(chain) + 1

(* The generators: what one does with an item of its upstream.                 *)

Does(out, mem, st) == [out |-> out, mem |-> mem, st |-> st]
Emit(out, mem)     == Does(out, mem, "on")
Raise(e)           == Does(<<>>, <<>>, e)

map(o, m, x)        == Emit(<<F(x)>>, m)
flat_map(o, m, x)   == IF P(x) THEN Emit(<<x, F(x)>>, m) ELSE Raise("sub")
zip_with(o, m, x)   ==
    IF m < Len(other.items) THEN Emit(<<x \o other.items[m + 1]>>, m + 1)
    ELSE Does(<<>>, m, other.fin)
scan(o, m, x)       == Emit(<<m \o x>>, m \o x)
take_while(o, m, x) == IF P(x) THEN Emit(<<x>>, m) ELSE Does(<<>>, m, "end")
filter(o, m, x)     == Emit(IF P(x) THEN <<x>> ELSE <<>>, m)
collect(o, m, x)    == Emit(IF P(x) THEN <<F(x)>> ELSE <<>>, m)
map_concat(o, m, x) == Emit(Expand(x), m)
enumerate(o, m, x)  == Emit(<<<<m>> \o x>>, m + 1)
takeYieldsFirst(o, m, x) == \* a mutant: the count is looked at after the item
    IF m + 1 >= o.n THEN Does(<<x>>, m, "end") ELSE Emit(<<x>>, m + 1)
take(o, m, x)       == IF m >= o.n THEN Does(<<>>, m, "end") ELSE Emit(<<x>>, m + 1)
drop(o, m, x)       == IF m < o.n THEN Emit(<<>>, m + 1) ELSE Emit(<<x>>, m)
groupedLate(o, m, x) == \* a mutant: a batch is yielded when the next item arrives
    IF Len(m) = o.n THEN Emit(<<Batch(m)>>, <<x>>) ELSE Emit(<<>>, Append(m, x))
grouped(o, m, x)    ==
    IF Len(m) + 1 = o.n THEN Emit(<<Batch(Append(m, x))>>, <<>>) ELSE Emit(<<>>, Append(m, x))
sliding(o, m, x)    ==
    LET w == Append(m, x)
    IN  IF Len(w) = o.n THEN Emit(<<Batch(w)>>, SubSeq(w, o.step + 1, Len(w))) ELSE Emit(<<>>, w)
intersperse(o, m, x) == Emit(IF m = 0 THEN <<x>> ELSE <<Element, x>>, 1)
distinct(o, m, x)   ==
    IF Head(x) \in m THEN Emit(<<>>, m) ELSE Emit(<<x>>, m \cup {Head(x)})
\* segment items of this stream, then segment of the other; m is how many of each.
interleave(o, m, x) ==
    LET short == m[2] + o.n > Len(other.items)
        upto == IF short THEN Len(other.items) ELSE m[2] + o.n
        theirs == SubSeq(other.items, m[2] + 1, upto)
    IN  IF m[1] + 1 < o.n THEN Emit(<<x>>, <<m[1] + 1, m[2]>>)
        ELSE Does(<<x>> \o theirs, <<0, upto>>, IF short /\ other.fin # "end" THEN other.fin ELSE "on")
completion_timeout(o, m, x) == IF late THEN Raise("timeout") ELSE Emit(<<x>>, m)

Calls == {"map", "map_async", "and_then", "flat_map", "scan", "take_while", "filter",
          "collect", "map_concat", "distinct"}   \* they call back on every item

OnItem(o, m, x) ==
    IF o.is \in Calls /\ Bad(x) THEN Raise("bad") ELSE
    CASE o.is \in {"map", "map_async"}      -> map(o, m, x)
      [] o.is = "flat_map"                  -> flat_map(o, m, x)
      [] o.is = "zip_with"                  -> zip_with(o, m, x)
      [] o.is = "scan"                      -> scan(o, m, x)
      [] o.is = "take_while"                -> take_while(o, m, x)
      [] o.is = "filter"                    -> filter(o, m, x)
      [] o.is = "collect"                   -> collect(o, m, x)
      [] o.is = "map_concat"                -> map_concat(o, m, x)
      [] o.is = "enumerate"                 -> enumerate(o, m, x)
      [] o.is = "take"                      -> take(o, m, x)
      [] o.is = "drop"                      -> drop(o, m, x)
      [] o.is \in {"grouped", "grouped_within"} -> grouped(o, m, x)
      [] o.is = "sliding"                   -> sliding(o, m, x)
      [] o.is = "intersperse"               -> intersperse(o, m, x)
      [] o.is = "distinct"                  -> distinct(o, m, x)
      [] o.is = "interleave"                -> interleave(o, m, x)
      [] o.is = "completion_timeout"        -> completion_timeout(o, m, x)
      [] OTHER                              -> Emit(<<x>>, m)

\* ... when its upstream ends,
OnEnd(o, m) ==
    CASE o.is \in {"grouped", "grouped_within"} /\ m # <<>> -> Does(<<Batch(m)>>, <<>>, "end")
      [] o.is = "concat"     -> Does(other.items, m, other.fin)
      [] o.is = "interleave" -> Does(SubSeq(other.items, m[2] + 1, Len(other.items)), m, other.fin)
      [] OTHER               -> Does(<<>>, m, "end")

\* ... when its with_timeout fires, or its upstream raises TimeoutError,
OnTimeoutKeeps(o, m) ==   \* a mutant: the batch is not emptied
    CASE o.is = "keep_alive"     -> Emit(<<Element>>, m)
      [] o.is = "grouped_within" -> Emit(IF m = <<>> THEN <<>> ELSE <<Batch(m)>>, m)
      [] o.is = "idle_timeout"   -> Raise("timeout")

OnTimeout(o, m) ==
    CASE o.is = "keep_alive"     -> Emit(<<Element>>, m)
      [] o.is = "grouped_within" -> Emit(IF m = <<>> THEN <<>> ELSE <<Batch(m)>>, <<>>)
      [] o.is = "idle_timeout"   -> Raise("timeout")

Timed == {"keep_alive", "grouped_within", "idle_timeout"}

\* ... and when its upstream raises.
OnError(o, m, e) ==
    CASE o.is = "recover"      -> Does(<<Element>>, m, "end")
      [] o.is = "recover_with" -> Does(other.items, m, other.fin)
      [] o.is = "map_error"    -> Raise("mapped")
      [] e = "timeout" /\ o.is \in Timed -> OnTimeout(o, m)
      [] OTHER                 -> Raise(e)

\* A generator before its first item: scan yields its zero, prepend its items.
Fresh(o) ==
    CASE o.is = "scan"     -> Emit(<<Zero>>, Zero)
      [] o.is = "prepend"  -> Emit(<<Element>>, 0)
      [] o.is \in {"grouped", "grouped_within", "sliding"} -> Emit(<<>>, <<>>)
      [] o.is = "distinct" -> Emit(<<>>, {})
      [] o.is = "interleave" -> Emit(<<>>, <<0, 0>>)
      [] OTHER             -> Emit(<<>>, 0)

Init ==
    /\ chain \in Chains /\ source \in Sources /\ other \in Others /\ sink \in Sinks
    /\ pos = 0 /\ at = Top
    /\ stage = [k \in DOMAIN chain |-> Fresh(chain[k])]
    /\ seen = <<>> /\ acc = (IF sink = "count" THEN 0 ELSE <<>>) /\ verdict = "running"
    /\ calls = <<>> /\ late = FALSE /\ fired = FALSE

(* Pulling.                                                                    *)

setup == <<chain, source, other, sink>>

Accumulate(x) ==
    CASE sink = "list"  -> Append(acc, x)
      [] sink = "count" -> acc + 1
      [] sink = "reduce" /\ acc # <<>> -> acc \o x
      [] OTHER -> x

\* A mutant: run_first does not return.
SinkItemGoesOn(x) == seen' = Append(seen, x) /\ acc' = Accumulate(x) /\ UNCHANGED verdict

\* The sink's loops: every one but run_first goes on to the end.
SinkItem(x) ==
    /\ seen' = Append(seen, x)
    /\ acc' = Accumulate(x)
    /\ verdict' = IF sink = "first" THEN "end" ELSE verdict

SinkEnds(e) ==
    /\ verdict' = IF e = "end" /\ seen = <<>> /\ sink \in {"first", "last", "reduce"}
                  THEN "ValueError" ELSE e
    /\ UNCHANGED <<seen, acc>>

\* The generator or sink at level k is given an item, or how its __anext__
\* finished; from has what the stages below are left with.
GiveItem(from, k, x) ==
    /\ at' = k
    /\ IF k = Top THEN SinkItem(x) /\ stage' = from
       ELSE /\ stage' = [from EXCEPT ![k] = OnItem(chain[k], @.mem, x)]
            /\ UNCHANGED <<seen, acc, verdict>>
    /\ UNCHANGED calls

\* The callback of a watch_termination.
CallsBackAlways(k, e) == Append(calls, <<k, "end">>)   \* a mutant: success whatever happened
CallsBack(k, e)       == Append(calls, <<k, e>>)

GiveFinal(from, k, e) ==
    /\ at' = k
    /\ IF k = Top THEN SinkEnds(e) /\ stage' = from /\ UNCHANGED calls
       ELSE /\ stage' = [from EXCEPT ![k] = IF e = "end" THEN OnEnd(chain[k], @.mem)
                                            ELSE OnError(chain[k], @.mem, e)]
            /\ calls' = IF chain[k].is = "watch_termination" THEN CallsBack(k, e) ELSE calls
            /\ UNCHANGED <<seen, acc, verdict>>

\* The sink, or a generator with nothing to yield, awaits its upstream.
Ask ==
    /\ IF at = Top THEN verdict = "running"
       ELSE at > 0 /\ stage[at].out = <<>> /\ stage[at].st = "on"
    /\ at' = at - 1
    /\ UNCHANGED <<setup, pos, stage, seen, acc, verdict, calls, late, fired>>

Yields ==
    /\ at \in DOMAIN chain /\ stage[at].out # <<>>
    /\ GiveItem([stage EXCEPT ![at].out = Tail(@)], at + 1, Head(stage[at].out))
    /\ UNCHANGED <<setup, pos, late, fired>>

\* A generator that has raised only ends from then on.
Finishes ==
    /\ at \in DOMAIN chain /\ stage[at].out = <<>> /\ stage[at].st # "on"
    /\ GiveFinal([stage EXCEPT ![at].st = "end"], at + 1, stage[at].st)
    /\ UNCHANGED <<setup, pos, late, fired>>

\* The source yields its next item, ends, or raises.
Deliver ==
    /\ at = 0
    /\ pos' = pos + 1
    /\ IF pos < Len(source.items) THEN GiveItem(stage, 1, source.items[pos + 1])
       ELSE GiveFinal(stage, 1, IF pos = Len(source.items) THEN source.fin ELSE "end")
    /\ UNCHANGED <<setup, late, fired>>

\* The await of a slow source, of throttle's sleep or of map_async's function.
Suspended ==
    IF at = 0 THEN pos <= Len(source.items)
    ELSE at < Top /\ chain[at].is \in {"throttle", "map_async"} /\ stage[at].out # <<>>

\* with_timeout cancels its __anext__: every generator from the one that waits up
\* to it has finished.
Killed(k) == [j \in DOMAIN chain |->
                 IF at <= j /\ j < k THEN Does(<<>>, <<>>, "end") ELSE stage[j]]

Timeout(k) ==
    /\ at < k /\ chain[k].is \in Timed /\ Suspended
    /\ stage' = [Killed(k) EXCEPT ![k] = OnTimeout(chain[k], @.mem)]
    /\ pos' = IF at = 0 THEN Len(source.items) + 1 ELSE pos
    /\ at' = k
    /\ fired' = TRUE
    /\ UNCHANGED <<setup, seen, acc, verdict, calls, late>>

Deadline ==
    /\ ~late /\ verdict = "running"
    /\ \E k \in DOMAIN chain : chain[k].is = "completion_timeout"
    /\ late' = TRUE
    /\ UNCHANGED <<setup, pos, stage, at, seen, acc, verdict, calls, fired>>

Next == Ask \/ Yields \/ Finishes \/ Deliver \/ (\E k \in DOMAIN chain : Timeout(k)) \/ Deadline

Spec == Init /\ [][Next]_vars

(* Properties.                                                                 *)

Ended == verdict # "running"
OnTime == ~fired /\ ~late
Promised == LawOf(chain, source, other)

\* While no timer fires, what a sink has consumed is a prefix of what the
\* derivations in the docstrings give for the whole stream; at the end it is all of
\* it, and the stream ended or failed as they say, whatever raised where.
KeepsDerivation ==
    OnTime => /\ IsPrefix(seen, Promised.items)
              /\ Ended => \/ sink = "first" /\ seen # <<>>
                          \/ seen = Promised.items /\ verdict \in {Promised.fin, "ValueError"}

\* The sinks compute from what they have consumed what their names say, and refuse
\* an empty stream.
SinksAgree ==
    verdict = "end" =>
        /\ sink = "list"  => acc = seen
        /\ sink = "count" => acc = Len(seen)
        /\ sink \in {"first", "last", "reduce"} => seen # <<>>
        /\ sink = "first" => acc = seen[1]
        /\ sink = "last"  => acc = seen[Len(seen)]
        /\ sink = "reduce" => acc = FlattenSeq(seen)

\* No operator reads ahead: when the sink has its n-th item, the source has yielded
\* no more than that item needed ("no work until a terminal run_* is called").
Lazy ==
    at = Top /\ OnTime /\ verdict = "running" /\ seen # <<>> =>
        \A q \in 0..pos - 1 :
            Len(LawOf(chain, Trace(SubSeq(source.items, 1, q), "pending"), other).items) < Len(seen)

\* A watch_termination calls back at most once, and tells how its upstream finished.
Watched ==
    /\ \A i, j \in DOMAIN calls : calls[i][1] = calls[j][1] => i = j
    /\ \A i \in DOMAIN calls :
          LET k == calls[i][1]
          IN  /\ chain[k].is = "watch_termination"
              /\ OnTime => calls[i][2] = LawsOf(chain, source, other)[k - 1].fin

\* What of an item that goes into a timed operator, and of one that comes out, is
\* the source's: keep_alive adds elements of its own, a batch starts with its length.
Own(o, x)     == IF o.is = "keep_alive" /\ x = Element THEN <<>> ELSE x
Content(o, x) == IF o.is = "grouped_within" THEN Tail(x) ELSE Own(o, x)

\* What a timed operator lets through after its timer fired is still a prefix of
\* the source in order, with nothing twice, although the timer finishes the source.
TimeoutKeepsOrder ==
    Len(chain) = 1 /\ chain[1].is \in Timed =>
        IsPrefix(FlattenSeq([i \in 1..Len(seen) |-> Content(chain[1], seen[i])]),
                 FlattenSeq([i \in 1..Len(source.items) |-> Own(chain[1], source.items[i])]))
=============================================================================
