----------------------------- MODULE StreamLaws -----------------------------
(* What the sequential operators of core/composable_stream.py promise, on whole *)
(* traces: the primitives, and every derived operator by the derivation its     *)
(* docstring gives. A trace is the items of a stream and how it finishes:       *)
(* "end", an error, or "pending" while more may come.                           *)
EXTENDS Naturals, Sequences, SequencesExt

Trace(items, fin) == [items |-> items, fin |-> fin]

\* Items are sequences of numbers. The callbacks given to the operators: every one
\* raises on a bad item.
Bad(x)    == Head(x) = 3
P(x)      == Head(x) % 2 = 1
F(x)      == x \o <<0>>
Expand(x) == IF P(x) THEN <<x, F(x)>> ELSE <<>>
Batch(b)  == <<Len(b)>> \o FlattenSeq(b)
Element   == <<9>>       \* of keep_alive, prepend, intersperse and recover
Zero      == <<8>>       \* of scan

(* The primitives.                                                             *)

Of(x)   == Trace(<<x>>, "end")
Nothing == Trace(<<>>, "end")
Upto(n) == Trace([i \in 1..n |-> i - 1], "end")      \* unfold(0, ...)

\* The part of a trace before the items that are refused.
Before(t, refused, fin) ==
    IF refused = {} THEN t ELSE Trace(SubSeq(t.items, 1, Min(refused) - 1), fin)

Safe(t) == Before(t, {i \in DOMAIN t.items : Bad(t.items[i])}, "bad")

\* flat_map: one stream for each item, up to the first that fails.
Bind(t, streams) ==
    LET fails == {i \in DOMAIN streams : streams[i].fin # "end"}
        n == IF fails = {} THEN Len(streams) ELSE Min(fails)
    IN  Trace(FlattenSeq([i \in 1..n |-> streams[i].items]),
              IF fails = {} THEN t.fin ELSE streams[n].fin)

Both(t, u) == IF t.fin = "end" THEN Trace(t.items \o u.items, u.fin) ELSE t

\* zip_with asks the left stream first.
Paired(t, u) ==
    LET n == IF Len(t.items) < Len(u.items) THEN Len(t.items) ELSE Len(u.items)
    IN  Trace([i \in 1..n |-> <<t.items[i], u.items[i]>>],
              IF Len(t.items) > Len(u.items) THEN u.fin ELSE t.fin)

Mapped(t, G(_)) == Trace([i \in 1..Len(t.items) |-> G(t.items[i])], t.fin)

(* The operators.                                                              *)

\* The stream of the i-th item of s, for the operators that are derived from
\* flat_map, or from enumerate() and flat_map.
CallOn(o, s, i) ==
    LET x == s[i]
        new == \A j \in 1..i - 1 : Head(s[j]) # Head(x)
    IN  CASE o.is \in {"map", "map_async"} -> Of(F(x))
          [] o.is = "and_then"    -> Of(x)
          [] o.is = "flat_map"    -> IF P(x) THEN Trace(<<x, F(x)>>, "end") ELSE Trace(<<>>, "sub")
          [] o.is = "filter"      -> IF P(x) THEN Of(x) ELSE Nothing
          [] o.is = "collect"     -> IF P(x) THEN Of(F(x)) ELSE Nothing
          [] o.is = "map_concat"  -> Trace(Expand(x), "end")
          [] o.is = "distinct"    -> IF new THEN Of(x) ELSE Nothing
          [] o.is = "enumerate"   -> Of(<<i - 1>> \o x)
          [] o.is = "drop"        -> IF i > o.n THEN Of(x) ELSE Nothing
          [] o.is = "intersperse" -> IF i = 1 THEN Of(x) ELSE Both(Of(Element), Of(x))

Calling  == {"map", "map_async", "and_then", "flat_map", "filter", "collect", "map_concat", "distinct"}
Counting == {"enumerate", "drop", "intersperse"}

Called(o, s) ==
    [i \in 1..Len(s) |-> IF o.is \in Calling /\ Bad(s[i]) THEN Trace(<<>>, "bad") ELSE CallOn(o, s, i)]

TakenWhile(t) ==
    LET stops == {i \in DOMAIN t.items : Bad(t.items[i]) \/ ~P(t.items[i])}
    IN  Before(t, stops, IF stops # {} /\ Bad(t.items[Min(stops)]) THEN "bad" ELSE "end")

Scanned(t) ==
    Trace([i \in 1..Len(t.items) + 1 |-> Zero \o FlattenSeq(SubSeq(t.items, 1, i - 1))], t.fin)

Groups(s, n, fin) ==
    LET full == Len(s) \div n
        rest == SubSeq(s, full * n + 1, Len(s))
    IN  [i \in 1..full |-> Batch(SubSeq(s, (i - 1) * n + 1, i * n))]
        \o IF rest # <<>> /\ fin = "end" THEN <<Batch(rest)>> ELSE <<>>

\* A step longer than the window moves it by its size.
Windows(s, size, step) ==
    LET by == IF step < size THEN step ELSE size
        n  == IF Len(s) < size THEN 0 ELSE 1 + (Len(s) - size) \div by
    IN  [i \in 1..n |-> Batch(SubSeq(s, 1 + (i - 1) * by, (i - 1) * by + size))]

\* n items of t, then n of u, and so on; u may fail in its turn.
Turns(t, u, n) ==
    LET least(x, y) == IF x < y THEN x ELSE y
        rounds == Len(t.items) \div n
        good   == Len(u.items) \div n      \* the turns of u before it finishes
        fails  == u.fin # "end" /\ good < rounds
        last   == IF fails THEN good + 1 ELSE rounds
        turn(i) == SubSeq(t.items, (i - 1) * n + 1, i * n)
                   \o SubSeq(u.items, (i - 1) * n + 1, least(i * n, Len(u.items)))
        turns  == FlattenSeq([i \in 1..last |-> turn(i)])
        rest   == SubSeq(t.items, rounds * n + 1, Len(t.items))
    IN  IF fails THEN Trace(turns, u.fin)
        ELSE IF t.fin = "end"
        THEN Trace(turns \o rest \o SubSeq(u.items, least(rounds * n, Len(u.items)) + 1, Len(u.items)), u.fin)
        ELSE Trace(turns \o rest, t.fin)

Failed(t) == t.fin \notin {"end", "pending"}

\* What one operator makes of its upstream's trace, given the trace of the other
\* stream for the operators that have one.
Law(o, t, other) ==
    CASE o.is \in Calling \cup Counting -> Bind(t, Called(o, t.items))
      [] o.is = "concat"     -> Both(t, other)
      [] o.is = "prepend"    -> Both(Of(Element), t)
      [] o.is = "zip_with"   -> Mapped(Paired(t, other), LAMBDA q : q[1] \o q[2])
      [] o.is = "take"       -> Mapped(Paired(t, Upto(o.n)), LAMBDA q : q[1])
      [] o.is = "take_while" -> TakenWhile(t)
      [] o.is = "scan"       -> Scanned(Safe(t))
      [] o.is \in {"grouped", "grouped_within"} -> Trace(Groups(t.items, o.n, t.fin), t.fin)
      [] o.is = "sliding"    -> Trace(Windows(t.items, o.n, o.step), t.fin)
      [] o.is = "interleave" -> Turns(t, other, o.n)
      [] o.is = "recover" /\ Failed(t)      -> Trace(Append(t.items, Element), "end")
      [] o.is = "recover_with" /\ Failed(t) -> Trace(t.items \o other.items, other.fin)
      [] o.is = "map_error" /\ Failed(t)    -> Trace(t.items, "mapped")
      [] OTHER -> t   \* throttle, watch_termination and the timed operators

\* What every prefix of a chain of operators makes of a trace.
LawsOf(chain, t, other) ==
    LET law[k \in 0..Len(chain)] == IF k = 0 THEN t ELSE Law(chain[k], law[k - 1], other)
    IN  law

LawOf(chain, t, other) == LawsOf(chain, t, other)[Len(chain)]
=============================================================================
