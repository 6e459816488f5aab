------------------------ MODULE StreamPipelineProofs ------------------------
(* Proofs about StreamPipeline, for chains of any length of any operators, any *)
(* sources and any sink.                                                       *)
EXTENDS StreamPipeline, WellFoundedInduction, SequenceTheorems, TLAPS

----------------------------------------------------------------------------
(* Induction over numbers and sequences, with sets for predicates.            *)

\* A set of numbers has a least one.
LEMMA NatMin ==
    ASSUME NEW T, T \subseteq Nat, T # {}
    PROVE  \E m \in T : \A k \in T : m <= k
<1> DEFINE R == {ss \in Nat \X Nat : ss[1] < ss[2]}
<1>1. IsWellFoundedOn(R, Nat)
  BY NatLessThanWellFounded DEF OpToRel
<1> HIDE DEF R
<1>2. PICK x \in T : \A y \in T : ~ (<<y, x>> \in R)
  BY <1>1, WFMin
<1>3. ASSUME NEW y \in T, y < x PROVE FALSE
  BY <1>2, <1>3 DEF R
<1> QED
  BY <1>3

\* A set with 0 that is closed under successor has every number.
LEMMA NatInduct ==
    ASSUME NEW T, 0 \in T, \A n \in Nat : n \in T => n + 1 \in T
    PROVE  \A n \in Nat : n \in T
<1> DEFINE W == {n \in Nat : n \notin T}
<1>1. ASSUME W # {} PROVE FALSE
  <2>1. PICK m \in W : \A k \in W : m <= k
    <3>1. W \subseteq Nat
      OBVIOUS
    <3> QED
      BY <1>1, <3>1, NatMin
  <2>2. m \in Nat /\ m # 0 /\ m \notin T
    BY <2>1
  <2>3. m - 1 \in Nat /\ ~(m <= m - 1) /\ (m - 1) + 1 = m
    BY <2>2
  <2>4. m - 1 \notin W
    BY <2>1, <2>3
  <2>5. m - 1 \in T
    BY <2>3, <2>4
  <2> QED
    BY <2>2, <2>3, <2>5
<1> QED
  BY <1>1

\* A set with <<>> that is closed under Append has every sequence.
LEMMA SeqInduct ==
    ASSUME NEW S, NEW T, <<>> \in T, \A s \in Seq(S) : \A e \in S : s \in T => Append(s, e) \in T
    PROVE  \A s \in Seq(S) : s \in T
<1> DEFINE W == {n \in Nat : \A s \in Seq(S) : Len(s) = n => s \in T}
<1>1. 0 \in W
  <2>1. \A s \in Seq(S) : Len(s) = 0 => s = <<>>
    OBVIOUS
  <2> QED
    BY <2>1
<1>2. ASSUME NEW n \in Nat, n \in W PROVE n + 1 \in W
  <2>1. ASSUME NEW s \in Seq(S), Len(s) = n + 1 PROVE s \in T
    <3>1. s # <<>>
      BY <2>1
    <3>2. PICK t \in Seq(S), e \in S : s = Append(t, e)
      BY <3>1, SequenceEmptyOrAppend
    <3>3. Len(t) = n
      <4>1. Len(s) = Len(t) + 1 /\ Len(t) \in Nat
        BY <3>2, AppendProperties
      <4> QED
        BY <2>1, <4>1
    <3>4. t \in T
      BY <1>2, <3>3
    <3> QED
      BY <3>2, <3>4
  <2> QED
    BY <2>1
<1> HIDE DEF W
<1>3. \A n \in Nat : n \in W
  BY <1>1, <1>2, NatInduct
<1>4. \A s \in Seq(S) : Len(s) \in Nat
  OBVIOUS
<1> QED
  BY <1>3, <1>4 DEF W

----------------------------------------------------------------------------
(* FlattenSeq.                                                                *)

\* flatten of FlattenSeq.
Flattens(f, ss) == f = [i \in 1..Len(ss) |-> IF i = 1 THEN ss[i] ELSE f[i - 1] \o ss[i]]

\* What FlattenSeq gives, in terms of the function it recurs on.
LEMMA FlattenIs ==
    ASSUME NEW ss, Len(ss) # 0
    PROVE  FlattenSeq(ss) = (CHOOSE f : Flattens(f, ss))[Len(ss)]
  BY Zenon DEF FlattenSeq, Flattens

\* Nothing flattened is nothing.
LEMMA FlattenEmpty == FlattenSeq(<<>>) = <<>>
  BY DEF FlattenSeq

\* The function that FlattenSeq recurs on exists, and there is one.
LEMMA FlattenUnique ==
    ASSUME NEW ss, Len(ss) \in Nat, NEW f, NEW g, Flattens(f, ss), Flattens(g, ss)
    PROVE  f = g
<1> DEFINE N == Len(ss)
           T == {i \in 1..N : f[i] # g[i]}
<1>1. /\ f = [i \in 1..N |-> IF i = 1 THEN ss[i] ELSE f[i - 1] \o ss[i]]
      /\ g = [i \in 1..N |-> IF i = 1 THEN ss[i] ELSE g[i - 1] \o ss[i]]
  BY Zenon DEF Flattens
<1> HIDE DEF N
<1>0. N \in Nat
  BY DEF N
<1>2. ASSUME T # {} PROVE FALSE
  <2>1. PICK m \in T : \A k \in T : m <= k
    <3>1. T \subseteq Nat
      BY <1>0
    <3> QED
      BY <1>2, <3>1, NatMin
  <2>2. m = 1 \/ (m - 1 \in 1..N /\ ~ (m - 1 \in T))
    BY <1>0, <2>1
  <2>3. m \in 1..N /\ f[m] # g[m]
    BY <2>1
  <2>4. m # 1 => f[m - 1] = g[m - 1]
    BY <2>2
  <2>5. f[m] = (IF m = 1 THEN ss[m] ELSE f[m - 1] \o ss[m])
    BY <1>1, <2>3
  <2>6. g[m] = (IF m = 1 THEN ss[m] ELSE g[m - 1] \o ss[m])
    BY <1>1, <2>3
  <2> QED
    BY <2>3, <2>4, <2>5, <2>6
<1>3. \A i \in 1..N : f[i] = g[i]
  BY <1>2
<1>4. f = [i \in 1..N |-> f[i]] /\ g = [i \in 1..N |-> g[i]]
  BY <1>1
<1> QED
  BY <1>3, <1>4

\* That function for a sequence that is one longer.
LEMMA FlattenMore ==
    ASSUME NEW ss, Len(ss) \in Nat, NEW tt, Len(tt) = Len(ss) + 1,
           \A i \in 1..Len(ss) : tt[i] = ss[i],
           NEW f, Flattens(f, ss)
    PROVE  \E g : Flattens(g, tt) /\ (\A i \in 1..Len(ss) : g[i] = f[i])
                  /\ g[Len(tt)] = IF Len(ss) = 0 THEN tt[1] ELSE f[Len(ss)] \o tt[Len(tt)]
<1> DEFINE n == Len(ss)
           z == IF n = 0 THEN tt[1] ELSE f[n] \o tt[n + 1]
           g == [i \in 1..n + 1 |-> IF i <= n THEN f[i] ELSE z]
<1>0. n \in Nat /\ Len(tt) = n + 1 /\ \A i \in 1..n : tt[i] = ss[i]
  OBVIOUS
<1>1. f = [i \in 1..n |-> IF i = 1 THEN ss[i] ELSE f[i - 1] \o ss[i]]
  BY Zenon DEF Flattens
<1> HIDE DEF n
<1> HIDE DEF z
<1>2. (\A i \in 1..n : g[i] = f[i]) /\ g[n + 1] = z
  <2>1. n + 1 \in 1..n + 1 /\ ~(n + 1 <= n) /\ \A i \in 1..n : i \in 1..n + 1 /\ i <= n
    BY <1>0
  <2> QED
    BY <2>1
<1>3. ASSUME NEW i \in 1..n + 1 PROVE g[i] = IF i = 1 THEN tt[i] ELSE g[i - 1] \o tt[i]
  <2>1. CASE i \in 1..n
    <3>1. i = 1 \/ (i # 1 /\ i - 1 \in 1..n)
      BY <1>0, <2>1
    <3>2. f[i] = IF i = 1 THEN ss[i] ELSE f[i - 1] \o ss[i]
      BY <1>1, <2>1
    <3> HIDE DEF g
    <3> QED
      BY <1>0, <1>2, <2>1, <3>1, <3>2
  <2>2. CASE i = n + 1
    <3>1. n = 0 \/ (n # 0 /\ n \in 1..n /\ i # 1 /\ i - 1 = n)
      BY <1>0, <2>2
    <3> HIDE DEF g
    <3> QED
      BY <1>2, <2>2, <3>1 DEF z
  <2> QED
    BY <1>0, <2>1, <2>2
<1>4. g = [i \in 1..n + 1 |-> g[i]]
  OBVIOUS
<1> HIDE DEF g
<1>5. g = [i \in 1..Len(tt) |-> IF i = 1 THEN tt[i] ELSE g[i - 1] \o tt[i]]
  BY <1>0, <1>3, <1>4
<1>6. Flattens(g, tt)
  BY <1>5 DEF Flattens
<1>7. g[n + 1] = IF n = 0 THEN tt[1] ELSE f[n] \o tt[n + 1]
  BY <1>2 DEF z
<1> QED
  BY <1>0, <1>2, <1>6, <1>7 DEF n

\* It exists for every sequence.
LEMMA FlattenExists ==
    ASSUME NEW S, NEW ss \in Seq(S)
    PROVE  \E f : Flattens(f, ss)
<1> DEFINE T == {n \in Nat : \E tt \in Seq(S) : Len(tt) = n /\ ~ \E f : Flattens(f, tt)}
<1>1. ASSUME T # {} PROVE FALSE
  <2>1. PICK n \in T : \A k \in T : n <= k
    BY <1>1, NatMin
  <2>2. PICK tt \in Seq(S) : Len(tt) = n /\ ~ \E f : Flattens(f, tt)
    BY <2>1
  <2>3. CASE n = 0
    <3>1. Flattens([i \in 1..Len(tt) |-> i], tt)
      <4>1. 1..Len(tt) = {}
        BY <2>2, <2>3
      <4> QED
        BY <4>1 DEF Flattens
    <3> QED
      BY <2>2, <3>1
  <2>4. CASE n # 0
    <3> DEFINE uu == SubSeq(tt, 1, n - 1)
    <3>1. uu \in Seq(S) /\ Len(uu) = n - 1 /\ (\A i \in 1..Len(uu) : tt[i] = uu[i]) /\ n - 1 \in Nat
      BY <2>2, <2>4
    <3> HIDE DEF uu
    <3>2. PICK f : Flattens(f, uu)
      <4>1. ~(n - 1 \in T)
        BY <2>1, <3>1
      <4> QED
        BY <3>1, <4>1
    <3>3. Len(tt) = Len(uu) + 1 /\ Len(uu) \in Nat
      BY <2>2, <3>1
    <3>4. \E g : Flattens(g, tt)
      BY <3>1, <3>2, <3>3, FlattenMore
    <3> QED
      BY <2>2, <3>4
  <2> QED
    BY <2>3, <2>4
<1>2. Len(ss) \in Nat
  OBVIOUS
<1> QED
  BY <1>1, <1>2

\* Flattening one sequence more puts it at the end.
LEMMA FlattenAppend ==
    ASSUME NEW S, NEW ss \in Seq(Seq(S)), NEW s \in Seq(S)
    PROVE  FlattenSeq(Append(ss, s)) = FlattenSeq(ss) \o s
<1>0. PICK all : all = Append(ss, s)
  OBVIOUS
<1> DEFINE n == Len(ss)
<1>1. n \in Nat /\ Len(all) = n + 1 /\ (\A i \in 1..n : all[i] = ss[i]) /\ all[n + 1] = s
  BY <1>0
<1>2. PICK p : Flattens(p, ss)
  BY FlattenExists
<1>3. PICK q : Flattens(q, all) /\ q[n + 1] = IF n = 0 THEN s ELSE p[n] \o s
  <2>1. \E g : Flattens(g, all) /\ (\A i \in 1..Len(ss) : g[i] = p[i])
               /\ g[Len(all)] = IF Len(ss) = 0 THEN all[1] ELSE p[Len(ss)] \o all[Len(all)]
    BY <1>1, <1>2, FlattenMore
  <2> QED
    BY <1>1, <2>1
<1>4. FlattenSeq(all) = q[n + 1]
  <2>1. Flattens(CHOOSE h : Flattens(h, all), all)
    BY <1>3
  <2>2. (CHOOSE h : Flattens(h, all)) = q
    BY <1>1, <1>3, <2>1, FlattenUnique
  <2> QED
    BY <1>1, <2>2, FlattenIs
<1>5. CASE n = 0
  <2>1. ss = <<>>
    BY <1>5
  <2>2. <<>> \o s = s
    OBVIOUS
  <2> QED
    BY <1>0, <1>3, <1>4, <1>5, <2>1, <2>2, FlattenEmpty
<1>6. CASE n # 0
  <2>1. Flattens(CHOOSE h : Flattens(h, ss), ss)
    BY <1>2
  <2>2. (CHOOSE h : Flattens(h, ss)) = p
    BY <1>1, <1>2, <2>1, FlattenUnique
  <2>3. FlattenSeq(ss) = p[n]
    BY <1>6, <2>2, FlattenIs
  <2> QED
    BY <1>0, <1>3, <1>4, <1>6, <2>3
<1> QED
  BY <1>5, <1>6

\* Flattening sequences of items gives items.
LEMMA FlattenTyped ==
    ASSUME NEW S
    PROVE  \A ss \in Seq(Seq(S)) : FlattenSeq(ss) \in Seq(S)
<1> DEFINE T == {ss \in Seq(Seq(S)) : FlattenSeq(ss) \in Seq(S)}
<1>1. <<>> \in T
  <2>1. <<>> \in Seq(Seq(S)) /\ <<>> \in Seq(S)
    OBVIOUS
  <2> QED
    BY <2>1, FlattenEmpty, Zenon
<1>2. ASSUME NEW ss \in Seq(Seq(S)), NEW s \in Seq(S), ss \in T PROVE Append(ss, s) \in T
  <2>1. FlattenSeq(ss) \o s \in Seq(S) /\ Append(ss, s) \in Seq(Seq(S))
    BY <1>2
  <2>2. FlattenSeq(Append(ss, s)) = FlattenSeq(ss) \o s
    BY FlattenAppend
  <2> QED
    BY <2>1, <2>2, Zenon
<1> HIDE DEF T
<1>3. \A ss \in Seq(Seq(S)) : ss \in T
  BY <1>1, <1>2, SeqInduct
<1> QED
  BY <1>3 DEF T

----------------------------------------------------------------------------
(* Traces and laws.                                                           *)

Item == Seq(Nat)

\* How a stream may finish, and the traces that may come up while no timer fires.
Finals == {"end", "bad", "sub", "mapped", source.fin, other.fin}
Traces == [items : Seq(Item), fin : Finals \cup {"pending"}]

Pend(s) == Trace(s, "pending")

\* A pending trace, and what a generator adds to it.
After(l, d) == Trace(l.items \o d.out, IF d.st = "on" THEN "pending" ELSE d.st)

\* The memory of a generator that has taken the items s and runs on.
Turned(o, s) == Len(s) \div o.n
MemWith(o, s, u) ==
    CASE o.is = "scan"        -> Zero \o FlattenSeq(s)
      [] o.is \in {"grouped", "grouped_within"} -> SubSeq(s, Turned(o, s) * o.n + 1, Len(s))
      [] o.is = "sliding"     ->
            LET by == IF o.step < o.n THEN o.step ELSE o.n
            IN  IF Len(s) < o.n THEN s ELSE SubSeq(s, (1 + (Len(s) - o.n) \div by) * by + 1, Len(s))
      [] o.is = "distinct"    -> {Head(s[i]) : i \in 1..Len(s)}
      [] o.is = "interleave"  ->
            <<Len(s) - Turned(o, s) * o.n,
              IF Turned(o, s) * o.n < Len(u.items) THEN Turned(o, s) * o.n ELSE Len(u.items)>>
      [] o.is = "drop"        -> IF Len(s) < o.n THEN Len(s) ELSE o.n
      [] o.is = "intersperse" -> IF s = <<>> THEN 0 ELSE 1
      [] o.is \in {"zip_with", "take", "enumerate"} -> Len(s)
      [] OTHER                -> 0
Mem(o, s) == MemWith(o, s, other)

\* The generator of o follows its law: from the start, with every item and at the end.
Begins(o) == /\ Law(o, Pend(<<>>), other) = Pend(Fresh(o).out)
             /\ Fresh(o).st = "on" /\ Fresh(o).mem = Mem(o, <<>>)
             /\ Fresh(o).out \in Seq(Item)

GoesOn(o, s, x) ==
    LET l == Law(o, Pend(s), other)
        d == OnItem(o, Mem(o, s), x)
        n == Law(o, Pend(Append(s, x)), other)
    IN  IF l.fin = "pending"
        THEN /\ n = After(l, d) /\ d.out \in Seq(Item) /\ d.st \in Finals \cup {"on"}
             /\ d.st = "on" => d.mem = Mem(o, Append(s, x))
        ELSE n = l

Stops(o, s, e) ==
    LET l == Law(o, Pend(s), other)
        d == IF e = "end" THEN OnEnd(o, Mem(o, s)) ELSE OnError(o, Mem(o, s), e)
        n == Law(o, Trace(s, e), other)
    IN  IF l.fin = "pending" THEN n = After(l, d) /\ d.out \in Seq(Item) /\ d.st \in Finals
        ELSE n = l

Obeys(o) ==
    /\ Begins(o)
    /\ \A s \in Seq(Item), x \in Item : GoesOn(o, s, x)
    /\ \A s \in Seq(Item), e \in Finals : Stops(o, s, e)

\* What no step changes.
Setup ==
    /\ chain \in Seq(Operators)
    /\ source = Trace(source.items, source.fin)
    /\ source.items \in Seq(Item) /\ other.items \in Seq(Item)
    /\ source.fin \notin {"on", "pending", "running", "timeout"}
    /\ other.fin \notin {"on", "pending", "running", "timeout"}

\* How streams finish is told apart from what a generator or a verdict is while it
\* runs.
LEMMA FinalFacts ==
    ASSUME Setup
    PROVE  /\ "on" \notin Finals /\ "pending" \notin Finals /\ "running" \notin Finals
           /\ "timeout" \notin Finals /\ {"end", "bad", "sub", "mapped"} \subseteq Finals
           /\ source.fin \in Finals /\ other.fin \in Finals
  BY DEF Setup, Finals

\* Traces are made of their items and their end.
LEMMA TraceFacts ==
    /\ \A s, e : Trace(s, e).items = s /\ Trace(s, e).fin = e
    /\ \A s, e, t, f : Trace(s, e) = Trace(t, f) <=> s = t /\ e = f
    /\ \A s, e : s \in Seq(Item) /\ e \in Finals \cup {"pending"} => Trace(s, e) \in Traces
    /\ \A t \in Traces : t = Trace(t.items, t.fin) /\ t.items \in Seq(Item)
                         /\ t.fin \in Finals \cup {"pending"}
  BY DEF Trace, Traces

\* What the callbacks make of items is items.
LEMMA ItemFacts ==
    /\ Element \in Item /\ Zero \in Item
    /\ \A x \in Item : F(x) \in Item /\ <<x>> \in Seq(Item) /\ <<x, F(x)>> \in Seq(Item)
                       /\ Expand(x) \in Seq(Item)
    /\ \A n \in Nat, x \in Item : <<n>> \o x \in Item
    /\ \A x, y \in Item : x \o y \in Item
    /\ <<>> \in Seq(Item)
<1>1. Element \in Item /\ Zero \in Item
  BY DEF Element, Zero, Item
<1>2. ASSUME NEW x \in Item PROVE F(x) \in Item
  BY DEF F, Item
<1>3. \A n \in Nat, x \in Item : <<n>> \o x \in Item
  BY DEF Item
<1>4. \A x, y \in Item : x \o y \in Item
  BY DEF Item
<1>5. ASSUME NEW x \in Item PROVE <<x>> \in Seq(Item) /\ <<x, F(x)>> \in Seq(Item) /\ Expand(x) \in Seq(Item)
  BY <1>2 DEF Expand
<1> QED
  BY <1>1, <1>2, <1>3, <1>4, <1>5

\* A batch is an item.
LEMMA BatchTyped ==
    ASSUME NEW b \in Seq(Item)
    PROVE  Batch(b) \in Item
  <1>1. FlattenSeq(b) \in Item
    BY FlattenTyped DEF Item
  <1> QED
    BY <1>1, ItemFacts DEF Batch

----------------------------------------------------------------------------
(* The operators that are derived from flat_map.                              *)

\* Min is the least.
LEMMA MinIs ==
    ASSUME NEW T, T \subseteq Nat, T # {}
    PROVE  Min(T) \in T /\ \A k \in T : Min(T) <= k
  BY NatMin DEF Min

\* The parts of a sequence that is one longer.
LEMMA AppendFacts ==
    ASSUME NEW S, NEW s \in Seq(S), NEW x \in S
    PROVE  /\ Len(s) \in Nat /\ Len(Append(s, x)) = Len(s) + 1 /\ Append(s, x) \in Seq(S)
           /\ Append(s, x)[Len(s) + 1] = x /\ \A i \in 1..Len(s) : Append(s, x)[i] = s[i]
           /\ DOMAIN s = 1..Len(s) /\ DOMAIN Append(s, x) = 1..Len(s) + 1
           /\ \A i \in 1..Len(s) : s[i] \in S
  OBVIOUS

FailsOf(ss) == {i \in DOMAIN ss : ss[i].fin # "end"}
ItemsTo(ss, n) == [i \in 1..n |-> ss[i].items]

\* The places of the streams that fail are places,
LEMMA FailsIn ==
    ASSUME NEW ss \in Seq(Traces)
    PROVE  FailsOf(ss) \subseteq 1..Len(ss) /\ FailsOf(ss) \subseteq Nat
  BY DEF FailsOf

\* and the items of the streams before are items.
LEMMA ItemsTyped ==
    ASSUME NEW ss \in Seq(Traces), NEW n \in Nat, n <= Len(ss)
    PROVE  ItemsTo(ss, n) \in Seq(Seq(Item)) /\ Len(ItemsTo(ss, n)) = n
<1>1. \A i \in 1..n : ss[i] \in Traces
  OBVIOUS
<1>2. \A i \in 1..n : ss[i].items \in Seq(Item)
  BY <1>1, TraceFacts
<1> QED
  BY <1>2 DEF ItemsTo

\* What flat_map gives: all, or what comes up to the first failure.
LEMMA BindIs ==
    ASSUME NEW ss \in Seq(Traces), NEW t
    PROVE  /\ FailsOf(ss) = {} => Bind(t, ss) = Trace(FlattenSeq(ItemsTo(ss, Len(ss))), t.fin)
           /\ FailsOf(ss) # {} => LET n == Min(FailsOf(ss))
                                  IN  Bind(t, ss) = Trace(FlattenSeq(ItemsTo(ss, n)), ss[n].fin)
  BY Zenon DEF Bind, FailsOf, ItemsTo

\* flat_map makes a trace.
LEMMA BindTyped ==
    ASSUME NEW ss \in Seq(Traces), NEW t \in Traces
    PROVE  Bind(t, ss) \in Traces
<1>1. CASE FailsOf(ss) = {}
  <2>1. ItemsTo(ss, Len(ss)) \in Seq(Seq(Item))
    BY ItemsTyped
  <2>2. FlattenSeq(ItemsTo(ss, Len(ss))) \in Seq(Item)
    BY <2>1, FlattenTyped
  <2> QED
    BY <1>1, <2>2, BindIs, TraceFacts
<1>2. CASE FailsOf(ss) # {}
  <2> DEFINE n == Min(FailsOf(ss))
  <2>1. n \in 1..Len(ss)
    BY <1>2, FailsIn, MinIs
  <2>2. ItemsTo(ss, n) \in Seq(Seq(Item)) /\ ss[n] \in Traces
    BY <2>1, ItemsTyped
  <2>3. FlattenSeq(ItemsTo(ss, n)) \in Seq(Item)
    BY <2>2, FlattenTyped
  <2> QED
    BY <1>2, <2>2, <2>3, BindIs, TraceFacts
<1> QED
  BY <1>1, <1>2

\* One stream more.
LEMMA BindMore ==
    ASSUME NEW ss \in Seq(Traces), NEW y \in Traces, NEW t, FailsOf(ss) = {}
    PROVE  Bind(t, Append(ss, y)) =
              Trace(FlattenSeq(ItemsTo(ss, Len(ss))) \o y.items, IF y.fin = "end" THEN t.fin ELSE y.fin)
<1> DEFINE n  == Len(ss)
           tt == Append(ss, y)
<1>1. /\ n \in Nat /\ Len(tt) = n + 1 /\ tt \in Seq(Traces) /\ tt[n + 1] = y
      /\ \A i \in 1..n : tt[i] = ss[i]
      /\ DOMAIN tt = 1..n + 1 /\ DOMAIN ss = 1..n
  BY AppendFacts
<1>2. \A i \in 1..n : ss[i].fin = "end"
  BY <1>1 DEF FailsOf
<1>3. FailsOf(tt) = IF y.fin = "end" THEN {} ELSE {n + 1}
  <2>1. \A i \in 1..n + 1 : i \in 1..n \/ i = n + 1
    BY <1>1
  <2>2. n + 1 \in 1..n + 1
    BY <1>1
  <2> HIDE DEF n, tt
  <2> QED
    BY <1>1, <1>2, <2>1, <2>2 DEF FailsOf
<1>4. ItemsTo(tt, n + 1) = Append(ItemsTo(ss, n), y.items)
  <2>1. ItemsTo(ss, n) \in Seq(Seq(Item)) /\ Len(ItemsTo(ss, n)) = n /\ y.items \in Seq(Item)
    BY ItemsTyped, TraceFacts, <1>1
  <2>2. ItemsTo(tt, n + 1) \in Seq(Seq(Item)) /\ Len(ItemsTo(tt, n + 1)) = n + 1
    <3>1. n + 1 \in Nat /\ n + 1 <= Len(tt)
      BY <1>1
    <3> QED
      BY <1>1, <3>1, ItemsTyped
  <2>3. ASSUME NEW i \in 1..n + 1 PROVE ItemsTo(tt, n + 1)[i] = Append(ItemsTo(ss, n), y.items)[i]
    <3>1. CASE i \in 1..n
      <4>1. Append(ItemsTo(ss, n), y.items)[i] = ss[i].items
        BY <2>1, <3>1, AppendFacts DEF ItemsTo
      <4> QED
        BY <1>1, <3>1, <4>1 DEF ItemsTo
    <3>2. CASE i = n + 1
      <4>1. Append(ItemsTo(ss, n), y.items)[i] = y.items
        BY <2>1, <3>2, AppendFacts
      <4> QED
        BY <1>1, <3>2, <4>1 DEF ItemsTo
    <3>3. i \in 1..n \/ i = n + 1
      BY <1>1
    <3> QED
      BY <3>1, <3>2, <3>3
  <2>4. Append(ItemsTo(ss, n), y.items) \in Seq(Seq(Item)) /\ Len(Append(ItemsTo(ss, n), y.items)) = n + 1
    BY <2>1, AppendFacts
  <2> QED
    BY <2>2, <2>3, <2>4, SeqEqual
<1>5. FlattenSeq(ItemsTo(tt, n + 1)) = FlattenSeq(ItemsTo(ss, n)) \o y.items
  <2>1. ItemsTo(ss, n) \in Seq(Seq(Item)) /\ y.items \in Seq(Item)
    BY ItemsTyped, TraceFacts, <1>1
  <2> QED
    BY <1>4, <2>1, FlattenAppend
<1> HIDE DEF n, tt
<1>6. CASE y.fin = "end"
  <2>1. FailsOf(tt) = {}
    BY <1>3, <1>6
  <2>2. Bind(t, tt) = Trace(FlattenSeq(ItemsTo(tt, n + 1)), t.fin)
    BY <1>1, <2>1, BindIs
  <2> QED
    BY <1>5, <1>6, <2>2 DEF n, tt
<1>7. CASE y.fin # "end"
  <2>1. {n + 1} \subseteq Nat /\ {n + 1} # {}
    BY <1>1
  <2>2. Min({n + 1}) = n + 1
    BY <2>1, MinIs
  <2>3. FailsOf(tt) = {n + 1}
    BY <1>3, <1>7
  <2>4. Bind(t, tt) = Trace(FlattenSeq(ItemsTo(tt, n + 1)), tt[n + 1].fin)
    BY <1>1, <2>2, <2>3, BindIs
  <2> QED
    BY <1>1, <1>5, <1>7, <2>4 DEF n, tt
<1> QED
  BY <1>6, <1>7

\* A stream that has failed.
LEMMA BindFailed ==
    ASSUME NEW ss \in Seq(Traces), NEW y \in Traces, NEW t, NEW u, FailsOf(ss) # {}
    PROVE  /\ Bind(t, Append(ss, y)) = Bind(u, ss)
           /\ Bind(t, ss) = Bind(u, ss)
           /\ Bind(t, ss).fin \in Finals \cup {"pending"} /\ Bind(t, ss).fin # "end"
<1> DEFINE n  == Min(FailsOf(ss))
           tt == Append(ss, y)
<1>0. Len(ss) \in Nat /\ DOMAIN ss = 1..Len(ss)
  OBVIOUS
<1>1. n \in 1..Len(ss) /\ ss[n].fin # "end" /\ (\A k \in FailsOf(ss) : n <= k) /\ FailsOf(ss) \subseteq 1..Len(ss)
  <2>1. n \in FailsOf(ss) /\ \A k \in FailsOf(ss) : n <= k
    BY FailsIn, MinIs
  <2> QED
    BY <2>1, FailsIn DEF FailsOf
<1>2. /\ tt \in Seq(Traces) /\ DOMAIN tt = 1..Len(ss) + 1 /\ \A i \in 1..Len(ss) : tt[i] = ss[i]
  BY AppendFacts
<1>3. n \in FailsOf(tt) /\ \A k \in FailsOf(tt) : n <= k
  <2>1. n \in 1..Len(ss) + 1 /\ tt[n] = ss[n]
    BY <1>0, <1>1, <1>2
  <2>2. ASSUME NEW k \in FailsOf(tt) PROVE n <= k
    <3>1. k \in 1..Len(ss) + 1 /\ tt[k].fin # "end"
      BY <1>2 DEF FailsOf
    <3>2. CASE k \in 1..Len(ss)
      <4>1. k \in FailsOf(ss)
        BY <1>0, <1>2, <3>1, <3>2 DEF FailsOf
      <4> QED
        BY <1>1, <4>1
    <3>3. CASE k = Len(ss) + 1
      BY <1>0, <1>1, <3>3
    <3> QED
      BY <1>0, <3>1, <3>2, <3>3
  <2> QED
    BY <1>1, <1>2, <2>1, <2>2 DEF FailsOf
<1>4. Min(FailsOf(tt)) = n
  <2> DEFINE m == Min(FailsOf(tt))
  <2>1. FailsOf(tt) \subseteq Nat /\ FailsOf(tt) # {}
    BY <1>2, <1>3 DEF FailsOf
  <2>2. m \in FailsOf(tt) /\ m <= n
    BY <1>3, <2>1, MinIs
  <2>3. n <= m /\ m \in Nat /\ n \in Nat
    BY <1>1, <1>3, <2>1, <2>2
  <2> QED
    BY <2>2, <2>3
<1>5. ItemsTo(tt, n) = ItemsTo(ss, n)
  <2>1. \A i \in 1..n : tt[i] = ss[i]
    BY <1>0, <1>1, <1>2
  <2> QED
    BY <2>1 DEF ItemsTo
<1>6. Bind(t, ss) = Trace(FlattenSeq(ItemsTo(ss, n)), ss[n].fin)
      /\ Bind(u, ss) = Trace(FlattenSeq(ItemsTo(ss, n)), ss[n].fin)
  BY BindIs
<1>7. Bind(t, tt) = Trace(FlattenSeq(ItemsTo(ss, n)), ss[n].fin)
  <2>1. tt[n] = ss[n] /\ FailsOf(tt) # {}
    BY <1>1, <1>2, <1>3
  <2> QED
    BY <1>2, <1>4, <1>5, <2>1, BindIs
<1>8. ss[n] \in Traces
  BY <1>1
<1> QED
  BY <1>1, <1>6, <1>7, <1>8, TraceFacts

\* The stream that o makes of the i-th item of s.
CallOf(o, s, i) == IF o.is \in Calling /\ Bad(s[i]) THEN Trace(<<>>, "bad") ELSE CallOn(o, s, i)

\* The stream of an item ends, or fails in its callback.
LEMMA CallTyped ==
    ASSUME Setup, NEW o, o.is \in Calling \cup Counting, NEW s \in Seq(Item), NEW i \in 1..Len(s)
    PROVE  CallOf(o, s, i) \in Traces /\ CallOf(o, s, i).fin \in {"end", "bad", "sub"}
<1> DEFINE x == s[i]
           c == CallOf(o, s, i)
<1>1. x \in Item /\ i - 1 \in Nat
  OBVIOUS
<1> HIDE DEF x
<1>2. /\ <<>> \in Seq(Item) /\ <<x>> \in Seq(Item) /\ <<F(x)>> \in Seq(Item) /\ <<x, F(x)>> \in Seq(Item)
      /\ Expand(x) \in Seq(Item) /\ <<<<i - 1>> \o x>> \in Seq(Item) /\ <<Element>> \o <<x>> \in Seq(Item)
  BY <1>1, ItemFacts
<1>3. c \in {Trace(<<>>, "bad"), Trace(<<F(x)>>, "end"), Trace(<<x>>, "end"), Trace(<<x, F(x)>>, "end"),
             Trace(<<>>, "sub"), Trace(<<>>, "end"), Trace(Expand(x), "end"), Trace(<<<<i - 1>> \o x>>, "end"),
             Trace(<<Element>> \o <<x>>, "end")}
  <2>1. CASE o.is \in Calling
    BY <2>1 DEF CallOf, CallOn, Calling, Counting, Of, Nothing, x
  <2>2. CASE o.is \in Counting
    <3>1. Both(Of(Element), Of(x)) = Trace(<<Element>> \o <<x>>, "end")
      BY DEF Both, Of, Trace
    <3> QED
      BY <2>2, <3>1 DEF CallOf, CallOn, Calling, Counting, Of, Nothing, x
  <2> QED
    BY <2>1, <2>2
<1>4. {"end", "bad", "sub"} \subseteq Finals
  BY FinalFacts
<1> HIDE DEF c
<1>5. PICK r \in Seq(Item), e \in {"end", "bad", "sub"} : c = Trace(r, e)
  BY <1>2, <1>3
<1>6. c.fin \in {"end", "bad", "sub"} /\ c \in Traces
  BY <1>4, <1>5, TraceFacts
<1> QED
  BY <1>6 DEF c

\* One stream for each item.
LEMMA CalledTyped ==
    ASSUME Setup, NEW o, o.is \in Calling \cup Counting, NEW s \in Seq(Item)
    PROVE  /\ Called(o, s) \in Seq(Traces) /\ Len(Called(o, s)) = Len(s)
           /\ \A i \in 1..Len(s) : Called(o, s)[i] = CallOf(o, s, i)
                                   /\ Called(o, s)[i].fin \in {"end", "bad", "sub"}
<1>1. Called(o, s) = [i \in 1..Len(s) |-> CallOf(o, s, i)]
  BY DEF Called, CallOf
<1>2. \A i \in 1..Len(s) : CallOf(o, s, i) \in Traces /\ CallOf(o, s, i).fin \in {"end", "bad", "sub"}
  BY CallTyped
<1>3. Len(s) \in Nat
  OBVIOUS
<1> QED
  BY <1>1, <1>2, <1>3

\* The streams of a sequence that is one item longer.
LEMMA CalledMore ==
    ASSUME Setup, NEW o, o.is \in Calling \cup Counting, NEW s \in Seq(Item), NEW x \in Item
    PROVE  Called(o, Append(s, x)) = Append(Called(o, s), CallOf(o, Append(s, x), Len(s) + 1))
<1> DEFINE sx == Append(s, x)
           c  == CallOf(o, sx, Len(s) + 1)
<1>1. /\ sx \in Seq(Item) /\ Len(sx) = Len(s) + 1 /\ Len(s) \in Nat /\ sx[Len(s) + 1] = x
      /\ \A i \in 1..Len(s) : sx[i] = s[i]
  BY AppendFacts
<1>2. /\ Called(o, s) \in Seq(Traces) /\ Len(Called(o, s)) = Len(s)
      /\ \A i \in 1..Len(s) : Called(o, s)[i] = CallOf(o, s, i)
  BY CalledTyped
<1> HIDE DEF sx
<1>3. /\ Called(o, sx) \in Seq(Traces) /\ Len(Called(o, sx)) = Len(s) + 1
      /\ \A i \in 1..Len(s) + 1 : Called(o, sx)[i] = CallOf(o, sx, i)
  BY <1>1, CalledTyped
<1>4. c \in Traces
  <2>1. Len(s) + 1 \in 1..Len(sx)
    BY <1>1
  <2> QED
    BY <1>1, <2>1, CallTyped
<1>5. ASSUME NEW i \in 1..Len(s) PROVE CallOf(o, sx, i) = CallOf(o, s, i)
  <2>1. sx[i] = s[i] /\ \A j \in 1..i - 1 : sx[j] = s[j]
    BY <1>1
  <2>2. (\A j \in 1..i - 1 : Head(sx[j]) # Head(sx[i])) <=> (\A j \in 1..i - 1 : Head(s[j]) # Head(s[i]))
    BY <2>1
  <2>3. CallOn(o, sx, i) = CallOn(o, s, i)
    BY <2>1, <2>2, Zenon DEF CallOn
  <2> QED
    BY <2>1, <2>3, Zenon DEF CallOf
<1> HIDE DEF c
<1>6. /\ Append(Called(o, s), c) \in Seq(Traces) /\ Len(Append(Called(o, s), c)) = Len(s) + 1
      /\ Append(Called(o, s), c)[Len(s) + 1] = c
      /\ \A i \in 1..Len(s) : Append(Called(o, s), c)[i] = Called(o, s)[i]
  BY <1>2, <1>4, AppendFacts
<1>7. \A i \in 1..Len(s) + 1 : Called(o, sx)[i] = Append(Called(o, s), c)[i]
  <2>1. \A i \in 1..Len(s) + 1 : i \in 1..Len(s) \/ i = Len(s) + 1
    BY <1>1
  <2>2. Len(s) + 1 \in 1..Len(s) + 1 /\ c = CallOf(o, sx, Len(s) + 1)
    BY <1>1 DEF c
  <2> QED
    BY <1>2, <1>3, <1>5, <1>6, <2>1, <2>2
<1>8. Called(o, sx) = Append(Called(o, s), c)
  BY <1>3, <1>6, <1>7, SeqEqual
<1> QED
  BY <1>8 DEF sx, c

\* The generator does with an item what the law says.
LEMMA CallDone ==
    ASSUME Setup, NEW o, o \in Operators, o.is \in Calling \cup Counting, NEW s \in Seq(Item), NEW x \in Item
    PROVE  LET c == CallOf(o, Append(s, x), Len(s) + 1)
               d == OnItem(o, Mem(o, s), x)
           IN  /\ d.out = c.items /\ d.st = IF c.fin = "end" THEN "on" ELSE c.fin
               /\ d.st = "on" => d.mem = Mem(o, Append(s, x))
<1> DEFINE sx == Append(s, x)
           c  == CallOf(o, sx, Len(s) + 1)
           d  == OnItem(o, Mem(o, s), x)
<1>1. /\ sx \in Seq(Item) /\ Len(sx) = Len(s) + 1 /\ Len(s) \in Nat /\ sx[Len(s) + 1] = x
      /\ \A i \in 1..Len(s) : sx[i] = s[i]
  BY AppendFacts
<1>2. (Len(s) + 1) - 1 = Len(s)
  BY <1>1
<1> HIDE DEF sx
<1>3. CASE o.is \in {"map", "map_async"}
  <2>1. c = IF Bad(x) THEN Trace(<<>>, "bad") ELSE Of(F(x))
    BY <1>1, <1>3 DEF CallOf, CallOn, Calling
  <2>2. d = IF Bad(x) THEN Raise("bad") ELSE Emit(<<F(x)>>, 0)
    BY <1>3 DEF OnItem, Calls, Mem, MemWith, map
  <2>3. Mem(o, sx) = 0
    BY <1>3 DEF Mem, MemWith
  <2> HIDE DEF c, d
  <2>4. d.out = c.items /\ d.st = (IF c.fin = "end" THEN "on" ELSE c.fin) /\ (d.st = "on" => d.mem = Mem(o, sx))
    BY <2>1, <2>2, <2>3 DEF Raise, Emit, Does, Trace, Of
  <2> QED
    BY <2>4 DEF c, d, sx
<1>4. CASE o.is = "and_then"
  BY <1>1, <1>4 DEF CallOf, CallOn, OnItem, Calls, Calling, Mem, MemWith, Of, Trace, Raise, Emit, Does
<1>5. CASE o.is = "flat_map"
  <2>1. c = IF Bad(x) THEN Trace(<<>>, "bad")
            ELSE IF P(x) THEN Trace(<<x, F(x)>>, "end") ELSE Trace(<<>>, "sub")
    BY <1>1, <1>5 DEF CallOf, CallOn, Calling
  <2>2. d = IF Bad(x) THEN Raise("bad") ELSE IF P(x) THEN Emit(<<x, F(x)>>, 0) ELSE Raise("sub")
    BY <1>5 DEF OnItem, Calls, Mem, MemWith, flat_map
  <2>3. Mem(o, sx) = 0
    BY <1>5 DEF Mem, MemWith
  <2> HIDE DEF c, d
  <2>4. d.out = c.items /\ d.st = (IF c.fin = "end" THEN "on" ELSE c.fin) /\ (d.st = "on" => d.mem = Mem(o, sx))
    BY <2>1, <2>2, <2>3 DEF Raise, Emit, Does, Trace
  <2> QED
    BY <2>4 DEF c, d, sx
<1>6. CASE o.is = "filter"
  BY <1>1, <1>6 DEF CallOf, CallOn, OnItem, Calls, Calling, Mem, MemWith, Of, Nothing, Trace, Raise, Emit, Does, filter
<1>7. CASE o.is = "collect"
  BY <1>1, <1>7 DEF CallOf, CallOn, OnItem, Calls, Calling, Mem, MemWith, Of, Nothing, Trace, Raise, Emit, Does, collect
<1>8. CASE o.is = "map_concat"
  BY <1>1, <1>8 DEF CallOf, CallOn, OnItem, Calls, Calling, Mem, MemWith, Of, Trace, Raise, Emit, Does, map_concat
<1>9. CASE o.is = "distinct"
  <2> DEFINE m == {Head(s[i]) : i \in 1..Len(s)}
  <2>1. Mem(o, s) = m
    BY <1>9 DEF Mem, MemWith
  <2>2. Mem(o, sx) = m \cup {Head(x)}
    <3>1. Mem(o, sx) = {Head(sx[i]) : i \in 1..Len(s) + 1}
      BY <1>1, <1>9 DEF Mem, MemWith
    <3>2. 1..Len(s) + 1 = (1..Len(s)) \cup {Len(s) + 1}
      BY <1>1
    <3> QED
      BY <1>1, <3>1, <3>2
  <2>3. (\A j \in 1..Len(s) : Head(sx[j]) # Head(x)) <=> Head(x) \notin m
    BY <1>1
  <2> HIDE DEF m
  <2>4. CASE Bad(x)
    <3>1. c = Trace(<<>>, "bad")
      BY <1>1, <1>9, <2>4 DEF CallOf, Calling
    <3>2. d = Raise("bad")
      BY <1>9, <2>4 DEF OnItem, Calls
    <3> QED
      BY <3>1, <3>2 DEF Raise, Does, Trace, sx
  <2>5. CASE ~Bad(x)
    <3>1. c = IF Head(x) \notin m THEN Of(x) ELSE Nothing
      BY <1>1, <1>2, <1>9, <2>3, <2>5 DEF CallOf, CallOn
    <3>2. d = distinct(o, m, x)
      BY <1>9, <2>1, <2>5 DEF OnItem
    <3>3. Head(x) \in m => m \cup {Head(x)} = m
      OBVIOUS
    <3> HIDE DEF c, d
    <3> QED
      BY <2>2, <3>1, <3>2, <3>3 DEF distinct, Emit, Does, Of, Nothing, Trace, sx, c, d
  <2> QED
    BY <2>4, <2>5
<1>10. CASE o.is = "enumerate"
  BY <1>1, <1>2, <1>10 DEF CallOf, CallOn, OnItem, Calls, Calling, Mem, MemWith, Of, Trace, Raise, Emit, Does, enumerate, sx
<1>11. CASE o.is = "drop"
  <2>1. o.n \in Nat
    BY <1>11 DEF Operators
  <2>2. CASE Len(s) < o.n
    BY <1>1, <1>11, <2>1, <2>2 DEF CallOf, CallOn, OnItem, Calls, Calling, Mem, MemWith, Of, Nothing, Trace, Emit, Does, drop, sx
  <2>3. CASE ~(Len(s) < o.n)
    BY <1>1, <1>11, <2>1, <2>3 DEF CallOf, CallOn, OnItem, Calls, Calling, Mem, MemWith, Of, Nothing, Trace, Emit, Does, drop, sx
  <2> QED
    BY <2>2, <2>3
<1>12. CASE o.is = "intersperse"
  <2>1. (s = <<>> <=> Len(s) = 0) /\ sx # <<>>
    BY <1>1 DEF sx
  <2>2. <<Element, x>> = <<Element>> \o <<x>>
    BY ItemFacts
  <2>3. CASE s = <<>>
    BY <1>1, <1>12, <2>1, <2>3 DEF CallOf, CallOn, OnItem, Calls, Calling, Mem, MemWith, Of, Trace, Emit, Does, intersperse, sx
  <2>4. CASE s # <<>>
    <3>1. Len(s) + 1 # 1
      BY <1>1, <2>1, <2>4
    <3>2. c = Trace(<<Element>> \o <<x>>, "end")
      BY <1>1, <1>12, <3>1 DEF CallOf, CallOn, Calling, Both, Of, Trace
    <3>3. d = Emit(<<Element, x>>, 1) /\ Mem(o, sx) = 1
      BY <1>12, <2>1, <2>4 DEF OnItem, Calls, Mem, MemWith, intersperse
    <3> QED
      BY <2>2, <3>2, <3>3 DEF Emit, Does, Trace, sx
  <2> QED
    BY <2>3, <2>4
<1>13. o.is \in {"map", "map_async", "and_then", "flat_map", "filter", "collect", "map_concat", "distinct",
                 "enumerate", "drop", "intersperse"}
  BY DEF Calling, Counting
<1> QED
  BY <1>3, <1>4, <1>5, <1>6, <1>7, <1>8, <1>9, <1>10, <1>11, <1>12, <1>13 DEF sx

\* A pending trace ends with how the upstream does.
LEMMA AfterFacts ==
    /\ \A s, d : d.st = "on" => After(Pend(s), d) = Pend(s \o d.out)
    /\ \A s, d : d.st # "on" => After(Pend(s), d) = Trace(s \o d.out, d.st)
    /\ \A s : Pend(s).items = s /\ Pend(s).fin = "pending"
    /\ \A s \in Seq(Item) : Pend(s) \in Traces
  BY TraceFacts DEF After, Pend

\* What the operators that only pass on how their upstream finishes do then.
LEMMA PassesOn ==
    ASSUME Setup, NEW o, NEW m, NEW e \in Finals,
           o.is \notin {"concat", "interleave", "recover", "recover_with", "map_error"},
           o.is \in {"grouped", "grouped_within"} => e # "end"
    PROVE  LET d == IF e = "end" THEN OnEnd(o, m) ELSE OnError(o, m, e)
           IN  d.out = <<>> /\ d.st = e
<1>1. e # "timeout"
  BY FinalFacts
<1>2. CASE e = "end"
  BY <1>2 DEF OnEnd, Does
<1>3. CASE e # "end"
  BY <1>1, <1>3 DEF OnError, Raise, Does
<1> QED
  BY <1>2, <1>3

\* map, filter, flat_map and their like follow the laws derived from flat_map.
LEMMA ObeysCalling ==
    ASSUME Setup, NEW o, o \in Operators, o.is \in Calling \cup Counting
    PROVE  Obeys(o)
<1>0. /\ \A t : Law(o, t, other) = Bind(t, Called(o, t.items))
      /\ o.is \notin {"concat", "interleave", "recover", "recover_with", "map_error", "grouped",
                      "grouped_within", "scan", "prepend", "sliding", "zip_with", "take"}
  BY DEF Law, Calling, Counting
<1>1. Begins(o)
  <2>1. Called(o, <<>>) = <<>>
    BY DEF Called
  <2>2. Law(o, Pend(<<>>), other) = Pend(<<>>)
    <3>1. FailsOf(<<>>) = {} /\ ItemsTo(<<>>, 0) = <<>> /\ Len(<<>>) = 0 /\ <<>> \in Seq(Traces)
      BY DEF FailsOf, ItemsTo
    <3>2. Bind(Pend(<<>>), <<>>) = Trace(FlattenSeq(ItemsTo(<<>>, Len(<<>>))), Pend(<<>>).fin)
      BY <3>1, BindIs, Zenon
    <3>3. Bind(Pend(<<>>), <<>>) = Trace(FlattenSeq(<<>>), "pending")
      BY <3>1, <3>2, AfterFacts, Zenon
    <3> QED
      BY <1>0, <2>1, <3>3, AfterFacts, FlattenEmpty DEF Pend
  <2>3. Fresh(o) = Emit(<<>>, IF o.is = "distinct" THEN {} ELSE 0)
    BY <1>0 DEF Fresh
  <2>4. Mem(o, <<>>) = IF o.is = "distinct" THEN {} ELSE 0
    <3>1. o \in Operators /\ o.is = "drop" => o.n \in Nat
      BY DEF Operators
    <3>2. Len(<<>>) = 0 /\ 1..0 = {}
      OBVIOUS
    <3>3. CASE o.is = "drop"
      BY <3>1, <3>2, <3>3 DEF Mem, MemWith
    <3>4. CASE o.is = "distinct"
      <4>1. Mem(o, <<>>) = {Head(<<>>[i]) : i \in 1..Len(<<>>)}
        BY <3>4 DEF Mem, MemWith
      <4> QED
        BY <3>2, <3>4, <4>1
    <3>5. CASE o.is \notin {"drop", "distinct"}
      BY <1>0, <3>2, <3>5 DEF Mem, MemWith
    <3> QED
      BY <3>3, <3>4, <3>5
  <2> QED
    BY <2>2, <2>3, <2>4, ItemFacts DEF Begins, Emit, Does
<1>2. ASSUME NEW s \in Seq(Item), NEW x \in Item PROVE GoesOn(o, s, x)
  <2> DEFINE l == Law(o, Pend(s), other)
             d == OnItem(o, Mem(o, s), x)
             n == Law(o, Pend(Append(s, x)), other)
             c == CallOf(o, Append(s, x), Len(s) + 1)
             ss == Called(o, s)
  <2>1. ss \in Seq(Traces) /\ \A i \in 1..Len(ss) : ss[i].fin \in {"end", "bad", "sub"}
    BY CalledTyped
  <2>2. c \in Traces /\ c.fin \in {"end", "bad", "sub"}
    <3>1. Append(s, x) \in Seq(Item) /\ Len(s) + 1 \in 1..Len(Append(s, x))
      OBVIOUS
    <3> QED
      BY <3>1, CallTyped
  <2>3. l = Bind(Pend(s), ss) /\ n = Bind(Pend(Append(s, x)), Append(ss, c))
    <3>1. l = Bind(Pend(s), Called(o, Pend(s).items)) /\ Pend(s).items = s
          /\ n = Bind(Pend(Append(s, x)), Called(o, Pend(Append(s, x)).items))
          /\ Pend(Append(s, x)).items = Append(s, x)
      BY <1>0, AfterFacts, Zenon
    <3>2. Called(o, Append(s, x)) = Append(ss, c)
      BY CalledMore, Zenon
    <3> QED
      BY <3>1, <3>2, Zenon
  <2>4. /\ d.out = c.items /\ d.st = IF c.fin = "end" THEN "on" ELSE c.fin
        /\ d.st = "on" => d.mem = Mem(o, Append(s, x))
    BY CallDone
  <2>5. /\ d.out \in Seq(Item) /\ d.st \in Finals \cup {"on"}
        /\ d.st = "on" <=> c.fin = "end"
    BY <2>2, <2>4, TraceFacts, FinalFacts
  <2>6. (l.fin = "pending" <=> FailsOf(ss) = {}) /\ (FailsOf(ss) # {} => n = l)
    <3>1. ASSUME FailsOf(ss) = {} PROVE l.fin = "pending"
      BY <2>1, <2>3, <3>1, BindIs, TraceFacts, AfterFacts
    <3>2. ASSUME FailsOf(ss) # {} PROVE l.fin # "pending" /\ n = l
      <4> DEFINE k == Min(FailsOf(ss))
      <4>1. k \in 1..Len(ss)
        BY <2>1, <3>2, FailsIn, MinIs
      <4>2. l.fin = ss[k].fin
        BY <2>1, <2>3, <3>2, BindIs, TraceFacts
      <4>3. n = l
        BY <2>1, <2>2, <2>3, <3>2, BindFailed
      <4> QED
        BY <2>1, <4>1, <4>2, <4>3
    <3> QED
      BY <3>1, <3>2
  <2>7. FailsOf(ss) = {} => n = After(l, d)
    <3> SUFFICES ASSUME FailsOf(ss) = {} PROVE n = After(l, d)
      OBVIOUS
    <3> DEFINE f == FlattenSeq(ItemsTo(ss, Len(ss)))
    <3>1. n = Trace(f \o c.items, IF c.fin = "end" THEN "pending" ELSE c.fin)
      BY <2>1, <2>2, <2>3, BindMore, AfterFacts
    <3>2. l = Pend(f)
      BY <2>1, <2>3, BindIs, AfterFacts DEF Pend
    <3> HIDE DEF n, l, d, c, f
    <3> QED
      BY <2>4, <2>5, <3>1, <3>2, AfterFacts DEF Pend
  <2> HIDE DEF l, d, n, c, ss
  <2>8. IF l.fin = "pending"
        THEN /\ n = After(l, d) /\ d.out \in Seq(Item) /\ d.st \in Finals \cup {"on"}
             /\ d.st = "on" => d.mem = Mem(o, Append(s, x))
        ELSE n = l
    BY <2>4, <2>5, <2>6, <2>7
  <2> QED
    BY <2>8 DEF GoesOn, l, d, n
<1>3. ASSUME NEW s \in Seq(Item), NEW e \in Finals PROVE Stops(o, s, e)
  <2> DEFINE l == Law(o, Pend(s), other)
             d == IF e = "end" THEN OnEnd(o, Mem(o, s)) ELSE OnError(o, Mem(o, s), e)
             n == Law(o, Trace(s, e), other)
             ss == Called(o, s)
  <2>1. ss \in Seq(Traces) /\ \A i \in 1..Len(ss) : ss[i].fin \in {"end", "bad", "sub"}
    BY CalledTyped
  <2>2. l = Bind(Pend(s), ss) /\ n = Bind(Trace(s, e), ss)
    BY <1>0, AfterFacts, TraceFacts
  <2>3. d.out = <<>> /\ d.st = e
    <3>1. /\ o.is \notin {"concat", "interleave", "recover", "recover_with", "map_error"}
          /\ o.is \in {"grouped", "grouped_within"} => e # "end"
      BY <1>0
    <3> QED
      BY <3>1, PassesOn, Zenon
  <2>4. e # "on" /\ e \in Finals
    BY FinalFacts
  <2>5. CASE FailsOf(ss) = {}
    <3> DEFINE f == FlattenSeq(ItemsTo(ss, Len(ss)))
    <3>1. l = Pend(f) /\ n = Trace(f, e)
      BY <2>1, <2>2, <2>5, BindIs, AfterFacts, TraceFacts DEF Pend
    <3>2. f \in Seq(Item)
      <4>1. Len(ss) \in Nat /\ Len(ss) <= Len(ss)
        BY <2>1
      <4>2. ItemsTo(ss, Len(ss)) \in Seq(Seq(Item))
        BY <2>1, <4>1, ItemsTyped
      <4> QED
        BY <4>2, FlattenTyped
    <3> HIDE DEF l, d, n, f
    <3>3. f \o <<>> = f
      BY <3>2
    <3>4. After(Pend(f), d) = Trace(f \o d.out, d.st)
      BY <2>3, <2>4, AfterFacts
    <3>5. n = After(l, d) /\ d.out \in Seq(Item) /\ d.st \in Finals /\ l.fin = "pending"
      BY <2>3, <2>4, <3>1, <3>3, <3>4, AfterFacts, ItemFacts
    <3> QED
      BY <3>5 DEF Stops, l, d, n
  <2>6. CASE FailsOf(ss) # {}
    <3> DEFINE k == Min(FailsOf(ss))
    <3>1. k \in 1..Len(ss)
      BY <2>1, <2>6, FailsIn, MinIs
    <3>2. l.fin = ss[k].fin
      BY <2>1, <2>2, <2>6, BindIs, TraceFacts
    <3>3. n = l
      BY <2>1, <2>2, <2>6, BindIs, TraceFacts
    <3>4. l.fin # "pending"
      BY <2>1, <3>1, <3>2
    <3> HIDE DEF l, d, n
    <3> QED
      BY <3>3, <3>4 DEF Stops, l, d, n
  <2> QED
    BY <2>5, <2>6
<1> QED
  BY <1>1, <1>2, <1>3 DEF Obeys

----------------------------------------------------------------------------
(* The others. First the ways in which a generator can follow its law.        *)

\* It yields what the law has more,
LEMMA Continues ==
    ASSUME NEW o, NEW s \in Seq(Item), NEW x \in Item, NEW f \in Seq(Item), NEW r \in Seq(Item),
           Law(o, Pend(s), other) = Pend(f), Law(o, Pend(Append(s, x)), other) = Pend(f \o r),
           OnItem(o, Mem(o, s), x) = Emit(r, Mem(o, Append(s, x)))
    PROVE  GoesOn(o, s, x)
<1> DEFINE d == OnItem(o, Mem(o, s), x)
<1>1. d.out = r /\ d.mem = Mem(o, Append(s, x)) /\ d.st = "on"
  BY DEF Emit, Does
<1> HIDE DEF d
<1>2. After(Pend(f), d) = Pend(f \o r) /\ Pend(f).fin = "pending"
  BY <1>1, AfterFacts, Zenon
<1> QED
  BY <1>1, <1>2 DEF GoesOn, d

\* it stops where the law stops,
LEMMA Breaks ==
    ASSUME NEW o, NEW s \in Seq(Item), NEW x \in Item, NEW f \in Seq(Item), NEW r \in Seq(Item),
           NEW m, NEW e \in Finals, e # "on",
           Law(o, Pend(s), other) = Pend(f), Law(o, Pend(Append(s, x)), other) = Trace(f \o r, e),
           OnItem(o, Mem(o, s), x) = Does(r, m, e)
    PROVE  GoesOn(o, s, x)
<1> DEFINE d == OnItem(o, Mem(o, s), x)
<1>1. d.out = r /\ d.st = e
  BY DEF Does
<1> HIDE DEF d
<1>2. After(Pend(f), d) = Trace(f \o r, e) /\ Pend(f).fin = "pending"
  BY <1>1, AfterFacts, Zenon
<1> QED
  BY <1>1, <1>2 DEF GoesOn, d

\* it has stopped, and so has the law;
LEMMA StaysBroken ==
    ASSUME NEW o, NEW s \in Seq(Item), NEW x \in Item, Law(o, Pend(s), other).fin # "pending",
           Law(o, Pend(Append(s, x)), other) = Law(o, Pend(s), other)
    PROVE  GoesOn(o, s, x)
  BY DEF GoesOn

\* it finishes as the law does,
LEMMA Ends ==
    ASSUME NEW o, NEW s \in Seq(Item), NEW e, NEW f \in Seq(Item), NEW r \in Seq(Item),
           NEW m, NEW g \in Finals, g # "on",
           Law(o, Pend(s), other) = Pend(f), Law(o, Trace(s, e), other) = Trace(f \o r, g),
           (IF e = "end" THEN OnEnd(o, Mem(o, s)) ELSE OnError(o, Mem(o, s), e)) = Does(r, m, g)
    PROVE  Stops(o, s, e)
<1> DEFINE d == IF e = "end" THEN OnEnd(o, Mem(o, s)) ELSE OnError(o, Mem(o, s), e)
<1>1. d.out = r /\ d.st = g
  BY DEF Does
<1> HIDE DEF d
<1>2. After(Pend(f), d) = Trace(f \o r, g) /\ Pend(f).fin = "pending"
  BY <1>1, AfterFacts, Zenon
<1> QED
  BY <1>1, <1>2 DEF Stops, d

\* or had finished before.
LEMMA EndsBroken ==
    ASSUME NEW o, NEW s \in Seq(Item), NEW e, Law(o, Pend(s), other).fin # "pending",
           Law(o, Trace(s, e), other) = Law(o, Pend(s), other)
    PROVE  Stops(o, s, e)
  BY DEF Stops

\* How a stream that only passes on the end of its upstream ends.
LEMMA EndsAlike ==
    ASSUME Setup, NEW o, NEW s \in Seq(Item), NEW e \in Finals, NEW f \in Seq(Item),
           o.is \notin {"concat", "interleave", "recover", "recover_with", "map_error"},
           o.is \in {"grouped", "grouped_within"} => e # "end",
           Law(o, Pend(s), other) = Pend(f), Law(o, Trace(s, e), other) = Trace(f, e)
    PROVE  Stops(o, s, e)
<1> DEFINE d == IF e = "end" THEN OnEnd(o, Mem(o, s)) ELSE OnError(o, Mem(o, s), e)
<1>1. d.out = <<>> /\ d.st = e
  BY PassesOn, Zenon
<1> HIDE DEF d
<1>2. e \in Finals /\ e # "on" /\ f \o <<>> = f
  BY FinalFacts
<1>3. After(Pend(f), d) = Trace(f \o d.out, d.st) /\ Pend(f).fin = "pending"
  BY <1>1, <1>2, AfterFacts
<1> QED
  BY <1>1, <1>2, <1>3, ItemFacts DEF Stops, d

\* An operator that hands on every item, and only looks at how its upstream ends.
LEMMA ObeysPassing ==
    ASSUME Setup, ~late, NEW o,
           o.is \in {"throttle", "keep_alive", "idle_timeout", "completion_timeout", "watch_termination",
                     "concat", "recover", "recover_with", "map_error"}
    PROVE  Obeys(o)
<1>1. \A s : Law(o, Pend(s), other) = Pend(s)
  <2> TAKE s
  <2> DEFINE t == Trace(s, "pending")
  <2>1. t.fin = "pending" /\ ~Failed(t) /\ Both(t, other) = t
    BY DEF Trace, Both, Failed
  <2> HIDE DEF t
  <2>2. Law(o, t, other) = t
    BY <2>1 DEF Law, Calling, Counting
  <2> QED
    BY <2>2 DEF t, Pend
<1>2. \A s : Mem(o, s) = 0
  BY DEF Mem, MemWith
<1>3. Begins(o)
  BY <1>1, <1>2, ItemFacts DEF Begins, Fresh, Emit, Does
<1>4. ASSUME NEW s \in Seq(Item), NEW x \in Item PROVE GoesOn(o, s, x)
  <2>1. OnItem(o, 0, x) = Emit(<<x>>, 0)
    BY DEF OnItem, Calls, completion_timeout
  <2>2. Append(s, x) = s \o <<x>> /\ <<x>> \in Seq(Item)
    OBVIOUS
  <2> QED
    <3>1. Law(o, Pend(s), other) = Pend(s) /\ Law(o, Pend(Append(s, x)), other) = Pend(s \o <<x>>)
      BY <1>1, <2>2
    <3>2. OnItem(o, Mem(o, s), x) = Emit(<<x>>, Mem(o, Append(s, x)))
      BY <1>2, <2>1
    <3> QED
      BY <2>2, <3>1, <3>2, Continues
<1>5. ASSUME NEW s \in Seq(Item), NEW e \in Finals PROVE Stops(o, s, e)
  <2>0. /\ e \notin {"on", "pending", "timeout"} /\ other.fin \in Finals /\ other.fin # "on"
        /\ other.items \in Seq(Item) /\ <<Element>> \in Seq(Item) /\ <<>> \in Seq(Item)
        /\ "end" \in Finals /\ "mapped" \in Finals /\ s \o <<>> = s /\ Append(s, Element) = s \o <<Element>>
    <3>1. s \o <<>> = s /\ Append(s, Element) = s \o <<Element>> /\ <<Element>> \in Seq(Item)
      BY ItemFacts
    <3> QED
      BY <3>1, FinalFacts, ItemFacts DEF Setup
  <2>1. CASE o.is \in {"throttle", "keep_alive", "idle_timeout", "completion_timeout", "watch_termination"}
    <3>1. Law(o, Trace(s, e), other) = Trace(s, e)
      BY <2>1 DEF Law, Calling, Counting
    <3> QED
      BY <1>1, <2>1, <3>1, EndsAlike
  <2>2. CASE o.is = "concat"
    <3>1. CASE e = "end"
      <4>1. Law(o, Trace(s, e), other) = Trace(s \o other.items, other.fin)
        BY <2>2, <3>1 DEF Law, Both, Trace, Calling, Counting
      <4>2. OnEnd(o, Mem(o, s)) = Does(other.items, Mem(o, s), other.fin)
        BY <2>2 DEF OnEnd
      <4> QED
        BY <1>1, <2>0, <3>1, <4>1, <4>2, Ends
    <3>2. CASE e # "end"
      <4>1. Law(o, Trace(s, e), other) = Trace(s \o <<>>, e)
        BY <2>0, <2>2, <3>2 DEF Law, Both, Trace, Calling, Counting
      <4>2. OnError(o, Mem(o, s), e) = Does(<<>>, <<>>, e)
        BY <2>0, <2>2 DEF OnError, Raise
      <4> QED
        BY <1>1, <2>0, <3>2, <4>1, <4>2, Ends
    <3> QED
      BY <3>1, <3>2
  <2>3. CASE o.is \in {"recover", "recover_with", "map_error"} /\ e = "end"
    <3>1. Law(o, Trace(s, e), other) = Trace(s \o <<>>, "end")
      BY <2>0, <2>3 DEF Law, Trace, Failed, Calling, Counting
    <3>2. OnEnd(o, Mem(o, s)) = Does(<<>>, Mem(o, s), "end")
      BY <2>3 DEF OnEnd
    <3> QED
      BY <1>1, <2>0, <2>3, <3>1, <3>2, Ends
  <2>4. CASE o.is = "recover" /\ e # "end"
    <3>1. Law(o, Trace(s, e), other) = Trace(s \o <<Element>>, "end")
      BY <2>0, <2>4 DEF Law, Trace, Failed, Calling, Counting
    <3>2. OnError(o, Mem(o, s), e) = Does(<<Element>>, Mem(o, s), "end")
      BY <2>4 DEF OnError, Timed
    <3> QED
      BY <1>1, <2>0, <2>4, <3>1, <3>2, Ends
  <2>5. CASE o.is = "recover_with" /\ e # "end"
    <3>1. Law(o, Trace(s, e), other) = Trace(s \o other.items, other.fin)
      BY <2>0, <2>5 DEF Law, Trace, Failed, Calling, Counting
    <3>2. OnError(o, Mem(o, s), e) = Does(other.items, Mem(o, s), other.fin)
      BY <2>5 DEF OnError, Timed
    <3> QED
      BY <1>1, <2>0, <2>5, <3>1, <3>2, Ends
  <2>6. CASE o.is = "map_error" /\ e # "end"
    <3>1. Law(o, Trace(s, e), other) = Trace(s \o <<>>, "mapped")
      BY <2>0, <2>6 DEF Law, Trace, Failed, Calling, Counting
    <3>2. OnError(o, Mem(o, s), e) = Does(<<>>, <<>>, "mapped")
      BY <2>6 DEF OnError, Timed, Raise
    <3> QED
      BY <1>1, <2>0, <2>6, <3>1, <3>2, Ends
  <2> QED
    BY <2>1, <2>2, <2>3, <2>4, <2>5, <2>6
<1> QED
  BY <1>3, <1>4, <1>5 DEF Obeys

\* prepend starts with its items, and then hands on what comes.
LEMMA ObeysPrepend ==
    ASSUME Setup, NEW o, o.is = "prepend"
    PROVE  Obeys(o)
<1>1. ASSUME NEW s, NEW e PROVE Law(o, Trace(s, e), other) = Trace(<<Element>> \o s, e)
  <2>1. Law(o, Trace(s, e), other) = Both(Of(Element), Trace(s, e))
    BY DEF Law, Calling, Counting
  <2> QED
    BY <2>1 DEF Both, Of, Trace
<1>2. \A s : Mem(o, s) = 0
  BY DEF Mem, MemWith
<1>3. Begins(o)
  <2>1. <<Element>> \o <<>> = <<Element>> /\ <<Element>> \in Seq(Item)
    BY ItemFacts
  <2> QED
    BY <1>1, <1>2, <2>1 DEF Begins, Fresh, Emit, Does, Pend
<1>4. ASSUME NEW s \in Seq(Item) PROVE <<Element>> \o s \in Seq(Item)
  BY ItemFacts
<1>5. ASSUME NEW s \in Seq(Item), NEW x \in Item PROVE GoesOn(o, s, x)
  <2>1. OnItem(o, 0, x) = Emit(<<x>>, 0)
    BY DEF OnItem, Calls
  <2>2. <<Element>> \o Append(s, x) = (<<Element>> \o s) \o <<x>> /\ <<x>> \in Seq(Item)
    BY ItemFacts
  <2>3. Law(o, Pend(s), other) = Pend(<<Element>> \o s)
        /\ Law(o, Pend(Append(s, x)), other) = Pend(<<Element>> \o Append(s, x))
    BY <1>1 DEF Pend
  <2> QED
    <3>1. OnItem(o, Mem(o, s), x) = Emit(<<x>>, Mem(o, Append(s, x)))
      BY <1>2, <2>1
    <3>2. Law(o, Pend(Append(s, x)), other) = Pend((<<Element>> \o s) \o <<x>>)
      BY <2>2, <2>3
    <3> QED
      BY <1>4, <2>2, <2>3, <3>1, <3>2, Continues
<1>6. ASSUME NEW s \in Seq(Item), NEW e \in Finals PROVE Stops(o, s, e)
  <2>1. Law(o, Pend(s), other) = Pend(<<Element>> \o s) /\ Law(o, Trace(s, e), other) = Trace(<<Element>> \o s, e)
    BY <1>1 DEF Pend
  <2> QED
    BY <1>4, <2>1, EndsAlike
<1> QED
  BY <1>3, <1>5, <1>6 DEF Obeys

\* zip_with and take stop when their other stream, or their count, is used up.
Limit(o) == IF o.is = "take" THEN o.n ELSE Len(other.items)
Over(o)  == IF o.is = "take" THEN "end" ELSE other.fin
With(o, s, n) == [i \in 1..n |-> IF o.is = "take" THEN s[i] ELSE s[i] \o other.items[i]]

\* The law of zip_with and take, up to the limit and beyond.
LEMMA PairedIs ==
    ASSUME Setup, NEW o \in Operators, o.is \in {"zip_with", "take"}, NEW s \in Seq(Item), NEW e
    PROVE  /\ Limit(o) \in Nat /\ Over(o) \in Finals
           /\ Law(o, Trace(s, e), other) = IF Len(s) > Limit(o) THEN Trace(With(o, s, Limit(o)), Over(o))
                                           ELSE Trace(With(o, s, Len(s)), e)
<1>0. Len(s) \in Nat
  OBVIOUS
<1>1. CASE o.is = "zip_with"
  <2> DEFINE M == Len(other.items)
             n == IF Len(s) < M THEN Len(s) ELSE M
             q == [i \in 1..n |-> <<s[i], other.items[i]>>]
  <2>1. M \in Nat /\ other.fin \in Finals /\ Limit(o) = M /\ Over(o) = other.fin
    BY <1>1, FinalFacts DEF Setup, Limit, Over
  <2>2. Paired(Trace(s, e), other) = Trace(q, IF Len(s) > M THEN other.fin ELSE e)
    BY DEF Paired, Trace
  <2>3. Len(q) = n /\ \A i \in 1..n : q[i][1] \o q[i][2] = s[i] \o other.items[i]
    <3>1. n \in Nat
      BY <1>0, <2>1
    <3> HIDE DEF n
    <3>2. \A i \in 1..n : q[i] = <<s[i], other.items[i]>>
      OBVIOUS
    <3>3. Len(q) = n
      BY <3>1
    <3> QED
      BY <3>2, <3>3
  <2> HIDE DEF q
  <2>4. Law(o, Trace(s, e), other)
          = Trace([i \in 1..n |-> s[i] \o other.items[i]], IF Len(s) > M THEN other.fin ELSE e)
    <3>1. Law(o, Trace(s, e), other)
            = Trace([i \in 1..Len(q) |-> q[i][1] \o q[i][2]], IF Len(s) > M THEN other.fin ELSE e)
      <4> DEFINE p == Paired(Trace(s, e), other)
      <4>1. Law(o, Trace(s, e), other) = Mapped(p, LAMBDA w : w[1] \o w[2])
        BY <1>1 DEF Law, Calling, Counting
      <4>2. p.items = q /\ p.fin = IF Len(s) > M THEN other.fin ELSE e
        BY <2>2, TraceFacts
      <4> HIDE DEF p
      <4>3. Mapped(p, LAMBDA w : w[1] \o w[2]) = Trace([i \in 1..Len(p.items) |-> p.items[i][1] \o p.items[i][2]], p.fin)
        BY DEF Mapped
      <4> QED
        BY <4>1, <4>2, <4>3, Zenon
    <3>2. [i \in 1..Len(q) |-> q[i][1] \o q[i][2]] = [i \in 1..n |-> s[i] \o other.items[i]]
      BY <2>3
    <3> QED
      BY <3>1, <3>2
  <2>5. With(o, s, n) = [i \in 1..n |-> s[i] \o other.items[i]]
    BY <1>1 DEF With
  <2>6. Len(s) > M => n = M
    BY <1>0, <2>1
  <2>7. ~(Len(s) > M) => n = Len(s)
    BY <1>0, <2>1
  <2> HIDE DEF n, M
  <2> QED
    BY <2>1, <2>4, <2>5, <2>6, <2>7
<1>2. CASE o.is = "take"
  <2> DEFINE M == o.n
             n == IF Len(s) < M THEN Len(s) ELSE M
             u == [i \in 1..M |-> i - 1]
             q == [i \in 1..n |-> <<s[i], u[i]>>]
  <2>1. M \in Nat /\ "end" \in Finals /\ Limit(o) = M /\ Over(o) = "end"
    BY <1>2, FinalFacts DEF Limit, Over, Operators
  <2>2. Paired(Trace(s, e), Upto(M)) = Trace(q, IF Len(s) > M THEN "end" ELSE e)
    <3>1. Len(u) = M
      <4> HIDE DEF M
      <4> QED
        BY <2>1
    <3>2. Upto(M) = Trace(u, "end")
      BY DEF Upto
    <3> HIDE DEF u, M
    <3> QED
      <4>1. Paired(Trace(s, e), Trace(u, "end"))
              = Trace([i \in 1..(IF Len(s) < Len(u) THEN Len(s) ELSE Len(u)) |-> <<s[i], u[i]>>],
                      IF Len(s) > Len(u) THEN "end" ELSE e)
        BY DEF Paired, Trace
      <4> QED
        BY <3>1, <3>2, <4>1, Zenon
  <2>3. Len(q) = n /\ \A i \in 1..n : q[i][1] = s[i]
    <3>1. n \in Nat
      BY <1>0, <2>1
    <3> HIDE DEF n
    <3> QED
      BY <3>1
  <2> HIDE DEF q
  <2>4. Law(o, Trace(s, e), other) = Trace([i \in 1..n |-> s[i]], IF Len(s) > M THEN "end" ELSE e)
    <3>1. Law(o, Trace(s, e), other)
            = Trace([i \in 1..Len(q) |-> q[i][1]], IF Len(s) > M THEN "end" ELSE e)
      BY <1>2, <2>2, TraceFacts DEF Law, Mapped, Calling, Counting
    <3>2. [i \in 1..Len(q) |-> q[i][1]] = [i \in 1..n |-> s[i]]
      BY <2>3
    <3> QED
      BY <3>1, <3>2
  <2>5. With(o, s, n) = [i \in 1..n |-> s[i]]
    BY <1>2 DEF With
  <2>6. Len(s) > M => n = M
    BY <1>0, <2>1
  <2>7. ~(Len(s) > M) => n = Len(s)
    BY <1>0, <2>1
  <2> HIDE DEF n, M
  <2> QED
    BY <2>1, <2>4, <2>5, <2>6, <2>7
<1> QED
  BY <1>1, <1>2

\* The pairs of the first n items.
LEMMA WithTyped ==
    ASSUME Setup, NEW o \in Operators, NEW s \in Seq(Item), NEW n \in Nat, n <= Len(s),
           o.is = "zip_with" => n <= Len(other.items), o.is \in {"zip_with", "take"}
    PROVE  With(o, s, n) \in Seq(Item) /\ Len(With(o, s, n)) = n
<1>1. CASE o.is = "take"
  <2>1. With(o, s, n) = [i \in 1..n |-> s[i]]
    BY <1>1 DEF With
  <2> QED
    BY <2>1
<1>2. CASE o.is = "zip_with"
  <2>1. With(o, s, n) = [i \in 1..n |-> s[i] \o other.items[i]]
    BY <1>2 DEF With
  <2>2. \A i \in 1..n : s[i] \in Item /\ other.items[i] \in Item
    BY <1>2 DEF Setup
  <2>3. \A i \in 1..n : s[i] \o other.items[i] \in Item
    BY <2>2, ItemFacts
  <2> QED
    BY <2>1, <2>3
<1> QED
  BY <1>1, <1>2

\* The generator counts what the law pairs.
LEMMA ObeysPairing ==
    ASSUME Setup, NEW o \in Operators, o.is \in {"zip_with", "take"}
    PROVE  Obeys(o)
<1> DEFINE M == Limit(o)
<1>0. M \in Nat /\ Over(o) \in Finals /\ Over(o) # "on" /\ Over(o) # "pending"
  <2>1. <<>> \in Seq(Item)
    BY ItemFacts
  <2> QED
    BY <2>1, PairedIs, FinalFacts
<1>1. Begins(o)
  <2>1. With(o, <<>>, 0) = <<>> /\ Len(<<>>) = 0 /\ <<>> \in Seq(Item)
    BY DEF With
  <2>2. Law(o, Pend(<<>>), other) = Pend(<<>>)
    <3>1. ~(0 > Limit(o))
      BY <1>0
    <3> QED
      BY <2>1, <3>1, PairedIs DEF Pend
  <2> QED
    BY <2>1, <2>2 DEF Begins, Fresh, Mem, MemWith, Emit, Does
<1>2. ASSUME NEW s \in Seq(Item), NEW x \in Item PROVE GoesOn(o, s, x)
  <2> DEFINE sx == Append(s, x)
             L  == Len(s)
  <2>1. /\ sx \in Seq(Item) /\ Len(sx) = L + 1 /\ L \in Nat /\ sx[L + 1] = x
        /\ \A i \in 1..L : sx[i] = s[i]
    BY AppendFacts
  <2>2. /\ Law(o, Pend(s), other) = IF L > M THEN Trace(With(o, s, M), Over(o)) ELSE Pend(With(o, s, L))
        /\ Law(o, Pend(sx), other) = IF L + 1 > M THEN Trace(With(o, sx, M), Over(o)) ELSE Pend(With(o, sx, L + 1))
    BY <2>1, PairedIs DEF Pend
  <2>3. Mem(o, s) = L /\ Mem(o, sx) = L + 1
    BY <2>1 DEF Mem, MemWith
  <2>4. \A n \in 0..L : With(o, sx, n) = With(o, s, n)
    BY <2>1 DEF With
  <2> HIDE DEF sx
  <2>5. CASE L > M
    <3>1. L + 1 > M /\ M \in 0..L
      BY <1>0, <2>1, <2>5
    <3>2. Law(o, Pend(sx), other) = Law(o, Pend(s), other) /\ Law(o, Pend(s), other) = Trace(With(o, s, M), Over(o))
      BY <2>2, <2>4, <2>5, <3>1
    <3>3. Law(o, Pend(s), other).fin # "pending"
      BY <1>0, <3>2, TraceFacts
    <3> QED
      BY <3>2, <3>3, StaysBroken DEF sx
  <2>6. CASE L = M
    <3>1. L + 1 > M /\ ~(L > M) /\ M \in 0..L
      BY <1>0, <2>1, <2>6
    <3>2. With(o, s, L) \in Seq(Item)
      <4>1. L <= L /\ (o.is = "zip_with" => L <= Len(other.items))
        BY <2>1, <2>6 DEF Limit
      <4> QED
        BY <2>1, <4>1, WithTyped
    <3>3. /\ Law(o, Pend(s), other) = Pend(With(o, s, L))
          /\ Law(o, Pend(sx), other) = Trace(With(o, s, L) \o <<>>, Over(o))
      <4>1. With(o, s, L) \o <<>> = With(o, s, L)
        BY <3>2
      <4> QED
        BY <2>2, <2>4, <2>6, <3>1, <4>1
    <3>4. OnItem(o, L, x) = Does(<<>>, L, Over(o))
      <4>1. ~(L < Len(other.items)) \/ o.is = "take"
        BY <1>0, <2>1, <2>6 DEF Limit
      <4>2. L >= o.n \/ o.is = "zip_with"
        BY <1>0, <2>1, <2>6 DEF Limit
      <4> QED
        BY <4>1, <4>2 DEF OnItem, Calls, zip_with, take, Over
    <3> HIDE DEF L
    <3> QED
      BY <1>0, <2>3, <3>2, <3>3, <3>4, ItemFacts, Breaks DEF sx
  <2>7. CASE L < M
    <3> DEFINE y == IF o.is = "take" THEN x ELSE x \o other.items[L + 1]
    <3>0. ~(L + 1 > M) /\ ~(L > M) /\ L + 1 \in Nat /\ L + 1 <= Len(sx)
          /\ L + 1 \in 1..M
      BY <1>0, <2>1, <2>7
    <3>1. o.is = "zip_with" => L + 1 <= Len(other.items) /\ L <= Len(other.items)
      BY <2>1, <3>0 DEF Limit
    <3>2. y \in Item
      <4>1. CASE o.is = "take"
        BY <4>1
      <4>2. CASE o.is = "zip_with"
        <5>1. other.items[L + 1] \in Item
          BY <2>1, <3>1, <4>2 DEF Setup
        <5> QED
          BY <4>2, <5>1, ItemFacts
      <4> QED
        BY <4>1, <4>2
    <3>3. /\ With(o, s, L) \in Seq(Item) /\ Len(With(o, s, L)) = L
          /\ With(o, sx, L + 1) \in Seq(Item) /\ Len(With(o, sx, L + 1)) = L + 1
      <4>1. L <= L
        BY <2>1
      <4> QED
        BY <2>1, <3>0, <3>1, <4>1, WithTyped
    <3>4. With(o, sx, L + 1) = With(o, s, L) \o <<y>>
      <4>1. \A i \in 1..L : With(o, sx, L + 1)[i] = With(o, s, L)[i]
        <5>1. \A i \in 1..L : i \in 1..L + 1
          BY <2>1
        <5> QED
          BY <2>1, <5>1 DEF With
      <4>2. With(o, sx, L + 1)[L + 1] = y
        <5>1. L + 1 \in 1..L + 1
          BY <2>1
        <5> QED
          BY <2>1, <5>1 DEF With
      <4> HIDE DEF y, L
      <4> QED
        BY <2>1, <3>2, <3>3, <4>1, <4>2
    <3>5. OnItem(o, L, x) = Emit(<<y>>, L + 1)
      <4>1. L < Len(other.items) \/ o.is = "take"
        BY <2>7 DEF Limit
      <4>2. ~(L >= o.n) \/ o.is = "zip_with"
        BY <1>0, <2>1, <2>7 DEF Limit
      <4> QED
        BY <4>1, <4>2 DEF OnItem, Calls, zip_with, take
    <3>6. Law(o, Pend(s), other) = Pend(With(o, s, L)) /\ Law(o, Pend(sx), other) = Pend(With(o, s, L) \o <<y>>)
      BY <2>2, <3>0, <3>4
    <3>7. <<y>> \in Seq(Item)
      BY <3>2
    <3> HIDE DEF y, L
    <3> QED
      BY <2>3, <3>3, <3>5, <3>6, <3>7, Continues DEF sx
  <2> QED
    BY <1>0, <2>1, <2>5, <2>6, <2>7
<1>3. ASSUME NEW s \in Seq(Item), NEW e \in Finals PROVE Stops(o, s, e)
  <2>0. Len(s) \in Nat
    OBVIOUS
  <2>1. /\ Law(o, Pend(s), other) = IF Len(s) > M THEN Trace(With(o, s, M), Over(o)) ELSE Pend(With(o, s, Len(s)))
        /\ Law(o, Trace(s, e), other) = IF Len(s) > M THEN Trace(With(o, s, M), Over(o)) ELSE Trace(With(o, s, Len(s)), e)
    BY PairedIs DEF Pend
  <2>2. CASE Len(s) > M
    BY <1>0, <2>1, <2>2, TraceFacts, EndsBroken
  <2>3. CASE ~(Len(s) > M)
    <3>1. With(o, s, Len(s)) \in Seq(Item)
      <4>1. Len(s) <= Len(s) /\ (o.is = "zip_with" => Len(s) <= Len(other.items))
        BY <1>0, <2>0, <2>3 DEF Limit
      <4> QED
        BY <2>0, <4>1, WithTyped
    <3>2. /\ o.is \notin {"concat", "interleave", "recover", "recover_with", "map_error"}
          /\ ~(o.is \in {"grouped", "grouped_within"})
      OBVIOUS
    <3> QED
      BY <2>1, <2>3, <3>1, <3>2, EndsAlike
  <2> QED
    BY <2>2, <2>3
<1> QED
  BY <1>1, <1>2, <1>3 DEF Obeys

\* take_while and scan stop at an item that is refused.
More(L, T, U) == T \subseteq 1..L /\ U \subseteq 1..L + 1 /\ \A i \in 1..L : i \in T <=> i \in U
Kept(L, T, U) == T # {} /\ More(L, T, U)

\* A place that comes later does not change the least.
LEMMA LeastOfMore ==
    ASSUME NEW L \in Nat, NEW T, NEW U, More(L, T, U)
    PROVE  /\ T # {} => U # {} /\ Min(U) = Min(T) /\ Min(T) \in 1..L /\ Min(T) \in T
           /\ T = {} /\ U # {} => Min(U) = L + 1
<1>0. /\ T \subseteq Nat /\ U \subseteq Nat
      /\ T \subseteq 1..L /\ U \subseteq 1..L + 1 /\ \A i \in 1..L : i \in T <=> i \in U
  BY DEF More
<1>1. ASSUME T # {} PROVE U # {} /\ Min(U) = Min(T) /\ Min(T) \in 1..L /\ Min(T) \in T
  <2>1. Min(T) \in T /\ \A k \in T : Min(T) <= k
    BY <1>0, <1>1, MinIs
  <2>2. Min(T) \in 1..L /\ Min(T) \in U
    BY <1>0, <2>1
  <2>3. Min(U) \in U /\ \A k \in U : Min(U) <= k
    BY <1>0, <2>2, MinIs
  <2>4. Min(U) <= Min(T) /\ Min(U) \in 1..L
    <3>1. Min(U) \in 1..L + 1 /\ Min(U) <= Min(T)
      BY <1>0, <2>2, <2>3
    <3> QED
      BY <2>2, <3>1
  <2>5. Min(T) <= Min(U)
    BY <1>0, <2>1, <2>3, <2>4
  <2> QED
    BY <2>1, <2>2, <2>4, <2>5
<1>2. ASSUME T = {}, U # {} PROVE Min(U) = L + 1
  <2>1. Min(U) \in U
    BY <1>0, <1>2, MinIs
  <2>2. Min(U) \in 1..L + 1 /\ Min(U) \notin 1..L
    BY <1>0, <1>2, <2>1
  <2> QED
    BY <2>2
<1> QED
  BY <1>1, <1>2

\* Before with nothing refused,
LEMMA BeforeNone ==
    ASSUME NEW t, NEW fin
    PROVE  Before(t, {}, fin) = t
  BY DEF Before

\* with something refused,
LEMMA BeforeFails ==
    ASSUME NEW t, NEW T, NEW fin
    PROVE  T # {} => Before(t, T, fin).fin = fin
  BY DEF Before, Trace

\* with something refused already,
LEMMA BeforeSome ==
    ASSUME NEW s \in Seq(Item), NEW x \in Item, NEW T, NEW U, NEW e, NEW fin, Kept(Len(s), T, U)
    PROVE  /\ Min(T) = Min(U) /\ Min(T) \in 1..Len(s) /\ U # {}
           /\ Before(Trace(Append(s, x), e), U, fin) = Before(Trace(s, e), T, fin)
<1> USE DEF Kept
<1>0. Len(s) \in Nat
  OBVIOUS
<1>1. U # {} /\ Min(U) = Min(T) /\ Min(T) \in 1..Len(s) /\ Min(T) \in T
  BY <1>0, LeastOfMore
<1>2. SubSeq(Append(s, x), 1, Min(T) - 1) = SubSeq(s, 1, Min(T) - 1)
  <2> DEFINE n == Min(T) - 1
  <2>1. n \in 0..Len(s)
    BY <1>0, <1>1
  <2> HIDE DEF n
  <2>2. SubSeq(Append(s, x), 1, n) = SubSeq(s, 1, n)
    BY <1>0, <2>1
  <2> QED
    BY <2>2 DEF n
<1>3. Before(Trace(s, e), T, fin) = Trace(SubSeq(s, 1, Min(T) - 1), fin)
  BY <1>1, TraceFacts DEF Before
<1>4. Before(Trace(Append(s, x), e), U, fin) = Trace(SubSeq(Append(s, x), 1, Min(U) - 1), fin)
  BY <1>1, TraceFacts DEF Before
<1>5. Before(Trace(Append(s, x), e), U, fin) = Before(Trace(s, e), T, fin)
  BY <1>1, <1>2, <1>3, <1>4, Zenon
<1> QED
  BY <1>1, <1>5

\* and with the last item refused.
LEMMA BeforeLast ==
    ASSUME NEW s \in Seq(Item), NEW x \in Item, NEW U, NEW e, NEW fin, More(Len(s), {}, U)
    PROVE  U # {} => Min(U) = Len(s) + 1 /\ Before(Trace(Append(s, x), e), U, fin) = Trace(s, fin)
<1> HAVE U # {}
<1>1. Len(s) \in Nat
  OBVIOUS
<1>2. Min(U) = Len(s) + 1
  BY <1>1, LeastOfMore
<1>3. Min(U) - 1 = Len(s)
  BY <1>1, <1>2
<1>4. SubSeq(Append(s, x), 1, Len(s)) = s
  OBVIOUS
<1>5. Before(Trace(Append(s, x), e), U, fin) = Trace(SubSeq(Append(s, x), 1, Min(U) - 1), fin)
  BY TraceFacts DEF Before
<1> QED
  BY <1>2, <1>3, <1>4, <1>5

RefusedIn(s) == {i \in 1..Len(s) : Bad(s[i]) \/ ~P(s[i])}
RaisedAt(s)  == {i \in 1..Len(s) : Bad(s[i])}

\* The refused places of a sequence that is one longer.
LEMMA RefusedMore ==
    ASSUME NEW s \in Seq(Item), NEW x \in Item
    PROVE  /\ More(Len(s), RefusedIn(s), RefusedIn(Append(s, x)))
           /\ RefusedIn(Append(s, x)) = {} <=> RefusedIn(s) = {} /\ ~Bad(x) /\ P(x)
           /\ More(Len(s), RaisedAt(s), RaisedAt(Append(s, x)))
           /\ RaisedAt(Append(s, x)) = {} <=> RaisedAt(s) = {} /\ ~Bad(x)
<1> DEFINE sx == Append(s, x)
<1>1. /\ Len(sx) = Len(s) + 1 /\ Len(s) \in Nat /\ sx[Len(s) + 1] = x /\ \A i \in 1..Len(s) : sx[i] = s[i]
  BY AppendFacts
<1> HIDE DEF sx
<1>2. \A i \in 1..Len(s) : i \in 1..Len(s) + 1
  BY <1>1
<1>3. Len(s) + 1 \in 1..Len(s) + 1
  BY <1>1
<1>4. /\ RefusedIn(sx) \subseteq 1..Len(s) + 1 /\ RaisedAt(sx) \subseteq 1..Len(s) + 1
      /\ \A i \in 1..Len(s) : (i \in RefusedIn(s) <=> i \in RefusedIn(sx)) /\ (i \in RaisedAt(s) <=> i \in RaisedAt(sx))
      /\ Len(s) + 1 \in RefusedIn(sx) <=> Bad(x) \/ ~P(x)
      /\ Len(s) + 1 \in RaisedAt(sx) <=> Bad(x)
  BY <1>1, <1>2, <1>3 DEF RefusedIn, RaisedAt
<1>5. /\ RefusedIn(s) \subseteq 1..Len(s) /\ RaisedAt(s) \subseteq 1..Len(s)
      /\ \A i \in 1..Len(s) + 1 : i \in 1..Len(s) \/ i = Len(s) + 1
  BY <1>1 DEF RefusedIn, RaisedAt
<1>6. RefusedIn(sx) = {} <=> RefusedIn(s) = {} /\ ~Bad(x) /\ P(x)
  BY <1>4, <1>5
<1>7. RaisedAt(sx) = {} <=> RaisedAt(s) = {} /\ ~Bad(x)
  BY <1>4, <1>5
<1> QED
  BY <1>4, <1>5, <1>6, <1>7 DEF sx, More

\* The law of take_while.
LEMMA TakenIs ==
    ASSUME NEW o, o.is = "take_while", NEW s \in Seq(Item), NEW e
    PROVE  Law(o, Trace(s, e), other)
             = Before(Trace(s, e), RefusedIn(s),
                      IF RefusedIn(s) # {} /\ Bad(s[Min(RefusedIn(s))]) THEN "bad" ELSE "end")
<1>1. Law(o, Trace(s, e), other) = TakenWhile(Trace(s, e))
  BY DEF Law, Calling, Counting
<1>2. DOMAIN s = 1..Len(s)
  OBVIOUS
<1> QED
  <2> DEFINE t == Trace(s, e)
  <2>1. t.items = s
    BY TraceFacts
  <2> HIDE DEF t
  <2>2. TakenWhile(t) = Before(t, RefusedIn(s), IF RefusedIn(s) # {} /\ Bad(s[Min(RefusedIn(s))]) THEN "bad" ELSE "end")
    BY <1>2, <2>1, Zenon DEF TakenWhile, RefusedIn
  <2> QED
    BY <1>1, <2>2 DEF t

\* take_while stops at the first item that is refused, and fails if its predicate
\* raised.
LEMMA ObeysTakeWhile ==
    ASSUME Setup, NEW o, o.is = "take_while"
    PROVE  Obeys(o)
<1> DEFINE T(s) == RefusedIn(s)
           e0(s) == IF RefusedIn(s) # {} /\ Bad(s[Min(RefusedIn(s))]) THEN "bad" ELSE "end"
<1>1. Begins(o)
  <2>1. <<>> \in Seq(Item) /\ RefusedIn(<<>>) = {}
    BY DEF RefusedIn
  <2>2. Law(o, Pend(<<>>), other) = Pend(<<>>)
    BY <2>1, TakenIs DEF Pend, Before
  <2> QED
    BY <2>1, <2>2 DEF Begins, Fresh, Mem, MemWith, Emit, Does
<1>2. ASSUME NEW s \in Seq(Item), NEW x \in Item PROVE GoesOn(o, s, x)
  <2> DEFINE sx == Append(s, x)
             U  == RefusedIn(sx)
  <2>1. Len(s) \in Nat /\ sx \in Seq(Item) /\ sx[Len(s) + 1] = x /\ \A i \in 1..Len(s) : sx[i] = s[i]
    BY AppendFacts
  <2>2. More(Len(s), T(s), U) /\ (U = {} <=> T(s) = {} /\ ~Bad(x) /\ P(x))
    BY RefusedMore
  <2>3. /\ Law(o, Pend(s), other) = Before(Pend(s), T(s), e0(s))
        /\ Law(o, Pend(sx), other) = Before(Pend(sx), U, e0(sx))
    BY <2>1, TakenIs DEF Pend
  <2>4. Mem(o, s) = 0 /\ Mem(o, sx) = 0
    BY DEF Mem, MemWith
  <2>5. e0(s) \in {"end", "bad"}
    OBVIOUS
  <2>6. CASE T(s) # {}
    <3>1. /\ Min(T(s)) = Min(U) /\ Min(T(s)) \in 1..Len(s) /\ U # {}
          /\ Before(Pend(sx), U, e0(s)) = Before(Pend(s), T(s), e0(s)) /\ Before(Pend(s), T(s), e0(s)).fin = e0(s)
      <4> DEFINE V == T(s)
                 g == e0(s)
      <4>1. V # {} /\ More(Len(s), V, U)
        BY <2>2, <2>6
      <4> HIDE DEF V, U, g
      <4> QED
        <5>0. Kept(Len(s), V, U)
          BY <4>1 DEF Kept
        <5> HIDE DEF T, e0
        <5>1. Min(V) = Min(U) /\ Min(V) \in 1..Len(s) /\ U # {}
          BY <5>0, BeforeSome
        <5>3. Before(Trace(Append(s, x), "pending"), U, g) = Before(Trace(s, "pending"), V, g)
          BY <5>0, BeforeSome
        <5>2. Before(Trace(s, "pending"), V, g).fin = g
          BY <4>1, BeforeFails
        <5> QED
          BY <5>1, <5>2, <5>3, Zenon DEF V, g, Pend
    <3>2. e0(sx) = e0(s)
      BY <2>1, <2>6, <3>1
    <3> HIDE DEF T, e0, U, sx
    <3>3. Law(o, Pend(sx), other) = Law(o, Pend(s), other) /\ Law(o, Pend(s), other).fin # "pending"
      BY <2>3, <2>5, <3>1, <3>2
    <3> QED
      BY <3>3, StaysBroken DEF sx
  <2>7. CASE T(s) = {}
    <3>1. Law(o, Pend(s), other) = Pend(s)
      BY <2>3, <2>7, BeforeNone
    <3>2. CASE U = {}
      <4>1. ~Bad(x) /\ P(x)
        BY <2>2, <3>2
      <4>2. Law(o, Pend(sx), other) = Pend(s \o <<x>>)
        <5>1. sx = s \o <<x>>
          OBVIOUS
        <5>2. Law(o, Pend(sx), other) = Pend(sx)
          BY <2>3, <3>2, BeforeNone
        <5> QED
          BY <5>1, <5>2
      <4>3. OnItem(o, 0, x) = Emit(<<x>>, 0)
        BY <4>1 DEF OnItem, take_while, Calls
      <4> QED
        BY <2>4, <3>1, <4>2, <4>3, ItemFacts, Continues
    <3>3. CASE U # {}
      <4> DEFINE e == IF Bad(x) THEN "bad" ELSE "end"
      <4>1. Min(U) = Len(s) + 1 /\ Before(Pend(sx), U, e0(sx)) = Trace(s, e0(sx))
        <5> DEFINE g == e0(sx)
        <5>1. More(Len(s), {}, U)
          BY <2>2, <2>7
        <5> HIDE DEF U, g
        <5>2. Min(U) = Len(s) + 1 /\ Before(Trace(Append(s, x), "pending"), U, g) = Trace(s, g)
          BY <3>3, <5>1, BeforeLast
        <5> QED
          BY <5>2 DEF g, Pend
      <4>2. e0(sx) = e
        BY <2>1, <3>3, <4>1
      <4>3. Law(o, Pend(sx), other) = Trace(s \o <<>>, e)
        <5>1. s \o <<>> = s
          OBVIOUS
        <5> HIDE DEF e, e0, U, sx
        <5> QED
          BY <2>3, <4>1, <4>2, <5>1
      <4>4. Bad(x) \/ ~P(x)
        BY <2>2, <2>7, <3>3
      <4>5. \E m : OnItem(o, 0, x) = Does(<<>>, m, e)
        BY <4>4 DEF OnItem, take_while, Calls, Raise, Does
      <4>6. e \in Finals /\ e # "on"
        BY FinalFacts
      <4> HIDE DEF e
      <4> QED
        BY <2>4, <3>1, <4>3, <4>5, <4>6, ItemFacts, Breaks
    <3> QED
      BY <3>2, <3>3
  <2> QED
    BY <2>6, <2>7
<1>3. ASSUME NEW s \in Seq(Item), NEW e \in Finals PROVE Stops(o, s, e)
  <2>1. /\ Law(o, Pend(s), other) = Before(Pend(s), T(s), e0(s))
        /\ Law(o, Trace(s, e), other) = Before(Trace(s, e), T(s), e0(s))
    BY TakenIs DEF Pend
  <2>2. CASE T(s) = {}
    <3>1. Law(o, Pend(s), other) = Pend(s) /\ Law(o, Trace(s, e), other) = Trace(s, e)
      BY <2>1, <2>2 DEF Before
    <3> QED
      BY <3>1, EndsAlike
  <2>3. CASE T(s) # {}
    <3>1. Law(o, Pend(s), other) = Trace(SubSeq(s, 1, Min(T(s)) - 1), e0(s))
          /\ Law(o, Trace(s, e), other) = Trace(SubSeq(s, 1, Min(T(s)) - 1), e0(s))
      BY <2>1, <2>3, TraceFacts DEF Pend, Before
    <3>2. e0(s) \in {"end", "bad"}
      OBVIOUS
    <3> HIDE DEF e0, T
    <3>3. Law(o, Pend(s), other).fin # "pending"
      BY <3>1, <3>2, TraceFacts
    <3> QED
      BY <3>1, <3>3, EndsBroken
  <2> QED
    BY <2>2, <2>3
<1> QED
  BY <1>1, <1>2, <1>3 DEF Obeys

Sums(s) == [i \in 1..Len(s) + 1 |-> Zero \o FlattenSeq(SubSeq(s, 1, i - 1))]

\* Concatenation of items is associative.
LEMMA ItemRegroup ==
    ASSUME NEW p1 \in Item, NEW p2 \in Item, NEW p3 \in Item
    PROVE  p1 \o (p2 \o p3) = (p1 \o p2) \o p3
<1>0. p1 \in Seq(Nat) /\ p2 \in Seq(Nat) /\ p3 \in Seq(Nat)
  BY DEF Item
<1>1. Len(p1) \in Nat /\ Len(p2) \in Nat /\ Len(p3) \in Nat /\ p1 \o p2 \in Seq(Nat) /\ p2 \o p3 \in Seq(Nat)
  BY <1>0
<1> DEFINE l == p1 \o (p2 \o p3)
           r == (p1 \o p2) \o p3
<1>2. l \in Seq(Nat) /\ r \in Seq(Nat) /\ Len(l) = Len(p1) + Len(p2) + Len(p3) /\ Len(r) = Len(l)
  BY <1>0, <1>1
<1>3. ASSUME NEW i \in 1..Len(l) PROVE l[i] = r[i]
  BY <1>0, <1>1, <1>2
<1> HIDE DEF l, r
<1>4. l = r
  BY <1>2, <1>3, SeqEqual
<1> QED
  BY <1>4 DEF l, r

\* So what follows the first of three is an item of its own.
LEMMA ItemJoin ==
    ASSUME NEW a \in Item, NEW b \in Item, NEW c \in Item
    PROVE  (a \o b) \o c = a \o (b \o c) /\ b \o c \in Item
<1>1. b \o c \in Item
  BY ItemFacts
<1>2. a \o (b \o c) = (a \o b) \o c
  BY ItemRegroup
<1> QED
  BY <1>1, <1>2

\* The running sums of a sequence that is one longer.
LEMMA SumsFacts ==
    ASSUME NEW s \in Seq(Item), NEW x \in Item
    PROVE  /\ Sums(s) \in Seq(Item) /\ Sums(<<>>) = <<Zero>> /\ Zero \o FlattenSeq(<<>>) = Zero
           /\ Zero \o FlattenSeq(s) \in Item
           /\ Zero \o FlattenSeq(Append(s, x)) = (Zero \o FlattenSeq(s)) \o x
           /\ Sums(Append(s, x)) = Sums(s) \o <<(Zero \o FlattenSeq(s)) \o x>>
<1> DEFINE sx == Append(s, x)
<1>1. /\ sx \in Seq(Item) /\ Len(sx) = Len(s) + 1 /\ Len(s) \in Nat
  BY AppendFacts
<1>2. \A q \in Seq(Item) : FlattenSeq(q) \in Item
  BY FlattenTyped DEF Item
<1>3. \A q \in Seq(Item) : Zero \o FlattenSeq(q) \in Item
  BY <1>2, ItemFacts
<1>4. \A q \in Seq(Item) : \A n \in 0..Len(q) : SubSeq(q, 1, n) \in Seq(Item)
  OBVIOUS
<1>5. \A q \in Seq(Item) : Sums(q) \in Seq(Item) /\ Len(Sums(q)) = Len(q) + 1
  <2> TAKE q \in Seq(Item)
  <2>1. Len(q) \in Nat /\ \A i \in 1..Len(q) + 1 : i - 1 \in 0..Len(q)
    OBVIOUS
  <2>2. \A i \in 1..Len(q) + 1 : Zero \o FlattenSeq(SubSeq(q, 1, i - 1)) \in Item
    BY <1>3, <1>4, <2>1
  <2> QED
    BY <2>1, <2>2 DEF Sums
<1>6. FlattenSeq(<<>>) = <<>> /\ Zero \o <<>> = Zero
  BY FlattenEmpty DEF Zero
<1>7. Sums(<<>>) = <<Zero>>
  <2>1. Len(<<>>) + 1 = 1 /\ SubSeq(<<>>, 1, 1 - 1) = <<>>
    OBVIOUS
  <2>2. Sums(<<>>) \in Seq(Item) /\ Len(Sums(<<>>)) = 1
    BY <1>5, <2>1, ItemFacts
  <2>3. Sums(<<>>)[1] = Zero
    <3>1. 1 \in 1..Len(<<>>) + 1
      BY <2>1
    <3>2. Sums(<<>>)[1] = Zero \o FlattenSeq(SubSeq(<<>>, 1, 1 - 1))
      BY <3>1, Zenon DEF Sums
    <3> QED
      BY <1>6, <2>1, <3>2, Zenon
  <2> QED
    BY <2>2, <2>3
<1>8. FlattenSeq(sx) = FlattenSeq(s) \o x
  <2>1. s \in Seq(Seq(Nat)) /\ x \in Seq(Nat)
    BY DEF Item
  <2> QED
    BY <2>1, FlattenAppend
<1>9. Zero \o FlattenSeq(sx) = (Zero \o FlattenSeq(s)) \o x
  <2>1. PICK a : a = FlattenSeq(s)
    OBVIOUS
  <2>2. a \in Item /\ x \in Item /\ Zero \in Item
    BY <1>2, <2>1, ItemFacts
  <2>3. Zero \o (a \o x) = (Zero \o a) \o x
    BY <2>2, ItemRegroup
  <2> QED
    BY <1>8, <2>1, <2>3
<1>10. Sums(sx) = Sums(s) \o <<Zero \o FlattenSeq(sx)>>
  <2> DEFINE z == Zero \o FlattenSeq(sx)
  <2>1. z \in Item
    BY <1>1, <1>3
  <2>2. /\ Sums(s) \in Seq(Item) /\ Len(Sums(s)) = Len(s) + 1
        /\ Sums(sx) \in Seq(Item) /\ Len(Sums(sx)) = Len(s) + 2
    <3>1. (Len(s) + 1) + 1 = Len(s) + 2
      BY <1>1
    <3> QED
      BY <1>1, <1>5, <3>1
  <2>3. ASSUME NEW i \in 1..Len(s) + 1 PROVE Sums(sx)[i] = Sums(s)[i]
    <3>1. SubSeq(sx, 1, i - 1) = SubSeq(s, 1, i - 1)
      <4> DEFINE n == i - 1
      <4>1. n \in 0..Len(s)
        BY <1>1
      <4> HIDE DEF n
      <4>2. SubSeq(Append(s, x), 1, n) = SubSeq(s, 1, n)
        BY <1>1, <4>1
      <4> QED
        BY <4>2 DEF n
    <3>2. i \in 1..Len(sx) + 1
      BY <1>1
    <3> QED
      BY <3>1, <3>2 DEF Sums
  <2>4. Sums(sx)[Len(s) + 2] = z
    <3>1. Len(s) + 2 \in 1..Len(sx) + 1 /\ (Len(s) + 2) - 1 = Len(sx)
      BY <1>1
    <3>2. SubSeq(sx, 1, Len(sx)) = sx
      BY <1>1
    <3> QED
      BY <3>1, <3>2 DEF Sums
  <2> HIDE DEF z, sx
  <2>5. /\ Sums(s) \o <<z>> \in Seq(Item) /\ Len(Sums(s) \o <<z>>) = Len(s) + 2
        /\ (\A i \in 1..Len(s) + 1 : (Sums(s) \o <<z>>)[i] = Sums(s)[i]) /\ (Sums(s) \o <<z>>)[Len(s) + 2] = z
    BY <1>1, <2>1, <2>2
  <2>6. \A i \in 1..Len(s) + 2 : i \in 1..Len(s) + 1 \/ i = Len(s) + 2
    BY <1>1
  <2>7. \A i \in 1..Len(s) + 2 : Sums(sx)[i] = (Sums(s) \o <<z>>)[i]
    BY <2>3, <2>4, <2>5, <2>6
  <2>8. Sums(sx) = Sums(s) \o <<z>>
    BY <2>2, <2>5, <2>7, SeqEqual
  <2> QED
    BY <2>8 DEF z
<1> QED
  BY <1>3, <1>5, <1>6, <1>7, <1>9, <1>10

\* The law of scan.
LEMMA ScanIs ==
    ASSUME NEW o, o.is = "scan", NEW s \in Seq(Item), NEW e
    PROVE  Law(o, Trace(s, e), other) = Scanned(Before(Trace(s, e), RaisedAt(s), "bad"))
<1>1. Law(o, Trace(s, e), other) = Scanned(Safe(Trace(s, e)))
  BY DEF Law, Calling, Counting
<1>2. DOMAIN s = 1..Len(s) /\ Trace(s, e).items = s
  BY TraceFacts
<1> DEFINE t == Trace(s, e)
<1> HIDE DEF t
<1>3. t.items = s => Safe(t) = Before(t, RaisedAt(s), "bad")
  BY <1>2, Zenon DEF Safe, RaisedAt
<1> QED
  BY <1>1, <1>2, <1>3 DEF t

\* The sums of a trace.
LEMMA ScannedIs == \A s, e : Scanned(Trace(s, e)) = Trace(Sums(s), e)
  BY DEF Scanned, Sums, Trace

\* The accumulator of scan is the last of the sums.
LEMMA ObeysScan ==
    ASSUME Setup, NEW o, o.is = "scan"
    PROVE  Obeys(o)
<1>0. \A s, x : Mem(o, s) = Zero \o FlattenSeq(s)
  BY DEF Mem, MemWith
<1>1. Begins(o)
  <2>1. <<>> \in Seq(Item) /\ RaisedAt(<<>>) = {}
    BY DEF RaisedAt
  <2>2. Law(o, Pend(<<>>), other) = Pend(<<Zero>>)
    <3>1. Law(o, Trace(<<>>, "pending"), other) = Scanned(Before(Trace(<<>>, "pending"), {}, "bad"))
      BY <2>1, ScanIs
    <3>2. Sums(<<>>) = <<Zero>>
      BY ItemFacts, SumsFacts
    <3> QED
      BY <3>1, <3>2, BeforeNone, ScannedIs DEF Pend
  <2>3. Fresh(o) = Emit(<<Zero>>, Zero)
    BY DEF Fresh
  <2>4. Mem(o, <<>>) = Zero
    BY <1>0, <2>1, SumsFacts, ItemFacts
  <2> QED
    BY <2>2, <2>3, <2>4, AfterFacts, ItemFacts DEF Begins, Emit, Does
<1>2. ASSUME NEW s \in Seq(Item), NEW x \in Item PROVE GoesOn(o, s, x)
  <2> DEFINE sx == Append(s, x)
             T  == RaisedAt(s)
             U  == RaisedAt(sx)
             m  == Zero \o FlattenSeq(s)
  <2>1. sx \in Seq(Item) /\ m \in Item /\ m \o x \in Item /\ Sums(s) \in Seq(Item)
    BY AppendFacts, SumsFacts, ItemFacts
  <2>2. More(Len(s), T, U) /\ (U = {} <=> T = {} /\ ~Bad(x))
    BY RefusedMore
  <2>3. /\ Law(o, Pend(s), other) = Scanned(Before(Pend(s), T, "bad"))
        /\ Law(o, Pend(sx), other) = Scanned(Before(Pend(sx), U, "bad"))
    BY <2>1, ScanIs DEF Pend
  <2>4. Mem(o, s) = m /\ Mem(o, sx) = m \o x /\ Sums(sx) = Sums(s) \o <<m \o x>>
    BY <1>0, SumsFacts
  <2> HIDE DEF m, T, U
  <2>5. CASE T # {}
    <3>1. Kept(Len(s), T, U)
      BY <2>2, <2>5 DEF Kept
    <3>2. Before(Trace(Append(s, x), "pending"), U, "bad") = Before(Trace(s, "pending"), T, "bad")
      BY <3>1, BeforeSome
    <3>3. Law(o, Pend(sx), other) = Law(o, Pend(s), other)
      BY <2>3, <3>2 DEF Pend
    <3>4. Before(Pend(s), T, "bad").fin = "bad"
      BY <2>5, BeforeFails
    <3>5. \A t : Scanned(t).fin = t.fin
      BY DEF Scanned, Trace
    <3> QED
      BY <2>3, <3>3, <3>4, <3>5, StaysBroken
  <2>6. CASE T = {}
    <3>1. Law(o, Pend(s), other) = Pend(Sums(s))
      BY <2>3, <2>6, BeforeNone, ScannedIs DEF Pend
    <3>2. CASE U = {}
      <4>1. Law(o, Pend(sx), other) = Pend(Sums(s) \o <<m \o x>>)
        BY <2>3, <2>4, <3>2, BeforeNone, ScannedIs DEF Pend
      <4>2. ~Bad(x)
        BY <2>2, <3>2
      <4>3. OnItem(o, m, x) = Emit(<<m \o x>>, m \o x)
        BY <4>2 DEF OnItem, scan, Calls
      <4>4. <<m \o x>> \in Seq(Item)
        BY <2>1
      <4> QED
        BY <2>1, <2>4, <3>1, <4>1, <4>3, <4>4, Continues
    <3>3. CASE U # {}
      <4>1. Before(Trace(Append(s, x), "pending"), U, "bad") = Trace(s, "bad")
        BY <2>2, <2>6, <3>3, BeforeLast
      <4>2. Law(o, Pend(sx), other) = Trace(Sums(s), "bad")
        BY <2>3, <4>1, ScannedIs DEF Pend
      <4>3. Sums(s) \o <<>> = Sums(s)
        BY <2>1
      <4>4. Bad(x)
        BY <2>2, <2>6, <3>3
      <4>5. OnItem(o, m, x) = Does(<<>>, <<>>, "bad")
        BY <4>4 DEF OnItem, Calls, Raise
      <4>6. "bad" \in Finals
        BY FinalFacts
      <4> QED
        BY <2>1, <2>4, <3>1, <4>2, <4>3, <4>5, <4>6, ItemFacts, Breaks
    <3> QED
      BY <3>2, <3>3
  <2> QED
    BY <2>5, <2>6
<1>3. ASSUME NEW s \in Seq(Item), NEW e \in Finals PROVE Stops(o, s, e)
  <2> DEFINE T == RaisedAt(s)
  <2>1. /\ Law(o, Pend(s), other) = Scanned(Before(Pend(s), T, "bad"))
        /\ Law(o, Trace(s, e), other) = Scanned(Before(Trace(s, e), T, "bad"))
    BY ScanIs DEF Pend
  <2> HIDE DEF T
  <2>2. CASE T = {}
    <3>1. Law(o, Pend(s), other) = Pend(Sums(s)) /\ Law(o, Trace(s, e), other) = Trace(Sums(s), e)
      BY <2>1, <2>2, BeforeNone, ScannedIs DEF Pend
    <3>2. Sums(s) \in Seq(Item)
      BY SumsFacts, ItemFacts
    <3> QED
      BY <3>1, <3>2, EndsAlike
  <2>3. CASE T # {}
    <3>1. Before(Trace(s, e), T, "bad") = Before(Pend(s), T, "bad") /\ Before(Pend(s), T, "bad").fin = "bad"
      BY <2>3, TraceFacts DEF Before, Pend
    <3>2. Law(o, Trace(s, e), other) = Law(o, Pend(s), other)
      BY <2>1, <3>1
    <3>3. Law(o, Pend(s), other).fin # "pending"
      BY <2>1, <3>1 DEF Scanned, Trace
    <3> QED
      BY <3>2, <3>3, EndsBroken
  <2> QED
    BY <2>2, <2>3
<1> QED
  BY <1>1, <1>2, <1>3 DEF Obeys

----------------------------------------------------------------------------
(* The operators that work in turns of n items.                               *)

\* Quotients, from the solver's multiplication.
LEMMA DivIs ==
    ASSUME NEW L \in Nat, NEW n \in Nat \ {0}
    PROVE  (L \div n) \in Nat /\ (L \div n) * n <= L /\ L < ((L \div n) + 1) * n
  OBVIOUS

\* There is one quotient.
LEMMA DivOnly ==
    ASSUME NEW L \in Nat, NEW n \in Nat \ {0}, NEW q \in Nat, q * n <= L, L < (q + 1) * n
    PROVE  L \div n = q
  OBVIOUS

\* Multiples are ordered.
LEMMA MultOrder ==
    ASSUME NEW n \in Nat \ {0}, NEW q \in Nat
    PROVE  /\ q * n \in Nat /\ (q + 1) * n = q * n + n
           /\ \A i \in 1..q : (i - 1) * n \in Nat /\ i * n = (i - 1) * n + n /\ i * n <= q * n
<1>1. \A i \in 1..q : i - 1 \in Nat /\ i <= q
  OBVIOUS
<1>2. \A i \in 1..q : i * n <= q * n
  OBVIOUS
<1>3. \A k \in Nat : k * n \in Nat /\ (k + 1) * n = k * n + n
  OBVIOUS
<1>4. \A i \in 1..q : (i - 1) * n \in Nat /\ i * n = (i - 1) * n + n
  <2> TAKE i \in 1..q
  <2>1. i - 1 \in Nat /\ (i - 1) + 1 = i
    OBVIOUS
  <2> QED
    BY <1>3, <2>1
<1> QED
  BY <1>2, <1>3, <1>4

\* One item more: the turn is over, or it is not.
LEMMA DivMore ==
    ASSUME NEW L \in Nat, NEW n \in Nat \ {0}
    PROVE  LET q == L \div n
           IN  /\ q \in Nat /\ q * n \in Nat /\ q * n <= L /\ L - q * n < n
               /\ L - q * n + 1 = n => (L + 1) \div n = q + 1 /\ (q + 1) * n = L + 1
               /\ L - q * n + 1 # n => (L + 1) \div n = q
<1> DEFINE q == L \div n
           a == q * n
<1>1. q \in Nat /\ a <= L /\ L < (q + 1) * n
  BY DivIs
<1> HIDE DEF q
<1>2. a \in Nat /\ (q + 1) * n = a + n /\ ((q + 1) + 1) * n = (q + 1) * n + n /\ q + 1 \in Nat
  BY <1>1, MultOrder
<1>3. ASSUME L - a + 1 = n PROVE (L + 1) \div n = q + 1 /\ (q + 1) * n = L + 1
  <2>1. (q + 1) * n = L + 1
    <3> HIDE DEF a
    <3> QED
      BY <1>1, <1>2, <1>3
  <2>2. (q + 1) * n <= L + 1 /\ L + 1 < ((q + 1) + 1) * n
    BY <1>2, <2>1
  <2> QED
    BY <1>2, <2>1, <2>2, DivOnly
<1>4. ASSUME L - a + 1 # n PROVE (L + 1) \div n = q
  <2>1. a <= L + 1 /\ L + 1 < (q + 1) * n
    <3> HIDE DEF a
    <3> QED
      BY <1>1, <1>2, <1>4
  <2> QED
    BY <1>1, <2>1, DivOnly
<1>5. L - a < n
  <2> HIDE DEF a
  <2> QED
    BY <1>1, <1>2
<1> QED
  BY <1>1, <1>2, <1>3, <1>4, <1>5 DEF q

\* A sequence that agrees with another up to its last element is that one with it
\* appended.
LEMMA OneMore ==
    ASSUME NEW S, NEW f \in Seq(S), NEW h \in Seq(S), Len(h) = Len(f) + 1, \A i \in 1..Len(f) : h[i] = f[i]
    PROVE  h = Append(f, h[Len(h)]) /\ Append(f, h[Len(h)]) = f \o <<h[Len(h)]>> /\ h[Len(h)] \in S
<1> DEFINE z == h[Len(h)]
<1>1. Len(f) \in Nat /\ Len(f) + 1 \in 1..Len(h)
  OBVIOUS
<1>2. z \in S
  BY <1>1
<1> HIDE DEF z
<1>3. Append(f, z) \in Seq(S) /\ Len(Append(f, z)) = Len(h) /\ Append(f, z) = f \o <<z>>
  BY <1>1, <1>2
<1>4. \A i \in 1..Len(h) : h[i] = Append(f, z)[i]
  <2>1. \A i \in 1..Len(h) : i \in 1..Len(f) \/ i = Len(f) + 1
    BY <1>1
  <2>2. h[Len(f) + 1] = z
    BY DEF z
  <2> QED
    BY <1>1, <1>2, <2>1, <2>2
<1>5. h = Append(f, z)
  BY <1>3, <1>4, SeqEqual
<1> QED
  BY <1>2, <1>3, <1>5 DEF z

\* A part of a sequence that has one item more.
LEMMA PartMore ==
    ASSUME NEW s \in Seq(Item), NEW x \in Item, NEW a \in Nat, a <= Len(s)
    PROVE  /\ SubSeq(s, a + 1, Len(s)) \in Seq(Item) /\ Len(SubSeq(s, a + 1, Len(s))) = Len(s) - a
           /\ SubSeq(Append(s, x), a + 1, Len(s) + 1) = Append(SubSeq(s, a + 1, Len(s)), x)
           /\ \A b \in Nat : b <= Len(s) => SubSeq(Append(s, x), a + 1, b) = SubSeq(s, a + 1, b)
<1> DEFINE L  == Len(s)
           sx == Append(s, x)
           r  == SubSeq(s, a + 1, L)
           h  == SubSeq(sx, a + 1, L + 1)
<1>1. L \in Nat /\ sx \in Seq(Item) /\ Len(sx) = L + 1 /\ sx[L + 1] = x /\ \A i \in 1..L : sx[i] = s[i]
  BY AppendFacts
<1>2. r \in Seq(Item) /\ Len(r) = L - a
  BY <1>1
<1>3. ASSUME NEW i \in 1..L - a PROVE r[i] = s[a + i]
  <2>1. (a + 1) + i - 1 = a + i
    BY <1>1
  <2> QED
    BY <1>1, <2>1
<1>4. h \in Seq(Item) /\ Len(h) = L - a + 1
  BY <1>1
<1>5. ASSUME NEW i \in 1..L - a + 1 PROVE h[i] = sx[a + i]
  <2>1. (a + 1) + i - 1 = a + i
    BY <1>1
  <2> HIDE DEF L
  <2> QED
    BY <1>1, <2>1
<1>6. h[L - a + 1] = x
  <2>1. a + (L - a + 1) = L + 1 /\ L - a + 1 \in 1..L - a + 1
    BY <1>1
  <2>2. h[L - a + 1] = sx[a + (L - a + 1)]
    BY <1>5, <2>1
  <2> HIDE DEF h, sx, L
  <2> QED
    BY <1>1, <2>1, <2>2
<1>9. ASSUME NEW i \in 1..L - a PROVE h[i] = r[i]
  <2>1. a + i \in 1..L /\ i \in 1..L - a + 1
    BY <1>1
  <2>2. h[i] = sx[a + i] /\ r[i] = s[a + i]
    BY <1>3, <1>5, <2>1
  <2> HIDE DEF h, r, sx, L
  <2> QED
    BY <1>1, <2>1, <2>2
<1>7. h = Append(r, x)
  <2> HIDE DEF h, r, L
  <2> QED
    BY <1>1, <1>2, <1>4, <1>6, <1>9, OneMore
<1>8. \A b \in Nat : b <= L => SubSeq(sx, a + 1, b) = SubSeq(s, a + 1, b)
  <2> HIDE DEF L
  <2> QED
    BY <1>1 DEF L
<1> QED
  BY <1>2, <1>7, <1>8

\* The items of the turn that is not over.
Rest(s, n) == SubSeq(s, (Len(s) \div n) * n + 1, Len(s))

\* A rest is shorter than a turn.
LEMMA RestIs ==
    ASSUME NEW s \in Seq(Item), NEW n \in Nat \ {0}
    PROVE  /\ Rest(s, n) \in Seq(Item) /\ Len(Rest(s, n)) = Len(s) - (Len(s) \div n) * n
           /\ Len(Rest(s, n)) < n
<1> DEFINE L == Len(s)
           a == (L \div n) * n
<1>1. L \in Nat
  OBVIOUS
<1>2. a \in Nat /\ a <= L /\ L - a < n
  BY <1>1, DivMore
<1> HIDE DEF a
<1>3. SubSeq(s, a + 1, L) \in Seq(Item) /\ Len(SubSeq(s, a + 1, L)) = L - a
  BY <1>1, <1>2
<1> QED
  BY <1>2, <1>3 DEF Rest, a

\* One item more: the rest is full and becomes a turn, or it grows.
LEMMA RestMore ==
    ASSUME NEW s \in Seq(Item), NEW x \in Item, NEW n \in Nat \ {0}
    PROVE  LET q  == Len(s) \div n
               sx == Append(s, x)
           IN  /\ q \in Nat /\ q * n \in Nat /\ q * n <= Len(s)
               /\ Rest(s, n) \in Seq(Item) /\ Len(Rest(s, n)) = Len(s) - q * n /\ Len(Rest(s, n)) < n
               /\ Len(Rest(s, n)) + 1 = n =>
                      /\ Len(sx) \div n = q + 1 /\ (q + 1) * n = Len(s) + 1 /\ Rest(sx, n) = <<>>
                      /\ SubSeq(sx, q * n + 1, (q + 1) * n) = Append(Rest(s, n), x)
               /\ Len(Rest(s, n)) + 1 # n => Len(sx) \div n = q /\ Rest(sx, n) = Append(Rest(s, n), x)
<1> DEFINE L  == Len(s)
           q  == L \div n
           a  == q * n
           sx == Append(s, x)
           r  == SubSeq(s, a + 1, L)
<1>1. L \in Nat /\ sx \in Seq(Item) /\ Len(sx) = L + 1
  OBVIOUS
<1>2. /\ q \in Nat /\ a \in Nat /\ a <= L /\ L - a < n
      /\ L - a + 1 = n => (L + 1) \div n = q + 1 /\ (q + 1) * n = L + 1
      /\ L - a + 1 # n => (L + 1) \div n = q
  BY <1>1, DivMore
<1>3. Rest(s, n) = r
  BY DEF Rest
<1>4. Rest(sx, n) = SubSeq(sx, ((L + 1) \div n) * n + 1, L + 1)
  BY <1>1 DEF Rest
<1> HIDE DEF q
<1>5. r \in Seq(Item) /\ Len(r) = L - a /\ SubSeq(sx, a + 1, L + 1) = Append(r, x)
  <2> HIDE DEF a
  <2> QED
    BY <1>2, PartMore
<1>6. SubSeq(sx, (L + 1) + 1, L + 1) = <<>>
  BY <1>1
<1> HIDE DEF r, sx
<1>7. ASSUME L - a + 1 = n
      PROVE  /\ Len(sx) \div n = q + 1 /\ (q + 1) * n = L + 1 /\ Rest(sx, n) = <<>>
             /\ SubSeq(sx, q * n + 1, (q + 1) * n) = Append(r, x)
  BY <1>1, <1>2, <1>4, <1>5, <1>6, <1>7
<1>8. ASSUME L - a + 1 # n PROVE Len(sx) \div n = q /\ Rest(sx, n) = Append(r, x)
  BY <1>1, <1>2, <1>4, <1>5, <1>8
<1> HIDE DEF L
<1> QED
  BY <1>2, <1>3, <1>5, <1>7, <1>8 DEF L, q, sx

\* A turn is the same in a longer sequence.
LEMMA TurnSame ==
    ASSUME NEW s \in Seq(Item), NEW x \in Item, NEW n \in Nat \ {0}, NEW i \in 1..Len(s) \div n
    PROVE  /\ SubSeq(Append(s, x), (i - 1) * n + 1, i * n) = SubSeq(s, (i - 1) * n + 1, i * n)
           /\ SubSeq(s, (i - 1) * n + 1, i * n) \in Seq(Item) /\ Len(SubSeq(s, (i - 1) * n + 1, i * n)) = n
<1> DEFINE q == Len(s) \div n
           a == (i - 1) * n
           b == i * n
<1>1. Len(s) \in Nat /\ q \in Nat /\ q * n <= Len(s)
  <2>1. Len(s) \in Nat
    OBVIOUS
  <2> QED
    BY <2>1, DivIs
<1>2. i \in 1..q
  OBVIOUS
<1> HIDE DEF q
<1>3. a \in Nat /\ b = a + n /\ b <= q * n /\ q * n \in Nat
  BY <1>1, <1>2, MultOrder
<1>4. b <= Len(s) /\ b \in Nat
  <2> HIDE DEF a, b
  <2> QED
    BY <1>1, <1>3
<1> HIDE DEF a, b
<1>5. SubSeq(Append(s, x), a + 1, b) = SubSeq(s, a + 1, b) /\ SubSeq(s, a + 1, b) \in Seq(Item)
      /\ Len(SubSeq(s, a + 1, b)) = n
  BY <1>1, <1>3, <1>4
<1> QED
  BY <1>5 DEF a, b

Full(s, n) == [i \in 1..Len(s) \div n |-> Batch(SubSeq(s, (i - 1) * n + 1, i * n))]

\* The full batches with one item more.
LEMMA FullMore ==
    ASSUME NEW s \in Seq(Item), NEW x \in Item, NEW n \in Nat \ {0}
    PROVE  /\ Full(s, n) \in Seq(Item)
           /\ Len(Rest(s, n)) + 1 = n => Full(Append(s, x), n) = Full(s, n) \o <<Batch(Append(Rest(s, n), x))>>
           /\ Len(Rest(s, n)) + 1 # n => Full(Append(s, x), n) = Full(s, n)
<1> DEFINE q  == Len(s) \div n
           sx == Append(s, x)
           f  == Full(s, n)
           h  == Full(sx, n)
<1>1. /\ q \in Nat
      /\ Len(Rest(s, n)) + 1 = n => Len(sx) \div n = q + 1 /\ SubSeq(sx, q * n + 1, (q + 1) * n) = Append(Rest(s, n), x)
      /\ Len(Rest(s, n)) + 1 # n => Len(sx) \div n = q
  BY RestMore
<1>2. \A i \in 1..q : /\ SubSeq(sx, (i - 1) * n + 1, i * n) = SubSeq(s, (i - 1) * n + 1, i * n)
                      /\ SubSeq(s, (i - 1) * n + 1, i * n) \in Seq(Item)
  BY TurnSame
<1>3. f \in Seq(Item) /\ Len(f) = q /\ \A i \in 1..q : f[i] = Batch(SubSeq(s, (i - 1) * n + 1, i * n))
  <2>1. \A i \in 1..q : Batch(SubSeq(s, (i - 1) * n + 1, i * n)) \in Item
    BY <1>2, BatchTyped
  <2>2. f = [i \in 1..q |-> Batch(SubSeq(s, (i - 1) * n + 1, i * n))]
    BY DEF Full
  <2> HIDE DEF q, f
  <2> QED
    BY <1>1, <2>1, <2>2
<1>4. h = [i \in 1..Len(sx) \div n |-> Batch(SubSeq(sx, (i - 1) * n + 1, i * n))]
  BY DEF Full
<1> HIDE DEF q, f, h
<1>5. ASSUME Len(Rest(s, n)) + 1 = n PROVE h = f \o <<Batch(Append(Rest(s, n), x))>>
  <2>1. Append(Rest(s, n), x) \in Seq(Item)
    <3>1. Rest(s, n) \in Seq(Item)
      BY RestMore
    <3> QED
      BY <3>1
  <2>2. h = [i \in 1..q + 1 |-> Batch(SubSeq(sx, (i - 1) * n + 1, i * n))]
    BY <1>1, <1>4, <1>5
  <2>3. \A i \in 1..q : h[i] = f[i]
    <3>1. \A i \in 1..q : i \in 1..q + 1
      BY <1>1
    <3> QED
      BY <1>2, <1>3, <2>2, <3>1
  <2>4. h[q + 1] = Batch(Append(Rest(s, n), x))
    <3>1. q + 1 \in 1..q + 1 /\ (q + 1) - 1 = q
      BY <1>1
    <3> QED
      BY <1>1, <1>5, <2>2, <3>1
  <2>5. h \in Seq(Item) /\ Len(h) = q + 1
    <3>1. \A i \in 1..q + 1 : Batch(SubSeq(sx, (i - 1) * n + 1, i * n)) \in Item
      <4>1. \A i \in 1..q + 1 : i \in 1..q \/ i = q + 1
        BY <1>1
      <4>2. (q + 1) - 1 = q
        BY <1>1
      <4>3. Batch(SubSeq(sx, q * n + 1, (q + 1) * n)) \in Item
        BY <1>1, <1>5, <2>1, BatchTyped
      <4>4. \A i \in 1..q : Batch(SubSeq(sx, (i - 1) * n + 1, i * n)) \in Item
        BY <1>2, BatchTyped
      <4> QED
        BY <4>1, <4>2, <4>3, <4>4
    <3>2. q + 1 \in Nat
      BY <1>1
    <3> QED
      BY <2>2, <3>1, <3>2
  <2> QED
    BY <1>3, <2>3, <2>4, <2>5, OneMore
<1>6. ASSUME Len(Rest(s, n)) + 1 # n PROVE h = f
  <2>1. h = [i \in 1..q |-> Batch(SubSeq(sx, (i - 1) * n + 1, i * n))]
    BY <1>1, <1>4, <1>6
  <2>2. f = [i \in 1..q |-> Batch(SubSeq(s, (i - 1) * n + 1, i * n))]
    BY DEF f, Full, q
  <2> QED
    BY <1>2, <2>1, <2>2
<1> QED
  BY <1>3, <1>5, <1>6 DEF f, h

\* The law of grouped: the full batches, and a partial one at the end only;
LEMMA GroupsIs ==
    ASSUME NEW o, o.is \in {"grouped", "grouped_within"}, NEW s, NEW e
    PROVE  Law(o, Trace(s, e), other)
             = Trace(Full(s, o.n) \o (IF Rest(s, o.n) # <<>> /\ e = "end" THEN <<Batch(Rest(s, o.n))>> ELSE <<>>), e)
<1>1. Law(o, Trace(s, e), other) = Trace(Groups(s, o.n, e), e)
  BY DEF Law, Calling, Counting, Trace
<1>2. Groups(s, o.n, e) = Full(s, o.n) \o (IF Rest(s, o.n) # <<>> /\ e = "end"
                                           THEN <<Batch(Rest(s, o.n))>> ELSE <<>>)
  BY Zenon DEF Groups, Full, Rest
<1> QED
  BY <1>1, <1>2

\* none while more may come.
LEMMA GroupsPend ==
    ASSUME NEW o, o.is \in {"grouped", "grouped_within"}, NEW s
    PROVE  Law(o, Pend(s), other) = Pend(Full(s, o.n) \o <<>>)
<1>1. Law(o, Pend(s), other) = Pend(Groups(s, o.n, "pending"))
  BY DEF Law, Calling, Counting, Trace, Pend
<1>2. Groups(s, o.n, "pending") = Full(s, o.n) \o <<>>
  BY DEF Groups, Full
<1> QED
  BY <1>1, <1>2

\* What the generator holds back is the rest.
LEMMA GroupsMem ==
    ASSUME NEW o, o.is \in {"grouped", "grouped_within"}, NEW s
    PROVE  Mem(o, s) = Rest(s, o.n)
  BY DEF Mem, MemWith, Rest, Turned

\* grouped yields a batch when it is full, and the rest when its upstream ends.
LEMMA ObeysGrouping ==
    ASSUME Setup, NEW o \in Operators, o.is \in {"grouped", "grouped_within"}
    PROVE  Obeys(o)
<1> DEFINE n == o.n
<1>0. n \in Nat \ {0}
  BY DEF Operators
<1>1. Begins(o)
  <2>1. <<>> \in Seq(Item) /\ Len(<<>>) = 0 /\ 0 \div n = 0
    BY <1>0
  <2>2. Rest(<<>>, n) = <<>>
    <3>1. Len(Rest(<<>>, n)) = 0 - (0 \div n) * n /\ Rest(<<>>, n) \in Seq(Item)
      BY <1>0, <2>1, RestIs
    <3> QED
      BY <1>0, <2>1, <3>1
  <2>3. Full(<<>>, n) = <<>>
    BY <2>1 DEF Full
  <2>4. Law(o, Pend(<<>>), other) = Pend(<<>>)
    <3>1. Law(o, Pend(<<>>), other) = Pend(Full(<<>>, n) \o <<>>)
      BY GroupsPend
    <3>2. <<>> \o <<>> = <<>>
      OBVIOUS
    <3> QED
      BY <2>3, <3>1, <3>2
  <2>5. Fresh(o) = Emit(<<>>, <<>>) /\ Mem(o, <<>>) = <<>>
    BY <2>2, GroupsMem DEF Fresh
  <2> QED
    BY <2>4, <2>5, ItemFacts DEF Begins, Emit, Does
<1>2. ASSUME NEW s \in Seq(Item) PROVE Law(o, Pend(s), other) = Pend(Full(s, n)) /\ Full(s, n) \in Seq(Item)
  <2>1. Full(s, n) \in Seq(Item)
    BY <1>0, FullMore, ItemFacts
  <2>2. Law(o, Pend(s), other) = Pend(Full(s, n) \o <<>>)
    BY GroupsPend
  <2> HIDE DEF n
  <2> QED
    BY <2>1, <2>2 DEF Pend
<1>3. ASSUME NEW s \in Seq(Item), NEW x \in Item PROVE GoesOn(o, s, x)
  <2> DEFINE sx == Append(s, x)
             r  == Rest(s, n)
             rx == Rest(sx, n)
  <2>1. sx \in Seq(Item) /\ r \in Seq(Item) /\ Append(r, x) \in Seq(Item)
    <3>1. r \in Seq(Item)
      BY <1>0, RestIs
    <3> QED
      BY <3>1
  <2>2. Batch(Append(r, x)) \in Item
    BY <2>1, BatchTyped
  <2>3. Mem(o, s) = r /\ Mem(o, sx) = rx
    BY GroupsMem
  <2>4. OnItem(o, r, x) = IF Len(r) + 1 = n THEN Emit(<<Batch(Append(r, x))>>, <<>>) ELSE Emit(<<>>, Append(r, x))
    BY DEF OnItem, grouped, Calls
  <2>5. CASE Len(r) + 1 = n
    <3>1. rx = <<>> /\ Full(sx, n) = Full(s, n) \o <<Batch(Append(r, x))>>
      BY <1>0, <2>5, RestMore, FullMore
    <3>2. OnItem(o, Mem(o, s), x) = Emit(<<Batch(Append(r, x))>>, Mem(o, sx))
      BY <2>3, <2>4, <2>5, <3>1
    <3>3. <<Batch(Append(r, x))>> \in Seq(Item)
      BY <2>2
    <3> HIDE DEF n, r, rx
    <3>4. Law(o, Pend(s), other) = Pend(Full(s, n)) /\ Full(s, n) \in Seq(Item)
          /\ Law(o, Pend(sx), other) = Pend(Full(s, n) \o <<Batch(Append(r, x))>>)
      BY <1>2, <2>1, <3>1
    <3> QED
      BY <3>2, <3>3, <3>4, Continues
  <2>6. CASE Len(r) + 1 # n
    <3>1. rx = Append(r, x) /\ Full(sx, n) = Full(s, n)
      BY <1>0, <2>6, RestMore, FullMore
    <3>2. OnItem(o, Mem(o, s), x) = Emit(<<>>, Mem(o, sx))
      BY <2>3, <2>4, <2>6, <3>1
    <3> HIDE DEF n, r, rx
    <3>3. Law(o, Pend(s), other) = Pend(Full(s, n)) /\ Full(s, n) \in Seq(Item)
          /\ Law(o, Pend(sx), other) = Pend(Full(s, n))
      BY <1>2, <2>1, <3>1
    <3>4. Full(s, n) \o <<>> = Full(s, n)
      BY <3>3
    <3> QED
      BY <3>2, <3>3, <3>4, ItemFacts, Continues
  <2> QED
    BY <2>5, <2>6
<1>4. ASSUME NEW s \in Seq(Item), NEW e \in Finals PROVE Stops(o, s, e)
  <2> DEFINE r == Rest(s, n)
             f == Full(s, n)
  <2>1. r \in Seq(Item) /\ f \in Seq(Item) /\ Law(o, Pend(s), other) = Pend(f)
    BY <1>0, <1>2, RestIs
  <2>2. Mem(o, s) = r /\ Law(o, Trace(s, e), other)
                           = Trace(f \o (IF r # <<>> /\ e = "end" THEN <<Batch(r)>> ELSE <<>>), e)
    BY GroupsIs, GroupsMem
  <2>3. "end" \in Finals /\ e # "on"
    BY FinalFacts
  <2> HIDE DEF n, r, f
  <2>4. CASE e = "end" /\ r # <<>>
    <3>1. OnEnd(o, r) = Does(<<Batch(r)>>, <<>>, "end")
      BY <2>4 DEF OnEnd
    <3>2. <<Batch(r)>> \in Seq(Item)
      BY <2>1, BatchTyped
    <3>3. Law(o, Trace(s, e), other) = Trace(f \o <<Batch(r)>>, e)
      BY <2>2, <2>4
    <3> QED
      BY <2>1, <2>2, <2>3, <2>4, <3>1, <3>2, <3>3, Ends
  <2>5. CASE e = "end" /\ r = <<>>
    <3>1. OnEnd(o, r) = Does(<<>>, r, "end")
      BY <2>5 DEF OnEnd
    <3>2. Law(o, Trace(s, e), other) = Trace(f \o <<>>, e)
      BY <2>2, <2>5
    <3> QED
      BY <2>1, <2>2, <2>3, <2>5, <3>1, <3>2, ItemFacts, Ends
  <2>6. CASE e # "end"
    <3>1. f \o <<>> = f
      BY <2>1
    <3>2. Law(o, Trace(s, e), other) = Trace(f, e)
      BY <2>2, <2>6, <3>1
    <3> QED
      BY <2>1, <2>6, <3>2, EndsAlike
  <2> QED
    BY <2>4, <2>5, <2>6
<1> QED
  BY <1>1, <1>3, <1>4 DEF Obeys

\* sliding: the step, the windows that are full, and the items kept for the next one.
By(o)      == IF o.step < o.n THEN o.step ELSE o.n
Count(o, L) == IF L < o.n THEN 0 ELSE 1 + (L - o.n) \div By(o)
Window(o, s, i) == SubSeq(s, (i - 1) * By(o) + 1, (i - 1) * By(o) + o.n)
Slid(o, s) == [i \in 1..Count(o, Len(s)) |-> Batch(Window(o, s, i))]

\* One item more: the next window is full, or it is not.
LEMMA CountMore ==
    ASSUME NEW o \in Operators, o.is = "sliding", NEW L \in Nat
    PROVE  LET k == Count(o, L)
               a == k * By(o)
           IN  /\ o.n \in Nat \ {0} /\ By(o) \in Nat \ {0} /\ By(o) <= o.n
               /\ k \in Nat /\ a \in Nat /\ a <= L /\ L - a < o.n
               /\ \A i \in 1..k : (i - 1) * By(o) \in Nat /\ (i - 1) * By(o) + o.n <= L
               /\ L - a + 1 = o.n => Count(o, L + 1) = k + 1 /\ (k + 1) * By(o) = a + By(o)
               /\ L - a + 1 # o.n => Count(o, L + 1) = k
<1> DEFINE n == o.n
           b == By(o)
           k == Count(o, L)
           a == k * b
<1>1. n \in Nat \ {0} /\ b \in Nat \ {0} /\ b <= n
  BY DEF Operators, By
<1>2. \A m \in Nat : Count(o, m) = IF m < n THEN 0 ELSE 1 + (m - n) \div b
  BY DEF Count
<1>3. /\ k = IF L < n THEN 0 ELSE 1 + (L - n) \div b
      /\ Count(o, L + 1) = IF L + 1 < n THEN 0 ELSE 1 + ((L + 1) - n) \div b
  <2>1. L + 1 \in Nat
    OBVIOUS
  <2> QED
    BY <1>2, <2>1, Zenon
<1> HIDE DEF n, b, k
<1>4. CASE L < n
  <2>1. k = 0 /\ a = 0
    BY <1>1, <1>3, <1>4
  <2>2. L + 1 = n => Count(o, L + 1) = 1 /\ 1 * b = b
    <3>1. ASSUME L + 1 = n PROVE Count(o, L + 1) = 1
      <4>1. (L + 1) - n = 0 /\ ~(L + 1 < n)
        BY <1>1, <3>1
      <4>2. 0 \div b = 0
        BY <1>1
      <4> QED
        BY <1>3, <4>1, <4>2
    <3> QED
      BY <1>1, <3>1
  <2>3. L + 1 # n => Count(o, L + 1) = 0
    BY <1>1, <1>3, <1>4
  <2> QED
    BY <1>1, <1>4, <2>1, <2>2, <2>3 DEF n, b, k
<1>5. CASE ~(L < n)
  <2> DEFINE d == L - n
             q == d \div b
  <2>1. d \in Nat /\ d + 1 = (L + 1) - n
    BY <1>1, <1>5
  <2>2. k = 1 + q /\ Count(o, L + 1) = 1 + (d + 1) \div b
    BY <1>1, <1>3, <1>5, <2>1
  <2> HIDE DEF d
  <2>3. /\ q \in Nat /\ q * b \in Nat /\ q * b <= d /\ d - q * b < b
        /\ d - q * b + 1 = b => (d + 1) \div b = q + 1 /\ (q + 1) * b = d + 1
        /\ d - q * b + 1 # b => (d + 1) \div b = q
    BY <1>1, <2>1, DivMore
  <2> HIDE DEF q
  <2>4. k \in Nat /\ k = q + 1
    BY <2>2, <2>3
  <2>5. a = q * b + b /\ a \in Nat /\ (k + 1) * b = a + b
    BY <1>1, <2>3, <2>4, MultOrder
  <2>6. \A i \in 1..k : (i - 1) * b \in Nat /\ (i - 1) * b + n <= L
    <3> TAKE i \in 1..k
    <3>1. (i - 1) * b \in Nat /\ i * b = (i - 1) * b + b /\ i * b <= k * b
      BY <1>1, <2>4, MultOrder
    <3> DEFINE c == (i - 1) * b
               y == q * b
               z == i * b
    <3>2. c \in Nat /\ z = c + b /\ z <= a /\ a = y + b /\ y <= d /\ y \in Nat /\ d + n = L
      BY <1>1, <2>1, <2>3, <2>5, <3>1 DEF d
    <3> HIDE DEF c, y, z, a
    <3>3. c + n <= L
      BY <1>1, <2>1, <3>2
    <3> QED
      BY <3>2, <3>3 DEF c
  <2>7. a <= L /\ L - a < n
    <3> DEFINE y == q * b
    <3>1. a = y + b /\ y <= d /\ d - y < b /\ y \in Nat /\ d + n = L
      BY <1>1, <2>1, <2>3, <2>5 DEF d
    <3> HIDE DEF y, a
    <3> QED
      BY <1>1, <2>1, <3>1
  <2>8. (L - a + 1 = n <=> d - q * b + 1 = b)
    <3> DEFINE y == q * b
    <3>1. a = y + b /\ y \in Nat /\ d + n = L
      BY <1>1, <2>1, <2>3, <2>5 DEF d
    <3>2. L - a + 1 = n <=> d - y + 1 = b
      <4> HIDE DEF y, a
      <4> QED
        BY <1>1, <2>1, <3>1
    <3> QED
      BY <3>2
  <2>9. /\ L - a + 1 = n => Count(o, L + 1) = k + 1
        /\ L - a + 1 # n => Count(o, L + 1) = k
    <3>1. L - a + 1 = n => (d + 1) \div b = q + 1
      BY <2>3, <2>8
    <3>2. L - a + 1 # n => (d + 1) \div b = q
      BY <2>3, <2>8
    <3> QED
      BY <2>2, <2>3, <2>4, <3>1, <3>2
  <2> HIDE DEF a
  <2>10. /\ k \in Nat /\ a \in Nat /\ a <= L /\ L - a < n
         /\ \A i \in 1..k : (i - 1) * b \in Nat /\ (i - 1) * b + n <= L
         /\ L - a + 1 = n => Count(o, L + 1) = k + 1 /\ (k + 1) * b = a + b
         /\ L - a + 1 # n => Count(o, L + 1) = k
    BY <2>4, <2>5, <2>6, <2>7, <2>9
  <2> QED
    BY <1>1, <2>10 DEF n, b, k, a
<1> QED
  BY <1>4, <1>5

Ahead(o, s) == SubSeq(s, Count(o, Len(s)) * By(o) + 1, Len(s))

\* The law of sliding, and what its generator holds back.
LEMMA SlidIs ==
    ASSUME NEW o \in Operators, o.is = "sliding", NEW s \in Seq(Item)
    PROVE  /\ \A e : Law(o, Trace(s, e), other) = Trace(Slid(o, s), e)
           /\ Mem(o, s) = Ahead(o, s)
<1>1. ASSUME NEW e PROVE Law(o, Trace(s, e), other) = Trace(Slid(o, s), e)
  <2>1. Law(o, Trace(s, e), other) = Trace(Windows(s, o.n, o.step), e)
    BY DEF Law, Calling, Counting, Trace
  <2>3. Count(o, Len(s)) \in Nat /\ \A i \in 1..Count(o, Len(s)) : (i - 1) * By(o) \in Nat
    <3>1. Len(s) \in Nat
      OBVIOUS
    <3> QED
      BY <3>1, CountMore
  <2>4. Windows(s, o.n, o.step)
          = [i \in 1..Count(o, Len(s)) |-> Batch(SubSeq(s, 1 + (i - 1) * By(o), (i - 1) * By(o) + o.n))]
    BY Zenon DEF Windows, Count, By
  <2>5. \A i \in 1..Count(o, Len(s)) : 1 + (i - 1) * By(o) = (i - 1) * By(o) + 1
    BY <2>3
  <2>6. Slid(o, s) = [i \in 1..Count(o, Len(s)) |-> Batch(SubSeq(s, (i - 1) * By(o) + 1, (i - 1) * By(o) + o.n))]
    BY DEF Slid, Window
  <2> QED
    BY <2>1, <2>4, <2>5, <2>6
<1>2. Mem(o, s) = Ahead(o, s)
  <2>1. CASE Len(s) < o.n
    <3>1. Mem(o, s) = s
      BY <2>1 DEF Mem, MemWith
    <3>2. Count(o, Len(s)) = 0 /\ 0 * By(o) = 0
      BY <2>1, CountMore DEF Count
    <3>3. SubSeq(s, 1, Len(s)) = s
      OBVIOUS
    <3> QED
      BY <3>1, <3>2, <3>3 DEF Ahead
  <2>2. CASE ~(Len(s) < o.n)
    BY <2>2 DEF Mem, MemWith, Ahead, Count, By
  <2> QED
    BY <2>1, <2>2
<1> QED
  BY <1>1, <1>2


\* Windows and what is held back with one item more.
LEMMA SlidMore ==
    ASSUME NEW o \in Operators, o.is = "sliding", NEW s \in Seq(Item), NEW x \in Item
    PROVE  LET r  == Ahead(o, s)
               sx == Append(s, x)
           IN  /\ Slid(o, s) \in Seq(Item) /\ r \in Seq(Item)
               /\ Len(r) + 1 = o.n => /\ Slid(o, sx) = Slid(o, s) \o <<Batch(Append(r, x))>>
                                      /\ Ahead(o, sx) = SubSeq(Append(r, x), o.step + 1, o.n)
               /\ Len(r) + 1 # o.n => Slid(o, sx) = Slid(o, s) /\ Ahead(o, sx) = Append(r, x)
<1> DEFINE n  == o.n
           b  == By(o)
           L  == Len(s)
           k  == Count(o, L)
           a  == k * b
           sx == Append(s, x)
           r  == SubSeq(s, a + 1, L)
           f  == Slid(o, s)
           h  == Slid(o, sx)
<1>1. L \in Nat /\ sx \in Seq(Item) /\ Len(sx) = L + 1
  BY AppendFacts
<1>2. /\ n \in Nat \ {0} /\ b \in Nat \ {0} /\ b <= n
      /\ k \in Nat /\ a \in Nat /\ a <= L /\ L - a < n
      /\ \A i \in 1..k : (i - 1) * b \in Nat /\ (i - 1) * b + n <= L
      /\ L - a + 1 = n => Count(o, L + 1) = k + 1 /\ (k + 1) * b = a + b
      /\ L - a + 1 # n => Count(o, L + 1) = k
  BY <1>1, CountMore
<1>3. Ahead(o, s) = r
  BY DEF Ahead
<1>4. Ahead(o, sx) = SubSeq(sx, Count(o, L + 1) * b + 1, L + 1)
  BY <1>1 DEF Ahead
<1>5. /\ r \in Seq(Item) /\ Len(r) = L - a /\ SubSeq(sx, a + 1, L + 1) = Append(r, x)
      /\ Append(r, x) \in Seq(Item) /\ Len(Append(r, x)) = L - a + 1
  <2> HIDE DEF a
  <2>1. r \in Seq(Item) /\ Len(r) = L - a /\ SubSeq(sx, a + 1, L + 1) = Append(r, x)
    BY <1>2, PartMore
  <2> HIDE DEF r
  <2>2. Append(r, x) \in Seq(Item) /\ Len(Append(r, x)) = Len(r) + 1
    BY <2>1, AppendFacts
  <2> QED
    BY <2>1, <2>2
<1>6. f = [i \in 1..k |-> Batch(SubSeq(s, (i - 1) * b + 1, (i - 1) * b + n))]
      /\ h = [i \in 1..Count(o, L + 1) |-> Batch(SubSeq(sx, (i - 1) * b + 1, (i - 1) * b + n))]
  BY <1>1 DEF Slid, Window
<1> HIDE DEF n, b, k, f, h
<1>7. ASSUME NEW i \in 1..k
      PROVE  /\ SubSeq(sx, (i - 1) * b + 1, (i - 1) * b + n) = SubSeq(s, (i - 1) * b + 1, (i - 1) * b + n)
             /\ SubSeq(s, (i - 1) * b + 1, (i - 1) * b + n) \in Seq(Item)
  <2> DEFINE c == (i - 1) * b
  <2>1. c \in Nat /\ c + n <= L
    BY <1>2
  <2> HIDE DEF c
  <2>2. c <= L /\ c + n \in Nat
    BY <1>1, <1>2, <2>1
  <2>3. SubSeq(sx, c + 1, c + n) = SubSeq(s, c + 1, c + n)
    BY <2>1, <2>2, PartMore
  <2>4. SubSeq(s, c + 1, c + n) \in Seq(Item)
    BY <2>1, <2>2
  <2> QED
    BY <2>3, <2>4 DEF c
<1>8. f \in Seq(Item) /\ Len(f) = k
  <2>1. \A i \in 1..k : Batch(SubSeq(s, (i - 1) * b + 1, (i - 1) * b + n)) \in Item
    BY <1>7, BatchTyped
  <2> QED
    BY <1>2, <1>6, <2>1
<1>9. ASSUME L - a + 1 = n
      PROVE  h = f \o <<Batch(Append(r, x))>> /\ Ahead(o, sx) = SubSeq(Append(r, x), o.step + 1, n)
  <2>1. Count(o, L + 1) = k + 1 /\ (k + 1) * b = a + b /\ a + n = L + 1
    <3> HIDE DEF a
    <3> QED
      BY <1>1, <1>2, <1>9
  <2>2. h = [i \in 1..k + 1 |-> Batch(SubSeq(sx, (i - 1) * b + 1, (i - 1) * b + n))]
    BY <1>6, <2>1
  <2>3. \A i \in 1..k : h[i] = f[i]
    <3>1. \A i \in 1..k : i \in 1..k + 1
      BY <1>2
    <3> QED
      BY <1>6, <1>7, <2>2, <3>1
  <2>4. h[k + 1] = Batch(Append(r, x))
    <3>1. k + 1 \in 1..k + 1 /\ (k + 1) - 1 = k
      BY <1>2
    <3>2. h[k + 1] = Batch(SubSeq(sx, a + 1, a + n))
      BY <2>2, <3>1
    <3> HIDE DEF a, r
    <3> QED
      BY <1>5, <2>1, <3>2
  <2>5. h \in Seq(Item) /\ Len(h) = k + 1
    <3>1. \A i \in 1..k + 1 : h[i] \in Item
      <4>1. \A i \in 1..k + 1 : i \in 1..k \/ i = k + 1
        BY <1>2
      <4>2. \A i \in 1..k : f[i] \in Item
        BY <1>8
      <4>3. Batch(Append(r, x)) \in Item
        BY <1>5, BatchTyped
      <4> QED
        BY <2>3, <2>4, <4>1, <4>2, <4>3
    <3>2. k + 1 \in Nat
      BY <1>2
    <3>3. h = [i \in 1..k + 1 |-> h[i]]
      BY <2>2
    <3> QED
      BY <3>1, <3>2, <3>3
  <2>6. h = f \o <<Batch(Append(r, x))>>
    BY <1>8, <2>3, <2>4, <2>5, OneMore
  <2>7. Ahead(o, sx) = SubSeq(sx, a + b + 1, L + 1)
    BY <1>4, <2>1
  <2>8. SubSeq(sx, a + b + 1, L + 1) = SubSeq(Append(r, x), b + 1, n)
    <3> DEFINE w == Append(r, x)
               p == SubSeq(sx, a + b + 1, L + 1)
               q == SubSeq(w, b + 1, n)
    <3>1. w \in Seq(Item) /\ Len(w) = n /\ w = SubSeq(sx, a + 1, L + 1)
      BY <1>5, <1>9
    <3> HIDE DEF a, r, w, L, sx
    <3>2. p \in Seq(Item) /\ Len(p) = n - b
      BY <1>1, <1>2, <2>1
    <3>3. q \in Seq(Item) /\ Len(q) = n - b
      BY <1>2, <3>1
    <3>4. ASSUME NEW i \in 1..n - b PROVE p[i] = q[i]
      <4>1. /\ (a + b + 1) + i - 1 = a + b + i /\ (b + 1) + i - 1 = b + i /\ b + i \in 1..n
            /\ (a + 1) + (b + i) - 1 = a + b + i
        BY <1>1, <1>2
      <4>2. p[i] = sx[a + b + i]
        BY <1>1, <1>2, <2>1, <4>1
      <4>3. q[i] = w[b + i]
        <5>1. b + 1 \in Nat /\ i \in 1..n - (b + 1) + 1
          BY <1>2, <3>4
        <5>2. q[i] = w[(b + 1) + i - 1]
          BY <1>2, <3>1, <5>1
        <5> QED
          BY <4>1, <5>2
      <4>4. w[b + i] = sx[a + b + i]
        <5> DEFINE j == b + i
        <5>1. j \in 1..n /\ (a + 1) + j - 1 = a + b + i
          BY <4>1
        <5> HIDE DEF j
        <5>2. SubSeq(sx, a + 1, L + 1)[j] = sx[(a + 1) + j - 1]
          BY <1>1, <1>2, <2>1, <5>1
        <5> QED
          BY <3>1, <5>1, <5>2 DEF j
      <4> QED
        BY <4>2, <4>3, <4>4
    <3> HIDE DEF p, q
    <3>5. p = q
      BY <3>2, <3>3, <3>4, SeqEqual
    <3> QED
      BY <3>5 DEF p, q, w
  <2>9. SubSeq(Append(r, x), b + 1, n) = SubSeq(Append(r, x), o.step + 1, n)
    <3>1. o.step \in Nat \ {0} /\ b = IF o.step < n THEN o.step ELSE n
      BY DEF Operators, By, n, b
    <3>2. CASE o.step < n
      BY <3>1, <3>2
    <3>3. CASE ~(o.step < n)
      <4>1. b = n
        BY <3>1, <3>3
      <4>2. SubSeq(Append(r, x), n + 1, n) = <<>>
        <5> HIDE DEF r
        <5> QED
          BY <1>2, <1>5
      <4>3. SubSeq(Append(r, x), o.step + 1, n) = <<>>
        <5> HIDE DEF r
        <5> QED
          BY <1>2, <1>5, <3>1, <3>3
      <4> QED
        BY <4>1, <4>2, <4>3
    <3> QED
      BY <3>2, <3>3
  <2> QED
    BY <2>6, <2>7, <2>8, <2>9
<1>10. ASSUME L - a + 1 # n PROVE h = f /\ Ahead(o, sx) = Append(r, x)
  <2>1. Count(o, L + 1) = k
    BY <1>2, <1>10
  <2>2. h = f
    <3>1. h = [i \in 1..k |-> Batch(SubSeq(sx, (i - 1) * b + 1, (i - 1) * b + n))]
      BY <1>6, <2>1
    <3> QED
      BY <1>6, <1>7, <3>1
  <2>3. Ahead(o, sx) = SubSeq(sx, a + 1, L + 1)
    BY <1>4, <2>1
  <2> QED
    BY <1>5, <2>2, <2>3
<1>11. Len(r) + 1 = n <=> L - a + 1 = n
  BY <1>5
<1> HIDE DEF r, a, L
<1> QED
  BY <1>3, <1>5, <1>8, <1>9, <1>10, <1>11 DEF f, h, n, sx

\* sliding yields the windows one by one.
LEMMA ObeysSliding ==
    ASSUME Setup, NEW o \in Operators, o.is = "sliding"
    PROVE  Obeys(o)
<1>1. ASSUME NEW s \in Seq(Item)
      PROVE  /\ Law(o, Pend(s), other) = Pend(Slid(o, s)) /\ Mem(o, s) = Ahead(o, s)
             /\ Slid(o, s) \in Seq(Item) /\ Ahead(o, s) \in Seq(Item)
  <2>1. Slid(o, s) \in Seq(Item) /\ Ahead(o, s) \in Seq(Item)
    BY SlidMore, ItemFacts
  <2> QED
    BY <2>1, SlidIs DEF Pend
<1>2. Begins(o)
  <2>1. <<>> \in Seq(Item) /\ Len(<<>>) = 0 /\ o.n \in Nat \ {0}
    BY DEF Operators
  <2>2. Count(o, 0) = 0
    BY <2>1 DEF Count
  <2>3. Slid(o, <<>>) = <<>>
    BY <2>1, <2>2 DEF Slid
  <2>4. Mem(o, <<>>) = <<>>
    BY <2>1 DEF Mem, MemWith
  <2>5. Law(o, Pend(<<>>), other) = Pend(<<>>)
    BY <1>1, <2>1, <2>3
  <2>6. Fresh(o) = Emit(<<>>, <<>>)
    BY DEF Fresh
  <2> QED
    BY <2>1, <2>4, <2>5, <2>6 DEF Begins, Emit, Does
<1>3. ASSUME NEW s \in Seq(Item), NEW x \in Item PROVE GoesOn(o, s, x)
  <2> DEFINE sx == Append(s, x)
             r  == Ahead(o, s)
             w  == Append(r, x)
             f  == Slid(o, s)
  <2>1. sx \in Seq(Item) /\ w \in Seq(Item) /\ Len(w) = Len(r) + 1 /\ r \in Seq(Item) /\ f \in Seq(Item)
    <3>1. r \in Seq(Item) /\ f \in Seq(Item)
      BY <1>1
    <3> QED
      BY <3>1
  <2>2. Batch(w) \in Item
    BY <2>1, BatchTyped
  <2>3. OnItem(o, r, x) = IF Len(w) = o.n THEN Emit(<<Batch(w)>>, SubSeq(w, o.step + 1, Len(w)))
                          ELSE Emit(<<>>, w)
    BY DEF OnItem, sliding, Calls
  <2>4. /\ Law(o, Pend(s), other) = Pend(f) /\ Mem(o, s) = r
        /\ Law(o, Pend(sx), other) = Pend(Slid(o, sx)) /\ Mem(o, sx) = Ahead(o, sx)
    BY <1>1, <2>1
  <2>5. CASE Len(w) = o.n
    <3>1. Slid(o, sx) = f \o <<Batch(w)>> /\ Ahead(o, sx) = SubSeq(w, o.step + 1, o.n)
      <4> HIDE DEF w
      <4>1. Len(r) + 1 = o.n
        BY <2>1, <2>5
      <4>2. Slid(o, sx) = f \o <<Batch(Append(r, x))>> /\ Ahead(o, sx) = SubSeq(Append(r, x), o.step + 1, o.n)
        BY <4>1, SlidMore, Zenon
      <4> QED
        BY <4>2 DEF w
    <3>2. OnItem(o, Mem(o, s), x) = Emit(<<Batch(w)>>, Mem(o, sx))
      <4> HIDE DEF w, r
      <4> QED
        BY <2>3, <2>4, <2>5, <3>1
    <3>3. <<Batch(w)>> \in Seq(Item)
      BY <2>2
    <3> HIDE DEF w, r, f
    <3>4. Law(o, Pend(sx), other) = Pend(f \o <<Batch(w)>>)
      BY <2>4, <3>1
    <3> QED
      BY <2>1, <2>4, <3>2, <3>3, <3>4, Continues
  <2>6. CASE Len(w) # o.n
    <3>1. Slid(o, sx) = f /\ Ahead(o, sx) = w
      BY <2>1, <2>6, SlidMore
    <3>2. OnItem(o, Mem(o, s), x) = Emit(<<>>, Mem(o, sx))
      <4> HIDE DEF w, r
      <4> QED
        BY <2>3, <2>4, <2>6, <3>1
    <3> HIDE DEF w, r, f
    <3>3. f \o <<>> = f
      BY <2>1
    <3>4. Law(o, Pend(sx), other) = Pend(f \o <<>>)
      BY <2>4, <3>1, <3>3
    <3> QED
      BY <2>1, <2>4, <3>2, <3>4, ItemFacts, Continues
  <2> QED
    BY <2>5, <2>6
<1>4. ASSUME NEW s \in Seq(Item), NEW e \in Finals PROVE Stops(o, s, e)
  <2> DEFINE f == Slid(o, s)
  <2>1. f \in Seq(Item) /\ Law(o, Pend(s), other) = Pend(f)
    BY <1>1
  <2>2. Law(o, Trace(s, e), other) = Trace(f, e)
    BY SlidIs
  <2> HIDE DEF f
  <2> QED
    BY <2>1, <2>2, EndsAlike
<1> QED
  BY <1>2, <1>3, <1>4 DEF Obeys


\* Sequences of items.
LEMMA ItemsFirst ==
    ASSUME NEW x \in Item, NEW z \in Seq(Item)
    PROVE  <<x>> \o z \in Seq(Item)
  OBVIOUS

\* An item from the end of one sequence to the front of the next.
LEMMA ItemsRegroup ==
    \A a \in Seq(Item) : \A b \in Seq(Item) : \A e \in Item : \A d \in Seq(Item) :
        a \o (Append(b, e) \o d) = (a \o b) \o (<<e>> \o d)
<1> TAKE a \in Seq(Item)
<1> TAKE b \in Seq(Item)
<1> TAKE e \in Item
<1> TAKE d \in Seq(Item)
<1> DEFINE y == <<e>>
           w == y \o d
<1>1. y \in Seq(Item) /\ Append(b, e) = b \o y
  OBVIOUS
<1> HIDE DEF y
<1>2. w \in Seq(Item) /\ (b \o y) \o d = b \o w
  BY <1>1
<1> HIDE DEF w
<1>3. (a \o b) \o w = a \o (b \o w)
  BY <1>2, SMTT(30)
<1> QED
  BY <1>1, <1>2, <1>3 DEF y, w

\* interleave: the part of the other stream that turns up to the k-th take, a turn,
\* and all the turns up to the k-th.
Reach(o, k) == IF k * o.n < Len(other.items) THEN k * o.n ELSE Len(other.items)
Turn(o, s, i) == SubSeq(s, (i - 1) * o.n + 1, i * o.n) \o SubSeq(other.items, (i - 1) * o.n + 1, Reach(o, i))
TurnsTo(o, s, k) == FlattenSeq([i \in 1..k |-> Turn(o, s, i)])
Good(o) == Len(other.items) \div o.n
Short(o, k) == other.fin # "end" /\ Good(o) < k

\* What the other stream gives in one turn more, and whether it falls short.
LEMMA ReachMore ==
    ASSUME Setup, NEW o \in Operators, o.is = "interleave", NEW q \in Nat
    PROVE  LET c == Reach(o, q)
               short == c + o.n > Len(other.items)
               upto == IF short THEN Len(other.items) ELSE c + o.n
           IN  /\ c \in Nat /\ c <= Len(other.items)
               /\ upto = Reach(o, q + 1) /\ (short <=> Good(o) < q + 1) /\ Good(o) \in Nat
               /\ SubSeq(other.items, c + 1, upto) = SubSeq(other.items, q * o.n + 1, upto)
               /\ SubSeq(other.items, c + 1, upto) \in Seq(Item)
<1> DEFINE n == o.n
           N == Len(other.items)
           g == N \div n
           c == Reach(o, q)
           a == q * n
           b == (q + 1) * n
           short == c + n > N
           upto == IF short THEN N ELSE c + n
<1>1. n \in Nat \ {0} /\ N \in Nat /\ other.items \in Seq(Item)
  BY DEF Operators, Setup
<1>2. /\ c = IF a < N THEN a ELSE N
      /\ Reach(o, q + 1) = IF b < N THEN b ELSE N
      /\ Good(o) = g
  BY DEF Reach, Good
<1>3. a \in Nat /\ b = a + n
  BY <1>1, MultOrder
<1>4. g \in Nat /\ (g < q + 1 <=> N < b)
  <2>1. g \in Nat /\ g * n <= N /\ N < (g + 1) * n
    BY <1>1, DivIs
  <2> HIDE DEF g, b, n, N
  <2>2. ASSUME g < q + 1 PROVE N < b
    <3>1. g + 1 \in 1..q + 1 /\ q + 1 \in Nat
      BY <2>1, <2>2
    <3>2. (g + 1) * n <= (q + 1) * n
      BY <1>1, <3>1, MultOrder
    <3>3. (g + 1) * n \in Nat
      BY <1>1, <2>1, MultOrder
    <3> DEFINE z == (g + 1) * n
    <3>4. N < z /\ z <= b /\ z \in Nat
      BY <2>1, <3>2, <3>3 DEF b
    <3> HIDE DEF z
    <3> QED
      BY <1>1, <1>3, <3>4
  <2>3. ASSUME ~(g < q + 1) PROVE ~(N < b)
    <3>1. q + 1 \in 1..g
      BY <2>1, <2>3
    <3>2. (q + 1) * n <= g * n /\ g * n \in Nat
      BY <1>1, <2>1, <3>1, MultOrder
    <3> DEFINE z == g * n
    <3>3. z <= N /\ b <= z /\ z \in Nat
      BY <2>1, <3>2 DEF b
    <3> HIDE DEF z
    <3> QED
      BY <1>1, <1>3, <3>3
  <2> QED
    BY <2>1, <2>2, <2>3
<1> HIDE DEF n, N, g, c, a, b
<1>5. c \in Nat /\ c <= N /\ upto = Reach(o, q + 1) /\ (short <=> g < q + 1)
  BY <1>1, <1>2, <1>3, <1>4
<1>6. SubSeq(other.items, c + 1, upto) = SubSeq(other.items, a + 1, upto)
  <2>1. CASE a < N
    BY <1>2, <2>1
  <2>2. CASE ~(a < N)
    <3>1. c = N /\ upto = N
      BY <1>1, <1>2, <2>2
    <3>2. SubSeq(other.items, N + 1, N) = <<>> /\ SubSeq(other.items, a + 1, N) = <<>>
      BY <1>1, <1>3, <2>2 DEF N
    <3> QED
      BY <3>1, <3>2
  <2> QED
    BY <2>1, <2>2
<1>7. SubSeq(other.items, c + 1, upto) \in Seq(Item)
  <2>1. upto \in Nat /\ upto <= N
    BY <1>1, <1>5
  <2> HIDE DEF upto
  <2> QED
    BY <1>1, <1>5, <2>1 DEF N
<1> QED
  BY <1>2, <1>4, <1>5, <1>6, <1>7 DEF n, N, g, c, a

\* Turns that are over stay as they are,
LEMMA TurnTyped ==
    ASSUME Setup, NEW o \in Operators, o.is = "interleave", NEW s \in Seq(Item), NEW x \in Item,
           NEW i \in 1..Len(s) \div o.n
    PROVE  Turn(o, Append(s, x), i) = Turn(o, s, i) /\ Turn(o, s, i) \in Seq(Item)
<1>1. o.n \in Nat \ {0}
  BY DEF Operators
<1>2. SubSeq(Append(s, x), (i - 1) * o.n + 1, i * o.n) = SubSeq(s, (i - 1) * o.n + 1, i * o.n)
      /\ SubSeq(s, (i - 1) * o.n + 1, i * o.n) \in Seq(Item)
  BY <1>1, TurnSame
<1>3. SubSeq(other.items, (i - 1) * o.n + 1, Reach(o, i)) \in Seq(Item)
  <2>1. i - 1 \in Nat /\ (i - 1) + 1 = i
    <3>1. Len(s) \in Nat
      OBVIOUS
    <3>2. Len(s) \div o.n \in Nat
      BY <1>1, <3>1, DivIs
    <3> QED
      BY <3>2
  <2> HIDE DEF Reach
  <2> DEFINE j == i - 1
  <2>2. LET upto == IF Reach(o, j) + o.n > Len(other.items) THEN Len(other.items) ELSE Reach(o, j) + o.n
        IN  upto = Reach(o, j + 1) /\ SubSeq(other.items, Reach(o, j) + 1, upto) = SubSeq(other.items, j * o.n + 1, upto)
            /\ SubSeq(other.items, Reach(o, j) + 1, upto) \in Seq(Item)
    BY <2>1, ReachMore, Zenon
  <2> QED
    BY <2>1, <2>2
<1>4. \A p, q \in Seq(Item) : p \o q \in Seq(Item)
  OBVIOUS
<1>5. Turn(o, s, i) = SubSeq(s, (i - 1) * o.n + 1, i * o.n) \o SubSeq(other.items, (i - 1) * o.n + 1, Reach(o, i))
  BY Zenon DEF Turn
<1>6. Turn(o, Append(s, x), i) = SubSeq(Append(s, x), (i - 1) * o.n + 1, i * o.n)
                                 \o SubSeq(other.items, (i - 1) * o.n + 1, Reach(o, i))
  BY Zenon DEF Turn
<1> QED
  BY <1>2, <1>3, <1>4, <1>5, <1>6, Zenon

\* all of them;
LEMMA TurnsTyped ==
    ASSUME Setup, NEW o \in Operators, o.is = "interleave", NEW s \in Seq(Item), NEW x \in Item,
           NEW k \in Nat, k <= Len(s) \div o.n
    PROVE  TurnsTo(o, Append(s, x), k) = TurnsTo(o, s, k) /\ TurnsTo(o, s, k) \in Seq(Item)
<1>1. \A i \in 1..k : Turn(o, Append(s, x), i) = Turn(o, s, i) /\ Turn(o, s, i) \in Seq(Item)
  <2>1. Len(s) \div o.n \in Nat
    <3>1. o.n \in Nat \ {0} /\ Len(s) \in Nat
      BY DEF Operators
    <3> QED
      BY <3>1, DivIs
  <2>2. \A i \in 1..k : i \in 1..Len(s) \div o.n
    BY <2>1
  <2> QED
    BY <2>2, TurnTyped
<1>2. [i \in 1..k |-> Turn(o, s, i)] \in Seq(Seq(Item))
  BY <1>1
<1>3. [i \in 1..k |-> Turn(o, Append(s, x), i)] = [i \in 1..k |-> Turn(o, s, i)]
  BY <1>1
<1> QED
  BY <1>2, <1>3, FlattenTyped DEF TurnsTo

\* one turn more comes after them.
LEMMA TurnsMore ==
    ASSUME Setup, NEW o \in Operators, o.is = "interleave", NEW s \in Seq(Item),
           NEW k \in Nat, k + 1 <= Len(s) \div o.n
    PROVE  TurnsTo(o, s, k + 1) = TurnsTo(o, s, k) \o Turn(o, s, k + 1)
<1> DEFINE f == [i \in 1..k |-> Turn(o, s, i)]
           h == [i \in 1..k + 1 |-> Turn(o, s, i)]
<1>1. \A i \in 1..k + 1 : Turn(o, s, i) \in Seq(Item)
  <2>1. Len(s) \div o.n \in Nat
    <3>1. o.n \in Nat \ {0} /\ Len(s) \in Nat
      BY DEF Operators
    <3> QED
      BY <3>1, DivIs
  <2>2. \A i \in 1..k + 1 : i \in 1..Len(s) \div o.n
    BY <2>1
  <2>3. \A x \in Item : \A i \in 1..Len(s) \div o.n : Turn(o, s, i) \in Seq(Item)
    BY TurnTyped
  <2> QED
    BY <2>2, <2>3, ItemFacts
<1>2. /\ f \in Seq(Seq(Item)) /\ h \in Seq(Seq(Item)) /\ Len(f) = k /\ Len(h) = k + 1
      /\ h[k + 1] = Turn(o, s, k + 1) /\ Turn(o, s, k + 1) \in Seq(Item)
      /\ \A i \in 1..k : h[i] = f[i]
  <2>1. k + 1 \in 1..k + 1 /\ \A i \in 1..k : i \in 1..k + 1
    OBVIOUS
  <2> QED
    BY <1>1, <2>1
<1> HIDE DEF f, h
<1>3. h = Append(f, Turn(o, s, k + 1))
  BY <1>2, OneMore
<1>4. FlattenSeq(h) = FlattenSeq(f) \o Turn(o, s, k + 1)
  BY <1>2, <1>3, FlattenAppend
<1> QED
  BY <1>4 DEF f, h, TurnsTo

\* The law of interleave: the other stream fails in a turn, or the upstream ends
\* first, or fails.
LEMMA InterIs ==
    ASSUME NEW o, o.is = "interleave", NEW s, NEW e
    PROVE  LET q == Len(s) \div o.n
           IN  /\ Short(o, q) => Law(o, Trace(s, e), other) = Trace(TurnsTo(o, s, Good(o) + 1), other.fin)
               /\ ~Short(o, q) /\ e # "end" =>
                      Law(o, Trace(s, e), other) = Trace(TurnsTo(o, s, q) \o Rest(s, o.n), e)
               /\ ~Short(o, q) /\ e = "end" =>
                      Law(o, Trace(s, e), other)
                        = Trace(TurnsTo(o, s, q) \o Rest(s, o.n)
                                  \o SubSeq(other.items, Reach(o, q) + 1, Len(other.items)), other.fin)
<1> DEFINE q == Len(s) \div o.n
<1>1. Law(o, Trace(s, e), other) = Turns(Trace(s, e), other, o.n)
  BY DEF Law, Calling, Counting
<1>2. Trace(s, e).items = s /\ Trace(s, e).fin = e
  BY DEF Trace
<1> DEFINE t == Trace(s, e)
           tturn(i) == SubSeq(t.items, (i - 1) * o.n + 1, i * o.n)
                   \o SubSeq(other.items, (i - 1) * o.n + 1, IF i * o.n < Len(other.items) THEN i * o.n ELSE Len(other.items))
           qt == Len(t.items) \div o.n
           rt == SubSeq(t.items, qt * o.n + 1, Len(t.items))
<1>3. CASE Short(o, q)
  <2>1. Turns(t, other, o.n) = Trace(FlattenSeq([i \in 1..Good(o) + 1 |-> tturn(i)]), other.fin)
    BY <1>2, <1>3 DEF Turns, Short, Good
  <2>2. FlattenSeq([i \in 1..Good(o) + 1 |-> tturn(i)]) = TurnsTo(o, s, Good(o) + 1)
    BY <1>2 DEF TurnsTo, Turn, Reach
  <2> QED
    BY <1>1, <1>3, <2>1, <2>2
<1>4. CASE ~Short(o, q)
  <2>0. FlattenSeq([i \in 1..qt |-> tturn(i)]) = TurnsTo(o, s, q) /\ rt = Rest(s, o.n) /\ qt = q
    BY <1>2 DEF TurnsTo, Turn, Reach, Rest
  <2>1. CASE e # "end"
    <3>1. Turns(t, other, o.n) = Trace(FlattenSeq([i \in 1..qt |-> tturn(i)]) \o rt, e)
      BY <1>2, <1>4, <2>1 DEF Turns, Short, Good
    <3> QED
      BY <1>1, <1>4, <2>0, <2>1, <3>1
  <2>2. CASE e = "end"
    <3>1. Turns(t, other, o.n) = Trace(FlattenSeq([i \in 1..qt |-> tturn(i)]) \o rt
                                  \o SubSeq(other.items, Reach(o, qt) + 1, Len(other.items)), other.fin)
      BY <1>2, <1>4, <2>2 DEF Turns, Short, Good, Reach
    <3> QED
      BY <1>1, <1>4, <2>0, <2>2, <3>1
  <2> QED
    BY <2>1, <2>2
<1> QED
  BY <1>3, <1>4

\* interleave takes turns as the law says, also when either stream is used up.
LEMMA ObeysInterleave ==
    ASSUME Setup, NEW o \in Operators, o.is = "interleave"
    PROVE  Obeys(o)
<1> DEFINE n == o.n
<1>0. n \in Nat \ {0} /\ Good(o) \in Nat /\ other.fin \in Finals /\ other.fin \notin {"on", "pending"}
      /\ "pending" # "end"
  <2>1. 0 \in Nat /\ n \in Nat \ {0}
    BY DEF Operators
  <2>2. Good(o) \in Nat
    BY <2>1, ReachMore
  <2> QED
    BY <2>1, <2>2, FinalFacts
<1>1. \A s : Mem(o, s) = <<Len(s) - (Len(s) \div n) * n, Reach(o, Len(s) \div n)>>
  BY DEF Mem, MemWith, Turned, Reach
<1>2. ASSUME NEW s \in Seq(Item)
      PROVE  /\ Len(s) \in Nat /\ Len(s) \div n \in Nat /\ Rest(s, n) \in Seq(Item)
             /\ Len(Rest(s, n)) = Len(s) - (Len(s) \div n) * n
             /\ \A k \in Nat : k <= Len(s) \div n => TurnsTo(o, s, k) \in Seq(Item)
             /\ TurnsTo(o, s, Len(s) \div n) \o Rest(s, n) \in Seq(Item)
  <2>1. Len(s) \in Nat /\ Rest(s, n) \in Seq(Item) /\ Len(Rest(s, n)) = Len(s) - (Len(s) \div n) * n
    <3>1. Len(s) \in Nat
      OBVIOUS
    <3> HIDE DEF n
    <3> QED
      BY <1>0, <3>1, RestIs
  <2>2. Len(s) \div n \in Nat
    BY <1>0, <2>1, DivIs
  <2> DEFINE q == Len(s) \div n
  <2> HIDE DEF n, q
  <2>3. \A x \in Item : \A k \in Nat : k <= q => TurnsTo(o, s, k) \in Seq(Item)
    BY TurnsTyped DEF n, q
  <2>4. \A k \in Nat : k <= q => TurnsTo(o, s, k) \in Seq(Item)
    BY <2>3, ItemFacts
  <2>5. TurnsTo(o, s, q) \in Seq(Item)
    BY <2>2, <2>4 DEF q
  <2>6. TurnsTo(o, s, q) \o Rest(s, n) \in Seq(Item)
    BY <2>1, <2>5
  <2> QED
    BY <2>1, <2>2, <2>4, <2>6 DEF q
<1>3. Begins(o)
  <2>1. <<>> \in Seq(Item) /\ Len(<<>>) = 0 /\ 0 \div n = 0 /\ 0 * n = 0
    BY <1>0
  <2>2. ~Short(o, 0)
    BY <1>0 DEF Short
  <2>3. Rest(<<>>, n) = <<>>
    <3>1. Len(Rest(<<>>, n)) = 0 - (0 \div n) * n /\ Rest(<<>>, n) \in Seq(Item)
      BY <1>0, <2>1, RestIs
    <3> QED
      BY <1>0, <2>1, <3>1
  <2>4. TurnsTo(o, <<>>, 0) = <<>>
    BY FlattenEmpty DEF TurnsTo
  <2>5. Law(o, Pend(<<>>), other) = Pend(TurnsTo(o, <<>>, 0) \o Rest(<<>>, n))
    BY <1>0, <2>1, <2>2, InterIs DEF Pend
  <2>6. Law(o, Pend(<<>>), other) = Pend(<<>>)
    <3>1. <<>> \o <<>> = <<>>
      OBVIOUS
    <3> QED
      BY <2>3, <2>4, <2>5, <3>1
  <2>7. Mem(o, <<>>) = <<0, 0>>
    <3>1. Reach(o, 0) = 0
      <4>1. Len(other.items) \in Nat
        BY DEF Setup
      <4> QED
        BY <2>1, <4>1 DEF Reach
    <3> QED
      BY <1>1, <2>1, <3>1
  <2>8. Fresh(o) = Emit(<<>>, <<0, 0>>)
    BY DEF Fresh
  <2> QED
    BY <2>1, <2>6, <2>7, <2>8 DEF Begins, Emit, Does
<1>4. ASSUME NEW s \in Seq(Item), NEW x \in Item PROVE GoesOn(o, s, x)
  <2> DEFINE q  == Len(s) \div n
             sx == Append(s, x)
             p  == Len(sx) \div n
             r  == Rest(s, n)
             c  == Reach(o, q)
             f  == TurnsTo(o, s, q) \o r
             short == c + n > Len(other.items)
             upto == IF short THEN Len(other.items) ELSE c + n
             theirs == SubSeq(other.items, c + 1, upto)
  <2>1. /\ q \in Nat /\ r \in Seq(Item) /\ sx \in Seq(Item) /\ Len(r) = Len(s) - q * n
        /\ f \in Seq(Item) /\ TurnsTo(o, s, q) \in Seq(Item) /\ x \in Item /\ Len(r) \in Nat
        /\ <<x>> \in Seq(Item) /\ p \in Nat /\ Len(r) < n
    <3>1. sx \in Seq(Item) /\ <<x>> \in Seq(Item)
      OBVIOUS
    <3>2. p \in Nat
      BY <1>2, <3>1
    <3>3. q \in Nat /\ q <= q
      BY <1>2
    <3>4. r \in Seq(Item) /\ Len(r) < n
      BY <1>0, RestIs
    <3>5. TurnsTo(o, s, q) \in Seq(Item)
      BY <1>2, <3>3
    <3>6. Len(r) \in Nat
      BY <3>4
    <3> QED
      BY <1>2, <3>1, <3>2, <3>3, <3>4, <3>5, <3>6
  <2>2. /\ Len(r) + 1 = n => p = q + 1 /\ (q + 1) * n = Len(s) + 1 /\ Rest(sx, n) = <<>>
                             /\ SubSeq(sx, q * n + 1, (q + 1) * n) = Append(r, x)
        /\ Len(r) + 1 # n => p = q /\ Rest(sx, n) = Append(r, x)
        /\ Len(sx) = Len(s) + 1 /\ Len(s) \in Nat /\ q * n \in Nat
    <3>1. Len(sx) = Len(s) + 1 /\ Len(s) \in Nat
      OBVIOUS
    <3> HIDE DEF n
    <3>2. /\ q * n \in Nat
          /\ Len(r) + 1 = n => p = q + 1 /\ (q + 1) * n = Len(s) + 1 /\ Rest(sx, n) = <<>>
                             /\ SubSeq(sx, q * n + 1, (q + 1) * n) = Append(r, x)
          /\ Len(r) + 1 # n => p = q /\ Rest(sx, n) = Append(r, x)
      BY <1>0, RestMore
    <3> QED
      BY <3>1, <3>2
  <2>3. /\ c \in Nat /\ c <= Len(other.items)
        /\ upto = Reach(o, q + 1) /\ (short <=> Good(o) < q + 1)
        /\ theirs = SubSeq(other.items, q * n + 1, upto) /\ theirs \in Seq(Item)
    BY <2>1, ReachMore
  <2>4. Mem(o, s) = <<Len(r), c>>
    BY <1>1, <2>1
  <2>5. Mem(o, sx) = <<Len(sx) - p * n, Reach(o, p)>>
    BY <1>1
  <2>6. \A m : OnItem(o, m, x) = interleave(o, m, x)
    BY DEF OnItem, Calls
  <2>7. OnItem(o, Mem(o, s), x)
          = IF Len(r) + 1 < n THEN Emit(<<x>>, <<Len(r) + 1, c>>)
            ELSE Does(<<x>> \o theirs, <<0, upto>>, IF short /\ other.fin # "end" THEN other.fin ELSE "on")
    <3>1. Mem(o, s)[1] = Len(r) /\ Mem(o, s)[2] = c
      <4> HIDE DEF r, c
      <4> QED
        BY <2>4
    <3>2. \A m : m[1] = Len(r) /\ m[2] = c =>
             interleave(o, m, x) = IF Len(r) + 1 < n THEN Emit(<<x>>, <<Len(r) + 1, c>>)
                                   ELSE Does(<<x>> \o theirs, <<0, upto>>, IF short /\ other.fin # "end" THEN other.fin ELSE "on")
      <4> HIDE DEF r, c
      <4> QED
        BY DEF interleave
    <3> HIDE DEF r, c, theirs, upto, short
    <3> QED
      BY <2>6, <3>1, <3>2
  <2>8. \A k \in Nat : k <= q => TurnsTo(o, sx, k) = TurnsTo(o, s, k)
    BY TurnsTyped
  <2> HIDE DEF q, p, r, c, f, theirs, upto
  <2>9. CASE Short(o, q)
    <3>1. Good(o) + 1 \in Nat /\ Good(o) + 1 <= q
      BY <1>0, <2>1, <2>9 DEF Short
    <3>2. Law(o, Pend(s), other) = Trace(TurnsTo(o, s, Good(o) + 1), other.fin)
      BY <2>9, InterIs DEF Pend, q
    <3>3. Short(o, p)
      <4>1. p = q \/ p = q + 1
        BY <2>2
      <4> QED
        BY <1>0, <2>1, <2>9, <4>1 DEF Short
    <3>4. Law(o, Pend(sx), other) = Trace(TurnsTo(o, sx, Good(o) + 1), other.fin)
      BY <3>3, InterIs DEF Pend, p
    <3>5. Law(o, Pend(sx), other) = Law(o, Pend(s), other)
      BY <2>8, <3>1, <3>2, <3>4
    <3>6. Law(o, Pend(s), other).fin # "pending"
      BY <1>0, <3>2 DEF Trace
    <3> QED
      BY <3>5, <3>6, StaysBroken
  <2>10. CASE ~Short(o, q) /\ Len(r) + 1 # n
    <3>1. Law(o, Pend(s), other) = Pend(f)
      BY <1>0, <2>10, InterIs DEF Pend, q, f, r
    <3>2. p = q /\ Rest(sx, n) = Append(r, x) /\ Len(r) + 1 < n
      <4>1. p = q /\ Rest(sx, n) = Append(r, x)
        BY <2>2, <2>10
      <4>2. Len(r) + 1 < n
        <5> HIDE DEF n
        <5> QED
          BY <1>0, <2>1, <2>10
      <4> QED
        BY <4>1, <4>2
    <3>3. Law(o, Pend(sx), other) = Pend(TurnsTo(o, sx, q) \o Append(r, x))
      <4>1. ~Short(o, p)
        BY <2>10, <3>2
      <4> QED
        BY <1>0, <3>2, <4>1, InterIs, ZenonT(60) DEF Pend, p
    <3>4. TurnsTo(o, sx, q) = TurnsTo(o, s, q)
      BY <2>1, <2>8
    <3>5. TurnsTo(o, s, q) \o Append(r, x) = f \o <<x>>
      BY <2>1 DEF f
    <3>6. OnItem(o, Mem(o, s), x) = Emit(<<x>>, Mem(o, sx))
      <4>1. Len(r) + 1 = Len(sx) - p * n
        BY <2>1, <2>2, <3>2
      <4>2. Mem(o, sx) = <<Len(r) + 1, c>>
        BY <2>5, <3>2, <4>1 DEF c
      <4> QED
        BY <2>7, <3>2, <4>2
    <3> QED
      BY <2>1, <3>1, <3>3, <3>4, <3>5, <3>6, Continues
  <2>11. CASE ~Short(o, q) /\ Len(r) + 1 = n
    <3> DEFINE y == <<x>> \o theirs
               g == TurnsTo(o, sx, q + 1)
    <3>1. Law(o, Pend(s), other) = Pend(f)
      BY <1>0, <2>11, InterIs DEF Pend, q, f, r
    <3>2. p = q + 1 /\ Rest(sx, n) = <<>> /\ ~(Len(r) + 1 < n) /\ q + 1 \in Nat
      BY <1>0, <2>1, <2>2, <2>11
    <3>3. g = TurnsTo(o, s, q) \o (Append(r, x) \o theirs)
      <4>1. g = TurnsTo(o, sx, q) \o Turn(o, sx, q + 1)
        <5>1. q + 1 <= Len(sx) \div o.n
          BY <2>1, <3>2 DEF p
        <5> QED
          BY <2>1, <5>1, TurnsMore
      <4>2. Turn(o, sx, q + 1) = SubSeq(sx, q * n + 1, (q + 1) * n)
                                 \o SubSeq(other.items, q * n + 1, Reach(o, q + 1))
        <5>1. (q + 1) - 1 = q
          BY <2>1
        <5>2. Turn(o, sx, q + 1) = SubSeq(sx, ((q + 1) - 1) * n + 1, (q + 1) * n)
                                 \o SubSeq(other.items, ((q + 1) - 1) * n + 1, Reach(o, q + 1))
          BY Zenon DEF Turn
        <5> QED
          BY <5>1, <5>2, Zenon
      <4>3. Turn(o, sx, q + 1) = Append(r, x) \o theirs
        BY <2>2, <2>3, <2>11, <4>2
      <4>4. TurnsTo(o, sx, q) = TurnsTo(o, s, q)
        BY <2>1, <2>8
      <4> QED
        BY <4>1, <4>3, <4>4
    <3>4. g = f \o y /\ y \in Seq(Item)
      <4>1. TurnsTo(o, s, q) \o (Append(r, x) \o theirs) = (TurnsTo(o, s, q) \o r) \o (<<x>> \o theirs)
        <5>1. TurnsTo(o, s, q) \in Seq(Item) /\ r \in Seq(Item) /\ theirs \in Seq(Item) /\ x \in Item
          BY <2>1, <2>3
        <5> QED
          BY <5>1, ItemsRegroup, ZenonT(60)
      <4>2. <<x>> \o theirs \in Seq(Item)
        BY <2>1, <2>3, ItemsFirst
      <4> QED
        BY <3>3, <4>1, <4>2 DEF f
    <3>5. OnItem(o, Mem(o, s), x)
            = Does(y, <<0, upto>>, IF short /\ other.fin # "end" THEN other.fin ELSE "on")
      BY <2>7, <3>2
    <3> HIDE DEF y, g
    <3>6. CASE Short(o, q + 1)
      <4>1. Good(o) + 1 = q + 1 /\ short
        <5>1. Good(o) < q + 1 /\ ~(Good(o) < q)
          BY <2>11, <3>6 DEF Short
        <5>2. Good(o) \in Nat /\ q \in Nat
          BY <1>0, <2>1
        <5>3. Good(o) + 1 = q + 1
          BY <5>1, <5>2
        <5>4. short
          BY <2>3, <5>1
        <5> QED
          BY <5>3, <5>4
      <4>2. Law(o, Pend(sx), other) = Trace(g, other.fin)
        <5>1. Short(o, p)
          BY <3>2, <3>6
        <5>2. Law(o, Pend(sx), other) = Trace(TurnsTo(o, sx, Good(o) + 1), other.fin)
          BY <5>1, InterIs DEF Pend, p
        <5> QED
          BY <4>1, <5>2 DEF g
      <4>3. OnItem(o, Mem(o, s), x) = Does(y, <<0, upto>>, other.fin)
        BY <3>5, <3>6, <4>1 DEF Short
      <4> QED
        BY <1>0, <2>1, <3>1, <3>4, <4>2, <4>3, Breaks
    <3>7. CASE ~Short(o, q + 1)
      <4>1. ~(short /\ other.fin # "end")
        BY <2>3, <3>7 DEF Short
      <4>2. Law(o, Pend(sx), other) = Pend(g \o <<>>)
        <5>1. ~Short(o, p)
          BY <3>2, <3>7
        <5> QED
          BY <1>0, <3>2, <5>1, InterIs, ZenonT(60) DEF Pend, p, g
      <4>3. g \o <<>> = f \o y
        <5>1. g \in Seq(Item)
          BY <2>1, <3>4
        <5> QED
          BY <3>4, <5>1
      <4>4. Mem(o, sx) = <<0, upto>>
        <5>1. Len(sx) - p * n = 0
          BY <2>2, <2>11, <3>2
        <5> QED
          BY <2>3, <2>5, <3>2, <5>1
      <4>5. OnItem(o, Mem(o, s), x) = Emit(y, Mem(o, sx))
        BY <3>5, <4>1, <4>4 DEF Emit
      <4> QED
        BY <2>1, <3>1, <3>4, <4>2, <4>3, <4>5, Continues
    <3> QED
      BY <3>6, <3>7
  <2> QED
    BY <2>9, <2>10, <2>11
<1>5. ASSUME NEW s \in Seq(Item), NEW e \in Finals PROVE Stops(o, s, e)
  <2> DEFINE q == Len(s) \div n
             f == TurnsTo(o, s, q) \o Rest(s, n)
             tail == SubSeq(other.items, Reach(o, q) + 1, Len(other.items))
  <2>1. q \in Nat /\ f \in Seq(Item)
    BY <1>2
  <2>2. tail \in Seq(Item)
    <3>1. Reach(o, q) \in Nat /\ Reach(o, q) <= Len(other.items)
      BY <2>1, ReachMore
    <3> DEFINE c == Reach(o, q)
    <3> HIDE DEF c
    <3>2. SubSeq(other.items, c + 1, Len(other.items)) \in Seq(Item)
      BY <3>1 DEF Setup, c
    <3> QED
      BY <3>2 DEF c
  <2>3. Mem(o, s)[2] = Reach(o, q)
    BY <1>1
  <2>4. e \notin {"on", "pending", "timeout"}
    BY FinalFacts
  <2>5. CASE Short(o, q)
    <3>1. Law(o, Pend(s), other) = Trace(TurnsTo(o, s, Good(o) + 1), other.fin)
          /\ Law(o, Trace(s, e), other) = Trace(TurnsTo(o, s, Good(o) + 1), other.fin)
      BY <2>5, InterIs DEF Pend
    <3>2. Law(o, Pend(s), other).fin # "pending"
      BY <1>0, <3>1 DEF Trace
    <3> QED
      BY <3>1, <3>2, EndsBroken
  <2>6. CASE ~Short(o, q) /\ e = "end"
    <3>1. Law(o, Pend(s), other) = Pend(f)
      BY <1>0, <2>6, InterIs DEF Pend
    <3>2. Law(o, Trace(s, e), other) = Trace(f \o tail, other.fin)
      BY <2>6, InterIs
    <3>3. OnEnd(o, Mem(o, s)) = Does(tail, Mem(o, s), other.fin)
      BY <2>3 DEF OnEnd
    <3> HIDE DEF f, tail
    <3> QED
      BY <1>0, <2>1, <2>2, <2>6, <3>1, <3>2, <3>3, Ends
  <2>7. CASE ~Short(o, q) /\ e # "end"
    <3>1. Law(o, Pend(s), other) = Pend(f)
      BY <1>0, <2>7, InterIs DEF Pend
    <3>2. Law(o, Trace(s, e), other) = Trace(f, e)
      BY <2>7, InterIs
    <3>3. OnError(o, Mem(o, s), e) = Does(<<>>, <<>>, e)
      BY <2>4 DEF OnError, Raise
    <3> HIDE DEF f
    <3>4. f \o <<>> = f
      BY <2>1
    <3> QED
      BY <1>0, <2>1, <2>4, <2>7, <3>1, <3>2, <3>3, <3>4, ItemFacts, Ends
  <2> QED
    BY <2>5, <2>6, <2>7
<1> QED
  BY <1>3, <1>4, <1>5 DEF Obeys

----------------------------------------------------------------------------
(* Every operator follows its law, and the laws are monotonic.                *)

\* Every generator follows its law on every upstream.
LEMMA AllObey ==
    ASSUME Setup, ~late, NEW o \in Operators
    PROVE  Obeys(o)
<1>1. \/ o.is \in Calling \cup Counting
      \/ o.is \in {"throttle", "keep_alive", "idle_timeout", "completion_timeout", "watch_termination",
                   "concat", "recover", "recover_with", "map_error"}
      \/ o.is = "prepend" \/ o.is \in {"zip_with", "take"} \/ o.is = "take_while" \/ o.is = "scan"
      \/ o.is \in {"grouped", "grouped_within"} \/ o.is = "sliding" \/ o.is = "interleave"
  BY DEF Operators, Calling, Counting
<1> QED
  BY <1>1, ObeysCalling, ObeysPassing, ObeysPrepend, ObeysPairing, ObeysTakeWhile, ObeysScan,
     ObeysGrouping, ObeysSliding, ObeysInterleave

\* u is what t may become.
Extends(t, u) == \/ t = u
                 \/ t.fin = "pending" /\ \E z \in Seq(Item) : u.items = t.items \o z

\* Extends is reflexive,
LEMMA ExtendsSelf == \A t : Extends(t, t)
  BY DEF Extends

\* and transitive,
LEMMA ExtendsMore ==
    ASSUME NEW t \in Traces, NEW u \in Traces, NEW v \in Traces, Extends(t, u), Extends(u, v)
    PROVE  Extends(t, v)
<1>1. CASE t = u \/ u = v
  BY <1>1 DEF Extends
<1>2. CASE t # u /\ u # v
  <2>1. PICK y \in Seq(Item) : u.items = t.items \o y
    BY <1>2 DEF Extends
  <2>2. PICK z \in Seq(Item) : v.items = u.items \o z
    BY <1>2 DEF Extends
  <2>3. t.items \in Seq(Item) /\ t.fin = "pending"
    BY <1>2, TraceFacts DEF Extends
  <2>4. y \o z \in Seq(Item) /\ (t.items \o y) \o z = t.items \o (y \o z)
    <3> DEFINE a == t.items
    <3>1. a \in Seq(Item)
      BY <2>3
    <3> HIDE DEF a
    <3>2. y \o z \in Seq(Item) /\ (a \o y) \o z = a \o (y \o z)
      BY <3>1
    <3> QED
      BY <3>2 DEF a
  <2>5. v.items = t.items \o (y \o z)
    BY <2>1, <2>2, <2>4
  <2> QED
    BY <2>3, <2>4, <2>5 DEF Extends
<1> QED
  BY <1>1, <1>2

\* and what a generator adds extends.
LEMMA AfterMore ==
    ASSUME NEW l \in Traces, l.fin = "pending", NEW d, d.out \in Seq(Item), d.st \in Finals \cup {"on"}
    PROVE  After(l, d) \in Traces /\ Extends(l, After(l, d))
           /\ (d.st # "on" => After(l, d).fin = d.st)
<1>1. l.items \in Seq(Item)
  BY TraceFacts
<1>2. l.items \o d.out \in Seq(Item)
  BY <1>1
<1>3. After(l, d).items = l.items \o d.out /\ After(l, d).fin = IF d.st = "on" THEN "pending" ELSE d.st
  BY DEF After, Trace
<1>4. After(l, d) \in Traces
  <2> DEFINE a == l.items \o d.out
             b == IF d.st = "on" THEN "pending" ELSE d.st
  <2>1. a \in Seq(Item) /\ b \in Finals \cup {"pending"}
    BY <1>2
  <2>2. After(l, d) = Trace(a, b)
    BY Zenon DEF After
  <2> HIDE DEF a, b
  <2> QED
    BY <2>1, <2>2, TraceFacts
<1> QED
  BY <1>3, <1>4 DEF Extends

\* The law of a trace that goes on is a trace;
LEMMA LawPending ==
    ASSUME Setup, NEW o, Obeys(o)
    PROVE  \A s \in Seq(Item) : Law(o, Pend(s), other) \in Traces
<1> DEFINE T == {s \in Seq(Item) : Law(o, Pend(s), other) \in Traces}
<1>1. <<>> \in T
  BY ItemFacts, AfterFacts DEF Obeys, Begins
<1>2. ASSUME NEW s \in Seq(Item), NEW x \in Item, s \in T PROVE Append(s, x) \in T
  <2> DEFINE l == Law(o, Pend(s), other)
             d == OnItem(o, Mem(o, s), x)
             n == Law(o, Pend(Append(s, x)), other)
  <2>1. l \in Traces
    BY <1>2
  <2>2. IF l.fin = "pending" THEN n = After(l, d) /\ d.out \in Seq(Item) /\ d.st \in Finals \cup {"on"} ELSE n = l
    <3>1. GoesOn(o, s, x)
      BY DEF Obeys
    <3> QED
      BY <3>1 DEF GoesOn
  <2> HIDE DEF l, d, n
  <2>3. n \in Traces
    BY <2>1, <2>2, AfterMore
  <2> QED
    BY <2>3 DEF n
<1> HIDE DEF T
<1>3. \A s \in Seq(Item) : s \in T
  BY <1>1, <1>2, SeqInduct
<1> QED
  BY <1>3 DEF T

\* one item more extends it,
LEMMA LawGoesOn ==
    ASSUME Setup, NEW o, Obeys(o), NEW s \in Seq(Item), NEW x \in Item
    PROVE  Extends(Law(o, Pend(s), other), Law(o, Pend(Append(s, x)), other))
<1> DEFINE l == Law(o, Pend(s), other)
           d == OnItem(o, Mem(o, s), x)
           n == Law(o, Pend(Append(s, x)), other)
<1>1. l \in Traces
  BY LawPending
<1>2. IF l.fin = "pending" THEN n = After(l, d) /\ d.out \in Seq(Item) /\ d.st \in Finals \cup {"on"} ELSE n = l
  <2>1. GoesOn(o, s, x)
    BY DEF Obeys
  <2> QED
    BY <2>1 DEF GoesOn
<1> HIDE DEF l, d, n
<1>3. Extends(l, n)
  <2>1. CASE l.fin = "pending"
    BY <1>1, <1>2, <2>1, AfterMore
  <2>2. CASE l.fin # "pending"
    BY <1>2, <2>2, ExtendsSelf
  <2> QED
    BY <2>1, <2>2
<1> QED
  BY <1>3 DEF l, n

\* any number of items do,
LEMMA LawMore ==
    ASSUME Setup, NEW o, Obeys(o), NEW s \in Seq(Item)
    PROVE  \A z \in Seq(Item) : Extends(Law(o, Pend(s), other), Law(o, Pend(s \o z), other))
<1> DEFINE T == {z \in Seq(Item) : Extends(Law(o, Pend(s), other), Law(o, Pend(s \o z), other))}
<1>1. <<>> \in T
  <2>1. s \o <<>> = s
    OBVIOUS
  <2> QED
    BY <2>1, ItemFacts, ExtendsSelf
<1>2. ASSUME NEW z \in Seq(Item), NEW x \in Item, z \in T PROVE Append(z, x) \in T
  <2>1. s \o z \in Seq(Item) /\ Append(z, x) \in Seq(Item) /\ s \o Append(z, x) = Append(s \o z, x)
    OBVIOUS
  <2>2. Append(s \o z, x) \in Seq(Item)
    BY <2>1
  <2>3. Extends(Law(o, Pend(s), other), Law(o, Pend(s \o z), other))
    BY <1>2
  <2>4. Extends(Law(o, Pend(s \o z), other), Law(o, Pend(Append(s \o z, x)), other))
    BY <2>1, LawGoesOn
  <2>5. Extends(Law(o, Pend(s), other), Law(o, Pend(Append(s \o z, x)), other))
    <3>1. Law(o, Pend(s), other) \in Traces /\ Law(o, Pend(s \o z), other) \in Traces
          /\ Law(o, Pend(Append(s \o z, x)), other) \in Traces
      BY <2>1, <2>2, LawPending
    <3> QED
      BY <2>3, <2>4, <3>1, ExtendsMore
  <2> QED
    BY <2>1, <2>5
<1> HIDE DEF T
<1>3. \A z \in Seq(Item) : z \in T
  BY <1>1, <1>2, SeqInduct
<1> QED
  BY <1>3 DEF T

\* and an end does.
LEMMA LawStops ==
    ASSUME Setup, NEW o, Obeys(o), NEW s \in Seq(Item), NEW e \in Finals
    PROVE  /\ Law(o, Trace(s, e), other) \in Traces /\ Law(o, Trace(s, e), other).fin \in Finals
           /\ Extends(Law(o, Pend(s), other), Law(o, Trace(s, e), other))
<1> DEFINE l == Law(o, Pend(s), other)
           d == IF e = "end" THEN OnEnd(o, Mem(o, s)) ELSE OnError(o, Mem(o, s), e)
           n == Law(o, Trace(s, e), other)
<1>1. l \in Traces
  BY LawPending
<1>2. IF l.fin = "pending" THEN n = After(l, d) /\ d.out \in Seq(Item) /\ d.st \in Finals ELSE n = l
  <2>1. Stops(o, s, e)
    BY DEF Obeys
  <2> QED
    BY <2>1 DEF Stops
<1> HIDE DEF l, d, n
<1>3. n \in Traces /\ n.fin \in Finals /\ Extends(l, n)
  <2>1. CASE l.fin = "pending"
    BY <1>1, <1>2, <2>1, AfterMore, FinalFacts
  <2>2. CASE l.fin # "pending"
    <3>1. n = l /\ l.fin \in Finals
      BY <1>1, <1>2, <2>2, TraceFacts
    <3> QED
      BY <1>1, <3>1, ExtendsSelf
  <2> QED
    BY <2>1, <2>2
<1> QED
  BY <1>3 DEF l, n

\* So laws make traces of traces, ended ones of ended ones,
LEMMA LawTyped ==
    ASSUME Setup, NEW o, Obeys(o), NEW t \in Traces
    PROVE  Law(o, t, other) \in Traces /\ (t.fin # "pending" => Law(o, t, other).fin # "pending")
<1>1. t = Trace(t.items, t.fin) /\ t.items \in Seq(Item) /\ t.fin \in Finals \cup {"pending"}
  BY TraceFacts
<1>2. CASE t.fin = "pending"
  <2>1. t = Pend(t.items)
    BY <1>1, <1>2 DEF Pend
  <2> QED
    BY <1>1, <1>2, <2>1, LawPending
<1>3. CASE t.fin # "pending"
  <2>1. t.fin \in Finals
    BY <1>1, <1>3
  <2> QED
    BY <1>1, <2>1, LawStops, FinalFacts
<1> QED
  BY <1>2, <1>3

\* and are monotonic: what has been yielded is never taken back.
LEMMA LawMono ==
    ASSUME Setup, NEW o, Obeys(o), NEW t \in Traces, NEW u \in Traces, Extends(t, u)
    PROVE  Extends(Law(o, t, other), Law(o, u, other))
<1>1. CASE t = u
  BY <1>1, ExtendsSelf
<1>2. CASE t # u
  <2>1. PICK z \in Seq(Item) : u.items = t.items \o z
    BY <1>2 DEF Extends
  <2>2. t = Pend(t.items) /\ t.items \in Seq(Item) /\ u = Trace(u.items, u.fin) /\ u.items \in Seq(Item)
        /\ u.fin \in Finals \cup {"pending"}
    BY <1>2, TraceFacts DEF Extends, Pend
  <2>3. Extends(Law(o, Pend(t.items), other), Law(o, Pend(u.items), other))
    BY <2>1, <2>2, LawMore
  <2>4. CASE u.fin = "pending"
    BY <2>2, <2>3, <2>4 DEF Pend
  <2>5. CASE u.fin # "pending"
    <3>1. u.fin \in Finals
      BY <2>2, <2>5
    <3>2. Extends(Law(o, Pend(u.items), other), Law(o, Trace(u.items, u.fin), other))
          /\ Law(o, Trace(u.items, u.fin), other) \in Traces
      BY <2>2, <3>1, LawStops
    <3>3. Law(o, Pend(t.items), other) \in Traces /\ Law(o, Pend(u.items), other) \in Traces
      BY <2>2, LawPending
    <3>4. Extends(Law(o, Pend(t.items), other), Law(o, Trace(u.items, u.fin), other))
      BY <2>3, <3>2, <3>3, ExtendsMore
    <3> QED
      BY <2>2, <3>4
  <2> QED
    BY <2>4, <2>5
<1> QED
  BY <1>1, <1>2

\* The laws of the prefixes of a chain.
LawFun(f, c, n, t, u) == f = [k \in 0..n |-> IF k = 0 THEN t ELSE Law(c[k], f[k - 1], u)]

\* The function that LawsOf recurs on exists,
LEMMA LawsExist ==
    ASSUME NEW c, NEW t, NEW u
    PROVE  \A n \in Nat : \E f : LawFun(f, c, n, t, u)
<1> DEFINE T == {n \in Nat : \E f : LawFun(f, c, n, t, u)}
<1>1. 0 \in T
  <2> DEFINE f == [k \in 0..0 |-> t]
  <2>1. f = [k \in 0..0 |-> IF k = 0 THEN t ELSE Law(c[k], f[k - 1], u)]
    OBVIOUS
  <2> HIDE DEF f
  <2>2. LawFun(f, c, 0, t, u)
    BY <2>1 DEF LawFun
  <2> QED
    BY <2>2
<1>2. ASSUME NEW n \in Nat, n \in T PROVE n + 1 \in T
  <2>1. PICK f : LawFun(f, c, n, t, u)
    BY <1>2
  <2>2. f = [k \in 0..n |-> IF k = 0 THEN t ELSE Law(c[k], f[k - 1], u)]
    BY <2>1 DEF LawFun
  <2> DEFINE g == [k \in 0..n + 1 |-> IF k = n + 1 THEN Law(c[n + 1], f[n], u) ELSE f[k]]
  <2>3. \A k \in 0..n + 1 : g[k] = IF k = 0 THEN t ELSE Law(c[k], g[k - 1], u)
    <3>1. TAKE k \in 0..n + 1
    <3>2. CASE k = n + 1
      <4>1. n \in 0..n + 1 /\ n # n + 1 /\ k # 0 /\ k - 1 = n
        BY <3>2
      <4> QED
        BY <3>2, <4>1
    <3>3. CASE k # n + 1
      <4>1. k \in 0..n
        BY <3>1, <3>3
      <4>2. g[k] = f[k] /\ f[k] = IF k = 0 THEN t ELSE Law(c[k], f[k - 1], u)
        BY <2>2, <3>3, <4>1
      <4>3. k # 0 => k - 1 \in 0..n + 1 /\ k - 1 # n + 1
        BY <4>1
      <4>4. k # 0 => g[k - 1] = f[k - 1]
        BY <4>3
      <4> HIDE DEF g
      <4> QED
        BY <4>2, <4>4
    <3> QED
      BY <3>2, <3>3
  <2>4. g = [k \in 0..n + 1 |-> g[k]]
    OBVIOUS
  <2> HIDE DEF g
  <2>5. g = [k \in 0..n + 1 |-> IF k = 0 THEN t ELSE Law(c[k], g[k - 1], u)]
    BY <2>3, <2>4
  <2>6. LawFun(g, c, n + 1, t, u)
    BY <2>5 DEF LawFun
  <2> QED
    BY <2>6
<1> HIDE DEF T
<1>3. \A n \in Nat : n \in T
  BY <1>1, <1>2, NatInduct
<1> QED
  BY <1>3 DEF T

\* so each trace of a chain is what the law of its operator makes of the one below.
LEMMA LawsAre ==
    ASSUME NEW c, Len(c) \in Nat, NEW t, NEW u
    PROVE  /\ LawsOf(c, t, u)[0] = t
           /\ \A k \in 1..Len(c) : LawsOf(c, t, u)[k] = Law(c[k], LawsOf(c, t, u)[k - 1], u)
<1> DEFINE f == LawsOf(c, t, u)
<1>1. f = CHOOSE g : LawFun(g, c, Len(c), t, u)
  BY Zenon DEF LawsOf, LawFun
<1> HIDE DEF f
<1>2. LawFun(f, c, Len(c), t, u)
  BY <1>1, LawsExist, Zenon
<1>3. f = [k \in 0..Len(c) |-> IF k = 0 THEN t ELSE Law(c[k], f[k - 1], u)]
  BY <1>2 DEF LawFun
<1>4. 0 \in 0..Len(c) /\ \A k \in 1..Len(c) : k \in 0..Len(c) /\ k # 0
  OBVIOUS
<1>5. f[0] = t /\ \A k \in 1..Len(c) : f[k] = Law(c[k], f[k - 1], u)
  BY <1>3, <1>4
<1> QED
  BY <1>5 DEF f

----------------------------------------------------------------------------
(* Types. What a generator may remember while it runs on, and what it does.   *)

Errors == (Finals \cup {"timeout"}) \ {"on"}

MemOk(o, m) ==
    /\ o.is = "scan" => m \in Item
    /\ o.is \in {"grouped", "grouped_within", "sliding"} => m \in Seq(Item)
    /\ o.is = "interleave" => m \in Nat \X Nat
    /\ o.is \in {"zip_with", "take", "drop", "enumerate", "intersperse"} => m \in Nat

Doing(o, d) ==
    /\ d = Does(d.out, d.mem, d.st)
    /\ d.out \in Seq(Item) /\ d.st \in Errors \cup {"on"}
    /\ d.st = "on" => MemOk(o, d.mem)

\* What Does and Emit give is typed.
LEMMA DoesTyped ==
    ASSUME NEW o, NEW r \in Seq(Item), NEW m, NEW e \in Errors
    PROVE  Doing(o, Does(r, m, e))
  BY DEF Doing, Does, Errors

\* A generator that raises has stopped.
LEMMA DoesStops == \A r, m, e : Does(r, m, e).st = e
  BY DEF Does

\* One that emits runs on.
LEMMA EmitTyped ==
    ASSUME NEW o, NEW r \in Seq(Item), NEW m, MemOk(o, m)
    PROVE  Doing(o, Emit(r, m))
<1> DEFINE d == Emit(r, m)
<1>1. d.out = r /\ d.mem = m /\ d.st = "on" /\ d = Does(d.out, d.mem, d.st)
  BY DEF Emit, Does
<1> HIDE DEF d
<1> QED
  BY <1>1 DEF Doing, d

\* The errors that a generator may be given.
LEMMA ErrorFacts ==
    ASSUME Setup
    PROVE  /\ {"end", "bad", "sub", "mapped", "timeout", source.fin, other.fin} \subseteq Errors
           /\ Finals \subseteq Errors /\ "on" \notin Errors /\ "running" \notin Errors
           /\ Errors \subseteq Finals \cup {"timeout"}
  BY FinalFacts DEF Errors, Setup

\* The other stream and its parts.
LEMMA MoreItems ==
    ASSUME Setup
    PROVE  /\ other.items \in Seq(Item) /\ Len(other.items) \in Nat
           /\ \A i \in Nat : i < Len(other.items) => other.items[i + 1] \in Item
           /\ \A a \in Nat, b \in Nat : b <= Len(other.items) => SubSeq(other.items, a + 1, b) \in Seq(Item)
           /\ <<Element>> \in Seq(Item) /\ <<>> \in Seq(Item)
<1>1. other.items \in Seq(Item) /\ Len(other.items) \in Nat
  BY DEF Setup
<1>2. \A i \in Nat : i < Len(other.items) => other.items[i + 1] \in Item
  <2>1. \A i \in Nat : i < Len(other.items) => i + 1 \in 1..Len(other.items)
    BY <1>1
  <2> QED
    BY <1>1, <2>1
<1>3. \A a \in Nat, b \in Nat : b <= Len(other.items) => SubSeq(other.items, a + 1, b) \in Seq(Item)
  BY <1>1
<1>4. <<Element>> \in Seq(Item) /\ <<>> \in Seq(Item)
  BY ItemFacts
<1> QED
  BY <1>1, <1>2, <1>3, <1>4

\* An operator keeps its memory typed with an item,
LEMMA OnItemTyped ==
    ASSUME Setup, NEW o \in Operators, NEW m, MemOk(o, m), NEW x \in Item
    PROVE  Doing(o, OnItem(o, m, x))
<1> DEFINE d == OnItem(o, m, x)
<1>0. /\ <<x>> \in Seq(Item) /\ <<>> \in Seq(Item) /\ <<F(x)>> \in Seq(Item) /\ <<x, F(x)>> \in Seq(Item)
      /\ Expand(x) \in Seq(Item) /\ <<Element, x>> \in Seq(Item)
  BY ItemFacts
<1>e. {"end", "bad", "sub", "mapped", "timeout", source.fin, other.fin} \subseteq Errors
  BY ErrorFacts
<1>1. CASE o.is \in Calls /\ Bad(x)
  <2>1. d = Does(<<>>, <<>>, "bad")
    BY <1>1, Zenon DEF OnItem, Raise
  <2> QED
    BY <1>0, <1>e, <2>1, DoesTyped
<1>2. CASE ~(o.is \in Calls /\ Bad(x)) /\ o.is \in {"map", "map_async"}
  <2>1. d = Emit(<<F(x)>>, m)
    BY <1>2 DEF OnItem, map
  <2> QED
    BY <1>0, <2>1, EmitTyped
<1>3. CASE ~(o.is \in Calls /\ Bad(x)) /\ o.is = "flat_map"
  <2>1. d = IF P(x) THEN Emit(<<x, F(x)>>, m) ELSE Does(<<>>, <<>>, "sub")
    BY <1>3 DEF OnItem, flat_map, Raise
  <2> QED
    BY <1>0, <1>e, <2>1, EmitTyped, DoesTyped
<1>4. CASE o.is = "zip_with"
  <2>1. d = IF m < Len(other.items) THEN Emit(<<x \o other.items[m + 1]>>, m + 1) ELSE Does(<<>>, m, other.fin)
    BY <1>4 DEF OnItem, zip_with, Calls
  <2>2. m \in Nat /\ MemOk(o, m + 1)
    BY <1>4 DEF MemOk
  <2>3. m < Len(other.items) => <<x \o other.items[m + 1]>> \in Seq(Item)
    <3>1. m < Len(other.items) => other.items[m + 1] \in Item
      BY <2>2, MoreItems
    <3>2. m < Len(other.items) => x \o other.items[m + 1] \in Item
      BY <3>1, ItemFacts
    <3> QED
      BY <3>2
  <2> QED
    BY <1>0, <1>e, <2>1, <2>2, <2>3, EmitTyped, DoesTyped
<1>5. CASE ~(o.is \in Calls /\ Bad(x)) /\ o.is = "scan"
  <2>1. d = Emit(<<m \o x>>, m \o x)
    BY <1>5 DEF OnItem, scan
  <2>2. m \o x \in Item
    BY <1>5, ItemFacts DEF MemOk
  <2>3. MemOk(o, m \o x) /\ <<m \o x>> \in Seq(Item)
    BY <1>5, <2>2 DEF MemOk
  <2> QED
    BY <2>1, <2>3, EmitTyped
<1>6. CASE ~(o.is \in Calls /\ Bad(x)) /\ o.is = "take_while"
  <2>1. d = IF P(x) THEN Emit(<<x>>, m) ELSE Does(<<>>, m, "end")
    BY <1>6 DEF OnItem, take_while
  <2> QED
    BY <1>0, <1>e, <2>1, EmitTyped, DoesTyped
<1>7. CASE ~(o.is \in Calls /\ Bad(x)) /\ o.is \in {"filter", "collect", "map_concat"}
  <2>1. d = Emit(<<x>>, m) \/ d = Emit(<<F(x)>>, m) \/ d = Emit(<<>>, m) \/ d = Emit(Expand(x), m)
    BY <1>7 DEF OnItem, filter, collect, map_concat
  <2> QED
    BY <1>0, <2>1, EmitTyped
<1>8. CASE o.is = "enumerate"
  <2>1. d = Emit(<<<<m>> \o x>>, m + 1)
    BY <1>8 DEF OnItem, enumerate, Calls
  <2>2. m \in Nat /\ MemOk(o, m + 1)
    BY <1>8 DEF MemOk
  <2>3. <<m>> \o x \in Item
    BY <2>2, ItemFacts
  <2>4. <<<<m>> \o x>> \in Seq(Item)
    BY <2>3
  <2> QED
    BY <2>1, <2>2, <2>4, EmitTyped
<1>9. CASE o.is \in {"take", "drop"}
  <2>1. d = Does(<<>>, m, "end") \/ d = Emit(<<x>>, m + 1) \/ d = Emit(<<>>, m + 1) \/ d = Emit(<<x>>, m)
    BY <1>9 DEF OnItem, take, drop, Calls
  <2>2. MemOk(o, m + 1)
    BY <1>9 DEF MemOk
  <2> QED
    BY <1>0, <1>e, <2>1, <2>2, EmitTyped, DoesTyped
<1>10. CASE o.is \in {"grouped", "grouped_within"}
  <2>1. d = Emit(<<Batch(Append(m, x))>>, <<>>) \/ d = Emit(<<>>, Append(m, x))
    BY <1>10 DEF OnItem, grouped, Calls
  <2>2. m \in Seq(Item)
    BY <1>10 DEF MemOk
  <2>3. Append(m, x) \in Seq(Item)
    BY <2>2
  <2>4. <<Batch(Append(m, x))>> \in Seq(Item)
    <3>1. Batch(Append(m, x)) \in Item
      BY <2>3, BatchTyped
    <3> QED
      BY <3>1
  <2>5. MemOk(o, <<>>) /\ MemOk(o, Append(m, x))
    BY <1>0, <1>10, <2>3 DEF MemOk
  <2> QED
    BY <1>0, <2>1, <2>4, <2>5, EmitTyped
<1>11. CASE o.is = "sliding"
  <2> DEFINE w == Append(m, x)
  <2>1. d = IF Len(w) = o.n THEN Emit(<<Batch(w)>>, SubSeq(w, o.step + 1, Len(w))) ELSE Emit(<<>>, w)
    BY <1>11 DEF OnItem, sliding, Calls
  <2>2. m \in Seq(Item) /\ o.step \in Nat \ {0}
    BY <1>11 DEF MemOk, Operators
  <2>3. w \in Seq(Item)
    BY <2>2
  <2>4. SubSeq(w, o.step + 1, Len(w)) \in Seq(Item)
    <3> HIDE DEF w
    <3> QED
      BY <2>2, <2>3
  <2>5. <<Batch(w)>> \in Seq(Item)
    <3>1. Batch(w) \in Item
      BY <2>3, BatchTyped
    <3> QED
      BY <3>1
  <2> HIDE DEF w
  <2>6. MemOk(o, w) /\ MemOk(o, SubSeq(w, o.step + 1, Len(w)))
    BY <1>11, <2>3, <2>4 DEF MemOk
  <2> QED
    BY <1>0, <2>1, <2>5, <2>6, EmitTyped
<1>12. CASE o.is = "intersperse"
  <2>1. d = Emit(<<x>>, 1) \/ d = Emit(<<Element, x>>, 1)
    BY <1>12 DEF OnItem, intersperse, Calls
  <2>2. MemOk(o, 1)
    BY <1>12 DEF MemOk
  <2> QED
    BY <1>0, <2>1, <2>2, EmitTyped
<1>13. CASE ~(o.is \in Calls /\ Bad(x)) /\ o.is = "distinct"
  <2>1. d = Emit(<<>>, m) \/ d = Emit(<<x>>, m \cup {Head(x)})
    BY <1>13 DEF OnItem, distinct
  <2>2. MemOk(o, m \cup {Head(x)})
    BY <1>13 DEF MemOk
  <2> QED
    BY <1>0, <2>1, <2>2, EmitTyped
<1>14. CASE o.is = "interleave"
  <2> DEFINE short == m[2] + o.n > Len(other.items)
             upto == IF short THEN Len(other.items) ELSE m[2] + o.n
             theirs == SubSeq(other.items, m[2] + 1, upto)
  <2>1. d = IF m[1] + 1 < o.n THEN Emit(<<x>>, <<m[1] + 1, m[2]>>)
            ELSE Does(<<x>> \o theirs, <<0, upto>>, IF short /\ other.fin # "end" THEN other.fin ELSE "on")
    BY <1>14 DEF OnItem, interleave, Calls
  <2>2. m[1] \in Nat /\ m[2] \in Nat /\ o.n \in Nat
    BY <1>14 DEF MemOk, Operators
  <2>3. upto \in Nat /\ upto <= Len(other.items)
    BY <2>2, MoreItems
  <2> HIDE DEF upto
  <2>4. theirs \in Seq(Item)
    BY <2>2, <2>3, MoreItems
  <2> HIDE DEF theirs
  <2>5. <<x>> \o theirs \in Seq(Item)
    BY <1>0, <2>4
  <2>6. MemOk(o, <<m[1] + 1, m[2]>>) /\ MemOk(o, <<0, upto>>)
    BY <1>14, <2>2, <2>3 DEF MemOk
  <2>7. Doing(o, Emit(<<x>>, <<m[1] + 1, m[2]>>)) /\ Doing(o, Emit(<<x>> \o theirs, <<0, upto>>))
        /\ Doing(o, Does(<<x>> \o theirs, <<0, upto>>, other.fin))
    BY <1>0, <1>e, <2>5, <2>6, EmitTyped, DoesTyped
  <2> QED
    BY <2>1, <2>7 DEF Emit
<1>15. CASE o.is = "completion_timeout"
  <2>1. d = Does(<<>>, <<>>, "timeout") \/ d = Emit(<<x>>, m)
    BY <1>15 DEF OnItem, completion_timeout, Raise, Calls
  <2> QED
    BY <1>0, <1>e, <2>1, EmitTyped, DoesTyped
<1>16. CASE /\ ~(o.is \in Calls /\ Bad(x))
            /\ o.is \in {"and_then", "concat", "prepend", "recover", "recover_with", "map_error", "throttle",
                         "keep_alive", "idle_timeout", "watch_termination"}
  <2>1. d = Emit(<<x>>, m)
    BY <1>16 DEF OnItem
  <2> QED
    BY <1>0, <2>1, EmitTyped
<1>17. o.is \in {"map", "map_async", "flat_map", "zip_with", "scan", "take_while", "filter", "collect",
                 "map_concat", "enumerate", "take", "drop", "grouped", "grouped_within", "sliding",
                 "intersperse", "distinct", "interleave", "completion_timeout", "and_then", "concat",
                 "prepend", "recover", "recover_with", "map_error", "throttle", "keep_alive",
                 "idle_timeout", "watch_termination"}
  BY DEF Operators
<1> DEFINE typed == Doing(o, OnItem(o, m, x))
<1>18. CASE o.is \in Calls /\ Bad(x)
  BY <1>1, <1>18
<1>19. CASE ~(o.is \in Calls /\ Bad(x))
  <2>1. o.is \in {"map", "map_async", "flat_map", "scan", "take_while"} => typed
    BY <1>2, <1>3, <1>5, <1>6, <1>19
  <2>2. o.is \in {"filter", "collect", "map_concat", "distinct"} => typed
    BY <1>7, <1>13, <1>19
  <2>3. o.is \in {"and_then", "concat", "prepend", "recover", "recover_with", "map_error", "throttle",
                  "keep_alive", "idle_timeout", "watch_termination"} => typed
    BY <1>16, <1>19
  <2>4. o.is \in {"zip_with", "enumerate", "take", "drop", "grouped", "grouped_within", "sliding",
                  "intersperse", "interleave", "completion_timeout"} => typed
    BY <1>4, <1>8, <1>9, <1>10, <1>11, <1>12, <1>14, <1>15
  <2>5. typed
    BY <1>17, <2>1, <2>2, <2>3, <2>4
  <2> QED
    BY <2>5
<1> QED
  BY <1>18, <1>19


\* with a timer,
LEMMA OnTimeoutTyped ==
    ASSUME Setup, NEW o \in Operators, o.is \in Timed, NEW m, MemOk(o, m)
    PROVE  Doing(o, OnTimeout(o, m))
<1>e. {"end", "bad", "sub", "mapped", "timeout", source.fin, other.fin} \subseteq Errors /\ "on" \notin Errors
  BY ErrorFacts
<1>1. CASE o.is = "keep_alive"
  <2>1. OnTimeout(o, m) = Emit(<<Element>>, m)
    BY <1>1 DEF OnTimeout
  <2> QED
    BY <2>1, MoreItems, EmitTyped
<1>2. CASE o.is = "grouped_within"
  <2>1. OnTimeout(o, m) = Emit(IF m = <<>> THEN <<>> ELSE <<Batch(m)>>, <<>>)
    BY <1>2 DEF OnTimeout
  <2>2. m \in Seq(Item)
    BY <1>2 DEF MemOk
  <2>3. Batch(m) \in Item
    BY <2>2, BatchTyped
  <2>4. (IF m = <<>> THEN <<>> ELSE <<Batch(m)>>) \in Seq(Item) /\ <<>> \in Seq(Item)
    BY <2>3, MoreItems
  <2>5. MemOk(o, <<>>)
    BY <1>2, <2>4 DEF MemOk
  <2> QED
    BY <2>1, <2>4, <2>5, EmitTyped
<1>3. CASE o.is = "idle_timeout"
  <2>1. OnTimeout(o, m) = Does(<<>>, <<>>, "timeout")
    BY <1>3 DEF OnTimeout, Raise
  <2> QED
    BY <1>e, <2>1, MoreItems, DoesTyped
<1> QED
  BY <1>1, <1>2, <1>3 DEF Timed

\* an end,
LEMMA OnEndTyped ==
    ASSUME Setup, NEW o \in Operators, NEW m, MemOk(o, m)
    PROVE  Doing(o, OnEnd(o, m)) /\ OnEnd(o, m).st # "on"
<1> DEFINE d == OnEnd(o, m)
<1>e. {"end", "bad", "sub", "mapped", "timeout", source.fin, other.fin} \subseteq Errors /\ "on" \notin Errors
  BY ErrorFacts
<1>1. CASE o.is \in {"grouped", "grouped_within"} /\ m # <<>>
  <2>1. d = Does(<<Batch(m)>>, <<>>, "end")
    BY <1>1 DEF OnEnd
  <2>2. m \in Seq(Item)
    BY <1>1 DEF MemOk
  <2>3. Batch(m) \in Item
    BY <2>2, BatchTyped
  <2>4. <<Batch(m)>> \in Seq(Item)
    BY <2>3
  <2>8. Doing(o, d)
    BY <1>e, <2>1, <2>4, DoesTyped
  <2>9. d.st # "on"
    BY <1>e, <2>1, DoesStops
  <2> QED
    BY <2>8, <2>9
<1>2. CASE o.is = "concat"
  <2>1. d = Does(other.items, m, other.fin)
    BY <1>2 DEF OnEnd
  <2>8. Doing(o, d)
    BY <1>e, <2>1, MoreItems, DoesTyped
  <2>9. d.st # "on"
    BY <1>e, <2>1, DoesStops
  <2> QED
    BY <2>8, <2>9
<1>3. CASE o.is = "interleave"
  <2>1. d = Does(SubSeq(other.items, m[2] + 1, Len(other.items)), m, other.fin)
    BY <1>3 DEF OnEnd
  <2>2. m[2] \in Nat
    BY <1>3 DEF MemOk
  <2>3. SubSeq(other.items, m[2] + 1, Len(other.items)) \in Seq(Item)
    <3>1. Len(other.items) \in Nat /\ Len(other.items) <= Len(other.items)
      BY MoreItems
    <3> QED
      BY <2>2, <3>1, MoreItems
  <2>8. Doing(o, d)
    BY <1>e, <2>1, <2>3, DoesTyped
  <2>9. d.st # "on"
    BY <1>e, <2>1, DoesStops
  <2> QED
    BY <2>8, <2>9
<1>4. CASE ~(o.is \in {"grouped", "grouped_within"} /\ m # <<>>) /\ o.is \notin {"concat", "interleave"}
  <2>1. d = Does(<<>>, m, "end")
    BY <1>4 DEF OnEnd
  <2>8. Doing(o, d)
    BY <1>e, <2>1, MoreItems, DoesTyped
  <2>9. d.st # "on"
    BY <1>e, <2>1, DoesStops
  <2> QED
    BY <2>8, <2>9
<1> QED
  BY <1>1, <1>2, <1>3, <1>4

\* an error, after which only a timed one may go on,
LEMMA OnErrorTyped ==
    ASSUME Setup, NEW o \in Operators, NEW m, MemOk(o, m), NEW e \in Errors
    PROVE  /\ Doing(o, OnError(o, m, e))
           /\ o.is \notin Timed => OnError(o, m, e).st # "on"
<1> DEFINE d == OnError(o, m, e)
<1>e. {"end", "bad", "sub", "mapped", "timeout", source.fin, other.fin} \subseteq Errors /\ "on" \notin Errors
  BY ErrorFacts
<1>1. CASE o.is = "recover"
  <2>1. d = Does(<<Element>>, m, "end")
    BY <1>1 DEF OnError, Timed
  <2>8. Doing(o, d)
    BY <1>e, <2>1, MoreItems, DoesTyped
  <2>9. d.st # "on"
    BY <1>e, <2>1, DoesStops
  <2> QED
    BY <2>8, <2>9
<1>2. CASE o.is = "recover_with"
  <2>1. d = Does(other.items, m, other.fin)
    BY <1>2 DEF OnError, Timed
  <2>8. Doing(o, d)
    BY <1>e, <2>1, MoreItems, DoesTyped
  <2>9. d.st # "on"
    BY <1>e, <2>1, DoesStops
  <2> QED
    BY <2>8, <2>9
<1>3. CASE o.is = "map_error"
  <2>1. d = Does(<<>>, <<>>, "mapped")
    BY <1>3 DEF OnError, Timed, Raise
  <2>8. Doing(o, d)
    BY <1>e, <2>1, MoreItems, DoesTyped
  <2>9. d.st # "on"
    BY <1>e, <2>1, DoesStops
  <2> QED
    BY <2>8, <2>9
<1>4. CASE e = "timeout" /\ o.is \in Timed
  <2>1. d = OnTimeout(o, m)
    BY <1>4 DEF OnError, Timed
  <2> QED
    BY <1>4, <2>1, OnTimeoutTyped
<1>5. CASE o.is \notin {"recover", "recover_with", "map_error"} /\ ~(e = "timeout" /\ o.is \in Timed)
  <2>1. d = Does(<<>>, <<>>, e)
    BY <1>5 DEF OnError, Raise
  <2>8. Doing(o, d)
    BY <1>e, <2>1, MoreItems, DoesTyped
  <2>9. d.st # "on"
    BY <1>e, <2>1, DoesStops
  <2> QED
    BY <2>8, <2>9
<1> QED
  BY <1>1, <1>2, <1>3, <1>4, <1>5

\* and at the start.
LEMMA FreshTyped ==
    ASSUME Setup, NEW o \in Operators
    PROVE  Doing(o, Fresh(o))
<1>0. 0 \in Nat /\ <<>> \in Seq(Item) /\ <<0, 0>> \in Nat \X Nat /\ <<Zero>> \in Seq(Item) /\ <<Element>> \in Seq(Item)
      /\ Zero \in Item
  BY ItemFacts
<1>1. CASE o.is = "scan"
  BY <1>0, <1>1, EmitTyped DEF Fresh, MemOk
<1>2. CASE o.is = "prepend"
  BY <1>0, <1>2, EmitTyped DEF Fresh, MemOk
<1>3. CASE o.is \in {"grouped", "grouped_within", "sliding"}
  BY <1>0, <1>3, EmitTyped DEF Fresh, MemOk
<1>4. CASE o.is = "distinct"
  BY <1>0, <1>4, EmitTyped DEF Fresh, MemOk
<1>5. CASE o.is = "interleave"
  BY <1>0, <1>5, EmitTyped DEF Fresh, MemOk
<1>6. CASE o.is \notin {"scan", "prepend", "grouped", "grouped_within", "sliding", "distinct", "interleave"}
  BY <1>0, <1>6, EmitTyped DEF Fresh, MemOk
<1> QED
  BY <1>1, <1>2, <1>3, <1>4, <1>5, <1>6

----------------------------------------------------------------------------
(* What holds in every state, whatever timers fire.                           *)

TypeInv ==
    /\ Setup /\ at \in 0..Top /\ pos \in Nat
    /\ stage = [k \in DOMAIN chain |-> stage[k]]
    /\ \A k \in DOMAIN chain : Doing(chain[k], stage[k])
    /\ seen \in Seq(Item)
    /\ calls \in Seq((DOMAIN chain) \X Errors)

\* Everyone above the one who runs awaits its upstream.
Waits(k) == IF k = Top THEN verdict = "running" ELSE stage[k].st = "on" /\ stage[k].out = <<>>
WaitInv  == \A k \in 1..Top : k > at => Waits(k)

SinkInv ==
    /\ sink = "list"   => acc = seen
    /\ sink = "count"  => acc = Len(seen)
    /\ sink = "reduce" => acc = FlattenSeq(seen)
    /\ sink \in {"first", "last"} /\ seen # <<>> => acc = seen[Len(seen)]
    /\ sink = "first" => IF verdict = "running" THEN seen = <<>> ELSE Len(seen) <= 1
    /\ verdict = "end" /\ sink \in {"first", "last", "reduce"} => seen # <<>>

CallInv ==
    /\ \A i \in DOMAIN calls : chain[calls[i][1]].is = "watch_termination" /\ stage[calls[i][1]].st # "on"
    /\ \A i, j \in DOMAIN calls : calls[i][1] = calls[j][1] => i = j

Inv == TypeInv /\ WaitInv /\ SinkInv /\ CallInv

\* Nothing of the setup changes,
LEMMA SetupSame ==
    ASSUME Setup, UNCHANGED setup
    PROVE  /\ Setup' /\ chain' = chain /\ source' = source /\ other' = other /\ sink' = sink
           /\ Top' = Top /\ Finals' = Finals /\ Errors' = Errors /\ Traces' = Traces
<1>1. chain' = chain /\ source' = source /\ other' = other /\ sink' = sink
  BY DEF setup
<1>2. Top' = Top /\ Finals' = Finals
  BY <1>1 DEF Top, Finals
<1>3. Errors' = Errors /\ Traces' = Traces /\ Setup'
  BY <1>1, <1>2 DEF Errors, Traces, Setup
<1> QED
  BY <1>1, <1>2, <1>3

\* and the levels are those of the chain, with the sink on top.
LEMMA ChainFacts ==
    ASSUME Setup
    PROVE  /\ Top \in Nat \ {0} /\ DOMAIN chain = 1..Top - 1
           /\ \A k \in 1..Top : k \in DOMAIN chain <=> k # Top
           /\ \A k \in DOMAIN chain : k \in 1..Top /\ k + 1 \in 1..Top /\ chain[k] \in Operators /\ k # Top
<1>1. chain \in Seq(Operators) /\ Len(chain) \in Nat /\ DOMAIN chain = 1..Len(chain) /\ Top = Len(chain) + 1
  BY DEF Setup, Top
<1>2. \A k \in 1..Len(chain) : chain[k] \in Operators
  BY <1>1
<1>3. Top \in Nat \ {0} /\ DOMAIN chain = 1..Top - 1
  BY <1>1
<1> QED
  BY <1>1, <1>2, <1>3

\* The sink takes an item, or how its upstream finished.
LEMMA SinkTakes ==
    ASSUME Setup, seen \in Seq(Item), SinkInv, verdict = "running", NEW x \in Item, SinkItem(x), sink' = sink
    PROVE  SinkInv' /\ seen' \in Seq(Item) /\ seen' # <<>>
<1>1. seen' = Append(seen, x) /\ acc' = Accumulate(x) /\ verdict' = IF sink = "first" THEN "end" ELSE verdict
  BY DEF SinkItem
<1>2. /\ seen' \in Seq(Item) /\ seen' # <<>> /\ Len(seen') = Len(seen) + 1 /\ seen'[Len(seen')] = x
      /\ Len(seen) \in Nat
  BY <1>1
<1>3. sink = "list" => acc' = seen'
  BY <1>1 DEF SinkInv, Accumulate
<1>4. sink = "count" => acc' = Len(seen')
  BY <1>1, <1>2 DEF SinkInv, Accumulate
<1>5. ASSUME sink = "reduce" PROVE acc' = FlattenSeq(seen')
  <2>1. acc = FlattenSeq(seen)
    BY <1>5 DEF SinkInv
  <2>2. FlattenSeq(seen') = FlattenSeq(seen) \o x
    BY <1>1, FlattenAppend DEF Item
  <2>3. acc' = IF acc # <<>> THEN acc \o x ELSE x
    BY <1>1, <1>5 DEF Accumulate
  <2>4. <<>> \o x = x
    BY DEF Item
  <2> QED
    BY <2>1, <2>2, <2>3, <2>4
<1>6. sink \in {"first", "last"} => acc' = x
  BY <1>1 DEF Accumulate
<1>7. ASSUME sink = "first" PROVE verdict' = "end" /\ Len(seen') <= 1
  <2>1. seen = <<>>
    BY <1>7 DEF SinkInv
  <2> QED
    BY <1>1, <1>2, <1>7, <2>1
<1> QED
  BY <1>2, <1>3, <1>4, <1>5, <1>6, <1>7 DEF SinkInv

\* The sink is told the end only once, while it runs.
LEMMA SinkStops ==
    ASSUME Setup, seen \in Seq(Item), SinkInv, verdict = "running", NEW e \in Errors, SinkEnds(e), sink' = sink
    PROVE  SinkInv' /\ seen' = seen /\ verdict' # "running" /\ verdict' \in {e, "ValueError"}
<1>1. /\ seen' = seen /\ acc' = acc
      /\ verdict' = IF e = "end" /\ seen = <<>> /\ sink \in {"first", "last", "reduce"} THEN "ValueError" ELSE e
  BY DEF SinkEnds
<1>2. verdict' # "running" /\ verdict' \in {e, "ValueError"}
  BY <1>1, ErrorFacts
<1>3. verdict' = "end" /\ sink \in {"first", "last", "reduce"} => seen # <<>>
  BY <1>1
<1>4. sink = "first" => Len(seen') <= 1
  BY <1>1 DEF SinkInv
<1> QED
  BY <1>1, <1>2, <1>3, <1>4 DEF SinkInv


\* The parts of the pairs in a sequence of pairs.
LEMMA CallsTyped ==
    ASSUME NEW A, NEW B, NEW s \in Seq(A \X B)
    PROVE  \A i \in DOMAIN s : s[i] = <<s[i][1], s[i][2]>> /\ s[i][1] \in A /\ s[i][2] \in B
<1>1. \A i \in DOMAIN s : s[i] \in A \X B
  OBVIOUS
<1> QED
  BY <1>1

\* What the generators below k are left with when k is given something.
Left(from, k) ==
    /\ from = [j \in DOMAIN chain |-> from[j]]
    /\ \A j \in DOMAIN chain : /\ Doing(chain[j], from[j])
                               /\ j >= k => from[j] = stage[j]
                               /\ stage[j].st # "on" => from[j].st # "on"

\* Control goes up to k, which is what waited for it.
LEMMA Shifted ==
    ASSUME Inv, UNCHANGED setup, NEW k \in 1..Top, at < k, at' = k,
           stage' = [j \in DOMAIN chain |-> stage'[j]],
           \A j \in DOMAIN chain : Doing(chain[j], stage'[j]) /\ (j > k => stage'[j] = stage[j]),
           k # Top => verdict' = verdict,
           pos' \in Nat, seen' \in Seq(Item), calls' \in Seq((DOMAIN chain) \X Errors)
    PROVE  TypeInv' /\ WaitInv'
<1>0. Setup /\ at \in 0..Top /\ WaitInv
  BY DEF Inv, TypeInv
<1>1. /\ Setup' /\ chain' = chain /\ Top' = Top /\ Errors' = Errors
      /\ Top \in Nat \ {0} /\ DOMAIN chain = 1..Top - 1
  BY <1>0, SetupSame, ChainFacts
<1>2. \A j \in DOMAIN chain : Doing(chain[j], stage[j])'
  BY <1>1 DEF Doing, MemOk
<1>3. TypeInv'
  BY <1>1, <1>2 DEF TypeInv
<1>4. ASSUME NEW j \in 1..Top, j > k PROVE Waits(j)'
  <2>1. k # Top /\ j > at /\ verdict' = verdict
    BY <1>0, <1>1, <1>4
  <2>2. Waits(j)
    BY <1>0, <2>1 DEF WaitInv
  <2>3. CASE j = Top
    BY <1>1, <2>1, <2>2, <2>3 DEF Waits
  <2>4. CASE j # Top
    <3>1. j \in DOMAIN chain
      BY <1>1, <2>4
    <3> QED
      BY <1>1, <1>4, <2>2, <2>4, <3>1 DEF Waits
  <2> QED
    BY <2>3, <2>4
<1>5. WaitInv'
  BY <1>1, <1>4 DEF WaitInv
<1> QED
  BY <1>3, <1>5

\* Giving an item keeps the invariant,
LEMMA ItemGiven ==
    ASSUME Inv, UNCHANGED setup, pos' \in Nat, NEW k \in 1..Top, k = at + 1, NEW from, Left(from, k),
           NEW x \in Item, GiveItem(from, k, x)
    PROVE  Inv'
<1>0. Setup /\ at \in 0..Top /\ WaitInv /\ SinkInv /\ CallInv /\ seen \in Seq(Item)
      /\ calls \in Seq((DOMAIN chain) \X Errors)
  BY DEF Inv, TypeInv
<1>1. /\ chain' = chain /\ sink' = sink /\ Top \in Nat \ {0} /\ DOMAIN chain = 1..Top - 1
      /\ \A j \in 1..Top : j \in DOMAIN chain <=> j # Top
      /\ \A j \in DOMAIN chain : chain[j] \in Operators
  BY <1>0, SetupSame, ChainFacts
<1>2. at' = k /\ calls' = calls /\ at < k
  BY <1>0, <1>1 DEF GiveItem
<1>3. Waits(k)
  BY <1>0, <1>2 DEF WaitInv
<1>4. CASE k = Top
  <2>1. SinkItem(x) /\ stage' = from /\ verdict = "running"
    BY <1>3, <1>4 DEF GiveItem, Waits
  <2>2. SinkInv' /\ seen' \in Seq(Item)
    BY <1>0, <1>1, <2>1, SinkTakes
  <2>3. /\ stage' = [j \in DOMAIN chain |-> stage'[j]]
        /\ \A j \in DOMAIN chain : Doing(chain[j], stage'[j]) /\ (j > k => stage'[j] = stage[j])
    BY <1>1, <1>4, <2>1 DEF Left
  <2>4. TypeInv' /\ WaitInv'
    BY <1>0, <1>2, <1>4, <2>2, <2>3, Shifted
  <2>5. \A j \in DOMAIN chain : stage[j].st # "on" => stage'[j].st # "on"
    BY <2>1 DEF Left
  <2>6. CallInv'
    <3>1. \A i \in DOMAIN calls : calls[i][1] \in DOMAIN chain
      BY <1>0, CallsTyped
    <3> QED
      BY <1>0, <1>1, <1>2, <2>5, <3>1 DEF CallInv
  <2> QED
    BY <2>2, <2>4, <2>6 DEF Inv
<1>5. CASE k # Top
  <2>1. /\ stage' = [from EXCEPT ![k] = OnItem(chain[k], from[k].mem, x)]
        /\ seen' = seen /\ acc' = acc /\ verdict' = verdict
    BY <1>5 DEF GiveItem
  <2>2. k \in DOMAIN chain /\ from[k] = stage[k] /\ stage[k].st = "on"
    BY <1>1, <1>3, <1>5 DEF Left, Waits
  <2>3. Doing(chain[k], OnItem(chain[k], from[k].mem, x))
    <3>1. Doing(chain[k], from[k])
      BY <2>2 DEF Left
    <3>2. MemOk(chain[k], from[k].mem) /\ chain[k] \in Operators
      BY <1>1, <2>2, <3>1 DEF Doing
    <3> QED
      BY <1>0, <3>2, OnItemTyped
  <2> DEFINE d == OnItem(chain[k], from[k].mem, x)
  <2> HIDE DEF d
  <2>4. /\ stage' = [j \in DOMAIN chain |-> stage'[j]] /\ stage'[k] = d
        /\ \A j \in DOMAIN chain : j # k => stage'[j] = from[j]
    BY <2>1, <2>2 DEF Left, d
  <2>5. \A j \in DOMAIN chain : Doing(chain[j], stage'[j]) /\ (j > k => stage'[j] = stage[j])
    <3>1. \A j \in DOMAIN chain : Doing(chain[j], from[j]) /\ (j >= k => from[j] = stage[j])
      BY DEF Left
    <3>2. \A j \in DOMAIN chain : j \in Nat
      BY <1>1
    <3> QED
      BY <2>3, <2>4, <3>1, <3>2 DEF d
  <2>6. TypeInv' /\ WaitInv'
    BY <1>0, <1>2, <2>1, <2>4, <2>5, Shifted
  <2>7. \A j \in DOMAIN chain : stage[j].st # "on" => stage'[j].st # "on"
    BY <2>2, <2>4 DEF Left
  <2>8. CallInv'
    <3>1. \A i \in DOMAIN calls : calls[i][1] \in DOMAIN chain
      BY <1>0, CallsTyped
    <3> QED
      BY <1>0, <1>1, <1>2, <2>7, <3>1 DEF CallInv
  <2>9. SinkInv'
    BY <1>0, <1>1, <2>1 DEF SinkInv
  <2> QED
    BY <2>6, <2>8, <2>9 DEF Inv
<1> QED
  BY <1>4, <1>5

\* and so does giving an end.
LEMMA FinalGiven ==
    ASSUME Inv, UNCHANGED setup, pos' \in Nat, NEW k \in 1..Top, k = at + 1, NEW from, Left(from, k),
           NEW e \in Errors, GiveFinal(from, k, e)
    PROVE  Inv'
<1>0. Setup /\ at \in 0..Top /\ WaitInv /\ SinkInv /\ CallInv /\ seen \in Seq(Item)
      /\ calls \in Seq((DOMAIN chain) \X Errors)
  BY DEF Inv, TypeInv
<1>1. /\ chain' = chain /\ sink' = sink /\ Top \in Nat \ {0} /\ DOMAIN chain = 1..Top - 1
      /\ \A j \in 1..Top : j \in DOMAIN chain <=> j # Top
      /\ \A j \in DOMAIN chain : chain[j] \in Operators
  BY <1>0, SetupSame, ChainFacts
<1>2. at' = k /\ at < k
  BY <1>0, <1>1 DEF GiveFinal
<1>3. Waits(k)
  BY <1>0, <1>2 DEF WaitInv
<1>4. CASE k = Top
  <2>1. SinkEnds(e) /\ stage' = from /\ verdict = "running" /\ calls' = calls
    BY <1>3, <1>4 DEF GiveFinal, Waits
  <2>2. SinkInv' /\ seen' \in Seq(Item)
    BY <1>0, <1>1, <2>1, SinkStops
  <2>3. /\ stage' = [j \in DOMAIN chain |-> stage'[j]]
        /\ \A j \in DOMAIN chain : Doing(chain[j], stage'[j]) /\ (j > k => stage'[j] = stage[j])
    BY <1>1, <1>4, <2>1 DEF Left
  <2>4. TypeInv' /\ WaitInv'
    BY <1>0, <1>2, <1>4, <2>1, <2>2, <2>3, Shifted
  <2>5. \A j \in DOMAIN chain : stage[j].st # "on" => stage'[j].st # "on"
    BY <2>1 DEF Left
  <2>6. CallInv'
    <3>1. \A i \in DOMAIN calls : calls[i][1] \in DOMAIN chain
      BY <1>0, CallsTyped
    <3> QED
      BY <1>0, <1>1, <2>1, <2>5, <3>1 DEF CallInv
  <2> QED
    BY <2>2, <2>4, <2>6 DEF Inv
<1>5. CASE k # Top
  <2> DEFINE d == IF e = "end" THEN OnEnd(chain[k], from[k].mem) ELSE OnError(chain[k], from[k].mem, e)
  <2>1. /\ stage' = [from EXCEPT ![k] = d]
        /\ seen' = seen /\ acc' = acc /\ verdict' = verdict
        /\ calls' = IF chain[k].is = "watch_termination" THEN Append(calls, <<k, e>>) ELSE calls
    BY <1>5 DEF GiveFinal, CallsBack
  <2>2. k \in DOMAIN chain /\ from[k] = stage[k] /\ stage[k].st = "on"
    BY <1>1, <1>3, <1>5 DEF Left, Waits
  <2>3. Doing(chain[k], d) /\ (chain[k].is \notin Timed => d.st # "on")
    <3>1. Doing(chain[k], from[k])
      BY <2>2 DEF Left
    <3>2. MemOk(chain[k], from[k].mem) /\ chain[k] \in Operators
      BY <1>1, <2>2, <3>1 DEF Doing
    <3>3. CASE e = "end"
      BY <1>0, <3>2, <3>3, OnEndTyped
    <3>4. CASE e # "end"
      BY <1>0, <3>2, <3>4, OnErrorTyped
    <3> QED
      BY <3>3, <3>4
  <2> HIDE DEF d
  <2>4. /\ stage' = [j \in DOMAIN chain |-> stage'[j]] /\ stage'[k] = d
        /\ \A j \in DOMAIN chain : j # k => stage'[j] = from[j]
    BY <2>1, <2>2 DEF Left
  <2>5. \A j \in DOMAIN chain : Doing(chain[j], stage'[j]) /\ (j > k => stage'[j] = stage[j])
    <3>1. \A j \in DOMAIN chain : Doing(chain[j], from[j]) /\ (j >= k => from[j] = stage[j])
      BY DEF Left
    <3>2. \A j \in DOMAIN chain : j \in Nat
      BY <1>1
    <3> QED
      BY <2>3, <2>4, <3>1, <3>2
  <2>6. calls' \in Seq((DOMAIN chain) \X Errors)
    <3>1. <<k, e>> \in (DOMAIN chain) \X Errors
      BY <2>2
    <3> QED
      BY <1>0, <2>1, <3>1
  <2>7. TypeInv' /\ WaitInv'
    BY <1>0, <1>2, <2>1, <2>4, <2>5, <2>6, Shifted
  <2>8. \A j \in DOMAIN chain : stage[j].st # "on" => stage'[j].st # "on"
    BY <2>2, <2>4 DEF Left
  <2>9. CallInv'
    <3>1. \A i \in DOMAIN calls : calls[i][1] \in DOMAIN chain /\ calls[i][1] # k
      <4>1. \A i \in DOMAIN calls : calls[i][1] \in DOMAIN chain
        BY <1>0, CallsTyped
      <4> QED
        BY <1>0, <2>2, <4>1 DEF CallInv
    <3>2. CASE chain[k].is # "watch_termination"
      BY <1>0, <1>1, <2>1, <2>8, <3>1, <3>2 DEF CallInv
    <3>3. CASE chain[k].is = "watch_termination"
      <4>1. /\ calls' = Append(calls, <<k, e>>) /\ d.st # "on"
            /\ DOMAIN calls' = 1..Len(calls) + 1 /\ DOMAIN calls = 1..Len(calls) /\ Len(calls) \in Nat
            /\ calls'[Len(calls) + 1] = <<k, e>>
            /\ \A i \in 1..Len(calls) : calls'[i] = calls[i]
        BY <1>0, <2>1, <2>2, <2>3, <3>3 DEF Timed
      <4>2. \A i \in DOMAIN calls' : i \in DOMAIN calls \/ i = Len(calls) + 1
        BY <4>1
      <4>3. <<k, e>>[1] = k
        OBVIOUS
      <4>4. \A i \in DOMAIN calls' : chain[calls'[i][1]].is = "watch_termination" /\ stage'[calls'[i][1]].st # "on"
        <5>1. TAKE i \in DOMAIN calls'
        <5>2. CASE i \in DOMAIN calls
          BY <1>0, <2>8, <3>1, <4>1, <5>2 DEF CallInv
        <5>3. CASE i = Len(calls) + 1
          BY <2>4, <3>3, <4>1, <4>3, <5>3
        <5> QED
          BY <4>2, <5>2, <5>3
      <4>5. \A i, j \in DOMAIN calls' : calls'[i][1] = calls'[j][1] => i = j
        <5>1. \A i, j \in DOMAIN calls : calls'[i][1] = calls'[j][1] => i = j
          BY <1>0, <4>1 DEF CallInv
        <5>2. \A i \in DOMAIN calls : calls'[i][1] # k
          BY <3>1, <4>1
        <5>3. calls'[Len(calls) + 1][1] = k
          BY <4>1, <4>3
        <5> QED
          BY <4>2, <5>1, <5>2, <5>3
      <4> QED
        BY <1>1, <4>4, <4>5 DEF CallInv
    <3> QED
      BY <3>2, <3>3
  <2>10. SinkInv'
    BY <1>0, <1>1, <2>1 DEF SinkInv
  <2> QED
    BY <2>7, <2>9, <2>10 DEF Inv
<1> QED
  BY <1>4, <1>5

\* The invariant holds initially,
LEMMA InvInit == Init => Inv
<1> SUFFICES ASSUME Init PROVE Inv
  OBVIOUS
<1>1. Setup
  BY Pipelines DEF Init, Setup, Item
<1>2. /\ Top \in Nat \ {0} /\ DOMAIN chain = 1..Top - 1 /\ \A k \in DOMAIN chain : chain[k] \in Operators
  BY <1>1, ChainFacts
<1>3. /\ at = Top /\ pos = 0 /\ seen = <<>> /\ calls = <<>> /\ verdict = "running"
      /\ stage = [k \in DOMAIN chain |-> Fresh(chain[k])] /\ acc = (IF sink = "count" THEN 0 ELSE <<>>)
  BY DEF Init
<1>4. \A k \in DOMAIN chain : Doing(chain[k], Fresh(chain[k]))
  BY <1>1, <1>2, FreshTyped
<1>5. TypeInv
  <2>1. stage = [k \in DOMAIN chain |-> stage[k]] /\ \A k \in DOMAIN chain : Doing(chain[k], stage[k])
    BY <1>3, <1>4
  <2>2. seen \in Seq(Item) /\ calls \in Seq((DOMAIN chain) \X Errors) /\ pos \in Nat /\ at \in 0..Top
    BY <1>2, <1>3
  <2> QED
    BY <1>1, <2>1, <2>2 DEF TypeInv
<1>6. WaitInv
  BY <1>2, <1>3 DEF WaitInv
<1>7. SinkInv
  <2>1. FlattenSeq(seen) = <<>>
    BY <1>3, FlattenEmpty
  <2>2. Len(seen) = 0
    BY <1>3
  <2> QED
    BY <1>3, <2>1, <2>2 DEF SinkInv
<1>8. CallInv
  BY <1>3 DEF CallInv
<1> QED
  BY <1>5, <1>6, <1>7, <1>8 DEF Inv

\* The generator at level at changes only what it has to yield and how it ends.
LEMMA LeftAt ==
    ASSUME Inv, at \in DOMAIN chain, NEW d, Doing(chain[at], d), stage[at].st # "on" => d.st # "on"
    PROVE  Left([stage EXCEPT ![at] = d], at + 1)
<1>1. /\ Setup /\ stage = [k \in DOMAIN chain |-> stage[k]]
      /\ \A k \in DOMAIN chain : Doing(chain[k], stage[k])
  BY DEF Inv, TypeInv
<1>2. DOMAIN chain \subseteq Nat
  BY <1>1, ChainFacts
<1> DEFINE from == [stage EXCEPT ![at] = d]
<1>3. /\ from = [j \in DOMAIN chain |-> from[j]] /\ from[at] = d
      /\ \A j \in DOMAIN chain : j # at => from[j] = stage[j]
  BY <1>1
<1> HIDE DEF from
<1>4. \A j \in DOMAIN chain : j >= at + 1 => j # at
  BY <1>2
<1>5. Left(from, at + 1)
  BY <1>1, <1>3, <1>4 DEF Left
<1> QED
  BY <1>5 DEF from

\* and every step keeps it.
LEMMA InvStep == Inv /\ [Next]_vars => Inv'
<1> SUFFICES ASSUME Inv, [Next]_vars PROVE Inv'
  OBVIOUS
<1>0. /\ Setup /\ at \in 0..Top /\ WaitInv /\ SinkInv /\ CallInv /\ seen \in Seq(Item) /\ pos \in Nat
      /\ calls \in Seq((DOMAIN chain) \X Errors) /\ stage = [k \in DOMAIN chain |-> stage[k]]
      /\ \A k \in DOMAIN chain : Doing(chain[k], stage[k])
  BY DEF Inv, TypeInv
<1>1. /\ Top \in Nat \ {0} /\ DOMAIN chain = 1..Top - 1
      /\ \A j \in 1..Top : j \in DOMAIN chain <=> j # Top
      /\ \A j \in DOMAIN chain : j \in 1..Top /\ j + 1 \in 1..Top /\ chain[j] \in Operators /\ j # Top
  BY <1>0, ChainFacts
<1>2. CASE Ask
  <2>1. /\ at' = at - 1 /\ UNCHANGED <<setup, pos, stage, seen, acc, verdict, calls>> /\ at > 0 /\ Waits(at)
    BY <1>0, <1>1, <1>2 DEF Ask, Waits
  <2>2. /\ Setup' /\ chain' = chain /\ sink' = sink /\ Top' = Top /\ Errors' = Errors
    BY <1>0, <2>1, SetupSame
  <2>3. at' \in 0..Top /\ at \in 1..Top /\ \A k \in 1..Top : k > at' => k > at \/ k = at
    BY <1>0, <1>1, <2>1
  <2>4. \A k \in DOMAIN chain : Doing(chain[k], stage[k])'
    BY <1>0, <2>1, <2>2 DEF Doing, MemOk
  <2>5. TypeInv'
    BY <1>0, <2>1, <2>2, <2>3, <2>4 DEF TypeInv
  <2>6. \A k \in 1..Top : k > at' => Waits(k)
    BY <1>0, <2>1, <2>3 DEF WaitInv
  <2>7. \A k \in 1..Top : Waits(k) => Waits(k)'
    BY <2>1, <2>2 DEF Waits
  <2>8. WaitInv'
    BY <2>2, <2>6, <2>7 DEF WaitInv
  <2>9. SinkInv' /\ CallInv'
    BY <1>0, <2>1, <2>2 DEF SinkInv, CallInv
  <2> QED
    BY <2>5, <2>8, <2>9 DEF Inv
<1>3. CASE Yields
  <2>1. PICK d : d = [stage[at] EXCEPT !.out = Tail(@)]
    OBVIOUS
  <2>2. PICK x : x = Head(stage[at].out)
    OBVIOUS
  <2>3. PICK k : k = at + 1
    OBVIOUS
  <2>4. at \in DOMAIN chain /\ stage[at].out # <<>> /\ UNCHANGED <<setup, pos>>
    BY <1>3 DEF Yields
  <2>5. Doing(chain[at], stage[at]) /\ stage[at].out \in Seq(Item)
    BY <1>0, <2>4 DEF Doing
  <2>6. x \in Item /\ Tail(stage[at].out) \in Seq(Item)
    BY <2>2, <2>4, <2>5
  <2>7. d.out = Tail(stage[at].out) /\ d.mem = stage[at].mem /\ d.st = stage[at].st
        /\ d = Does(d.out, d.mem, d.st)
    BY <2>1, <2>5 DEF Doing, Does
  <2>8. Doing(chain[at], d) /\ (stage[at].st # "on" => d.st # "on")
    BY <2>5, <2>6, <2>7 DEF Doing
  <2>9. PICK from : from = [stage EXCEPT ![at] = d]
    OBVIOUS
  <2>10. from = [stage EXCEPT ![at].out = Tail(@)]
    BY <2>1, <2>9
  <2>11. GiveItem(from, k, x)
    BY <1>3, <2>2, <2>3, <2>10 DEF Yields
  <2>12. Left(from, k)
    BY <2>3, <2>4, <2>8, <2>9, LeftAt
  <2>13. k \in 1..Top
    BY <1>1, <2>3, <2>4
  <2>14. pos' \in Nat /\ UNCHANGED setup
    BY <1>0, <2>4
  <2> QED
    BY <2>3, <2>6, <2>11, <2>12, <2>13, <2>14, ItemGiven
<1>4. CASE Finishes
  <2>1. PICK d : d = [stage[at] EXCEPT !.st = "end"]
    OBVIOUS
  <2>2. PICK e : e = stage[at].st
    OBVIOUS
  <2>3. PICK k : k = at + 1
    OBVIOUS
  <2>4. at \in DOMAIN chain /\ stage[at].out = <<>> /\ stage[at].st # "on" /\ UNCHANGED <<setup, pos>>
    BY <1>4 DEF Finishes
  <2>5. Doing(chain[at], stage[at]) /\ stage[at].st \in Errors \cup {"on"}
    BY <1>0, <2>4 DEF Doing
  <2>6. e \in Errors /\ "end" \in Errors
    BY <1>0, <2>2, <2>4, <2>5, ErrorFacts
  <2>7. d.out = stage[at].out /\ d.mem = stage[at].mem /\ d.st = "end"
        /\ d = Does(d.out, d.mem, d.st)
    BY <2>1, <2>5 DEF Doing, Does
  <2>8. Doing(chain[at], d) /\ (stage[at].st # "on" => d.st # "on")
    BY <2>5, <2>6, <2>7 DEF Doing
  <2>9. PICK from : from = [stage EXCEPT ![at] = d]
    OBVIOUS
  <2>10. from = [stage EXCEPT ![at].st = "end"]
    BY <2>1, <2>9
  <2>11. GiveFinal(from, k, e)
    BY <1>4, <2>2, <2>3, <2>10 DEF Finishes
  <2>12. Left(from, k)
    BY <2>3, <2>4, <2>8, <2>9, LeftAt
  <2>13. k \in 1..Top
    BY <1>1, <2>3, <2>4
  <2>14. pos' \in Nat /\ UNCHANGED setup
    BY <1>0, <2>4
  <2> QED
    BY <2>3, <2>6, <2>11, <2>12, <2>13, <2>14, FinalGiven
<1>5. CASE Deliver
  <2>1. PICK from : from = stage
    OBVIOUS
  <2>2. PICK x : x = source.items[pos + 1]
    OBVIOUS
  <2>3. PICK e : e = IF pos = Len(source.items) THEN source.fin ELSE "end"
    OBVIOUS
  <2>4. at = 0 /\ pos' = pos + 1 /\ UNCHANGED setup
        /\ IF pos < Len(source.items) THEN GiveItem(from, 1, x) ELSE GiveFinal(from, 1, e)
    BY <1>5, <2>1, <2>2, <2>3 DEF Deliver
  <2>5. Left(from, 1)
    BY <1>0, <2>1 DEF Left
  <2>6. 1 \in 1..Top /\ 1 = at + 1 /\ pos' \in Nat
    BY <1>0, <1>1, <2>4
  <2>7. e \in Errors
    BY <1>0, <2>3, ErrorFacts
  <2>8. CASE pos < Len(source.items)
    <3>1. pos + 1 \in 1..Len(source.items) /\ source.items \in Seq(Item)
      BY <1>0, <2>8 DEF Setup
    <3>2. x \in Item
      BY <2>2, <3>1
    <3>3. GiveItem(from, 1, x) /\ UNCHANGED setup
      BY <2>4, <2>8
    <3> QED
      BY <2>5, <2>6, <3>2, <3>3, ItemGiven
  <2>9. CASE ~(pos < Len(source.items))
    <3>1. GiveFinal(from, 1, e) /\ UNCHANGED setup
      BY <2>4, <2>9
    <3> QED
      BY <2>5, <2>6, <2>7, <3>1, FinalGiven
  <2> QED
    BY <2>8, <2>9
<1>6. ASSUME NEW k \in DOMAIN chain, Timeout(k) PROVE Inv'
  <2>1. /\ at < k /\ chain[k].is \in Timed /\ at' = k /\ UNCHANGED <<setup, seen, acc, verdict, calls>>
        /\ stage' = [Killed(k) EXCEPT ![k] = OnTimeout(chain[k], Killed(k)[k].mem)]
        /\ pos' = IF at = 0 THEN Len(source.items) + 1 ELSE pos
    BY <1>6 DEF Timeout
  <2>2. k \in 1..Top /\ k # Top /\ k \in Nat /\ chain[k] \in Operators /\ DOMAIN chain \subseteq Nat /\ at \in Nat
    BY <1>0, <1>1
  <2>3. Waits(k)
    BY <1>0, <2>1, <2>2 DEF WaitInv
  <2>4. stage[k].st = "on" /\ Doing(chain[k], stage[k])
    BY <1>0, <2>2, <2>3 DEF Waits
  <2>5. PICK d : d = OnTimeout(chain[k], stage[k].mem)
    OBVIOUS
  <2>6. Doing(chain[k], d)
    <3>1. MemOk(chain[k], stage[k].mem)
      BY <2>4 DEF Doing
    <3> QED
      BY <1>0, <2>1, <2>2, <2>5, <3>1, OnTimeoutTyped
  <2>7. /\ Killed(k) = [j \in DOMAIN chain |-> Killed(k)[j]] /\ Killed(k)[k] = stage[k]
        /\ \A j \in DOMAIN chain : Killed(k)[j] = IF at <= j /\ j < k THEN Does(<<>>, <<>>, "end") ELSE stage[j]
    BY <2>2 DEF Killed
  <2>8. /\ stage' = [j \in DOMAIN chain |-> stage'[j]] /\ stage'[k] = d
        /\ \A j \in DOMAIN chain : j # k => stage'[j] = Killed(k)[j]
    BY <2>1, <2>5, <2>7
  <2>9. \A j \in DOMAIN chain : Doing(chain[j], Does(<<>>, <<>>, "end"))
    <3>1. "end" \in Errors /\ <<>> \in Seq(Item)
      BY <1>0, ErrorFacts
    <3> QED
      BY <3>1, DoesTyped
  <2>10. \A j \in DOMAIN chain : Doing(chain[j], stage'[j]) /\ (j > k => stage'[j] = stage[j])
    <3>1. TAKE j \in DOMAIN chain
    <3>2. CASE j = k
      BY <2>2, <2>6, <2>8, <3>2
    <3>3. CASE j # k
      <4>1. stage'[j] = IF at <= j /\ j < k THEN Does(<<>>, <<>>, "end") ELSE stage[j]
        BY <2>7, <2>8, <3>3
      <4>2. j > k => ~(at <= j /\ j < k)
        BY <2>2
      <4> QED
        BY <1>0, <2>9, <4>1, <4>2
    <3> QED
      BY <3>2, <3>3
  <2>11. \A j \in DOMAIN chain : stage[j].st # "on" => stage'[j].st # "on"
    <3>1. TAKE j \in DOMAIN chain
    <3>2. Does(<<>>, <<>>, "end").st = "end"
      BY DoesStops
    <3> QED
      BY <2>4, <2>7, <2>8, <3>2
  <2>12. pos' \in Nat
    BY <1>0, <2>1 DEF Setup
  <2>13. seen' = seen /\ calls' = calls /\ verdict' = verdict /\ UNCHANGED setup /\ acc' = acc
    BY <2>1
  <2>14. TypeInv' /\ WaitInv'
    BY <1>0, <2>1, <2>2, <2>8, <2>10, <2>12, <2>13, Shifted
  <2>15. CallInv'
    <3>1. \A i \in DOMAIN calls : calls[i][1] \in DOMAIN chain
      BY <1>0, CallsTyped
    <3>2. chain' = chain
      BY <1>0, <2>13, SetupSame
    <3> QED
      BY <1>0, <2>11, <2>13, <3>1, <3>2 DEF CallInv
  <2>16. SinkInv'
    BY <1>0, <2>13, SetupSame DEF SinkInv
  <2> QED
    BY <2>14, <2>15, <2>16 DEF Inv
<1>7. CASE Deadline \/ UNCHANGED vars
  <2>1. UNCHANGED setup /\ UNCHANGED <<pos, stage, at, seen, acc, verdict, calls>>
    BY <1>7 DEF Deadline, vars, setup
  <2>2. /\ Setup' /\ chain' = chain /\ sink' = sink /\ Top' = Top /\ Errors' = Errors
    BY <1>0, <2>1, SetupSame
  <2>4. \A k \in DOMAIN chain : Doing(chain[k], stage[k])'
    BY <1>0, <2>1, <2>2 DEF Doing, MemOk
  <2>5. TypeInv'
    BY <1>0, <2>1, <2>2, <2>4 DEF TypeInv
  <2>6. WaitInv'
    BY <1>0, <2>1, <2>2 DEF WaitInv, Waits
  <2>7. SinkInv' /\ CallInv'
    BY <1>0, <2>1, <2>2 DEF SinkInv, CallInv
  <2> QED
    BY <2>5, <2>6, <2>7 DEF Inv
<1> QED
  BY <1>2, <1>3, <1>4, <1>5, <1>6, <1>7 DEF Next

\* The sinks compute from what they have consumed what their names say, and refuse
\* an empty stream, whatever the chain, the source and the timers did.
THEOREM SinksAlwaysAgree == Spec => []SinksAgree
<1>1. Inv => SinksAgree
  <2> SUFFICES ASSUME Inv, verdict = "end" PROVE SinksAgree
    BY DEF SinksAgree
  <2>1. SinkInv /\ seen \in Seq(Item)
    BY DEF Inv, TypeInv
  <2>2. ASSUME sink = "first" PROVE seen # <<>> /\ Len(seen) = 1
    <3>1. seen # <<>> /\ Len(seen) <= 1
      BY <2>1, <2>2 DEF SinkInv
    <3> DEFINE n == Len(seen)
    <3>2. n \in Nat /\ n # 0 /\ n <= 1
      BY <2>1, <3>1
    <3> HIDE DEF n
    <3>3. n = 1
      BY <3>2
    <3> QED
      BY <3>1, <3>3 DEF n
  <2> QED
    BY <2>1, <2>2 DEF SinksAgree, SinkInv
<1> QED
  BY <1>1, InvInit, InvStep, PTL DEF Spec

----------------------------------------------------------------------------
(* The traces between the stages while no timer has fired: what has been       *)
(* passed on, with what a generator still has to yield, is what its law makes  *)
(* of what it has been given.                                                  *)

Read == LET n == Len(source.items)
        IN  IF pos <= n THEN Pend(SubSeq(source.items, 1, pos)) ELSE source

\* t is what a generator that does o has been given, u what it has passed on.
Follows(o, d, t, u, v) ==
    \/ /\ u.fin = "pending" /\ Law(o, t, v) = After(u, d)
       /\ d.st = "on" => t.fin = "pending" /\ d.mem = MemWith(o, t.items, v)
    \/ d.st = "end" /\ d.out = <<>> /\ u.fin # "pending" /\ Law(o, t, v) = u

SinkFlow(t) ==
    /\ t.items = seen
    /\ IF verdict = "running" THEN t.fin = "pending"
       ELSE \/ sink = "first" /\ seen # <<>>
            \/ t.fin # "pending" /\ verdict \in {t.fin, "ValueError"}

CallFlow(g) == \A i \in DOMAIN calls : calls[i][2] # "pending" /\ g[calls[i][1]].fin = calls[i][2]

Flow(g) ==
    /\ g \in [1..Top -> Traces] /\ g[1] = Read /\ SinkFlow(g[Top]) /\ CallFlow(g)
    /\ \A k \in DOMAIN chain : Follows(chain[k], stage[k], g[k], g[k + 1], other)

FlowInv == OnTime => pos <= Len(source.items) + 1 /\ \E g : Flow(g)

\* Of a generator that has nothing to yield and runs on, the law is what it has
\* passed on.
LEMMA FollowsOn ==
    ASSUME NEW o, NEW d, NEW t, NEW u, NEW v, Follows(o, d, t, u, v), d.st = "on", d.out = <<>>,
           t \in Traces, u \in Traces
    PROVE  /\ t = Pend(t.items) /\ u = Pend(u.items) /\ t.items \in Seq(Item) /\ u.items \in Seq(Item)
           /\ Law(o, t, v) = u /\ d.mem = MemWith(o, t.items, v)
<1>1. t.fin = "pending" /\ u.fin = "pending" /\ Law(o, t, v) = After(u, d) /\ d.mem = MemWith(o, t.items, v)
  BY DEF Follows
<1>2. t = Pend(t.items) /\ u = Pend(u.items) /\ t.items \in Seq(Item) /\ u.items \in Seq(Item)
  BY <1>1, TraceFacts DEF Pend
<1>3. u.items \o <<>> = u.items
  BY <1>2
<1>4. After(u, d) = Pend(u.items)
  BY <1>3 DEF After, Pend
<1> QED
  BY <1>1, <1>2, <1>4

\* A generator that is given an item keeps to its law, and
LEMMA FollowsItem ==
    ASSUME Setup, ~late, NEW o \in Operators, NEW d, NEW t \in Traces, NEW u \in Traces, NEW x \in Item,
           Follows(o, d, t, u, other), d.st = "on", d.out = <<>>
    PROVE  Follows(o, OnItem(o, d.mem, x), Pend(Append(t.items, x)), u, other)
<1>1. /\ t = Pend(t.items) /\ u = Pend(u.items) /\ t.items \in Seq(Item) /\ u.items \in Seq(Item)
      /\ Law(o, t, other) = u /\ d.mem = Mem(o, t.items)
  BY FollowsOn DEF Mem
<1> DEFINE s == t.items
           e == OnItem(o, d.mem, x)
           n == Law(o, Pend(Append(s, x)), other)
<1>2. GoesOn(o, s, x)
  BY <1>1, AllObey DEF Obeys
<1>3. Law(o, Pend(s), other) = u /\ u.fin = "pending" /\ e = OnItem(o, Mem(o, s), x)
  BY <1>1, AfterFacts
<1>4. n = After(u, e) /\ (e.st = "on" => e.mem = Mem(o, Append(s, x)))
  BY <1>2, <1>3 DEF GoesOn
<1>5. Pend(Append(s, x)).fin = "pending" /\ Pend(Append(s, x)).items = Append(s, x)
  BY AfterFacts
<1> HIDE DEF s, e
<1>6. Follows(o, e, Pend(Append(s, x)), u, other)
  BY <1>3, <1>4, <1>5 DEF Follows, Mem
<1> QED
  BY <1>6 DEF s, e

\* so does one that is given how its upstream finished.
LEMMA FollowsFinal ==
    ASSUME Setup, ~late, NEW o \in Operators, NEW d, NEW t \in Traces, NEW u \in Traces, NEW e \in Finals,
           Follows(o, d, t, u, other), d.st = "on", d.out = <<>>
    PROVE  Follows(o, IF e = "end" THEN OnEnd(o, d.mem) ELSE OnError(o, d.mem, e), Trace(t.items, e), u, other)
<1>1. /\ t = Pend(t.items) /\ u = Pend(u.items) /\ t.items \in Seq(Item) /\ u.items \in Seq(Item)
      /\ Law(o, t, other) = u /\ d.mem = Mem(o, t.items)
  BY FollowsOn DEF Mem
<1> DEFINE s == t.items
           f == IF e = "end" THEN OnEnd(o, d.mem) ELSE OnError(o, d.mem, e)
           n == Law(o, Trace(s, e), other)
<1>2. Stops(o, s, e)
  BY <1>1, AllObey DEF Obeys
<1>3. Law(o, Pend(s), other) = u /\ u.fin = "pending"
      /\ f = IF e = "end" THEN OnEnd(o, Mem(o, s)) ELSE OnError(o, Mem(o, s), e)
  BY <1>1, AfterFacts
<1>4. n = After(u, f) /\ f.st \in Finals
  BY <1>2, <1>3 DEF Stops
<1>5. f.st # "on"
  BY <1>4, FinalFacts
<1> HIDE DEF s, f
<1>6. Follows(o, f, Trace(s, e), u, other)
  BY <1>3, <1>4, <1>5 DEF Follows
<1> QED
  BY <1>6 DEF s, f

\* The head of one sequence becomes the last of another.
LEMMA HeadMoves ==
    ASSUME NEW S, NEW a \in Seq(S), NEW b \in Seq(S), b # <<>>
    PROVE  Append(a, Head(b)) \o Tail(b) = a \o b
<1> DEFINE x == Head(b)
           c == Tail(b)
           w == Append(a, x)
<1>1. x \in S /\ c \in Seq(S) /\ Len(b) = Len(c) + 1 /\ b[1] = x /\ (\A i \in 1..Len(c) : b[i + 1] = c[i])
      /\ Len(a) \in Nat /\ Len(c) \in Nat
  OBVIOUS
<1> HIDE DEF x, c
<1>2. w \in Seq(S) /\ Len(w) = Len(a) + 1 /\ w[Len(a) + 1] = x /\ \A i \in 1..Len(a) : w[i] = a[i]
  BY <1>1
<1> HIDE DEF w
<1>3. /\ w \o c \in Seq(S) /\ Len(w \o c) = Len(w) + Len(c)
      /\ \A i \in 1..Len(w) : (w \o c)[i] = w[i]
      /\ \A i \in 1..Len(c) : (w \o c)[Len(w) + i] = c[i]
  <2>1. w \in Seq(S) /\ c \in Seq(S)
    BY <1>1, <1>2
  <2> QED
    BY <2>1
<1>4. /\ a \o b \in Seq(S) /\ Len(a \o b) = Len(a) + Len(b)
      /\ \A i \in 1..Len(a) : (a \o b)[i] = a[i]
      /\ \A i \in 1..Len(b) : (a \o b)[Len(a) + i] = b[i]
  OBVIOUS
<1>5. \A i \in 1..Len(w \o c) : (w \o c)[i] = (a \o b)[i]
  <2>1. TAKE i \in 1..Len(w \o c)
  <2>2. CASE i \in 1..Len(a)
    BY <1>1, <1>2, <1>3, <1>4, <2>2
  <2>3. CASE i = Len(a) + 1
    <3>1. 1 \in 1..Len(b) /\ i \in 1..Len(w)
      BY <1>1, <1>2, <2>3
    <3> QED
      BY <1>1, <1>2, <1>3, <1>4, <2>3, <3>1
  <2>4. CASE i > Len(a) + 1
    <3>1. PICK j \in 1..Len(c) : i = (Len(a) + 1) + j
      <4>1. i - (Len(a) + 1) \in 1..Len(c) /\ i = (Len(a) + 1) + (i - (Len(a) + 1))
        BY <1>1, <1>2, <1>3, <2>4
      <4> QED
        BY <4>1
    <3>2. (w \o c)[i] = c[j]
      BY <1>2, <1>3, <3>1
    <3>3. (a \o b)[i] = b[j + 1]
      <4>1. j + 1 \in 1..Len(b) /\ i = Len(a) + (j + 1)
        BY <1>1, <3>1
      <4> QED
        BY <1>4, <4>1
    <3> QED
      BY <1>1, <3>2, <3>3
  <2>5. i \in 1..Len(a) \/ i = Len(a) + 1 \/ i > Len(a) + 1
    <3>1. i \in Nat /\ i >= 1 /\ Len(a) \in Nat
      BY <1>1, <1>2, <1>3
    <3> QED
      BY <3>1
  <2> QED
    BY <2>2, <2>3, <2>4, <2>5
<1>6. Len(w \o c) = Len(a \o b)
  BY <1>1, <1>2, <1>3, <1>4
<1>7. w \o c = a \o b
  BY <1>3, <1>4, <1>5, <1>6, SeqEqual
<1> QED
  BY <1>7 DEF w, x, c

\* Yielding an item passes it on.
LEMMA FollowsYield ==
    ASSUME NEW o, NEW d, NEW f, NEW t, NEW u \in Traces, NEW v, Follows(o, d, t, u, v),
           d.out \in Seq(Item), d.out # <<>>, f.out = Tail(d.out), f.mem = d.mem, f.st = d.st
    PROVE  Follows(o, f, t, Pend(Append(u.items, Head(d.out))), v) /\ u = Pend(u.items)
<1> DEFINE x == Head(d.out)
           w == Append(u.items, x)
<1>1. u.fin = "pending" /\ Law(o, t, v) = After(u, d)
      /\ (d.st = "on" => t.fin = "pending" /\ d.mem = MemWith(o, t.items, v))
  BY DEF Follows
<1>2. u.items \in Seq(Item) /\ u = Pend(u.items)
  BY <1>1, TraceFacts DEF Pend
<1>3. w \o Tail(d.out) = u.items \o d.out
  BY <1>2, HeadMoves
<1>4. Pend(w).fin = "pending" /\ Pend(w).items = w
  BY AfterFacts
<1> HIDE DEF w
<1>5. After(Pend(w), f) = After(u, d)
  BY <1>3, <1>4 DEF After
<1>6. Follows(o, f, t, Pend(w), v)
  BY <1>1, <1>4, <1>5 DEF Follows
<1> QED
  BY <1>2, <1>6 DEF w

\* Finishing passes on how a generator ends.
LEMMA FollowsFinish ==
    ASSUME Setup, ~late, NEW o \in Operators, NEW d, NEW f, NEW t \in Traces, NEW u \in Traces,
           Follows(o, d, t, u, other), u.fin = "pending",
           d.out = <<>>, d.st # "on", d.st \in Errors, f.out = d.out, f.st = "end"
    PROVE  Follows(o, f, t, Trace(u.items, d.st), other) /\ d.st \in Finals
<1>1. Law(o, t, other) = After(u, d)
  BY DEF Follows
<1>2. u.items \in Seq(Item) /\ u.items \o d.out = u.items
  BY TraceFacts
<1>3. Law(o, t, other) = Trace(u.items, d.st)
  BY <1>1, <1>2 DEF After
<1>4. Law(o, t, other) \in Traces
  BY AllObey, LawTyped
<1>5. d.st \in Finals \cup {"pending"}
  BY <1>3, <1>4, TraceFacts
<1>6. d.st \in Finals /\ d.st # "pending"
  BY <1>5, FinalFacts DEF Errors
<1>7. Trace(u.items, d.st).fin # "pending"
  BY <1>6, TraceFacts
<1>8. Follows(o, f, t, Trace(u.items, d.st), other)
  BY <1>3, <1>7 DEF Follows
<1> QED
  BY <1>6, <1>8

\* Nothing flows initially.
LEMMA FlowInit == Init => FlowInv
<1> SUFFICES ASSUME Init PROVE FlowInv
  OBVIOUS
<1>1. Setup
  BY InvInit DEF Inv, TypeInv
<1>2. /\ Top \in Nat \ {0} /\ DOMAIN chain = 1..Top - 1 /\ \A k \in DOMAIN chain : chain[k] \in Operators
      /\ \A k \in DOMAIN chain : k \in 1..Top /\ k + 1 \in 1..Top
  BY <1>1, ChainFacts
<1>3. /\ pos = 0 /\ seen = <<>> /\ calls = <<>> /\ verdict = "running" /\ ~late
      /\ stage = [k \in DOMAIN chain |-> Fresh(chain[k])]
  BY DEF Init
<1> DEFINE p == Pend(<<>>)
           g == [k \in 1..Top |-> p]
<1>4. p \in Traces /\ p.items = <<>> /\ p.fin = "pending"
  BY ItemFacts, AfterFacts
<1>5. g \in [1..Top -> Traces]
  BY <1>4
<1>6. g[1] = Read /\ pos <= Len(source.items) + 1
  <2>1. source.items \in Seq(Item)
    BY <1>1 DEF Setup
  <2>2. SubSeq(source.items, 1, 0) = <<>> /\ 0 <= Len(source.items) /\ 0 <= Len(source.items) + 1
    BY <2>1
  <2>3. Read = p
    BY <1>3, <2>2 DEF Read
  <2> QED
    BY <1>2, <1>3, <2>2, <2>3
<1>7. ASSUME NEW k \in DOMAIN chain PROVE Follows(chain[k], stage[k], p, p, other)
  <2> DEFINE o == chain[k]
             d == Fresh(o)
  <2>1. Begins(o)
    BY <1>1, <1>2, <1>3, AllObey DEF Obeys
  <2>2. Law(o, p, other) = Pend(d.out) /\ d.st = "on" /\ d.mem = MemWith(o, <<>>, other) /\ d.out \in Seq(Item)
    BY <2>1 DEF Begins, Mem
  <2>3. <<>> \o d.out = d.out
    BY <2>2
  <2>4. After(p, d) = Pend(d.out)
    BY <1>4, <2>2, <2>3 DEF After, Pend
  <2>5. stage[k] = d
    BY <1>3
  <2> HIDE DEF p, d
  <2> QED
    BY <1>4, <2>2, <2>4, <2>5 DEF Follows
<1> HIDE DEF p
<1>8. \A k \in DOMAIN chain : g[k] = p /\ g[k + 1] = p
  BY <1>2
<1>9. g[Top] = p
  BY <1>2
<1> HIDE DEF g
<1>10. SinkFlow(g[Top]) /\ CallFlow(g)
  BY <1>3, <1>4, <1>9 DEF SinkFlow, CallFlow
<1>11. Flow(g)
  BY <1>5, <1>6, <1>7, <1>8, <1>10 DEF Flow
<1> QED
  BY <1>6, <1>11 DEF FlowInv

\* Whoever waits has been given a trace that goes on.
LEMMA WaitsPending ==
    ASSUME Inv, NEW g, Flow(g), NEW k \in 1..Top, Waits(k)
    PROVE  g[k] = Pend(g[k].items) /\ g[k].items \in Seq(Item)
<1>1. /\ Setup /\ Top \in Nat \ {0} /\ \A j \in 1..Top : j \in DOMAIN chain <=> j # Top
      /\ \A j \in DOMAIN chain : j + 1 \in 1..Top
  BY ChainFacts DEF Inv, TypeInv
<1>2. g \in [1..Top -> Traces]
  BY DEF Flow
<1>3. CASE k = Top
  <2>1. g[Top].fin = "pending" /\ g[Top] \in Traces
    BY <1>2, <1>3 DEF Flow, SinkFlow, Waits
  <2> QED
    BY <1>3, <2>1, TraceFacts DEF Pend
<1>4. CASE k # Top
  <2>1. k \in DOMAIN chain /\ stage[k].st = "on" /\ stage[k].out = <<>>
    BY <1>1, <1>4 DEF Waits
  <2>2. Follows(chain[k], stage[k], g[k], g[k + 1], other) /\ g[k] \in Traces /\ g[k + 1] \in Traces
    BY <1>1, <1>2, <2>1 DEF Flow
  <2> QED
    BY <2>1, <2>2, FollowsOn
<1> QED
  BY <1>3, <1>4

\* The flow of a step that leaves the setup alone, from its parts.
LEMMA FlowSame ==
    ASSUME Inv, UNCHANGED setup, NEW h \in [1..Top -> Traces], h[1] = Read', SinkFlow(h[Top])', CallFlow(h)',
           \A j \in DOMAIN chain : Follows(chain[j], stage'[j], h[j], h[j + 1], other)
    PROVE  Flow(h)'
<1>1. chain' = chain /\ other' = other /\ Top' = Top /\ Traces' = Traces
  BY SetupSame DEF Inv, TypeInv
<1> QED
  BY <1>1 DEF Flow

\* The traces after the one that level k is given has grown to t.
Grown(g, k, t) == [g EXCEPT ![k] = t]

\* Only the trace of level k grows.
LEMMA GrownIs ==
    ASSUME Setup, NEW g \in [1..Top -> Traces], NEW k \in 1..Top, NEW t \in Traces
    PROVE  /\ Grown(g, k, t) \in [1..Top -> Traces] /\ Grown(g, k, t)[k] = t
           /\ \A j \in 1..Top : j # k => Grown(g, k, t)[j] = g[j]
  BY DEF Grown

\* Only the generator that runs has changed, and it has passed on t.
Passed(from, g, k, t) ==
    /\ \A j \in DOMAIN chain : j + 1 < k => from[j] = stage[j]
    /\ \A j \in DOMAIN chain : j + 1 = k => Follows(chain[j], from[j], g[j], t, other)
    /\ k = 1 => t = Read'
    /\ k # 1 => Read' = Read

\* The flow after a step that gives level k something: below and above nothing
\* changes.
LEMMA FlowGiven ==
    ASSUME Inv, UNCHANGED setup, NEW g, Flow(g), NEW k \in 1..Top, NEW from, Left(from, k), NEW t \in Traces,
           Passed(from, g, k, t),
           SinkFlow(Grown(g, k, t)[Top])', CallFlow(Grown(g, k, t))',
           \A j \in DOMAIN chain : j # k => stage'[j] = from[j],
           \A j \in DOMAIN chain : j = k => Follows(chain[j], stage'[j], t, g[j + 1], other)
    PROVE  Flow(Grown(g, k, t))'
<1> DEFINE h == Grown(g, k, t)
<1>1. /\ Setup /\ Top \in Nat \ {0} /\ DOMAIN chain = 1..Top - 1
      /\ \A j \in DOMAIN chain : j \in 1..Top /\ j + 1 \in 1..Top /\ j \in Nat
  BY ChainFacts DEF Inv, TypeInv
<1>2. g \in [1..Top -> Traces] /\ g[1] = Read
      /\ \A j \in DOMAIN chain : Follows(chain[j], stage[j], g[j], g[j + 1], other)
  BY DEF Flow
<1>3. h \in [1..Top -> Traces] /\ h[k] = t /\ \A j \in 1..Top : j # k => h[j] = g[j]
  BY <1>1, <1>2, GrownIs
<1> HIDE DEF h
<1>4. h[1] = Read'
  BY <1>1, <1>2, <1>3 DEF Passed
<1>5. ASSUME NEW j \in DOMAIN chain PROVE Follows(chain[j], stage'[j], h[j], h[j + 1], other)
  <2>0. j \in 1..Top /\ j + 1 \in 1..Top /\ j \in Nat /\ k \in Nat /\ j # j + 1
    BY <1>1
  <2>1. CASE j = k
    <3>1. h[j] = t /\ h[j + 1] = g[j + 1]
      BY <1>3, <2>0, <2>1
    <3> QED
      BY <2>1, <3>1
  <2>2. CASE j + 1 = k
    <3>1. h[j] = g[j] /\ h[j + 1] = t /\ stage'[j] = from[j]
      BY <1>3, <2>0, <2>2
    <3> QED
      BY <2>2, <3>1 DEF Passed
  <2>3. CASE j # k /\ j + 1 # k
    <3>1. h[j] = g[j] /\ h[j + 1] = g[j + 1] /\ stage'[j] = from[j]
      BY <1>3, <2>0, <2>3
    <3>2. j >= k \/ j + 1 < k
      BY <2>0, <2>3
    <3>3. from[j] = stage[j]
      BY <3>2 DEF Left, Passed
    <3> QED
      BY <1>2, <3>1, <3>3
  <2> QED
    BY <2>1, <2>2, <2>3
<1>6. SinkFlow(h[Top])' /\ CallFlow(h)'
  BY DEF h
<1>7. Flow(h)'
  BY <1>3, <1>4, <1>5, <1>6, FlowSame
<1> QED
  BY <1>7 DEF h

\* An item given,
LEMMA FlowItem ==
    ASSUME Inv, ~late, UNCHANGED setup, NEW g, Flow(g), NEW k \in 1..Top, k = at + 1,
           NEW from, Left(from, k), NEW x \in Item, GiveItem(from, k, x),
           Passed(from, g, k, Pend(Append(g[k].items, x)))
    PROVE  Flow(Grown(g, k, Pend(Append(g[k].items, x))))'
<1> DEFINE t == Pend(Append(g[k].items, x))
           h == Grown(g, k, t)
<1>0. Setup /\ WaitInv /\ CallInv /\ at \in 0..Top /\ calls \in Seq((DOMAIN chain) \X Errors)
      /\ from = [j \in DOMAIN chain |-> from[j]]
  BY DEF Inv, TypeInv, Left
<1>1. /\ sink' = sink /\ Top' = Top /\ Top \in Nat \ {0} /\ DOMAIN chain = 1..Top - 1
      /\ \A j \in 1..Top : j \in DOMAIN chain <=> j # Top
      /\ \A j \in DOMAIN chain : chain[j] \in Operators /\ j \in 1..Top /\ j + 1 \in 1..Top
  BY <1>0, ChainFacts, SetupSame
<1>2. calls' = calls /\ Waits(k)
  BY <1>0, <1>1 DEF GiveItem, WaitInv
<1>3. g \in [1..Top -> Traces] /\ SinkFlow(g[Top]) /\ CallFlow(g)
      /\ \A j \in DOMAIN chain : Follows(chain[j], stage[j], g[j], g[j + 1], other)
  BY DEF Flow
<1>4. g[k] = Pend(g[k].items) /\ g[k].items \in Seq(Item) /\ g[k] \in Traces
  BY <1>2, <1>3, WaitsPending
<1>5. t \in Traces /\ t.items = Append(g[k].items, x) /\ t.fin = "pending"
  <2>1. Append(g[k].items, x) \in Seq(Item)
    BY <1>4
  <2> QED
    BY <2>1, AfterFacts
<1> HIDE DEF t
<1>6. h \in [1..Top -> Traces] /\ h[k] = t /\ \A j \in 1..Top : j # k => h[j] = g[j]
  BY <1>0, <1>3, <1>5, GrownIs
<1> HIDE DEF h
<1>7. CASE k = Top
  <2>1. stage' = from /\ SinkItem(x) /\ verdict = "running"
    BY <1>2, <1>7 DEF GiveItem, Waits
  <2>2. seen' = Append(seen, x) /\ verdict' = (IF sink = "first" THEN "end" ELSE verdict) /\ g[Top].items = seen
    BY <1>3, <2>1 DEF SinkItem, SinkFlow
  <2>3. h[Top]' = t
    BY <1>1, <1>6, <1>7
  <2>4. seen' # <<>>
    BY <1>4, <1>7, <2>2
  <2>5. SinkFlow(h[Top])'
    BY <1>1, <1>5, <1>7, <2>1, <2>2, <2>3, <2>4 DEF SinkFlow
  <2>6. CallFlow(h)'
    <3>1. \A i \in DOMAIN calls : calls[i][1] \in DOMAIN chain
      BY <1>0, CallsTyped
    <3> QED
      BY <1>1, <1>2, <1>3, <1>6, <1>7, <3>1 DEF CallFlow
  <2>7. /\ \A j \in DOMAIN chain : j # k => stage'[j] = from[j]
        /\ \A j \in DOMAIN chain : j = k => Follows(chain[j], stage'[j], t, g[j + 1], other)
    BY <1>1, <1>7, <2>1
  <2> QED
    BY <1>5, <2>5, <2>6, <2>7, FlowGiven DEF h, t
<1>8. CASE k # Top
  <2>1. stage' = [from EXCEPT ![k] = OnItem(chain[k], from[k].mem, x)]
        /\ seen' = seen /\ verdict' = verdict
    BY <1>8 DEF GiveItem
  <2>2. k \in DOMAIN chain /\ from[k] = stage[k] /\ stage[k].st = "on" /\ stage[k].out = <<>>
    BY <1>1, <1>2, <1>8 DEF Left, Waits
  <2>3. /\ stage'[k] = OnItem(chain[k], stage[k].mem, x)
        /\ \A j \in DOMAIN chain : j # k => stage'[j] = from[j]
    BY <1>0, <2>1, <2>2
  <2>4. Follows(chain[k], stage'[k], t, g[k + 1], other)
    <3>1. Follows(chain[k], stage[k], g[k], g[k + 1], other) /\ g[k + 1] \in Traces /\ chain[k] \in Operators
      BY <1>1, <1>3, <2>2
    <3>2. PICK d : d = stage[k]
      OBVIOUS
    <3>3. PICK o : o = chain[k]
      OBVIOUS
    <3>4. Follows(o, OnItem(o, d.mem, x), Pend(Append(g[k].items, x)), g[k + 1], other)
      BY <1>0, <1>4, <2>2, <3>1, <3>2, <3>3, FollowsItem
    <3> QED
      BY <2>3, <3>2, <3>3, <3>4 DEF t
  <2>5. h[Top] = g[Top]
    BY <1>1, <1>6, <1>8
  <2>6. SinkFlow(h[Top])'
    BY <1>1, <1>3, <2>1, <2>5 DEF SinkFlow
  <2>7. CallFlow(h)'
    <3>1. \A i \in DOMAIN calls : calls[i][1] \in DOMAIN chain
      BY <1>0, CallsTyped
    <3>2. \A i \in DOMAIN calls : calls[i][1] # k /\ calls[i][1] \in 1..Top
      BY <1>0, <1>1, <2>2, <3>1 DEF CallInv
    <3> QED
      BY <1>2, <1>3, <1>6, <3>2 DEF CallFlow
  <2> QED
    BY <1>5, <2>3, <2>4, <2>6, <2>7, FlowGiven DEF h, t
<1> QED
  BY <1>7, <1>8

\* and an end given.
LEMMA FlowFinal ==
    ASSUME Inv, ~late, UNCHANGED setup, NEW g, Flow(g), NEW k \in 1..Top, k = at + 1,
           NEW from, Left(from, k), NEW e \in Finals, GiveFinal(from, k, e),
           Passed(from, g, k, Trace(g[k].items, e))
    PROVE  Flow(Grown(g, k, Trace(g[k].items, e)))'
<1> DEFINE t == Trace(g[k].items, e)
           h == Grown(g, k, t)
<1>0. Setup /\ WaitInv /\ CallInv /\ SinkInv /\ at \in 0..Top /\ calls \in Seq((DOMAIN chain) \X Errors)
      /\ from = [j \in DOMAIN chain |-> from[j]] /\ seen \in Seq(Item)
  BY DEF Inv, TypeInv, Left
<1>1. /\ sink' = sink /\ Top' = Top /\ Top \in Nat \ {0} /\ DOMAIN chain = 1..Top - 1
      /\ \A j \in 1..Top : j \in DOMAIN chain <=> j # Top
      /\ \A j \in DOMAIN chain : chain[j] \in Operators /\ j \in 1..Top /\ j + 1 \in 1..Top
  BY <1>0, ChainFacts, SetupSame
<1>2. Waits(k)
  BY <1>0, <1>1 DEF GiveFinal, WaitInv
<1>3. g \in [1..Top -> Traces] /\ SinkFlow(g[Top]) /\ CallFlow(g)
      /\ \A j \in DOMAIN chain : Follows(chain[j], stage[j], g[j], g[j + 1], other)
  BY DEF Flow
<1>4. g[k] = Pend(g[k].items) /\ g[k].items \in Seq(Item) /\ g[k] \in Traces
  BY <1>2, <1>3, WaitsPending
<1>5. t \in Traces /\ t.items = g[k].items /\ t.fin = e /\ e # "pending" /\ e \in Errors
  BY <1>0, <1>4, TraceFacts, FinalFacts, ErrorFacts
<1> HIDE DEF t
<1>6. h \in [1..Top -> Traces] /\ h[k] = t /\ \A j \in 1..Top : j # k => h[j] = g[j]
  BY <1>0, <1>3, <1>5, GrownIs
<1> HIDE DEF h
<1>7. CASE k = Top
  <2>1. stage' = from /\ SinkEnds(e) /\ verdict = "running" /\ calls' = calls
    BY <1>2, <1>7 DEF GiveFinal, Waits
  <2>2. seen' = seen /\ verdict' # "running" /\ verdict' \in {e, "ValueError"} /\ g[Top].items = seen
    BY <1>0, <1>1, <1>3, <1>5, <2>1, SinkStops DEF SinkFlow
  <2>3. h[Top]' = t
    BY <1>1, <1>6, <1>7
  <2>5. SinkFlow(h[Top])'
    BY <1>1, <1>5, <1>7, <2>2, <2>3 DEF SinkFlow
  <2>6. CallFlow(h)'
    <3>1. \A i \in DOMAIN calls : calls[i][1] \in DOMAIN chain
      BY <1>0, CallsTyped
    <3> QED
      BY <1>1, <1>3, <1>6, <1>7, <2>1, <3>1 DEF CallFlow
  <2>7. /\ \A j \in DOMAIN chain : j # k => stage'[j] = from[j]
        /\ \A j \in DOMAIN chain : j = k => Follows(chain[j], stage'[j], t, g[j + 1], other)
    BY <1>1, <1>7, <2>1
  <2> QED
    BY <1>5, <2>5, <2>6, <2>7, FlowGiven DEF h, t
<1>8. CASE k # Top
  <2>1. /\ stage' = [from EXCEPT ![k] = IF e = "end" THEN OnEnd(chain[k], from[k].mem)
                                       ELSE OnError(chain[k], from[k].mem, e)]
        /\ seen' = seen /\ verdict' = verdict
        /\ calls' = IF chain[k].is = "watch_termination" THEN Append(calls, <<k, e>>) ELSE calls
    BY <1>8 DEF GiveFinal, CallsBack
  <2>2. k \in DOMAIN chain /\ from[k] = stage[k] /\ stage[k].st = "on" /\ stage[k].out = <<>>
    BY <1>1, <1>2, <1>8 DEF Left, Waits
  <2>3. /\ stage'[k] = IF e = "end" THEN OnEnd(chain[k], stage[k].mem) ELSE OnError(chain[k], stage[k].mem, e)
        /\ \A j \in DOMAIN chain : j # k => stage'[j] = from[j]
    BY <1>0, <2>1, <2>2
  <2>4. Follows(chain[k], stage'[k], t, g[k + 1], other)
    <3>1. Follows(chain[k], stage[k], g[k], g[k + 1], other) /\ g[k + 1] \in Traces /\ chain[k] \in Operators
      BY <1>1, <1>3, <2>2
    <3>2. PICK d : d = stage[k]
      OBVIOUS
    <3>3. PICK o : o = chain[k]
      OBVIOUS
    <3>4. Follows(o, IF e = "end" THEN OnEnd(o, d.mem) ELSE OnError(o, d.mem, e),
                  Trace(g[k].items, e), g[k + 1], other)
      BY <1>0, <1>4, <2>2, <3>1, <3>2, <3>3, FollowsFinal
    <3> QED
      BY <2>3, <3>2, <3>3, <3>4 DEF t
  <2>5. h[Top] = g[Top]
    BY <1>1, <1>6, <1>8
  <2>6. SinkFlow(h[Top])'
    BY <1>1, <1>3, <2>1, <2>5 DEF SinkFlow
  <2>7. CallFlow(h)'
    <3>1. \A i \in DOMAIN calls : calls[i][1] \in DOMAIN chain
      BY <1>0, CallsTyped
    <3>2. \A i \in DOMAIN calls : calls[i][1] # k /\ calls[i][1] \in 1..Top
      BY <1>0, <1>1, <2>2, <3>1 DEF CallInv
    <3>3. \A i \in DOMAIN calls : calls[i][2] # "pending" /\ h[calls[i][1]].fin = calls[i][2]
      BY <1>3, <1>6, <3>2 DEF CallFlow
    <3>4. CASE chain[k].is # "watch_termination"
      BY <2>1, <3>3, <3>4 DEF CallFlow
    <3>5. CASE chain[k].is = "watch_termination"
      <4>1. <<k, e>> \in (DOMAIN chain) \X Errors /\ <<k, e>>[1] = k /\ <<k, e>>[2] = e
        BY <1>5, <2>2
      <4>2. calls' = Append(calls, <<k, e>>)
        BY <2>1, <3>5
      <4>3. /\ DOMAIN calls' = 1..Len(calls) + 1 /\ DOMAIN calls = 1..Len(calls) /\ Len(calls) \in Nat
            /\ calls'[Len(calls) + 1] = <<k, e>> /\ \A i \in 1..Len(calls) : calls'[i] = calls[i]
        BY <1>0, <4>1, <4>2
      <4>4. \A i \in DOMAIN calls' : i \in DOMAIN calls \/ i = Len(calls) + 1
        BY <4>3
      <4>5. \A i \in DOMAIN calls : calls'[i][2] # "pending" /\ h[calls'[i][1]].fin = calls'[i][2]
        BY <3>3, <4>3
      <4>6. calls'[Len(calls) + 1][2] = e /\ calls'[Len(calls) + 1][1] = k
        BY <4>1, <4>3
      <4>7. \A i \in DOMAIN calls' : calls'[i][2] # "pending" /\ h[calls'[i][1]].fin = calls'[i][2]
        BY <1>5, <1>6, <4>4, <4>5, <4>6
      <4> QED
        BY <4>7 DEF CallFlow
    <3> QED
      BY <3>4, <3>5
  <2> QED
    BY <1>5, <2>3, <2>4, <2>6, <2>7, FlowGiven DEF h, t
<1> QED
  BY <1>7, <1>8

\* Every step keeps the flow, until a timer fires.
LEMMA FlowStep == Inv /\ FlowInv /\ [Next]_vars => FlowInv'
<1> SUFFICES ASSUME Inv, FlowInv, [Next]_vars, OnTime' PROVE (pos <= Len(source.items) + 1)' /\ \E g : Flow(g)'
  BY DEF FlowInv
<1>0. /\ Setup /\ at \in 0..Top /\ WaitInv /\ pos \in Nat /\ stage = [k \in DOMAIN chain |-> stage[k]]
      /\ \A k \in DOMAIN chain : Doing(chain[k], stage[k])
  BY DEF Inv, TypeInv
<1>1. /\ Top \in Nat \ {0} /\ DOMAIN chain = 1..Top - 1
      /\ \A j \in 1..Top : j \in DOMAIN chain <=> j # Top
      /\ \A j \in DOMAIN chain : j \in 1..Top /\ j + 1 \in 1..Top /\ chain[j] \in Operators /\ j # Top
  BY <1>0, ChainFacts
<1>2. ~late' /\ ~fired'
  BY DEF OnTime
<1>3. ~late /\ ~fired /\ UNCHANGED setup /\ ~Deadline /\ ~(\E k \in DOMAIN chain : Timeout(k))
  BY <1>2 DEF Next, vars, setup, Ask, Yields, Finishes, Deliver, Timeout, Deadline
<1>4. pos <= Len(source.items) + 1 /\ \E g : Flow(g)
  BY <1>3 DEF FlowInv, OnTime
<1>5. PICK g : Flow(g)
  BY <1>4
<1>6. /\ g \in [1..Top -> Traces] /\ g[1] = Read /\ SinkFlow(g[Top]) /\ CallFlow(g)
      /\ \A j \in DOMAIN chain : Follows(chain[j], stage[j], g[j], g[j + 1], other)
  BY <1>5 DEF Flow
<1>7. source' = source /\ chain' = chain /\ other' = other /\ sink' = sink /\ Top' = Top
  BY <1>0, <1>3, SetupSame
<1>8. CASE Ask \/ UNCHANGED vars
  <2>1. UNCHANGED <<pos, stage, seen, verdict, calls>>
    BY <1>8 DEF Ask, vars
  <2>2. Read' = Read
    BY <1>7, <2>1 DEF Read
  <2>3. SinkFlow(g[Top])' /\ CallFlow(g)'
    BY <1>6, <1>7, <2>1 DEF SinkFlow, CallFlow
  <2>4. Flow(g)'
    BY <1>3, <1>6, <2>1, <2>2, <2>3, FlowSame
  <2> QED
    BY <1>4, <1>7, <2>1, <2>4
<1>9. CASE Yields
  <2>1. PICK d : d = [stage[at] EXCEPT !.out = Tail(@)]
    OBVIOUS
  <2>2. PICK x : x = Head(stage[at].out)
    OBVIOUS
  <2>3. PICK k, l : k = at + 1 /\ l = at
    OBVIOUS
  <2>4. l \in DOMAIN chain /\ stage[l].out # <<>> /\ pos' = pos
    BY <1>9, <2>3 DEF Yields
  <2>5. Doing(chain[l], stage[l]) /\ stage[l].out \in Seq(Item)
    BY <1>0, <2>4 DEF Doing
  <2>6. x \in Item /\ Tail(stage[l].out) \in Seq(Item)
    BY <2>2, <2>3, <2>4, <2>5
  <2>7. d.out = Tail(stage[l].out) /\ d.mem = stage[l].mem /\ d.st = stage[l].st
        /\ d = Does(d.out, d.mem, d.st)
    BY <2>1, <2>3, <2>5 DEF Doing, Does
  <2>8. Doing(chain[at], d) /\ (stage[at].st # "on" => d.st # "on")
    BY <2>3, <2>5, <2>6, <2>7 DEF Doing
  <2>9. PICK from : from = [stage EXCEPT ![at] = d]
    OBVIOUS
  <2>10. from = [stage EXCEPT ![at].out = Tail(@)]
    BY <2>1, <2>9
  <2>11. GiveItem(from, k, x)
    BY <1>9, <2>2, <2>3, <2>10 DEF Yields
  <2>12. Left(from, k)
    BY <2>3, <2>4, <2>8, <2>9, LeftAt
  <2>13. k \in 1..Top /\ l + 1 = k /\ k # 1 /\ l \in Nat
    BY <1>1, <2>3, <2>4
  <2>14. Passed(from, g, k, Pend(Append(g[k].items, x)))
    <3>1. Follows(chain[l], stage[l], g[l], g[k], other) /\ g[k] \in Traces
      BY <1>6, <2>4, <2>13
    <3>2. PICK c : c = stage[l]
      OBVIOUS
    <3>3. Follows(chain[l], d, g[l], Pend(Append(g[k].items, x)), other)
      BY <2>2, <2>3, <2>4, <2>5, <2>7, <3>1, <3>2, FollowsYield
    <3>4. from[l] = d /\ \A j \in DOMAIN chain : j # l => from[j] = stage[j]
      BY <1>0, <2>3, <2>4, <2>9
    <3>5. \A j \in DOMAIN chain : (j + 1 < k => j # l) /\ (j + 1 = k => j = l)
      BY <1>1, <2>13
    <3>6. Read' = Read
      BY <1>7, <2>4 DEF Read
    <3> QED
      BY <2>13, <3>3, <3>4, <3>5, <3>6 DEF Passed
  <2>15. Flow(Grown(g, k, Pend(Append(g[k].items, x))))'
    BY <1>3, <1>5, <2>3, <2>6, <2>11, <2>12, <2>13, <2>14, FlowItem
  <2> QED
    BY <1>4, <1>7, <2>4, <2>15
<1>10. CASE Finishes
  <2>1. PICK d : d = [stage[at] EXCEPT !.st = "end"]
    OBVIOUS
  <2>2. PICK e : e = stage[at].st
    OBVIOUS
  <2>3. PICK k, l : k = at + 1 /\ l = at
    OBVIOUS
  <2>4. l \in DOMAIN chain /\ stage[l].out = <<>> /\ stage[l].st # "on" /\ pos' = pos
    BY <1>10, <2>3 DEF Finishes
  <2>5. Doing(chain[l], stage[l]) /\ stage[l].st \in Errors \cup {"on"}
    BY <1>0, <2>4 DEF Doing
  <2>6. e \in Errors /\ "end" \in Errors /\ stage[l].st = e
    BY <1>0, <2>2, <2>3, <2>4, <2>5, ErrorFacts
  <2>7. d.out = stage[l].out /\ d.mem = stage[l].mem /\ d.st = "end"
        /\ d = Does(d.out, d.mem, d.st)
    BY <2>1, <2>3, <2>5 DEF Doing, Does
  <2>8. Doing(chain[at], d) /\ (stage[at].st # "on" => d.st # "on")
    BY <2>3, <2>5, <2>6, <2>7 DEF Doing
  <2>9. PICK from : from = [stage EXCEPT ![at] = d]
    OBVIOUS
  <2>10. from = [stage EXCEPT ![at].st = "end"]
    BY <2>1, <2>9
  <2>11. GiveFinal(from, k, e)
    BY <1>10, <2>2, <2>3, <2>10 DEF Finishes
  <2>12. Left(from, k)
    BY <2>3, <2>4, <2>8, <2>9, LeftAt
  <2>13. k \in 1..Top /\ l + 1 = k /\ k # 1 /\ l \in Nat /\ l \in 1..Top
    BY <1>1, <2>3, <2>4
  <2>14. Waits(k)
    BY <1>0, <1>1, <2>3, <2>13 DEF WaitInv
  <2>15. g[k].fin = "pending" /\ g[k] \in Traces /\ g[l] \in Traces
    <3>1. g[k] = Pend(g[k].items)
      BY <1>5, <2>13, <2>14, WaitsPending
    <3> QED
      BY <1>6, <2>13, <3>1, AfterFacts
  <2>16. Follows(chain[l], d, g[l], Trace(g[k].items, e), other) /\ e \in Finals
    <3>1. Follows(chain[l], stage[l], g[l], g[k], other) /\ chain[l] \in Operators
      BY <1>1, <1>6, <2>4, <2>13
    <3>2. PICK c, o : c = stage[l] /\ o = chain[l]
      OBVIOUS
    <3>3. Follows(o, d, g[l], Trace(g[k].items, c.st), other) /\ c.st \in Finals
      BY <1>0, <1>3, <2>4, <2>6, <2>7, <2>15, <3>1, <3>2, FollowsFinish
    <3> QED
      BY <2>6, <3>2, <3>3
  <2>17. Passed(from, g, k, Trace(g[k].items, e))
    <3>1. from[l] = d /\ \A j \in DOMAIN chain : j # l => from[j] = stage[j]
      BY <1>0, <2>3, <2>4, <2>9
    <3>2. \A j \in DOMAIN chain : (j + 1 < k => j # l) /\ (j + 1 = k => j = l)
      BY <1>1, <2>13
    <3>3. Read' = Read
      BY <1>7, <2>4 DEF Read
    <3> QED
      BY <2>13, <2>16, <3>1, <3>2, <3>3 DEF Passed
  <2>18. Flow(Grown(g, k, Trace(g[k].items, e)))'
    BY <1>3, <1>5, <2>3, <2>11, <2>12, <2>13, <2>16, <2>17, FlowFinal
  <2> QED
    BY <1>4, <1>7, <2>4, <2>18
<1>11. CASE Deliver
  <2> DEFINE n == Len(source.items)
  <2>1. PICK from : from = stage
    OBVIOUS
  <2>2. PICK x : x = source.items[pos + 1]
    OBVIOUS
  <2>3. PICK e : e = IF pos = n THEN source.fin ELSE "end"
    OBVIOUS
  <2>4. at = 0 /\ pos' = pos + 1
        /\ IF pos < n THEN GiveItem(from, 1, x) ELSE GiveFinal(from, 1, e)
    BY <1>11, <2>1, <2>2, <2>3 DEF Deliver
  <2>5. Left(from, 1)
    BY <1>0, <2>1 DEF Left
  <2>6. 1 \in 1..Top /\ 1 = at + 1
    BY <1>0, <1>1, <2>4
  <2>7. Waits(1)
    BY <1>0, <2>4, <2>6 DEF WaitInv
  <2>8. g[1] = Pend(g[1].items) /\ g[1] = Read
    BY <1>5, <1>6, <2>6, <2>7, WaitsPending
  <2>9. source.items \in Seq(Item) /\ n \in Nat /\ source.fin # "pending" /\ source.fin \in Finals
        /\ source = Trace(source.items, source.fin)
    BY <1>0 DEF Setup, Finals
  <2>10. pos <= n /\ g[1].items = SubSeq(source.items, 1, pos)
    <3>1. pos <= n
      <4>1. ~(pos <= n) => Read = source
        BY DEF Read
      <4>2. Read.fin = "pending"
        BY <2>8, AfterFacts
      <4> QED
        BY <2>9, <4>1, <4>2
    <3>2. Read = Pend(SubSeq(source.items, 1, pos))
      BY <3>1 DEF Read
    <3> QED
      BY <2>8, <3>1, <3>2, AfterFacts
  <2>11. (pos <= Len(source.items) + 1)'
    <3> HIDE DEF n
    <3>1. pos + 1 <= n + 1
      BY <1>0, <2>9, <2>10
    <3> QED
      BY <1>7, <2>4, <3>1 DEF n
  <2>12. \A j \in DOMAIN chain : j + 1 # 1 /\ ~(j + 1 < 1)
    BY <1>1
  <2>13. CASE pos < n
    <3>1. pos + 1 \in 1..n /\ pos + 1 <= n
      BY <1>0, <2>9, <2>13
    <3>2. x \in Item
      BY <2>2, <2>9, <3>1
    <3>3. SubSeq(source.items, 1, pos + 1) = Append(SubSeq(source.items, 1, pos), x)
      BY <1>0, <2>2, <2>9, <3>1
    <3>4. Read' = Pend(Append(g[1].items, x))
      <4>1. Read' = Pend(SubSeq(source.items, 1, pos + 1))
        BY <1>7, <2>4, <3>1 DEF Read
      <4> QED
        BY <2>10, <3>3, <4>1
    <3>5. Passed(from, g, 1, Pend(Append(g[1].items, x)))
      BY <2>12, <3>4 DEF Passed
    <3>6. GiveItem(from, 1, x)
      BY <2>4, <2>13
    <3>7. Flow(Grown(g, 1, Pend(Append(g[1].items, x))))'
      BY <1>3, <1>5, <2>5, <2>6, <3>2, <3>5, <3>6, FlowItem
    <3> QED
      BY <2>11, <3>7
  <2>14. CASE ~(pos < n)
    <3>1. pos = n /\ ~(pos + 1 <= n)
      BY <1>0, <2>9, <2>10, <2>14
    <3>2. e = source.fin /\ e \in Finals
      BY <2>3, <2>9, <3>1
    <3>3. SubSeq(source.items, 1, pos) = source.items
      BY <2>9, <3>1
    <3>4. Read' = source
      BY <1>7, <2>4, <3>1 DEF Read
    <3>5. Read' = Trace(g[1].items, e)
      BY <2>9, <2>10, <3>2, <3>3, <3>4
    <3>6. Passed(from, g, 1, Trace(g[1].items, e))
      BY <2>12, <3>5 DEF Passed
    <3>7. GiveFinal(from, 1, e)
      BY <2>4, <2>14
    <3>8. Flow(Grown(g, 1, Trace(g[1].items, e)))'
      BY <1>3, <1>5, <2>5, <2>6, <3>2, <3>6, <3>7, FlowFinal
    <3> QED
      BY <2>11, <3>8
  <2> QED
    BY <2>13, <2>14
<1> QED
  BY <1>3, <1>8, <1>9, <1>10, <1>11 DEF Next

----------------------------------------------------------------------------
(* What a chain promises of a whole stream, and of any part of it.             *)

\* The laws of a chain make traces,
LEMMA LawsTyped ==
    ASSUME Setup, ~late, NEW t \in Traces
    PROVE  \A k \in 0..Len(chain) : LawsOf(chain, t, other)[k] \in Traces
<1> DEFINE L == LawsOf(chain, t, other)
           n == Len(chain)
           T == {k \in Nat : k <= n => L[k] \in Traces}
<1>0. chain \in Seq(Operators) /\ n \in Nat /\ \A k \in 1..n : chain[k] \in Operators
  BY DEF Setup
<1>1. L[0] = t /\ \A k \in 1..n : L[k] = Law(chain[k], L[k - 1], other)
  BY <1>0, LawsAre
<1> HIDE DEF L, n
<1>2. 0 \in T
  BY <1>1
<1>3. ASSUME NEW k \in Nat, k \in T PROVE k + 1 \in T
  <2>1. ASSUME k + 1 <= n PROVE L[k + 1] \in Traces
    <3>1. k + 1 \in 1..n /\ (k + 1) - 1 = k /\ k <= n
      BY <1>0, <2>1
    <3>2. L[k + 1] = Law(chain[k + 1], L[k], other) /\ L[k] \in Traces /\ chain[k + 1] \in Operators
      BY <1>0, <1>1, <1>3, <3>1
    <3>3. PICK o, u : o = chain[k + 1] /\ u = L[k]
      OBVIOUS
    <3>4. Law(o, u, other) \in Traces
      BY <3>2, <3>3, AllObey, LawTyped
    <3> QED
      BY <3>2, <3>3, <3>4
  <2> QED
    BY <2>1
<1> HIDE DEF T
<1>4. \A k \in Nat : k \in T
  BY <1>2, <1>3, NatInduct
<1>5. \A k \in 0..n : k \in Nat /\ k <= n
  BY <1>0
<1> QED
  BY <1>4, <1>5 DEF T, L, n

\* and more of the source gives more at every stage.
LEMMA LawsMono ==
    ASSUME Setup, ~late, NEW t \in Traces, NEW u \in Traces, Extends(t, u)
    PROVE  \A k \in 0..Len(chain) : Extends(LawsOf(chain, t, other)[k], LawsOf(chain, u, other)[k])
<1> DEFINE L == LawsOf(chain, t, other)
           M == LawsOf(chain, u, other)
           n == Len(chain)
           T == {k \in Nat : k <= n => Extends(L[k], M[k])}
<1>0. chain \in Seq(Operators) /\ n \in Nat /\ \A k \in 1..n : chain[k] \in Operators
  BY DEF Setup
<1>1. /\ L[0] = t /\ \A k \in 1..n : L[k] = Law(chain[k], L[k - 1], other)
      /\ M[0] = u /\ \A k \in 1..n : M[k] = Law(chain[k], M[k - 1], other)
  BY <1>0, LawsAre
<1>2. \A k \in 0..n : L[k] \in Traces /\ M[k] \in Traces
  BY LawsTyped
<1> HIDE DEF L, M, n
<1>3. 0 \in T
  BY <1>1
<1>4. ASSUME NEW k \in Nat, k \in T PROVE k + 1 \in T
  <2>1. ASSUME k + 1 <= n PROVE Extends(L[k + 1], M[k + 1])
    <3>1. k + 1 \in 1..n /\ (k + 1) - 1 = k /\ k <= n /\ k \in 0..n
      BY <1>0, <2>1
    <3>2. L[k + 1] = Law(chain[k + 1], L[k], other) /\ M[k + 1] = Law(chain[k + 1], M[k], other)
          /\ L[k] \in Traces /\ M[k] \in Traces /\ Extends(L[k], M[k]) /\ chain[k + 1] \in Operators
      BY <1>0, <1>1, <1>2, <1>4, <3>1
    <3>3. PICK o, a, b : o = chain[k + 1] /\ a = L[k] /\ b = M[k]
      OBVIOUS
    <3>4. Extends(Law(o, a, other), Law(o, b, other))
      BY <3>2, <3>3, AllObey, LawMono
    <3> QED
      BY <3>2, <3>3, <3>4
  <2> QED
    BY <2>1
<1> HIDE DEF T
<1>5. \A k \in Nat : k \in T
  BY <1>3, <1>4, NatInduct
<1>6. \A k \in 0..n : k \in Nat /\ k <= n
  BY <1>0
<1> QED
  BY <1>5, <1>6 DEF T, L, M, n

\* What has been passed on is the beginning of what the law gives.
LEMMA FollowsExtends ==
    ASSUME NEW o, NEW d, d.out \in Seq(Item), NEW t, NEW u, NEW v, Follows(o, d, t, u, v)
    PROVE  Extends(u, Law(o, t, v))
<1>1. CASE u.fin = "pending" /\ Law(o, t, v) = After(u, d)
  <2>1. After(u, d).items = u.items \o d.out
    BY Zenon, TraceFacts DEF After
  <2>2. Law(o, t, v).items = u.items \o d.out
    BY <1>1, <2>1
  <2> QED
    BY <1>1, <2>2 DEF Extends
<1>2. CASE Law(o, t, v) = u
  BY <1>2, ExtendsSelf
<1> QED
  BY <1>1, <1>2 DEF Follows

\* A sequence is its two parts.
LEMMA CutAt ==
    ASSUME NEW S, NEW s \in Seq(S), NEW k \in Nat, k <= Len(s)
    PROVE  SubSeq(s, k + 1, Len(s)) \in Seq(S) /\ s = SubSeq(s, 1, k) \o SubSeq(s, k + 1, Len(s))
<1> DEFINE a == SubSeq(s, 1, k)
           b == SubSeq(s, k + 1, Len(s))
           n == Len(s)
<1>0. n \in Nat /\ k <= n
  OBVIOUS
<1>1. a \in Seq(S) /\ Len(a) = k /\ \A i \in 1..k : a[i] = s[i]
  OBVIOUS
<1>2. b \in Seq(S) /\ Len(b) = n - k /\ \A i \in 1..n - k : b[i] = s[k + i]
  OBVIOUS
<1> HIDE DEF a, b
<1>3. /\ a \o b \in Seq(S) /\ Len(a \o b) = Len(a) + Len(b)
      /\ \A i \in 1..Len(a) : (a \o b)[i] = a[i]
      /\ \A i \in 1..Len(b) : (a \o b)[Len(a) + i] = b[i]
  BY <1>1, <1>2
<1> HIDE DEF n
<1>4. \A i \in 1..n : (a \o b)[i] = s[i]
  <2>1. TAKE i \in 1..n
  <2>2. CASE i <= k
    <3>1. i \in 1..k
      BY <1>0, <2>2
    <3> QED
      BY <1>1, <1>3, <3>1
  <2>3. CASE ~(i <= k)
    <3>1. PICK j \in 1..n - k : i = k + j
      <4>1. i - k \in 1..n - k /\ i = k + (i - k)
        BY <1>0, <2>3
      <4> QED
        BY <4>1
    <3> QED
      BY <1>1, <1>2, <1>3, <3>1
  <2> QED
    BY <2>2, <2>3
<1>5. Len(a \o b) = n
  BY <1>0, <1>1, <1>2, <1>3
<1>6. a \o b = s
  BY <1>3, <1>4, <1>5, SeqEqual DEF n
<1> QED
  BY <1>2, <1>6 DEF a, b

\* What has been passed on at any stage is the beginning of what the laws promise
\* there.
LEMMA FlowKeeps ==
    ASSUME Inv, ~late, NEW g, Flow(g)
    PROVE  /\ \A k \in 0..Len(chain) : Extends(g[k + 1], LawsOf(chain, source, other)[k])
           /\ \A k \in 0..Len(chain) : LawsOf(chain, source, other)[k] \in Traces
<1> DEFINE L == LawsOf(chain, source, other)
           n == Len(chain)
           T == {k \in Nat : k <= n => Extends(g[k + 1], L[k])}
<1>0. /\ Setup /\ chain \in Seq(Operators) /\ n \in Nat /\ \A k \in 1..n : chain[k] \in Operators
      /\ Top = n + 1 /\ DOMAIN chain = 1..n /\ pos \in Nat
      /\ \A k \in DOMAIN chain : stage[k].out \in Seq(Item)
  BY DEF Inv, TypeInv, Setup, Top, Doing
<1>1. source \in Traces /\ source.items \in Seq(Item) /\ Len(source.items) \in Nat
  BY <1>0, FinalFacts, TraceFacts DEF Setup
<1>2. L[0] = source /\ \A k \in 1..n : L[k] = Law(chain[k], L[k - 1], other)
  BY <1>0, LawsAre
<1>3. \A k \in 0..n : L[k] \in Traces
  BY <1>0, <1>1, LawsTyped
<1>4. g \in [1..Top -> Traces] /\ g[1] = Read
      /\ \A k \in DOMAIN chain : Follows(chain[k], stage[k], g[k], g[k + 1], other)
  BY DEF Flow
<1>5. Extends(Read, source)
  <2>1. CASE pos <= Len(source.items)
    <3> DEFINE a == SubSeq(source.items, 1, pos)
               z == SubSeq(source.items, pos + 1, Len(source.items))
    <3>1. z \in Seq(Item) /\ source.items = a \o z
      <4>1. PICK s \in Seq(Item), k \in Nat : s = source.items /\ k = pos /\ k <= Len(s)
        BY <1>0, <1>1, <2>1
      <4>2. s = SubSeq(s, 1, k) \o SubSeq(s, k + 1, Len(s)) /\ SubSeq(s, k + 1, Len(s)) \in Seq(Item)
        BY <4>1, CutAt
      <4> QED
        BY <4>1, <4>2
    <3>2. Read.fin = "pending" /\ Read.items = a
      BY <2>1, AfterFacts DEF Read
    <3> QED
      BY <3>1, <3>2 DEF Extends
  <2>2. CASE ~(pos <= Len(source.items))
    BY <2>2, ExtendsSelf DEF Read
  <2> QED
    BY <2>1, <2>2
<1> HIDE DEF L, n
<1>6. 0 \in T
  BY <1>2, <1>4, <1>5
<1>7. ASSUME NEW k \in Nat, k \in T PROVE k + 1 \in T
  <2>1. ASSUME k + 1 <= n PROVE Extends(g[(k + 1) + 1], L[k + 1])
    <3>1. /\ k + 1 \in 1..n /\ (k + 1) - 1 = k /\ k <= n /\ k \in 0..n /\ k + 1 \in 0..n
          /\ k + 1 \in 1..Top /\ (k + 1) + 1 \in 1..Top
      BY <1>0, <2>1
    <3>2. PICK o, d, a, b, t, u : /\ o = chain[k + 1] /\ d = stage[k + 1] /\ a = g[k + 1] /\ b = g[(k + 1) + 1]
                                  /\ t = L[k] /\ u = L[k + 1]
      OBVIOUS
    <3>3. u = Law(o, t, other) /\ t \in Traces /\ u \in Traces /\ a \in Traces /\ b \in Traces
          /\ o \in Operators /\ Extends(a, t)
      BY <1>0, <1>2, <1>3, <1>4, <1>7, <3>1, <3>2
    <3>4. Follows(o, d, a, b, other) /\ d.out \in Seq(Item)
      BY <1>0, <1>4, <3>1, <3>2
    <3>5. Extends(b, Law(o, a, other))
      BY <3>4, FollowsExtends
    <3>6. Obeys(o)
      BY <1>0, <3>3, AllObey
    <3>7. Extends(Law(o, a, other), u) /\ Law(o, a, other) \in Traces
      BY <1>0, <3>3, <3>6, LawMono, LawTyped
    <3>8. Extends(b, u)
      BY <3>3, <3>5, <3>7, ExtendsMore
    <3> QED
      BY <3>2, <3>8
  <2> QED
    BY <2>1
<1> HIDE DEF T
<1>8. \A k \in Nat : k \in T
  BY <1>6, <1>7, NatInduct
<1>9. \A k \in 0..n : k \in Nat /\ k <= n
  BY <1>0
<1> QED
  BY <1>3, <1>8, <1>9 DEF T, L, n

\* While no timer fires, what any sink has consumed of any chain over any source is
\* a prefix of what the derivations in the docstrings give for the whole stream; at
\* the end it is all of it, and the stream ended or failed as they say.
THEOREM DerivationsKept == Spec => []KeepsDerivation
<1>1. Inv /\ FlowInv => KeepsDerivation
  <2> SUFFICES ASSUME Inv, FlowInv, OnTime
               PROVE  /\ IsPrefix(seen, Promised.items)
                      /\ Ended => \/ sink = "first" /\ seen # <<>>
                                  \/ seen = Promised.items /\ verdict \in {Promised.fin, "ValueError"}
    BY DEF KeepsDerivation
  <2>1. PICK g : Flow(g)
    BY DEF FlowInv
  <2>2. ~late
    BY DEF OnTime
  <2>3. Len(chain) \in Nat /\ Len(chain) + 1 = Top /\ Len(chain) \in 0..Len(chain)
    BY DEF Inv, TypeInv, Setup, Top
  <2>4. Promised = LawsOf(chain, source, other)[Len(chain)]
    BY DEF Promised, LawOf
  <2>5. Extends(g[Top], Promised) /\ Promised \in Traces
    BY <2>1, <2>2, <2>3, <2>4, FlowKeeps
  <2>6. SinkFlow(g[Top]) /\ seen \in Seq(Item)
    BY <2>1 DEF Flow, Inv, TypeInv
  <2>7. IsPrefix(seen, Promised.items)
    <3>1. PICK z \in Seq(Item) : Promised.items = seen \o z
      <4>1. CASE g[Top] = Promised
        <5>1. <<>> \in Seq(Item) /\ Promised.items = seen \o <<>>
          BY <2>6, <4>1 DEF SinkFlow
        <5> QED
          BY <5>1
      <4>2. CASE g[Top] # Promised
        BY <2>5, <2>6, <4>2 DEF Extends, SinkFlow
      <4> QED
        BY <4>1, <4>2
    <3>2. Len(seen) <= Len(seen \o z) /\ SubSeq(seen, 1, Len(seen)) = SubSeq(seen \o z, 1, Len(seen))
      BY <2>6
    <3> QED
      BY <3>1, <3>2 DEF IsPrefix
  <2>8. ASSUME Ended, ~(sink = "first" /\ seen # <<>>)
        PROVE  seen = Promised.items /\ verdict \in {Promised.fin, "ValueError"}
    <3>1. g[Top].fin # "pending" /\ verdict \in {g[Top].fin, "ValueError"} /\ g[Top].items = seen
      BY <2>6, <2>8 DEF SinkFlow, Ended
    <3>2. g[Top] = Promised
      BY <2>5, <3>1 DEF Extends
    <3> QED
      BY <3>1, <3>2
  <2> QED
    BY <2>7, <2>8
<1>2. Init => Inv /\ FlowInv
  BY InvInit, FlowInit
<1>3. (Inv /\ FlowInv) /\ [Next]_vars => (Inv /\ FlowInv)'
  BY InvStep, FlowStep
<1> QED
  BY <1>1, <1>2, <1>3, PTL DEF Spec

\* Every watch_termination, wherever it is in a chain, calls back at most once and
\* tells how its upstream finished.
THEOREM AlwaysWatched == Spec => []Watched
<1>1. Inv /\ FlowInv => Watched
  <2> SUFFICES ASSUME Inv, FlowInv PROVE Watched
    OBVIOUS
  <2>1. \A i, j \in DOMAIN calls : calls[i][1] = calls[j][1] => i = j
    BY DEF Inv, CallInv
  <2>2. ASSUME NEW i \in DOMAIN calls
        PROVE  /\ chain[calls[i][1]].is = "watch_termination"
               /\ OnTime => calls[i][2] = LawsOf(chain, source, other)[calls[i][1] - 1].fin
    <3>1. chain[calls[i][1]].is = "watch_termination"
      BY DEF Inv, CallInv
    <3>2. ASSUME OnTime PROVE calls[i][2] = LawsOf(chain, source, other)[calls[i][1] - 1].fin
      <4>1. PICK g : Flow(g)
        BY <3>2 DEF FlowInv
      <4>2. ~late
        BY <3>2 DEF OnTime
      <4>3. PICK k : k = calls[i][1]
        OBVIOUS
      <4>4. k \in DOMAIN chain
        <5>1. calls \in Seq((DOMAIN chain) \X Errors)
          BY DEF Inv, TypeInv
        <5> QED
          BY <4>3, <5>1, CallsTyped
      <4>5. k - 1 \in 0..Len(chain) /\ (k - 1) + 1 = k
        BY <4>4 DEF Inv, TypeInv, Setup
      <4>6. Extends(g[k], LawsOf(chain, source, other)[k - 1])
        BY <4>1, <4>2, <4>5, FlowKeeps
      <4>7. g[k].fin = calls[i][2] /\ g[k].fin # "pending"
        BY <4>1, <4>3 DEF Flow, CallFlow
      <4> QED
        BY <4>3, <4>6, <4>7 DEF Extends
    <3> QED
      BY <3>1, <3>2
  <2> QED
    BY <2>1, <2>2 DEF Watched
<1>2. Init => Inv /\ FlowInv
  BY InvInit, FlowInit
<1>3. (Inv /\ FlowInv) /\ [Next]_vars => (Inv /\ FlowInv)'
  BY InvStep, FlowStep
<1> QED
  BY <1>1, <1>2, <1>3, PTL DEF Spec

----------------------------------------------------------------------------
(* Nothing is read ahead.                                                      *)

Part(q) == Trace(SubSeq(source.items, 1, q), "pending")
Needed(q) == LawOf(chain, Part(q), other)

LazyInv ==
    OnTime /\ pos > 0 =>
        /\ Len(Needed(pos - 1).items) <= Len(seen)
        /\ at = Top /\ verdict = "running" => Len(Needed(pos - 1).items) < Len(seen)

\* What the chain makes of the first q items of the source.
LEMMA NeededTyped ==
    ASSUME Setup, ~late, NEW q \in Nat, q <= Len(source.items)
    PROVE  /\ Part(q) \in Traces /\ Needed(q) = LawsOf(chain, Part(q), other)[Len(chain)]
           /\ Needed(q) \in Traces /\ Len(Needed(q).items) \in Nat
<1>1. SubSeq(source.items, 1, q) \in Seq(Item) /\ Len(chain) \in Nat
  BY DEF Setup
<1>2. Part(q) \in Traces
  BY <1>1, AfterFacts DEF Part, Pend
<1>3. Needed(q) = LawsOf(chain, Part(q), other)[Len(chain)]
  BY DEF Needed, LawOf
<1>4. Len(chain) \in 0..Len(chain)
  BY <1>1
<1>5. Needed(q) \in Traces
  BY <1>2, <1>3, <1>4, LawsTyped
<1>6. Needed(q).items \in Seq(Item)
  BY <1>5, TraceFacts
<1> QED
  BY <1>2, <1>3, <1>5, <1>6

\* When the source is asked, everything it has yielded has been used.
LEMMA FlowAsked ==
    ASSUME Inv, ~late, NEW g, Flow(g), at = 0
    PROVE  pos <= Len(source.items) /\ g[Top] = Needed(pos)
<1> DEFINE n == Len(chain)
           L == LawsOf(chain, Part(pos), other)
           T == {k \in Nat : k <= n => g[k + 1] = L[k]}
<1>0. /\ Setup /\ n \in Nat /\ Top = n + 1 /\ DOMAIN chain = 1..n /\ pos \in Nat /\ WaitInv
      /\ \A k \in 1..Top : k \in DOMAIN chain <=> k # Top
      /\ source.items \in Seq(Item) /\ Len(source.items) \in Nat /\ source.fin # "pending"
  BY ChainFacts DEF Inv, TypeInv, Setup, Top
<1>1. \A k \in 1..Top : Waits(k)
  BY <1>0 DEF WaitInv
<1>2. g \in [1..Top -> Traces] /\ g[1] = Read
      /\ \A k \in DOMAIN chain : Follows(chain[k], stage[k], g[k], g[k + 1], other)
  BY DEF Flow
<1>3. pos <= Len(source.items) /\ g[1] = Part(pos)
  <2>1. 1 \in 1..Top
    BY <1>0
  <2>2. g[1] = Pend(g[1].items)
    BY <1>1, <2>1, WaitsPending
  <2>3. Read.fin = "pending"
    BY <1>2, <2>2, AfterFacts
  <2>4. pos <= Len(source.items)
    <3>1. ~(pos <= Len(source.items)) => Read = source
      BY DEF Read
    <3> QED
      BY <1>0, <2>3, <3>1
  <2> QED
    BY <1>2, <2>4 DEF Read, Part, Pend
<1>4. \A k \in DOMAIN chain : g[k + 1] = Law(chain[k], g[k], other)
  <2>1. TAKE k \in DOMAIN chain
  <2>2. k \in 1..Top /\ k + 1 \in 1..Top /\ k # Top
    BY <1>0
  <2>3. stage[k].st = "on" /\ stage[k].out = <<>>
    BY <1>1, <2>2 DEF Waits
  <2>4. g[k] \in Traces /\ g[k + 1] \in Traces /\ Follows(chain[k], stage[k], g[k], g[k + 1], other)
    BY <1>2, <2>2
  <2> QED
    BY <2>3, <2>4, FollowsOn
<1>5. L[0] = Part(pos) /\ \A k \in 1..n : L[k] = Law(chain[k], L[k - 1], other)
  BY <1>0, LawsAre
<1>6. Needed(pos) = L[n]
  BY <1>0, <1>3, NeededTyped, Zenon DEF Needed, LawOf
<1> HIDE DEF L, n
<1>7. 0 \in T
  BY <1>3, <1>5
<1>8. ASSUME NEW k \in Nat, k \in T PROVE k + 1 \in T
  <2>1. ASSUME k + 1 <= n PROVE g[(k + 1) + 1] = L[k + 1]
    <3>1. k + 1 \in 1..n /\ (k + 1) - 1 = k /\ k <= n
      BY <1>0, <2>1
    <3>2. g[(k + 1) + 1] = Law(chain[k + 1], g[k + 1], other) /\ L[k + 1] = Law(chain[k + 1], L[k], other)
      BY <1>0, <1>4, <1>5, <3>1
    <3> QED
      BY <1>8, <3>1, <3>2
  <2> QED
    BY <2>1
<1> HIDE DEF T
<1>9. \A k \in Nat : k \in T
  BY <1>7, <1>8, NatInduct
<1>10. g[n + 1] = L[n]
  BY <1>0, <1>9 DEF T
<1> QED
  BY <1>0, <1>3, <1>6, <1>10

\* The sink has more when it is given an item, and has stopped when it is given an end.
Grew == /\ Len(seen) \in Nat /\ Len(seen') \in Nat /\ Len(seen) <= Len(seen')
        /\ at' = Top /\ verdict' = "running" => Len(seen) < Len(seen')

\* An item given,
LEMMA ItemGrows ==
    ASSUME Inv, NEW k, NEW from, NEW x \in Item, GiveItem(from, k, x)
    PROVE  Grew
<1>1. seen \in Seq(Item) /\ Len(seen) \in Nat
  BY DEF Inv, TypeInv
<1>2. CASE k = Top
  <2>1. seen' = Append(seen, x)
    BY <1>2 DEF GiveItem, SinkItem
  <2>2. Len(seen') = Len(seen) + 1
    BY <1>1, <2>1
  <2> DEFINE m == Len(seen)
             n == Len(seen')
  <2>3. m \in Nat /\ n = m + 1
    BY <1>1, <2>2
  <2> HIDE DEF m, n
  <2>4. n \in Nat /\ m <= n /\ m < n
    BY <2>3
  <2> QED
    BY <1>1, <2>4 DEF Grew, m, n
<1>3. CASE k # Top
  <2>1. seen' = seen /\ at' = k
    BY <1>3 DEF GiveItem
  <2> QED
    BY <1>1, <1>3, <2>1 DEF Grew
<1> QED
  BY <1>2, <1>3

\* or an end, takes nothing from the sink.
LEMMA FinalGrows ==
    ASSUME Inv, NEW k, NEW from, NEW e \in Errors, GiveFinal(from, k, e)
    PROVE  Grew
<1>1. seen \in Seq(Item) /\ Len(seen) \in Nat /\ Setup
  BY DEF Inv, TypeInv
<1>2. seen' = seen /\ at' = k /\ (k = Top => verdict' # "running")
  BY <1>1, ErrorFacts DEF GiveFinal, SinkEnds
<1> QED
  BY <1>1, <1>2 DEF Grew

\* Either no step of the source, or it was asked.
LEMMA StepGrows ==
    ASSUME Inv, [Next]_vars, OnTime'
    PROVE  /\ UNCHANGED setup /\ OnTime
           /\ \/ pos' = pos /\ Grew
              \/ UNCHANGED <<pos, seen, at, verdict>>
              \/ at = 0 /\ pos' = pos + 1 /\ Grew
<1>0. /\ Setup /\ at \in 0..Top /\ pos \in Nat /\ seen \in Seq(Item) /\ Len(seen) \in Nat
      /\ \A k \in DOMAIN chain : Doing(chain[k], stage[k])
  BY DEF Inv, TypeInv
<1>1. ~late' /\ ~fired'
  BY DEF OnTime
<1>2. ~late /\ ~fired /\ UNCHANGED setup /\ ~Deadline /\ ~(\E k \in DOMAIN chain : Timeout(k))
  BY <1>1 DEF Next, vars, setup, Ask, Yields, Finishes, Deliver, Timeout, Deadline
<1>3. OnTime
  BY <1>2 DEF OnTime
<1>4. CASE Ask
  <2>1. UNCHANGED <<pos, seen, verdict>> /\ at' = at - 1
    BY <1>4 DEF Ask
  <2>2. at' # Top
    BY <1>0, <2>1, ChainFacts
  <2> QED
    BY <1>0, <1>2, <1>3, <2>1, <2>2 DEF Grew
<1>5. CASE Yields
  <2>1. PICK x, k, from : x = Head(stage[at].out) /\ k = at + 1 /\ from = [stage EXCEPT ![at].out = Tail(@)]
    OBVIOUS
  <2>2. GiveItem(from, k, x) /\ pos' = pos /\ at \in DOMAIN chain /\ stage[at].out # <<>>
    BY <1>5, <2>1 DEF Yields
  <2>3. stage[at].out \in Seq(Item)
    BY <1>0, <2>2 DEF Doing
  <2>4. x \in Item
    BY <2>1, <2>2, <2>3
  <2> QED
    BY <1>2, <1>3, <2>2, <2>4, ItemGrows
<1>6. CASE Finishes
  <2>1. PICK e, k, from : e = stage[at].st /\ k = at + 1 /\ from = [stage EXCEPT ![at].st = "end"]
    OBVIOUS
  <2>2. GiveFinal(from, k, e) /\ pos' = pos /\ at \in DOMAIN chain /\ stage[at].st # "on"
    BY <1>6, <2>1 DEF Finishes
  <2>3. e \in Errors
    BY <1>0, <2>1, <2>2 DEF Doing
  <2> QED
    BY <1>2, <1>3, <2>2, <2>3, FinalGrows
<1>7. CASE Deliver
  <2>1. PICK x, e, from : /\ x = source.items[pos + 1] /\ from = stage
                          /\ e = IF pos = Len(source.items) THEN source.fin ELSE "end"
    OBVIOUS
  <2>2. at = 0 /\ pos' = pos + 1
        /\ IF pos < Len(source.items) THEN GiveItem(from, 1, x) ELSE GiveFinal(from, 1, e)
    BY <1>7, <2>1 DEF Deliver
  <2>3. CASE pos < Len(source.items)
    <3>1. pos + 1 \in 1..Len(source.items) /\ source.items \in Seq(Item)
      BY <1>0, <2>3 DEF Setup
    <3>2. x \in Item
      BY <2>1, <3>1
    <3> QED
      BY <1>2, <1>3, <2>2, <2>3, <3>2, ItemGrows
  <2>4. CASE ~(pos < Len(source.items))
    <3>1. e \in Errors
      BY <1>0, <2>1, ErrorFacts
    <3> QED
      BY <1>2, <1>3, <2>2, <2>4, <3>1, FinalGrows
  <2> QED
    BY <2>3, <2>4
<1>8. CASE UNCHANGED vars
  BY <1>2, <1>3, <1>8 DEF vars
<1> QED
  BY <1>2, <1>4, <1>5, <1>6, <1>7, <1>8 DEF Next

\* The source is asked only when what it has yielded gives the sink nothing more.
LEMMA LazyStep == Inv /\ FlowInv /\ LazyInv /\ [Next]_vars => LazyInv'
<1> SUFFICES ASSUME Inv, FlowInv, LazyInv, [Next]_vars, OnTime', pos' > 0
             PROVE  /\ Len(Needed(pos - 1).items)' <= Len(seen')
                    /\ at' = Top' /\ verdict' = "running" => Len(Needed(pos - 1).items)' < Len(seen')
  BY DEF LazyInv
<1>0. Setup /\ pos \in Nat /\ UNCHANGED setup /\ OnTime /\ ~late
  BY StepGrows DEF Inv, TypeInv, OnTime
<1>1. source' = source /\ chain' = chain /\ other' = other /\ Top' = Top
  BY <1>0, SetupSame
<1>2. PICK m : m = Len(Needed(pos' - 1).items)
  OBVIOUS
<1>3. Len(Needed(pos - 1).items)' = m
  BY <1>1, <1>2 DEF Needed, Part
<1>4. PICK g : Flow(g)
  BY <1>0 DEF FlowInv
<1>5. pos <= Len(source.items) + 1 /\ Len(source.items) \in Nat
  BY <1>0 DEF FlowInv, Setup
<1>6. CASE pos' = pos
  <2>1. m = Len(Needed(pos - 1).items) /\ pos > 0
    BY <1>2, <1>6
  <2>2. m <= Len(seen) /\ (at = Top /\ verdict = "running" => m < Len(seen))
    BY <1>0, <2>1 DEF LazyInv
  <2>3. pos - 1 \in Nat /\ pos - 1 <= Len(source.items)
    BY <1>0, <1>5, <2>1
  <2>4. m \in Nat
    BY <1>0, <2>1, <2>3, NeededTyped
  <2>5. Grew \/ UNCHANGED <<pos, seen, at, verdict>>
    BY <1>0, <1>6, StepGrows
  <2>6. CASE Grew
    <3>1. PICK b, c : b = Len(seen) /\ c = Len(seen')
      OBVIOUS
    <3>2. b \in Nat /\ c \in Nat /\ b <= c /\ m <= b /\ (at' = Top /\ verdict' = "running" => b < c)
      BY <2>2, <2>6, <3>1 DEF Grew
    <3>3. m <= c /\ (at' = Top /\ verdict' = "running" => m < c)
      BY <2>4, <3>2
    <3> QED
      BY <1>1, <1>3, <3>1, <3>3
  <2>7. CASE UNCHANGED <<pos, seen, at, verdict>>
    BY <1>1, <1>3, <2>2, <2>7
  <2> QED
    BY <2>5, <2>6, <2>7
<1>7. CASE pos' # pos
  <2>1. at = 0 /\ pos' = pos + 1 /\ Grew
    BY <1>7, StepGrows
  <2>2. g[Top] = Needed(pos) /\ g[Top].items = seen
    BY <1>0, <1>4, <2>1, FlowAsked DEF Flow, SinkFlow
  <2>3. pos' - 1 = pos
    BY <1>0, <2>1
  <2>4. m = Len(seen)
    BY <1>2, <2>2, <2>3
  <2> QED
    BY <1>1, <1>3, <2>1, <2>4 DEF Grew
<1> QED
  BY <1>6, <1>7

\* What extends is not shorter.
LEMMA ExtendsLen ==
    ASSUME NEW t \in Traces, NEW u \in Traces, Extends(t, u)
    PROVE  Len(t.items) <= Len(u.items) /\ Len(t.items) \in Nat /\ Len(u.items) \in Nat
<1>1. t.items \in Seq(Item) /\ u.items \in Seq(Item)
  BY TraceFacts
<1>2. CASE t = u
  BY <1>1, <1>2
<1>3. CASE t # u
  <2>1. PICK z \in Seq(Item) : u.items = t.items \o z
    BY <1>3 DEF Extends
  <2> QED
    BY <1>1, <2>1
<1> QED
  BY <1>2, <1>3

\* More of the source gives the sink no less.
LEMMA NeededMono ==
    ASSUME Setup, ~late, NEW q \in Nat, NEW r \in Nat, q <= r, r <= Len(source.items)
    PROVE  Len(Needed(q).items) <= Len(Needed(r).items)
<1>1. source.items \in Seq(Item) /\ Len(source.items) \in Nat /\ Len(chain) \in 0..Len(chain)
  BY DEF Setup
<1>2. q <= Len(source.items)
  BY <1>1
<1> DEFINE whole == SubSeq(source.items, 1, r)
<1>3. whole \in Seq(Item) /\ Len(whole) = r /\ SubSeq(whole, 1, q) = SubSeq(source.items, 1, q)
  BY <1>1, <1>2
<1>4. Part(r).items = whole /\ Part(q).items = SubSeq(whole, 1, q) /\ Part(q).fin = "pending"
  <2>1. \A k : Part(k).items = SubSeq(source.items, 1, k) /\ Part(k).fin = "pending"
    BY DEF Part, Trace
  <2> HIDE DEF whole
  <2>2. Part(r).items = whole
    BY <2>1 DEF whole
  <2> QED
    BY <1>3, <2>1, <2>2
<1> HIDE DEF whole
<1>5. whole = SubSeq(whole, 1, q) \o SubSeq(whole, q + 1, Len(whole)) /\ SubSeq(whole, q + 1, Len(whole)) \in Seq(Item)
  BY <1>3, CutAt
<1>6. Extends(Part(q), Part(r))
  BY <1>4, <1>5 DEF Extends
<1>7. /\ Part(q) \in Traces /\ Part(r) \in Traces /\ Needed(q) \in Traces /\ Needed(r) \in Traces
      /\ Needed(q) = LawsOf(chain, Part(q), other)[Len(chain)]
      /\ Needed(r) = LawsOf(chain, Part(r), other)[Len(chain)]
  BY <1>2, NeededTyped
<1>8. Extends(Needed(q), Needed(r))
  BY <1>1, <1>6, <1>7, LawsMono
<1> QED
  BY <1>7, <1>8, ExtendsLen

\* No chain reads ahead: when the sink has its n-th item, the source has yielded no
\* more than that item needed.
THEOREM AlwaysLazy == Spec => []Lazy
<1>1. Inv /\ FlowInv /\ LazyInv => Lazy
  <2> SUFFICES ASSUME Inv, FlowInv, LazyInv, at = Top, OnTime, verdict = "running", seen # <<>>,
                      NEW q \in 0..pos - 1
               PROVE  Len(LawOf(chain, Trace(SubSeq(source.items, 1, q), "pending"), other).items) < Len(seen)
    BY DEF Lazy
  <2>1. Setup /\ pos \in Nat /\ ~late /\ pos <= Len(source.items) + 1 /\ Len(source.items) \in Nat
        /\ Len(seen) \in Nat
    BY DEF Inv, TypeInv, FlowInv, OnTime, Setup
  <2>2. q \in Nat /\ pos - 1 \in Nat /\ q <= pos - 1 /\ pos - 1 <= Len(source.items) /\ pos > 0
        /\ q <= Len(source.items)
    BY <2>1
  <2>3. PICK r : r = pos - 1
    OBVIOUS
  <2>4. Len(Needed(r).items) < Len(seen)
    BY <2>2, <2>3 DEF LazyInv
  <2>5. Len(Needed(q).items) <= Len(Needed(r).items)
    BY <2>1, <2>2, <2>3, NeededMono
  <2>6. Len(Needed(q).items) \in Nat /\ Len(Needed(r).items) \in Nat
    BY <2>1, <2>2, <2>3, NeededTyped
  <2>7. PICK a, b, c : a = Len(Needed(q).items) /\ b = Len(Needed(r).items) /\ c = Len(seen)
    OBVIOUS
  <2>8. a < c
    <3>1. a \in Nat /\ b \in Nat /\ c \in Nat /\ a <= b /\ b < c
      BY <2>1, <2>4, <2>5, <2>6, <2>7
    <3> QED
      BY <3>1
  <2> QED
    BY <2>7, <2>8 DEF Needed, Part
<1>2. Init => Inv /\ FlowInv /\ LazyInv
  <2>1. Init => LazyInv
    BY DEF Init, LazyInv
  <2> QED
    BY <2>1, InvInit, FlowInit
<1>3. (Inv /\ FlowInv /\ LazyInv) /\ [Next]_vars => (Inv /\ FlowInv /\ LazyInv)'
  BY InvStep, FlowStep, LazyStep
<1> QED
  BY <1>1, <1>2, <1>3, PTL DEF Spec

----------------------------------------------------------------------------
(* One timed operator, whatever its timers do: what has come out of it, with   *)
(* what it has yet to yield and what it holds back, is what it was given, and  *)
(* after a timer or an error a prefix of the source.                           *)

Contents(o, s) == [i \in 1..Len(s) |-> Content(o, s[i])]
Owns(o, s)     == [i \in 1..Len(s) |-> Own(o, s[i])]

Due(o, out)  == IF out = <<>> THEN <<>> ELSE Content(o, out[1])
Holds(o, m)  == IF o.is = "grouped_within" THEN FlattenSeq(m) ELSE <<>>
Has(o, d)    == Due(o, d.out) \o IF d.st = "on" THEN Holds(o, d.mem) ELSE <<>>

\* An operator that does d has let s through of the first p items of a source.
Ordered(o, d, s, p, items) ==
    /\ Contents(o, s) \in Seq(Item)
    /\ d.out = <<>> \/ \E x \in Item : d.out = <<x>>
    /\ Due(o, d.out) \in Item
    /\ p <= Len(items) => /\ d.st = "on"
                          /\ FlattenSeq(Contents(o, s)) \o Has(o, d) = FlattenSeq(Owns(o, SubSeq(items, 1, p)))
    /\ \E rest \in Item : FlattenSeq(Contents(o, s)) \o Has(o, d) \o rest = FlattenSeq(Owns(o, items))

\* What a timed operator may come to: one thing to yield at most.
Little(o, d) ==
    /\ d.out = <<>> \/ \E x \in Item : d.out = <<x>>
    /\ Due(o, d.out) \in Item

OrderInv ==
    Len(chain) = 1 /\ chain[1].is \in Timed =>
        Ordered(chain[1], stage[1], seen, pos, source.items)

\* An item's own part is an item,
LEMMA OwnTyped ==
    ASSUME NEW o, NEW x \in Item
    PROVE  Own(o, x) \in Item
<1>1. <<>> \in Item
  BY DEF Item
<1> QED
  BY <1>1 DEF Own

\* and the parts of one more item come after those before.
LEMMA OwnsMore ==
    ASSUME NEW o, NEW s \in Seq(Item)
    PROVE  /\ Owns(o, s) \in Seq(Item) /\ FlattenSeq(Owns(o, s)) \in Item
           /\ \A x \in Item : FlattenSeq(Owns(o, Append(s, x))) = FlattenSeq(Owns(o, s)) \o Own(o, x)
<1>1. Owns(o, s) \in Seq(Item)
  <2>1. \A i \in 1..Len(s) : Own(o, s[i]) \in Item
    BY OwnTyped
  <2> QED
    BY <2>1 DEF Owns
<1>2. FlattenSeq(Owns(o, s)) \in Item
  BY <1>1, FlattenTyped DEF Item
<1>3. ASSUME NEW x \in Item PROVE FlattenSeq(Owns(o, Append(s, x))) = FlattenSeq(Owns(o, s)) \o Own(o, x)
  <2>1. Owns(o, Append(s, x)) = Append(Owns(o, s), Own(o, x))
    BY DEF Owns
  <2>2. Own(o, x) \in Item
    BY OwnTyped
  <2> QED
    BY <1>1, <2>1, <2>2, FlattenAppend DEF Item
<1> QED
  BY <1>1, <1>2, <1>3

\* So the parts of the first items of a source are the beginning of those of all.
LEMMA OwnsBegin ==
    ASSUME NEW o
    PROVE  \A s \in Seq(Item) : \A p \in 0..Len(s) :
              \E rest \in Item : FlattenSeq(Owns(o, SubSeq(s, 1, p))) \o rest = FlattenSeq(Owns(o, s))
<1> DEFINE Begins_(s) == \A p \in 0..Len(s) :
              \E rest \in Item : FlattenSeq(Owns(o, SubSeq(s, 1, p))) \o rest = FlattenSeq(Owns(o, s))
           T == {s \in Seq(Item) : Begins_(s)}
<1>0. ASSUME NEW s \in Seq(Item)
      PROVE  \E rest \in Item : FlattenSeq(Owns(o, SubSeq(s, 1, Len(s)))) \o rest = FlattenSeq(Owns(o, s))
  <2>1. SubSeq(s, 1, Len(s)) = s /\ <<>> \in Item
    BY DEF Item
  <2>2. FlattenSeq(Owns(o, s)) \in Item
    BY OwnsMore
  <2>3. FlattenSeq(Owns(o, s)) \o <<>> = FlattenSeq(Owns(o, s))
    BY <2>2 DEF Item
  <2> QED
    BY <2>1, <2>3
<1>1. <<>> \in T
  <2>1. <<>> \in Seq(Item) /\ Len(<<>>) = 0 /\ 0..0 = {0}
    OBVIOUS
  <2>2. Begins_(<<>>)
    BY <2>1, <1>0
  <2> QED
    BY <2>1, <2>2
<1>2. ASSUME NEW s \in Seq(Item), NEW x \in Item, s \in T PROVE Append(s, x) \in T
  <2>0. Append(s, x) \in Seq(Item)
    OBVIOUS
  <2>1. PICK t \in Seq(Item) : t = Append(s, x)
    BY <2>0
  <2>2. Len(t) = Len(s) + 1 /\ Len(s) \in Nat
    BY <2>1
  <2>3. ASSUME NEW p \in 0..Len(t)
        PROVE  \E rest \in Item : FlattenSeq(Owns(o, SubSeq(t, 1, p))) \o rest = FlattenSeq(Owns(o, t))
    <3>1. CASE p = Len(t)
      BY <1>0, <3>1
    <3>2. CASE p # Len(t)
      <4>1. p \in 0..Len(s) /\ SubSeq(t, 1, p) = SubSeq(s, 1, p) /\ SubSeq(s, 1, p) \in Seq(Item)
        BY <2>1, <2>2, <3>2
      <4>2. PICK rest \in Item : FlattenSeq(Owns(o, SubSeq(s, 1, p))) \o rest = FlattenSeq(Owns(o, s))
        BY <1>2, <4>1
      <4>3. FlattenSeq(Owns(o, t)) = FlattenSeq(Owns(o, s)) \o Own(o, x)
        BY <2>1, OwnsMore
      <4>4. Own(o, x) \in Item /\ FlattenSeq(Owns(o, SubSeq(s, 1, p))) \in Item
        BY <4>1, OwnTyped, OwnsMore
      <4>5. PICK a, b \in Item : a = FlattenSeq(Owns(o, SubSeq(s, 1, p))) /\ b = Own(o, x)
        BY <4>4
      <4>6. (a \o rest) \o b = a \o (rest \o b) /\ rest \o b \in Item
        BY ItemJoin
      <4> QED
        BY <4>1, <4>2, <4>3, <4>5, <4>6
    <3> QED
      BY <3>1, <3>2
  <2> QED
    BY <2>1, <2>3
<1> HIDE DEF T, Begins_
<1>3. \A s \in Seq(Item) : s \in T
  BY <1>1, <1>2, SeqInduct
<1> QED
  BY <1>3 DEF T, Begins_

\* What has come out is flattened item by item.
LEMMA ContentsMore ==
    ASSUME NEW o, NEW s \in Seq(Item), Contents(o, s) \in Seq(Item), NEW x \in Item, Content(o, x) \in Item
    PROVE  /\ Contents(o, Append(s, x)) \in Seq(Item)
           /\ FlattenSeq(Contents(o, Append(s, x))) = FlattenSeq(Contents(o, s)) \o Content(o, x)
           /\ FlattenSeq(Contents(o, s)) \in Item
<1>1. Contents(o, Append(s, x)) = Append(Contents(o, s), Content(o, x))
  BY DEF Contents
<1>2. FlattenSeq(Contents(o, s)) \in Item
  BY FlattenTyped DEF Item
<1> QED
  BY <1>1, <1>2, FlattenAppend DEF Item

\* The content of a batch is what was gathered.
LEMMA BatchContent ==
    ASSUME NEW o, o.is = "grouped_within", NEW b \in Seq(Item)
    PROVE  Content(o, Batch(b)) = FlattenSeq(b) /\ FlattenSeq(b) \in Item /\ Batch(b) \in Item
<1>1. FlattenSeq(b) \in Item
  BY FlattenTyped DEF Item
<1>2. PICK n \in Nat : n = Len(b)
  OBVIOUS
<1>3. PICK f \in Seq(Nat) : f = FlattenSeq(b)
  BY <1>1 DEF Item
<1>4. Tail(<<n>> \o f) = f
  OBVIOUS
<1> QED
  BY <1>1, <1>2, <1>3, <1>4, BatchTyped DEF Content, Batch


\* What a timed operator holds back is an item.
LEMMA HoldsTyped ==
    ASSUME NEW o, NEW m, MemOk(o, m)
    PROVE  Holds(o, m) \in Item /\ (o.is # "grouped_within" => Holds(o, m) = <<>>)
<1>1. <<>> \in Item
  BY DEF Item
<1>2. CASE o.is = "grouped_within"
  <2>1. m \in Seq(Item)
    BY <1>2 DEF MemOk
  <2> QED
    BY <1>2, <2>1, BatchContent DEF Holds
<1> QED
  BY <1>1, <1>2 DEF Holds

\* Nothing held, nothing due.
LEMMA NothingDue ==
    ASSUME NEW o
    PROVE  Due(o, <<>>) = <<>> /\ Holds(o, <<>>) = <<>> /\ <<>> \in Item
<1>1. <<>> \in Item
  BY DEF Item
<1> QED
  BY <1>1, FlattenEmpty DEF Due, Holds

\* With an item a timed operator has more to yield, or holds it.
LEMMA TimedItem ==
    ASSUME NEW o \in Operators, o.is \in Timed, NEW m, MemOk(o, m), NEW x \in Item
    PROVE  LET d == OnItem(o, m, x)
           IN  /\ Little(o, d) /\ d.st = "on"
               /\ Has(o, d) = Holds(o, m) \o Own(o, x)
<1> DEFINE d == OnItem(o, m, x)
<1>0. /\ <<>> \in Item /\ Holds(o, m) \in Item /\ Own(o, x) \in Item /\ Due(o, <<>>) = <<>>
      /\ Holds(o, <<>>) = <<>>
  BY HoldsTyped, OwnTyped, NothingDue
<1>1. CASE o.is # "grouped_within"
  <2>1. d = Emit(<<x>>, m)
    BY <1>1 DEF OnItem, Timed, Calls
  <2>2. d.out = <<x>> /\ d.st = "on" /\ d.mem = m
    BY <2>1 DEF Emit, Does
  <2>3. Due(o, d.out) = Own(o, x)
    BY <1>1, <2>2 DEF Due, Content
  <2>4. Holds(o, m) = <<>> /\ Own(o, x) \o <<>> = Own(o, x) /\ <<>> \o Own(o, x) = Own(o, x)
    BY <1>0, <1>1, HoldsTyped DEF Item
  <2>5. Has(o, d) = Holds(o, m) \o Own(o, x)
    BY <2>2, <2>3, <2>4 DEF Has
  <2>6. Little(o, d)
    BY <1>0, <2>2, <2>3 DEF Little
  <2> QED
    BY <2>2, <2>5, <2>6
<1>2. CASE o.is = "grouped_within"
  <2>1. d = grouped(o, m, x)
    BY <1>2 DEF OnItem, Timed, Calls
  <2>2. m \in Seq(Item) /\ Append(m, x) \in Seq(Item) /\ Own(o, x) = x
    <3>1. m \in Seq(Item)
      BY <1>2 DEF MemOk
    <3>2. Own(o, x) = x
      BY <1>2 DEF Own
    <3> QED
      BY <3>1, <3>2
  <2>3. FlattenSeq(Append(m, x)) = FlattenSeq(m) \o x
    BY <2>2, FlattenAppend DEF Item
  <2>4. FlattenSeq(Append(m, x)) \in Item
    BY <2>2, FlattenTyped DEF Item
  <2>5. CASE Len(m) + 1 = o.n
    <3>1. d = Emit(<<Batch(Append(m, x))>>, <<>>)
      BY <2>1, <2>5 DEF grouped
    <3>2. d.out = <<Batch(Append(m, x))>> /\ d.st = "on" /\ d.mem = <<>>
      BY <3>1 DEF Emit, Does
    <3>3. Content(o, Batch(Append(m, x))) = FlattenSeq(Append(m, x)) /\ Batch(Append(m, x)) \in Item
      BY <1>2, <2>2, BatchContent
    <3>4. Due(o, d.out) = FlattenSeq(Append(m, x))
      BY <3>2, <3>3 DEF Due
    <3>5. FlattenSeq(Append(m, x)) \o <<>> = FlattenSeq(Append(m, x))
      BY <2>4 DEF Item
    <3>6. Has(o, d) = Holds(o, m) \o Own(o, x)
      BY <1>0, <1>2, <2>2, <2>3, <3>2, <3>4, <3>5 DEF Has, Holds
    <3>7. Little(o, d)
      BY <2>4, <3>2, <3>3, <3>4 DEF Little
    <3> QED
      BY <3>2, <3>6, <3>7
  <2>6. CASE Len(m) + 1 # o.n
    <3>1. d = Emit(<<>>, Append(m, x))
      BY <2>1, <2>6 DEF grouped
    <3>2. d.out = <<>> /\ d.st = "on" /\ d.mem = Append(m, x)
      BY <3>1 DEF Emit, Does
    <3>3. <<>> \o FlattenSeq(Append(m, x)) = FlattenSeq(Append(m, x))
      BY <2>4 DEF Item
    <3>4. Has(o, d) = Holds(o, m) \o Own(o, x)
      BY <1>0, <1>2, <2>2, <2>3, <3>2, <3>3 DEF Has, Holds
    <3>5. Little(o, d)
      BY <1>0, <3>2 DEF Little
    <3> QED
      BY <3>2, <3>4, <3>5
  <2> QED
    BY <2>5, <2>6
<1> QED
  BY <1>1, <1>2

\* With its timer it yields what it held,
LEMMA TimedFires ==
    ASSUME NEW o \in Operators, o.is \in Timed, NEW m, MemOk(o, m)
    PROVE  LET d == OnTimeout(o, m) IN Little(o, d) /\ Has(o, d) = Holds(o, m)
<1> DEFINE d == OnTimeout(o, m)
<1>0. <<>> \in Item /\ Due(o, <<>>) = <<>> /\ Holds(o, <<>>) = <<>> /\ <<>> \o <<>> = <<>>
  BY NothingDue
<1>1. CASE o.is = "keep_alive"
  <2>1. d = Emit(<<Element>>, m)
    BY <1>1 DEF OnTimeout
  <2>2. d.out = <<Element>> /\ d.st = "on" /\ d.mem = m
    BY <2>1 DEF Emit, Does
  <2>3. Due(o, d.out) = <<>> /\ Element \in Item
    BY <1>1, <2>2, ItemFacts DEF Due, Content, Own
  <2>4. Holds(o, m) = <<>>
    BY <1>1, HoldsTyped
  <2>5. Little(o, d)
    BY <1>0, <2>2, <2>3 DEF Little
  <2> QED
    BY <1>0, <2>2, <2>3, <2>4, <2>5 DEF Has
<1>2. CASE o.is = "idle_timeout"
  <2>1. d = Does(<<>>, <<>>, "timeout")
    BY <1>2 DEF OnTimeout, Raise
  <2>2. d.out = <<>> /\ d.st = "timeout"
    BY <2>1 DEF Does
  <2>3. Holds(o, m) = <<>>
    BY <1>2, HoldsTyped
  <2>4. Little(o, d)
    BY <1>0, <2>2 DEF Little
  <2> QED
    BY <1>0, <2>2, <2>3, <2>4 DEF Has
<1>3. CASE o.is = "grouped_within"
  <2>0. m \in Seq(Item)
    BY <1>3 DEF MemOk
  <2>1. d = Emit(IF m = <<>> THEN <<>> ELSE <<Batch(m)>>, <<>>)
    BY <1>3 DEF OnTimeout
  <2>2. d.out = (IF m = <<>> THEN <<>> ELSE <<Batch(m)>>) /\ d.st = "on" /\ d.mem = <<>>
    BY <2>1 DEF Emit, Does
  <2>3. CASE m = <<>>
    <3>1. Little(o, d)
      BY <1>0, <2>2, <2>3 DEF Little
    <3> QED
      BY <1>0, <2>2, <2>3, <3>1 DEF Has
  <2>4. CASE m # <<>>
    <3>1. Content(o, Batch(m)) = FlattenSeq(m) /\ FlattenSeq(m) \in Item /\ Batch(m) \in Item
      BY <1>3, <2>0, BatchContent
    <3>2. d.out = <<Batch(m)>> /\ Due(o, d.out) = FlattenSeq(m)
      BY <2>2, <2>4, <3>1 DEF Due
    <3>3. FlattenSeq(m) \o <<>> = FlattenSeq(m)
      BY <3>1 DEF Item
    <3>4. Little(o, d)
      BY <3>1, <3>2 DEF Little
    <3> QED
      BY <1>0, <1>3, <2>2, <3>2, <3>3, <3>4 DEF Has, Holds
  <2> QED
    BY <2>3, <2>4
<1> QED
  BY <1>1, <1>2, <1>3 DEF Timed

\* with the end too, and with an error it yields that or loses it.
LEMMA TimedStops ==
    ASSUME NEW o \in Operators, o.is \in Timed, NEW m, MemOk(o, m), NEW e
    PROVE  LET d == IF e = "end" THEN OnEnd(o, m) ELSE OnError(o, m, e)
           IN  Little(o, d) /\ Has(o, d) \in {<<>>, Holds(o, m)}
<1> DEFINE d == IF e = "end" THEN OnEnd(o, m) ELSE OnError(o, m, e)
<1>0. <<>> \in Item /\ Due(o, <<>>) = <<>> /\ Holds(o, <<>>) = <<>> /\ <<>> \o <<>> = <<>>
  BY NothingDue
<1>1. CASE e = "end" /\ o.is = "grouped_within" /\ m # <<>>
  <2>1. d = Does(<<Batch(m)>>, <<>>, "end")
    BY <1>1 DEF OnEnd
  <2>2. d.out = <<Batch(m)>> /\ d.st = "end"
    BY <2>1 DEF Does
  <2>3. m \in Seq(Item)
    BY <1>1 DEF MemOk
  <2>4. Content(o, Batch(m)) = FlattenSeq(m) /\ FlattenSeq(m) \in Item /\ Batch(m) \in Item
    BY <1>1, <2>3, BatchContent
  <2>5. Due(o, d.out) = FlattenSeq(m)
    BY <2>2, <2>4 DEF Due
  <2>6. FlattenSeq(m) \o <<>> = FlattenSeq(m)
    BY <2>4 DEF Item
  <2>7. Little(o, d)
    BY <2>2, <2>4, <2>5 DEF Little
  <2> QED
    BY <1>1, <2>2, <2>5, <2>6, <2>7 DEF Has, Holds
<1>2. CASE e = "timeout"
  <2>1. d = OnTimeout(o, m)
    BY <1>2 DEF OnError, Timed
  <2> QED
    BY <2>1, TimedFires
<1>3. CASE e # "timeout" /\ ~(e = "end" /\ o.is = "grouped_within" /\ m # <<>>)
  <2>1. d.out = <<>> /\ (d.st # "on" \/ d.mem = <<>>)
    <3>1. CASE e = "end"
      <4>1. d = Does(<<>>, m, "end")
        BY <1>3, <3>1 DEF OnEnd, Timed
      <4> QED
        BY <3>1, <4>1 DEF Does
    <3>2. CASE e # "end"
      <4>1. d = Does(<<>>, <<>>, e)
        BY <1>3, <3>2 DEF OnError, Timed, Raise
      <4> QED
        BY <4>1 DEF Does
    <3> QED
      BY <3>1, <3>2
  <2>2. Little(o, d)
    BY <1>0, <2>1 DEF Little
  <2> HIDE DEF d
  <2>3. Has(o, d) = <<>>
    BY <1>0, <2>1 DEF Has
  <2> QED
    BY <2>2, <2>3 DEF d
<1> QED
  BY <1>1, <1>2, <1>3

\* What a state of such an operator lets one conclude.
LEMMA OrderedIs ==
    ASSUME NEW o, NEW d, NEW s \in Seq(Item), NEW p \in Nat, NEW items \in Seq(Item), MemOk(o, d.mem) \/ d.st # "on",
           Ordered(o, d, s, p, items)
    PROVE  FlattenSeq(Contents(o, s)) \in Item /\ Has(o, d) \in Item /\ Due(o, d.out) \in Item
<1>1. FlattenSeq(Contents(o, s)) \in Item
  BY FlattenTyped DEF Ordered, Item
<1>2. Due(o, d.out) \in Item
  BY DEF Ordered
<1>3. (IF d.st = "on" THEN Holds(o, d.mem) ELSE <<>>) \in Item
  BY HoldsTyped, NothingDue
<1>4. Has(o, d) \in Item
  BY <1>2, <1>3, ItemFacts DEF Has
<1> QED
  BY <1>1, <1>2, <1>4

\* It takes the next item of its source,
LEMMA OrderedTakes ==
    ASSUME NEW o \in Operators, o.is \in Timed, NEW d, NEW s \in Seq(Item), NEW p \in Nat,
           NEW items \in Seq(Item), Ordered(o, d, s, p, items), p < Len(items), d.out = <<>>,
           MemOk(o, d.mem)
    PROVE  Ordered(o, OnItem(o, d.mem, items[p + 1]), s, p + 1, items)
<1>1. PICK x \in Item : x = items[p + 1]
  <2>1. p + 1 \in 1..Len(items)
    OBVIOUS
  <2> QED
    BY <2>1
<1>2. PICK n : n = OnItem(o, d.mem, x)
  OBVIOUS
<1>3. Little(o, n) /\ n.st = "on" /\ Has(o, n) = Holds(o, d.mem) \o Own(o, x)
  BY <1>2, TimedItem
<1>4. d.st = "on" /\ FlattenSeq(Contents(o, s)) \o Has(o, d) = FlattenSeq(Owns(o, SubSeq(items, 1, p)))
  BY DEF Ordered
<1>5. Has(o, d) = Holds(o, d.mem) /\ Holds(o, d.mem) \in Item
  <2>1. Due(o, d.out) = <<>> /\ Holds(o, d.mem) \in Item
    BY HoldsTyped, NothingDue
  <2>2. <<>> \o Holds(o, d.mem) = Holds(o, d.mem)
    BY <2>1 DEF Item
  <2> QED
    BY <1>4, <2>1, <2>2 DEF Has
<1>6. SubSeq(items, 1, p + 1) = Append(SubSeq(items, 1, p), x) /\ SubSeq(items, 1, p) \in Seq(Item)
  BY <1>1
<1>7. FlattenSeq(Contents(o, s)) \o Has(o, n) = FlattenSeq(Owns(o, SubSeq(items, 1, p + 1)))
  <2>1. FlattenSeq(Contents(o, s)) \in Item /\ Own(o, x) \in Item
    BY OrderedIs, OwnTyped
  <2>2. FlattenSeq(Owns(o, SubSeq(items, 1, p + 1))) = FlattenSeq(Owns(o, SubSeq(items, 1, p))) \o Own(o, x)
    BY <1>6, OwnsMore
  <2>3. PICK a, b, c \in Item :
              a = FlattenSeq(Contents(o, s)) /\ b = Holds(o, d.mem) /\ c = Own(o, x)
    BY <1>5, <2>1
  <2>4. a \o (b \o c) = (a \o b) \o c
    BY ItemRegroup
  <2> QED
    BY <1>3, <1>4, <1>5, <2>2, <2>3, <2>4
<1>8. \E rest \in Item : FlattenSeq(Contents(o, s)) \o Has(o, n) \o rest = FlattenSeq(Owns(o, items))
  <2>1. p + 1 \in 0..Len(items)
    OBVIOUS
  <2> QED
    BY <1>7, <2>1, OwnsBegin
<1> QED
  BY <1>1, <1>2, <1>3, <1>7, <1>8 DEF Ordered, Little

\* is stopped or fires its timer, after which nothing comes from its source,
LEMMA OrderedStops ==
    ASSUME NEW o, NEW d, NEW s \in Seq(Item), NEW p \in Nat, NEW items \in Seq(Item),
           Ordered(o, d, s, p, items), d.out = <<>>, d.st = "on", MemOk(o, d.mem),
           NEW n, Little(o, n), Has(o, n) \in {<<>>, Holds(o, d.mem)},
           NEW q \in Nat, q > Len(items)
    PROVE  Ordered(o, n, s, q, items)
<1>1. Has(o, d) = Holds(o, d.mem) /\ Holds(o, d.mem) \in Item
  <2>1. Due(o, d.out) = <<>> /\ Holds(o, d.mem) \in Item
    BY HoldsTyped, NothingDue
  <2>2. <<>> \o Holds(o, d.mem) = Holds(o, d.mem)
    BY <2>1 DEF Item
  <2> QED
    BY <2>1, <2>2 DEF Has
<1>2. PICK rest \in Item : FlattenSeq(Contents(o, s)) \o Has(o, d) \o rest = FlattenSeq(Owns(o, items))
  BY DEF Ordered
<1>3. PICK a, b \in Item : a = FlattenSeq(Contents(o, s)) /\ b = Holds(o, d.mem)
  BY <1>1, OrderedIs
<1>4. \E r \in Item : a \o Has(o, n) \o r = FlattenSeq(Owns(o, items))
  <2>1. CASE Has(o, n) = Holds(o, d.mem)
    BY <1>1, <1>2, <1>3, <2>1
  <2>2. CASE Has(o, n) = <<>>
    <3>1. a \o <<>> = a
      BY DEF Item
    <3>2. (a \o b) \o rest = a \o (b \o rest) /\ b \o rest \in Item
      BY ItemJoin
    <3> QED
      BY <1>1, <1>2, <1>3, <2>2, <3>1, <3>2
  <2> QED
    BY <2>1, <2>2
<1>5. ~(q <= Len(items))
  OBVIOUS
<1> QED
  BY <1>3, <1>4, <1>5 DEF Ordered, Little

\* yields,
LEMMA OrderedYields ==
    ASSUME NEW o, NEW d, NEW s \in Seq(Item), NEW p \in Nat, NEW items \in Seq(Item),
           Ordered(o, d, s, p, items), d.out # <<>>, MemOk(o, d.mem) \/ d.st # "on",
           NEW n, n.out = Tail(d.out), n.st = d.st, n.mem = d.mem
    PROVE  Head(d.out) \in Item /\ Ordered(o, n, Append(s, Head(d.out)), p, items)
<1>1. PICK x \in Item : d.out = <<x>>
  BY DEF Ordered
<1>2. Head(d.out) = x /\ n.out = <<>> /\ Due(o, d.out) = Content(o, x)
  BY <1>1 DEF Due
<1>3. Content(o, x) \in Item /\ Contents(o, s) \in Seq(Item)
  BY <1>2 DEF Ordered
<1>4. PICK h \in Item : h = IF d.st = "on" THEN Holds(o, d.mem) ELSE <<>>
  BY HoldsTyped, NothingDue
<1>5. Has(o, n) = h /\ Has(o, d) = Content(o, x) \o h
  <2>1. Due(o, n.out) = <<>> /\ <<>> \o h = h
    BY <1>2, NothingDue DEF Item
  <2> QED
    BY <1>2, <1>4, <2>1 DEF Has
<1>6. /\ Contents(o, Append(s, x)) \in Seq(Item)
      /\ FlattenSeq(Contents(o, Append(s, x))) = FlattenSeq(Contents(o, s)) \o Content(o, x)
      /\ FlattenSeq(Contents(o, s)) \in Item
  BY <1>3, ContentsMore
<1>7. FlattenSeq(Contents(o, Append(s, x))) \o Has(o, n) = FlattenSeq(Contents(o, s)) \o Has(o, d)
  <2>1. PICK a, b \in Item : a = FlattenSeq(Contents(o, s)) /\ b = Content(o, x)
    BY <1>3, <1>6
  <2>2. a \o (b \o h) = (a \o b) \o h
    BY ItemRegroup
  <2> QED
    BY <1>5, <1>6, <2>1, <2>2
<1>8. Due(o, n.out) \in Item /\ n.out = <<>>
  BY <1>2, NothingDue
<1> QED
  BY <1>2, <1>6, <1>7, <1>8 DEF Ordered

\* and ends.
LEMMA OrderedEnds ==
    ASSUME NEW o, NEW d, NEW s \in Seq(Item), NEW p \in Nat, NEW items \in Seq(Item),
           Ordered(o, d, s, p, items), d.st # "on", NEW n, n.out = d.out, n.st # "on"
    PROVE  Ordered(o, n, s, p, items)
<1>1. Has(o, n) = Has(o, d)
  BY DEF Has
<1> QED
  BY <1>1 DEF Ordered

\* Initially nothing has come,
LEMMA OrderInit == Init => OrderInv
<1> SUFFICES ASSUME Init, Len(chain) = 1, chain[1].is \in Timed
             PROVE  Ordered(chain[1], stage[1], seen, pos, source.items)
  BY DEF OrderInv
<1> DEFINE o == chain[1]
<1>1. /\ seen = <<>> /\ pos = 0 /\ stage[1] = Fresh(o) /\ Setup /\ 1 \in DOMAIN chain /\ o \in Operators
  <2>1. Setup
    BY InvInit DEF Inv, TypeInv
  <2>2. 1 \in DOMAIN chain
    BY <2>1, ChainFacts DEF Top
  <2> QED
    BY <2>1, <2>2, ChainFacts DEF Init
<1>2. stage[1].out = <<>> /\ stage[1].st = "on" /\ Holds(o, stage[1].mem) = <<>>
  <2>1. o.is # "grouped_within" => Holds(o, stage[1].mem) = <<>>
    BY DEF Holds
  <2>2. stage[1].out = <<>> /\ stage[1].st = "on" /\ (o.is = "grouped_within" => stage[1].mem = <<>>)
    BY <1>1 DEF Fresh, Emit, Does, Timed
  <2> QED
    BY <2>1, <2>2, NothingDue
<1>3. Due(o, <<>>) = <<>> /\ <<>> \o <<>> = <<>> /\ <<>> \in Item
  BY NothingDue
<1>4. Has(o, stage[1]) = <<>>
  BY <1>2, <1>3 DEF Has
<1>5. Contents(o, <<>>) = <<>> /\ Owns(o, <<>>) = <<>> /\ <<>> \in Seq(Item)
  BY DEF Contents, Owns
<1>6. source.items \in Seq(Item) /\ SubSeq(source.items, 1, 0) = <<>> /\ 0 \in 0..Len(source.items)
  BY <1>1 DEF Setup
<1>7. FlattenSeq(Contents(o, seen)) \o Has(o, stage[1]) = FlattenSeq(Owns(o, SubSeq(source.items, 1, 0)))
  BY <1>1, <1>3, <1>4, <1>5, <1>6, FlattenEmpty
<1>8. \E rest \in Item : FlattenSeq(Contents(o, seen)) \o Has(o, stage[1]) \o rest = FlattenSeq(Owns(o, source.items))
  BY <1>6, <1>7, OwnsBegin
<1> QED
  BY <1>1, <1>2, <1>3, <1>5, <1>7, <1>8 DEF Ordered

\* and every step keeps the order.
LEMMA OrderStep == Inv /\ OrderInv /\ [Next]_vars => OrderInv'
<1> SUFFICES ASSUME Inv, OrderInv, [Next]_vars, (Len(chain) = 1 /\ chain[1].is \in Timed)'
             PROVE  Ordered(chain[1], stage[1], seen, pos, source.items)'
  BY DEF OrderInv
<1>0. /\ Setup /\ at \in 0..Top /\ WaitInv /\ seen \in Seq(Item) /\ pos \in Nat
      /\ stage = [k \in DOMAIN chain |-> stage[k]] /\ source.items \in Seq(Item)
      /\ \A k \in DOMAIN chain : Doing(chain[k], stage[k])
  BY DEF Inv, TypeInv, Setup
<1>1. UNCHANGED <<chain, source>>
  BY DEF Next, Ask, Yields, Finishes, Deliver, Timeout, Deadline, setup, vars
<1>2. PICK o : o = chain[1]
  OBVIOUS
<1>3. PICK d : d = stage[1]
  OBVIOUS
<1>4. Len(chain) = 1 /\ o.is \in Timed /\ Top = 2 /\ DOMAIN chain = {1} /\ o \in Operators
  BY <1>0, <1>1, <1>2, ChainFacts DEF Top
<1>5. Ordered(o, d, seen, pos, source.items)
  BY <1>2, <1>3, <1>4 DEF OrderInv
<1>6. (MemOk(o, d.mem) \/ d.st # "on") /\ (d.st = "on" => MemOk(o, d.mem))
  BY <1>0, <1>2, <1>3, <1>4 DEF Doing
<1>7. SUFFICES Ordered(o, stage'[1], seen', pos', source.items)
  BY <1>1, <1>2
<1>8. CASE UNCHANGED <<stage, seen, pos>>
  BY <1>3, <1>5, <1>8
<1>9. CASE Yields
  <2>1. at = 1 /\ d.out # <<>> /\ at + 1 = Top /\ 1 \in DOMAIN stage
    BY <1>0, <1>3, <1>4, <1>9 DEF Yields
  <2>2. /\ stage' = [stage EXCEPT ![1].out = Tail(@)] /\ pos' = pos
        /\ seen' = Append(seen, Head(d.out))
    BY <1>3, <1>9, <2>1 DEF Yields, GiveItem, SinkItem
  <2>3. stage'[1].out = Tail(d.out) /\ stage'[1].st = d.st /\ stage'[1].mem = d.mem
    BY <1>0, <1>3, <1>4, <2>1, <2>2 DEF Doing, Does
  <2> QED
    BY <1>0, <1>5, <1>6, <2>1, <2>2, <2>3, OrderedYields
<1>10. CASE Finishes
  <2>1. at = 1 /\ d.st # "on" /\ at + 1 = Top /\ 1 \in DOMAIN stage
    BY <1>0, <1>3, <1>4, <1>10 DEF Finishes
  <2>2. /\ stage' = [stage EXCEPT ![1].st = "end"] /\ pos' = pos /\ seen' = seen
    BY <1>3, <1>10, <2>1 DEF Finishes, GiveFinal, SinkEnds
  <2>3. stage'[1].out = d.out /\ stage'[1].st = "end"
    BY <1>0, <1>3, <1>4, <2>1, <2>2 DEF Doing, Does
  <2> QED
    BY <1>0, <1>5, <2>1, <2>2, <2>3, OrderedEnds
<1>11. CASE Deliver
  <2>1. at = 0 /\ pos' = pos + 1 /\ 1 # Top /\ 1 \in DOMAIN stage /\ 1 \in 1..Top /\ Len(source.items) \in Nat
    BY <1>0, <1>4, <1>11 DEF Deliver
  <2>2. d.st = "on" /\ d.out = <<>> /\ MemOk(o, d.mem)
    <3>1. Waits(1)
      BY <1>0, <2>1 DEF WaitInv
    <3> QED
      BY <1>3, <1>6, <2>1, <3>1 DEF Waits
  <2>3. CASE pos < Len(source.items)
    <3>1. stage' = [stage EXCEPT ![1] = OnItem(o, d.mem, source.items[pos + 1])] /\ seen' = seen
      BY <1>2, <1>3, <1>11, <2>1, <2>3 DEF Deliver, GiveItem
    <3> QED
      BY <1>0, <1>4, <1>5, <2>1, <2>2, <2>3, <3>1, OrderedTakes
  <2>4. CASE ~(pos < Len(source.items))
    <3>1. PICK e : e = IF pos = Len(source.items) THEN source.fin ELSE "end"
      OBVIOUS
    <3>2. GiveFinal(stage, 1, e)
      BY <1>11, <2>4, <3>1 DEF Deliver
    <3>3. PICK n : n = IF e = "end" THEN OnEnd(o, d.mem) ELSE OnError(o, d.mem, e)
      OBVIOUS
    <3>4. stage' = [stage EXCEPT ![1] = n] /\ seen' = seen
      BY <1>2, <1>3, <2>1, <3>2, <3>3 DEF GiveFinal
    <3>5. Little(o, n) /\ Has(o, n) \in {<<>>, Holds(o, d.mem)}
      BY <1>4, <2>2, <3>3, TimedStops
    <3>6. stage'[1] = n /\ pos' \in Nat /\ pos' > Len(source.items)
      BY <1>0, <2>1, <2>4, <3>4
    <3> QED
      BY <1>0, <1>5, <2>2, <3>4, <3>5, <3>6, OrderedStops
  <2> QED
    BY <2>3, <2>4
<1>12. ASSUME NEW k \in DOMAIN chain, Timeout(k) PROVE Ordered(o, stage'[1], seen', pos', source.items)
  <2>1. k = 1 /\ at = 0 /\ seen' = seen /\ Len(source.items) \in Nat /\ 1 \in DOMAIN stage
    BY <1>0, <1>4, <1>12 DEF Timeout
  <2>2. d.st = "on" /\ d.out = <<>> /\ MemOk(o, d.mem)
    BY <1>0, <1>3, <1>4, <1>6, <2>1 DEF WaitInv, Waits
  <2>3. pos' = Len(source.items) + 1 /\ stage' = [Killed(1) EXCEPT ![1] = OnTimeout(o, @.mem)]
    BY <1>2, <1>12, <2>1 DEF Timeout
  <2>4. Killed(1) = [j \in DOMAIN chain |-> stage[j]]
    BY <1>4, <2>1 DEF Killed
  <2>5. stage'[1] = OnTimeout(o, d.mem)
    BY <1>3, <1>4, <2>3, <2>4
  <2>6. Little(o, stage'[1]) /\ Has(o, stage'[1]) = Holds(o, d.mem)
    BY <1>4, <2>2, <2>5, TimedFires
  <2>7. pos' \in Nat /\ pos' > Len(source.items)
    BY <2>1, <2>3
  <2> QED
    BY <1>0, <1>5, <2>1, <2>2, <2>6, <2>7, OrderedStops
<1>13. CASE Ask \/ Deadline \/ UNCHANGED vars
  BY <1>8, <1>13 DEF Ask, Deadline, vars
<1> QED
  BY <1>9, <1>10, <1>11, <1>12, <1>13 DEF Next

\* What a timed operator lets through is a prefix of the source in order, with
\* nothing twice, whatever its timer does, of any source.
THEOREM TimeoutAlwaysKeepsOrder == Spec => []TimeoutKeepsOrder
<1>1. Inv /\ OrderInv => TimeoutKeepsOrder
  <2> SUFFICES ASSUME Inv, OrderInv, Len(chain) = 1, chain[1].is \in Timed
               PROVE  IsPrefix(FlattenSeq(Contents(chain[1], seen)), FlattenSeq(Owns(chain[1], source.items)))
    BY Zenon DEF TimeoutKeepsOrder, Contents, Owns
  <2>1. PICK o, d : o = chain[1] /\ d = stage[1]
    OBVIOUS
  <2>2. Ordered(o, d, seen, pos, source.items)
    BY <2>1 DEF OrderInv
  <2>3. seen \in Seq(Item) /\ pos \in Nat /\ source.items \in Seq(Item) /\ Setup /\ \A k \in DOMAIN chain : Doing(chain[k], stage[k])
    BY DEF Inv, TypeInv, Setup
  <2>4. MemOk(o, d.mem) \/ d.st # "on"
    <3>1. 1 \in DOMAIN chain
      BY <2>3, ChainFacts DEF Top
    <3> QED
      BY <2>1, <2>3, <3>1 DEF Doing
  <2>5. PICK rest \in Item : FlattenSeq(Contents(o, seen)) \o Has(o, d) \o rest = FlattenSeq(Owns(o, source.items))
    BY <2>2 DEF Ordered
  <2>6. PICK a, b \in Item : a = FlattenSeq(Contents(o, seen)) /\ b = Has(o, d)
    BY <2>2, <2>3, <2>4, OrderedIs
  <2>7. PICK r \in Item : a \o r = FlattenSeq(Owns(o, source.items))
    <3>1. (a \o b) \o rest = a \o (b \o rest) /\ b \o rest \in Item
      BY ItemJoin
    <3> QED
      BY <2>5, <2>6, <3>1
  <2>8. Len(a) <= Len(a \o r) /\ SubSeq(a, 1, Len(a)) = SubSeq(a \o r, 1, Len(a))
    BY DEF Item
  <2> QED
    BY <2>1, <2>6, <2>7, <2>8 DEF IsPrefix
<1>2. Init => Inv /\ OrderInv
  BY InvInit, OrderInit
<1>3. (Inv /\ OrderInv) /\ [Next]_vars => (Inv /\ OrderInv)'
  BY InvStep, OrderStep
<1> QED
  BY <1>1, <1>2, <1>3, PTL DEF Spec


=============================================================================
