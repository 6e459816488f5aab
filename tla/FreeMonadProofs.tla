-------------------------- MODULE FreeMonadProofs --------------------------
(* Proofs about FreeMonad, for programs of any continuations up to any bound   *)
(* on a path, any values, any answers, and any workflows and runners.          *)
EXTENDS FreeMonad, WellFoundedInduction, SequenceTheorems, TLAPS

USE Bounded

----------------------------------------------------------------------------
(* Induction over numbers, with sets for predicates.                          *)

\* A set of numbers has a least one.
LEMMA NatMin ==
    ASSUME NEW T, T \subseteq Nat, T # {}
    PROVE  \E m \in T : \A k \in T : m <= k
<1> DEFINE R == {ss \in Nat \X Nat : ss[1] < ss[2]}
<1>1. IsWellFoundedOn(R, Nat)
  BY NatLessThanWellFounded DEF OpToRel
<1> HIDE DEF R
<1>2. PICK x \in T : \A y \in T : ~ (<<y, x>> \in R)
  BY <1>1, WFMin
<1>3. ASSUME NEW y \in T, y < x PROVE FALSE
  BY <1>2, <1>3 DEF R
<1> QED
  BY <1>3

\* A set with 0 that is closed under successor has every number.
LEMMA NatInduct ==
    ASSUME NEW T, 0 \in T, \A n \in Nat : n \in T => n + 1 \in T
    PROVE  \A n \in Nat : n \in T
<1> DEFINE W == {n \in Nat : n \notin T}
<1>1. ASSUME W # {} PROVE FALSE
  <2>1. PICK m \in W : \A k \in W : m <= k
    <3>1. W \subseteq Nat
      OBVIOUS
    <3> QED
      BY <1>1, <3>1, NatMin
  <2>2. m \in Nat /\ m # 0 /\ m \notin T
    BY <2>1
  <2>3. m - 1 \in Nat /\ ~(m <= m - 1) /\ (m - 1) + 1 = m
    BY <2>2
  <2>4. m - 1 \notin W
    BY <2>1, <2>3
  <2>5. m - 1 \in T
    BY <2>3, <2>4
  <2> QED
    BY <2>2, <2>3, <2>5
<1> QED
  BY <1>1

\* A set that has every number below which it has every number has them all.
LEMMA NatStrong ==
    ASSUME NEW T, \A n \in Nat : (\A m \in 0..(n - 1) : m \in T) => n \in T
    PROVE  \A n \in Nat : n \in T
<1> DEFINE W == {n \in Nat : n \notin T}
<1>1. ASSUME W # {} PROVE FALSE
  <2>1. PICK m \in W : \A k \in W : m <= k
    <3>1. W \subseteq Nat
      OBVIOUS
    <3> QED
      BY <1>1, <3>1, NatMin
  <2>2. \A k \in 0..(m - 1) : k \in T
    BY <2>1
  <2> QED
    BY <2>1, <2>2
<1> QED
  BY <1>1

----------------------------------------------------------------------------
(* The terms of each size.                                                    *)

\* What Terms[n] is made of, from the smaller terms f.
Level(f, n) ==
    IF n = 0 THEN Leaves
    ELSE Leaves \cup
         {t \in [is : {"flatMap"}, thunk : f[n - 1], f : [Values -> f[n - 1]]] :
             \E i \in 0..(n - 1) : t.thunk \in f[i] /\ t.f \in [Values -> f[n - 1 - i]]}

\* f is Terms as far as n.
Levels(f, n) == f = [m \in 0..n |-> Level(f, m)]

\* A level depends on the levels below it.
LEMMA LevelLocal ==
    ASSUME NEW n \in Nat, NEW f, NEW g, \A i \in 0..(n - 1) : f[i] = g[i]
    PROVE  Level(f, n) = Level(g, n)
<1>1. CASE n = 0
  BY <1>1 DEF Level
<1>2. CASE n # 0
  <2>1. n - 1 \in 0..(n - 1) /\ f[n - 1] = g[n - 1]
    BY <1>2
  <2>2. ASSUME NEW i \in 0..(n - 1)
        PROVE  f[i] = g[i] /\ f[n - 1 - i] = g[n - 1 - i]
    <3>1. n - 1 - i \in 0..(n - 1)
      BY <1>2
    <3> QED
      BY <3>1
  <2> DEFINE C == [is : {"flatMap"}, thunk : f[n - 1], f : [Values -> f[n - 1]]]
             P(t) == \E i \in 0..(n - 1) : t.thunk \in f[i] /\ t.f \in [Values -> f[n - 1 - i]]
             Q(t) == \E i \in 0..(n - 1) : t.thunk \in g[i] /\ t.f \in [Values -> g[n - 1 - i]]
  <2>3. \A t : P(t) <=> Q(t)
    BY <2>2
  <2>4. C = [is : {"flatMap"}, thunk : g[n - 1], f : [Values -> g[n - 1]]]
    BY <2>1
  <2>5. Level(f, n) = Leaves \cup {t \in C : P(t)}
    BY <1>2 DEF Level
  <2>6. Level(g, n) = Leaves \cup {t \in C : Q(t)}
    BY <1>2, <2>4 DEF Level
  <2> HIDE DEF C, P, Q
  <2> QED
    BY <2>3, <2>5, <2>6
<1> QED
  BY <1>1, <1>2

\* The levels as far as n agree with those as far as any other number.
LEMMA LevelsAgree ==
    ASSUME NEW n \in Nat, NEW m \in Nat, NEW f, NEW g, Levels(f, n), Levels(g, m)
    PROVE  \A k \in Nat : k <= n /\ k <= m => f[k] = g[k]
<1> DEFINE T == {k \in Nat : k <= n /\ k <= m => f[k] = g[k]}
<1>1. ASSUME NEW k \in Nat, \A j \in 0..(k - 1) : j \in T PROVE k \in T
  <2>1. SUFFICES ASSUME k <= n, k <= m PROVE f[k] = g[k]
    OBVIOUS
  <2>2. \A j \in 0..(k - 1) : f[j] = g[j]
    BY <1>1, <2>1
  <2>3. Level(f, k) = Level(g, k)
    BY <2>2, LevelLocal
  <2>4. f[k] = Level(f, k)
    <3>1. f = [i \in 0..n |-> Level(f, i)] /\ k \in 0..n
      BY <2>1 DEF Levels
    <3> QED
      BY <3>1
  <2>5. g[k] = Level(g, k)
    <3>1. g = [i \in 0..m |-> Level(g, i)] /\ k \in 0..m
      BY <2>1 DEF Levels
    <3> QED
      BY <3>1
  <2> QED
    BY <2>3, <2>4, <2>5
<1> HIDE DEF T
<1>2. \A k \in Nat : k \in T
  BY <1>1, NatStrong
<1> QED
  BY <1>2 DEF T

\* There are levels as far as any number.
LEMMA LevelsExist == \A n \in Nat : \E f : Levels(f, n)
<1> DEFINE T == {n \in Nat : \E f : Levels(f, n)}
<1>1. 0 \in T
  <2> DEFINE h == [m \in 0..0 |-> Leaves]
  <2>1. \A m \in 0..0 : m = 0 /\ Level(h, m) = Leaves
    BY DEF Level
  <2>2. h = [m \in 0..0 |-> Level(h, m)]
    BY <2>1
  <2>3. Levels(h, 0)
    BY <2>2 DEF Levels
  <2> QED
    BY <2>3
<1>2. ASSUME NEW n \in Nat, n \in T PROVE n + 1 \in T
  <2>1. PICK f : Levels(f, n)
    BY <1>2
  <2>2. f = [m \in 0..n |-> Level(f, m)]
    BY <2>1 DEF Levels
  <2> DEFINE h == [m \in 0..(n + 1) |-> IF m <= n THEN f[m] ELSE Level(f, n + 1)]
  <2>3. \A m \in 0..n : h[m] = f[m]
    OBVIOUS
  <2>4. h[n + 1] = Level(f, n + 1)
    OBVIOUS
  <2> DEFINE e(m) == h[m]
  <2>5. h = [m \in 0..(n + 1) |-> h[m]]
    OBVIOUS
  <2> HIDE DEF h
  <2>6. ASSUME NEW m \in 0..(n + 1) PROVE h[m] = Level(h, m)
    <3>1. \A i \in 0..(m - 1) : f[i] = h[i]
      BY <2>3
    <3>2. Level(f, m) = Level(h, m)
      BY <3>1, LevelLocal
    <3>3. CASE m <= n
      BY <2>2, <2>3, <3>2, <3>3
    <3>4. CASE m = n + 1
      BY <2>4, <3>2, <3>4
    <3> QED
      BY <3>3, <3>4
  <2>7. h = [m \in 0..(n + 1) |-> Level(h, m)]
    BY <2>5, <2>6
  <2>8. Levels(h, n + 1)
    BY <2>7 DEF Levels
  <2> QED
    BY <2>8
<1> HIDE DEF T
<1>3. \A n \in Nat : n \in T
  BY <1>1, <1>2, NatInduct
<1> QED
  BY <1>3 DEF T

\* Terms is what its definition says.
LEMMA TermsAre == Terms = [n \in Nat |-> Level(Terms, n)]
<1> DEFINE L(n) == CHOOSE f : Levels(f, n)
           T == [n \in Nat |-> L(n)[n]]
<1>1. ASSUME NEW n \in Nat PROVE Levels(L(n), n)
  BY LevelsExist
<1> HIDE DEF L
<1>2. T = [n \in Nat |-> T[n]]
  OBVIOUS
<1>3. ASSUME NEW n \in Nat PROVE T[n] = Level(T, n)
  <2>1. L(n) = [m \in 0..n |-> Level(L(n), m)]
    BY <1>1 DEF Levels
  <2>2. L(n)[n] = Level(L(n), n)
    BY <2>1
  <2>3. ASSUME NEW i \in 0..(n - 1) PROVE T[i] = L(n)[i]
    <3>1. i \in Nat /\ i <= n /\ i <= i
      OBVIOUS
    <3>2. Levels(L(i), i) /\ Levels(L(n), n)
      BY <1>1, <3>1
    <3> HIDE DEF T
    <3>3. L(i)[i] = L(n)[i]
      BY <3>1, <3>2, LevelsAgree
    <3> QED
      BY <3>1, <3>3 DEF T
  <2>4. Level(T, n) = Level(L(n), n)
    <3> HIDE DEF T
    <3> QED
      BY <2>3, LevelLocal
  <2> QED
    BY <2>2, <2>4
<1> HIDE DEF T
<1>4. T = [n \in Nat |-> Level(T, n)]
  BY <1>2, <1>3
<1>5. Terms = CHOOSE f : f = [n \in Nat |-> Level(f, n)]
  BY Zenon DEF Terms, Level
<1> QED
  BY <1>4, <1>5, Zenon

\* A term is a leaf, or it binds a smaller thunk to a smaller continuation.
LEMMA TermCases ==
    ASSUME NEW n \in Nat, NEW t \in Terms[n]
    PROVE  \/ t \in Leaves
           \/ \E i \in 0..(n - 1) : \E u \in Terms[i], f \in [Values -> Terms[n - 1 - i]] :
                  t = FlatMap(u, f)
<1>1. Terms[n] = Level(Terms, n)
  BY TermsAre
<1>2. CASE n = 0
  BY <1>1, <1>2 DEF Level
<1>3. CASE n # 0 /\ t \notin Leaves
  <2>1. /\ t \in [is : {"flatMap"}, thunk : Terms[n - 1], f : [Values -> Terms[n - 1]]]
        /\ \E i \in 0..(n - 1) : t.thunk \in Terms[i] /\ t.f \in [Values -> Terms[n - 1 - i]]
    BY <1>1, <1>3 DEF Level
  <2>2. t = FlatMap(t.thunk, t.f)
    BY <2>1 DEF FlatMap
  <2> QED
    BY <2>1, <2>2
<1> QED
  BY <1>2, <1>3

\* The leaves are terms of every size.
LEMMA LeafTerm ==
    ASSUME NEW n \in Nat PROVE Leaves \subseteq Terms[n]
<1>1. Terms[n] = Level(Terms, n)
  BY TermsAre
<1> QED
  BY <1>1 DEF Level

\* A term of a size is one of any larger size.
LEMMA TermsGrow ==
    ASSUME NEW m \in Nat, NEW n \in Nat, m <= n
    PROVE  Terms[m] \subseteq Terms[n]
<1> DEFINE T == {k \in Nat : \A j \in 0..k : Terms[j] \subseteq Terms[k]}
<1>1. ASSUME NEW k \in Nat, \A l \in 0..(k - 1) : l \in T PROVE k \in T
  <2>1. ASSUME NEW j \in 0..k, j # k, NEW t \in Terms[j] PROVE t \in Terms[k]
    <3>1. k # 0 /\ k - 1 \in 0..(k - 1) /\ j \in 0..(k - 1) /\ j \in Nat
      BY <2>1
    <3>2. CASE t \in Leaves
      BY <3>2, LeafTerm
    <3>3. CASE t \notin Leaves
      <4>1. PICK i \in 0..(j - 1) : \E u \in Terms[i], f \in [Values -> Terms[j - 1 - i]] :
                t = FlatMap(u, f)
        BY <2>1, <3>1, <3>3, TermCases
      <4>2. PICK u \in Terms[i], f \in [Values -> Terms[j - 1 - i]] : t = FlatMap(u, f)
        BY <4>1
      <4>3. Terms[i] \subseteq Terms[k - 1]
        <5>1. i \in 0..(k - 1)
          BY <3>1
        <5> QED
          BY <1>1, <3>1, <5>1
      <4>4. Terms[j - 1 - i] \subseteq Terms[k - 1]
        <5>1. j - 1 - i \in 0..(k - 1)
          BY <3>1
        <5> QED
          BY <1>1, <3>1, <5>1
      <4>5. Terms[j - 1 - i] \subseteq Terms[k - 1 - i]
        <5>1. j - 1 - i \in 0..(k - 1 - i) /\ k - 1 - i \in 0..(k - 1)
          BY <3>1
        <5> QED
          BY <1>1, <5>1
      <4>6. i \in 0..(k - 1)
        BY <3>1
      <4>7. /\ t \in [is : {"flatMap"}, thunk : Terms[k - 1], f : [Values -> Terms[k - 1]]]
            /\ t.thunk \in Terms[i] /\ t.f \in [Values -> Terms[k - 1 - i]]
        <5>1. t.thunk = u /\ t.f = f
          BY <4>2 DEF FlatMap
        <5>2. f \in [Values -> Terms[k - 1]]
          BY <4>4
        <5>3. f \in [Values -> Terms[k - 1 - i]]
          BY <4>5
        <5>4. u \in Terms[k - 1]
          BY <4>3
        <5>5. t \in [is : {"flatMap"}, thunk : Terms[k - 1], f : [Values -> Terms[k - 1]]]
          BY <4>2, <5>2, <5>4 DEF FlatMap
        <5> QED
          BY <5>1, <5>3, <5>5
      <4>8. Terms[k] = Level(Terms, k)
        BY TermsAre
      <4> QED
        BY <3>1, <4>6, <4>7, <4>8 DEF Level
    <3> QED
      BY <3>2, <3>3
  <2> QED
    BY <2>1
<1> HIDE DEF T
<1>2. \A k \in Nat : k \in T
  BY <1>1, NatStrong
<1>3. m \in 0..n
  OBVIOUS
<1> QED
  BY <1>2, <1>3 DEF T

\* A thunk and a continuation of small enough sizes make a term.
LEMMA BindTerm ==
    ASSUME NEW i \in Nat, NEW j \in Nat, NEW n \in Nat, i + j < n,
           NEW u \in Terms[i], NEW f \in [Values -> Terms[j]]
    PROVE  FlatMap(u, f) \in Terms[n]
<1>1. i \in 0..(n - 1) /\ n - 1 \in Nat /\ n - 1 - i \in Nat /\ j <= n - 1 - i /\ j <= n - 1
      /\ i <= n - 1 /\ n # 0
  OBVIOUS
<1>2. Terms[i] \subseteq Terms[n - 1]
  BY <1>1, TermsGrow
<1>3. Terms[j] \subseteq Terms[n - 1]
  BY <1>1, TermsGrow
<1>4. Terms[j] \subseteq Terms[n - 1 - i]
  BY <1>1, TermsGrow
<1>5. f \in [Values -> Terms[n - 1]]
  BY <1>3
<1>6. f \in [Values -> Terms[n - 1 - i]]
  BY <1>4
<1> DEFINE t == FlatMap(u, f)
<1>7. t.thunk = u /\ t.f = f
  BY DEF FlatMap
<1>8. t \in [is : {"flatMap"}, thunk : Terms[n - 1], f : [Values -> Terms[n - 1]]]
  BY <1>2, <1>5 DEF FlatMap
<1> HIDE DEF t
<1>9. Terms[n] = Level(Terms, n)
  BY TermsAre
<1>10. t \in Terms[n]
  BY <1>1, <1>6, <1>7, <1>8, <1>9 DEF Level
<1> QED
  BY <1>10 DEF t

\* What a term that binds is made of.
LEMMA TermBinds ==
    ASSUME NEW n \in Nat, NEW u, NEW f, FlatMap(u, f) \in Terms[n]
    PROVE  \E i \in Nat, j \in Nat :
               i + j = n - 1 /\ u \in Terms[i] /\ f \in [Values -> Terms[j]]
<1>1. FlatMap(u, f) \notin Leaves
  BY DEF FlatMap, Leaves
<1>2. PICK i \in 0..(n - 1) : \E v \in Terms[i], g \in [Values -> Terms[n - 1 - i]] :
          FlatMap(u, f) = FlatMap(v, g)
  BY <1>1, TermCases
<1>3. PICK v \in Terms[i], g \in [Values -> Terms[n - 1 - i]] : FlatMap(u, f) = FlatMap(v, g)
  BY <1>2
<1>4. u = v /\ f = g
  BY <1>3 DEF FlatMap
<1>5. i \in Nat /\ n - 1 - i \in Nat /\ i + (n - 1 - i) = n - 1
  OBVIOUS
<1> QED
  BY <1>3, <1>4, <1>5

\* Re-association keeps the size.
LEMMA ReassociateTerm ==
    ASSUME NEW n \in Nat, NEW t, NEW f, NEW g, FlatMap(FlatMap(t, f), g) \in Terms[n]
    PROVE  Reassociate(t, f, g) \in Terms[n]
<1>1. PICK i \in Nat, j \in Nat :
          i + j = n - 1 /\ FlatMap(t, f) \in Terms[i] /\ g \in [Values -> Terms[j]]
  BY TermBinds
<1>2. PICK k \in Nat, l \in Nat :
          k + l = i - 1 /\ t \in Terms[k] /\ f \in [Values -> Terms[l]]
  BY <1>1, TermBinds
<1>3. \A v \in Values : FlatMap(f[v], g) \in Terms[l + j + 1]
  <2>1. l + j + 1 \in Nat /\ l + j < l + j + 1
    OBVIOUS
  <2> QED
    BY <1>1, <1>2, <2>1, BindTerm
<1>4. Both(f, g) \in [Values -> Terms[l + j + 1]]
  BY <1>3 DEF Both
<1>5. l + j + 1 \in Nat /\ k + (l + j + 1) < n
  BY <1>1, <1>2
<1> QED
  BY <1>2, <1>4, <1>5, BindTerm DEF Reassociate

\* The three shapes of a term.
LEMMA Shapes ==
    ASSUME NEW n \in Nat, NEW t \in Terms[n]
    PROVE  \/ /\ t.is = "pure" /\ t = Pure(t.value) /\ t.value \in Values
           \/ /\ t.is = "suspend" /\ t = Suspend(t.op) /\ t.op \in Operation
           \/ /\ t.is = "flatMap" /\ t = FlatMap(t.thunk, t.f)
<1>1. CASE t \in Leaves
  BY <1>1 DEF Leaves, Pure, Suspend
<1>2. CASE t \notin Leaves
  <2>1. PICK i \in 0..(n - 1) : \E u \in Terms[i], f \in [Values -> Terms[n - 1 - i]] :
            t = FlatMap(u, f)
    BY <1>2, TermCases
  <2>2. PICK u, f : t = FlatMap(u, f)
    BY <2>1
  <2> QED
    BY <2>2 DEF FlatMap
<1> QED
  BY <1>1, <1>2

----------------------------------------------------------------------------
(* What a term means.                                                         *)

Results == [ops : Seq(Operation), raised : BOOLEAN, value : Values]

LEMMA ReplyTyped == \A op \in Operation : Reply(op) \in Values
  BY DEF Reply

LEMMA EffectsTyped == \A op \in Operation : Effects(op) \in Seq(Operation)
  BY DEF Effects

LEMMA ReturnsTyped == \A v \in Values : Returns(v) \in Results
  BY DEF Returns, Results

LEMMA RaisedTyped == RaisedNow \in Results
  BY DEF RaisedNow, Results

\* Joining three sequences.
LEMMA Joined ==
    ASSUME NEW S, NEW s \in Seq(S), NEW t \in Seq(S), NEW u \in Seq(S)
    PROVE  s \o (t \o u) = (s \o t) \o u
<1>1. s \o (t \o u) \in Seq(S) /\ (s \o t) \o u \in Seq(S)
  OBVIOUS
<1>2. Len(s \o (t \o u)) = Len((s \o t) \o u)
  OBVIOUS
<1>3. \A i \in 1..Len(s \o (t \o u)) : (s \o (t \o u))[i] = ((s \o t) \o u)[i]
  OBVIOUS
<1> QED
  BY <1>1, <1>2, <1>3, SeqEqual

\* Operations performed before those of a result.
LEMMA AfterIs ==
    ASSUME NEW ops \in Seq(Operation), NEW m \in Results
    PROVE  /\ After(ops, m) \in Results
           /\ After(ops, m).ops = ops \o m.ops
           /\ After(ops, m).raised = m.raised
           /\ After(ops, m).value = m.value
<1>1. /\ m = [ops |-> m.ops, raised |-> m.raised, value |-> m.value]
      /\ m.ops \in Seq(Operation) /\ m.raised \in BOOLEAN /\ m.value \in Values
  BY DEF Results
<1>2. ops \o m.ops \in Seq(Operation)
  BY <1>1
<1>3. \A a, b, c, d : [[ops |-> a, raised |-> b, value |-> c] EXCEPT !.ops = d]
                         = [ops |-> d, raised |-> b, value |-> c]
  OBVIOUS
<1>4. After(ops, m) = [m EXCEPT !.ops = ops \o m.ops]
  BY DEF After
<1>5. After(ops, m) = [ops |-> ops \o m.ops, raised |-> m.raised, value |-> m.value]
  BY <1>1, <1>3, <1>4, Zenon
<1> QED
  BY <1>1, <1>2, <1>5 DEF Results

\* A result is what its fields are.
LEMMA SameResult ==
    ASSUME NEW m \in Results, NEW o \in Results,
           m.ops = o.ops, m.raised = o.raised, m.value = o.value
    PROVE  m = o
<1>1. m = [ops |-> m.ops, raised |-> m.raised, value |-> m.value]
  BY DEF Results
<1>2. o = [ops |-> o.ops, raised |-> o.raised, value |-> o.value]
  BY DEF Results
<1> QED
  BY <1>1, <1>2

LEMMA AfterNothing ==
    ASSUME NEW m \in Results PROVE After(<<>>, m) = m
<1>1. m.ops \in Seq(Operation)
  BY DEF Results
<1>2. <<>> \o m.ops = m.ops /\ <<>> \in Seq(Operation)
  BY <1>1, ConcatEmptySeq
<1>3. /\ After(<<>>, m) \in Results
      /\ After(<<>>, m).ops = m.ops
      /\ After(<<>>, m).raised = m.raised
      /\ After(<<>>, m).value = m.value
  BY <1>2, AfterIs
<1> QED
  BY <1>3, SameResult

LEMMA AfterAfter ==
    ASSUME NEW o \in Seq(Operation), NEW p \in Seq(Operation), NEW m \in Results
    PROVE  After(o, After(p, m)) = After(o \o p, m)
<1>1. m.ops \in Seq(Operation)
  BY DEF Results
<1>2. o \o (p \o m.ops) = (o \o p) \o m.ops
  <2>1. PICK s \in Seq(Operation) : s = m.ops
    BY <1>1
  <2>2. o \o (p \o s) = (o \o p) \o s
    BY Joined, SMTT(40)
  <2> QED
    BY <2>1, <2>2
<1>3. o \o p \in Seq(Operation)
  OBVIOUS
<1>4. /\ After(p, m) \in Results
      /\ After(p, m).ops = p \o m.ops
      /\ After(p, m).raised = m.raised
      /\ After(p, m).value = m.value
  BY AfterIs
<1>5. /\ After(o, After(p, m)) \in Results
      /\ After(o, After(p, m)).ops = o \o (p \o m.ops)
      /\ After(o, After(p, m)).raised = m.raised
      /\ After(o, After(p, m)).value = m.value
  <2>1. PICK k \in Results : k = After(p, m)
    BY <1>4
  <2>2. /\ After(o, k) \in Results
        /\ After(o, k).ops = o \o k.ops
        /\ After(o, k).raised = k.raised
        /\ After(o, k).value = k.value
    BY AfterIs
  <2> QED
    BY <1>4, <2>1, <2>2, Zenon
<1>6. /\ After(o \o p, m) \in Results
      /\ After(o \o p, m).ops = (o \o p) \o m.ops
      /\ After(o \o p, m).raised = m.raised
      /\ After(o \o p, m).value = m.value
  BY <1>3, AfterIs
<1> QED
  BY <1>2, <1>5, <1>6, SameResult

\* What a term means, when f gives what smaller terms mean.
Denote(r, f, t) ==
    IF t.is = "pure" THEN Returns(t.value)
    ELSE IF t.is = "suspend"
    THEN After(Effects(t.op), IF Raises(r, t.op) THEN RaisedNow ELSE Returns(Reply(t.op)))
    ELSE LET first == f[t.thunk]
         IN  IF first.raised THEN first
             ELSE After(first.ops, f[t.f[first.value]])

\* What a leaf means, whatever its continuations.
LEMMA DenoteLeaf ==
    ASSUME NEW r, NEW t \in Leaves, NEW f, NEW g
    PROVE  Denote(r, f, t) \in Results /\ Denote(r, f, t) = Denote(r, g, t)
<1>1. CASE t.is = "pure"
  <2>1. t.value \in Values
    BY <1>1 DEF Leaves
  <2> QED
    BY <1>1, <2>1, ReturnsTyped DEF Denote
<1>2. CASE t.is # "pure"
  <2>1. t.is = "suspend" /\ t.op \in Operation
    BY <1>2 DEF Leaves
  <2> DEFINE m == IF Raises(r, t.op) THEN RaisedNow ELSE Returns(Reply(t.op))
  <2>2. m \in Results
    BY <2>1, ReplyTyped, ReturnsTyped, RaisedTyped
  <2>3. Denote(r, f, t) = After(Effects(t.op), m) /\ Denote(r, g, t) = After(Effects(t.op), m)
    BY <1>2, <2>1 DEF Denote
  <2> HIDE DEF m
  <2> QED
    BY <2>1, <2>2, <2>3, EffectsTyped, AfterIs
<1> QED
  BY <1>1, <1>2

\* What a term that binds means, from what its thunk and continuation mean.
LEMMA DenoteBind ==
    ASSUME NEW r, NEW f, NEW u, NEW k
    PROVE  Denote(r, f, FlatMap(u, k)) =
               IF f[u].raised THEN f[u] ELSE After(f[u].ops, f[k[f[u].value]])
<1> DEFINE t == FlatMap(u, k)
<1>1. t.is = "flatMap" /\ t.thunk = u /\ t.f = k
  BY DEF FlatMap
<1> HIDE DEF t
<1>2. Denote(r, f, t) = IF f[u].raised THEN f[u] ELSE After(f[u].ops, f[k[f[u].value]])
  BY <1>1 DEF Denote
<1> QED
  BY <1>2 DEF t

\* It depends on what the smaller terms mean.
LEMMA DenoteLocal ==
    ASSUME NEW r, NEW n \in Nat, NEW f \in [Terms[n] -> Results],
           NEW g, \A t \in Terms[n] : f[t] = g[t],
           NEW t \in Terms[n + 1]
    PROVE  Denote(r, f, t) \in Results /\ Denote(r, f, t) = Denote(r, g, t)
<1>1. CASE t \in Leaves
  BY <1>1, DenoteLeaf
<1>2. CASE t \notin Leaves
  <2>1. PICK i \in 0..n : \E u \in Terms[i], k \in [Values -> Terms[n - i]] : t = FlatMap(u, k)
    <3>1. n + 1 \in Nat /\ (n + 1) - 1 = n
      OBVIOUS
    <3> QED
      BY <1>2, <3>1, TermCases
  <2>2. PICK u \in Terms[i], k \in [Values -> Terms[n - i]] : t = FlatMap(u, k)
    BY <2>1
  <2>3. Terms[i] \subseteq Terms[n] /\ Terms[n - i] \subseteq Terms[n]
    <3>1. i \in Nat /\ n - i \in Nat /\ i <= n /\ n - i <= n
      OBVIOUS
    <3> QED
      BY <3>1, TermsGrow
  <2>4. f[u] = g[u] /\ f[u] \in Results
    BY <2>3
  <2>5. f[u].value \in Values /\ f[u].ops \in Seq(Operation)
    BY <2>4 DEF Results
  <2>6. k[f[u].value] \in Terms[n]
    BY <2>3, <2>5
  <2>7. f[k[f[u].value]] = g[k[f[u].value]] /\ f[k[f[u].value]] \in Results
    BY <2>6
  <2>8. After(f[u].ops, f[k[f[u].value]]) \in Results
    BY <2>5, <2>7, AfterIs
  <2>9. Denote(r, f, t) = IF f[u].raised THEN f[u] ELSE After(f[u].ops, f[k[f[u].value]])
    BY <2>2, DenoteBind
  <2>10. Denote(r, g, t) = IF g[u].raised THEN g[u] ELSE After(g[u].ops, g[k[g[u].value]])
    BY <2>2, DenoteBind
  <2> QED
    BY <2>4, <2>7, <2>8, <2>9, <2>10
<1> QED
  BY <1>1, <1>2

\* The terms of every size have a meaning.
LEMMA MeaningExists ==
    ASSUME NEW r
    PROVE  \A n \in Nat : \E f \in [Terms[n] -> Results] :
               \A t \in Terms[n] : f[t] = Denote(r, f, t)
<1> DEFINE T == {n \in Nat : \E f \in [Terms[n] -> Results] :
                                 \A t \in Terms[n] : f[t] = Denote(r, f, t)}
<1>1. 0 \in T
  <2>1. Terms[0] = Leaves
    <3>1. Terms[0] = Level(Terms, 0)
      BY TermsAre
    <3> QED
      BY <3>1 DEF Level
  <2> DEFINE f == [t \in Terms[0] |-> Denote(r, <<>>, t)]
  <2>2. \A t \in Terms[0] : f[t] \in Results /\ f[t] = Denote(r, f, t)
    <3>1. ASSUME NEW t \in Terms[0]
          PROVE  f[t] \in Results /\ f[t] = Denote(r, f, t)
      <4>1. f[t] = Denote(r, <<>>, t)
        OBVIOUS
      <4> HIDE DEF f
      <4> QED
        BY <2>1, <4>1, DenoteLeaf
    <3> QED
      BY <3>1
  <2>3. f = [t \in Terms[0] |-> f[t]]
    OBVIOUS
  <2> HIDE DEF f
  <2>4. f \in [Terms[0] -> Results]
    BY <2>2, <2>3
  <2> QED
    BY <2>2, <2>4
<1>2. ASSUME NEW n \in Nat, n \in T PROVE n + 1 \in T
  <2>1. PICK f \in [Terms[n] -> Results] : \A t \in Terms[n] : f[t] = Denote(r, f, t)
    BY <1>2
  <2> DEFINE g == [t \in Terms[n + 1] |-> Denote(r, f, t)]
  <2>2. Terms[n] \subseteq Terms[n + 1]
    BY TermsGrow
  <2>3. \A t \in Terms[n + 1] : g[t] = Denote(r, f, t)
    OBVIOUS
  <2>4. g = [t \in Terms[n + 1] |-> g[t]]
    OBVIOUS
  <2> HIDE DEF g
  <2>5. \A t \in Terms[n] : f[t] = g[t]
    BY <2>1, <2>2, <2>3
  <2>6. \A t \in Terms[n + 1] : g[t] \in Results /\ g[t] = Denote(r, g, t)
    BY <2>3, <2>5, DenoteLocal
  <2>7. g \in [Terms[n + 1] -> Results]
    BY <2>4, <2>6
  <2> QED
    BY <2>6, <2>7
<1> HIDE DEF T
<1>3. \A n \in Nat : n \in T
  BY <1>1, <1>2, NatInduct
<1> QED
  BY <1>3 DEF T

\* Meaning is what its definition says.
LEMMA MeaningIs ==
    ASSUME NEW r
    PROVE  Meaning(r) = [t \in Terms[Size] |-> Denote(r, Meaning(r), t)]
<1>1. Meaning(r) = CHOOSE f : f = [t \in Terms[Size] |-> Denote(r, f, t)]
  BY Zenon DEF Meaning, Denote
<1>2. PICK f \in [Terms[Size] -> Results] : \A t \in Terms[Size] : f[t] = Denote(r, f, t)
  BY MeaningExists
<1>3. f = [t \in Terms[Size] |-> Denote(r, f, t)]
  BY <1>2
<1> QED
  BY <1>1, <1>3, Zenon

\* A term means some operations and an outcome.
LEMMA MeaningTyped ==
    ASSUME NEW r, NEW t \in Terms[Size] PROVE Meaning(r)[t] \in Results
<1> DEFINE M == Meaning(r)
           T == {n \in Nat : n <= Size => \A u \in Terms[n] : M[u] \in Results}
<1>0. \A u \in Terms[Size] : M[u] = Denote(r, M, u)
  BY MeaningIs
<1> HIDE DEF M
<1>1. 0 \in T
  <2>1. Terms[0] = Leaves
    <3>1. Terms[0] = Level(Terms, 0)
      BY TermsAre
    <3> QED
      BY <3>1 DEF Level
  <2>2. Leaves \subseteq Terms[Size]
    BY LeafTerm
  <2> QED
    BY <1>0, <2>1, <2>2, DenoteLeaf
<1>2. ASSUME NEW n \in Nat, n \in T PROVE n + 1 \in T
  <2>1. SUFFICES ASSUME n + 1 <= Size, NEW u \in Terms[n + 1] PROVE M[u] \in Results
    OBVIOUS
  <2>2. Terms[n + 1] \subseteq Terms[Size]
    BY <2>1, TermsGrow
  <2> DEFINE f == [v \in Terms[n] |-> M[v]]
  <2>3. f \in [Terms[n] -> Results]
    BY <1>2, <2>1
  <2>4. \A v \in Terms[n] : f[v] = M[v]
    OBVIOUS
  <2> HIDE DEF f
  <2>5. Denote(r, f, u) \in Results /\ Denote(r, f, u) = Denote(r, M, u)
    BY <2>3, <2>4, DenoteLocal
  <2> QED
    BY <1>0, <2>2, <2>5
<1> HIDE DEF T
<1>3. \A n \in Nat : n \in T
  BY <1>1, <1>2, NatInduct
<1> QED
  BY <1>3 DEF T, M

\* The meaning of a term that binds.
LEMMA MeaningBind ==
    ASSUME NEW r, NEW u, NEW k, FlatMap(u, k) \in Terms[Size]
    PROVE  /\ u \in Terms[Size] /\ k \in [Values -> Terms[Size]]
           /\ Meaning(r)[FlatMap(u, k)] =
                  IF Meaning(r)[u].raised THEN Meaning(r)[u]
                  ELSE After(Meaning(r)[u].ops, Meaning(r)[k[Meaning(r)[u].value]])
<1>1. PICK i \in Nat, j \in Nat :
          i + j = Size - 1 /\ u \in Terms[i] /\ k \in [Values -> Terms[j]]
  BY TermBinds
<1>2. i <= Size /\ j <= Size
  BY <1>1
<1>3. Terms[i] \subseteq Terms[Size] /\ Terms[j] \subseteq Terms[Size]
  BY <1>2, TermsGrow
<1>4. u \in Terms[Size] /\ k \in [Values -> Terms[Size]]
  BY <1>1, <1>3
<1>5. Meaning(r)[FlatMap(u, k)] = Denote(r, Meaning(r), FlatMap(u, k))
  BY MeaningIs
<1> QED
  BY <1>4, <1>5, DenoteBind

\* The meaning of a value, and of an operation.
LEMMA MeaningPure ==
    ASSUME NEW r, NEW v, Pure(v) \in Terms[Size]
    PROVE  Meaning(r)[Pure(v)] = Returns(v)
<1>1. Meaning(r)[Pure(v)] = Denote(r, Meaning(r), Pure(v))
  BY MeaningIs
<1>2. Pure(v).is = "pure" /\ Pure(v).value = v
  BY DEF Pure
<1> QED
  BY <1>1, <1>2 DEF Denote

LEMMA MeaningSuspend ==
    ASSUME NEW r, NEW op, Suspend(op) \in Terms[Size]
    PROVE  Meaning(r)[Suspend(op)] =
               After(Effects(op), IF Raises(r, op) THEN RaisedNow ELSE Returns(Reply(op)))
<1>1. Meaning(r)[Suspend(op)] = Denote(r, Meaning(r), Suspend(op))
  BY MeaningIs
<1>2. Suspend(op).is = "suspend" /\ Suspend(op).op = op
  BY DEF Suspend
<1> QED
  BY <1>1, <1>2 DEF Denote

----------------------------------------------------------------------------
(* Re-association and merge_flatmaps keep the meaning.                        *)

\* Binding the same continuation to thunks of the same meaning.
LEMMA BindSame ==
    ASSUME NEW r, NEW t, NEW u, NEW k,
           FlatMap(t, k) \in Terms[Size], FlatMap(u, k) \in Terms[Size],
           Meaning(r)[t] = Meaning(r)[u]
    PROVE  Meaning(r)[FlatMap(t, k)] = Meaning(r)[FlatMap(u, k)]
<1>1. Meaning(r)[FlatMap(t, k)] =
          IF Meaning(r)[t].raised THEN Meaning(r)[t]
          ELSE After(Meaning(r)[t].ops, Meaning(r)[k[Meaning(r)[t].value]])
  BY MeaningBind
<1>2. Meaning(r)[FlatMap(u, k)] =
          IF Meaning(r)[u].raised THEN Meaning(r)[u]
          ELSE After(Meaning(r)[u].ops, Meaning(r)[k[Meaning(r)[u].value]])
  BY MeaningBind
<1> QED
  BY <1>1, <1>2

\* The third law in the docstring of Free: (t >>= f) >>= g is t >>= (f >>= g).
LEMMA Associative ==
    ASSUME NEW r, NEW t, NEW f, NEW g, FlatMap(FlatMap(t, f), g) \in Terms[Size]
    PROVE  Meaning(r)[Reassociate(t, f, g)] = Meaning(r)[FlatMap(FlatMap(t, f), g)]
<1> DEFINE M == Meaning(r)
           a == M[t]
           b == M[FlatMap(t, f)]
           c == M[f[a.value]]
<1>1. /\ FlatMap(t, f) \in Terms[Size] /\ g \in [Values -> Terms[Size]]
      /\ M[FlatMap(FlatMap(t, f), g)] = IF b.raised THEN b ELSE After(b.ops, M[g[b.value]])
  BY MeaningBind
<1>2. /\ t \in Terms[Size] /\ f \in [Values -> Terms[Size]]
      /\ b = IF a.raised THEN a ELSE After(a.ops, c)
  BY <1>1, MeaningBind
<1>3. FlatMap(t, Both(f, g)) \in Terms[Size]
  BY ReassociateTerm DEF Reassociate
<1>4. /\ Both(f, g) \in [Values -> Terms[Size]]
      /\ M[FlatMap(t, Both(f, g))] = IF a.raised THEN a ELSE After(a.ops, M[Both(f, g)[a.value]])
  BY <1>3, MeaningBind
<1>5. a \in Results
  BY <1>2, MeaningTyped
<1>6. a.value \in Values /\ a.ops \in Seq(Operation)
  BY <1>5 DEF Results
<1>7. Both(f, g)[a.value] = FlatMap(f[a.value], g)
  BY <1>6 DEF Both
<1>8. FlatMap(f[a.value], g) \in Terms[Size]
  BY <1>4, <1>6, <1>7
<1>9. M[FlatMap(f[a.value], g)] = IF c.raised THEN c ELSE After(c.ops, M[g[c.value]])
  BY <1>8, MeaningBind
<1>10. c \in Results
  BY <1>2, <1>6, MeaningTyped
<1>11. c.value \in Values /\ c.ops \in Seq(Operation)
  BY <1>10 DEF Results
<1>12. M[g[c.value]] \in Results
  BY <1>1, <1>11, MeaningTyped
<1> HIDE DEF M, a, b, c
<1>13. CASE a.raised
  BY <1>1, <1>2, <1>4, <1>13 DEF Reassociate, M
<1>14. CASE ~a.raised
  <2>1. b = After(a.ops, c)
    BY <1>2, <1>14
  <2>2. b.ops = a.ops \o c.ops /\ b.raised = c.raised /\ b.value = c.value
    BY <1>6, <1>10, <2>1, AfterIs
  <2>3. M[FlatMap(t, Both(f, g))] = After(a.ops, M[FlatMap(f[a.value], g)])
    BY <1>4, <1>7, <1>14
  <2>4. CASE c.raised
    <3>1. M[FlatMap(FlatMap(t, f), g)] = After(a.ops, c)
      BY <1>1, <2>1, <2>2, <2>4
    <3>2. M[FlatMap(t, Both(f, g))] = After(a.ops, c)
      BY <1>9, <2>3, <2>4
    <3> QED
      BY <3>1, <3>2 DEF Reassociate, M
  <2>5. CASE ~c.raised
    <3>1. M[FlatMap(FlatMap(t, f), g)] = After(a.ops \o c.ops, M[g[c.value]])
      BY <1>1, <2>2, <2>5
    <3>2. M[FlatMap(t, Both(f, g))] = After(a.ops, After(c.ops, M[g[c.value]]))
      BY <1>9, <2>3, <2>5
    <3>3. After(a.ops, After(c.ops, M[g[c.value]])) = After(a.ops \o c.ops, M[g[c.value]])
      BY <1>6, <1>11, <1>12, AfterAfter
    <3> QED
      BY <3>1, <3>2, <3>3 DEF Reassociate, M
  <2> QED
    BY <2>4, <2>5
<1> QED
  BY <1>13, <1>14

\* merge_flatmaps of t, when f merges smaller terms.
MergedOf(f, t) ==
    IF t.is # "flatMap" THEN t
    ELSE LET left == f[t.thunk]
         IN  IF left.is = "flatMap" THEN Reassociate(left.thunk, left.f, t.f)
             ELSE FlatMap(left, t.f)

\* It keeps the size, if f does.
LEMMA MergedOfTerm ==
    ASSUME NEW n \in Nat, NEW f, \A m \in 0..n : \A t \in Terms[m] : f[t] \in Terms[m],
           NEW m \in 0..(n + 1), NEW t \in Terms[m]
    PROVE  MergedOf(f, t) \in Terms[m]
<1>1. CASE t \in Leaves
  BY <1>1 DEF MergedOf, Leaves
<1>2. CASE t \notin Leaves
  <2>1. PICK i \in 0..(m - 1) : \E u \in Terms[i], k \in [Values -> Terms[m - 1 - i]] :
            t = FlatMap(u, k)
    BY <1>2, TermCases
  <2>2. PICK u \in Terms[i], k \in [Values -> Terms[m - 1 - i]] : t = FlatMap(u, k)
    BY <2>1
  <2>3. i \in 0..n /\ i \in Nat /\ m - 1 - i \in Nat /\ i + (m - 1 - i) < m /\ m \in Nat
    OBVIOUS
  <2>4. f[u] \in Terms[i]
    BY <2>3
  <2>5. FlatMap(f[u], k) \in Terms[m]
    BY <2>3, <2>4, BindTerm
  <2>6. MergedOf(f, t) = IF f[u].is = "flatMap" THEN Reassociate(f[u].thunk, f[u].f, k)
                         ELSE FlatMap(f[u], k)
    <3>1. t.is = "flatMap" /\ t.thunk = u /\ t.f = k
      BY <2>2 DEF FlatMap
    <3> QED
      BY <3>1 DEF MergedOf
  <2>7. CASE f[u].is = "flatMap"
    <3>1. f[u] = FlatMap(f[u].thunk, f[u].f)
      BY <2>3, <2>4, <2>7, Shapes
    <3>2. FlatMap(FlatMap(f[u].thunk, f[u].f), k) \in Terms[m]
      BY <2>5, <3>1
    <3> QED
      BY <2>3, <2>6, <2>7, <3>2, ReassociateTerm
  <2>8. CASE f[u].is # "flatMap"
    BY <2>5, <2>6, <2>8
  <2> QED
    BY <2>7, <2>8
<1> QED
  BY <1>1, <1>2

\* It depends on how smaller terms are merged.
LEMMA MergedOfLocal ==
    ASSUME NEW n \in Nat, NEW f, NEW g, \A t \in Terms[n] : f[t] = g[t],
           NEW t \in Terms[n + 1]
    PROVE  MergedOf(f, t) = MergedOf(g, t)
<1>1. CASE t \in Leaves
  BY <1>1 DEF MergedOf, Leaves
<1>2. CASE t \notin Leaves
  <2>1. PICK i \in 0..n : \E u \in Terms[i], k \in [Values -> Terms[n - i]] : t = FlatMap(u, k)
    <3>1. n + 1 \in Nat /\ (n + 1) - 1 = n
      OBVIOUS
    <3> QED
      BY <1>2, <3>1, TermCases
  <2>2. PICK u \in Terms[i], k \in [Values -> Terms[n - i]] : t = FlatMap(u, k)
    BY <2>1
  <2>3. Terms[i] \subseteq Terms[n]
    BY TermsGrow
  <2>4. f[t.thunk] = g[t.thunk]
    BY <2>2, <2>3 DEF FlatMap
  <2> QED
    BY <2>4 DEF MergedOf
<1> QED
  BY <1>1, <1>2

\* Terms of every size can be merged.
LEMMA MergeExists ==
    \A n \in Nat : \E f : /\ f = [t \in Terms[n] |-> MergedOf(f, t)]
                          /\ \A m \in 0..n : \A t \in Terms[m] : f[t] \in Terms[m]
<1> DEFINE P(f, n) == /\ f = [t \in Terms[n] |-> MergedOf(f, t)]
                      /\ \A m \in 0..n : \A t \in Terms[m] : f[t] \in Terms[m]
           T == {n \in Nat : \E f : P(f, n)}
<1>1. 0 \in T
  <2>1. Terms[0] = Leaves
    <3>1. Terms[0] = Level(Terms, 0)
      BY TermsAre
    <3> QED
      BY <3>1 DEF Level
  <2> DEFINE f == [t \in Terms[0] |-> t]
  <2>2. \A t \in Terms[0] : MergedOf(f, t) = t
    BY <2>1 DEF MergedOf, Leaves
  <2>3. f = [t \in Terms[0] |-> MergedOf(f, t)]
    BY <2>2
  <2>4. \A m \in 0..0 : \A t \in Terms[m] : f[t] \in Terms[m]
    OBVIOUS
  <2>5. P(f, 0)
    BY <2>3, <2>4
  <2> QED
    BY <2>5
<1>2. ASSUME NEW n \in Nat, n \in T PROVE n + 1 \in T
  <2>1. PICK f : P(f, n)
    BY <1>2
  <2> DEFINE g == [t \in Terms[n + 1] |-> MergedOf(f, t)]
  <2>2. Terms[n] \subseteq Terms[n + 1]
    BY TermsGrow
  <2>3. \A t \in Terms[n + 1] : g[t] = MergedOf(f, t)
    OBVIOUS
  <2>4. g = [t \in Terms[n + 1] |-> g[t]]
    OBVIOUS
  <2> HIDE DEF g
  <2>5. \A t \in Terms[n] : f[t] = MergedOf(f, t)
    BY <2>1
  <2>6. \A t \in Terms[n] : f[t] = g[t]
    BY <2>2, <2>3, <2>5
  <2>7. \A t \in Terms[n + 1] : g[t] = MergedOf(g, t)
    BY <2>3, <2>6, MergedOfLocal
  <2>8. \A m \in 0..(n + 1) : \A t \in Terms[m] : g[t] \in Terms[m]
    <3>1. ASSUME NEW m \in 0..(n + 1), NEW t \in Terms[m] PROVE g[t] \in Terms[m]
      <4>1. MergedOf(f, t) \in Terms[m]
        BY <2>1, MergedOfTerm
      <4>2. Terms[m] \subseteq Terms[n + 1]
        BY TermsGrow
      <4> QED
        BY <2>3, <4>1, <4>2
    <3> QED
      BY <3>1
  <2>9. g = [t \in Terms[n + 1] |-> MergedOf(g, t)]
    BY <2>4, <2>7
  <2>10. P(g, n + 1)
    BY <2>8, <2>9
  <2> QED
    BY <2>10
<1>3. \A n \in Nat : n \in T
  <2> HIDE DEF T
  <2> QED
    BY <1>1, <1>2, NatInduct
<1> QED
  BY <1>3

\* Merge is what its definition says.
LEMMA MergeIs == Merge = [t \in Terms[Size] |-> MergedOf(Merge, t)]
<1>1. Merge = CHOOSE f : f = [t \in Terms[Size] |-> MergedOf(f, t)]
  BY Zenon DEF Merge, MergedOf
<1>2. \E f : f = [t \in Terms[Size] |-> MergedOf(f, t)]
  BY MergeExists
<1> QED
  BY <1>1, <1>2, Zenon

\* merge_flatmaps keeps the size and the meaning of a program.
LEMMA MergeMeans ==
    ASSUME NEW n \in 0..Size, NEW t \in Terms[n]
    PROVE  Merge[t] \in Terms[n] /\ \A r : Meaning(r)[Merge[t]] = Meaning(r)[t]
<1> DEFINE T == {m \in Nat : m <= Size => \A u \in Terms[m] :
                    Merge[u] \in Terms[m] /\ \A r : Meaning(r)[Merge[u]] = Meaning(r)[u]}
<1>1. ASSUME NEW m \in Nat, \A i \in 0..(m - 1) : i \in T PROVE m \in T
  <2>1. SUFFICES ASSUME m <= Size, NEW u \in Terms[m]
                 PROVE  Merge[u] \in Terms[m] /\ \A r : Meaning(r)[Merge[u]] = Meaning(r)[u]
    OBVIOUS
  <2>2. Terms[m] \subseteq Terms[Size]
    BY <2>1, TermsGrow
  <2>3. Merge[u] = MergedOf(Merge, u)
    BY <2>2, MergeIs
  <2>4. CASE u \in Leaves
    BY <2>3, <2>4 DEF MergedOf, Leaves
  <2>5. CASE u \notin Leaves
    <3>1. PICK i \in 0..(m - 1) : \E v \in Terms[i], k \in [Values -> Terms[m - 1 - i]] :
              u = FlatMap(v, k)
      BY <2>5, TermCases
    <3>2. PICK v \in Terms[i], k \in [Values -> Terms[m - 1 - i]] : u = FlatMap(v, k)
      BY <3>1
    <3> DEFINE left == Merge[v]
    <3>3. left \in Terms[i] /\ \A r : Meaning(r)[left] = Meaning(r)[v]
      <4>1. i <= Size
        BY <2>1
      <4> QED
        BY <1>1, <4>1
    <3>4. i \in Nat /\ m - 1 - i \in Nat /\ i + (m - 1 - i) < m
      OBVIOUS
    <3>5. Merge[u] = IF left.is = "flatMap" THEN Reassociate(left.thunk, left.f, k)
                     ELSE FlatMap(left, k)
      <4>1. u.is = "flatMap" /\ u.thunk = v /\ u.f = k
        BY <3>2 DEF FlatMap
      <4> QED
        BY <2>3, <4>1 DEF MergedOf
    <3> HIDE DEF left
    <3>6. FlatMap(left, k) \in Terms[m]
      BY <3>3, <3>4, BindTerm
    <3>7. \A r : Meaning(r)[FlatMap(left, k)] = Meaning(r)[u]
      <4>1. ASSUME NEW r PROVE Meaning(r)[FlatMap(left, k)] = Meaning(r)[u]
        <5>1. FlatMap(left, k) \in Terms[Size] /\ FlatMap(v, k) \in Terms[Size]
          BY <2>2, <3>2, <3>6
        <5>2. Meaning(r)[left] = Meaning(r)[v]
          BY <3>3
        <5>3. Meaning(r)[FlatMap(left, k)] = Meaning(r)[FlatMap(v, k)]
          BY <5>1, <5>2, BindSame
        <5> QED
          BY <3>2, <5>3
      <4> QED
        BY <4>1
    <3>8. CASE left.is = "flatMap"
      <4>1. left = FlatMap(left.thunk, left.f)
        BY <3>3, <3>4, <3>8, Shapes
      <4>2. FlatMap(FlatMap(left.thunk, left.f), k) \in Terms[m]
        BY <3>6, <4>1
      <4>3. Reassociate(left.thunk, left.f, k) \in Terms[m]
        BY <4>2, ReassociateTerm
      <4>4. \A r : Meaning(r)[Reassociate(left.thunk, left.f, k)] = Meaning(r)[FlatMap(left, k)]
        BY <2>2, <4>1, <4>2, Associative
      <4> QED
        BY <3>5, <3>7, <3>8, <4>3, <4>4
    <3>9. CASE left.is # "flatMap"
      BY <3>5, <3>6, <3>7, <3>9
    <3> QED
      BY <3>8, <3>9
  <2> QED
    BY <2>4, <2>5
<1> HIDE DEF T
<1>2. \A m \in Nat : m \in T
  BY <1>1, NatStrong
<1> QED
  BY <1>2 DEF T

----------------------------------------------------------------------------
(* A term with a stack of continuations around it.                            *)

\* f is t with one continuation of fs after another around it.
Wraps(f, t, fs, n) ==
    f = [m \in 0..n |-> IF m = 0 THEN t ELSE FlatMap(f[m - 1], fs[Len(fs) + 1 - m])]

\* What such an f is at each number.
LEMMA WrapsAt ==
    ASSUME NEW n \in Nat, NEW t, NEW fs, NEW f, Wraps(f, t, fs, n)
    PROVE  /\ f[0] = t
           /\ \A m \in 0..n : m # 0 => f[m] = FlatMap(f[m - 1], fs[Len(fs) + 1 - m])
<1>1. f = [m \in 0..n |-> IF m = 0 THEN t ELSE FlatMap(f[m - 1], fs[Len(fs) + 1 - m])]
  BY Zenon DEF Wraps
<1>2. \A m \in 0..n : f[m] = IF m = 0 THEN t ELSE FlatMap(f[m - 1], fs[Len(fs) + 1 - m])
  BY <1>1
<1>3. 0 \in 0..n
  OBVIOUS
<1> QED
  BY <1>2, <1>3

LEMMA WrapsExist ==
    ASSUME NEW t, NEW fs
    PROVE  \A n \in Nat : \E f : Wraps(f, t, fs, n)
<1> DEFINE T == {n \in Nat : \E f : Wraps(f, t, fs, n)}
<1>1. 0 \in T
  <2> DEFINE f == [m \in 0..0 |-> t]
  <2>1. f = [m \in 0..0 |-> IF m = 0 THEN t ELSE FlatMap(f[m - 1], fs[Len(fs) + 1 - m])]
    OBVIOUS
  <2>2. Wraps(f, t, fs, 0)
    BY <2>1, Zenon DEF Wraps
  <2> QED
    BY <2>2
<1>2. ASSUME NEW n \in Nat, n \in T PROVE n + 1 \in T
  <2>1. PICK f : Wraps(f, t, fs, n)
    BY <1>2
  <2> DEFINE L == Len(fs)
             g == [m \in 0..(n + 1) |->
                      IF m <= n THEN f[m] ELSE FlatMap(f[n], fs[L + 1 - (n + 1)])]
  <2>2. /\ \A m \in 0..n : g[m] = f[m]
        /\ g[n + 1] = FlatMap(f[n], fs[L + 1 - (n + 1)])
        /\ g = [m \in 0..(n + 1) |-> g[m]]
    OBVIOUS
  <2>3. f[0] = t /\ \A m \in 0..n : m # 0 => f[m] = FlatMap(f[m - 1], fs[L + 1 - m])
    BY <2>1, WrapsAt
  <2> HIDE DEF g, L
  <2>4. ASSUME NEW m \in 0..(n + 1)
        PROVE  g[m] = IF m = 0 THEN t ELSE FlatMap(g[m - 1], fs[L + 1 - m])
    <3>1. CASE m = 0
      BY <2>2, <2>3, <3>1
    <3>2. CASE m # 0 /\ m <= n
      <4>1. m \in 0..n /\ m - 1 \in 0..n
        BY <3>2
      <4>2. g[m] = f[m] /\ g[m - 1] = f[m - 1]
        BY <2>2, <4>1
      <4>3. f[m] = FlatMap(f[m - 1], fs[L + 1 - m])
        BY <2>3, <3>2, <4>1
      <4> QED
        BY <3>2, <4>2, <4>3
    <3>3. CASE m = n + 1
      <4>1. m - 1 = n /\ n \in 0..n /\ m # 0
        BY <3>3
      <4>2. g[m] = FlatMap(f[n], fs[L + 1 - m])
        BY <2>2, <3>3
      <4>3. g[n] = f[n]
        BY <2>2, <4>1
      <4> QED
        BY <4>1, <4>2, <4>3
    <3> QED
      BY <3>1, <3>2, <3>3
  <2>5. g = [m \in 0..(n + 1) |-> IF m = 0 THEN t ELSE FlatMap(g[m - 1], fs[L + 1 - m])]
    BY <2>2, <2>4
  <2>6. Wraps(g, t, fs, n + 1)
    BY <2>5, Zenon DEF Wraps, L
  <2> QED
    BY <2>6
<1> HIDE DEF T
<1>3. \A n \in Nat : n \in T
  BY <1>1, <1>2, NatInduct
<1> QED
  BY <1>3 DEF T

\* Wrap is the last of them.
LEMMA WrapIs ==
    ASSUME NEW t, NEW fs, Len(fs) \in Nat
    PROVE  \E f : Wraps(f, t, fs, Len(fs)) /\ Wrap(t, fs) = f[Len(fs)]
<1> DEFINE f == CHOOSE f : Wraps(f, t, fs, Len(fs))
<1>1. Wraps(f, t, fs, Len(fs))
  BY WrapsExist
<1>2. Wrap(t, fs) = f[Len(fs)]
  BY Zenon DEF Wrap, Wraps
<1> QED
  BY <1>1, <1>2

\* With no continuations there is the term.
LEMMA WrapNothing == ASSUME NEW t PROVE Wrap(t, <<>>) = t
<1>1. Len(<<>>) = 0
  OBVIOUS
<1>2. PICK f : Wraps(f, t, <<>>, 0) /\ Wrap(t, <<>>) = f[0]
  BY <1>1, WrapIs
<1> QED
  BY <1>2, WrapsAt

\* The top of the stack is the innermost continuation.
LEMMA WrapTop ==
    ASSUME NEW S, NEW fs \in Seq(S), NEW k \in S, NEW t
    PROVE  Wrap(t, Append(fs, k)) = Wrap(FlatMap(t, k), fs)
<1> DEFINE gs == Append(fs, k)
           N == Len(fs)
<1>1. N \in Nat /\ Len(gs) = N + 1 /\ gs[N + 1] = k /\ \A i \in 1..N : gs[i] = fs[i]
  OBVIOUS
<1> HIDE DEF gs, N
<1>2. PICK f : Wraps(f, t, gs, N + 1) /\ Wrap(t, gs) = f[N + 1]
  BY <1>1, WrapIs
<1>3. PICK g : Wraps(g, FlatMap(t, k), fs, N) /\ Wrap(FlatMap(t, k), fs) = g[N]
  <2> DEFINE u == FlatMap(t, k)
  <2> HIDE DEF u
  <2>1. PICK g : Wraps(g, u, fs, Len(fs)) /\ Wrap(u, fs) = g[Len(fs)]
    BY WrapIs
  <2> QED
    BY <2>1 DEF u, N
<1>4. /\ f[0] = t
      /\ \A m \in 0..(N + 1) : m # 0 => f[m] = FlatMap(f[m - 1], gs[(N + 1) + 1 - m])
  <2>1. N + 1 \in Nat
    BY <1>1
  <2>2. /\ f[0] = t
        /\ \A m \in 0..(N + 1) : m # 0 => f[m] = FlatMap(f[m - 1], gs[Len(gs) + 1 - m])
    BY <1>2, <2>1, WrapsAt
  <2> QED
    BY <1>1, <2>2
<1>5. /\ g[0] = FlatMap(t, k)
      /\ \A m \in 0..N : m # 0 => g[m] = FlatMap(g[m - 1], fs[N + 1 - m])
  BY <1>1, <1>3, WrapsAt DEF N
<1> DEFINE T == {m \in Nat : m <= N => f[m + 1] = g[m]}
<1>6. 0 \in T
  <2>1. 1 \in 0..(N + 1) /\ 1 # 0 /\ (N + 1) + 1 - 1 = N + 1 /\ 1 - 1 = 0
    BY <1>1
  <2>2. f[1] = FlatMap(f[0], gs[N + 1])
    BY <1>4, <2>1
  <2> QED
    BY <1>1, <1>4, <1>5, <2>2
<1>7. ASSUME NEW m \in Nat, m \in T PROVE m + 1 \in T
  <2>1. SUFFICES ASSUME m + 1 <= N PROVE f[(m + 1) + 1] = g[m + 1]
    OBVIOUS
  <2>2. /\ (m + 1) + 1 \in 0..(N + 1) /\ (m + 1) + 1 # 0 /\ ((m + 1) + 1) - 1 = m + 1
        /\ (N + 1) + 1 - ((m + 1) + 1) = N - m /\ N - m \in 1..N
        /\ m + 1 \in 0..N /\ m + 1 # 0 /\ (m + 1) - 1 = m /\ N + 1 - (m + 1) = N - m
    BY <1>1, <2>1
  <2>3. f[(m + 1) + 1] = FlatMap(f[m + 1], gs[N - m])
    BY <1>4, <2>2
  <2>4. g[m + 1] = FlatMap(g[m], fs[N - m])
    BY <1>5, <2>2
  <2>5. gs[N - m] = fs[N - m]
    BY <1>1, <2>2
  <2>6. f[m + 1] = g[m]
    BY <1>1, <1>7, <2>1
  <2> QED
    BY <2>3, <2>4, <2>5, <2>6
<1> HIDE DEF T
<1>8. \A m \in Nat : m \in T
  BY <1>6, <1>7, NatInduct
<1>9. f[N + 1] = g[N]
  BY <1>1, <1>8 DEF T
<1> QED
  BY <1>2, <1>3, <1>9 DEF gs

\* Performing ops leads from t to u: no larger, and with the rest of the meaning.
Leads(r, ops, t, u) ==
    \A n \in 0..Size :
        t \in Terms[n] =>
            u \in Terms[n] /\ Meaning(r)[t] = After(ops, Meaning(r)[u])

\* So it does with a continuation around both,
LEMMA LeadsBind ==
    ASSUME NEW r, NEW ops \in Seq(Operation), NEW t, NEW u, NEW k, Leads(r, ops, t, u)
    PROVE  Leads(r, ops, FlatMap(t, k), FlatMap(u, k))
<1>1. SUFFICES ASSUME NEW n \in 0..Size, FlatMap(t, k) \in Terms[n]
               PROVE  /\ FlatMap(u, k) \in Terms[n]
                      /\ Meaning(r)[FlatMap(t, k)] = After(ops, Meaning(r)[FlatMap(u, k)])
  BY DEF Leads
<1>2. PICK i \in Nat, j \in Nat :
          i + j = n - 1 /\ t \in Terms[i] /\ k \in [Values -> Terms[j]]
  BY <1>1, TermBinds
<1>3. i \in 0..Size /\ i + j < n
  BY <1>2
<1> DEFINE M == Meaning(r)
           a == M[t]
           b == M[u]
<1>4. u \in Terms[i] /\ a = After(ops, b)
  BY <1>2, <1>3 DEF Leads
<1>5. FlatMap(u, k) \in Terms[n]
  BY <1>2, <1>3, <1>4, BindTerm
<1>6. Terms[n] \subseteq Terms[Size] /\ Terms[i] \subseteq Terms[Size]
  BY <1>3, TermsGrow
<1>7. M[FlatMap(t, k)] = IF a.raised THEN a ELSE After(a.ops, M[k[a.value]])
  BY <1>1, <1>6, MeaningBind
<1>8. /\ k \in [Values -> Terms[Size]]
      /\ M[FlatMap(u, k)] = IF b.raised THEN b ELSE After(b.ops, M[k[b.value]])
  BY <1>5, <1>6, MeaningBind
<1>9. b \in Results
  BY <1>4, <1>6, MeaningTyped
<1>10. b.value \in Values /\ b.ops \in Seq(Operation)
  BY <1>9 DEF Results
<1>11. M[k[b.value]] \in Results
  BY <1>8, <1>10, MeaningTyped
<1> HIDE DEF M, a, b
<1>12. a.ops = ops \o b.ops /\ a.raised = b.raised /\ a.value = b.value
  BY <1>4, <1>9, AfterIs
<1>13. CASE b.raised
  BY <1>4, <1>5, <1>7, <1>8, <1>12, <1>13 DEF M
<1>14. CASE ~b.raised
  <2>1. M[FlatMap(t, k)] = After(ops \o b.ops, M[k[b.value]])
    BY <1>7, <1>12, <1>14
  <2>2. M[FlatMap(u, k)] = After(b.ops, M[k[b.value]])
    BY <1>8, <1>14
  <2>3. After(ops, After(b.ops, M[k[b.value]])) = After(ops \o b.ops, M[k[b.value]])
    BY <1>10, <1>11, AfterAfter
  <2> QED
    BY <1>5, <2>1, <2>2, <2>3 DEF M
<1> QED
  BY <1>13, <1>14

\* and with a stack of them.
LEMMA LeadsWrap ==
    ASSUME NEW r, NEW ops \in Seq(Operation), NEW t, NEW u, NEW fs, Len(fs) \in Nat,
           Leads(r, ops, t, u)
    PROVE  Leads(r, ops, Wrap(t, fs), Wrap(u, fs))
<1> DEFINE N == Len(fs)
<1>1. PICK f : Wraps(f, t, fs, N) /\ Wrap(t, fs) = f[N]
  BY WrapIs
<1>2. PICK g : Wraps(g, u, fs, N) /\ Wrap(u, fs) = g[N]
  BY WrapIs
<1>3. f[0] = t /\ \A m \in 0..N : m # 0 => f[m] = FlatMap(f[m - 1], fs[N + 1 - m])
  BY <1>1, WrapsAt
<1>4. g[0] = u /\ \A m \in 0..N : m # 0 => g[m] = FlatMap(g[m - 1], fs[N + 1 - m])
  BY <1>2, WrapsAt
<1>0. N \in Nat
  OBVIOUS
<1> HIDE DEF N
<1> DEFINE T == {m \in Nat : m <= N => Leads(r, ops, f[m], g[m])}
<1>5. 0 \in T
  BY <1>3, <1>4
<1>6. ASSUME NEW m \in Nat, m \in T PROVE m + 1 \in T
  <2>1. SUFFICES ASSUME m + 1 <= N PROVE Leads(r, ops, f[m + 1], g[m + 1])
    OBVIOUS
  <2>2. m + 1 \in 0..N /\ m + 1 # 0 /\ (m + 1) - 1 = m
    BY <1>0, <2>1
  <2>3. f[m + 1] = FlatMap(f[m], fs[N + 1 - (m + 1)])
    BY <1>3, <2>2
  <2>4. g[m + 1] = FlatMap(g[m], fs[N + 1 - (m + 1)])
    BY <1>4, <2>2
  <2>5. Leads(r, ops, f[m], g[m])
    BY <1>0, <1>6, <2>1
  <2> QED
    BY <2>3, <2>4, <2>5, LeadsBind
<1> HIDE DEF T
<1>7. \A m \in Nat : m \in T
  BY <1>5, <1>6, NatInduct
<1>8. Leads(r, ops, f[N], g[N])
  BY <1>0, <1>7 DEF T
<1> QED
  BY <1>1, <1>2, <1>8

\* What is in a term of the largest size is no larger.
LEMMA UnwrapTerms ==
    ASSUME NEW t, NEW fs, Len(fs) \in Nat, NEW f, Wraps(f, t, fs, Len(fs)),
           f[Len(fs)] \in Terms[Size]
    PROVE  \A m \in 0..Len(fs) : f[m] \in Terms[Size]
<1> DEFINE N == Len(fs)
<1>2. f[0] = t /\ \A m \in 0..N : m # 0 => f[m] = FlatMap(f[m - 1], fs[N + 1 - m])
  BY WrapsAt
<1>0. N \in Nat /\ f[N] \in Terms[Size]
  OBVIOUS
<1> HIDE DEF N
<1> DEFINE T == {m \in Nat : m <= N => f[N - m] \in Terms[Size]}
<1>3. 0 \in T
  BY <1>0
<1>4. ASSUME NEW m \in Nat, m \in T PROVE m + 1 \in T
  <2>1. SUFFICES ASSUME m + 1 <= N PROVE f[N - (m + 1)] \in Terms[Size]
    OBVIOUS
  <2>2. N - m \in 0..N /\ N - m # 0 /\ (N - m) - 1 = N - (m + 1)
    BY <1>0, <2>1
  <2>3. f[N - m] = FlatMap(f[N - (m + 1)], fs[N + 1 - (N - m)])
    BY <1>2, <2>2
  <2>4. f[N - m] \in Terms[Size]
    BY <1>0, <1>4, <2>1
  <2> QED
    BY <2>3, <2>4, MeaningBind
<1> HIDE DEF T
<1>5. \A m \in Nat : m \in T
  BY <1>3, <1>4, NatInduct
<1>6. ASSUME NEW m \in 0..N PROVE f[m] \in Terms[Size]
  <2>1. N - m \in Nat /\ N - m <= N /\ N - (N - m) = m
    BY <1>0
  <2> QED
    BY <1>5, <2>1 DEF T
<1> QED
  BY <1>6 DEF N

LEMMA UnwrapTerm ==
    ASSUME NEW S, NEW fs \in Seq(S), NEW t, Wrap(t, fs) \in Terms[Size]
    PROVE  t \in Terms[Size]
<1>1. Len(fs) \in Nat
  OBVIOUS
<1>2. PICK f : Wraps(f, t, fs, Len(fs)) /\ Wrap(t, fs) = f[Len(fs)]
  BY <1>1, WrapIs
<1>3. \A m \in 0..Len(fs) : f[m] \in Terms[Size]
  BY <1>1, <1>2, UnwrapTerms
<1>4. f[0] = t /\ 0 \in 0..Len(fs)
  BY <1>1, <1>2, WrapsAt
<1> QED
  BY <1>3, <1>4

\* A term that raises does so whatever is around it.
LEMMA RaisesWrap ==
    ASSUME NEW r, NEW t, NEW fs, Len(fs) \in Nat,
           Wrap(t, fs) \in Terms[Size], Meaning(r)[t].raised
    PROVE  Meaning(r)[Wrap(t, fs)] = Meaning(r)[t]
<1> DEFINE N == Len(fs)
<1>1. PICK f : Wraps(f, t, fs, N) /\ Wrap(t, fs) = f[N]
  BY WrapIs
<1>2. f[0] = t /\ \A m \in 0..N : m # 0 => f[m] = FlatMap(f[m - 1], fs[N + 1 - m])
  BY <1>1, WrapsAt
<1>6. \A m \in 0..N : f[m] \in Terms[Size]
  BY <1>1, UnwrapTerms
<1>0. N \in Nat
  OBVIOUS
<1> HIDE DEF N
<1> DEFINE W == {m \in Nat : m <= N => Meaning(r)[f[m]] = Meaning(r)[t]}
<1>7. 0 \in W
  BY <1>2
<1>8. ASSUME NEW m \in Nat, m \in W PROVE m + 1 \in W
  <2>1. SUFFICES ASSUME m + 1 <= N PROVE Meaning(r)[f[m + 1]] = Meaning(r)[t]
    OBVIOUS
  <2>2. m + 1 \in 0..N /\ m + 1 # 0 /\ (m + 1) - 1 = m
    BY <1>0, <2>1
  <2>3. f[m + 1] = FlatMap(f[m], fs[N + 1 - (m + 1)])
    BY <1>2, <2>2
  <2>4. f[m + 1] \in Terms[Size]
    BY <1>6, <2>2
  <2>5. Meaning(r)[f[m]] = Meaning(r)[t]
    BY <1>0, <1>8, <2>1
  <2> QED
    BY <2>3, <2>4, <2>5, MeaningBind
<1> HIDE DEF W
<1>9. \A m \in Nat : m \in W
  BY <1>7, <1>8, NatInduct
<1>10. Meaning(r)[f[N]] = Meaning(r)[t]
  BY <1>0, <1>9 DEF W
<1> QED
  BY <1>1, <1>10

----------------------------------------------------------------------------
(* What the steps of the runners do to a term.                                *)

\* An operation that does not raise leads to its reply,
LEMMA OperationLeads ==
    ASSUME NEW r, NEW op \in Operation, ~Raises(r, op)
    PROVE  Leads(r, Effects(op), Suspend(op), Pure(Reply(op)))
<1>1. SUFFICES ASSUME NEW n \in 0..Size, Suspend(op) \in Terms[n]
               PROVE  /\ Pure(Reply(op)) \in Terms[n]
                      /\ Meaning(r)[Suspend(op)] =
                             After(Effects(op), Meaning(r)[Pure(Reply(op))])
  BY DEF Leads
<1>2. Pure(Reply(op)) \in Leaves
  BY ReplyTyped DEF Pure, Leaves
<1>3. Leaves \subseteq Terms[n] /\ Leaves \subseteq Terms[Size]
  BY LeafTerm
<1>4. Terms[n] \subseteq Terms[Size]
  BY TermsGrow
<1>5. Meaning(r)[Pure(Reply(op))] = Returns(Reply(op))
  BY <1>2, <1>3, MeaningPure
<1>6. Meaning(r)[Suspend(op)] = After(Effects(op), Returns(Reply(op)))
  BY <1>1, <1>4, MeaningSuspend
<1> QED
  BY <1>2, <1>3, <1>5, <1>6

\* binding a value to a continuation leads to what that returns,
LEMMA ApplyLeads ==
    ASSUME NEW r, NEW v, NEW k
    PROVE  Leads(r, <<>>, FlatMap(Pure(v), k), k[v])
<1>1. SUFFICES ASSUME NEW n \in 0..Size, FlatMap(Pure(v), k) \in Terms[n]
               PROVE  /\ k[v] \in Terms[n]
                      /\ Meaning(r)[FlatMap(Pure(v), k)] = After(<<>>, Meaning(r)[k[v]])
  BY DEF Leads
<1>2. PICK i \in Nat, j \in Nat :
          i + j = n - 1 /\ Pure(v) \in Terms[i] /\ k \in [Values -> Terms[j]]
  BY <1>1, TermBinds
<1>3. i <= Size /\ j <= n /\ n <= Size
  BY <1>2
<1>4. /\ Terms[i] \subseteq Terms[Size] /\ Terms[j] \subseteq Terms[n]
      /\ Terms[n] \subseteq Terms[Size]
  BY <1>3, TermsGrow
<1>5. v \in Values
  <2>1. Pure(v).is = "pure" /\ Pure(v).value = v
    BY DEF Pure
  <2> QED
    BY <1>2, <2>1, Shapes
<1>6. k[v] \in Terms[n]
  BY <1>2, <1>4, <1>5
<1>7. Meaning(r)[Pure(v)] = Returns(v)
  BY <1>2, <1>4, MeaningPure
<1>8. Returns(v).raised = FALSE /\ Returns(v).ops = <<>> /\ Returns(v).value = v
  BY DEF Returns
<1>9. Meaning(r)[FlatMap(Pure(v), k)] = After(<<>>, Meaning(r)[k[v]])
  BY <1>1, <1>4, <1>7, <1>8, MeaningBind
<1> QED
  BY <1>6, <1>9

\* and so does re-association to the term re-associated.
LEMMA ReassociateLeads ==
    ASSUME NEW r, NEW t, NEW f, NEW g
    PROVE  Leads(r, <<>>, FlatMap(FlatMap(t, f), g), Reassociate(t, f, g))
<1>1. SUFFICES ASSUME NEW n \in 0..Size, FlatMap(FlatMap(t, f), g) \in Terms[n]
               PROVE  /\ Reassociate(t, f, g) \in Terms[n]
                      /\ Meaning(r)[FlatMap(FlatMap(t, f), g)] =
                             After(<<>>, Meaning(r)[Reassociate(t, f, g)])
  BY DEF Leads
<1>2. Terms[n] \subseteq Terms[Size]
  BY TermsGrow
<1>3. Reassociate(t, f, g) \in Terms[n]
  BY <1>1, ReassociateTerm
<1>4. Meaning(r)[Reassociate(t, f, g)] = Meaning(r)[FlatMap(FlatMap(t, f), g)]
  BY <1>1, <1>2, Associative
<1>5. Meaning(r)[Reassociate(t, f, g)] \in Results
  BY <1>2, <1>3, MeaningTyped
<1> QED
  BY <1>3, <1>4, <1>5, AfterNothing

\* Operations done and a rest that means m still mean m when more is done.
LEMMA LeadsOn ==
    ASSUME NEW r, NEW done \in Seq(Operation), NEW ops \in Seq(Operation),
           NEW t \in Terms[Size], NEW u, Leads(r, ops, t, u)
    PROVE  /\ u \in Terms[Size]
           /\ After(done \o ops, Meaning(r)[u]) = After(done, Meaning(r)[t])
<1>1. u \in Terms[Size] /\ Meaning(r)[t] = After(ops, Meaning(r)[u])
  BY DEF Leads
<1>2. Meaning(r)[u] \in Results
  BY <1>1, MeaningTyped
<1> QED
  BY <1>1, <1>2, AfterAfter

----------------------------------------------------------------------------
(* The invariant.                                                             *)

Systems == Flows \cup {"none"}

Typed ==
    /\ program \in [Flows -> Terms[Size]]
    /\ runner \in [Flows -> Runners]
    /\ current \in [Flows -> Terms[Size]]
    /\ stack \in [Flows -> Seq([Values -> Terms[Size]])]
    /\ pc \in [Flows -> {"start", "fast", "run", "done", "failed"}]
    /\ result \in [Flows -> Values]
    /\ system \in [Flows -> Systems]
    /\ log \in [Flows -> Seq(Systems \X Operation)]

\* The system is settled before an operation is performed.
OnSystem(w) ==
    /\ pc[w] \in {"fast", "run"} => system[w] = w
    /\ \A i \in DOMAIN log[w] : log[w][i][1] = w

\* Only a single operation takes the fast path, and nothing is stacked for it.
Fresh(w) ==
    /\ pc[w] \in {"start", "fast"} => stack[w] = <<>>
    /\ pc[w] = "fast" => /\ runner[w] = "live"
                         /\ current[w].is = "suspend" /\ current[w].op.kind # "get_ref"

\* What is left is no larger than a program, and with what is done it is the program.
OnProgram(w) ==
    /\ Wrap(current[w], stack[w]) \in Terms[Size]
    /\ After(Ops(w), Remaining(w)) = Meaning(runner[w])[program[w]]

IInv == Typed /\ \A w \in Flows : OnSystem(w) /\ Fresh(w) /\ OnProgram(w)

LEMMA OpsTyped ==
    ASSUME Typed, NEW w \in Flows PROVE Ops(w) \in Seq(Operation)
<1>1. PICK s \in Seq(Systems \X Operation) : s = log[w]
  BY DEF Typed
<1>2. \A i \in 1..Len(s) : s[i][2] \in Operation
  BY <1>1
<1>3. Ops(w) = [i \in 1..Len(s) |-> s[i][2]]
  BY <1>1 DEF Ops
<1>4. Len(s) \in Nat
  OBVIOUS
<1> QED
  BY <1>2, <1>3, <1>4

\* The initial states.
LEMMA InitInv == Init => IInv
<1> SUFFICES ASSUME Init PROVE IInv
  OBVIOUS
<1>1. program \in [Flows -> Terms[Size]]
  <2>1. \A w \in Flows : program[w] \in Terms[Size]
    BY DEF Init, Bounded
  <2>2. program = [w \in Flows |-> program[w]]
    BY DEF Init
  <2> QED
    BY <2>1, <2>2
<1>2. \A w \in Flows :
         /\ Merge[program[w]] \in Terms[Size]
         /\ \A r : Meaning(r)[Merge[program[w]]] = Meaning(r)[program[w]]
  <2>1. Size \in 0..Size
    BY DEF Bounded
  <2> QED
    BY <1>1, <2>1, MergeMeans
<1>3. /\ current \in [Flows -> Terms[Size]]
      /\ \A w \in Flows : Meaning(runner[w])[current[w]] = Meaning(runner[w])[program[w]]
  <2>1. CASE current = program
    BY <1>1, <2>1
  <2>2. CASE current = [w \in Flows |-> Merge[program[w]]]
    BY <1>2, <2>2
  <2> QED
    BY <2>1, <2>2 DEF Init
<1>4. Typed
  <2>1. None \in Values
    BY DEF Bounded
  <2> QED
    BY <1>1, <1>3, <2>1 DEF Init, Typed, Systems
<1>5. ASSUME NEW w \in Flows PROVE OnSystem(w) /\ Fresh(w) /\ OnProgram(w)
  <2>1. pc[w] = "start" /\ stack[w] = <<>> /\ log[w] = <<>>
    BY DEF Init
  <2>2. OnSystem(w) /\ Fresh(w)
    BY <2>1 DEF OnSystem, Fresh
  <2>3. Wrap(current[w], stack[w]) = current[w]
    BY <2>1, WrapNothing
  <2>4. Ops(w) = <<>>
    BY <2>1 DEF Ops
  <2>5. Remaining(w) = Meaning(runner[w])[current[w]]
    BY <2>1, <2>3 DEF Remaining
  <2>6. current[w] \in Terms[Size]
    BY <1>3
  <2>7. Meaning(runner[w])[current[w]] \in Results
    BY <2>6, MeaningTyped
  <2>8. After(<<>>, Meaning(runner[w])[current[w]]) = Meaning(runner[w])[program[w]]
    BY <1>3, <2>7, AfterNothing
  <2>9. OnProgram(w)
    BY <2>3, <2>4, <2>5, <2>6, <2>8 DEF OnProgram
  <2> QED
    BY <2>2, <2>9
<1> QED
  BY <1>4, <1>5 DEF IInv

----------------------------------------------------------------------------
(* The steps keep it.                                                         *)

\* The elements of two sequences in a row.
LEMMA InARow ==
    ASSUME NEW S, NEW s \in Seq(S), NEW t \in Seq(S)
    PROVE  /\ s \o t \in Seq(S)
           /\ Len(s \o t) = Len(s) + Len(t)
           /\ \A i \in 1..Len(s) : (s \o t)[i] = s[i]
           /\ \A i \in 1..Len(t) : (s \o t)[Len(s) + i] = t[i]
  OBVIOUS

\* Performing an operation on the settled system.
LEMMA Performed ==
    ASSUME Typed, NEW w \in Flows, NEW op \in Operation, Perform(w, op),
           OnSystem(w), system[w] = w
    PROVE  /\ log' \in [Flows -> Seq(Systems \X Operation)]
           /\ \A v \in Flows \ {w} : log'[v] = log[v]
           /\ \A i \in DOMAIN log'[w] : log'[w][i][1] = w
           /\ Ops(w)' = Ops(w) \o Effects(op)
<1> DEFINE e == [i \in DOMAIN Effects(op) |-> <<system[w], Effects(op)[i]>>]
           new == log[w] \o e
<1>1. log' = [log EXCEPT ![w] = new]
  BY DEF Perform
<1>2. log \in [Flows -> Seq(Systems \X Operation)] /\ log[w] \in Seq(Systems \X Operation)
  BY DEF Typed
<1>3. e \in Seq(Systems \X Operation) /\ Len(e) = Len(Effects(op))
      /\ \A i \in 1..Len(e) : e[i] = <<w, Effects(op)[i]>>
  <2>1. CASE op.kind = "get_ref"
    <3>1. Effects(op) = <<>>
      BY <2>1 DEF Effects
    <3> QED
      BY <3>1
  <2>2. CASE op.kind # "get_ref"
    <3>1. Effects(op) = <<op>>
      BY <2>2 DEF Effects
    <3>2. e = << <<w, op>> >>
      BY <3>1
    <3>3. <<w, op>> \in Systems \X Operation
      BY DEF Systems
    <3> QED
      BY <3>1, <3>2, <3>3
  <2> QED
    BY <2>1, <2>2
<1>4. Effects(op) \in Seq(Operation)
  BY EffectsTyped
<1> HIDE DEF e
<1>5. /\ new \in Seq(Systems \X Operation)
      /\ Len(new) = Len(log[w]) + Len(e)
      /\ \A i \in 1..Len(log[w]) : new[i] = log[w][i]
      /\ \A i \in 1..Len(e) : new[Len(log[w]) + i] = e[i]
  <2>1. PICK s \in Seq(Systems \X Operation), d \in Seq(Systems \X Operation) :
            s = log[w] /\ d = e
    BY <1>2, <1>3
  <2>2. /\ s \o d \in Seq(Systems \X Operation)
        /\ Len(s \o d) = Len(s) + Len(d)
        /\ \A i \in 1..Len(s) : (s \o d)[i] = s[i]
        /\ \A i \in 1..Len(d) : (s \o d)[Len(s) + i] = d[i]
    BY InARow
  <2> QED
    BY <2>1, <2>2
<1> HIDE DEF new
<1>6. log'[w] = new
  BY <1>1, <1>2
<1>7. log' \in [Flows -> Seq(Systems \X Operation)]
      /\ \A v \in Flows \ {w} : log'[v] = log[v]
  BY <1>1, <1>2, <1>5
<1>8. \A i \in 1..Len(new) : i \in 1..Len(log[w])
          \/ (i - Len(log[w]) \in 1..Len(e) /\ new[i] = e[i - Len(log[w])])
  <2>1. Len(log[w]) \in Nat /\ Len(e) \in Nat
    BY <1>2, <1>3
  <2>2. ASSUME NEW i \in 1..Len(new), i \notin 1..Len(log[w])
        PROVE  i - Len(log[w]) \in 1..Len(e) /\ new[i] = e[i - Len(log[w])]
    <3>1. i - Len(log[w]) \in 1..Len(e) /\ i = Len(log[w]) + (i - Len(log[w]))
      BY <1>5, <2>1, <2>2
    <3> QED
      BY <1>5, <3>1
  <2> QED
    BY <2>2
<1>9. \A i \in DOMAIN new : new[i][1] = w
  <2>1. DOMAIN new = 1..Len(new) /\ DOMAIN log[w] = 1..Len(log[w])
    BY <1>2, <1>5
  <2>2. ASSUME NEW i \in 1..Len(new) PROVE new[i][1] = w
    <3>1. CASE i \in 1..Len(log[w])
      BY <1>5, <2>1, <3>1 DEF OnSystem
    <3>2. CASE i \notin 1..Len(log[w])
      <4>1. i - Len(log[w]) \in 1..Len(e) /\ new[i] = e[i - Len(log[w])]
        BY <1>8, <3>2
      <4>2. e[i - Len(log[w])] = <<w, Effects(op)[i - Len(log[w])]>>
        BY <1>3, <4>1
      <4> QED
        BY <4>1, <4>2
    <3> QED
      BY <3>1, <3>2
  <2> QED
    BY <2>1, <2>2
<1>10. Ops(w)' = Ops(w) \o Effects(op)
  <2>1. PICK s \in Seq(Systems \X Operation) : s = log[w]
    BY <1>2
  <2>2. PICK t \in Seq(Systems \X Operation) : t = new
    BY <1>5
  <2>3. PICK d \in Seq(Systems \X Operation) : d = e
    BY <1>3
  <2>4. PICK o \in Seq(Operation) : o = Effects(op)
    BY <1>4
  <2> DEFINE before == [i \in 1..Len(s) |-> s[i][2]]
             after  == [i \in 1..Len(t) |-> t[i][2]]
  <2>5. before = Ops(w) /\ after = Ops(w)'
    <3>1. DOMAIN s = 1..Len(s) /\ DOMAIN t = 1..Len(t)
      OBVIOUS
    <3> QED
      BY <1>6, <2>1, <2>2, <3>1 DEF Ops
  <2>6. /\ before \in Seq(Operation) /\ Len(before) = Len(s)
        /\ \A i \in 1..Len(s) : before[i] = s[i][2]
    <3>1. \A i \in 1..Len(s) : s[i][2] \in Operation
      OBVIOUS
    <3> QED
      BY <3>1
  <2>7. /\ after \in Seq(Operation) /\ Len(after) = Len(t)
        /\ \A i \in 1..Len(t) : after[i] = t[i][2]
    <3>1. \A i \in 1..Len(t) : t[i][2] \in Operation
      OBVIOUS
    <3> QED
      BY <3>1
  <2> HIDE DEF before, after
  <2>8. Len(t) = Len(s) + Len(o) /\ Len(d) = Len(o) /\ Len(s) \in Nat /\ Len(o) \in Nat
    BY <1>3, <1>5, <2>1, <2>2, <2>3, <2>4
  <2>9. ASSUME NEW i \in 1..Len(t) PROVE after[i] = (before \o o)[i]
    <3>1. CASE i \in 1..Len(s)
      <4>1. t[i] = s[i]
        BY <1>5, <2>1, <2>2, <3>1
      <4> QED
        BY <2>6, <2>7, <2>8, <3>1, <4>1
    <3>2. CASE i \notin 1..Len(s)
      <4>1. i - Len(s) \in 1..Len(o)
        BY <2>8, <3>2
      <4>2. t[i] = d[i - Len(s)]
        BY <1>8, <2>1, <2>2, <2>3, <3>2
      <4>3. d[i - Len(s)] = <<w, o[i - Len(s)]>>
        BY <1>3, <2>3, <2>4, <2>8, <4>1
      <4>4. (before \o o)[i] = o[i - Len(s)]
        <5>1. (before \o o)[Len(before) + (i - Len(s))] = o[i - Len(s)]
          BY <2>6, <4>1, InARow
        <5>2. Len(before) + (i - Len(s)) = i
          BY <2>6, <2>8
        <5> QED
          BY <5>1, <5>2
      <4> QED
        BY <2>7, <4>2, <4>3, <4>4
    <3> QED
      BY <3>1, <3>2
  <2>10. /\ before \o o \in Seq(Operation) /\ Len(after) = Len(before \o o)
         /\ \A i \in 1..Len(after) : after[i] = (before \o o)[i]
    <3>1. before \o o \in Seq(Operation) /\ Len(before \o o) = Len(before) + Len(o)
      BY <2>6, InARow
    <3> QED
      BY <2>6, <2>7, <2>8, <2>9, <3>1
  <2>11. after = before \o o
    BY <2>7, <2>10, SeqEqual
  <2> QED
    BY <2>4, <2>5, <2>11
<1> QED
  BY <1>6, <1>7, <1>9, <1>10

\* What a workflow has left, by where it is.
LEMMA RemainingIs ==
    ASSUME NEW w
    PROVE  /\ pc[w] = "done" => Remaining(w) = Returns(result[w])
           /\ pc[w] = "failed" => Remaining(w) = RaisedNow
           /\ pc[w] \notin {"done", "failed"} =>
                  Remaining(w) = Meaning(runner[w])[Wrap(current[w], stack[w])]
  BY DEF Remaining

LEMMA RemainingIsNext ==
    ASSUME NEW w
    PROVE  /\ pc'[w] = "done" => Remaining(w)' = Returns(result'[w])
           /\ pc'[w] = "failed" => Remaining(w)' = RaisedNow
           /\ pc'[w] \notin {"done", "failed"} =>
                  Remaining(w)' = Meaning(runner'[w])[Wrap(current'[w], stack'[w])]
  BY DEF Remaining

\* Nothing of workflow v changes.
Unmoved(v) ==
    /\ program'[v] = program[v] /\ runner'[v] = runner[v] /\ current'[v] = current[v]
    /\ stack'[v] = stack[v] /\ pc'[v] = pc[v] /\ result'[v] = result[v]
    /\ system'[v] = system[v] /\ log'[v] = log[v]

LEMMA UnmovedKeeps ==
    ASSUME NEW v, Unmoved(v), OnSystem(v), Fresh(v), OnProgram(v)
    PROVE  OnSystem(v)' /\ Fresh(v)' /\ OnProgram(v)'
<1>1. OnSystem(v)' /\ Fresh(v)'
  BY DEF Unmoved, OnSystem, Fresh
<1>2. Ops(v)' = Ops(v)
  BY DEF Unmoved, Ops
<1>3. Remaining(v)' = Remaining(v)
  BY RemainingIs, RemainingIsNext, Zenon DEF Unmoved
<1>4. OnProgram(v)'
  BY <1>2, <1>3, Zenon DEF Unmoved, OnProgram
<1> QED
  BY <1>1, <1>4

\* A workflow that goes on from t to u, performing ops.
LEMMA GoesOn ==
    ASSUME Typed, NEW w \in Flows, OnProgram(w),
           pc[w] \notin {"done", "failed"}, pc'[w] \notin {"done", "failed"},
           program'[w] = program[w], runner'[w] = runner[w],
           NEW ops \in Seq(Operation), Ops(w)' = Ops(w) \o ops,
           Leads(runner[w], ops, Wrap(current[w], stack[w]), Wrap(current'[w], stack'[w]))
    PROVE  OnProgram(w)'
<1>1. PICK r, t, u : r = runner[w] /\ t = Wrap(current[w], stack[w])
                                    /\ u = Wrap(current'[w], stack'[w])
  OBVIOUS
<1>2. PICK o \in Seq(Operation) : o = Ops(w)
  BY OpsTyped
<1>3. t \in Terms[Size] /\ Leads(r, ops, t, u)
  BY <1>1 DEF OnProgram
<1>4. u \in Terms[Size] /\ After(o \o ops, Meaning(r)[u]) = After(o, Meaning(r)[t])
  BY <1>3, LeadsOn
<1>5. Remaining(w) = Meaning(r)[t]
  BY <1>1, RemainingIs
<1>6. Remaining(w)' = Meaning(r)[u]
  BY <1>1, RemainingIsNext
<1>7. After(o, Meaning(r)[t]) = Meaning(r)[program[w]]
  BY <1>1, <1>2, <1>5 DEF OnProgram
<1>8. After(Ops(w)', Remaining(w)') = Meaning(runner'[w])[program'[w]]
  BY <1>1, <1>2, <1>4, <1>6, <1>7
<1> QED
  BY <1>1, <1>4, <1>8 DEF OnProgram

\* A workflow that ends, after ops, with outcome m.
LEMMA Ends ==
    ASSUME Typed, NEW w \in Flows, OnProgram(w), pc[w] \notin {"done", "failed"},
           program'[w] = program[w], runner'[w] = runner[w],
           current'[w] = current[w], stack'[w] = stack[w],
           NEW ops \in Seq(Operation), Ops(w)' = Ops(w) \o ops,
           Remaining(w)' \in Results,
           Remaining(w) = After(ops, Remaining(w)')
    PROVE  OnProgram(w)'
<1>1. PICK m \in Results : m = Remaining(w)'
  OBVIOUS
<1>2. PICK o \in Seq(Operation) : o = Ops(w)
  BY OpsTyped
<1>3. After(o, After(ops, m)) = After(o \o ops, m)
  BY AfterAfter
<1>4. After(Ops(w)', Remaining(w)') = Meaning(runner'[w])[program'[w]]
  BY <1>1, <1>2, <1>3 DEF OnProgram
<1> QED
  BY <1>4 DEF OnProgram

\* The top of a stack and what is below it.
LEMMA TopOff ==
    ASSUME NEW S, NEW s \in Seq(S), s # <<>>
    PROVE  /\ SubSeq(s, 1, Len(s) - 1) \in Seq(S)
           /\ s[Len(s)] \in S
           /\ s = Append(SubSeq(s, 1, Len(s) - 1), s[Len(s)])
<1>1. PICK t \in Seq(S), e \in S : s = Append(t, e)
  BY SequenceEmptyOrAppend
<1>2. Len(s) = Len(t) + 1 /\ s[Len(s)] = e /\ Len(t) \in Nat /\ \A i \in 1..Len(t) : s[i] = t[i]
  BY <1>1
<1> DEFINE u == SubSeq(s, 1, Len(s) - 1)
<1>3. u \in Seq(S) /\ Len(u) = Len(t) /\ \A i \in 1..Len(u) : u[i] = t[i]
  BY <1>2
<1> HIDE DEF u
<1>4. u = t
  BY <1>3, SeqEqual
<1> QED
  BY <1>1, <1>2, <1>3, <1>4 DEF u

LEMMA OneMoves ==
    ASSUME IInv, NEW w \in Flows, Typed', \A v \in Flows \ {w} : Unmoved(v),
           OnSystem(w)', Fresh(w)', OnProgram(w)'
    PROVE  IInv'
<1>1. ASSUME NEW v \in Flows PROVE OnSystem(v)' /\ Fresh(v)' /\ OnProgram(v)'
  <2>1. CASE v = w
    BY <2>1
  <2>2. CASE v # w
    <3>1. Unmoved(v)
      BY <2>2
    <3>2. OnSystem(v) /\ Fresh(v) /\ OnProgram(v)
      BY DEF IInv
    <3> QED
      BY <3>1, <3>2, UnmovedKeeps
  <2> QED
    BY <2>1, <2>2
<1> QED
  BY <1>1 DEF IInv

\* A step that performs nothing leaves the operations and their systems.
LEMMA NothingPerformed ==
    ASSUME Typed, NEW w \in Flows, log' = log
    PROVE  Ops(w)' = Ops(w) \o <<>> /\ <<>> \in Seq(Operation)
<1>1. PICK o \in Seq(Operation) : o = Ops(w)
  BY OpsTyped
<1>2. Ops(w)' = Ops(w)
  BY DEF Ops
<1>3. o \o <<>> = o
  BY ConcatEmptySeq
<1> QED
  BY <1>1, <1>2, <1>3

LEMMA StartKeeps ==
    ASSUME IInv, NEW w \in Flows, Start(w) PROVE IInv'
<1> DEFINE fast == /\ runner[w] = "live"
                   /\ current[w].is = "suspend" /\ current[w].op.kind # "get_ref"
<1>1. /\ pc[w] = "start" /\ pc' = [pc EXCEPT ![w] = IF fast THEN "fast" ELSE "run"]
      /\ cached' = IF runner[w] = "live" /\ ~fast THEN InterpreterFor(w) ELSE cached
      /\ system' = [system EXCEPT ![w] = IF runner[w] = "live" /\ ~fast THEN cached' ELSE w]
      /\ UNCHANGED <<program, runner, current, stack, result, log>>
  BY DEF Start
<1>2. InterpreterFor(w) = w
  BY DEF InterpreterFor
<1>3. system' = [system EXCEPT ![w] = w]
  BY <1>1, <1>2
<1>4. Typed /\ OnSystem(w) /\ Fresh(w) /\ OnProgram(w)
  BY DEF IInv
<1>5. /\ pc'[w] = IF fast THEN "fast" ELSE "run"
      /\ system'[w] = w
      /\ \A v \in Flows \ {w} : pc'[v] = pc[v] /\ system'[v] = system[v]
  BY <1>1, <1>3, <1>4 DEF Typed
<1>6. Typed'
  BY <1>1, <1>3, <1>4 DEF Typed, Systems
<1>7. \A v \in Flows \ {w} : Unmoved(v)
  BY <1>1, <1>5 DEF Unmoved
<1>8. OnSystem(w)'
  BY <1>1, <1>4, <1>5 DEF OnSystem
<1>9. Fresh(w)'
  BY <1>1, <1>4, <1>5 DEF Fresh
<1>10. OnProgram(w)'
  <2>1. Ops(w)' = Ops(w)
    BY <1>1 DEF Ops
  <2>2. pc[w] \notin {"done", "failed"} /\ pc'[w] \notin {"done", "failed"}
    BY <1>1, <1>5
  <2>3. Remaining(w)' = Remaining(w)
    BY <1>1, <2>2, RemainingIs, RemainingIsNext
  <2> QED
    BY <1>1, <1>4, <2>1, <2>3 DEF OnProgram
<1> QED
  BY <1>6, <1>7, <1>8, <1>9, <1>10, OneMoves

\* A value that a workflow ends with.
LEMMA FinishEnds ==
    ASSUME Typed, NEW w \in Flows, OnProgram(w), pc[w] \in {"fast", "run"},
           NEW v \in Values, Finish(w, v),
           UNCHANGED <<program, runner, current, stack>>,
           NEW ops \in Seq(Operation), Ops(w)' = Ops(w) \o ops,
           Remaining(w) = After(ops, Returns(v))
    PROVE  OnProgram(w)'
<1>1. pc'[w] = "done" /\ result'[w] = v
  BY DEF Finish, Typed
<1>2. Remaining(w)' = Returns(v)
  BY <1>1, RemainingIsNext
<1>3. Returns(v) \in Results
  BY ReturnsTyped
<1>4. pc[w] \notin {"done", "failed"}
  OBVIOUS
<1> QED
  BY <1>2, <1>3, <1>4, Ends

\* A workflow whose stack is empty has its term left.
LEMMA AloneRemains ==
    ASSUME NEW w, pc[w] \notin {"done", "failed"}, stack[w] = <<>>
    PROVE  Remaining(w) = Meaning(runner[w])[current[w]]
<1>1. Wrap(current[w], stack[w]) = current[w]
  BY WrapNothing
<1> QED
  BY <1>1, RemainingIs

\* The operation that a term is.
LEMMA AtOperation ==
    ASSUME Typed, NEW w \in Flows, current[w].is = "suspend"
    PROVE  /\ current[w].op \in Operation
           /\ current[w] = Suspend(current[w].op)
           /\ Reply(current[w].op) \in Values
           /\ Effects(current[w].op) \in Seq(Operation)
           /\ ~Raises(runner[w], current[w].op) =>
                  Meaning(runner[w])[current[w]] =
                      After(Effects(current[w].op), Returns(Reply(current[w].op)))
           /\ Raises(runner[w], current[w].op) =>
                  Meaning(runner[w])[current[w]] = After(Effects(current[w].op), RaisedNow)
<1>1. current[w] \in Terms[Size]
  BY DEF Typed
<1>2. PICK t, r : t \in Terms[Size] /\ t = current[w] /\ r = runner[w]
  BY <1>1
<1>3. t.op \in Operation /\ t = Suspend(t.op)
  BY <1>2, Shapes
<1>4. Suspend(t.op) \in Terms[Size]
  BY <1>2, <1>3
<1>5. Meaning(r)[Suspend(t.op)] =
          After(Effects(t.op), IF Raises(r, t.op) THEN RaisedNow ELSE Returns(Reply(t.op)))
  BY <1>4, MeaningSuspend
<1>6. Reply(t.op) \in Values /\ Effects(t.op) \in Seq(Operation)
  BY <1>3, ReplyTyped, EffectsTyped
<1> QED
  BY <1>2, <1>3, <1>5, <1>6

LEMMA FastPathKeeps ==
    ASSUME IInv, NEW w \in Flows, FastPath(w) PROVE IInv'
<1>1. /\ pc[w] = "fast" /\ Perform(w, current[w].op) /\ Finish(w, Reply(current[w].op))
      /\ UNCHANGED <<program, runner, current, stack, system, cached>>
  BY DEF FastPath
<1>2. Typed /\ OnSystem(w) /\ Fresh(w) /\ OnProgram(w)
  BY DEF IInv
<1>3. /\ runner[w] = "live" /\ current[w].is = "suspend" /\ current[w].op.kind # "get_ref"
      /\ stack[w] = <<>> /\ system[w] = w
  BY <1>1, <1>2 DEF Fresh, OnSystem
<1>4. /\ current[w].op \in Operation /\ Reply(current[w].op) \in Values
      /\ Effects(current[w].op) \in Seq(Operation)
      /\ ~Raises(runner[w], current[w].op)
      /\ Meaning(runner[w])[current[w]] =
             After(Effects(current[w].op), Returns(Reply(current[w].op)))
  BY <1>2, <1>3, AtOperation DEF Raises
<1>5. /\ log' \in [Flows -> Seq(Systems \X Operation)]
      /\ \A v \in Flows \ {w} : log'[v] = log[v]
      /\ \A i \in DOMAIN log'[w] : log'[w][i][1] = w
      /\ Ops(w)' = Ops(w) \o Effects(current[w].op)
  BY <1>1, <1>2, <1>3, <1>4, Performed
<1>6. /\ pc' = [pc EXCEPT ![w] = "done"]
      /\ result' = [result EXCEPT ![w] = Reply(current[w].op)]
  BY <1>1 DEF Finish
<1>7. /\ pc'[w] = "done"
      /\ \A v \in Flows \ {w} : pc'[v] = pc[v] /\ result'[v] = result[v]
  BY <1>2, <1>6 DEF Typed
<1>8. Typed'
  BY <1>1, <1>2, <1>4, <1>5, <1>6 DEF Typed
<1>9. \A v \in Flows \ {w} : Unmoved(v)
  BY <1>1, <1>5, <1>7 DEF Unmoved
<1>10. OnSystem(w)' /\ Fresh(w)'
  BY <1>5, <1>7 DEF OnSystem, Fresh
<1>11. OnProgram(w)'
  <2>1. Remaining(w) = Meaning(runner[w])[current[w]]
    BY <1>1, <1>3, AloneRemains
  <2> QED
    BY <1>1, <1>2, <1>4, <1>5, <2>1, FinishEnds
<1> QED
  BY <1>8, <1>9, <1>10, <1>11, OneMoves

LEMMA PushKeeps ==
    ASSUME IInv, NEW w \in Flows, Push(w) PROVE IInv'
<1>1. /\ pc[w] = "run" /\ current[w].is = "flatMap"
      /\ stack' = [stack EXCEPT ![w] = Append(@, current[w].f)]
      /\ current' = [current EXCEPT ![w] = @.thunk]
      /\ UNCHANGED <<program, runner, pc, result, system, log, cached>>
  BY DEF Push, At
<1>2. Typed /\ OnSystem(w) /\ Fresh(w) /\ OnProgram(w)
  BY DEF IInv
<1>3. PICK t \in Terms[Size], fs \in Seq([Values -> Terms[Size]]) :
          t = current[w] /\ fs = stack[w]
  BY <1>2 DEF Typed
<1>4. t = FlatMap(t.thunk, t.f)
  BY <1>1, <1>3, Shapes
<1>5. FlatMap(t.thunk, t.f) \in Terms[Size]
  BY <1>4
<1>6. t.thunk \in Terms[Size] /\ t.f \in [Values -> Terms[Size]]
  BY <1>5, MeaningBind
<1>7. Wrap(t.thunk, Append(fs, t.f)) = Wrap(FlatMap(t.thunk, t.f), fs)
  BY <1>6, WrapTop
<1>8. /\ current'[w] = t.thunk /\ stack'[w] = Append(fs, t.f)
      /\ \A v \in Flows \ {w} : current'[v] = current[v] /\ stack'[v] = stack[v]
  BY <1>1, <1>2, <1>3 DEF Typed
<1>9. Append(fs, t.f) \in Seq([Values -> Terms[Size]])
  BY <1>6
<1>10. Typed'
  <2>1. current' \in [Flows -> Terms[Size]]
    BY <1>1, <1>2, <1>3, <1>6 DEF Typed
  <2>2. stack' = [stack EXCEPT ![w] = Append(fs, t.f)]
    BY <1>1, <1>3
  <2>3. stack' \in [Flows -> Seq([Values -> Terms[Size]])]
    BY <1>2, <1>9, <2>2 DEF Typed
  <2> QED
    BY <1>1, <1>2, <2>1, <2>3 DEF Typed
<1>11. \A v \in Flows \ {w} : Unmoved(v)
  BY <1>1, <1>8 DEF Unmoved
<1>12. OnSystem(w)' /\ Fresh(w)'
  BY <1>1, <1>2 DEF OnSystem, Fresh
<1>13. OnProgram(w)'
  <2>1. Wrap(current'[w], stack'[w]) = Wrap(current[w], stack[w])
    BY <1>3, <1>4, <1>7, <1>8
  <2>2. Ops(w)' = Ops(w)
    BY <1>1 DEF Ops
  <2>3. pc'[w] \notin {"done", "failed"} /\ pc[w] \notin {"done", "failed"}
    BY <1>1
  <2>4. Remaining(w)' = Remaining(w)
    BY <1>1, <2>1, <2>3, RemainingIs, RemainingIsNext
  <2> QED
    BY <1>1, <1>2, <2>1, <2>2, <2>4 DEF OnProgram
<1> QED
  BY <1>10, <1>11, <1>12, <1>13, OneMoves

\* A workflow that runs on, with term u and stack fs.
LEMMA RunsOn ==
    ASSUME IInv, NEW w \in Flows, pc[w] = "run",
           UNCHANGED <<program, runner, pc, result, system>>,
           NEW u \in Terms[Size], current' = [current EXCEPT ![w] = u],
           NEW fs \in Seq([Values -> Terms[Size]]), stack' = [stack EXCEPT ![w] = fs],
           log' \in [Flows -> Seq(Systems \X Operation)],
           \A v \in Flows \ {w} : log'[v] = log[v],
           \A i \in DOMAIN log'[w] : log'[w][i][1] = w,
           NEW ops \in Seq(Operation), Ops(w)' = Ops(w) \o ops,
           Leads(runner[w], ops, Wrap(current[w], stack[w]), Wrap(u, fs))
    PROVE  IInv'
<1>1. Typed /\ OnSystem(w) /\ Fresh(w) /\ OnProgram(w)
  BY DEF IInv
<1>2. /\ current'[w] = u /\ stack'[w] = fs
      /\ \A v \in Flows \ {w} : current'[v] = current[v] /\ stack'[v] = stack[v]
  BY <1>1 DEF Typed
<1>3. Typed'
  <2>1. current' \in [Flows -> Terms[Size]] /\ stack' \in [Flows -> Seq([Values -> Terms[Size]])]
    BY <1>1 DEF Typed
  <2> QED
    BY <1>1, <2>1 DEF Typed
<1>4. \A v \in Flows \ {w} : Unmoved(v)
  BY <1>2 DEF Unmoved
<1>5. OnSystem(w)' /\ Fresh(w)'
  BY <1>1 DEF OnSystem, Fresh
<1>6. OnProgram(w)'
  <2>1. pc[w] \notin {"done", "failed"} /\ pc'[w] \notin {"done", "failed"}
    OBVIOUS
  <2>2. Leads(runner[w], ops, Wrap(current[w], stack[w]), Wrap(current'[w], stack'[w]))
    BY <1>2
  <2> QED
    BY <1>1, <2>1, <2>2, GoesOn
<1> QED
  BY <1>3, <1>4, <1>5, <1>6, OneMoves

\* A step that performs nothing leaves what is logged.
LEMMA LogKept ==
    ASSUME IInv, NEW w \in Flows, log' = log
    PROVE  /\ log' \in [Flows -> Seq(Systems \X Operation)]
           /\ \A v \in Flows \ {w} : log'[v] = log[v]
           /\ \A i \in DOMAIN log'[w] : log'[w][i][1] = w
           /\ <<>> \in Seq(Operation) /\ Ops(w)' = Ops(w) \o <<>>
<1>1. Typed /\ OnSystem(w)
  BY DEF IInv
<1> QED
  BY <1>1, NothingPerformed DEF Typed, OnSystem

\* A workflow that ends.
LEMMA EndsRun ==
    ASSUME IInv, NEW w \in Flows, pc[w] = "run",
           NEW p \in {"done", "failed"}, pc' = [pc EXCEPT ![w] = p],
           NEW v \in Values, result' = [result EXCEPT ![w] = v],
           UNCHANGED <<program, runner, current, stack, system>>,
           log' \in [Flows -> Seq(Systems \X Operation)],
           \A x \in Flows \ {w} : log'[x] = log[x],
           \A i \in DOMAIN log'[w] : log'[w][i][1] = w,
           OnProgram(w)'
    PROVE  IInv'
<1>1. Typed /\ OnSystem(w) /\ Fresh(w) /\ OnProgram(w)
  BY DEF IInv
<1>2. /\ pc'[w] = p
      /\ \A x \in Flows \ {w} : pc'[x] = pc[x] /\ result'[x] = result[x]
  BY <1>1 DEF Typed
<1>3. Typed'
  BY <1>1 DEF Typed
<1>4. \A x \in Flows \ {w} : Unmoved(x)
  BY <1>2 DEF Unmoved
<1>5. OnSystem(w)' /\ Fresh(w)'
  BY <1>2 DEF OnSystem, Fresh
<1> QED
  BY <1>3, <1>4, <1>5, OneMoves

LEMMA PopKeeps ==
    ASSUME IInv, NEW w \in Flows, Pop(w) PROVE IInv'
<1>1. /\ pc[w] = "run" /\ current[w].is = "pure"
      /\ UNCHANGED <<program, runner, system, log, cached>>
  BY DEF Pop, At
<1>2. Typed /\ OnSystem(w) /\ OnProgram(w)
  BY DEF IInv
<1>3. PICK t, fs, r :
          /\ t \in Terms[Size] /\ fs \in Seq([Values -> Terms[Size]])
          /\ t = current[w] /\ fs = stack[w] /\ r = runner[w]
  BY <1>2 DEF Typed
<1>4. t = Pure(t.value) /\ t.value \in Values
  BY <1>1, <1>3, Shapes
<1>5. /\ log' \in [Flows -> Seq(Systems \X Operation)]
      /\ \A v \in Flows \ {w} : log'[v] = log[v]
      /\ \A i \in DOMAIN log'[w] : log'[w][i][1] = w
      /\ <<>> \in Seq(Operation) /\ Ops(w)' = Ops(w) \o <<>>
  BY <1>1, LogKept
<1>6. CASE stack[w] = <<>>
  <2>1. Finish(w, current[w].value) /\ UNCHANGED <<stack, current>>
    BY <1>6 DEF Pop
  <2>2. pc' = [pc EXCEPT ![w] = "done"] /\ result' = [result EXCEPT ![w] = t.value]
    BY <1>3, <2>1 DEF Finish
  <2>3. Meaning(r)[t] = Returns(t.value)
    <3>1. Pure(t.value) \in Terms[Size]
      BY <1>3, <1>4
    <3>2. Meaning(r)[Pure(t.value)] = Returns(t.value)
      BY <3>1, MeaningPure
    <3> QED
      BY <1>4, <3>2
  <2>4. Returns(t.value) = After(<<>>, Returns(t.value))
    BY <1>4, ReturnsTyped, AfterNothing
  <2>5. Remaining(w) = After(<<>>, Returns(t.value))
    <3>1. Remaining(w) = Meaning(runner[w])[current[w]]
      BY <1>1, <1>6, AloneRemains
    <3> QED
      BY <1>3, <2>3, <2>4, <3>1
  <2>6. OnProgram(w)'
    BY <1>1, <1>2, <1>3, <1>4, <1>5, <2>1, <2>5, FinishEnds
  <2> QED
    BY <1>1, <1>4, <1>5, <2>1, <2>2, <2>6, EndsRun
<1>7. CASE stack[w] # <<>>
  <2>1. PICK k, gs : k = fs[Len(fs)] /\ gs = SubSeq(fs, 1, Len(fs) - 1)
    OBVIOUS
  <2>2. /\ current' = [current EXCEPT ![w] = k[t.value]]
        /\ stack' = [stack EXCEPT ![w] = gs]
        /\ UNCHANGED <<pc, result>>
    BY <1>3, <1>7, <2>1 DEF Pop, Popped
  <2>3. /\ gs \in Seq([Values -> Terms[Size]]) /\ k \in [Values -> Terms[Size]]
        /\ fs = Append(gs, k)
    BY <1>3, <1>7, <2>1, TopOff
  <2>4. Wrap(t, fs) = Wrap(FlatMap(t, k), gs)
    BY <2>3, WrapTop
  <2>5. Leads(r, <<>>, FlatMap(t, k), k[t.value])
    <3>1. Leads(r, <<>>, FlatMap(Pure(t.value), k), k[t.value])
      BY ApplyLeads
    <3> QED
      BY <1>4, <3>1
  <2>6. Leads(r, <<>>, Wrap(FlatMap(t, k), gs), Wrap(k[t.value], gs))
    <3>1. Len(gs) \in Nat
      BY <2>3
    <3> QED
      BY <1>5, <2>5, <3>1, LeadsWrap
  <2>7. Leads(runner[w], <<>>, Wrap(current[w], stack[w]), Wrap(k[t.value], gs))
    BY <1>3, <2>4, <2>6
  <2>8. k[t.value] \in Terms[Size]
    BY <1>4, <2>3
  <2> QED
    BY <1>1, <1>5, <2>2, <2>3, <2>7, <2>8, RunsOn
<1> QED
  BY <1>6, <1>7

LEMMA ExecuteKeeps ==
    ASSUME IInv, NEW w \in Flows, Execute(w) PROVE IInv'
<1>1. /\ pc[w] = "run" /\ current[w].is = "suspend"
      /\ ~Raises(runner[w], current[w].op) /\ Perform(w, current[w].op)
      /\ UNCHANGED <<program, runner, system, cached>>
  BY DEF Execute, At
<1>2. Typed /\ OnSystem(w) /\ OnProgram(w)
  BY DEF IInv
<1>3. PICK t, fs, r :
          /\ t \in Terms[Size] /\ fs \in Seq([Values -> Terms[Size]])
          /\ t = current[w] /\ fs = stack[w] /\ r = runner[w]
  BY <1>2 DEF Typed
<1>4. PICK op \in Operation : op = current[w].op /\ t = Suspend(op) /\ ~Raises(r, op)
  BY <1>1, <1>2, <1>3, AtOperation
<1>5. /\ Reply(op) \in Values /\ Effects(op) \in Seq(Operation)
      /\ Meaning(r)[t] = After(Effects(op), Returns(Reply(op)))
  BY <1>1, <1>2, <1>3, <1>4, AtOperation
<1>6. system[w] = w
  BY <1>1, <1>2 DEF OnSystem
<1>7. /\ log' \in [Flows -> Seq(Systems \X Operation)]
      /\ \A v \in Flows \ {w} : log'[v] = log[v]
      /\ \A i \in DOMAIN log'[w] : log'[w][i][1] = w
      /\ Ops(w)' = Ops(w) \o Effects(op)
  BY <1>1, <1>2, <1>4, <1>6, Performed
<1> DEFINE u == Pure(Reply(op))
<1>8. CASE stack[w] = <<>>
  <2>1. Finish(w, Reply(op)) /\ UNCHANGED <<stack, current>>
    BY <1>4, <1>8 DEF Execute, Pure
  <2>2. pc' = [pc EXCEPT ![w] = "done"] /\ result' = [result EXCEPT ![w] = Reply(op)]
    BY <2>1 DEF Finish
  <2>3. Remaining(w) = After(Effects(op), Returns(Reply(op)))
    <3>1. Remaining(w) = Meaning(runner[w])[current[w]]
      BY <1>1, <1>8, AloneRemains
    <3> QED
      BY <1>3, <1>5, <3>1
  <2>4. OnProgram(w)'
    BY <1>1, <1>2, <1>5, <1>7, <2>1, <2>3, FinishEnds
  <2> QED
    BY <1>1, <1>5, <1>7, <2>1, <2>2, <2>4, EndsRun
<1>9. CASE stack[w] # <<>>
  <2>1. PICK k, gs : k = fs[Len(fs)] /\ gs = SubSeq(fs, 1, Len(fs) - 1)
    OBVIOUS
  <2>2. /\ current' = [current EXCEPT ![w] = FlatMap(u, k)]
        /\ stack' = [stack EXCEPT ![w] = gs]
        /\ UNCHANGED <<pc, result>>
    BY <1>3, <1>4, <1>9, <2>1 DEF Execute, Popped
  <2>3. /\ gs \in Seq([Values -> Terms[Size]]) /\ k \in [Values -> Terms[Size]]
        /\ fs = Append(gs, k)
    BY <1>3, <1>9, <2>1, TopOff
  <2>4. Wrap(t, fs) = Wrap(FlatMap(t, k), gs)
    BY <2>3, WrapTop
  <2>5. Leads(r, Effects(op), t, u)
    BY <1>4, OperationLeads
  <2> HIDE DEF u
  <2>6. Leads(r, Effects(op), FlatMap(t, k), FlatMap(u, k))
    BY <1>5, <2>5, LeadsBind
  <2>7. Leads(r, Effects(op), Wrap(FlatMap(t, k), gs), Wrap(FlatMap(u, k), gs))
    <3>1. Len(gs) \in Nat
      BY <2>3
    <3> QED
      BY <1>5, <2>6, <3>1, LeadsWrap
  <2>8. Leads(runner[w], Effects(op), Wrap(current[w], stack[w]), Wrap(FlatMap(u, k), gs))
    BY <1>3, <2>4, <2>7
  <2>9. FlatMap(u, k) \in Terms[Size]
    <3>1. FlatMap(t, k) \in Terms[Size]
      <4>1. Wrap(FlatMap(t, k), gs) \in Terms[Size]
        BY <1>2, <1>3, <2>4 DEF OnProgram
      <4> QED
        BY <2>3, <4>1, UnwrapTerm
    <3>2. Size \in 0..Size
      BY DEF Bounded
    <3> QED
      BY <2>6, <3>1, <3>2 DEF Leads
  <2> QED
    BY <1>1, <1>5, <1>7, <2>2, <2>3, <2>8, <2>9, RunsOn
<1> QED
  BY <1>8, <1>9

\* What the loop of run_free leads to, performing ops, it leads to with its stack.
LEMMA LoopRunsOn ==
    ASSUME IInv, NEW w \in Flows, pc[w] = "run",
           UNCHANGED <<program, runner, stack, pc, result, system>>,
           NEW u, current' = [current EXCEPT ![w] = u],
           log' \in [Flows -> Seq(Systems \X Operation)],
           \A v \in Flows \ {w} : log'[v] = log[v],
           \A i \in DOMAIN log'[w] : log'[w][i][1] = w,
           NEW ops \in Seq(Operation), Ops(w)' = Ops(w) \o ops,
           Leads(runner[w], ops, current[w], u)
    PROVE  IInv'
<1>1. Typed
  BY DEF IInv
<1>2. PICK t, fs, r :
          /\ t \in Terms[Size] /\ fs \in Seq([Values -> Terms[Size]])
          /\ t = current[w] /\ fs = stack[w] /\ r = runner[w]
  BY <1>1 DEF Typed
<1>3. stack' = [stack EXCEPT ![w] = fs]
  BY <1>1, <1>2 DEF Typed
<1>4. Leads(r, ops, t, u)
  BY <1>2
<1>5. u \in Terms[Size]
  <2>1. Size \in 0..Size
    BY DEF Bounded
  <2> QED
    BY <1>2, <1>4, <2>1 DEF Leads
<1>6. Leads(r, ops, Wrap(t, fs), Wrap(u, fs))
  <2>1. Len(fs) \in Nat
    BY <1>2
  <2> QED
    BY <1>4, <2>1, LeadsWrap
<1>7. Leads(runner[w], ops, Wrap(current[w], stack[w]), Wrap(u, fs))
  BY <1>2, <1>6
<1> QED
  BY <1>2, <1>3, <1>5, <1>7, RunsOn

\* What a workflow that binds is at.
LEMMA AtBind ==
    ASSUME Typed, NEW w \in Flows, current[w].is = "flatMap"
    PROVE  /\ current[w] = FlatMap(current[w].thunk, current[w].f)
           /\ current[w].thunk \in Terms[Size]
<1>1. PICK t \in Terms[Size] : t = current[w]
  BY DEF Typed
<1>2. t = FlatMap(t.thunk, t.f)
  BY <1>1, Shapes
<1>3. FlatMap(t.thunk, t.f) \in Terms[Size]
  BY <1>2
<1>4. t.thunk \in Terms[Size]
  BY <1>3, MeaningBind
<1> QED
  BY <1>1, <1>2, <1>4

LEMMA LoopInterpretsKeeps ==
    ASSUME IInv, NEW w \in Flows, LoopInterprets(w) PROVE IInv'
<1>1. /\ pc[w] = "run" /\ current[w].is = "flatMap" /\ runner[w] = "loop"
      /\ current[w].thunk.is = "suspend" /\ ~Raises("loop", current[w].thunk.op)
      /\ Perform(w, current[w].thunk.op)
      /\ current' = [current EXCEPT ![w] = FlatMap(Pure(Reply(@.thunk.op)), @.f)]
      /\ UNCHANGED <<program, runner, stack, pc, result, system, cached>>
  BY DEF LoopInterprets, At
<1>2. Typed /\ OnSystem(w)
  BY DEF IInv
<1>3. current[w] = FlatMap(current[w].thunk, current[w].f) /\ current[w].thunk \in Terms[Size]
  BY <1>1, <1>2, AtBind
<1>4. PICK s, k, r : /\ s \in Terms[Size] /\ s = current[w].thunk
                          /\ k = current[w].f /\ r = runner[w]
  BY <1>3
<1>5. s.op \in Operation /\ s = Suspend(s.op)
  BY <1>1, <1>4, Shapes
<1>6. PICK op \in Operation : op = s.op /\ s = Suspend(op) /\ ~Raises(r, op)
  BY <1>1, <1>4, <1>5
<1>7. system[w] = w
  BY <1>1, <1>2 DEF OnSystem
<1>8. /\ log' \in [Flows -> Seq(Systems \X Operation)]
      /\ \A v \in Flows \ {w} : log'[v] = log[v]
      /\ \A i \in DOMAIN log'[w] : log'[w][i][1] = w
      /\ Ops(w)' = Ops(w) \o Effects(op)
  BY <1>1, <1>2, <1>4, <1>6, <1>7, Performed
<1>9. PICK u : u = FlatMap(Pure(Reply(op)), k)
  OBVIOUS
<1>10. Leads(r, Effects(op), FlatMap(s, k), u)
  <2>1. Leads(r, Effects(op), s, Pure(Reply(op)))
    BY <1>6, OperationLeads
  <2> QED
    BY <1>9, <2>1, EffectsTyped, LeadsBind
<1>11. Leads(runner[w], Effects(op), current[w], u)
  BY <1>3, <1>4, <1>10
<1>12. current' = [current EXCEPT ![w] = u]
  BY <1>1, <1>4, <1>6, <1>9
<1>13. Effects(op) \in Seq(Operation)
  BY EffectsTyped
<1> QED
  BY <1>1, <1>8, <1>11, <1>12, <1>13, LoopRunsOn

LEMMA LoopReassociatesKeeps ==
    ASSUME IInv, NEW w \in Flows, LoopReassociates(w) PROVE IInv'
<1>1. /\ pc[w] = "run" /\ current[w].is = "flatMap" /\ current[w].thunk.is = "flatMap"
      /\ current' = [current EXCEPT ![w] = Reassociate(@.thunk.thunk, @.thunk.f, @.f)]
      /\ UNCHANGED <<program, runner, stack, pc, result, system, log, cached>>
  BY DEF LoopReassociates, At
<1>2. Typed
  BY DEF IInv
<1>3. current[w] = FlatMap(current[w].thunk, current[w].f) /\ current[w].thunk \in Terms[Size]
  BY <1>1, <1>2, AtBind
<1>4. PICK s, k, r : /\ s \in Terms[Size] /\ s = current[w].thunk
                          /\ k = current[w].f /\ r = runner[w]
  BY <1>3
<1>5. s = FlatMap(s.thunk, s.f)
  BY <1>1, <1>4, Shapes
<1>6. PICK t, f : t = s.thunk /\ f = s.f
  OBVIOUS
<1>7. PICK u : u = Reassociate(t, f, k)
  OBVIOUS
<1>8. Leads(r, <<>>, FlatMap(FlatMap(t, f), k), u)
  BY <1>7, ReassociateLeads
<1>9. Leads(runner[w], <<>>, current[w], u)
  BY <1>3, <1>4, <1>5, <1>6, <1>8
<1>10. current' = [current EXCEPT ![w] = u]
  BY <1>1, <1>4, <1>6, <1>7
<1>11. /\ log' \in [Flows -> Seq(Systems \X Operation)]
       /\ \A v \in Flows \ {w} : log'[v] = log[v]
       /\ \A i \in DOMAIN log'[w] : log'[w][i][1] = w
       /\ <<>> \in Seq(Operation) /\ Ops(w)' = Ops(w) \o <<>>
  BY <1>1, LogKept
<1> QED
  BY <1>1, <1>9, <1>10, <1>11, LoopRunsOn

\* "Pure or already-resolved: just continue" changes nothing.
LEMMA LoopContinuesKeeps ==
    ASSUME IInv, NEW w \in Flows, LoopContinues(w) PROVE IInv'
<1>1. /\ current[w].is = "flatMap"
      /\ current' = [current EXCEPT ![w] = FlatMap(@.thunk, @.f)]
      /\ UNCHANGED <<program, runner, stack, pc, result, system, log, cached>>
  BY DEF LoopContinues, At
<1>2. Typed
  BY DEF IInv
<1>3. current[w] = FlatMap(current[w].thunk, current[w].f)
  BY <1>1, <1>2, AtBind
<1>4. current' = current
  BY <1>1, <1>2, <1>3 DEF Typed
<1>5. ASSUME NEW v \in Flows PROVE OnSystem(v)' /\ Fresh(v)' /\ OnProgram(v)'
  <2>1. Unmoved(v)
    BY <1>1, <1>4 DEF Unmoved
  <2> QED
    BY <2>1, UnmovedKeeps DEF IInv
<1>6. Typed'
  BY <1>1, <1>2, <1>4 DEF Typed
<1> QED
  BY <1>5, <1>6 DEF IInv

LEMMA FailKeeps ==
    ASSUME IInv, NEW w \in Flows, Fail(w) PROVE IInv'
<1> DEFINE s == IF runner[w] = "loop" /\ current[w].is = "flatMap"
                THEN current[w].thunk ELSE current[w]
<1>1. /\ pc[w] = "run" /\ s.is = "suspend" /\ Raises(runner[w], s.op) /\ Perform(w, s.op)
      /\ pc' = [pc EXCEPT ![w] = "failed"]
      /\ UNCHANGED <<program, runner, current, stack, result, system, cached>>
  BY DEF Fail, Raising
<1>2. Typed /\ OnSystem(w) /\ OnProgram(w)
  BY DEF IInv
<1>3. s \in Terms[Size] /\ (current[w] = s \/ current[w] = FlatMap(s, current[w].f))
  BY <1>2, AtBind DEF Typed
<1> HIDE DEF s
<1>4. PICK t, k, fs, r :
          /\ fs \in Seq([Values -> Terms[Size]])
          /\ t = current[w] /\ k = current[w].f /\ fs = stack[w] /\ r = runner[w]
  BY <1>2 DEF Typed
<1>5. PICK op \in Operation : op = s.op /\ s = Suspend(op) /\ Raises(r, op)
  <2>1. PICK x \in Terms[Size] : x = s
    BY <1>3
  <2>2. x.op \in Operation /\ x = Suspend(x.op)
    BY <1>1, <2>1, Shapes
  <2> QED
    BY <1>1, <1>4, <2>1, <2>2
<1>6. system[w] = w
  BY <1>1, <1>2 DEF OnSystem
<1>7. /\ log' \in [Flows -> Seq(Systems \X Operation)]
      /\ \A v \in Flows \ {w} : log'[v] = log[v]
      /\ \A i \in DOMAIN log'[w] : log'[w][i][1] = w
      /\ Ops(w)' = Ops(w) \o Effects(op)
  BY <1>1, <1>2, <1>5, <1>6, Performed
<1>8. Suspend(op) \in Terms[Size] /\ Effects(op) \in Seq(Operation)
  BY <1>3, <1>5, EffectsTyped
<1>9. Meaning(r)[Suspend(op)] = After(Effects(op), RaisedNow)
  BY <1>5, <1>8, MeaningSuspend
<1>10. After(Effects(op), RaisedNow).raised
  BY <1>8, RaisedTyped, AfterIs DEF RaisedNow
<1>11. Meaning(r)[t] = After(Effects(op), RaisedNow)
  <2>1. t \in Terms[Size]
    BY <1>2, <1>4 DEF Typed
  <2>2. CASE t = Suspend(op)
    BY <1>9, <2>2
  <2>3. CASE t = FlatMap(Suspend(op), k)
    <3>1. FlatMap(Suspend(op), k) \in Terms[Size]
      BY <2>1, <2>3
    <3>2. Meaning(r)[Suspend(op)].raised
      BY <1>9, <1>10
    <3>3. Meaning(r)[FlatMap(Suspend(op), k)] = Meaning(r)[Suspend(op)]
      BY <3>1, <3>2, MeaningBind
    <3> QED
      BY <1>9, <2>3, <3>3
  <2> QED
    BY <1>3, <1>4, <1>5, <2>2, <2>3
<1>12. Remaining(w) = After(Effects(op), RaisedNow)
  <2>1. Wrap(t, fs) \in Terms[Size] /\ Len(fs) \in Nat
    BY <1>2, <1>4 DEF OnProgram
  <2>2. Meaning(r)[Wrap(t, fs)] = Meaning(r)[t]
    BY <1>10, <1>11, <2>1, RaisesWrap
  <2> QED
    BY <1>1, <1>4, <1>11, <2>2, RemainingIs
<1>13. pc'[w] = "failed"
  BY <1>1, <1>2 DEF Typed
<1>14. Remaining(w)' = RaisedNow
  BY <1>13, RemainingIsNext
<1>15. OnProgram(w)'
  <2>1. pc[w] \notin {"done", "failed"}
    BY <1>1
  <2> QED
    BY <1>1, <1>2, <1>7, <1>8, <1>12, <1>14, <2>1, RaisedTyped, Ends
<1>16. result' = [result EXCEPT ![w] = result[w]] /\ result[w] \in Values
  BY <1>1, <1>2 DEF Typed
<1> QED
  BY <1>1, <1>7, <1>15, <1>16, EndsRun

LEMMA StepKeeps == IInv /\ [Next]_vars => IInv'
<1> SUFFICES ASSUME IInv, [Next]_vars PROVE IInv'
  OBVIOUS
<1>1. ASSUME NEW w \in Flows, Step(w) PROVE IInv'
  BY <1>1, StartKeeps, FastPathKeeps, PushKeeps, PopKeeps, ExecuteKeeps,
     LoopInterpretsKeeps, LoopReassociatesKeeps, LoopContinuesKeeps, FailKeeps DEF Step
<1>2. CASE UNCHANGED vars
  <2>1. Typed'
    BY <1>2 DEF IInv, Typed, vars
  <2>2. ASSUME NEW v \in Flows PROVE OnSystem(v)' /\ Fresh(v)' /\ OnProgram(v)'
    <3>1. Unmoved(v)
      BY <1>2 DEF Unmoved, vars
    <3> QED
      BY <3>1, UnmovedKeeps DEF IInv
  <2> QED
    BY <2>1, <2>2 DEF IInv
<1> QED
  BY <1>1, <1>2 DEF Next

\* Every state of every workflow satisfies the invariant.
THEOREM FreeInvariant == Spec => []IInv
<1> QED
  BY InitInv, StepKeeps, PTL DEF Spec

\* Whatever its continuations, its runner and the workflows beside it, and also
\* after merge_flatmaps, what a workflow has performed and what it has left make
\* up the meaning of the program its caller passed (the laws of Free).
THEOREM MeaningAlwaysKept == Spec => []KeepsMeaning
<1>1. IInv => KeepsMeaning
  BY DEF IInv, OnProgram, KeepsMeaning
<1> QED
  BY <1>1, FreeInvariant, PTL

\* However many workflows of however many systems replace the cached interpreter
\* under each other, each performs its operations on its own system (run_free of
\* core/interpreter.py).
THEOREM AlwaysOnOwnSystem == Spec => []OwnSystem
<1>1. IInv => OwnSystem
  BY DEF IInv, OnSystem, OwnSystem
<1> QED
  BY <1>1, FreeInvariant, PTL

============================================================================
