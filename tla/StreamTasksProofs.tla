-------------------------- MODULE StreamTasksProofs --------------------------
(* Proofs about StreamTasks, for sources of any number and length, any size of *)
(* the queues and any parallelism.                                             *)
EXTENDS StreamTasks, SequenceTheorems, FiniteSetTheorems, TLAPS

Elements == Nat \X Nat
Places   == {"idle", "pull", "acquire", "put", "run", "ready", "over"}
Phases   == {"get", "await", "yield", "closing", "done"}
Verdicts == {"running", "end", "error", "timeout", "closed"}

\* The operators that share one form of pump, and those that start tasks.
Pumping  == kind \in {"merge", "buffer"}
Starting == kind \in {"map_async", "flat_map_merge"}

SetupInv ==
    /\ kind \in {"merge", "buffer", "map_async", "flat_map_merge", "channel"}
    /\ len \in [Tasks -> Nat] /\ fin \in [Tasks -> {"end", "error", "timeout"}]
    /\ 1 \in Tasks /\ (kind = "merge" => 2 \in Tasks)
    /\ Starting => len[1] + 1 \in Tasks

TypeInv ==
    /\ given \in [Tasks -> Nat]
    /\ pc \in [Tasks -> Places]
    /\ hold \in [Tasks -> Elements]
    /\ queue \in Seq(Elements)
    /\ cancelling \subseteq Tasks
    /\ reader \in Phases
    /\ awaited \in Nat
    /\ finished \in {0, 1}
    /\ early \subseteq Elements /\ dropped \subseteq Elements
    /\ out \in Seq(Elements)
    /\ verdict \in Verdicts

LEMMA PumpFacts ==
    ASSUME SetupInv
    PROVE  /\ kind = "merge" => Pumps = {1, 2}
           /\ kind = "channel" => Pumps = {}
           /\ kind \in {"buffer", "map_async", "flat_map_merge"} => Pumps = {1}
           /\ Pumps \subseteq Tasks
  BY DEF SetupInv, Pumps

LEMMA TaskNumbers == Cardinality(Tasks) \in Nat /\ \A t \in Tasks : t \in Nat /\ t >= 1
<1>1. Cardinality(Tasks) \in Nat
  BY Numbers, FS_CardinalityType
<1> QED
  BY <1>1, Numbers

\* The first element of a queue, and what is left of it.
LEMMA HeadTail ==
    ASSUME NEW S, NEW q \in Seq(S), q # <<>>
    PROVE  /\ Head(q) \in S /\ Head(q) = q[1] /\ 1 \in DOMAIN q
           /\ Tail(q) \in Seq(S) /\ Len(Tail(q)) = Len(q) - 1 /\ Len(q) \in Nat \ {0}
           /\ \A i \in 1..Len(q) - 1 : Tail(q)[i] = q[i + 1]
  BY HeadTailProperties, EmptySeq, LenProperties

LEMMA SetupInductive == SetupInv /\ [Next]_vars => SetupInv' /\ UNCHANGED setup
<1> SUFFICES ASSUME SetupInv, [Next]_vars PROVE SetupInv' /\ UNCHANGED setup
  OBVIOUS
<1>1. UNCHANGED setup
  BY DEF Next, Works, Sends, Reads, Put, Pump, Produce, ItemEnds, Acquire, StartSub,
     ProducerEnds, Sub, Dies, Offer, CallPut, CallClose, Take, EndsMap, Awaits, AskNext,
     Closes, Close, vars, setup
<1> QED
  BY <1>1 DEF SetupInv, setup, Starting

LEMMA CountTyped ==
    ASSUME NEW f \in [Tasks -> Nat], NEW t \in Tasks
    PROVE  [f EXCEPT ![t] = f[t] + 1] \in [Tasks -> Nat]
  OBVIOUS

LEMMA AppendTyped ==
    ASSUME NEW S, NEW q \in Seq(S), NEW e \in S
    PROVE  Append(q, e) \in Seq(S)
  OBVIOUS

LEMMA TypeInductive == SetupInv /\ TypeInv /\ [Next]_vars => TypeInv'
<1> SUFFICES ASSUME SetupInv, TypeInv, [Next]_vars PROVE TypeInv'
  OBVIOUS
<1> USE DEF TypeInv
<1>c. \A t \in Tasks : [given EXCEPT ![t] = given[t] + 1] \in [Tasks -> Nat]
  BY CountTyped
<1>a. \A e \in Elements : Append(queue, e) \in Seq(Elements) /\ Append(out, e) \in Seq(Elements)
  BY AppendTyped
<1> USE DEF ending, sender
<1>0. /\ {"pull", "put", "acquire", "run", "ready", "over"} \subseteq Places
      /\ {"get", "await", "yield", "closing", "done"} \subseteq Phases
      /\ {"end", "error", "timeout", "closed"} \subseteq Verdicts
      /\ Done \in Elements /\ Failed \in Elements
  BY DEF Places, Phases, Verdicts, Elements, Done, Failed
<1>1. ASSUME NEW t \in Tasks, Works(t) PROVE TypeInv'
  <2>0. \A n \in Nat : <<t, n + 1>> \in Elements /\ <<n + 2, 1>> \in Elements
    BY TaskNumbers DEF Elements
  <2>1. CASE Put(t)
    <3>1. AfterPut(t) \in Places
      BY DEF AfterPut, Places
    <3>2. pc' = [pc EXCEPT ![t] = AfterPut(t)] \/ pc' = pc
      BY <2>1 DEF Put
    <3>3. queue' \in Seq(Elements) /\ early' \subseteq Elements
      <4>1. hold[t] \in Elements /\ Append(queue, hold[t]) \in Seq(Elements)
        OBVIOUS
      <4>2. queue' \in {queue, Append(queue, hold[t])} /\ early' \in {early, early \cup {hold[t]}}
        BY <2>1 DEF Put
      <4> QED
        BY <4>1, <4>2
    <3>4. UNCHANGED <<given, hold, ending, finished, dropped>>
      BY <2>1 DEF Put
    <3> QED
      BY <3>1, <3>2, <3>3, <3>4
  <2>2. CASE Pump(t)
    <3>1. given[t] \in Nat
      OBVIOUS
    <3>2. /\ given' = given \/ given' = [given EXCEPT ![t] = given[t] + 1]
          /\ hold' = hold \/ \E e \in Elements : hold' = [hold EXCEPT ![t] = e]
          /\ \E p \in Places : pc' = [pc EXCEPT ![t] = p]
      BY <1>0, <2>0, <2>2, <3>1 DEF Pump, PumpEnds, Count, Holds
    <3>3. UNCHANGED <<queue, ending, finished, early, dropped>>
      BY <2>2 DEF Pump
    <3>4. given' \in [Tasks -> Nat]
      BY <1>c, <3>2
    <3>5. hold' \in [Tasks -> Elements]
      BY <3>2
    <3>6. pc' \in [Tasks -> Places]
      BY <3>2
    <3> QED
      BY <3>3, <3>4, <3>5, <3>6
  <2>3. CASE Produce(t)
    <3>1. given[t] \in Nat
      OBVIOUS
    <3>2. /\ given' = given \/ given' = [given EXCEPT ![t] = given[t] + 1]
          /\ hold' = hold \/ \E e \in Elements : hold' = [hold EXCEPT ![t] = e]
          /\ finished' \in {0, 1}
      BY <2>0, <2>3, <3>1 DEF Produce, Count
    <3>3. \/ pc' = [pc EXCEPT ![t] = "over"]
          \/ pc' = [pc EXCEPT ![t] = "put", ![given[t] + 2] = "run"]
      BY <2>3 DEF Produce
    <3>4. UNCHANGED <<queue, ending, early, dropped>>
      BY <2>3 DEF Produce
    <3>5. given' \in [Tasks -> Nat] /\ hold' \in [Tasks -> Elements]
      BY <1>c, <3>2
    <3>6. pc' \in [Tasks -> Places]
      BY <1>0, <3>3
    <3> QED
      BY <3>2, <3>4, <3>5, <3>6
  <2>4. CASE ItemEnds(t) \/ Acquire(t)
    <3>1. given[t] + 1 \in Nat
      OBVIOUS
    <3>2. given' = given \/ given' = [given EXCEPT ![t] = given[t] + 1]
      BY <2>4 DEF ItemEnds, Acquire, Count
    <3>3. pc' \in {[pc EXCEPT ![t] = "over"], [pc EXCEPT ![t] = "acquire"]}
      BY <2>4 DEF ItemEnds, Acquire
    <3>4. UNCHANGED <<hold, queue, ending, finished, early, dropped>>
      BY <2>4 DEF ItemEnds, Acquire
    <3>5. given' \in [Tasks -> Nat]
      BY <1>c, <3>2
    <3>6. pc' \in [Tasks -> Places]
      BY <1>0, <3>3
    <3> QED
      BY <3>4, <3>5, <3>6
  <2>5. CASE StartSub(t)
    BY <1>0, <2>5 DEF StartSub
  <2>6. CASE ProducerEnds(t)
    BY <1>0, <2>6 DEF ProducerEnds
  <2>7. CASE Sub(t)
    <3>1. given[t] \in Nat
      OBVIOUS
    <3>2. /\ given' = given \/ given' = [given EXCEPT ![t] = given[t] + 1]
          /\ pc' \in {pc, [pc EXCEPT ![t] = "over"]}
      BY <2>7 DEF Sub, Count
    <3>3. queue' = queue \/ \E e \in Elements : queue' = Append(queue, e)
      BY <1>0, <2>0, <2>7, <3>1 DEF Sub
    <3>4. UNCHANGED <<hold, ending, finished, early, dropped>>
      BY <2>7 DEF Sub
    <3>5. given' \in [Tasks -> Nat]
      BY <1>c, <3>2
    <3>6. pc' \in [Tasks -> Places]
      BY <1>0, <3>2
    <3>7. queue' \in Seq(Elements)
      BY <1>a, <3>3
    <3> QED
      BY <3>4, <3>5, <3>6, <3>7
  <2>8. CASE Dies(t)
    BY <1>0, <2>8 DEF Dies
  <2> QED
    BY <1>1, <2>1, <2>2, <2>3, <2>4, <2>5, <2>6, <2>7, <2>8 DEF Works
<1>2. ASSUME NEW t \in Tasks, Sends(t) PROVE TypeInv'
  <2>0. Element(t) \in Elements
    BY TaskNumbers DEF Element, Elements
  <2>1. CASE Offer(t)
    <3>1. Len(queue) >= Size => queue # <<>>
      BY Numbers
    <3>2. queue # <<>> => Tail(queue) \in Seq(Elements) /\ Head(queue) \in Elements
      BY HeadTail
    <3>3. /\ \/ queue' = queue
             \/ queue' = Append(queue, Element(t))
             \/ queue # <<>> /\ queue' = Append(Tail(queue), Element(t))
          /\ early' \in {early, early \cup {Element(t)}}
          /\ dropped' = dropped \/ (queue # <<>> /\ dropped' = dropped \cup {Head(queue)})
      <4>1. Len(queue) \in Nat /\ Size \in Nat
        BY Numbers
      <4>2. ~(Len(queue) < Size) => queue # <<>>
        BY <3>1, <4>1
      <4> QED
        BY <2>1, <4>2 DEF Offer
    <3>4. given' = [given EXCEPT ![t] = @ + 1] /\ UNCHANGED <<pc, hold, ending, finished>>
      BY <2>1 DEF Offer, Call, Count
    <3>5. queue' \in Seq(Elements)
      <4>1. CASE queue' = Append(queue, Element(t))
        BY <2>0, <4>1
      <4>2. CASE queue # <<>> /\ queue' = Append(Tail(queue), Element(t))
        BY <2>0, <3>2, <4>2
      <4> QED
        BY <3>3, <4>1, <4>2
    <3>6. early' \subseteq Elements /\ dropped' \subseteq Elements
      BY <2>0, <3>2, <3>3
    <3> QED
      BY <3>4, <3>5, <3>6
  <2>2. CASE CallPut(t)
    <3>1. /\ hold' = hold \/ hold' = [hold EXCEPT ![t] = Element(t)]
          /\ pc' \in {pc, [pc EXCEPT ![t] = "put"]}
          /\ given' = [given EXCEPT ![t] = @ + 1]
          /\ UNCHANGED <<queue, ending, finished, early, dropped>>
      BY <2>2 DEF CallPut, Call, Count, Holds
    <3>2. hold' \in [Tasks -> Elements]
      BY <2>0, <3>1
    <3>3. pc' \in [Tasks -> Places]
      BY <1>0, <3>1
    <3>4. given' \in [Tasks -> Nat]
      BY <1>c, <3>1
    <3> QED
      BY <3>1, <3>2, <3>3, <3>4
  <2>3. CASE CallClose(t)
    <3>1. /\ \E e \in Elements : hold' = [hold EXCEPT ![t] = e]
          /\ pc' = [pc EXCEPT ![t] = "put"]
          /\ given' = [given EXCEPT ![t] = @ + 1]
          /\ UNCHANGED <<queue, ending, finished, early, dropped>>
      BY <1>0, <2>3 DEF CallClose, Call, Count, Holds
    <3> QED
      BY <1>0, <3>1
  <2> QED
    BY <1>2, <2>1, <2>2, <2>3 DEF Sends
<1>3. {t \in Pumps : pc[t] # "over"} \subseteq Tasks
  BY PumpFacts
<1>4. CASE Take
  <2>1. queue' \in Seq(Elements) /\ Head(queue) \in Elements
    BY <1>4, HeadTail DEF Take
  <2>2. Head(queue)[1] \in Nat
    BY <2>1 DEF Elements
  <2>3. UNCHANGED <<given, pc, hold, early, dropped>>
    BY <1>4 DEF Take
  <2>4. /\ finished' \in {finished, 1} /\ awaited' \in {awaited, Head(queue)[1]}
        /\ out' = out \/ out' = Append(out, Head(queue))
        /\ reader' \in {reader, "closing", "await", "yield"}
        /\ verdict' \in {verdict, "end", "error"}
        /\ cancelling' \in {cancelling, {t \in Pumps : pc[t] # "over"}}
    BY <1>4, <2>1 DEF Take, Leave, Yield
  <2>5. out' \in Seq(Elements)
    BY <1>a, <2>1, <2>4
  <2> QED
    BY <1>0, <1>3, <2>1, <2>2, <2>3, <2>4, <2>5
<1>5. CASE EndsMap \/ Awaits \/ AskNext \/ Closes \/ Close
  <2>1. <<awaited, 1>> \in Elements
    BY DEF Elements
  <2>2. fin[1] \in Verdicts
    BY DEF SetupInv, Verdicts
  <2>3. CASE EndsMap
    BY <1>0, <1>3, <2>2, <2>3 DEF EndsMap, Leave
  <2>4. CASE Awaits
    <3>1. /\ out' = out \/ out' = Append(out, <<awaited, 1>>)
          /\ reader' \in {"yield", "closing", "get"} /\ verdict' \in {verdict, "error"}
          /\ cancelling' \in {cancelling, {t \in Pumps : pc[t] # "over"}}
          /\ UNCHANGED <<given, pc, hold, queue, awaited, finished, early, dropped>>
      BY <2>4 DEF Awaits, Leave, Yield
    <3>2. out' \in Seq(Elements)
      BY <1>a, <2>1, <3>1
    <3> QED
      BY <1>0, <1>3, <3>1, <3>2
  <2>5. CASE AskNext \/ Closes
    BY <1>0, <2>5 DEF AskNext, Closes
  <2>6. CASE Close
    BY <1>0, <1>3, <2>6 DEF Close, Leave
  <2> QED
    BY <1>5, <2>3, <2>4, <2>5, <2>6
<1>6. CASE UNCHANGED vars
  BY <1>6 DEF vars
<1> QED
  BY <1>1, <1>2, <1>4, <1>5, <1>6 DEF Next, Reads

----------------------------------------------------------------------------
(* Where tasks and reader may be, and how a generator is closed.           *)

\* The places of a task, by the operator it works for.
Allowed(t) ==
    CASE kind \in {"merge", "buffer"} -> IF t \in Pumps THEN {"pull", "put", "over"} ELSE {"idle"}
      [] kind = "map_async" -> IF t = 1 THEN {"pull", "put", "over"} ELSE {"idle", "run", "over"}
      [] kind = "flat_map_merge" ->
             IF t = 1 THEN {"pull", "acquire", "over"} ELSE {"idle", "pull", "over"}
      [] OTHER -> {"ready", "put"}

\* The producer that waits for a permit has an item in hand.
Placed ==
    /\ \A t \in Tasks : pc[t] \in Allowed(t)
    /\ pc[1] = "acquire" => given[1] >= 1

\* Leaving the loop and requesting the producers' cancellation are one step: from
\* then on a producer that is not over is one that has been told to stop.
Reading ==
    /\ verdict = "running" <=> reader \in {"get", "await", "yield"}
    /\ verdict = "running" \/ reader = "done" => cancelling = {}
    /\ cancelling \subseteq Pumps
    /\ reader = "await" => kind = "map_async"
    /\ reader \in {"closing", "done"} => \A t \in Pumps : pc[t] = "over" \/ t \in cancelling

LEMMA AllowedFacts ==
    ASSUME SetupInv, NEW t \in Tasks
    PROVE  /\ Pumping /\ t \in Pumps => Allowed(t) = {"pull", "put", "over"}
           /\ Pumping /\ t \notin Pumps => Allowed(t) = {"idle"}
           /\ kind = "map_async" /\ t = 1 => Allowed(t) = {"pull", "put", "over"}
           /\ kind = "map_async" /\ t # 1 => Allowed(t) = {"idle", "run", "over"}
           /\ kind = "flat_map_merge" /\ t = 1 => Allowed(t) = {"pull", "acquire", "over"}
           /\ kind = "flat_map_merge" /\ t # 1 => Allowed(t) = {"idle", "pull", "over"}
           /\ kind = "channel" => Allowed(t) = {"ready", "put"}
           /\ Pumping \/ kind \in {"map_async", "flat_map_merge", "channel"}
  BY DEF SetupInv, Allowed, Pumping

LEMMA AllowedStays == UNCHANGED setup => Pumps' = Pumps /\ \A t \in Tasks : Allowed(t)' = Allowed(t)
  BY DEF Allowed, Pumps, setup

\* A task at "acquire" is the producer of flat_map_merge.
LEMMA WhoAcquires ==
    ASSUME SetupInv, Placed, NEW t \in Tasks, pc[t] = "acquire"
    PROVE  kind = "flat_map_merge" /\ t = 1
  BY AllowedFacts DEF Placed

LEMMA PlacedInductive ==
    SetupInv /\ TypeInv /\ Placed /\ Reading /\ [Next]_vars => Placed'
<1> SUFFICES ASSUME SetupInv, TypeInv, Placed, Reading, [Next]_vars PROVE Placed'
  OBVIOUS
<1>0. UNCHANGED setup /\ 1 \in Tasks /\ Cardinality(Tasks) \in Nat
  BY SetupInductive, TaskNumbers DEF SetupInv
<1>1. \A t \in Tasks : Allowed(t)' = Allowed(t)
  BY <1>0, AllowedStays
<1>2. pc \in [Tasks -> Places] /\ given \in [Tasks -> Nat]
  BY DEF TypeInv
\* What follows if nothing but one task moves, to a place of its own.
<1>3. ASSUME NEW t \in Tasks, NEW p \in Allowed(t), p # "acquire",
             pc' = [pc EXCEPT ![t] = p] \/ pc' = pc,
             given' = given \/ \E u \in Tasks : given' = [given EXCEPT ![u] = given[u] + 1]
      PROVE  Placed'
  <2>1. \A u \in Tasks : pc'[u] \in Allowed(u)
    BY <1>2, <1>3 DEF Placed
  <2>2. pc'[1] = "acquire" => pc[1] = "acquire"
    BY <1>0, <1>2, <1>3
  <2>3. given'[1] \in Nat /\ given[1] \in Nat /\ (given'[1] = given[1] \/ given'[1] = given[1] + 1)
    BY <1>0, <1>2, <1>3
  <2>4. given[1] >= 1 => given'[1] >= 1
    BY <2>3
  <2> QED
    BY <1>1, <2>1, <2>2, <2>4 DEF Placed
<1>4. ASSUME UNCHANGED <<pc, given>> PROVE Placed'
  BY <1>1, <1>4 DEF Placed
<1>5. ASSUME NEW t \in Tasks, Works(t) PROVE Placed'
  <2>1. CASE Put(t)
    <3>1. pc[t] = "put" /\ UNCHANGED given
      BY <2>1 DEF Put
    <3>2. AfterPut(t) \in Allowed(t) /\ AfterPut(t) # "acquire"
      <4>1. "put" \in Allowed(t)
        BY <3>1 DEF Placed
      <4>2. AfterPut(t) = IF kind = "channel" THEN "ready" ELSE IF hold[t] = Done THEN "over" ELSE "pull"
        BY DEF AfterPut
      <4> QED
        BY <4>1, <4>2, AllowedFacts
    <3>3. pc' = [pc EXCEPT ![t] = AfterPut(t)] \/ pc' = pc
      BY <2>1 DEF Put
    <3> QED
      BY <1>3, <3>1, <3>2, <3>3
  <2>2. CASE Pump(t)
    <3>1. pc[t] = "pull" /\ Pumping
      BY <2>2 DEF Pump, Pumping
    <3>2. "put" \in Allowed(t) /\ "over" \in Allowed(t)
      BY <3>1, AllowedFacts DEF Placed
    <3>3. /\ pc' = [pc EXCEPT ![t] = "put"] \/ pc' = [pc EXCEPT ![t] = "over"]
          /\ given' = given \/ given' = [given EXCEPT ![t] = given[t] + 1]
      BY <2>2 DEF Pump, PumpEnds, Holds, Count
    <3> QED
      BY <1>3, <3>2, <3>3
  <2>3. CASE Produce(t)
    <3>1. kind = "map_async" /\ pc[t] = "pull" /\ given[t] \in Nat
      BY <1>2, <2>3 DEF Produce
    <3>2. t = 1 /\ given[t] + 2 # 1
      BY <3>1, AllowedFacts DEF Placed
    <3>3. /\ pc' = [pc EXCEPT ![t] = "over"] \/ pc' = [pc EXCEPT ![t] = "put", ![given[t] + 2] = "run"]
          /\ given' = given \/ given' = [given EXCEPT ![t] = given[t] + 1]
      BY <2>3 DEF Produce, Count
    <3>4. \A u \in Tasks \ {1} : "run" \in Allowed(u)
      BY <3>1, AllowedFacts
    <3>5. "put" \in Allowed(1) /\ "over" \in Allowed(1)
      BY <1>0, <3>1, AllowedFacts
    <3>6. \A u \in Tasks : pc'[u] \in Allowed(u)
      BY <1>2, <3>2, <3>3, <3>4, <3>5 DEF Placed
    <3>7. pc'[1] # "acquire"
      BY <1>0, <1>2, <3>2, <3>3
    <3> QED
      BY <1>1, <3>6, <3>7 DEF Placed
  <2>4. CASE ItemEnds(t)
    <3>1. pc[t] = "run" /\ pc' = [pc EXCEPT ![t] = "over"] /\ UNCHANGED given
      BY <2>4 DEF ItemEnds
    <3>2. "over" \in Allowed(t)
      BY <3>1, AllowedFacts DEF Placed
    <3> QED
      BY <1>3, <3>1, <3>2
  <2>5. CASE Acquire(t)
    <3>1. /\ kind = "flat_map_merge" /\ t = 1 /\ given[1] \in Nat
          /\ pc' = [pc EXCEPT ![1] = "acquire"] /\ given' = [given EXCEPT ![1] = given[1] + 1]
      BY <1>2, <2>5 DEF Acquire, Count
    <3>2. "acquire" \in Allowed(1)
      BY <1>0, <3>1, AllowedFacts
    <3>3. given'[1] >= 1
      BY <1>0, <1>2, <3>1
    <3>4. \A u \in Tasks : pc'[u] \in Allowed(u)
      BY <1>2, <3>1, <3>2 DEF Placed
    <3> QED
      BY <1>1, <3>3, <3>4 DEF Placed
  <2>6. CASE StartSub(t)
    <3>1. pc[t] = "acquire"
      BY <2>6 DEF StartSub
    <3>2. kind = "flat_map_merge" /\ t = 1
      BY <3>1, WhoAcquires
    <3>3. /\ pc' = [pc EXCEPT ![1] = "pull", ![given[1] + 1] = "pull"] /\ UNCHANGED given
      BY <2>6, <3>2 DEF StartSub
    <3>4. \A u \in Tasks : "pull" \in Allowed(u)
      BY <3>2, AllowedFacts
    <3>5. \A u \in Tasks : pc'[u] \in Allowed(u)
      BY <1>2, <3>3, <3>4 DEF Placed
    <3>6. pc'[1] # "acquire"
      BY <1>0, <1>2, <3>3
    <3> QED
      BY <1>1, <3>5, <3>6 DEF Placed
  <2>7. CASE ProducerEnds(t)
    <3>1. /\ kind = "flat_map_merge" /\ t = 1
          /\ pc' = [pc EXCEPT ![t] = "over"] /\ UNCHANGED given
      BY <2>7 DEF ProducerEnds
    <3>2. "over" \in Allowed(t)
      BY <3>1, AllowedFacts
    <3> QED
      BY <1>3, <3>1, <3>2
  <2>8. CASE Sub(t)
    <3>1. /\ kind = "flat_map_merge" /\ t # 1
          /\ pc' = pc \/ pc' = [pc EXCEPT ![t] = "over"]
          /\ given' = given \/ given' = [given EXCEPT ![t] = given[t] + 1]
      BY <2>8 DEF Sub, Active, Count
    <3>2. "over" \in Allowed(t)
      BY <3>1, AllowedFacts
    <3> QED
      BY <1>3, <3>1, <3>2
  <2>9. CASE Dies(t)
    <3>1. t \in Pumps /\ pc' = [pc EXCEPT ![t] = "over"] /\ UNCHANGED given
      BY <2>9 DEF Dies, Reading
    <3>2. "over" \in Allowed(t)
      BY <3>1, AllowedFacts, PumpFacts DEF Pumping
    <3> QED
      BY <1>3, <3>1, <3>2
  <2> QED
    BY <1>5, <2>1, <2>2, <2>3, <2>4, <2>5, <2>6, <2>7, <2>8, <2>9 DEF Works
<1>6. ASSUME NEW t \in Tasks, Sends(t) PROVE Placed'
  <2>1. /\ kind = "channel" /\ given' = [given EXCEPT ![t] = given[t] + 1]
        /\ pc' = pc \/ pc' = [pc EXCEPT ![t] = "put"]
    BY <1>6 DEF Sends, Offer, CallPut, CallClose, Call, Count, Holds
  <2>2. "put" \in Allowed(t)
    BY <2>1, AllowedFacts
  <2> QED
    BY <1>3, <2>1, <2>2
<1>7. CASE Reads
  BY <1>4, <1>7 DEF Reads, Take, EndsMap, Awaits, AskNext, Closes
<1>8. CASE Close
  <2>1. UNCHANGED given /\ (pc' = pc \/ (reader = "await" /\ pc' = [pc EXCEPT ![awaited] = "over"]))
    BY <1>8 DEF Close
  <2>2. CASE pc' = pc
    BY <1>4, <2>1, <2>2
  <2>3. CASE reader = "await" /\ pc' = [pc EXCEPT ![awaited] = "over"]
    <3>1. \A u \in Tasks : "over" \in Allowed(u)
      BY <2>3, AllowedFacts DEF Reading
    <3>2. \A u \in Tasks : pc'[u] \in Allowed(u)
      BY <1>2, <2>3, <3>1 DEF Placed
    <3>3. pc'[1] = "acquire" => pc[1] = "acquire"
      BY <1>0, <1>2, <2>3
    <3> QED
      BY <1>1, <2>1, <3>2, <3>3 DEF Placed
  <2> QED
    BY <2>1, <2>2, <2>3
<1>9. CASE UNCHANGED vars
  BY <1>4, <1>9 DEF vars
<1> QED
  BY <1>5, <1>6, <1>7, <1>8, <1>9 DEF Next

\* A producer that is over stays so: nobody starts it again.
LEMMA OverStays ==
    ASSUME SetupInv, TypeInv, Placed, Next, NEW t \in Pumps, pc[t] = "over"
    PROVE  pc'[t] = "over"
<1>0. t \in Tasks /\ 1 \in Tasks /\ kind # "channel" /\ (Starting => t = 1)
  BY PumpFacts DEF SetupInv, Starting
<1>1. pc \in [Tasks -> Places] /\ given \in [Tasks -> Nat]
  BY DEF TypeInv
<1>2. ASSUME NEW u \in Tasks, Works(u) PROVE pc'[t] = "over"
  <2>1. CASE Put(u) \/ Pump(u) \/ Acquire(u)
    <3>1. u # t /\ (pc' = pc \/ \E p \in Places : pc' = [pc EXCEPT ![u] = p])
      BY <1>1, <2>1 DEF Put, Pump, Holds, PumpEnds, AfterPut, Acquire, Places
    <3> QED
      BY <1>0, <1>1, <3>1
  <2>2. CASE Produce(u)
    <3>1. /\ kind = "map_async" /\ pc[u] = "pull" /\ given[u] \in Nat
          /\ \/ pc' = [pc EXCEPT ![u] = "over"]
             \/ pc' = [pc EXCEPT ![u] = "put", ![given[u] + 2] = "run"]
      BY <1>1, <2>2 DEF Produce
    <3>2. t = 1 /\ u # 1 /\ given[u] + 2 # 1
      BY <1>0, <3>1 DEF Starting
    <3> QED
      BY <1>0, <1>1, <3>1, <3>2
  <2>3. CASE ItemEnds(u) \/ ProducerEnds(u) \/ Sub(u) \/ Dies(u)
    BY <1>0, <1>1, <2>3 DEF ItemEnds, ProducerEnds, Sub, Dies
  <2>4. CASE StartSub(u)
    BY <1>0, <1>1, <2>4, WhoAcquires DEF StartSub, Starting
  <2> QED
    BY <1>2, <2>1, <2>2, <2>3, <2>4 DEF Works
<1>3. ASSUME NEW u \in Tasks, Sends(u) PROVE pc'[t] = "over"
  BY <1>0, <1>3 DEF Sends, Offer, CallPut, CallClose, Call
<1>4. CASE Reads \/ Close
  BY <1>0, <1>1, <1>4 DEF Reads, Take, EndsMap, Awaits, AskNext, Closes, Close
<1> QED
  BY <1>2, <1>3, <1>4 DEF Next

LEMMA ReadingInductive ==
    SetupInv /\ TypeInv /\ Placed /\ Reading /\ [Next]_vars => Reading'
<1> SUFFICES ASSUME SetupInv, TypeInv, Placed, Reading, [Next]_vars PROVE Reading'
  OBVIOUS
<1>0. Pumps' = Pumps /\ kind' = kind /\ Pumps \subseteq Tasks
  BY SetupInductive, AllowedStays, PumpFacts DEF setup
<1>1. ASSUME UNCHANGED vars PROVE Reading'
  BY <1>0, <1>1 DEF Reading, vars
<1>2. ASSUME Next PROVE \A t \in Pumps : pc[t] = "over" => pc'[t] = "over"
  BY <1>2, OverStays
<1>3. ASSUME Next, UNCHANGED <<reader, verdict, cancelling>> PROVE Reading'
  BY <1>0, <1>2, <1>3 DEF Reading
\* The reader leaves its loop: it was running, and nobody had been cancelled.
<1>4. ASSUME NEW v \in Verdicts \ {"running"}, Leave(v), Next PROVE Reading'
  BY <1>0, <1>2, <1>4 DEF Reading, Leave
<1>5. ASSUME NEW t \in Tasks, Works(t), Next PROVE Reading'
  <2>1. CASE Dies(t)
    <3>1. /\ t \in cancelling /\ cancelling' = cancelling \ {t} /\ UNCHANGED <<reader, verdict>>
          /\ pc' = [pc EXCEPT ![t] = "over"]
      BY <2>1 DEF Dies
    <3>2. pc'[t] = "over"
      BY <3>1 DEF TypeInv
    <3> QED
      BY <1>0, <1>2, <1>5, <3>1, <3>2 DEF Reading
  <2>2. CASE ~Dies(t)
    BY <1>3, <1>5, <2>2 DEF Works, Put, Pump, Produce, ItemEnds, Acquire, StartSub,
       ProducerEnds, Sub, ending
  <2> QED
    BY <2>1, <2>2
<1>6. ASSUME NEW t \in Tasks, Sends(t), Next PROVE Reading'
  BY <1>3, <1>6 DEF Sends, Offer, CallPut, CallClose, ending
<1>7. ASSUME Take, Next PROVE Reading'
  <2>1. \/ Leave("end") \/ Leave("error")
        \/ UNCHANGED <<reader, verdict, cancelling>>
        \/ /\ reader' = "yield" \/ (reader' = "await" /\ kind = "map_async")
           /\ reader = "get" /\ UNCHANGED <<verdict, cancelling>>
    BY <1>7 DEF Take, Yield
  <2>2. CASE Leave("end") \/ Leave("error")
    BY <1>4, <1>7, <2>2 DEF Verdicts
  <2> QED
    BY <1>0, <1>2, <1>3, <1>7, <2>1, <2>2 DEF Reading
<1>8. ASSUME EndsMap \/ Close, Next PROVE Reading'
  BY <1>4, <1>8 DEF EndsMap, Close, SetupInv, Verdicts
<1>9. ASSUME Awaits, Next PROVE Reading'
  <2>1. \/ Leave("error")
        \/ /\ reader' \in {"yield", "get"} /\ reader = "await"
           /\ UNCHANGED <<verdict, cancelling>>
    BY <1>9 DEF Awaits, Yield
  <2> QED
    BY <1>0, <1>2, <1>4, <1>9, <2>1 DEF Reading, Verdicts
<1>10. ASSUME AskNext \/ Closes, Next PROVE Reading'
  BY <1>0, <1>2, <1>10 DEF Reading, AskNext, Closes
<1> QED
  BY <1>1, <1>5, <1>6, <1>7, <1>8, <1>9, <1>10 DEF Next, Reads

Control == SetupInv /\ TypeInv /\ Placed /\ Reading

LEMMA ControlInit == Init => Control
<1> SUFFICES ASSUME Init PROVE Control
  OBVIOUS
<1>1. SetupInv
  BY Sources DEF Init, SetupInv, Starting
<1>2. 1 \in Tasks /\ Done \in Elements /\ <<>> \in Seq(Elements)
  BY <1>1, EmptySeq DEF SetupInv, Elements, Done
<1>3. \A t \in Tasks : pc[t] \in Places /\ pc[t] \in Allowed(t) /\ pc[t] # "acquire"
  BY <1>1, AllowedFacts, PumpFacts DEF Init, Places, Pumping
<1>4. TypeInv
  BY <1>2, <1>3 DEF Init, TypeInv, Phases, Verdicts
<1> QED
  BY <1>1, <1>2, <1>3, <1>4 DEF Control, Placed, Reading, Init

LEMMA ControlInductive == Control /\ [Next]_vars => Control'
  BY SetupInductive, TypeInductive, PlacedInductive, ReadingInductive DEF Control

\* A generator that has finished or been closed has no producer left: whoever was
\* still at work when the reader left has been cancelled, and awaited.
THEOREM ProducersAlwaysGone == Spec => []ProducersGone
<1>1. Control => ProducersGone
  BY DEF Control, Reading, ProducersGone
<1> QED
  BY <1>1, ControlInit, ControlInductive, PTL DEF Spec

----------------------------------------------------------------------------
(* map_async: its item tasks are numbered as their items are.              *)

\* The item tasks 2..given[1] + 1 have been started; each is handed over as <<t, 1>>.
MapNumbers ==
    /\ given[1] <= len[1]
    /\ \A t \in Tasks : t > given[1] + 1 => pc[t] = "idle"
    /\ pc[1] = "put" => given[1] >= 1 /\ hold[1] = <<given[1] + 1, 1>>
    /\ \A i \in DOMAIN queue : \E m \in 2..given[1] + 1 : queue[i] = <<m, 1>>
    /\ \A i \in DOMAIN out : \E m \in 2..given[1] + 1 : out[i] = <<m, 1>>
    /\ awaited \in 1..given[1] + 1 /\ (reader = "await" => awaited # 1)

\* Output, awaited item, queue and held item are in the order of the input.
MapOrder ==
    /\ \A i, j \in DOMAIN out : i < j => out[i][1] < out[j][1]
    /\ \A i, j \in DOMAIN queue : i < j => queue[i][1] < queue[j][1]
    /\ \A i \in DOMAIN out, j \in DOMAIN queue : out[i][1] < queue[j][1]
    /\ reader = "await" => /\ \A i \in DOMAIN out : out[i][1] < awaited
                           /\ \A j \in DOMAIN queue : awaited < queue[j][1]
    /\ pc[1] = "put" => /\ \A i \in DOMAIN out : out[i][1] < given[1] + 1
                        /\ \A j \in DOMAIN queue : queue[j][1] < given[1] + 1
                        /\ reader = "await" => awaited < given[1] + 1

InQueue(t) == \E i \in DOMAIN queue : queue[i] = <<t, 1>>
Yielded(t) == \E i \in DOMAIN out : out[i] = <<t, 1>>
Kept(t)    == fin[t] = "timeout" \/ Yielded(t)

\* Until the reader leaves no item is lost, but by its own TimeoutError.
MapWhole ==
    /\ verdict = "running" => \A t \in 2..given[1] + 1 :
          \/ Kept(t)
          \/ InQueue(t)
          \/ pc[1] = "put" /\ t = given[1] + 1
          \/ reader = "await" /\ t = awaited
    /\ verdict = "running" /\ finished = 1 => pc[1] = "over" /\ given[1] = len[1]
    /\ verdict = "end" => \A t \in 2..len[1] + 1 : Kept(t)

\* A function that runs is that of an item in the queue, of the producer's own or
\* of the one awaited last.
MapRuns ==
    /\ Len(queue) <= Width
    /\ \A t \in Tasks : pc[t] = "run" =>
          \/ InQueue(t)
          \/ pc[1] # "pull" /\ t = given[1] + 1
          \/ t = awaited
    /\ reader \in {"get", "yield"} => \A t \in Tasks : t = awaited => pc[t] # "run"

MapInv == kind = "map_async" => MapNumbers /\ MapOrder /\ MapWhole /\ MapRuns

\* What a step of map_async does to all but parked and cancelling.
MapView == <<given, pc, hold, queue, reader, awaited, finished, out, verdict>>

Puts ==
    /\ pc[1] = "put" /\ Len(queue) < Width
    /\ queue' = Append(queue, hold[1]) /\ pc' = [pc EXCEPT ![1] = "pull"]
    /\ UNCHANGED <<given, hold, reader, awaited, finished, out, verdict>>
Produces ==
    /\ pc[1] = "pull" /\ given[1] < len[1]
    /\ given' = [given EXCEPT ![1] = given[1] + 1]
    /\ hold' = [hold EXCEPT ![1] = <<given[1] + 2, 1>>]
    /\ pc' = [pc EXCEPT ![1] = "put", ![given[1] + 2] = "run"]
    /\ UNCHANGED <<queue, reader, awaited, finished, out, verdict>>
Exhausts ==
    /\ pc[1] = "pull" /\ given[1] >= len[1]
    /\ pc' = [pc EXCEPT ![1] = "over"] /\ finished' = 1
    /\ UNCHANGED <<given, hold, queue, reader, awaited, out, verdict>>
Ended(t) ==
    /\ pc[t] = "run" /\ pc' = [pc EXCEPT ![t] = "over"]
    /\ UNCHANGED <<given, hold, queue, reader, awaited, finished, out, verdict>>
Killed ==
    /\ verdict # "running" /\ pc' = [pc EXCEPT ![1] = "over"]
    /\ finished' \in {0, 1}
    /\ UNCHANGED <<given, hold, queue, reader, awaited, out, verdict>>
Takes ==
    /\ reader = "get" /\ queue # <<>> /\ queue' = Tail(queue)
    /\ reader' = "await" /\ awaited' = Head(queue)[1]
    /\ UNCHANGED <<given, pc, hold, finished, out, verdict>>
Yields ==
    /\ reader = "await" /\ pc[awaited] = "over"
    /\ out' = Append(out, <<awaited, 1>>) /\ reader' = "yield"
    /\ UNCHANGED <<given, pc, hold, queue, awaited, finished, verdict>>
Skips ==
    /\ reader = "await" /\ pc[awaited] = "over" /\ fin[awaited] = "timeout" /\ reader' = "get"
    /\ UNCHANGED <<given, pc, hold, queue, awaited, finished, out, verdict>>
Resumes ==
    /\ reader = "yield" /\ reader' = "get"
    /\ UNCHANGED <<given, pc, hold, queue, awaited, finished, out, verdict>>
Leaves ==
    /\ verdict' # "running" /\ reader' \in {"closing", "done"}
    /\ \/ verdict' # "end"
       \/ verdict' = verdict
       \/ verdict = "running" /\ reader = "get" /\ queue = <<>> /\ finished = 1
    /\ pc' = pc \/ (reader = "await" /\ pc' = [pc EXCEPT ![awaited] = "over"])
    /\ UNCHANGED <<given, hold, queue, awaited, finished, out>>
MapMove ==
    \/ Puts \/ Produces \/ Exhausts \/ Killed \/ Takes \/ Yields \/ Skips \/ Resumes \/ Leaves
    \/ \E t \in Tasks \ {1} : Ended(t)
    \/ UNCHANGED MapView

LEMMA MapSteps ==
    ASSUME Control, kind = "map_async", MapNumbers, [Next]_vars
    PROVE  MapMove
<1> USE DEF Control
<1>0. 1 \in Tasks /\ Pumps = {1}
  BY PumpFacts DEF SetupInv
<1>1. pc \in [Tasks -> Places] /\ given \in [Tasks -> Nat] /\ queue \in Seq(Elements)
  BY DEF TypeInv
<1>2. \A t \in Tasks : /\ pc[t] \in {"pull", "put"} => t = 1
                       /\ pc[t] = "run" => t # 1
                       /\ pc[t] \in {"pull", "put", "over", "idle", "run"}
  BY AllowedFacts DEF Placed
<1>3. Maxsize = Width /\ ~Pumping
  BY DEF Maxsize, Pumping
<1>4. ASSUME NEW t \in Tasks, Works(t) PROVE MapMove
  <2>1. CASE Put(t)
    <3>1. t = 1 /\ pc[1] = "put"
      BY <1>2, <2>1 DEF Put
    <3>2. Room <=> Width = 0 \/ Len(queue) < Width
      BY <1>3 DEF Room
    <3>3. Width # 0
      BY Numbers
    <3>4. AfterPut(1) = "pull"
      BY <3>1 DEF AfterPut, MapNumbers, Done
    <3> QED
      BY <2>1, <3>1, <3>2, <3>3, <3>4 DEF Put, ending, MapMove, Puts, MapView
  <2>2. CASE Produce(t)
    <3>1. t = 1
      BY <1>2, <2>2 DEF Produce
    <3>2. MoreOf(1) <=> ~(given[1] >= len[1])
      BY <1>0, <1>1 DEF MoreOf, SetupInv
    <3> QED
      BY <2>2, <3>1, <3>2 DEF Produce, Count, MoreOf, ending, MapMove, Produces, Exhausts
  <2>3. CASE ItemEnds(t)
    BY <1>2, <2>3 DEF ItemEnds, ending, MapMove, Ended
  <2>4. CASE Dies(t)
    <3>1. t = 1 /\ verdict # "running"
      BY <1>0, <2>4 DEF Dies, Reading
    <3> QED
      BY <2>4, <3>1 DEF Dies, MapMove, Killed
  <2>5. ~(Pump(t) \/ Acquire(t) \/ StartSub(t) \/ ProducerEnds(t) \/ Sub(t))
    BY <1>2, WhoAcquires DEF Pump, Acquire, StartSub, ProducerEnds, Sub
  <2> QED
    BY <1>4, <2>1, <2>2, <2>3, <2>4, <2>5 DEF Works
<1>5. ASSUME NEW t \in Tasks, Sends(t) PROVE MapMove
  BY <1>5 DEF Sends, Offer, CallPut, CallClose, Call
<1>6. CASE Take
  <2>1. queue # <<>> /\ reader = "get"
    BY <1>6 DEF Take
  <2>2. Head(queue) = queue[1] /\ 1 \in DOMAIN queue
    BY <1>1, <2>1, HeadTail
  <2>3. ~Sentinel(Head(queue)) /\ Head(queue) # Failed
    BY <2>2 DEF MapNumbers, Sentinel, Done, Failed
  <2> QED
    BY <1>6, <2>1, <2>3 DEF Take, MapMove, Takes
<1>7. CASE EndsMap
  <2>1. reader = "get" /\ verdict = "running" /\ fin[1] # "running"
    BY <1>7 DEF EndsMap, Reading, SetupInv
  <2> QED
    BY <1>7, <2>1 DEF EndsMap, Leave, MapMove, Leaves
<1>8. CASE Awaits
  <2>1. awaited \in Tasks
    <3>1. len[1] + 1 \in Tasks /\ given[1] \in Nat /\ len[1] \in Nat /\ Cardinality(Tasks) \in Nat
      BY <1>0, <1>1, TaskNumbers DEF SetupInv, Starting
    <3>2. awaited \in 1..given[1] + 1 /\ given[1] <= len[1]
      BY DEF MapNumbers
    <3> QED
      BY <3>1, <3>2, Numbers
  <2>2. fin[awaited] \in {"end", "error", "timeout"}
    BY <2>1 DEF SetupInv
  <2> QED
    BY <1>8, <2>2 DEF Awaits, Leave, Yield, MapMove, Leaves, Yields, Skips
<1>9. CASE AskNext
  BY <1>9 DEF AskNext, MapMove, Resumes
<1>10. CASE Closes
  BY <1>10 DEF Closes, MapMove, Leaves, Reading
<1>11. CASE Close
  BY <1>11 DEF Close, Leave, MapMove, Leaves
<1>12. CASE UNCHANGED vars
  BY <1>12 DEF vars, MapMove, MapView
<1> QED
  BY <1>4, <1>5, <1>6, <1>7, <1>8, <1>9, <1>10, <1>11, <1>12 DEF Next, Reads


LEMMA Tails ==
    ASSUME NEW S, NEW q \in Seq(S), q # <<>>
    PROVE  /\ Head(q) = q[1] /\ 1 \in DOMAIN q /\ Len(Tail(q)) = Len(q) - 1
           /\ \A i \in DOMAIN Tail(q) : i \in Nat /\ i + 1 \in DOMAIN q /\ Tail(q)[i] = q[i + 1]
           /\ \A i \in DOMAIN q : i # 1 => i - 1 \in DOMAIN Tail(q) /\ Tail(q)[i - 1] = q[i]
           /\ \A i \in DOMAIN q : i \in Nat /\ i >= 1
<1>1. /\ Head(q) = q[1] /\ 1 \in DOMAIN q /\ Tail(q) \in Seq(S) /\ Len(q) \in Nat \ {0}
      /\ Len(Tail(q)) = Len(q) - 1 /\ \A i \in 1..Len(q) - 1 : Tail(q)[i] = q[i + 1]
  BY HeadTail
<1>2. DOMAIN q = 1..Len(q) /\ DOMAIN Tail(q) = 1..Len(q) - 1
  BY <1>1, LenProperties
<1> QED
  BY <1>1, <1>2

LEMMA Appends ==
    ASSUME NEW S, NEW q \in Seq(S), NEW e \in S
    PROVE  /\ Len(Append(q, e)) = Len(q) + 1 /\ Len(q) \in Nat
           /\ Len(q) + 1 \in DOMAIN Append(q, e) /\ Append(q, e)[Len(q) + 1] = e
           /\ \A i \in DOMAIN q : /\ i \in Nat /\ i >= 1 /\ i < Len(q) + 1
                                  /\ i \in DOMAIN Append(q, e) /\ Append(q, e)[i] = q[i]
           /\ \A i \in DOMAIN Append(q, e) : i \in Nat /\ (i \in DOMAIN q \/ i = Len(q) + 1)
<1>1. /\ Append(q, e) \in Seq(S) /\ Len(Append(q, e)) = Len(q) + 1 /\ Len(q) \in Nat
      /\ DOMAIN q = 1..Len(q) /\ DOMAIN Append(q, e) = 1..Len(q) + 1
      /\ \A i \in 1..Len(q) : Append(q, e)[i] = q[i]
      /\ Append(q, e)[Len(q) + 1] = e
  BY AppendProperties, LenProperties
<1> QED
  BY <1>1

\* The setting of the lemmas about map_async.
MapStep ==
    /\ kind = "map_async" /\ Control /\ Control' /\ UNCHANGED setup
    /\ MapNumbers /\ MapMove

LEMMA MapTyped ==
    ASSUME MapStep
    PROVE  /\ 1 \in Tasks /\ \A t \in Tasks : t \in Nat /\ t >= 1
           /\ given[1] \in Nat /\ len[1] \in Nat /\ given[1] <= len[1]
           /\ \A m \in 1..len[1] + 1 : m \in Tasks
           /\ pc \in [Tasks -> Places] /\ given \in [Tasks -> Nat] /\ hold \in [Tasks -> Elements]
           /\ queue \in Seq(Elements) /\ out \in Seq(Elements)
           /\ UNCHANGED <<kind, len, fin>>
<1>1. SetupInv /\ TypeInv /\ kind = "map_async" /\ given[1] <= len[1]
  BY DEF MapStep, Control, MapNumbers
<1>2. 1 \in Tasks /\ len[1] + 1 \in Tasks /\ len[1] \in Nat /\ given[1] \in Nat
  BY <1>1 DEF SetupInv, Starting, TypeInv
<1>3. \A m \in 1..len[1] + 1 : m \in Tasks
  BY <1>2, TaskNumbers, Numbers
<1> QED
  BY <1>1, <1>2, <1>3, TaskNumbers DEF TypeInv, MapStep, setup

LEMMA MapNumbersInductive == MapStep => MapNumbers'
<1> SUFFICES ASSUME MapStep PROVE MapNumbers'
  OBVIOUS
<1>0. MapNumbers /\ MapMove
  BY DEF MapStep
<1> DEFINE n == given[1]
<1>1. /\ 1 \in Tasks /\ n \in Nat /\ len[1] \in Nat /\ UNCHANGED len
      /\ pc \in [Tasks -> Places] /\ given \in [Tasks -> Nat] /\ hold \in [Tasks -> Elements]
      /\ queue \in Seq(Elements) /\ out \in Seq(Elements)
      /\ \A t \in Tasks : t \in Nat
  BY MapTyped
<1>2. CASE Puts
  <2>1. hold[1] = <<n + 1, 1>> /\ n + 1 \in 2..n + 1 /\ hold[1] \in Elements
    BY <1>0, <1>1, <1>2 DEF Puts, MapNumbers
  <2>2. \A i \in DOMAIN queue' : \E m \in 2..n + 1 : queue'[i] = <<m, 1>>
    <3>1. \A i \in DOMAIN queue' : (i \in DOMAIN queue /\ queue'[i] = queue[i]) \/ queue'[i] = hold[1]
      BY <1>1, <1>2, <2>1, Appends DEF Puts
    <3>2. \A i \in DOMAIN queue : \E m \in 2..n + 1 : queue[i] = <<m, 1>>
      BY <1>0 DEF MapNumbers
    <3> QED
      BY <2>1, <3>1, <3>2
  <2>3. \A t \in Tasks : t > n + 1 => pc'[t] = "idle"
    BY <1>0, <1>1, <1>2 DEF Puts, MapNumbers
  <2>4. pc'[1] # "put"
    BY <1>1, <1>2 DEF Puts
  <2> QED
    BY <1>0, <1>1, <1>2, <2>2, <2>3, <2>4 DEF Puts, MapNumbers
<1>3. CASE Produces
  <2>1. given'[1] = n + 1 /\ n < len[1] /\ hold'[1] = <<n + 2, 1>>
    BY <1>1, <1>3 DEF Produces
  <2>2. n + 1 <= len[1] /\ n + 1 >= 1 /\ (n + 1) + 1 = n + 2
    BY <1>1, <2>1
  <2>3. \A t \in Tasks : t > n + 2 => pc'[t] = "idle"
    <3>1. \A t \in Tasks : t > n + 2 => t # 1 /\ t # n + 2 /\ t > n + 1
      BY <1>1
    <3>2. \A t \in Tasks : t > n + 1 => pc[t] = "idle"
      BY <1>0 DEF MapNumbers
    <3> QED
      BY <1>1, <1>3, <3>1, <3>2 DEF Produces
  <2>4. \A m \in 2..n + 1 : m \in 2..n + 2
    BY <1>1
  <2>5. \A m \in 1..n + 1 : m \in 1..n + 2
    BY <1>1
  <2> QED
    <3>1. UNCHANGED <<queue, out, reader, awaited>>
      BY <1>3 DEF Produces
    <3>2. \A i \in DOMAIN queue' : \E m \in 2..n + 2 : queue'[i] = <<m, 1>>
      BY <1>0, <2>4, <3>1 DEF MapNumbers
    <3>3. \A i \in DOMAIN out' : \E m \in 2..n + 2 : out'[i] = <<m, 1>>
      BY <1>0, <2>4, <3>1 DEF MapNumbers
    <3>4. awaited' \in 1..n + 2 /\ (reader' = "await" => awaited' # 1)
      BY <1>0, <2>5, <3>1 DEF MapNumbers
    <3>5. given'[1] <= len'[1] /\ given'[1] >= 1 /\ given'[1] + 1 = n + 2
      BY <1>1, <2>1, <2>2
    <3> QED
      BY <2>1, <2>3, <3>2, <3>3, <3>4, <3>5 DEF MapNumbers
<1>4. ASSUME UNCHANGED <<given, hold, queue, reader, awaited, out>>,
             \A t \in Tasks : pc'[t] = pc[t] \/ (pc'[t] = "over" /\ (t = 1 \/ t <= n + 1))
      PROVE  MapNumbers'
  <2>1. pc'[1] = "put" => pc[1] = "put"
    BY <1>1, <1>4
  <2>2. \A t \in Tasks : t > n + 1 => pc'[t] = "idle"
    <3>1. \A t \in Tasks : t > n + 1 => t # 1 /\ ~(t <= n + 1)
      BY <1>1
    <3>2. \A t \in Tasks : t > n + 1 => pc[t] = "idle"
      BY <1>0 DEF MapNumbers
    <3> QED
      BY <1>4, <3>1, <3>2
  <2> QED
    BY <1>0, <1>1, <1>4, <2>1, <2>2 DEF MapNumbers
<1>5. CASE Exhausts \/ Killed
  BY <1>1, <1>4, <1>5 DEF Exhausts, Killed
<1>6. ASSUME NEW t \in Tasks \ {1}, Ended(t) PROVE MapNumbers'
  <2>1. t <= n + 1
    <3>1. t > n + 1 => pc[t] = "idle"
      BY <1>0 DEF MapNumbers
    <3>2. t \in Nat /\ pc[t] # "idle"
      BY <1>1, <1>6 DEF Ended
    <3> QED
      BY <1>1, <3>1, <3>2
  <2> QED
    BY <1>1, <1>4, <1>6, <2>1 DEF Ended
<1>7. CASE Takes
  <2>1. \A i \in DOMAIN queue' : \E m \in 2..n + 1 : queue'[i] = <<m, 1>>
    <3>1. \A i \in DOMAIN queue' : i + 1 \in DOMAIN queue /\ queue'[i] = queue[i + 1]
      BY <1>1, <1>7, Tails DEF Takes
    <3> QED
      BY <1>0, <3>1 DEF MapNumbers
  <2>2. \E m \in 2..n + 1 : Head(queue) = <<m, 1>>
    <3>1. Head(queue) = queue[1] /\ 1 \in DOMAIN queue
      BY <1>1, <1>7, Tails DEF Takes
    <3> QED
      BY <1>0, <3>1 DEF MapNumbers
  <2>3. awaited' \in 2..n + 1
    BY <1>7, <2>2 DEF Takes
  <2> QED
    <3>1. UNCHANGED <<given, out>> /\ \A t \in Tasks : pc'[t] = pc[t] /\ hold'[t] = hold[t]
      BY <1>7 DEF Takes
    <3>2. \A i \in DOMAIN out' : \E m \in 2..n + 1 : out'[i] = <<m, 1>>
      BY <1>0, <3>1 DEF MapNumbers
    <3>3. awaited' \in 1..n + 1 /\ awaited' # 1
      BY <1>1, <2>3
    <3>4. given'[1] = n /\ given'[1] <= len'[1]
      BY <1>0, <1>1, <3>1 DEF MapNumbers
    <3>5. pc'[1] = "put" => n >= 1 /\ hold'[1] = <<n + 1, 1>>
      BY <1>0, <1>1, <3>1 DEF MapNumbers
    <3>6. \A t \in Tasks : t > n + 1 => pc'[t] = "idle"
      <4>1. \A t \in Tasks : t > n + 1 => pc[t] = "idle"
        BY <1>0 DEF MapNumbers
      <4> QED
        BY <3>1, <4>1
    <3> QED
      BY <2>1, <3>2, <3>3, <3>4, <3>5, <3>6 DEF MapNumbers
<1>8. CASE Yields
  <2>1. awaited \in 2..n + 1 /\ <<awaited, 1>> \in Elements
    BY <1>0, <1>1, <1>8 DEF Yields, MapNumbers, Elements
  <2>2. \A i \in DOMAIN out' : \E m \in 2..n + 1 : out'[i] = <<m, 1>>
    <3>1. \A i \in DOMAIN out' : (i \in DOMAIN out /\ out'[i] = out[i]) \/ out'[i] = <<awaited, 1>>
      BY <1>1, <1>8, <2>1, Appends DEF Yields
    <3> QED
      BY <1>0, <2>1, <3>1 DEF MapNumbers
  <2> QED
    BY <1>0, <1>1, <1>8, <2>2 DEF Yields, MapNumbers
<1>9. CASE Skips \/ Resumes
  BY <1>0, <1>1, <1>9 DEF Skips, Resumes, MapNumbers
<1>10. CASE Leaves
  <2>1. awaited \in 1..n + 1
    BY <1>0 DEF MapNumbers
  <2>2. \A t \in Tasks : pc'[t] = pc[t] \/ (pc'[t] = "over" /\ t <= n + 1)
    BY <1>1, <1>10, <2>1 DEF Leaves
  <2>3. pc'[1] = "put" => pc[1] = "put"
    BY <1>1, <2>2
  <2>4. reader' # "await"
    BY <1>10 DEF Leaves
  <2> QED
    BY <1>0, <1>1, <1>10, <2>2, <2>3, <2>4 DEF Leaves, MapNumbers
<1>11. CASE UNCHANGED MapView
  BY <1>0, <1>1, <1>11 DEF MapView, MapNumbers
<1> QED
  BY <1>0, <1>2, <1>3, <1>5, <1>6, <1>7, <1>8, <1>9, <1>10, <1>11 DEF MapMove

\* Elements of map_async compare by number.
LEMMA MapItems ==
    ASSUME MapStep
    PROVE  /\ \A i \in DOMAIN queue : /\ queue[i] = <<queue[i][1], 1>>
                                      /\ queue[i][1] \in Nat /\ queue[i][1] <= given[1] + 1
           /\ \A i \in DOMAIN out : /\ out[i] = <<out[i][1], 1>>
                                    /\ out[i][1] \in Nat /\ out[i][1] <= given[1] + 1
           /\ awaited \in Nat /\ awaited <= given[1] + 1
<1>1. given[1] \in Nat /\ MapNumbers
  BY MapTyped DEF MapStep
<1>2. ASSUME NEW e, \E m \in 2..given[1] + 1 : e = <<m, 1>>
      PROVE  e = <<e[1], 1>> /\ e[1] \in Nat /\ e[1] <= given[1] + 1
  BY <1>1, <1>2
<1> QED
  BY <1>1, <1>2 DEF MapNumbers

LEMMA MapOrderInductive == MapStep /\ MapOrder => MapOrder'
<1> SUFFICES ASSUME MapStep, MapOrder PROVE MapOrder'
  OBVIOUS
<1>0. MapNumbers /\ MapMove
  BY DEF MapStep
<1> DEFINE n == given[1]
<1>1. /\ 1 \in Tasks /\ n \in Nat
      /\ pc \in [Tasks -> Places] /\ given \in [Tasks -> Nat] /\ hold \in [Tasks -> Elements]
      /\ queue \in Seq(Elements) /\ out \in Seq(Elements)
  BY MapTyped
<1>a. /\ \A i \in DOMAIN queue : queue[i][1] \in Nat /\ queue[i][1] <= n + 1
      /\ \A i \in DOMAIN out : out[i][1] \in Nat /\ out[i][1] <= n + 1
      /\ awaited \in Nat /\ awaited <= n + 1
  BY MapItems
<1>2. CASE Puts
  <2>1. hold[1] \in Elements /\ hold[1][1] = n + 1
    BY <1>0, <1>1, <1>2 DEF Puts, MapNumbers
  <2>2. \A i, j \in DOMAIN queue' : i < j => queue'[i][1] < queue'[j][1]
    BY <1>1, <1>2, <2>1, Appends DEF Puts, MapOrder
  <2>3. \A i \in DOMAIN out, j \in DOMAIN queue' : out[i][1] < queue'[j][1]
    BY <1>1, <1>2, <2>1, Appends DEF Puts, MapOrder
  <2>4. reader = "await" => \A j \in DOMAIN queue' : awaited < queue'[j][1]
    BY <1>1, <1>2, <2>1, Appends DEF Puts, MapOrder
  <2>5. pc'[1] # "put"
    BY <1>1, <1>2 DEF Puts
  <2> QED
    BY <1>2, <2>2, <2>3, <2>4, <2>5 DEF Puts, MapOrder
<1>3. CASE Produces
  <2>1. given'[1] = n + 1
    BY <1>1, <1>3 DEF Produces
  <2>2. \A x \in Nat : x <= n + 1 => x < (n + 1) + 1
    BY <1>1
  <2> QED
    BY <1>a, <1>3, <2>1, <2>2 DEF Produces, MapOrder
<1>4. ASSUME UNCHANGED <<given, queue, awaited, out>>, reader' = "await" => reader = "await",
             pc'[1] = "put" => pc[1] = "put"
      PROVE  MapOrder'
  BY <1>4 DEF MapOrder
<1>5. CASE Exhausts \/ Killed
  BY <1>1, <1>4, <1>5 DEF Exhausts, Killed
<1>6. ASSUME NEW t \in Tasks \ {1}, Ended(t) PROVE MapOrder'
  BY <1>1, <1>4, <1>6 DEF Ended
<1>7. CASE Takes
  <2>1. /\ awaited' = queue[1][1] /\ 1 \in DOMAIN queue
        /\ \A i \in DOMAIN queue' : i \in Nat /\ i >= 1 /\ i + 1 \in DOMAIN queue /\ queue'[i] = queue[i + 1]
    <3>1. DOMAIN Tail(queue) \subseteq Nat \ {0}
      BY <1>1, <1>7, HeadTail, LenProperties DEF Takes
    <3> QED
      BY <1>1, <1>7, <3>1, Tails DEF Takes
  <2>2. \A i, j \in DOMAIN queue' : i < j => queue'[i][1] < queue'[j][1]
    BY <2>1 DEF MapOrder
  <2>3. \A j \in DOMAIN queue' : awaited' < queue'[j][1]
    BY <2>1 DEF MapOrder
  <2>4. \A i \in DOMAIN out : out[i][1] < awaited' /\ \A j \in DOMAIN queue' : out[i][1] < queue'[j][1]
    BY <2>1 DEF MapOrder
  <2>5. pc[1] = "put" => awaited' < n + 1 /\ \A j \in DOMAIN queue' : queue'[j][1] < n + 1
    BY <2>1 DEF MapOrder
  <2> QED
    BY <1>7, <2>2, <2>3, <2>4, <2>5 DEF Takes, MapOrder
<1>8. CASE Yields
  <2>1. <<awaited, 1>> \in Elements /\ <<awaited, 1>>[1] = awaited
    BY <1>a DEF Elements
  <2>2. \A i, j \in DOMAIN out' : i < j => out'[i][1] < out'[j][1]
    BY <1>1, <1>8, <2>1, Appends DEF Yields, MapOrder
  <2>3. \A i \in DOMAIN out', j \in DOMAIN queue : out'[i][1] < queue[j][1]
    BY <1>1, <1>8, <2>1, Appends DEF Yields, MapOrder
  <2>4. pc[1] = "put" => \A i \in DOMAIN out' : out'[i][1] < n + 1
    BY <1>1, <1>8, <2>1, Appends DEF Yields, MapOrder
  <2> QED
    BY <1>8, <2>2, <2>3, <2>4 DEF Yields, MapOrder
<1>9. CASE Skips \/ Resumes \/ UNCHANGED MapView
  BY <1>4, <1>9 DEF Skips, Resumes, MapView
<1>10. CASE Leaves
  <2>1. pc'[1] = "put" => pc[1] = "put"
    BY <1>1, <1>10 DEF Leaves
  <2> QED
    BY <1>4, <1>10, <2>1 DEF Leaves
<1> QED
  BY <1>0, <1>2, <1>3, <1>5, <1>6, <1>7, <1>8, <1>9, <1>10 DEF MapMove


\* How a step changes what is in the queue and in the output.
LEMMA MapPlaces ==
    ASSUME MapStep, NEW t
    PROVE  /\ Yielded(t) => Yielded(t)'
           /\ InQueue(t) => InQueue(t)' \/ (Takes /\ t = awaited')
           /\ Puts => InQueue(given[1] + 1)'
           /\ Yields => Yielded(awaited)'
           /\ Kept(t) => Kept(t)'
<1>0. MapNumbers /\ MapMove
  BY DEF MapStep
<1>1. /\ 1 \in Tasks /\ pc \in [Tasks -> Places] /\ hold \in [Tasks -> Elements]
      /\ queue \in Seq(Elements) /\ out \in Seq(Elements) /\ UNCHANGED fin
  BY MapTyped
<1>2. CASE Puts
  <2>1. hold[1] \in Elements /\ hold[1] = <<given[1] + 1, 1>>
    BY <1>0, <1>1, <1>2 DEF Puts, MapNumbers
  <2>2. queue' = Append(queue, hold[1]) /\ UNCHANGED <<given, out>> /\ ~Takes /\ ~Yields
    BY <1>2 DEF Puts, Takes, Yields
  <2>3. InQueue(t) => InQueue(t)'
    BY <1>1, <2>1, <2>2, Appends DEF InQueue
  <2>4. InQueue(given[1] + 1)'
    <3>1. Len(queue) + 1 \in DOMAIN queue' /\ queue'[Len(queue) + 1] = hold[1]
      BY <1>1, <2>1, <2>2, Appends
    <3> QED
      BY <2>1, <2>2, <3>1 DEF InQueue
  <2> QED
    BY <1>1, <2>2, <2>3, <2>4 DEF Yielded, Kept
<1>3. CASE Takes
  <2>1. queue' = Tail(queue) /\ queue # <<>> /\ awaited' = Head(queue)[1] /\ UNCHANGED out
    BY <1>3 DEF Takes
  <2>2. ~Puts /\ ~Yields
    BY <1>3 DEF Puts, Takes, Yields
  <2>3. InQueue(t) => InQueue(t)' \/ t = awaited'
    <3>1. SUFFICES ASSUME NEW i \in DOMAIN queue, queue[i] = <<t, 1>>, i # 1 PROVE InQueue(t)'
      BY <1>1, <2>1, Tails DEF InQueue
    <3>2. i - 1 \in DOMAIN queue' /\ queue'[i - 1] = queue[i]
      BY <1>1, <2>1, <3>1, Tails
    <3> QED
      BY <3>1, <3>2 DEF InQueue
  <2> QED
    BY <1>1, <1>3, <2>1, <2>2, <2>3 DEF Yielded, Kept
<1>4. CASE Yields
  <2>1. out' = Append(out, <<awaited, 1>>) /\ UNCHANGED queue /\ ~Puts /\ ~Takes
    BY <1>4 DEF Yields, Puts, Takes
  <2>2. <<awaited, 1>> \in Elements
    BY MapItems DEF Elements
  <2>3. Yielded(awaited)'
    <3>1. Len(out) + 1 \in DOMAIN out' /\ out'[Len(out) + 1] = <<awaited, 1>>
      BY <1>1, <2>1, <2>2, Appends
    <3>2. UNCHANGED awaited
      BY <1>4 DEF Yields
    <3> QED
      BY <3>1, <3>2 DEF Yielded
  <2>4. Yielded(t) => Yielded(t)'
    <3>1. \A i \in DOMAIN out : i \in DOMAIN out' /\ out'[i] = out[i]
      BY <1>1, <2>1, <2>2, Appends
    <3> QED
      BY <3>1 DEF Yielded
  <2> QED
    BY <1>1, <2>1, <2>3, <2>4 DEF InQueue, Kept, Yielded
<1>5. ASSUME ~Puts, ~Takes, ~Yields PROVE UNCHANGED <<queue, out>>
  BY <1>0, <1>5 DEF MapMove, Produces, Exhausts, Killed, Skips, Resumes, Leaves, Ended, MapView
<1> QED
  BY <1>1, <1>2, <1>3, <1>4, <1>5 DEF InQueue, Yielded, Kept

LEMMA MapWholeInductive == MapStep /\ MapWhole => MapWhole'
<1> SUFFICES ASSUME MapStep, MapWhole PROVE MapWhole'
  OBVIOUS
<1>0. MapNumbers /\ MapMove
  BY DEF MapStep
<1> USE DEF MapWhole
<1> DEFINE n == given[1]
<1>1. /\ 1 \in Tasks /\ n \in Nat /\ len[1] \in Nat /\ n <= len[1] /\ UNCHANGED <<len, fin>>
      /\ pc \in [Tasks -> Places] /\ given \in [Tasks -> Nat]
  BY MapTyped
<1>l. UNCHANGED len
  BY <1>1
<1>2. \A t : /\ InQueue(t) => InQueue(t)' \/ (Takes /\ t = awaited')
             /\ Puts => InQueue(n + 1)'
             /\ Yields => Yielded(awaited)'
             /\ Kept(t) => Kept(t)'
  BY MapPlaces
<1>3. /\ verdict = "running" => \A t \in 2..n + 1 :
             Kept(t) \/ InQueue(t) \/ (pc[1] = "put" /\ t = n + 1) \/ (reader = "await" /\ t = awaited)
      /\ verdict = "running" /\ finished = 1 => pc[1] = "over" /\ n = len[1]
      /\ verdict = "end" => \A t \in 2..len[1] + 1 : Kept(t)
  BY DEF MapWhole
<1>5. CASE Puts
  <2>1. ~Takes /\ pc[1] = "put" /\ UNCHANGED <<given, reader, awaited, finished, verdict>>
    BY <1>5 DEF Puts, Takes
  <2> QED
    BY <1>l, <1>2, <1>3, <1>5, <2>1
<1>6. CASE Produces
  <2>1. /\ ~Takes /\ pc[1] = "pull" /\ UNCHANGED <<reader, awaited, finished, verdict>>
        /\ given'[1] = n + 1 /\ pc'[1] = "put"
    <3>1. n + 2 # 1
      BY <1>1
    <3> QED
      BY <1>1, <1>6, <3>1 DEF Produces, Takes
  <2>2. \A t \in 2..(n + 1) + 1 : t = (n + 1) + 1 \/ t \in 2..n + 1
    BY <1>1
  <2> QED
    BY <1>l, <1>2, <1>3, <2>1, <2>2
<1>7. CASE Exhausts
  <2>1. /\ ~Takes /\ pc[1] = "pull" /\ pc'[1] = "over" /\ UNCHANGED <<given, reader, awaited, verdict>>
        /\ n >= len[1]
    BY <1>1, <1>7 DEF Exhausts, Takes
  <2> QED
    BY <1>l, <1>1, <1>2, <1>3, <2>1
<1>8. ASSUME NEW t \in Tasks \ {1}, Ended(t) \/ UNCHANGED MapView PROVE MapWhole'
  <2>1. /\ ~Takes \/ UNCHANGED MapView
        /\ pc'[1] = pc[1] /\ UNCHANGED <<given, queue, reader, awaited, finished, verdict>>
    BY <1>1, <1>8 DEF Ended, MapView, Takes
  <2>2. \A u : InQueue(u) => InQueue(u)'
    BY <2>1 DEF InQueue
  <2> QED
    BY <1>l, <1>2, <1>3, <2>1, <2>2
<1>9. CASE UNCHANGED MapView
  <2>1. UNCHANGED <<pc, given, queue, reader, awaited, finished, verdict>>
    BY <1>9 DEF MapView
  <2>2. \A u : InQueue(u) => InQueue(u)'
    BY <2>1 DEF InQueue
  <2> QED
    BY <1>l, <1>2, <1>3, <2>1, <2>2
<1>10. CASE Killed
  BY <1>l, <1>2, <1>3, <1>10 DEF Killed
<1>11. CASE Takes
  BY <1>l, <1>2, <1>3, <1>11 DEF Takes
<1>12. CASE Yields
  <2>1. ~Takes /\ UNCHANGED <<pc, given, awaited, finished, verdict>>
    BY <1>12 DEF Yields, Takes
  <2>2. Kept(awaited)'
    BY <1>2, <1>12, <2>1 DEF Kept, Yielded
  <2>3. \A u : u = awaited => Kept(u)'
    BY <2>1, <2>2
  <2> QED
    BY <1>l, <1>2, <1>3, <2>1, <2>3
<1>13. CASE Skips
  <2>1. ~Takes /\ UNCHANGED <<pc, given, awaited, finished, verdict>>
    BY <1>13 DEF Skips, Takes
  <2>2. \A u : u = awaited => Kept(u)'
    BY <1>1, <1>13 DEF Skips, Kept
  <2> QED
    BY <1>l, <1>2, <1>3, <2>1, <2>2
<1>14. CASE Resumes
  <2>1. ~Takes /\ reader # "await" /\ UNCHANGED <<pc, given, awaited, finished, verdict>>
    BY <1>14 DEF Resumes, Takes
  <2> QED
    BY <1>l, <1>2, <1>3, <2>1
<1>15. CASE Leaves
  <2>1. queue = <<>> => \A t : ~InQueue(t)
    BY EmptySeq DEF InQueue
  <2>2. verdict = "running" /\ reader = "get" /\ queue = <<>> /\ finished = 1
           => \A t \in 2..len[1] + 1 : Kept(t)
    BY <1>3, <2>1
  <2> QED
    BY <1>l, <1>2, <1>3, <1>15, <2>2 DEF Leaves
<1> QED
  BY <1>0, <1>5, <1>6, <1>7, <1>8, <1>9, <1>10, <1>11, <1>12, <1>13, <1>14, <1>15 DEF MapMove

LEMMA MapRunsInductive == MapStep /\ MapRuns => MapRuns'
<1> SUFFICES ASSUME MapStep, MapRuns PROVE MapRuns'
  OBVIOUS
<1>0. MapNumbers /\ MapMove
  BY DEF MapStep
<1> USE DEF MapRuns
<1> DEFINE n == given[1]
<1>1. /\ 1 \in Tasks /\ n \in Nat /\ awaited \in Nat /\ awaited <= n + 1 /\ \A t \in Tasks : t \in Nat
      /\ pc \in [Tasks -> Places] /\ given \in [Tasks -> Nat] /\ hold \in [Tasks -> Elements]
      /\ queue \in Seq(Elements) /\ Len(queue) \in Nat /\ Width \in Nat
  BY MapTyped, MapItems, LenProperties, Numbers
<1>2. \A t : /\ InQueue(t) => InQueue(t)' \/ (Takes /\ t = awaited')
             /\ Puts => InQueue(n + 1)'
  BY MapPlaces
<1>3. /\ Len(queue) <= Width
      /\ \A t \in Tasks : pc[t] = "run" => InQueue(t) \/ (pc[1] # "pull" /\ t = n + 1) \/ t = awaited
      /\ reader \in {"get", "yield"} => \A t \in Tasks : t = awaited => pc[t] # "run"
  BY DEF MapRuns
<1>5. CASE Puts
  <2>1. ~Takes /\ UNCHANGED <<given, reader, awaited>>
    BY <1>5 DEF Puts, Takes
  <2>2. \A t \in Tasks : pc'[t] = "run" => pc[t] = "run"
    BY <1>1, <1>5 DEF Puts
  <2>3. Len(queue') = Len(queue) + 1 /\ Len(queue) < Width
    BY <1>1, <1>5, Appends DEF Puts
  <2>4. Len(queue') <= Width
    BY <1>1, <2>3
  <2> QED
    BY <1>2, <1>3, <1>5, <2>1, <2>2, <2>4
<1>6. CASE Produces
  <2>1. /\ ~Takes /\ pc[1] = "pull" /\ UNCHANGED <<queue, reader, awaited>>
        /\ given'[1] = n + 1 /\ pc'[1] = "put"
    <3>1. n + 2 # 1
      BY <1>1
    <3> QED
      BY <1>1, <1>6, <3>1 DEF Produces, Takes
  <2>2. \A t \in Tasks : pc'[t] = "run" => pc[t] = "run" \/ t = n + 2
    BY <1>1, <1>6 DEF Produces
  <2>3. n + 2 = (n + 1) + 1 /\ awaited # n + 2
    BY <1>1
  <2> QED
    BY <1>2, <1>3, <2>1, <2>2, <2>3
\* No function has been started, and the queue is as it was.
<1>7. ASSUME UNCHANGED <<given, queue, awaited>>, pc'[1] = "pull" => pc[1] = "pull",
             \A t \in Tasks : pc'[t] = "run" => pc[t] = "run",
             \/ reader' \notin {"get", "yield"}
             \/ reader \in {"get", "yield"}
             \/ \A t \in Tasks : t = awaited => pc[t] # "run"
      PROVE  MapRuns'
  <2>1. \A t : InQueue(t) => InQueue(t)'
    BY <1>7 DEF InQueue
  <2> QED
    BY <1>3, <1>7, <2>1
<1>8. CASE Exhausts \/ Killed
  BY <1>1, <1>7, <1>8 DEF Exhausts, Killed
<1>9. ASSUME NEW t \in Tasks \ {1}, Ended(t) PROVE MapRuns'
  BY <1>1, <1>7, <1>9 DEF Ended
<1>10. CASE Takes
  <2>1. UNCHANGED <<given, pc>> /\ reader = "get" /\ reader' = "await"
    BY <1>10 DEF Takes
  <2>2. Len(queue') = Len(queue) - 1
    BY <1>1, <1>10, Tails DEF Takes
  <2>3. Len(queue') <= Width
    BY <1>1, <1>3, <2>2
  <2> QED
    BY <1>2, <1>3, <2>1, <2>3
<1>11. CASE Yields \/ Skips \/ Resumes \/ UNCHANGED MapView
  <2>1. UNCHANGED <<given, queue, awaited, pc>>
    BY <1>11 DEF Yields, Skips, Resumes, MapView
  <2>2. \/ reader' \notin {"get", "yield"} \/ reader \in {"get", "yield"}
        \/ \A t \in Tasks : t = awaited => pc[t] # "run"
    BY <1>11 DEF Yields, Skips, Resumes, MapView
  <2> QED
    BY <1>7, <2>1, <2>2
<1>12. CASE Leaves
  <2>1. \A t \in Tasks : pc'[t] = pc[t] \/ pc'[t] = "over"
    BY <1>1, <1>12 DEF Leaves
  <2> QED
    BY <1>1, <1>7, <1>12, <2>1 DEF Leaves
<1> QED
  BY <1>0, <1>5, <1>6, <1>8, <1>9, <1>10, <1>11, <1>12 DEF MapMove

LEMMA MapInvInductive == Control /\ Control' /\ MapInv /\ [Next]_vars => MapInv'
<1> SUFFICES ASSUME Control, Control', MapInv, [Next]_vars, kind' = "map_async"
             PROVE  MapNumbers' /\ MapOrder' /\ MapWhole' /\ MapRuns'
  BY DEF MapInv
<1>1. UNCHANGED setup /\ kind = "map_async"
  BY SetupInductive DEF Control, setup
<1>2. MapStep /\ MapOrder /\ MapWhole /\ MapRuns
  BY <1>1, MapSteps DEF MapStep, MapInv
<1> QED
  BY <1>2, MapNumbersInductive, MapOrderInductive, MapWholeInductive, MapRunsInductive

LEMMA MapInvInit == Init => MapInv
<1> SUFFICES ASSUME Init, kind = "map_async" PROVE MapNumbers /\ MapOrder /\ MapWhole /\ MapRuns
  BY DEF MapInv
<1>1. Control /\ 1 \in Tasks /\ len[1] \in Nat /\ Pumps = {1}
  BY ControlInit, PumpFacts DEF Control, SetupInv
<1>2. /\ given[1] = 0 /\ queue = <<>> /\ out = <<>> /\ awaited = 1 /\ reader = "get"
      /\ verdict = "running" /\ finished = 0 /\ pc[1] = "pull"
      /\ \A t \in Tasks : t # 1 => pc[t] = "idle"
  BY <1>1 DEF Init
<1>3. DOMAIN <<>> = {} /\ Len(<<>>) = 0 /\ Width \in Nat
  BY EmptySeq, Numbers
<1>4. \A t \in Tasks : t > 0 + 1 => t # 1
  OBVIOUS
<1>5. 2..0 + 1 = {} /\ 1 \in 1..0 + 1 /\ 0 <= len[1] /\ 0 <= Width
  BY <1>1, <1>3
<1> QED
  BY <1>2, <1>3, <1>4, <1>5 DEF MapNumbers, MapOrder, MapWhole, MapRuns

\* The item tasks whose function runs.
MapRunning == {t \in Tasks : pc[t] = "run"}

LEMMA MapBounded ==
    ASSUME Control, MapInv, kind = "map_async"
    PROVE  Cardinality(MapRunning) <= Width + 2
<1>1. /\ queue \in Seq(Elements) /\ MapNumbers /\ MapRuns /\ Width \in Nat /\ Len(queue) \in Nat
      /\ DOMAIN queue = 1..Len(queue)
  BY Numbers, LenProperties DEF Control, TypeInv, MapInv
<1> DEFINE q == {queue[i][1] : i \in 1..Len(queue)}
<1>2. MapRunning \subseteq q \cup {given[1] + 1} \cup {awaited}
  <2>1. \A t \in Tasks : InQueue(t) => t \in q
    BY <1>1 DEF InQueue
  <2> QED
    BY <1>1, <2>1 DEF MapRunning, MapRuns
<1>3. IsFiniteSet(1..Len(queue)) /\ Cardinality(1..Len(queue)) = Len(queue)
  <2>1. /\ IsFiniteSet(1..Len(queue))
        /\ Cardinality(1..Len(queue)) = IF 1 > Len(queue) THEN 0 ELSE Len(queue) - 1 + 1
    BY <1>1, FS_Interval
  <2> QED
    BY <1>1, <2>1
<1>4. IsFiniteSet(q) /\ Cardinality(q) <= Len(queue)
  <2> DEFINE f == [i \in 1..Len(queue) |-> queue[i][1]]
  <2>1. f \in Surjection(1..Len(queue), q)
    BY DEF Surjection
  <2> HIDE DEF f, q
  <2> QED
    BY <1>3, <2>1, FS_Surjection
<1> HIDE DEF q
<1>5. /\ IsFiniteSet(q \cup {given[1] + 1} \cup {awaited})
      /\ Cardinality(q \cup {given[1] + 1} \cup {awaited}) <= Cardinality(q) + 2
      /\ Cardinality(q) \in Nat
  <2> DEFINE r == q \cup {given[1] + 1}
  <2>1. /\ IsFiniteSet(r) /\ Cardinality(q) \in Nat
        /\ Cardinality(r) = Cardinality(q) \/ Cardinality(r) = Cardinality(q) + 1
    BY <1>4, FS_AddElement, FS_CardinalityType
  <2> HIDE DEF r
  <2>2. /\ IsFiniteSet(r \cup {awaited}) /\ Cardinality(r) \in Nat
        /\ Cardinality(r \cup {awaited}) = Cardinality(r)
           \/ Cardinality(r \cup {awaited}) = Cardinality(r) + 1
    BY <2>1, FS_AddElement, FS_CardinalityType
  <2>3. Cardinality(r \cup {awaited}) <= Cardinality(q) + 2
    BY <2>1, <2>2
  <2> QED
    BY <2>1, <2>2, <2>3 DEF r
<1>6. Cardinality(MapRunning) <= Cardinality(q \cup {given[1] + 1} \cup {awaited})
  BY <1>2, <1>5, FS_Subset
<1>7. /\ Cardinality(MapRunning) \in Nat
      /\ Cardinality(q \cup {given[1] + 1} \cup {awaited}) \in Nat
  BY <1>2, <1>5, FS_Subset, FS_CardinalityType
<1>8. \A r, u, v, l, w \in Nat : r <= u /\ u <= v + 2 /\ v <= l /\ l <= w => r <= w + 2
  OBVIOUS
<1> QED
  BY <1>1, <1>4, <1>5, <1>6, <1>7, <1>8 DEF MapRuns

\* What map_async has yielded: one by one in the order of its input, and at the end
\* every item but those that raised TimeoutError.
LEMMA MapDelivers ==
    ASSUME Control, MapInv, kind = "map_async"
    PROVE  /\ \A i, j \in DOMAIN out : i < j => out[i][1] < out[j][1]
           /\ verdict = "end" =>
                 \A t \in 2..len[1] + 1 : fin[t] = "timeout" \/ From(t) = {<<t, 1>>}
<1>1. MapNumbers /\ MapOrder /\ MapWhole
  BY DEF MapInv
<1>2. \A i \in DOMAIN out : out[i] = <<out[i][1], 1>>
  BY <1>1 DEF MapNumbers
<1>3. ASSUME NEW t, Yielded(t) PROVE From(t) = {<<t, 1>>}
  BY <1>2, <1>3 DEF Yielded, From, ToSet
<1> QED
  BY <1>1, <1>3 DEF MapOrder, MapWhole, Kept

----------------------------------------------------------------------------
(* merge, buffer and flat_map_merge: what sources yield, in order.          *)

Flowing == Pumping \/ kind = "flat_map_merge"

\* The tasks whose items the queue carries.
Feeds(t) == IF kind = "flat_map_merge" THEN t # 1 ELSE t \in Pumps

Pred(e) == <<e[1], e[2] - 1>>

\* In a queue whose elements follow those of S each item is new, and preceded, there
\* or in S, by the item that its source yielded before it.
Ordered(q, S) ==
    \A i \in DOMAIN q : \/ q[i] = Done
                        \/ /\ q[i] \notin S /\ \A j \in 1..i - 1 : q[j] # q[i]
                           /\ \/ q[i][2] = 1 \/ Pred(q[i]) \in S
                              \/ \E j \in 1..i - 1 : q[j] = Pred(q[i])

\* e may follow what is in S and in q.
Follows(e, q, S) ==
    /\ e \notin S /\ e \notin ToSet(q)
    /\ e[2] = 1 \/ Pred(e) \in S \cup ToSet(q)

LEMMA OrderedAppend ==
    ASSUME NEW q \in Seq(Elements), NEW S, NEW e \in Elements, Ordered(q, S),
           e = Done \/ Follows(e, q, S)
    PROVE  Ordered(Append(q, e), S)
<1> DEFINE r == Append(q, e)
<1>1. /\ DOMAIN q = 1..Len(q) /\ DOMAIN r = 1..Len(q) + 1 /\ Len(q) \in Nat
      /\ \A i \in 1..Len(q) : r[i] = q[i]
      /\ r[Len(q) + 1] = e
  BY AppendProperties, LenProperties
<1> HIDE DEF r
<1> SUFFICES ASSUME NEW i \in DOMAIN r
             PROVE  \/ r[i] = Done
                    \/ /\ r[i] \notin S /\ \A j \in 1..i - 1 : r[j] # r[i]
                       /\ \/ r[i][2] = 1 \/ Pred(r[i]) \in S
                          \/ \E j \in 1..i - 1 : r[j] = Pred(r[i])
  BY DEF Ordered, r
<1>2. CASE i \in DOMAIN q
  <2>1. r[i] = q[i] /\ \A j \in 1..i - 1 : r[j] = q[j]
    BY <1>1, <1>2
  <2> QED
    BY <1>2, <2>1 DEF Ordered
<1>3. CASE i = Len(q) + 1
  <2>1. r[i] = e /\ i - 1 = Len(q) /\ \A j \in 1..i - 1 : r[j] = q[j]
    BY <1>1, <1>3
  <2>2. ToSet(q) = {q[j] : j \in 1..i - 1}
    BY <1>1, <2>1 DEF ToSet
  <2> QED
    BY <2>1, <2>2 DEF Follows
<1> QED
  BY <1>1, <1>2, <1>3

\* The reader takes the first element, and moves it on unless it is a sentinel.
LEMMA OrderedTail ==
    ASSUME NEW q \in Seq(Elements), NEW S, Ordered(q, S), q # <<>>
    PROVE  /\ Head(q) = Done \/ Follows(Head(q), <<>>, S)
           /\ Ordered(Tail(q), S \cup {Head(q)})
           /\ Head(q) = Done /\ (\A i \in DOMAIN q : q[i] = Done \/ Pred(q[i]) # Done)
                 => Ordered(Tail(q), S)
<1> DEFINE r == Tail(q)
<1>1. /\ DOMAIN q = 1..Len(q) /\ DOMAIN r = 1..Len(q) - 1 /\ Len(q) \in Nat \ {0}
      /\ \A i \in 1..Len(q) - 1 : r[i] = q[i + 1]
      /\ Head(q) = q[1]
  BY HeadTail, LenProperties
<1> HIDE DEF r
<1>2. q[1] = Done \/ (q[1] \notin S /\ (q[1][2] = 1 \/ Pred(q[1]) \in S))
  <2>1. 1 \in DOMAIN q /\ 1..1 - 1 = {}
    BY <1>1
  <2> QED
    BY <2>1 DEF Ordered
<1>3. ToSet(<<>>) = {}
  BY EmptySeq DEF ToSet
<1>4. ASSUME NEW i \in DOMAIN r, r[i] # Done
      PROVE  /\ r[i] = q[i + 1] /\ i + 1 \in DOMAIN q
             /\ r[i] \notin S /\ r[i] # q[1] /\ \A j \in 1..i - 1 : r[j] # r[i]
             /\ \/ r[i][2] = 1 \/ Pred(r[i]) \in S \/ Pred(r[i]) = q[1]
                \/ \E j \in 1..i - 1 : r[j] = Pred(r[i])
  <2>1. r[i] = q[i + 1] /\ i + 1 \in DOMAIN q /\ i \in Nat /\ i >= 1 /\ (i + 1) - 1 = i
    BY <1>1
  <2>2. /\ q[i + 1] \notin S /\ \A j \in 1..i : q[j] # q[i + 1]
        /\ \/ q[i + 1][2] = 1 \/ Pred(q[i + 1]) \in S
           \/ \E j \in 1..i : q[j] = Pred(q[i + 1])
    BY <1>4, <2>1 DEF Ordered
  <2>3. \A j \in 1..i - 1 : r[j] = q[j + 1] /\ j + 1 \in 1..i
    BY <1>1, <2>1
  <2>4. 1 \in 1..i /\ \A j \in 1..i : j = 1 \/ (j - 1 \in 1..i - 1 /\ r[j - 1] = q[j])
    BY <1>1, <2>1
  <2>5. \A j \in 1..i - 1 : r[j] # r[i]
    BY <2>1, <2>2, <2>3
  <2>6. \/ r[i][2] = 1 \/ Pred(r[i]) \in S \/ Pred(r[i]) = q[1]
        \/ \E j \in 1..i - 1 : r[j] = Pred(r[i])
    BY <2>1, <2>2, <2>4
  <2> QED
    BY <2>1, <2>2, <2>4, <2>5, <2>6
<1>5. Head(q) = Done \/ Follows(Head(q), <<>>, S)
  BY <1>1, <1>2, <1>3 DEF Follows
<1>6. Ordered(r, S \cup {Head(q)})
  BY <1>1, <1>4 DEF Ordered
<1>7. Head(q) = Done /\ (\A i \in DOMAIN q : q[i] = Done \/ Pred(q[i]) # Done) => Ordered(r, S)
  BY <1>1, <1>4 DEF Ordered
<1> QED
  BY <1>5, <1>6, <1>7 DEF r

\* All that a producer had has been handed over, the sentinel last.
Sent(t) == pc[t] = "over" /\ fin[t] = "end"
AllSent == IF kind = "flat_map_merge" THEN finished = 1 /\ Active = {} ELSE \A t \in Pumps : Sent(t)

Item(e) == \E t \in Tasks, n \in Nat : Feeds(t) /\ n \in 1..given[t] /\ e = <<t, n>>

\* What is on its way, or has arrived.
Flow == ToSet(out) \cup ToSet(queue)

\* While the reader runs: the queue holds items and sentinels, and what a source has
\* yielded is in the output, in the queue or held.
FlowItems == \A i \in DOMAIN out : Item(out[i])
FlowFits  == \A i \in DOMAIN queue : queue[i] = Done \/ Item(queue[i])
FlowHas ==
    \A t \in Tasks, n \in Nat : Feeds(t) /\ n \in 1..given[t] =>
        <<t, n>> \in Flow \/ (pc[t] = "put" /\ hold[t] = <<t, n>>)
FlowHolds ==
    \A t \in Tasks : Feeds(t) /\ pc[t] = "put" =>
        \/ hold[t] = Done /\ fin[t] = "end" /\ given[t] = len[t]
        \/ given[t] >= 1 /\ hold[t] = <<t, given[t]>> /\ hold[t] \notin Flow
FlowQueue ==
    /\ \A t \in Tasks : given[t] <= len[t]
    /\ FlowFits
    /\ Ordered(queue, ToSet(out))
    /\ FlowHas /\ FlowHolds

\* The last sentinel is the last element, and follows all there was.
LastIsLast ==
    /\ \A i \in DOMAIN queue : queue[i] = Done /\ LastDone => AllSent /\ i = Len(queue)
    /\ \A i, j \in DOMAIN queue :
          queue[i] = Done /\ queue[j] = Done /\ i < j => AllSent /\ j = Len(queue)
SomeSent == kind = "merge" /\ (finished = 1 \/ Done \in ToSet(queue)) => \E t \in Pumps : Sent(t)
OverGave ==
    \A t \in Tasks : Feeds(t) /\ pc[t] = "over" => given[t] = len[t] \/ (Pumping /\ fin[t] # "end")
FlowEnd == LastIsLast /\ SomeSent /\ OverGave

\* The sub-streams that flat_map_merge's producer has started.
FlowSubs ==
    kind = "flat_map_merge" =>
        /\ finished = 1 => pc[1] = "over" /\ given[1] = len[1]
        /\ \A t \in Tasks \ {1} : t <= given[1] + 1 /\ pc[t] = "idle" =>
              t = given[1] + 1 /\ pc[1] = "acquire"

\* What has been yielded, also after the reader has left.
FlowOut ==
    /\ \A i \in DOMAIN out : \E t \in Tasks, n \in Nat :
          Feeds(t) /\ n \in 1..len[t] /\ out[i] = <<t, n>>
    /\ Ordered(out, {})
    /\ verdict = "end" => \A t \in Tasks, n \in Nat :
          Feeds(t) /\ n \in 1..len[t] /\ (kind = "flat_map_merge" => t <= len[1] + 1)
              => <<t, n>> \in ToSet(out)

FlowInv ==
    Flowing => /\ FlowOut
               /\ verdict = "running" => FlowItems /\ FlowQueue /\ FlowEnd /\ FlowSubs

FlowView == <<given, pc, hold, queue, finished, out, verdict>>

PutsItem(t) ==
    /\ Pumping /\ t \in Pumps /\ pc[t] = "put" /\ hold[t] # Done
    /\ queue' = Append(queue, hold[t]) /\ pc' = [pc EXCEPT ![t] = "pull"]
    /\ UNCHANGED <<given, hold, finished, out, verdict>>
PutsDone(t) ==
    /\ Pumping /\ t \in Pumps /\ pc[t] = "put" /\ hold[t] = Done
    /\ queue' = Append(queue, Done) /\ pc' = [pc EXCEPT ![t] = "over"]
    /\ UNCHANGED <<given, hold, finished, out, verdict>>
Pulls(t) ==
    /\ Pumping /\ t \in Pumps /\ pc[t] = "pull" /\ given[t] < len[t]
    /\ given' = [given EXCEPT ![t] = given[t] + 1]
    /\ hold' = [hold EXCEPT ![t] = <<t, given[t] + 1>>] /\ pc' = [pc EXCEPT ![t] = "put"]
    /\ UNCHANGED <<queue, finished, out, verdict>>
Finishes(t) ==
    /\ Pumping /\ t \in Pumps /\ pc[t] = "pull" /\ given[t] >= len[t] /\ fin[t] = "end"
    /\ hold' = [hold EXCEPT ![t] = Done] /\ pc' = [pc EXCEPT ![t] = "put"]
    /\ UNCHANGED <<given, queue, finished, out, verdict>>
Raises(t) ==
    /\ Pumping /\ t \in Pumps /\ pc[t] = "pull" /\ fin[t] # "end"
    /\ pc' = [pc EXCEPT ![t] = "over"]
    /\ UNCHANGED <<given, hold, queue, finished, out, verdict>>
SubItem(t) ==
    /\ kind = "flat_map_merge" /\ t # 1 /\ pc[t] = "pull" /\ given[t] < len[t]
    /\ given' = [given EXCEPT ![t] = given[t] + 1]
    /\ queue' = Append(queue, <<t, given[t] + 1>>)
    /\ UNCHANGED <<pc, hold, finished, out, verdict>>
SubEnds(t) ==
    /\ kind = "flat_map_merge" /\ t # 1 /\ pc[t] = "pull" /\ given[t] >= len[t]
    /\ pc' = [pc EXCEPT ![t] = "over"]
    /\ \/ queue' = queue
       \/ Active = {t} /\ finished = 1 /\ queue' = Append(queue, Done)
    /\ UNCHANGED <<given, hold, finished, out, verdict>>
Acquires ==
    /\ kind = "flat_map_merge" /\ pc[1] = "pull" /\ given[1] < len[1]
    /\ pc' = [pc EXCEPT ![1] = "acquire"] /\ given' = [given EXCEPT ![1] = given[1] + 1]
    /\ UNCHANGED <<hold, queue, finished, out, verdict>>
Starts ==
    /\ kind = "flat_map_merge" /\ pc[1] = "acquire"
    /\ pc' = [pc EXCEPT ![1] = "pull", ![given[1] + 1] = "pull"]
    /\ UNCHANGED <<given, hold, queue, finished, out, verdict>>
NoMore ==
    /\ kind = "flat_map_merge" /\ pc[1] = "pull" /\ given[1] >= len[1]
    /\ pc' = [pc EXCEPT ![1] = "over"]
    /\ \/ queue' = queue /\ finished' \in {0, 1}
       \/ finished' = 1 /\ Active = {} /\ queue' = Append(queue, Done)
    /\ UNCHANGED <<given, hold, out, verdict>>
TakesItem ==
    /\ queue # <<>> /\ Head(queue) # Done
    /\ queue' = Tail(queue) /\ out' = Append(out, Head(queue))
    /\ UNCHANGED <<given, pc, hold, finished, verdict>>
TakesDone ==
    /\ queue # <<>> /\ Head(queue) = Done /\ kind = "merge" /\ finished = 0
    /\ queue' = Tail(queue) /\ finished' = 1
    /\ UNCHANGED <<given, pc, hold, out, verdict>>
TakesEnd ==
    /\ queue # <<>> /\ Head(queue) = Done /\ LastDone
    /\ verdict' = "end" /\ UNCHANGED out
LeavesEarly == verdict' \notin {"running", "end"} /\ UNCHANGED out

FlowMove ==
    \/ \E t \in Tasks : \/ PutsItem(t) \/ PutsDone(t) \/ Pulls(t) \/ Finishes(t) \/ Raises(t)
                        \/ SubItem(t) \/ SubEnds(t)
    \/ Acquires \/ Starts \/ NoMore \/ TakesItem \/ TakesDone \/ TakesEnd \/ LeavesEarly
    \/ UNCHANGED FlowView

LEMMA Kinds ==
    /\ Flowing => ~(kind = "map_async") /\ ~(kind = "channel")
    /\ Pumping => ~(kind = "flat_map_merge")
    /\ Flowing <=> Pumping \/ kind = "flat_map_merge"
  BY DEF Flowing, Pumping

LEMMA FlowSteps ==
    ASSUME Control, Flowing, verdict = "running", FlowQueue, [Next]_vars
    PROVE  FlowMove
<1>0. SetupInv /\ TypeInv /\ Placed /\ Reading /\ 1 \in Tasks /\ cancelling = {}
  BY DEF Control, SetupInv, Reading
<1>1. /\ pc \in [Tasks -> Places] /\ given \in [Tasks -> Nat] /\ len \in [Tasks -> Nat]
      /\ queue \in Seq(Elements)
  BY <1>0 DEF TypeInv, SetupInv
<1>2. \A t \in Tasks :
        /\ Pumping => pc[t] \in {"idle", "pull", "put", "over"} /\ (t \in Pumps <=> pc[t] # "idle")
        /\ kind = "flat_map_merge" => /\ pc[t] \in {"idle", "pull", "acquire", "over"}
                                      /\ pc[t] = "acquire" => t = 1
  BY <1>0, AllowedFacts, Kinds DEF Placed
<1>3. ~(kind = "map_async") /\ ~(kind = "channel") /\ (Pumping => ~(kind = "flat_map_merge"))
      /\ (Pumping \/ kind = "flat_map_merge")
  BY Kinds
<1>4. \A t \in Tasks : MoreOf(t) <=> ~(given[t] >= len[t])
  BY <1>1 DEF MoreOf
<1>5. ASSUME NEW t \in Tasks, Works(t) PROVE FlowMove
  <2>1. CASE Put(t)
    <3>1. pc[t] = "put" /\ Pumping /\ t \in Pumps
      BY <1>2, <1>3, <2>1 DEF Put
    <3>2. AfterPut(t) = IF hold[t] = Done THEN "over" ELSE "pull"
      BY <1>3 DEF AfterPut
    <3> QED
      BY <2>1, <3>1, <3>2 DEF Put, ending, FlowMove, PutsItem, PutsDone, FlowView
  <2>2. CASE Pump(t)
    <3>1. pc[t] = "pull" /\ Pumping /\ t \in Pumps
      BY <1>2, <2>2 DEF Pump, Pumping
    <3>2. CASE MoreOf(t)
      BY <1>4, <2>2, <3>1, <3>2 DEF Pump, Count, Holds, MoreOf, ending, FlowMove, Pulls
    <3>3. CASE ~MoreOf(t)
      BY <1>4, <2>2, <3>1, <3>3 DEF Pump, PumpEnds, Holds, ending, FlowMove, Finishes, Raises
    <3> QED
      BY <3>2, <3>3
  <2>3. CASE Acquire(t)
    BY <1>1, <1>4, <2>3 DEF Acquire, Count, MoreOf, ending, FlowMove, Acquires
  <2>4. CASE StartSub(t)
    <3>1. pc[t] = "acquire" /\ kind = "flat_map_merge" /\ t = 1
      BY <1>0, <2>4, WhoAcquires DEF StartSub
    <3> QED
      BY <2>4, <3>1 DEF StartSub, ending, FlowMove, Starts
  <2>5. CASE ProducerEnds(t)
    BY <1>4, <2>5 DEF ProducerEnds, ending, FlowMove, NoMore
  <2>6. CASE Sub(t)
    <3>1. kind = "flat_map_merge" /\ t # 1 /\ pc[t] = "pull"
      BY <2>6 DEF Sub, Active
    <3>2. CASE MoreOf(t)
      BY <1>4, <2>6, <3>1, <3>2 DEF Sub, Count, MoreOf, ending, FlowMove, SubItem
    <3>3. CASE ~MoreOf(t)
      BY <1>4, <2>6, <3>1, <3>3 DEF Sub, LastSub, ending, FlowMove, SubEnds
    <3> QED
      BY <3>2, <3>3
  <2>7. ~(Produce(t) \/ ItemEnds(t) \/ Dies(t))
    <3>1. pc[t] # "run"
      BY <1>2, <1>3
    <3> QED
      BY <1>0, <1>3, <3>1 DEF Produce, ItemEnds, Dies
  <2> QED
    BY <1>5, <2>1, <2>2, <2>3, <2>4, <2>5, <2>6, <2>7 DEF Works
<1>6. ASSUME NEW t \in Tasks, Sends(t) PROVE FlowMove
  BY <1>3, <1>6 DEF Sends, Offer, CallPut, CallClose, Call
<1>7. CASE Take
  <2>1. queue # <<>> /\ queue' = Tail(queue) /\ UNCHANGED <<given, pc, hold>>
    BY <1>7 DEF Take
  <2>2. Head(queue) = queue[1] /\ 1 \in DOMAIN queue
    BY <1>1, <2>1, HeadTail
  <2>3. Head(queue) # Failed
    <3>1. queue[1] = Done \/ Item(queue[1])
      BY <2>2 DEF FlowQueue, FlowFits
    <3>2. \A t \in Tasks : t # 0
      BY TaskNumbers
    <3> QED
      BY <2>2, <3>1, <3>2 DEF Item, Done, Failed
  <2>4. CASE Sentinel(Head(queue)) /\ LastDone
    <3>1. verdict' = "end" /\ UNCHANGED out
      BY <1>3, <1>7, <2>3, <2>4 DEF Take, Leave
    <3> QED
      BY <2>1, <2>4, <3>1 DEF Sentinel, FlowMove, TakesEnd
  <2>5. CASE Sentinel(Head(queue)) /\ ~LastDone
    <3>1. finished' = 1 /\ UNCHANGED <<out, verdict>>
      BY <1>3, <1>7, <2>3, <2>5 DEF Take
    <3>2. kind = "merge" /\ finished = 0
      BY <1>0, <2>5 DEF LastDone, TypeInv
    <3> QED
      BY <2>1, <2>5, <3>1, <3>2 DEF Sentinel, FlowMove, TakesDone
  <2>6. CASE ~Sentinel(Head(queue))
    <3>1. out' = Append(out, Head(queue)) /\ UNCHANGED <<finished, verdict>>
      BY <1>3, <1>7, <2>3, <2>6 DEF Take, Yield
    <3> QED
      BY <2>1, <2>6, <3>1 DEF Sentinel, FlowMove, TakesItem
  <2> QED
    BY <2>4, <2>5, <2>6
<1>8. CASE EndsMap \/ Awaits \/ Closes
  BY <1>0, <1>3, <1>8 DEF EndsMap, Awaits, Closes, Reading
<1>9. CASE AskNext
  BY <1>9 DEF AskNext, FlowMove, FlowView
<1>10. CASE Close
  BY <1>10 DEF Close, Leave, FlowMove, LeavesEarly
<1>11. CASE UNCHANGED vars
  BY <1>11 DEF vars, FlowMove, FlowView
<1> QED
  BY <1>5, <1>6, <1>7, <1>8, <1>9, <1>10, <1>11 DEF Next, Reads

\* Nothing is yielded, and nothing else reported, after the reader has left.
LEMMA Frozen ==
    ASSUME Control, verdict # "running", [Next]_vars
    PROVE  UNCHANGED <<out, verdict>>
<1>1. reader \notin {"get", "await", "yield"}
  BY DEF Control, Reading
<1> QED
  BY <1>1 DEF Next, Works, Sends, Reads, Put, Pump, Produce, ItemEnds, Acquire, StartSub,
     ProducerEnds, Sub, Dies, Offer, CallPut, CallClose, Take, EndsMap, Awaits, AskNext,
     Closes, Close, ending, vars


LEMMA SetOfAppend ==
    ASSUME NEW S, NEW q \in Seq(S), NEW e \in S
    PROVE  ToSet(Append(q, e)) = ToSet(q) \cup {e}
<1>1. /\ \A i \in DOMAIN q : i \in DOMAIN Append(q, e) /\ Append(q, e)[i] = q[i]
      /\ \A i \in DOMAIN Append(q, e) : i \in DOMAIN q \/ i = Len(q) + 1
      /\ Len(q) + 1 \in DOMAIN Append(q, e) /\ Append(q, e)[Len(q) + 1] = e
  BY Appends
<1>2. \A x \in ToSet(Append(q, e)) : x \in ToSet(q) \cup {e}
  BY <1>1 DEF ToSet
<1>3. \A x \in ToSet(q) : x \in ToSet(Append(q, e))
  BY <1>1 DEF ToSet
<1>4. e \in ToSet(Append(q, e))
  BY <1>1 DEF ToSet
<1> QED
  BY <1>2, <1>3, <1>4

LEMMA SetOfTail ==
    ASSUME NEW S, NEW q \in Seq(S), q # <<>>
    PROVE  ToSet(q) = ToSet(Tail(q)) \cup {Head(q)}
<1>1. /\ Head(q) = q[1] /\ 1 \in DOMAIN q
      /\ \A i \in DOMAIN Tail(q) : i + 1 \in DOMAIN q /\ Tail(q)[i] = q[i + 1]
      /\ \A i \in DOMAIN q : i # 1 => i - 1 \in DOMAIN Tail(q) /\ Tail(q)[i - 1] = q[i]
  BY Tails
<1>2. ASSUME NEW i \in DOMAIN q PROVE q[i] \in ToSet(Tail(q)) \cup {Head(q)}
  <2>1. CASE i = 1
    BY <1>1, <2>1
  <2>2. CASE i # 1
    <3>1. i - 1 \in DOMAIN Tail(q) /\ Tail(q)[i - 1] = q[i]
      BY <1>1, <2>2
    <3>2. Tail(q)[i - 1] \in ToSet(Tail(q))
      BY <3>1 DEF ToSet
    <3> QED
      BY <3>1, <3>2
  <2> QED
    BY <2>1, <2>2
<1>3. \A x \in ToSet(q) : x \in ToSet(Tail(q)) \cup {Head(q)}
  BY <1>2 DEF ToSet
<1>4. ASSUME NEW i \in DOMAIN Tail(q) PROVE Tail(q)[i] \in ToSet(q)
  BY <1>1 DEF ToSet
<1>5. \A x \in ToSet(Tail(q)) : x \in ToSet(q)
  BY <1>4 DEF ToSet
<1>6. Head(q) \in ToSet(q)
  BY <1>1 DEF ToSet
<1> QED
  BY <1>3, <1>5, <1>6

\* A step of a reader that runs on.
FlowStep ==
    /\ Flowing /\ Control /\ Control' /\ UNCHANGED setup
    /\ verdict = "running" /\ verdict' = "running"
    /\ FlowItems /\ FlowQueue /\ FlowEnd /\ FlowSubs /\ FlowMove

LEMMA FlowTyped ==
    ASSUME FlowStep
    PROVE  /\ 1 \in Tasks /\ Pumps \subseteq Tasks
           /\ \A t \in Tasks : /\ t \in Nat /\ t >= 1 /\ given[t] \in Nat /\ len[t] \in Nat
                               /\ \A n \in Nat : /\ <<t, n>> # Done /\ <<t, n>>[1] = t /\ <<t, n>>[2] = n
                                                 /\ <<t, n>> \in Elements
           /\ \A t : Feeds(t)' = Feeds(t)
           /\ Done \in Elements /\ UNCHANGED <<kind, len, fin, Pumps>>
           /\ pc \in [Tasks -> Places] /\ given \in [Tasks -> Nat] /\ hold \in [Tasks -> Elements]
           /\ queue \in Seq(Elements) /\ out \in Seq(Elements)
<1>1. UNCHANGED <<kind, len, fin>> /\ SetupInv /\ TypeInv
  BY DEF FlowStep, Control, setup
<1>2. UNCHANGED Pumps /\ 1 \in Tasks /\ Pumps \subseteq Tasks
  BY <1>1, PumpFacts, AllowedStays DEF FlowStep, SetupInv
<1>3. \A t \in Tasks : /\ t \in Nat /\ t >= 1 /\ given[t] \in Nat /\ len[t] \in Nat
                       /\ \A n \in Nat : /\ <<t, n>> # Done /\ <<t, n>>[1] = t /\ <<t, n>>[2] = n
                                         /\ <<t, n>> \in Elements
  BY <1>1, TaskNumbers DEF SetupInv, TypeInv, Done, Elements
<1>4. \A t : Feeds(t)' = Feeds(t)
  BY <1>1, <1>2 DEF Feeds
<1>5. Done \in Elements
  BY DEF Done, Elements
<1> QED
  BY <1>1, <1>2, <1>3, <1>4, <1>5 DEF TypeInv

NewItem(e) == \E t \in Tasks, n \in Nat : Feeds(t)' /\ n \in 1..given'[t] /\ e = <<t, n>>

\* What every step does to it, and to the order of the queue.
FlowChange ==
    \/ UNCHANGED <<queue, out>>
    \/ \E e \in Elements :
          /\ e = Done \/ (NewItem(e) /\ Follows(e, queue, ToSet(out)))
          /\ queue' = Append(queue, e) /\ UNCHANGED out
    \/ /\ queue # <<>> /\ queue' = Tail(queue)
       /\ \/ Head(queue) # Done /\ out' = Append(out, Head(queue))
          \/ Head(queue) = Done /\ UNCHANGED out

LEMMA FlowChanges ==
    ASSUME FlowStep, FlowChange, \A t \in Tasks : given'[t] >= given[t] /\ given'[t] \in Nat
    PROVE  /\ FlowItems' /\ Ordered(queue, ToSet(out))'
           /\ FlowFits'
<1>1. /\ queue \in Seq(Elements) /\ out \in Seq(Elements) /\ \A t : Feeds(t)' = Feeds(t)
      /\ \A t \in Tasks : t >= 1 /\ t \in Nat /\ given[t] \in Nat
  BY FlowTyped
<1>2. \A e : Item(e) => NewItem(e)
  <2>1. \A t \in Tasks : \A n \in 1..given[t] : n \in 1..given'[t]
    BY <1>1
  <2> QED
    BY <1>1, <2>1 DEF Item, NewItem
<1>3. /\ \A i \in DOMAIN queue : queue[i] = Done \/ Item(queue[i])
      /\ \A i \in DOMAIN out : Item(out[i])
      /\ Ordered(queue, ToSet(out))
  BY DEF FlowStep, FlowQueue, FlowItems, FlowFits
<1>4. CASE UNCHANGED <<queue, out>>
  <2>1. \A i \in DOMAIN out' : NewItem(out'[i])
    BY <1>2, <1>3, <1>4
  <2>2. \A i \in DOMAIN queue' : queue'[i] = Done \/ NewItem(queue'[i])
    BY <1>2, <1>3, <1>4
  <2>3. Ordered(queue', ToSet(out'))
    BY <1>3, <1>4
  <2>4. Ordered(queue, ToSet(out))'
    BY <2>3
  <2> QED
    BY <2>1, <2>2, <2>4 DEF FlowItems, FlowFits, Item, NewItem
<1>5. ASSUME NEW e \in Elements, e = Done \/ (NewItem(e) /\ Follows(e, queue, ToSet(out))),
             queue' = Append(queue, e), UNCHANGED out
      PROVE  /\ FlowItems' /\ Ordered(queue, ToSet(out))'
             /\ FlowFits'
  <2>1. Ordered(queue', ToSet(out))
    BY <1>1, <1>3, <1>5, OrderedAppend
  <2>2. \A i \in DOMAIN queue' : (i \in DOMAIN queue /\ queue'[i] = queue[i]) \/ queue'[i] = e
    BY <1>1, <1>5, Appends
  <2>3. \A i \in DOMAIN queue' : queue'[i] = Done \/ NewItem(queue'[i])
    BY <1>2, <1>3, <1>5, <2>2
  <2>4. FlowItems'
    BY <1>2, <1>3, <1>5 DEF FlowItems, NewItem, Item
  <2>5. Ordered(queue', ToSet(out'))
    BY <1>5, <2>1
  <2> QED
    BY <2>3, <2>4, <2>5 DEF FlowFits, NewItem, Item
<1>6. CASE queue # <<>> /\ queue' = Tail(queue) /\ Head(queue) # Done /\ out' = Append(out, Head(queue))
  <2>1. Head(queue) = queue[1] /\ 1 \in DOMAIN queue /\ Head(queue) \in Elements
    BY <1>1, <1>6, HeadTail
  <2>2. \A i \in DOMAIN queue' : \E j \in DOMAIN queue : queue'[i] = queue[j]
    BY <1>1, <1>6, Tails
  <2>3. \A i \in DOMAIN out' : (i \in DOMAIN out /\ out'[i] = out[i]) \/ out'[i] = Head(queue)
    BY <1>1, <1>6, <2>1, Appends
  <2>4. ToSet(out') = ToSet(out) \cup {Head(queue)}
    BY <1>1, <1>6, <2>1, SetOfAppend
  <2>5. Ordered(queue', ToSet(out'))
    BY <1>1, <1>3, <1>6, <2>4, OrderedTail
  <2>6. FlowItems'
    <3>1. NewItem(Head(queue))
      BY <1>2, <1>3, <1>6, <2>1
    <3>2. \A i \in DOMAIN out' : NewItem(out'[i])
      BY <1>2, <1>3, <2>3, <3>1
    <3> QED
      BY <3>2 DEF FlowItems, NewItem, Item
  <2>7. \A i \in DOMAIN queue' : queue'[i] = Done \/ NewItem(queue'[i])
    BY <1>2, <1>3, <2>2
  <2> QED
    BY <2>5, <2>6, <2>7 DEF FlowFits, NewItem, Item
<1>7. CASE queue # <<>> /\ queue' = Tail(queue) /\ Head(queue) = Done /\ UNCHANGED out
  <2>1. \A i \in DOMAIN queue : queue[i] = Done \/ Pred(queue[i]) # Done
    <3>1. \A e : Item(e) => e[1] # 0
      BY <1>1 DEF Item
    <3> QED
      BY <1>3, <3>1 DEF Pred, Done
  <2>2. \A i \in DOMAIN queue' : \E j \in DOMAIN queue : queue'[i] = queue[j]
    BY <1>1, <1>7, Tails
  <2>3. Ordered(queue', ToSet(out'))
    BY <1>1, <1>3, <1>7, <2>1, OrderedTail
  <2>4. FlowItems'
    BY <1>2, <1>3, <1>7 DEF FlowItems, NewItem, Item
  <2>5. \A i \in DOMAIN queue' : queue'[i] = Done \/ NewItem(queue'[i])
    BY <1>2, <1>3, <2>2
  <2> QED
    BY <2>3, <2>4, <2>5 DEF FlowFits, NewItem, Item
<1> QED
  BY <1>4, <1>5, <1>6, <1>7 DEF FlowChange

LEMMA FlowSets ==
    ASSUME FlowStep
    PROVE  /\ \A e \in Elements : queue' = Append(queue, e) /\ UNCHANGED out => Flow' = Flow \cup {e}
           /\ queue # <<>> /\ queue' = Tail(queue) /\ out' = Append(out, Head(queue)) => Flow' = Flow
           /\ queue # <<>> /\ queue' = Tail(queue) /\ Head(queue) = Done /\ UNCHANGED out
                 => Flow' \cup {Done} = Flow \cup {Done}
           /\ UNCHANGED <<queue, out>> => Flow' = Flow
<1>1. queue \in Seq(Elements) /\ out \in Seq(Elements)
  BY FlowTyped
<1>2. ASSUME NEW e \in Elements, queue' = Append(queue, e), UNCHANGED out PROVE Flow' = Flow \cup {e}
  <2>1. ToSet(queue') = ToSet(queue) \cup {e}
    BY <1>1, <1>2, SetOfAppend
  <2> QED
    BY <1>2, <2>1 DEF Flow
<1>3. ASSUME queue # <<>>, queue' = Tail(queue)
      PROVE  ToSet(queue) = ToSet(queue') \cup {Head(queue)} /\ Head(queue) \in Elements
  BY <1>1, <1>3, SetOfTail, HeadTail
<1>4. ASSUME queue # <<>>, queue' = Tail(queue), out' = Append(out, Head(queue)) PROVE Flow' = Flow
  <2>1. ToSet(out') = ToSet(out) \cup {Head(queue)}
    BY <1>1, <1>3, <1>4, SetOfAppend
  <2> QED
    BY <1>3, <1>4, <2>1 DEF Flow
<1>5. ASSUME queue # <<>>, queue' = Tail(queue), Head(queue) = Done, UNCHANGED out
      PROVE  Flow' \cup {Done} = Flow \cup {Done}
  BY <1>3, <1>5 DEF Flow
<1>6. UNCHANGED <<queue, out>> => Flow' = Flow
  BY DEF Flow
<1> QED
  BY <1>2, <1>4, <1>5, <1>6


\* An item that its source has not yielded yet is nowhere; one that it has is on its
\* way or has arrived, unless it is held.
LEMMA NotYet ==
    ASSUME FlowStep, NEW t \in Tasks, NEW n \in Nat, n > given[t]
    PROVE  <<t, n>> \notin Flow
<1>1. given[t] \in Nat /\ <<t, n>> # Done /\ <<t, n>>[1] = t /\ <<t, n>>[2] = n
  BY FlowTyped
<1>2. ~Item(<<t, n>>)
  <2>1. ASSUME NEW u \in Tasks, NEW m \in Nat, m \in 1..given[u], <<t, n>> = <<u, m>> PROVE FALSE
    <3>1. t = u /\ n = m
      BY <2>1
    <3> QED
      BY <1>1, <2>1, <3>1
  <2> QED
    BY <2>1 DEF Item
<1>3. FlowItems /\ FlowFits
  BY DEF FlowStep, FlowQueue
<1> QED
  BY <1>1, <1>2, <1>3 DEF FlowItems, FlowFits, Flow, ToSet

LEMMA OnItsWay ==
    ASSUME FlowStep, NEW t \in Tasks, NEW n \in Nat, Feeds(t), n \in 1..given[t],
           pc[t] # "put" \/ hold[t] # <<t, n>>
    PROVE  <<t, n>> \in Flow
  BY DEF FlowStep, FlowQueue, FlowHas

\* No task of flat_map_merge puts: its queue has no bound.
LEMMA FlatPlaces ==
    ASSUME Control, kind = "flat_map_merge", NEW t \in Tasks
    PROVE  pc[t] \in {"idle", "pull", "acquire", "over"} /\ (pc[t] = "acquire" => t = 1)
  BY AllowedFacts, Kinds DEF Control, Placed

\* What a step of task t does to the items on their way, x being a new one or a
\* sentinel.
Grows(t, x) ==
    /\ Flow' \cup {Done} = Flow \cup {x, Done}
    /\ \A u \in Tasks : u # t =>
          (pc'[u] = "put" <=> pc[u] = "put") /\ hold'[u] = hold[u] /\ given'[u] = given[u]
    /\ given'[t] \in Nat /\ given'[t] >= given[t] /\ given'[t] <= len[t]
    /\ x = Done \/ x[1] = t
    /\ \A n \in Nat : Feeds(t) /\ n \in 1..given'[t] =>
          <<t, n>> \in Flow \/ <<t, n>> = x \/ (pc'[t] = "put" /\ hold'[t] = <<t, n>>)
    /\ Feeds(t) /\ pc'[t] = "put" =>
          \/ hold'[t] = Done /\ fin[t] = "end" /\ given'[t] = len[t]
          \/ /\ given'[t] >= 1 /\ hold'[t] = <<t, given'[t]>>
             /\ hold'[t] \notin Flow /\ hold'[t] # x

LEMMA FlowGrows ==
    ASSUME FlowStep, FlowChange, NEW t \in Tasks, NEW x \in Elements, Grows(t, x)
    PROVE  FlowItems' /\ FlowQueue'
<1> USE DEF Grows
<1>0. /\ \A u \in Tasks : /\ given[u] \in Nat /\ given[u] <= len[u]
                          /\ \A n \in Nat : <<u, n>> # Done /\ <<u, n>>[1] = u
      /\ \A u : Feeds(u)' = Feeds(u)
      /\ UNCHANGED <<len, fin>>
  BY FlowTyped DEF FlowStep, FlowQueue
<1>1. \A u \in Tasks : given'[u] >= given[u] /\ given'[u] \in Nat /\ given'[u] <= len'[u]
  <2>1. ASSUME NEW u \in Tasks PROVE given'[u] >= given[u] /\ given'[u] \in Nat /\ given'[u] <= len'[u]
    <3>1. CASE u = t
      BY <1>0, <3>1
    <3>2. CASE u # t
      BY <1>0, <3>2
    <3> QED
      BY <3>1, <3>2
  <2> QED
    BY <2>1
<1>2. FlowItems' /\ Ordered(queue, ToSet(out))' /\ FlowFits'
  BY <1>1, FlowChanges
<1>3. \A e : e # Done => (e \in Flow' <=> e \in Flow \/ e = x)
  OBVIOUS
<1>4. FlowHas /\ FlowHolds
  BY DEF FlowStep, FlowQueue
<1>5. ASSUME NEW u \in Tasks, NEW n \in Nat, Feeds(u), n \in 1..given'[u]
      PROVE  <<u, n>> \in Flow' \/ (pc'[u] = "put" /\ hold'[u] = <<u, n>>)
  <2>1. <<u, n>> \in Flow \/ <<u, n>> = x \/ (pc'[u] = "put" /\ hold'[u] = <<u, n>>)
    BY <1>4, <1>5 DEF FlowHas
  <2> QED
    BY <1>0, <1>3, <2>1
<1>6. ASSUME NEW u \in Tasks, Feeds(u), pc'[u] = "put"
      PROVE  \/ hold'[u] = Done /\ fin[u] = "end" /\ given'[u] = len[u]
             \/ given'[u] >= 1 /\ hold'[u] = <<u, given'[u]>> /\ hold'[u] \notin Flow'
  <2>1. CASE u = t
    BY <1>0, <1>3, <1>6, <2>1
  <2>2. CASE u # t
    <3>1. \/ hold'[u] = Done /\ fin[u] = "end" /\ given'[u] = len[u]
          \/ given'[u] >= 1 /\ hold'[u] = <<u, given'[u]>> /\ hold'[u] \notin Flow
      BY <1>4, <1>6, <2>2 DEF FlowHolds
    <3>2. hold'[u] = <<u, given'[u]>> => hold'[u] # x /\ hold'[u] # Done
      BY <1>0, <1>1, <2>2
    <3> QED
      BY <1>3, <3>1, <3>2
  <2> QED
    BY <2>1, <2>2
<1>7. FlowHas'
  BY <1>0, <1>5 DEF FlowHas
<1>8. FlowHolds'
  BY <1>0, <1>6 DEF FlowHolds
<1> QED
  BY <1>1, <1>2, <1>7, <1>8 DEF FlowQueue

LEMMA FlowQueueInductive == FlowStep => FlowItems' /\ FlowQueue'
<1> SUFFICES ASSUME FlowStep PROVE FlowItems' /\ FlowQueue'
  OBVIOUS
<1>0. /\ 1 \in Tasks /\ Pumps \subseteq Tasks
      /\ \A t \in Tasks : /\ t \in Nat /\ t >= 1 /\ given[t] \in Nat /\ len[t] \in Nat /\ given[t] <= len[t]
                          /\ \A n \in Nat : /\ <<t, n>> # Done /\ <<t, n>>[1] = t /\ <<t, n>>[2] = n
                                            /\ <<t, n>> \in Elements
      /\ \A t : Feeds(t)' = Feeds(t)
      /\ Done \in Elements
      /\ pc \in [Tasks -> Places] /\ given \in [Tasks -> Nat] /\ hold \in [Tasks -> Elements]
      /\ queue \in Seq(Elements) /\ out \in Seq(Elements)
  BY FlowTyped DEF FlowStep, FlowQueue
<1>1. /\ Pumping => \A t \in Pumps : Feeds(t)
      /\ kind = "flat_map_merge" => \A t \in Tasks : (Feeds(t) <=> t # 1) /\ pc[t] # "put"
      /\ FlowHas /\ FlowHolds /\ verdict' = "running" /\ FlowMove
  BY Kinds, FlatPlaces DEF Feeds, FlowStep, FlowQueue
<1>2. ASSUME NEW t \in Tasks, NEW n \in Nat, Feeds(t), n = given[t] + 1
      PROVE  NewItem(<<t, n>>) \/ ~(n \in 1..given'[t])
  BY <1>0, <1>2 DEF NewItem
<1>3. ASSUME NEW t \in Tasks, PutsItem(t) PROVE FlowItems' /\ FlowQueue'
  <2> DEFINE e == hold[t]
             m == given[t] - 1
  <2>1. /\ Feeds(t) /\ given[t] >= 1 /\ e = <<t, given[t]>> /\ e \notin Flow /\ e \in Elements
        /\ pc[t] = "put" /\ e # Done
    BY <1>0, <1>1, <1>3 DEF PutsItem, FlowHolds
  <2>2. UNCHANGED <<given, hold, out>> /\ queue' = Append(queue, e) /\ pc' = [pc EXCEPT ![t] = "pull"]
    BY <1>3 DEF PutsItem
  <2>3. Flow' = Flow \cup {e}
    BY <2>1, <2>2, FlowSets
  <2>4. NewItem(e)
    BY <1>0, <2>1, <2>2 DEF NewItem
  <2>5. e[2] = 1 \/ Pred(e) \in Flow
    <3>1. e[1] = t /\ e[2] = given[t] /\ Pred(e) = <<t, m>>
      BY <1>0, <2>1 DEF Pred
    <3>2. CASE given[t] # 1
      <4>1. m \in Nat /\ m \in 1..given[t] /\ m # given[t]
        BY <1>0, <2>1, <3>2
      <4>2. hold[t] # <<t, m>>
        BY <2>1, <4>1
      <4>3. <<t, m>> \in Flow
        BY <2>1, <4>1, <4>2, OnItsWay
      <4> QED
        BY <3>1, <4>3
    <3> QED
      BY <3>1, <3>2
  <2>6. Follows(e, queue, ToSet(out))
    BY <2>1, <2>5 DEF Follows, Flow
  <2>7. FlowChange
    BY <2>1, <2>2, <2>4, <2>6 DEF FlowChange
  <2>8. \A n \in Nat : n \in 1..given'[t] => <<t, n>> \in Flow \/ <<t, n>> = e
    BY <1>1, <2>1, <2>2 DEF FlowHas
  <2>9. e[1] = t /\ pc'[t] = "pull" /\ given'[t] = given[t]
        /\ \A u \in Tasks : u # t => pc'[u] = pc[u] /\ hold'[u] = hold[u] /\ given'[u] = given[u]
    BY <1>0, <2>1, <2>2
  <2>20. Grows(t, e)
    BY <1>0, <2>1, <2>3, <2>7, <2>8, <2>9 DEF Grows
  <2> QED
    BY <1>0, <2>7, <2>1, <2>20, FlowGrows
<1>4. ASSUME NEW t \in Tasks, PutsDone(t) PROVE FlowItems' /\ FlowQueue'
  <2>1. UNCHANGED <<given, hold, out>> /\ queue' = Append(queue, Done) /\ pc' = [pc EXCEPT ![t] = "over"]
        /\ Feeds(t) /\ hold[t] = Done
    BY <1>1, <1>4 DEF PutsDone
  <2>2. Flow' = Flow \cup {Done}
    BY <1>0, <2>1, FlowSets
  <2>3. FlowChange
    BY <1>0, <2>1 DEF FlowChange
  <2>4. \A n \in Nat : n \in 1..given'[t] => <<t, n>> \in Flow
    <3>1. \A n \in Nat : n \in 1..given[t] => <<t, n>> # hold[t]
      BY <1>0, <2>1
    <3> QED
      BY <1>1, <2>1, <3>1 DEF FlowHas
  <2>5. pc'[t] = "over" /\ given'[t] = given[t]
        /\ \A u \in Tasks : u # t => pc'[u] = pc[u] /\ hold'[u] = hold[u] /\ given'[u] = given[u]
    BY <1>0, <2>1
  <2>20. Grows(t, Done)
    BY <1>0, <2>2, <2>3, <2>4, <2>5 DEF Grows
  <2> QED
    BY <1>0, <2>3, <2>20, FlowGrows
<1>5. ASSUME NEW t \in Tasks, Pulls(t) PROVE FlowItems' /\ FlowQueue'
  <2> DEFINE n == given[t] + 1
  <2>1. /\ UNCHANGED <<queue, out>> /\ given' = [given EXCEPT ![t] = n] /\ pc' = [pc EXCEPT ![t] = "put"]
        /\ hold' = [hold EXCEPT ![t] = <<t, n>>] /\ given[t] < len[t] /\ Feeds(t) /\ pc[t] = "pull"
    BY <1>1, <1>5 DEF Pulls
  <2>2. n \in Nat /\ n > given[t] /\ n >= 1 /\ n <= len[t] /\ \A m \in 1..n : m \in 1..given[t] \/ m = n
    BY <1>0, <2>1
  <2> HIDE DEF n
  <2>3. Flow' = Flow /\ FlowChange
    BY <2>1, FlowSets DEF FlowChange
  <2>4. <<t, n>> \notin Flow /\ <<t, n>> # Done
    BY <1>0, <2>2, NotYet
  <2>5. \A m \in 1..given[t] : <<t, m>> \in Flow
    BY <2>1, OnItsWay
  <2>6. pc'[t] = "put" /\ given'[t] = n /\ hold'[t] = <<t, n>>
        /\ \A u \in Tasks : u # t => pc'[u] = pc[u] /\ hold'[u] = hold[u] /\ given'[u] = given[u]
    BY <1>0, <2>1
  <2>7. n >= given[t]
    BY <1>0, <2>2
  <2>8. \A m \in Nat : m \in 1..given'[t] => <<t, m>> \in Flow \/ hold'[t] = <<t, m>>
    BY <2>2, <2>5, <2>6
  <2>20. Grows(t, Done)
    BY <1>0, <2>2, <2>3, <2>4, <2>6, <2>7, <2>8 DEF Grows
  <2> QED
    BY <1>0, <2>3, <2>20, FlowGrows
<1>6. ASSUME NEW t \in Tasks, Finishes(t) \/ Raises(t) PROVE FlowItems' /\ FlowQueue'
  <2>1. /\ UNCHANGED <<queue, out, given>> /\ Feeds(t) /\ pc[t] = "pull"
        /\ \/ /\ hold' = [hold EXCEPT ![t] = Done] /\ pc' = [pc EXCEPT ![t] = "put"]
              /\ fin[t] = "end" /\ given[t] >= len[t]
           \/ hold' = hold /\ pc' = [pc EXCEPT ![t] = "over"]
    BY <1>1, <1>6 DEF Finishes, Raises
  <2>2. Flow' = Flow /\ FlowChange
    BY <2>1, FlowSets DEF FlowChange
  <2>3. \A m \in Nat : m \in 1..given[t] => <<t, m>> \in Flow
    BY <2>1, OnItsWay
  <2>4. given'[t] = given[t]
        /\ \A u \in Tasks : u # t => pc'[u] = pc[u] /\ hold'[u] = hold[u] /\ given'[u] = given[u]
    BY <1>0, <2>1
  <2>5. pc'[t] = "put" => hold'[t] = Done /\ fin[t] = "end" /\ given[t] = len[t]
    BY <1>0, <2>1
  <2>20. Grows(t, Done)
    BY <1>0, <2>2, <2>3, <2>4, <2>5 DEF Grows
  <2> QED
    BY <1>0, <2>2, <2>20, FlowGrows
<1>7. ASSUME NEW t \in Tasks, SubItem(t) PROVE FlowItems' /\ FlowQueue'
  <2> DEFINE n == given[t] + 1
             e == <<t, n>>
  <2>1. /\ UNCHANGED <<hold, pc, out>> /\ given' = [given EXCEPT ![t] = n] /\ queue' = Append(queue, e)
        /\ given[t] < len[t] /\ Feeds(t) /\ pc[t] = "pull"
    BY <1>1, <1>7 DEF SubItem
  <2>2. n \in Nat /\ n > given[t] /\ n >= 1 /\ n <= len[t] /\ \A m \in 1..n : m \in 1..given[t] \/ m = n
    BY <1>0, <2>1
  <2>3. n = 1 \/ given[t] \in 1..given[t]
    BY <1>0
  <2>4. e \notin Flow /\ e # Done /\ e \in Elements /\ e[1] = t /\ e[2] = n
    BY <1>0, <2>2, NotYet
  <2>5. \A m \in 1..given[t] : <<t, m>> \in Flow
    BY <2>1, OnItsWay
  <2>6. Pred(e) = <<t, given[t]>>
    BY <1>0 DEF Pred
  <2>7. Follows(e, queue, ToSet(out))
    BY <2>3, <2>4, <2>5, <2>6 DEF Follows, Flow
  <2>8. given'[t] = n /\ pc'[t] = "pull"
        /\ \A u \in Tasks : u # t => pc'[u] = pc[u] /\ hold'[u] = hold[u] /\ given'[u] = given[u]
    BY <1>0, <2>1
  <2> HIDE DEF n
  <2>9. NewItem(e)
    BY <1>0, <2>1, <2>2, <2>8 DEF NewItem
  <2>10. FlowChange
    BY <2>1, <2>4, <2>7, <2>9 DEF FlowChange
  <2>11. Flow' = Flow \cup {e}
    BY <2>1, <2>4, FlowSets
  <2>12. \A m \in Nat : m \in 1..given'[t] => <<t, m>> \in Flow \/ <<t, m>> = e
    BY <2>2, <2>5, <2>8
  <2>13. n >= given[t]
    BY <1>0, <2>2
  <2> HIDE DEF e
  <2>20. Grows(t, e)
    BY <1>0, <2>2, <2>4, <2>8, <2>10, <2>11, <2>12, <2>13 DEF Grows
  <2> QED
    BY <1>0, <2>10, <2>4, <2>20, FlowGrows
<1>8. ASSUME NEW t \in Tasks, SubEnds(t) PROVE FlowItems' /\ FlowQueue'
  <2>1. /\ UNCHANGED <<hold, given, out>> /\ pc' = [pc EXCEPT ![t] = "over"] /\ Feeds(t) /\ pc[t] = "pull"
        /\ queue' = queue \/ queue' = Append(queue, Done)
    BY <1>1, <1>8 DEF SubEnds
  <2>2. Flow' \cup {Done} = Flow \cup {Done} /\ FlowChange
    BY <1>0, <2>1, FlowSets DEF FlowChange
  <2>3. \A m \in Nat : m \in 1..given[t] => <<t, m>> \in Flow
    BY <2>1, OnItsWay
  <2>4. given'[t] = given[t] /\ pc'[t] = "over"
        /\ \A u \in Tasks : u # t => pc'[u] = pc[u] /\ hold'[u] = hold[u] /\ given'[u] = given[u]
    BY <1>0, <2>1
  <2>20. Grows(t, Done)
    <3>1. given'[t] \in Nat /\ given'[t] >= given[t] /\ given'[t] <= len[t]
      BY <1>0, <2>4
    <3>2. Flow' \cup {Done} = Flow \cup {Done, Done}
      BY <2>2
    <3>3. \A m \in Nat : m \in 1..given'[t] => <<t, m>> \in Flow
      BY <2>3, <2>4
    <3>4. pc'[t] # "put"
      BY <2>4
    <3> QED
      BY <2>4, <3>1, <3>2, <3>3, <3>4 DEF Grows
  <2> QED
    BY <1>0, <2>2, <2>20, FlowGrows
<1>9. CASE Acquires
  <2>1. /\ UNCHANGED <<hold, queue, out>> /\ pc' = [pc EXCEPT ![1] = "acquire"]
        /\ given' = [given EXCEPT ![1] = given[1] + 1] /\ given[1] < len[1] /\ ~Feeds(1)
    BY <1>0, <1>1, <1>9 DEF Acquires
  <2>2. Flow' = Flow /\ FlowChange
    BY <2>1, FlowSets DEF FlowChange
  <2>3. given'[1] = given[1] + 1 /\ pc'[1] = "acquire"
        /\ \A u \in Tasks : u # 1 => pc'[u] = pc[u] /\ hold'[u] = hold[u] /\ given'[u] = given[u]
    BY <1>0, <2>1
  <2>4. given'[1] \in Nat /\ given'[1] >= given[1] /\ given'[1] <= len[1]
    BY <1>0, <2>1, <2>3
  <2>20. Grows(1, Done)
    BY <1>0, <2>1, <2>2, <2>3, <2>4 DEF Grows
  <2> QED
    BY <1>0, <2>2, <2>20, FlowGrows
<1>10. CASE Starts \/ NoMore
  <2>1. /\ UNCHANGED <<hold, given, out>> /\ ~Feeds(1) /\ kind = "flat_map_merge"
        /\ queue' = queue \/ queue' = Append(queue, Done)
        /\ \/ pc' = [pc EXCEPT ![1] = "pull", ![given[1] + 1] = "pull"]
           \/ pc' = [pc EXCEPT ![1] = "over"]
    BY <1>0, <1>1, <1>10 DEF Starts, NoMore
  <2>2. Flow' \cup {Done} = Flow \cup {Done} /\ FlowChange
    BY <1>0, <2>1, FlowSets DEF FlowChange
  <2>3. \A u \in Tasks : pc[u] # "put" /\ pc'[u] # "put"
    BY <1>0, <1>1, <2>1
  <2>4. given'[1] = given[1]
        /\ \A u \in Tasks : u # 1 => hold'[u] = hold[u] /\ given'[u] = given[u]
    BY <2>1
  <2>20. Grows(1, Done)
    BY <1>0, <2>1, <2>2, <2>3, <2>4 DEF Grows
  <2> QED
    BY <1>0, <2>2, <2>20, FlowGrows
<1>11. CASE TakesItem \/ TakesDone \/ UNCHANGED FlowView
  <2>1. /\ UNCHANGED <<given, pc, hold>>
        /\ \/ queue # <<>> /\ queue' = Tail(queue) /\ Head(queue) # Done /\ out' = Append(out, Head(queue))
           \/ queue # <<>> /\ queue' = Tail(queue) /\ Head(queue) = Done /\ UNCHANGED out
           \/ UNCHANGED <<queue, out>>
    BY <1>11 DEF TakesItem, TakesDone, FlowView
  <2>2. Flow' \cup {Done} = Flow \cup {Done} /\ FlowChange
    BY <2>1, FlowSets DEF FlowChange
  <2>3. \A n \in Nat : Feeds(1) /\ n \in 1..given[1] =>
            <<1, n>> \in Flow \/ (pc[1] = "put" /\ hold[1] = <<1, n>>)
    BY <1>0, <1>1 DEF FlowHas
  <2>4. Feeds(1) /\ pc[1] = "put" =>
            \/ hold[1] = Done /\ fin[1] = "end" /\ given[1] = len[1]
            \/ given[1] >= 1 /\ hold[1] = <<1, given[1]>> /\ hold[1] \notin Flow /\ hold[1] # Done
    <3>1. 1 \in Tasks /\ <<1, given[1]>> # Done
      BY <1>0
    <3> QED
      BY <1>1, <3>1 DEF FlowHolds
  <2>5. \A u \in Tasks : pc'[u] = pc[u] /\ hold'[u] = hold[u] /\ given'[u] = given[u]
    BY <2>1
  <2>20. Grows(1, Done)
    BY <1>0, <2>2, <2>3, <2>4, <2>5 DEF Grows
  <2> QED
    BY <1>0, <2>2, <2>20, FlowGrows
<1>12. ~TakesEnd /\ ~LeavesEarly
  BY <1>1 DEF TakesEnd, LeavesEarly
<1> QED
  BY <1>1, <1>3, <1>4, <1>5, <1>6, <1>7, <1>8, <1>9, <1>10, <1>11, <1>12 DEF FlowMove

\* Once all is sent only the reader moves.
LEMMA AllSentRests ==
    ASSUME FlowStep, AllSent
    PROVE  AllSent' /\ (TakesItem \/ TakesDone \/ UNCHANGED FlowView)
<1>0. /\ \A t : Feeds(t)' = Feeds(t)
      /\ UNCHANGED <<kind, len, fin, Pumps>>
      /\ FlowMove /\ verdict' = "running" /\ FlowSubs /\ Flowing
  BY FlowTyped DEF FlowStep
<1>1. CASE kind = "flat_map_merge"
  <2>1. finished = 1 /\ Active = {} /\ pc[1] = "over"
    BY <1>0, <1>1 DEF AllSent, FlowSubs
  <2>2. \A t \in Tasks : t # 1 => pc[t] # "pull"
    BY <2>1 DEF Active
  <2>3. TakesItem \/ UNCHANGED FlowView
    BY <1>0, <1>1, <2>1, <2>2, Kinds DEF FlowMove, PutsItem, PutsDone, Pulls, Finishes, Raises, SubItem,
       SubEnds, Acquires, Starts, NoMore, TakesDone, TakesEnd, LeavesEarly
  <2>4. UNCHANGED <<pc, finished>>
    BY <2>3 DEF TakesItem, FlowView
  <2> QED
    BY <1>0, <1>1, <2>1, <2>3, <2>4 DEF AllSent, Active
<1>2. CASE kind # "flat_map_merge"
  <2>1. \A t \in Pumps : pc[t] = "over" /\ fin[t] = "end"
    BY <1>2 DEF AllSent, Sent
  <2>2. TakesItem \/ TakesDone \/ UNCHANGED FlowView
    BY <1>0, <1>2, <2>1 DEF FlowMove, PutsItem, PutsDone, Pulls, Finishes, Raises, SubItem,
       SubEnds, Acquires, Starts, NoMore, TakesEnd, LeavesEarly
  <2>3. UNCHANGED pc
    BY <2>2 DEF TakesItem, TakesDone, FlowView
  <2> QED
    BY <1>0, <1>2, <2>1, <2>2, <2>3 DEF AllSent, Sent
<1> QED
  BY <1>1, <1>2

\* What producers do to the sentinels of the queue, before all is sent.
LEMMA SentinelAdded ==
    ASSUME FlowStep, ~AllSent, LastDone' = LastDone,
           \/ queue' = queue
           \/ \E e \in Elements : /\ queue' = Append(queue, e)
                                  /\ e = Done /\ (LastDone \/ Done \in ToSet(queue)) => AllSent'
    PROVE  LastIsLast'
<1>1. queue \in Seq(Elements)
  BY FlowTyped
<1>2. /\ \A i \in DOMAIN queue : ~(queue[i] = Done /\ LastDone)
      /\ \A i, j \in DOMAIN queue : ~(queue[i] = Done /\ queue[j] = Done /\ i < j)
  BY DEF FlowStep, FlowEnd, LastIsLast
<1>3. CASE queue' = queue
  <2>1. /\ \A i \in DOMAIN queue' : ~(queue'[i] = Done /\ LastDone')
        /\ \A i, j \in DOMAIN queue' : ~(queue'[i] = Done /\ queue'[j] = Done /\ i < j)
    BY <1>2, <1>3
  <2> QED
    BY <2>1 DEF LastIsLast
<1>4. ASSUME NEW e \in Elements, queue' = Append(queue, e),
             e = Done /\ (LastDone \/ Done \in ToSet(queue)) => AllSent'
      PROVE  LastIsLast'
  <2>1. /\ Len(queue') = Len(queue) + 1 /\ Len(queue) \in Nat
        /\ DOMAIN queue' = 1..Len(queue) + 1 /\ DOMAIN queue = 1..Len(queue)
        /\ \A i \in DOMAIN queue : queue'[i] = queue[i]
        /\ queue'[Len(queue) + 1] = e
    BY <1>1, <1>4, AppendProperties, LenProperties
  <2>2. ASSUME NEW i \in DOMAIN queue', queue'[i] = Done, LastDone' PROVE AllSent' /\ i = Len(queue')
    <3>1. i = Len(queue) + 1
      BY <1>2, <2>1, <2>2
    <3> QED
      BY <1>4, <2>1, <2>2, <3>1
  <2>3. ASSUME NEW i \in DOMAIN queue', NEW j \in DOMAIN queue',
               queue'[i] = Done, queue'[j] = Done, i < j
        PROVE  AllSent' /\ j = Len(queue')
    <3>1. i \in DOMAIN queue
      BY <2>1, <2>3
    <3>2. j = Len(queue) + 1
      BY <1>2, <2>1, <2>3, <3>1
    <3>3. Done \in ToSet(queue)
      BY <2>1, <2>3, <3>1 DEF ToSet
    <3> QED
      BY <1>4, <2>1, <2>3, <3>2, <3>3
  <2> QED
    BY <2>2, <2>3 DEF LastIsLast
<1> QED
  BY <1>3, <1>4

\* What the reader does to them.
LEMMA SentinelTaken ==
    ASSUME FlowStep, queue # <<>>, queue' = Tail(queue), LastDone' => LastDone \/ Head(queue) = Done
    PROVE  LastIsLast'
<1>1. /\ Head(queue) = queue[1] /\ 1 \in DOMAIN queue /\ DOMAIN queue = 1..Len(queue)
      /\ Len(queue) \in Nat /\ Len(queue') = Len(queue) - 1 /\ DOMAIN queue' = 1..Len(queue) - 1
      /\ \A i \in 1..Len(queue) - 1 : queue'[i] = queue[i + 1]
  BY FlowTyped, HeadTail, LenProperties
<1>2. LastIsLast
  BY DEF FlowStep, FlowEnd
<1>3. ASSUME NEW i \in DOMAIN queue' PROVE queue'[i] = queue[i + 1] /\ i + 1 \in DOMAIN queue /\ 1 < i + 1
  BY <1>1
<1>4. AllSent => AllSent'
  BY AllSentRests
<1>5. ASSUME NEW i \in DOMAIN queue', queue'[i] = Done, LastDone' PROVE AllSent' /\ i = Len(queue')
  <2>1. queue[i + 1] = Done /\ i + 1 \in DOMAIN queue /\ 1 < i + 1 /\ i \in Nat
    BY <1>1, <1>3, <1>5
  <2>2. AllSent /\ i + 1 = Len(queue)
    BY <1>1, <1>2, <1>5, <2>1 DEF LastIsLast
  <2> QED
    BY <1>1, <1>4, <2>1, <2>2
<1>6. ASSUME NEW i \in DOMAIN queue', NEW j \in DOMAIN queue',
             queue'[i] = Done, queue'[j] = Done, i < j
      PROVE  AllSent' /\ j = Len(queue')
  <2>1. /\ queue[i + 1] = Done /\ i + 1 \in DOMAIN queue /\ i \in Nat
        /\ queue[j + 1] = Done /\ j + 1 \in DOMAIN queue /\ j \in Nat
    BY <1>1, <1>3, <1>6
  <2>2. i + 1 < j + 1
    BY <1>6, <2>1
  <2>3. AllSent /\ j + 1 = Len(queue)
    BY <1>2, <2>1, <2>2 DEF LastIsLast
  <2> QED
    BY <1>1, <1>4, <2>1, <2>3
<1> QED
  BY <1>5, <1>6 DEF LastIsLast

LEMMA FlowEndInductive == FlowStep => FlowEnd'
<1> SUFFICES ASSUME FlowStep PROVE FlowEnd'
  OBVIOUS
<1>0. /\ 1 \in Tasks /\ Pumps \subseteq Tasks
      /\ \A t \in Tasks : given[t] \in Nat /\ len[t] \in Nat /\ given[t] <= len[t]
      /\ \A t : Feeds(t)' = Feeds(t)
      /\ Done \in Elements /\ UNCHANGED <<kind, len, fin, Pumps>>
      /\ pc \in [Tasks -> Places] /\ given \in [Tasks -> Nat] /\ hold \in [Tasks -> Elements]
      /\ queue \in Seq(Elements)
  BY FlowTyped DEF FlowStep, FlowQueue
<1>1. /\ verdict' = "running" /\ FlowMove /\ LastIsLast /\ SomeSent /\ OverGave /\ FlowHolds
      /\ Flowing /\ FlowSubs
      /\ Pumping => kind # "flat_map_merge" /\ \A t \in Pumps : Feeds(t)
  BY Kinds DEF FlowStep, FlowEnd, FlowQueue, Feeds
<1>2. ASSUME NEW t \in Tasks, Sent(t), pc'[t] = pc[t] PROVE Sent(t)'
  BY <1>0, <1>2 DEF Sent
<1>3. UNCHANGED finished => LastDone' = LastDone
  BY <1>0 DEF LastDone
<1>4. kind = "flat_map_merge" => LastDone' = LastDone
  BY <1>0 DEF LastDone
\* The sentinels.
<1>5. LastIsLast'
  <2>1. CASE TakesItem \/ TakesDone
    <3>1. queue # <<>> /\ queue' = Tail(queue) /\ (LastDone' => LastDone \/ Head(queue) = Done)
      BY <1>3, <2>1 DEF TakesItem, TakesDone
    <3> QED
      BY <3>1, SentinelTaken
  <2>2. CASE UNCHANGED FlowView
    <3>1. CASE AllSent
      <4>1. UNCHANGED queue /\ AllSent' /\ LastDone' = LastDone
        BY <1>3, <2>2, <3>1, AllSentRests DEF FlowView
      <4> QED
        BY <1>1, <3>1, <4>1 DEF LastIsLast
    <3>2. CASE ~AllSent
      <4>1. UNCHANGED queue /\ LastDone' = LastDone
        BY <1>3, <2>2 DEF FlowView
      <4> QED
        BY <3>2, <4>1, SentinelAdded
    <3> QED
      BY <3>1, <3>2
  <2>3. ASSUME NEW t \in Tasks, PutsItem(t) \/ Pulls(t) \/ Finishes(t) \/ Raises(t) \/ SubItem(t)
        PROVE  LastIsLast'
    <3>1. ~AllSent
      <4>1. CASE SubItem(t)
        BY <4>1 DEF SubItem, AllSent, Active
      <4>2. CASE PutsItem(t) \/ Pulls(t) \/ Finishes(t) \/ Raises(t)
        <5>1. kind # "flat_map_merge" /\ t \in Pumps /\ pc[t] # "over"
          BY <1>1, <4>2 DEF PutsItem, Pulls, Finishes, Raises
        <5> QED
          BY <5>1 DEF AllSent, Sent
      <4> QED
        BY <2>3, <4>1, <4>2
    <3>2. UNCHANGED finished
      BY <2>3 DEF PutsItem, Pulls, Finishes, Raises, SubItem
    <3>3. queue' = queue \/ \E e \in Elements : queue' = Append(queue, e) /\ e # Done
      <4>1. CASE SubItem(t)
        <5>1. <<t, given[t] + 1>> \in Elements /\ <<t, given[t] + 1>> # Done
          BY FlowTyped
        <5> QED
          BY <4>1, <5>1 DEF SubItem
      <4>2. CASE PutsItem(t)
        BY <1>0, <4>2 DEF PutsItem
      <4>3. CASE Pulls(t) \/ Finishes(t) \/ Raises(t)
        BY <4>3 DEF Pulls, Finishes, Raises
      <4> QED
        BY <2>3, <4>1, <4>2, <4>3
    <3> QED
      BY <1>3, <3>1, <3>2, <3>3, SentinelAdded
  <2>4. ASSUME NEW t \in Tasks, PutsDone(t) PROVE LastIsLast'
    <3>1. /\ Pumping /\ t \in Pumps /\ pc[t] = "put" /\ hold[t] = Done /\ queue' = Append(queue, Done)
          /\ pc' = [pc EXCEPT ![t] = "over"] /\ UNCHANGED finished
      BY <2>4 DEF PutsDone
    <3>2. kind # "flat_map_merge" /\ fin[t] = "end"
      <4>1. Feeds(t) /\ \A n \in Nat : <<t, n>> # Done
        BY <1>1, <3>1, FlowTyped
      <4> QED
        BY <1>0, <1>1, <3>1, <4>1 DEF FlowHolds
    <3>3. ~AllSent
      BY <3>1, <3>2 DEF AllSent, Sent
    <3>4. LastDone \/ Done \in ToSet(queue) => AllSent'
      <4>1. Sent(t)'
        BY <1>0, <3>1, <3>2 DEF Sent
      <4>2. CASE kind = "merge"
        <5>1. Pumps = {1, 2}
          BY <4>2 DEF Pumps
        <5>2. LastDone \/ Done \in ToSet(queue) => \E u \in Pumps : Sent(u)
          BY <1>1, <4>2 DEF SomeSent, LastDone
        <5>3. ASSUME NEW u \in Pumps, Sent(u) PROVE AllSent'
          <6>1. u # t
            BY <3>1, <5>3 DEF Sent
          <6>2. Sent(u)'
            BY <1>0, <1>2, <3>1, <5>3, <6>1
          <6>3. \A v \in Pumps' : Sent(v)'
            BY <1>0, <3>1, <4>1, <5>1, <5>3, <6>1, <6>2
          <6> QED
            BY <1>0, <3>2, <6>3 DEF AllSent
        <5> QED
          BY <5>2, <5>3
      <4>3. CASE kind # "merge"
        <5>1. Pumps = {1}
          BY <3>1, <3>2, <4>3 DEF Pumps, Pumping
        <5>2. \A v \in Pumps' : Sent(v)'
          BY <1>0, <3>1, <4>1, <5>1
        <5> QED
          BY <1>0, <3>2, <5>2 DEF AllSent
      <4> QED
        BY <4>2, <4>3
    <3> QED
      BY <1>0, <1>3, <3>1, <3>3, <3>4, SentinelAdded
  <2>5. ASSUME NEW t \in Tasks, SubEnds(t) PROVE LastIsLast'
    <3>1. /\ kind = "flat_map_merge" /\ pc[t] = "pull" /\ t # 1 /\ pc' = [pc EXCEPT ![t] = "over"]
          /\ UNCHANGED finished
          /\ queue' = queue \/ (Active = {t} /\ finished = 1 /\ queue' = Append(queue, Done))
      BY <2>5 DEF SubEnds
    <3>2. ~AllSent
      BY <3>1 DEF AllSent, Active
    <3>3. Active = {t} /\ finished = 1 => AllSent'
      <4>1. Active' = Active \ {t}
        BY <1>0, <3>1 DEF Active
      <4> QED
        BY <1>0, <3>1, <4>1 DEF AllSent
    <3> QED
      BY <1>0, <1>4, <3>1, <3>2, <3>3, SentinelAdded
  <2>6. CASE Acquires \/ Starts
    <3>1. kind = "flat_map_merge" /\ pc[1] # "over" /\ queue' = queue
      BY <2>6 DEF Acquires, Starts
    <3>2. ~AllSent
      BY <1>1, <3>1 DEF AllSent, FlowSubs
    <3> QED
      BY <1>4, <3>1, <3>2, SentinelAdded
  <2>7. CASE NoMore
    <3>1. /\ kind = "flat_map_merge" /\ pc[1] = "pull" /\ pc' = [pc EXCEPT ![1] = "over"]
          /\ \/ queue' = queue
             \/ finished' = 1 /\ Active = {} /\ queue' = Append(queue, Done)
      BY <2>7 DEF NoMore
    <3>2. ~AllSent
      BY <1>1, <3>1 DEF AllSent, FlowSubs
    <3>3. finished' = 1 /\ Active = {} => AllSent'
      <4>1. Active' = Active
        BY <1>0, <3>1 DEF Active
      <4> QED
        BY <1>0, <3>1, <4>1 DEF AllSent
    <3> QED
      BY <1>0, <1>4, <3>1, <3>2, <3>3, SentinelAdded
  <2>8. ~TakesEnd /\ ~LeavesEarly
    BY <1>1 DEF TakesEnd, LeavesEarly
  <2> QED
    BY <1>1, <2>1, <2>2, <2>3, <2>4, <2>5, <2>6, <2>7, <2>8 DEF FlowMove
\* A sentinel of merge was sent by one of its pumps.
<1>6. SomeSent'
  <2> SUFFICES ASSUME kind = "merge", finished' = 1 \/ Done \in ToSet(queue')
               PROVE  \E t \in Pumps : Sent(t)'
    BY <1>0 DEF SomeSent
  <2>1. \A t \in Pumps : pc[t] = "over" => pc'[t] = "over"
    BY <1>0, <1>1 DEF FlowMove, PutsItem, PutsDone, Pulls, Finishes, Raises, SubItem, SubEnds,
       Acquires, Starts, NoMore, TakesItem, TakesDone, TakesEnd, LeavesEarly, FlowView
  <2>2. (\E t \in Pumps : Sent(t)) => \E t \in Pumps : Sent(t)'
    BY <1>0, <2>1 DEF Sent
  <2>3. ASSUME NEW t \in Tasks, PutsDone(t) PROVE \E u \in Pumps : Sent(u)'
    <3>1. Pumping /\ t \in Pumps /\ pc[t] = "put" /\ hold[t] = Done /\ pc' = [pc EXCEPT ![t] = "over"]
      BY <2>3 DEF PutsDone
    <3>2. Feeds(t) /\ \A n \in Nat : <<t, n>> # Done
      BY <1>1, <3>1, FlowTyped
    <3>3. fin[t] = "end"
      BY <1>0, <1>1, <3>1, <3>2 DEF FlowHolds
    <3>4. Sent(t)'
      BY <1>0, <3>1, <3>3 DEF Sent
    <3> QED
      BY <3>1, <3>4
  <2>4. ASSUME \A t \in Tasks : ~PutsDone(t) PROVE finished = 1 \/ Done \in ToSet(queue)
    <3>1. CASE \E t \in Tasks : PutsItem(t)
      <4>1. PICK t \in Tasks : PutsItem(t)
        BY <3>1
      <4>2. hold[t] \in Elements /\ hold[t] # Done /\ queue' = Append(queue, hold[t]) /\ UNCHANGED finished
        BY <1>0, <4>1 DEF PutsItem
      <4>3. ToSet(queue') = ToSet(queue) \cup {hold[t]}
        BY <1>0, <4>2, SetOfAppend
      <4> QED
        BY <4>2, <4>3
    <3>2. CASE TakesItem
      <4>1. queue # <<>> /\ queue' = Tail(queue) /\ UNCHANGED finished
        BY <3>2 DEF TakesItem
      <4>2. ToSet(queue) = ToSet(queue') \cup {Head(queue)}
        BY <1>0, <4>1, SetOfTail
      <4> QED
        BY <4>1, <4>2
    <3>3. CASE TakesDone
      <4>1. queue # <<>> /\ Head(queue) = Done
        BY <3>3 DEF TakesDone
      <4>2. ToSet(queue) = ToSet(Tail(queue)) \cup {Head(queue)}
        BY <1>0, <4>1, SetOfTail
      <4> QED
        BY <4>1, <4>2
    <3>4. CASE UNCHANGED <<queue, finished>>
      BY <3>4
    <3>5. \/ \E t \in Tasks : PutsItem(t)
          \/ TakesItem \/ TakesDone \/ UNCHANGED <<queue, finished>>
      BY <1>1, <2>4 DEF FlowMove, Pulls, Finishes, Raises, SubItem, SubEnds,
         Acquires, Starts, NoMore, TakesEnd, LeavesEarly, FlowView
    <3> QED
      BY <3>1, <3>2, <3>3, <3>4, <3>5
  <2> QED
    BY <1>1, <2>2, <2>3, <2>4 DEF SomeSent
\* A producer that is over has given all it had.
<1>7. OverGave'
  <2> SUFFICES ASSUME NEW t \in Tasks, Feeds(t), pc'[t] = "over"
               PROVE  given'[t] = len[t] \/ (Pumping /\ fin[t] # "end")
    BY <1>0 DEF OverGave, Pumping
  <2>1. CASE pc[t] = "over"
    <3>1. given'[t] = given[t]
      BY <1>0, <1>1, <2>1, Kinds DEF FlowMove, PutsItem, PutsDone, Pulls, Finishes, Raises, SubItem, SubEnds,
         Acquires, Starts, NoMore, TakesItem, TakesDone, TakesEnd, LeavesEarly, FlowView
    <3> QED
      BY <1>1, <2>1, <3>1 DEF OverGave
  <2>2. CASE pc[t] # "over"
    <3>1. PutsDone(t) \/ Raises(t) \/ SubEnds(t)
      <4>1. kind = "flat_map_merge" => t # 1
        BY DEF Feeds
      <4> QED
        BY <1>0, <1>1, <2>2, <4>1 DEF FlowMove, PutsItem, PutsDone, Pulls, Finishes, Raises, SubItem,
           SubEnds, Acquires, Starts, NoMore, TakesItem, TakesDone, TakesEnd, LeavesEarly, FlowView
    <3>2. CASE PutsDone(t)
      <4>1. \A n \in Nat : <<t, n>> # Done
        BY FlowTyped
      <4>2. given'[t] = given[t] /\ pc[t] = "put" /\ hold[t] = Done
        BY <3>2 DEF PutsDone
      <4> QED
        BY <1>0, <1>1, <4>1, <4>2 DEF FlowHolds
    <3>3. CASE Raises(t)
      BY <3>3 DEF Raises
    <3>4. CASE SubEnds(t)
      BY <1>0, <3>4 DEF SubEnds
    <3> QED
      BY <3>1, <3>2, <3>3, <3>4
  <2> QED
    BY <2>1, <2>2
<1> QED
  BY <1>5, <1>6, <1>7 DEF FlowEnd

LEMMA FlowSubsInductive == FlowStep => FlowSubs'
<1> SUFFICES ASSUME FlowStep, kind = "flat_map_merge"
             PROVE  /\ finished' = 1 => pc'[1] = "over" /\ given'[1] = len[1]
                    /\ \A t \in Tasks : t # 1 /\ t <= given'[1] + 1 /\ pc'[t] = "idle" =>
                          t = given'[1] + 1 /\ pc'[1] = "acquire"
  BY FlowTyped DEF FlowSubs
<1>0. /\ 1 \in Tasks /\ \A t \in Tasks : t \in Nat /\ given[t] \in Nat /\ len[t] \in Nat /\ given[t] <= len[t]
      /\ pc \in [Tasks -> Places] /\ given \in [Tasks -> Nat]
      /\ FlowMove /\ verdict' = "running" /\ ~Pumping
  BY FlowTyped, Kinds DEF FlowStep, FlowQueue
<1>1. /\ finished = 1 => pc[1] = "over" /\ given[1] = len[1]
      /\ \A t \in Tasks : t # 1 /\ t <= given[1] + 1 /\ pc[t] = "idle" => t = given[1] + 1 /\ pc[1] = "acquire"
  BY DEF FlowStep, FlowSubs
<1>2. CASE Acquires
  <2>1. /\ pc[1] = "pull" /\ pc'[1] = "acquire" /\ UNCHANGED finished /\ given'[1] = given[1] + 1
        /\ \A t \in Tasks : t # 1 => pc'[t] = pc[t]
    BY <1>0, <1>2 DEF Acquires
  <2> QED
    BY <1>0, <1>1, <2>1
<1>3. CASE Starts
  <2>1. /\ pc[1] = "acquire" /\ UNCHANGED <<given, finished>>
        /\ \A t \in Tasks : t # 1 => pc'[t] = IF t = given[1] + 1 THEN "pull" ELSE pc[t]
    BY <1>0, <1>3 DEF Starts
  <2> QED
    BY <1>0, <1>1, <2>1
<1>4. CASE NoMore
  <2>1. /\ pc[1] = "pull" /\ pc'[1] = "over" /\ UNCHANGED given /\ given[1] >= len[1]
        /\ \A t \in Tasks : t # 1 => pc'[t] = pc[t]
    BY <1>0, <1>4 DEF NoMore
  <2> QED
    BY <1>0, <1>1, <2>1
<1>5. ASSUME NEW u \in Tasks, SubItem(u) \/ SubEnds(u)
      PROVE  UNCHANGED finished /\ given'[1] = given[1] /\ pc'[1] = pc[1]
             /\ \A t \in Tasks : pc'[t] = pc[t] \/ pc'[t] = "over"
  BY <1>0, <1>5 DEF SubItem, SubEnds
<1>6. CASE TakesItem \/ UNCHANGED FlowView
  BY <1>1, <1>6 DEF TakesItem, FlowView
<1>7. \/ \E u \in Tasks : SubItem(u) \/ SubEnds(u)
      \/ Acquires \/ Starts \/ NoMore \/ TakesItem \/ UNCHANGED FlowView
  BY <1>0 DEF FlowMove, PutsItem, PutsDone, Pulls, Finishes, Raises, TakesDone, TakesEnd, LeavesEarly
<1>8. CASE \E u \in Tasks : SubItem(u) \/ SubEnds(u)
  BY <1>1, <1>5, <1>8
<1> QED
  BY <1>2, <1>3, <1>4, <1>6, <1>7, <1>8

\* Once all is sent and the last sentinel is read, everything has been yielded.
LEMMA EndHasAll ==
    ASSUME FlowItems, FlowQueue, FlowEnd, FlowSubs, Control, Flowing,
           queue # <<>>, Head(queue) = Done, LastDone,
           NEW t \in Tasks, NEW n \in Nat, Feeds(t), n \in 1..len[t],
           kind = "flat_map_merge" => t <= len[1] + 1
    PROVE  <<t, n>> \in ToSet(out)
<1>1. /\ queue \in Seq(Elements) /\ t \in Nat /\ t >= 1 /\ <<t, n>> # Done
  BY TaskNumbers DEF Control, TypeInv, Done
<1>2. 1 \in DOMAIN queue /\ queue[1] = Done /\ DOMAIN queue = 1..Len(queue)
  BY <1>1, HeadTail, LenProperties
<1>3. AllSent /\ 1 = Len(queue)
  BY <1>2 DEF FlowEnd, LastIsLast
<1>4. ToSet(queue) = {Done}
  <2>1. 1..1 = {1}
    OBVIOUS
  <2>2. DOMAIN queue = {1}
    BY <1>2, <1>3, <2>1, Zenon
  <2> QED
    BY <1>2, <2>2 DEF ToSet
<1>5. pc[t] = "over" /\ given[t] = len[t]
  <2>1. CASE kind = "flat_map_merge"
    <3>1. finished = 1 /\ Active = {} /\ t # 1
      BY <1>3, <2>1 DEF AllSent, Feeds
    <3>2. pc[1] = "over" /\ given[1] = len[1]
      BY <2>1, <3>1 DEF FlowSubs
    <3>3. pc[t] # "idle"
      BY <2>1, <3>1, <3>2 DEF FlowSubs
    <3>4. pc[t] # "pull"
      BY <3>1 DEF Active
    <3>5. pc[t] = "over"
      BY <2>1, <3>1, <3>3, <3>4, FlatPlaces
    <3> QED
      BY <2>1, <3>5, Kinds DEF FlowEnd, OverGave
  <2>2. CASE kind # "flat_map_merge"
    <3>1. pc[t] = "over" /\ fin[t] = "end"
      BY <1>3, <2>2 DEF AllSent, Feeds, Sent
    <3> QED
      BY <3>1 DEF FlowEnd, OverGave
  <2> QED
    BY <2>1, <2>2
<1>6. <<t, n>> \in Flow
  BY <1>5 DEF FlowQueue, FlowHas
<1> QED
  BY <1>1, <1>4, <1>6 DEF Flow

LEMMA FlowOutInductive == Control /\ FlowInv /\ [Next]_vars /\ Flowing => FlowOut'
<1> SUFFICES ASSUME Control, FlowInv, [Next]_vars, Flowing PROVE FlowOut'
  OBVIOUS
<1>0. /\ UNCHANGED <<kind, len, fin>> /\ Pumps' = Pumps /\ FlowOut
      /\ out \in Seq(Elements) /\ queue \in Seq(Elements)
      /\ \A t \in Tasks : given[t] \in Nat /\ len[t] \in Nat
  BY SetupInductive, AllowedStays DEF Control, setup, FlowInv, TypeInv, SetupInv
<1>1. \A t : Feeds(t)' = Feeds(t)
  BY <1>0 DEF Feeds
<1>2. ASSUME UNCHANGED out, verdict' # "end" \/ verdict' = verdict PROVE FlowOut'
  <2>1. Ordered(out', {})
    BY <1>0, <1>2 DEF FlowOut
  <2>2. Ordered(out, {})'
    BY <2>1
  <2> QED
    BY <1>0, <1>1, <1>2, <2>2 DEF FlowOut
<1>3. CASE verdict # "running"
  BY <1>2, <1>3, Frozen
<1>4. CASE verdict = "running"
  <2>1. FlowItems /\ FlowQueue /\ FlowEnd /\ FlowSubs /\ FlowMove
    BY <1>4, FlowSteps DEF FlowInv
  <2>2. CASE TakesItem
    <3> DEFINE e == Head(queue)
    <3>1. /\ queue # <<>> /\ e # Done /\ out' = Append(out, e) /\ verdict' = "running"
          /\ e = queue[1] /\ 1 \in DOMAIN queue /\ e \in Elements
      BY <1>0, <1>4, <2>2, HeadTail DEF TakesItem
    <3>2. Item(e)
      BY <2>1, <3>1 DEF FlowQueue, FlowFits
    <3>3. \E t \in Tasks, n \in Nat : Feeds(t) /\ n \in 1..len[t] /\ e = <<t, n>>
      <4>1. PICK t \in Tasks, n \in Nat : Feeds(t) /\ n \in 1..given[t] /\ e = <<t, n>>
        BY <3>2 DEF Item
      <4>2. given[t] <= len[t]
        BY <2>1 DEF FlowQueue
      <4>3. n \in 1..len[t]
        BY <1>0, <4>1, <4>2
      <4> QED
        BY <4>1, <4>3
    <3>4. Follows(e, <<>>, ToSet(out))
      BY <1>0, <2>1, <3>1, OrderedTail DEF FlowQueue
    <3>5. Follows(e, out, {})
      <4>1. ToSet(<<>>) = {}
        BY EmptySeq DEF ToSet
      <4> QED
        BY <3>4, <4>1 DEF Follows
    <3>6. Ordered(out', {})
      BY <1>0, <3>1, <3>5, OrderedAppend DEF FlowOut
    <3>7. \A i \in DOMAIN out' : (i \in DOMAIN out /\ out'[i] = out[i]) \/ out'[i] = e
      BY <1>0, <3>1, Appends
    <3> HIDE DEF e
    <3>8. \A i \in DOMAIN out' : \E t \in Tasks, n \in Nat :
              Feeds(t) /\ n \in 1..len[t] /\ out'[i] = <<t, n>>
      BY <1>0, <3>3, <3>7 DEF FlowOut
    <3>9. Ordered(out, {})'
      BY <3>6
    <3> QED
      BY <1>0, <1>1, <3>1, <3>8, <3>9 DEF FlowOut
  <2>3. CASE TakesEnd
    <3>1. queue # <<>> /\ Head(queue) = Done /\ LastDone /\ UNCHANGED out
      BY <2>3 DEF TakesEnd
    <3>2. \A t \in Tasks, n \in Nat :
              Feeds(t) /\ n \in 1..len[t] /\ (kind = "flat_map_merge" => t <= len[1] + 1)
                  => <<t, n>> \in ToSet(out)
      BY <2>1, <3>1, EndHasAll
    <3>3. Ordered(out', {})
      BY <1>0, <3>1 DEF FlowOut
    <3>4. Ordered(out, {})'
      BY <3>3
    <3> QED
      BY <1>0, <1>1, <3>1, <3>2, <3>4 DEF FlowOut
  <2>4. CASE ~TakesItem /\ ~TakesEnd
    <3>1. UNCHANGED out /\ (verdict' # "end" \/ verdict' = verdict)
      BY <2>1, <2>4 DEF FlowMove, PutsItem, PutsDone, Pulls, Finishes, Raises, SubItem, SubEnds,
         Acquires, Starts, NoMore, TakesDone, LeavesEarly, FlowView
    <3> QED
      BY <1>2, <3>1
  <2> QED
    BY <2>2, <2>3, <2>4
<1> QED
  BY <1>3, <1>4

LEMMA FlowInvInductive == Control /\ Control' /\ FlowInv /\ [Next]_vars => FlowInv'
<1> SUFFICES ASSUME Control, Control', FlowInv, [Next]_vars, Flowing'
             PROVE  /\ FlowOut'
                    /\ verdict' = "running" => FlowItems' /\ FlowQueue' /\ FlowEnd' /\ FlowSubs'
  BY DEF FlowInv
<1>1. UNCHANGED setup /\ Flowing
  BY SetupInductive DEF Control, setup, Flowing, Pumping
<1>2. FlowOut'
  BY <1>1, FlowOutInductive
<1>3. ASSUME verdict' = "running" PROVE FlowItems' /\ FlowQueue' /\ FlowEnd' /\ FlowSubs'
  <2>1. verdict = "running"
    BY <1>3, Frozen
  <2>2. FlowStep
    BY <1>1, <1>3, <2>1, FlowSteps DEF FlowStep, FlowInv
  <2> QED
    BY <2>2, FlowQueueInductive, FlowEndInductive, FlowSubsInductive
<1> QED
  BY <1>2, <1>3

LEMMA FlowInvInit == Init => FlowInv
<1> SUFFICES ASSUME Init, Flowing
             PROVE  FlowOut /\ FlowItems /\ FlowQueue /\ FlowEnd /\ FlowSubs
  BY DEF FlowInv
<1>1. Control /\ Pumps \subseteq Tasks
  BY ControlInit, PumpFacts DEF Control
<1>2. \A t \in Tasks : t \in Nat /\ t >= 1 /\ len[t] \in Nat
  BY <1>1, TaskNumbers DEF Control, SetupInv
<1>3. /\ queue = <<>> /\ out = <<>> /\ verdict = "running" /\ finished = 0
      /\ \A t \in Tasks : given[t] = 0 /\ pc[t] # "put" /\ pc[t] # "over"
      /\ \A t \in Tasks : pc[t] = "idle" => t \notin Pumps
  BY Kinds DEF Init
<1>4. DOMAIN <<>> = {} /\ ToSet(<<>>) = {} /\ \A n \in Nat : n \notin 1..0
  BY EmptySeq DEF ToSet
<1>5. FlowOut /\ FlowItems
  BY <1>3, <1>4 DEF FlowOut, FlowItems, Ordered
<1>6. FlowQueue
  BY <1>2, <1>3, <1>4 DEF FlowQueue, FlowFits, Ordered, FlowHas, FlowHolds
<1>7. FlowEnd
  BY <1>1, <1>3, <1>4 DEF FlowEnd, LastIsLast, SomeSent, OverGave
<1>8. FlowSubs
  <2>1. \A t \in Tasks : t # 1 => ~(t <= 0 + 1)
    BY <1>2
  <2>2. 1 \in Tasks
    BY <1>1 DEF Control, SetupInv
  <2> QED
    BY <1>3, <2>1, <2>2 DEF FlowSubs
<1> QED
  BY <1>5, <1>6, <1>7, <1>8

LEMMA FlowDelivers ==
    ASSUME Control, FlowInv, Flowing
    PROVE  DeliversInOrder
<1>1. FlowOut /\ ~(kind = "map_async") /\ 1 \in Tasks /\ Pumps \subseteq Tasks
      /\ (Pumping => ~(kind = "flat_map_merge"))
  BY Kinds, PumpFacts DEF FlowInv, Control, SetupInv
<1>2. \A t \in Tasks : t \in Nat /\ t >= 1 /\ len[t] \in Nat
  BY TaskNumbers DEF Control, SetupInv
<1>3. ASSUME NEW i \in DOMAIN out
      PROVE  /\ \A j \in 1..i - 1 : out[j] # out[i]
             /\ out[i][2] # 1 => \E j \in 1..i - 1 : out[j] = <<out[i][1], out[i][2] - 1>>
  <2>1. out[i] # Done
    BY <1>1, <1>2 DEF FlowOut, Done
  <2> QED
    BY <1>1, <2>1 DEF FlowOut, Ordered, Pred
<1>4. ASSUME NEW t \in Tasks, Feeds(t), verdict = "end", kind = "flat_map_merge" => t <= len[1] + 1
      PROVE  From(t) = Source(t)
  <2>1. ASSUME NEW e \in ToSet(out), e[1] = t PROVE e \in Source(t)
    <3>1. \E u \in Tasks, n \in Nat : n \in 1..len[u] /\ e = <<u, n>>
      BY <1>1, <2>1 DEF FlowOut, ToSet
    <3> QED
      BY <2>1, <3>1 DEF Source
  <2>2. ASSUME NEW n \in 1..len[t] PROVE <<t, n>> \in From(t)
    <3>1. n \in Nat
      BY <1>2
    <3>2. <<t, n>> \in ToSet(out)
      BY <1>1, <1>4, <3>1 DEF FlowOut
    <3> QED
      BY <3>2 DEF From
  <2>3. \A e \in From(t) : e \in Source(t)
    BY <2>1 DEF From
  <2>4. \A e \in Source(t) : e \in From(t)
    BY <2>2 DEF Source
  <2> QED
    BY <2>3, <2>4
<1>5. CASE kind = "flat_map_merge"
  <2>1. \A t \in 2..len[1] + 1 : t \in Tasks /\ Feeds(t) /\ t <= len[1] + 1
    <3>1. len[1] + 1 \in Tasks /\ Cardinality(Tasks) \in Nat /\ len[1] \in Nat
      BY <1>1, <1>2, <1>5, TaskNumbers DEF Control, SetupInv, Starting
    <3>2. \A t \in 2..len[1] + 1 : t \in 1..Cardinality(Tasks) /\ t # 1
      BY <3>1, Numbers
    <3> QED
      BY <1>5, <3>1, <3>2, Numbers DEF Feeds
  <2>2. verdict = "end" => \A t \in 2..len[1] + 1 : From(t) = Source(t)
    BY <1>4, <2>1
  <2> QED
    BY <1>1, <1>3, <1>5, <2>2 DEF DeliversInOrder
<1>6. CASE kind \in {"merge", "buffer"}
  <2>1. \A t \in Pumps : t \in Tasks /\ Feeds(t)
    BY <1>1, <1>6 DEF Feeds
  <2>2. verdict = "end" => \A t \in Pumps : From(t) = Source(t)
    BY <1>4, <1>6, <2>1
  <2> QED
    BY <1>1, <1>3, <1>6, <2>2 DEF DeliversInOrder
<1> QED
  BY <1>5, <1>6 DEF Flowing, Pumping

\* Each source's items arrive in its order, none twice and none skipped, map_async's
\* in the order of its input; and when the consumer is told of the end it has had
\* everything: a sentinel is queued behind all that its producer had, and the last one
\* only when no other producer has anything left.
THEOREM StreamsDeliverInOrder == Spec => []DeliversInOrder
<1>1. Control /\ MapInv /\ FlowInv => DeliversInOrder
  <2> SUFFICES ASSUME Control, MapInv, FlowInv PROVE DeliversInOrder
    OBVIOUS
  <2>1. CASE Flowing
    BY <2>1, FlowDelivers
  <2>2. CASE kind = "map_async"
    BY <2>2, MapDelivers DEF DeliversInOrder
  <2>3. CASE kind = "channel"
    BY <2>3 DEF DeliversInOrder
  <2> QED
    BY <2>1, <2>2, <2>3 DEF Control, SetupInv, Flowing, Pumping
<1> QED
  BY <1>1, ControlInit, ControlInductive, MapInvInit, MapInvInductive, FlowInvInit,
     FlowInvInductive, PTL DEF Spec

----------------------------------------------------------------------------
(* How much runs at a time.                                                 *)

\* The sub-streams that hold a permit of flat_map_merge's semaphore.
FlatInv == kind = "flat_map_merge" => Cardinality(Active) <= Width

LEMMA FlatInvInductive == Control /\ FlatInv /\ [Next]_vars => FlatInv'
<1> SUFFICES ASSUME Control, FlatInv, [Next]_vars, kind = "flat_map_merge"
             PROVE  Cardinality(Active') <= Width
  <2>1. Control /\ [Next]_vars => UNCHANGED kind
    BY SetupInductive DEF Control, setup
  <2> QED
    BY <2>1 DEF FlatInv
<1>0. /\ pc \in [Tasks -> Places] /\ 1 \in Tasks /\ Width \in Nat
      /\ \A t \in Tasks : pc[t] \in {"idle", "pull", "acquire", "over"} /\ (pc[t] = "acquire" => t = 1)
      /\ Cardinality(Active) <= Width
  BY FlatPlaces, Numbers DEF Control, TypeInv, SetupInv, FlatInv
<1>1. /\ IsFiniteSet(Active) /\ Cardinality(Active) \in Nat
      /\ IsFiniteSet(Active') /\ Cardinality(Active') \in Nat
  BY Numbers, FS_Subset, FS_CardinalityType DEF Active
<1>2. CASE Active' \subseteq Active
  <2>1. Cardinality(Active') <= Cardinality(Active)
    BY <1>1, <1>2, FS_Subset
  <2> QED
    BY <1>0, <1>1, <2>1
<1>3. ASSUME NEW t \in Tasks, StartSub(t) PROVE Cardinality(Active') <= Width
  <2> DEFINE u == given[1] + 1
  <2>1. t = 1 /\ pc' = [pc EXCEPT ![1] = "pull", ![u] = "pull"] /\ ~(Cardinality(Active) >= Width)
    BY <1>0, <1>3 DEF StartSub, Exhausted
  <2> HIDE DEF u
  <2>2. Active' \subseteq Active \cup {u}
    BY <1>0, <2>1 DEF Active
  <2>3. /\ IsFiniteSet(Active \cup {u})
        /\ \/ Cardinality(Active \cup {u}) = Cardinality(Active)
           \/ Cardinality(Active \cup {u}) = Cardinality(Active) + 1
    BY <1>1, FS_AddElement
  <2>4. Cardinality(Active') <= Cardinality(Active \cup {u})
    BY <2>2, <2>3, FS_Subset
  <2> QED
    BY <1>0, <1>1, <2>1, <2>3, <2>4
<1>4. ASSUME NEW t \in Tasks, Works(t), ~StartSub(t) PROVE Active' \subseteq Active
  <2>1. ~Put(t) /\ ~Pump(t) /\ ~Produce(t) /\ ~ItemEnds(t)
    BY <1>0 DEF Put, Pump, Produce, ItemEnds
  <2>2. UNCHANGED pc \/ pc' = [pc EXCEPT ![t] = "over"] \/ pc' = [pc EXCEPT ![t] = "acquire"]
    BY <1>4, <2>1 DEF Works, Acquire, ProducerEnds, Sub, Dies
  <2> QED
    BY <1>0, <2>2 DEF Active
<1>5. ASSUME NEW t \in Tasks, Sends(t) PROVE Active' \subseteq Active
  BY <1>5 DEF Sends, Offer, CallPut, CallClose, Call
<1>6. CASE Reads \/ Close \/ UNCHANGED vars
  <2>1. UNCHANGED pc \/ pc' = [pc EXCEPT ![awaited] = "over"]
    BY <1>6 DEF Reads, Take, EndsMap, Awaits, AskNext, Closes, Close, vars
  <2>2. \A t \in Tasks : pc'[t] = pc[t] \/ pc'[t] = "over"
    BY <1>0, <2>1
  <2>3. Active' \subseteq Active
    BY <2>2 DEF Active
  <2> QED
    BY <1>2, <2>3
<1> QED
  BY <1>2, <1>3, <1>4, <1>5, <1>6 DEF Next

\* No more sub-streams run than flat_map_merge's breadth, and no more functions than two
\* above map_async's parallelism: the queue has as many slots as that, and one more item
\* task is its producer's, one its reader's.
THEOREM WorkIsBounded == Spec => []Bounded
<1>1. Init => FlatInv
  <2> SUFFICES ASSUME Init, kind = "flat_map_merge" PROVE Cardinality(Active) <= Width
    BY DEF FlatInv
  <2>1. Pumps = {1}
    BY ControlInit, PumpFacts DEF Control
  <2>2. Active = {}
    BY <2>1 DEF Init, Active
  <2> QED
    BY <2>2, FS_EmptySet, Numbers
<1>2. Control /\ MapInv /\ FlatInv => Bounded
  BY MapBounded DEF Bounded, FlatInv, MapRunning
<1> QED
  BY <1>1, <1>2, ControlInit, ControlInductive, MapInvInit, MapInvInductive, FlatInvInductive,
     PTL DEF Spec

----------------------------------------------------------------------------
(* The channel: what a sender was told is accepted.                         *)

Mark(e) == e \in {Done, Failed}

\* No sentinel is on its way before the sender is closed.
NoMarks == ~closed => /\ \A i \in DOMAIN queue : ~Mark(queue[i])
                      /\ \A t \in Tasks : pc[t] = "put" => ~Mark(hold[t])

\* e has been dropped, has been read, or is queued ahead of any sentinel.
Safe(e) ==
    \/ e \in dropped \cup ToSet(out)
    \/ \E i \in DOMAIN queue : queue[i] = e /\ \A j \in 1..i : ~Mark(queue[j])

ChannelInv ==
    kind = "channel" =>
        /\ NoMarks
        /\ verdict = "running" => \A e \in early : Safe(e)
        /\ verdict \in {"end", "error"} => closed /\ early \ dropped \subseteq ToSet(out)

\* What a step does to the queue and to what has been accepted.
Gets(e) ==
    /\ ~closed /\ ~Mark(e) /\ queue' = Append(queue, e) /\ early' = early \cup {e}
    /\ UNCHANGED <<dropped, closed, out, verdict>>
GetsLate(e) ==
    /\ closed /\ queue' = Append(queue, e)
    /\ UNCHANGED <<early, dropped, closed, out, verdict>>
Swaps(e) ==
    /\ ~closed /\ ~Mark(e) /\ queue # <<>> /\ queue' = Append(Tail(queue), e)
    /\ early' = early \cup {e} /\ dropped' = dropped \cup {Head(queue)}
    /\ UNCHANGED <<closed, out, verdict>>
Shuts ==
    closed' = TRUE /\ UNCHANGED <<queue, early, dropped, out, verdict>>
Hands ==
    /\ verdict = "running" /\ queue # <<>> /\ ~Mark(Head(queue))
    /\ queue' = Tail(queue) /\ out' = Append(out, Head(queue))
    /\ UNCHANGED <<early, dropped, closed, verdict>>
Ends ==
    /\ verdict = "running" /\ queue # <<>> /\ Mark(Head(queue)) /\ queue' = Tail(queue)
    /\ verdict' \in {"end", "error"} /\ UNCHANGED <<early, dropped, closed, out>>
Quits ==
    /\ verdict' = "closed" \/ verdict' = verdict
    /\ UNCHANGED <<queue, early, dropped, closed, out>>

ChannelMove ==
    \/ \E e \in Elements : Gets(e) \/ GetsLate(e) \/ Swaps(e)
    \/ Shuts \/ Hands \/ Ends \/ Quits

LEMMA ChannelSteps ==
    ASSUME Control, kind = "channel", NoMarks, [Next]_vars
    PROVE  ChannelMove
<1>0. /\ hold \in [Tasks -> Elements] /\ queue \in Seq(Elements) /\ Size \in Nat \ {0}
      /\ Len(queue) \in Nat /\ Reading
      /\ \A t \in Tasks : t \in Nat /\ t >= 1 /\ given[t] \in Nat
  BY TaskNumbers, Numbers, LenProperties DEF Control, TypeInv
<1>1. ~(kind \in {"merge", "buffer"}) /\ ~(kind = "map_async") /\ ~(kind = "flat_map_merge") /\ ~(kind = "merge")
  OBVIOUS
<1>2. ASSUME NEW t \in Tasks, Works(t) PROVE ChannelMove
  <2>1. CASE Put(t)
    <3>1. hold[t] \in Elements /\ (~closed => ~Mark(hold[t]))
      BY <1>0, <2>1 DEF NoMarks, Put
    <3>2. Gets(hold[t]) \/ GetsLate(hold[t]) \/ Quits
      BY <2>1, <3>1 DEF Put, ending, Gets, GetsLate, Quits
    <3> QED
      BY <3>1, <3>2 DEF ChannelMove
  <2>2. CASE ItemEnds(t) \/ Dies(t)
    BY <2>2 DEF ItemEnds, Dies, ending, sender, ChannelMove, Quits
  <2>3. ~(Pump(t) \/ Produce(t) \/ Acquire(t) \/ StartSub(t) \/ ProducerEnds(t) \/ Sub(t))
    BY <1>1, WhoAcquires DEF Control, Pump, Produce, Acquire, StartSub, ProducerEnds, Sub
  <2> QED
    BY <1>2, <2>1, <2>2, <2>3 DEF Works
<1>3. ASSUME NEW t \in Tasks, Sends(t) PROVE ChannelMove
  <2>1. Element(t) \in Elements /\ ~Mark(Element(t))
    BY <1>0 DEF Element, Elements, Mark, Done, Failed
  <2>2. CASE Offer(t)
    <3>1. Len(queue) >= Size => queue # <<>>
      BY <1>0, EmptySeq
    <3>2. ~(Len(queue) < Size) => Len(queue) >= Size
      BY <1>0
    <3>3. Gets(Element(t)) \/ Swaps(Element(t)) \/ Quits
      BY <2>1, <2>2, <3>1, <3>2 DEF Offer, ending, Gets, Swaps, Quits
    <3> QED
      BY <2>1, <3>3 DEF ChannelMove
  <2>3. CASE CallPut(t)
    BY <2>3 DEF CallPut, ending, sender, ChannelMove, Quits
  <2>4. CASE CallClose(t)
    BY <2>4 DEF CallClose, ending, ChannelMove, Shuts
  <2> QED
    BY <1>3, <2>2, <2>3, <2>4 DEF Sends
<1>4. CASE Take
  <2>1. /\ queue # <<>> /\ queue' = Tail(queue) /\ verdict = "running" /\ LastDone
        /\ UNCHANGED <<early, dropped, closed>>
    BY <1>0, <1>1, <1>4 DEF Take, Reading, LastDone, sender
  <2>2. CASE Mark(Head(queue))
    BY <1>4, <2>1, <2>2 DEF Take, Mark, Sentinel, Leave, ChannelMove, Ends
  <2>3. CASE ~Mark(Head(queue))
    BY <1>1, <1>4, <2>1, <2>3 DEF Take, Mark, Sentinel, Yield, ChannelMove, Hands
  <2> QED
    BY <2>2, <2>3
<1>5. CASE EndsMap \/ Awaits
  BY <1>0, <1>1, <1>5 DEF EndsMap, Awaits, Reading
<1>6. CASE AskNext \/ Closes \/ Close
  BY <1>6 DEF AskNext, Closes, Close, Leave, sender, ChannelMove, Quits
<1>7. CASE UNCHANGED vars
  BY <1>7 DEF vars, ChannelMove, Quits
<1> QED
  BY <1>2, <1>3, <1>4, <1>5, <1>6, <1>7 DEF Next, Reads

\* A task holds a sentinel only once its sender is closed.
LEMMA HeldMarks ==
    ASSUME Control, kind = "channel", NoMarks, [Next]_vars, ~closed',
           NEW t \in Tasks, pc'[t] = "put"
    PROVE  ~closed /\ ~Mark(hold'[t])
<1>0. /\ hold \in [Tasks -> Elements] /\ pc \in [Tasks -> Places]
      /\ \A u \in Tasks : u \in Nat /\ u >= 1 /\ given[u] \in Nat
  BY TaskNumbers DEF Control, TypeInv
<1>1. ~(kind \in {"merge", "buffer"}) /\ ~(kind = "map_async") /\ ~(kind = "flat_map_merge")
  OBVIOUS
<1>2. \/ UNCHANGED <<closed, hold>> /\ (pc[t] = "put" \/ pc'[t] # "put")
      \/ closed' = TRUE
      \/ \E u \in Tasks : /\ UNCHANGED closed /\ hold' = [hold EXCEPT ![u] = Element(u)]
                          /\ pc' = [pc EXCEPT ![u] = "put"]
  <2>1. ASSUME NEW u \in Tasks, Works(u)
        PROVE  UNCHANGED <<closed, hold>> /\ (pc[t] = "put" \/ pc'[t] # "put")
    <3>1. ~(Pump(u) \/ Produce(u) \/ Acquire(u) \/ StartSub(u) \/ ProducerEnds(u) \/ Sub(u))
      BY <1>1, WhoAcquires DEF Control, Pump, Produce, Acquire, StartSub, ProducerEnds, Sub
    <3>2. AfterPut(u) = "ready"
      BY DEF AfterPut
    <3> QED
      BY <1>0, <2>1, <3>1, <3>2 DEF Works, Put, ItemEnds, Dies, sender
  <2>2. ASSUME NEW u \in Tasks, Sends(u)
        PROVE  \/ UNCHANGED <<closed, hold>> /\ (pc[t] = "put" \/ pc'[t] # "put")
               \/ closed' = TRUE
               \/ /\ UNCHANGED closed /\ hold' = [hold EXCEPT ![u] = Element(u)]
                  /\ pc' = [pc EXCEPT ![u] = "put"]
    BY <2>2 DEF Sends, Offer, CallPut, CallClose, Holds, sender
  <2>3. CASE Reads \/ Close \/ UNCHANGED vars
    BY <1>0, <2>3 DEF Reads, Take, EndsMap, Awaits, AskNext, Closes, Close, sender, vars
  <2> QED
    BY <2>1, <2>2, <2>3 DEF Next
<1>3. \A u \in Tasks : ~Mark(Element(u))
  BY <1>0 DEF Element, Mark, Done, Failed
<1> QED
  BY <1>0, <1>2, <1>3 DEF NoMarks

LEMMA ChannelInvInductive == Control /\ ChannelInv /\ [Next]_vars => ChannelInv'
<1> SUFFICES ASSUME Control, ChannelInv, [Next]_vars, kind = "channel"
             PROVE  /\ NoMarks'
                    /\ verdict' = "running" => \A e \in early' : Safe(e)'
                    /\ verdict' \in {"end", "error"} => closed' /\ early' \ dropped' \subseteq ToSet(out')
  <2>1. Control /\ [Next]_vars => UNCHANGED kind
    BY SetupInductive DEF Control, setup
  <2> QED
    BY <2>1 DEF ChannelInv
<1>0. queue \in Seq(Elements) /\ out \in Seq(Elements)
  BY DEF Control, TypeInv
<1>1. /\ NoMarks /\ ChannelMove
      /\ verdict = "running" => \A e \in early : Safe(e)
      /\ verdict \in {"end", "error"} => closed /\ early \ dropped \subseteq ToSet(out)
  BY ChannelSteps DEF ChannelInv
<1>h. ~closed' => ~closed /\ \A t \in Tasks : pc'[t] = "put" => ~Mark(hold'[t])
  <2>1. ~closed' => ~closed
    BY <1>1 DEF ChannelMove, Gets, GetsLate, Swaps, Shuts, Hands, Ends, Quits
  <2>2. \A t \in Tasks : ~closed' /\ pc'[t] = "put" => ~Mark(hold'[t])
    BY <1>1, HeldMarks
  <2> QED
    BY <2>1, <2>2
<1>2. ASSUME NEW e \in Elements, queue' = Append(queue, e), ~closed' => ~Mark(e)
      PROVE  /\ NoMarks'
             /\ \A d : UNCHANGED out /\ dropped \subseteq dropped' /\ Safe(d) => Safe(d)'
             /\ ~closed' => Safe(e)'
  <2>1. /\ DOMAIN queue = 1..Len(queue) /\ DOMAIN queue' = 1..Len(queue) + 1 /\ Len(queue) \in Nat
        /\ \A i \in 1..Len(queue) : queue'[i] = queue[i]
        /\ queue'[Len(queue) + 1] = e
    BY <1>0, <1>2, AppendProperties, LenProperties
  <2>2. ~closed' => \A i \in DOMAIN queue' : ~Mark(queue'[i])
    BY <1>1, <1>2, <1>h, <2>1 DEF NoMarks
  <2>3. NoMarks'
    BY <1>h, <2>2 DEF NoMarks, Mark
  <2>4. ASSUME NEW d, UNCHANGED out, dropped \subseteq dropped', Safe(d) PROVE Safe(d)'
    <3>1. \A i \in DOMAIN queue : i \in DOMAIN queue' /\ \A j \in 1..i : queue'[j] = queue[j]
      BY <2>1
    <3>2. CASE d \in dropped \cup ToSet(out)
      BY <2>4, <3>2 DEF Safe
    <3>3. ASSUME NEW i \in DOMAIN queue, queue[i] = d, \A j \in 1..i : ~Mark(queue[j])
          PROVE  i \in DOMAIN queue' /\ queue'[i] = d /\ \A j \in 1..i : ~Mark(queue'[j])
      <4>1. i \in 1..i
        BY <2>1
      <4> QED
        BY <3>1, <3>3, <4>1
    <3>4. CASE \E i \in DOMAIN queue : queue[i] = d /\ \A j \in 1..i : ~Mark(queue[j])
      <4>1. \E i \in DOMAIN queue' : queue'[i] = d /\ \A j \in 1..i : ~Mark(queue'[j])
        BY <3>3, <3>4
      <4> QED
        BY <4>1 DEF Safe, Mark
    <3> QED
      BY <2>4, <3>2, <3>4 DEF Safe
  <2>5. ~closed' => Safe(e)'
    <3>1. Len(queue) + 1 \in DOMAIN queue' /\ \A j \in 1..Len(queue) + 1 : j \in DOMAIN queue'
      BY <2>1
    <3> QED
      BY <2>1, <2>2, <3>1 DEF Safe, Mark, Done, Failed
  <2> QED
    BY <2>3, <2>4, <2>5
<1>3. ASSUME queue # <<>>
      PROVE  /\ \A d : Safe(d) => \/ d \in dropped \cup ToSet(out) \/ (d = Head(queue) /\ ~Mark(d))
                                  \/ /\ ~Mark(Head(queue))
                                     /\ \E i \in DOMAIN Tail(queue) :
                                           Tail(queue)[i] = d /\ \A j \in 1..i : ~Mark(Tail(queue)[j])
             /\ ~closed => ~Mark(Head(queue)) /\ \A i \in DOMAIN Tail(queue) : ~Mark(Tail(queue)[i])
             /\ Tail(queue) \in Seq(Elements) /\ Head(queue) \in Elements
  <2>1. /\ Head(queue) = queue[1] /\ 1 \in DOMAIN queue /\ Head(queue) \in Elements
        /\ Tail(queue) \in Seq(Elements)
        /\ DOMAIN queue = 1..Len(queue) /\ DOMAIN Tail(queue) = 1..Len(queue) - 1 /\ Len(queue) \in Nat
        /\ \A i \in 1..Len(queue) - 1 : Tail(queue)[i] = queue[i + 1]
    BY <1>0, <1>3, HeadTail, LenProperties
  <2> DEFINE r == Tail(queue)
  <2> HIDE DEF r
  <2>2. ASSUME NEW i \in DOMAIN queue, \A j \in 1..i : ~Mark(queue[j]), i # 1
        PROVE  i - 1 \in DOMAIN r /\ r[i - 1] = queue[i] /\ (\A j \in 1..i - 1 : ~Mark(r[j])) /\ ~Mark(queue[1])
    <3>1. i \in Nat /\ i - 1 \in DOMAIN r /\ r[i - 1] = queue[i] /\ 1 \in 1..i
      BY <2>1, <2>2 DEF r
    <3>2. ASSUME NEW j \in 1..i - 1 PROVE r[j] = queue[j + 1] /\ j + 1 \in 1..i
      BY <2>1, <2>2, <3>1 DEF r
    <3> QED
      BY <2>2, <3>1, <3>2
  <2>3. ASSUME NEW d, Safe(d), d \notin dropped \cup ToSet(out), d # Head(queue) \/ Mark(d)
        PROVE  ~Mark(Head(queue)) /\ \E i \in DOMAIN r : r[i] = d /\ \A j \in 1..i : ~Mark(r[j])
    <3>1. PICK i \in DOMAIN queue : queue[i] = d /\ \A j \in 1..i : ~Mark(queue[j])
      BY <2>3 DEF Safe
    <3>2. i # 1
      <4>1. 1 \in 1..1
        OBVIOUS
      <4> QED
        BY <2>1, <2>3, <3>1, <4>1
    <3> QED
      BY <2>1, <2>2, <3>1, <3>2
  <2>4. ~closed => ~Mark(Head(queue)) /\ \A i \in DOMAIN r : ~Mark(r[i])
    BY <1>1, <2>1 DEF NoMarks, r
  <2> QED
    BY <2>1, <2>3, <2>4 DEF r
<1>4. ASSUME NEW e \in Elements, Gets(e) \/ GetsLate(e)
      PROVE  /\ NoMarks'
             /\ verdict' = "running" => \A d \in early' : Safe(d)'
             /\ verdict' \in {"end", "error"} => closed' /\ early' \ dropped' \subseteq ToSet(out')
  <2>1. /\ queue' = Append(queue, e) /\ (~closed' => ~Mark(e))
        /\ UNCHANGED <<dropped, closed, out, verdict>>
        /\ early' = early \/ (~closed /\ early' = early \cup {e})
    BY <1>4 DEF Gets, GetsLate
  <2> QED
    BY <1>1, <1>2, <2>1
<1>5. ASSUME NEW e \in Elements, Swaps(e)
      PROVE  /\ NoMarks'
             /\ verdict' = "running" => \A d \in early' : Safe(d)'
             /\ verdict' \in {"end", "error"} => closed' /\ early' \ dropped' \subseteq ToSet(out')
  <2> DEFINE r == Tail(queue)
  <2>1. /\ ~closed /\ ~Mark(e) /\ queue # <<>> /\ queue' = Append(r, e)
        /\ early' = early \cup {e} /\ dropped' = dropped \cup {Head(queue)}
        /\ UNCHANGED <<closed, out, verdict>>
    BY <1>5 DEF Swaps
  <2>2. r \in Seq(Elements) /\ \A i \in DOMAIN r : ~Mark(r[i])
    BY <1>3, <2>1
  <2>3. \A d : Safe(d) => d \in dropped' \cup ToSet(out) \/ \E i \in DOMAIN r : r[i] = d
    BY <1>3, <2>1
  <2> HIDE DEF r
  <2>4. /\ DOMAIN r = 1..Len(r) /\ DOMAIN queue' = 1..Len(r) + 1 /\ Len(r) \in Nat
        /\ \A i \in 1..Len(r) : queue'[i] = r[i]
        /\ queue'[Len(r) + 1] = e
    BY <2>1, <2>2, AppendProperties, LenProperties
  <2>5. \A i \in DOMAIN queue' : ~Mark(queue'[i]) /\ \A j \in 1..i : j \in DOMAIN queue'
    BY <2>1, <2>2, <2>4
  <2>6. NoMarks'
    BY <1>h, <2>5 DEF NoMarks, Mark
  <2>7. ASSUME NEW d \in early', verdict' = "running" PROVE Safe(d)'
    <3>1. d \in dropped' \cup ToSet(out') \/ \E i \in DOMAIN queue' : queue'[i] = d
      <4>1. CASE d = e
        BY <2>4, <4>1
      <4>2. CASE d # e
        <5>1. Safe(d)
          BY <1>1, <2>1, <2>7, <4>2
        <5> QED
          BY <2>1, <2>3, <2>4, <5>1
      <4> QED
        BY <4>1, <4>2
    <3> QED
      BY <2>5, <3>1 DEF Safe, Mark
  <2> QED
    BY <1>1, <2>1, <2>6, <2>7
<1>6. CASE Shuts \/ Quits
  <2>1. UNCHANGED <<queue, early, dropped, out>> /\ (closed => closed')
        /\ (verdict' = verdict \/ verdict' = "closed")
    BY <1>6 DEF Shuts, Quits
  <2>2. NoMarks'
    BY <1>1, <1>h, <2>1 DEF NoMarks, Mark
  <2>3. \A d : Safe(d) => Safe(d)'
    BY <2>1 DEF Safe, Mark
  <2> QED
    BY <1>1, <2>1, <2>2, <2>3
<1>7. CASE Hands \/ Ends
  <2>1. /\ queue # <<>> /\ queue' = Tail(queue) /\ verdict = "running"
        /\ UNCHANGED <<early, dropped, closed>>
        /\ \/ ~Mark(Head(queue)) /\ out' = Append(out, Head(queue)) /\ verdict' = "running"
           \/ Mark(Head(queue)) /\ verdict' \in {"end", "error"} /\ UNCHANGED out
    BY <1>7 DEF Hands, Ends
  <2>2. NoMarks'
    <3>1. ~closed' => \A i \in DOMAIN queue' : ~Mark(queue'[i])
      BY <1>3, <1>h, <2>1
    <3> QED
      BY <1>h, <3>1 DEF NoMarks, Mark
  <2>3. CASE Mark(Head(queue))
    <3>1. closed
      BY <1>3, <2>1, <2>3
    <3>2. \A d \in early : d \in dropped \cup ToSet(out)
      BY <1>1, <1>3, <2>1, <2>3
    <3> QED
      BY <2>1, <2>2, <2>3, <3>1, <3>2
  <2>4. CASE ~Mark(Head(queue))
    <3>1. out' = Append(out, Head(queue)) /\ verdict' = "running"
      BY <2>1, <2>4
    <3>2. ToSet(out') = ToSet(out) \cup {Head(queue)}
      BY <1>0, <1>3, <2>1, <3>1, SetOfAppend
    <3>3. ASSUME NEW d \in early' PROVE Safe(d)'
      <4>1. Safe(d)
        BY <1>1, <2>1, <3>3
      <4>2. \/ d \in dropped' \cup ToSet(out')
            \/ \E i \in DOMAIN queue' : queue'[i] = d /\ \A j \in 1..i : ~Mark(queue'[j])
        BY <1>3, <2>1, <3>2, <4>1
      <4> QED
        BY <4>2 DEF Safe, Mark
    <3> QED
      BY <2>2, <3>1, <3>3
  <2> QED
    BY <2>3, <2>4
<1> QED
  BY <1>1, <1>4, <1>5, <1>6, <1>7 DEF ChannelMove

\* An element accepted before complete() or fail() is ahead of the sentinel: the sender
\* is closed before the sentinel is put, and no put is counted after that. So it is read
\* before the end, or has made room for another.
THEOREM AcceptedAlwaysRead == Spec => []AcceptedIsRead
<1>1. Init => ChannelInv
  <2> SUFFICES ASSUME Init PROVE ChannelInv
    OBVIOUS
  <2>1. queue = <<>> /\ early = {} /\ verdict = "running" /\ \A t \in Tasks : pc[t] # "put"
    BY DEF Init
  <2> QED
    BY <2>1, EmptySeq DEF ChannelInv, NoMarks
<1>2. ChannelInv => AcceptedIsRead
  BY DEF ChannelInv, AcceptedIsRead, ToSet
<1> QED
  BY <1>1, <1>2, ControlInit, ControlInductive, ChannelInvInductive, PTL DEF Spec
=============================================================================
