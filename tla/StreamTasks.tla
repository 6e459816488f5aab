----------------------------- MODULE StreamTasks -----------------------------
(* The operators of core/composable_stream.py that run tasks of their own and   *)
(* hand items over on an asyncio.Queue (merge, buffer, map_async and            *)
(* flat_map_merge), and the channel whose senders are tasks of its users.       *)
EXTENDS Naturals, Sequences, FiniteSets, SequencesExt

CONSTANTS Tasks,     \* 1..T: pumps; a producer and its sub-streams or items; senders
          Loads,     \* what may be run: kind, overflow, len and fin as below
          Size,      \* of the buffer, and of the channel
          Width      \* parallelism of map_async, breadth of flat_map_merge

ASSUME Numbers ==
    /\ IsFiniteSet(Tasks) /\ Tasks = 1..Cardinality(Tasks)
    /\ Size \in Nat \ {0} /\ Width \in Nat \ {0, 1}

\* There is a task for each source: for both that merge reads, and for as many items
\* or sub-streams as the first source yields.
ASSUME Sources ==
    \A l \in Loads :
        /\ l.kind \in {"merge", "buffer", "map_async", "flat_map_merge", "channel"}
        /\ l.len \in [Tasks -> Nat] /\ l.fin \in [Tasks -> {"end", "error", "timeout"}]
        /\ 1 \in Tasks /\ (l.kind = "merge" => 2 \in Tasks)
        /\ l.kind \in {"map_async", "flat_map_merge"} => l.len[1] + 1 \in Tasks

VARIABLES
    kind,        \* "merge", "buffer", "map_async", "flat_map_merge" or "channel"
    overflow,    \* of a channel: "drop_new", "backpressure", "drop_head" or "fail"
    len, fin,    \* of each task's source: its length and how it finishes
    given,       \* the items each source has yielded, the calls a sender has made
    pc,          \* "idle", "pull", "acquire", "put", "run", "ready" or "over"
    hold,        \* what a task at "put" is putting
    queue,
    parked,      \* tasks parked in Queue.put, in the order of its deque
    cancelling,  \* tasks whose cancellation has been requested
    reader,      \* "get", "await" (map_async), "yield", "closing" or "done"
    awaited,     \* the item task the reader awaits
    finished,    \* producer_done, done_event; the sentinels merge has counted
    closed,      \* the sender is closed
    early,       \* elements accepted before it was
    dropped,     \* ... and dropped again to make room
    out, verdict

vars == <<kind, overflow, len, fin, given, pc, hold, queue, parked, cancelling, reader,
          awaited, finished, closed, early, dropped, out, verdict>>

Done   == <<0, 0>>    \* _STREAM_DONE
Failed == <<0, 1>>    \* _StreamError

Pumps == CASE kind = "merge"   -> {1, 2}
           [] kind = "channel" -> {}
           [] OTHER            -> {1}

\* The queue's maxsize; map_async's holds tasks, the channel's has a slot more.
Maxsize == CASE kind = "buffer"    -> Size
             [] kind = "map_async" -> Width
             [] kind = "channel"   -> Size + 1
             [] OTHER              -> 0

Room == Maxsize = 0 \/ Len(queue) < Maxsize

Init ==
    /\ \E l \in Loads :
          kind = l.kind /\ overflow = l.overflow /\ len = l.len /\ fin = l.fin
    /\ given = [t \in Tasks |-> 0]
    /\ pc = [t \in Tasks |-> IF t \in Pumps THEN "pull"
                             ELSE IF kind = "channel" THEN "ready" ELSE "idle"]
    /\ hold = [t \in Tasks |-> Done]
    /\ queue = <<>> /\ parked = <<>> /\ cancelling = {}
    /\ reader = "get" /\ awaited = 1 /\ finished = 0
    /\ closed = FALSE /\ early = {} /\ dropped = {}
    /\ out = <<>> /\ verdict = "running"

setup  == <<kind, overflow, len, fin>>
ending == <<reader, awaited, out, verdict, cancelling>>
sender == <<closed, early, dropped>>

(* Queue.put of a task, which looks again for room each time it is woken.      *)

AfterPut(t) ==
    IF kind = "channel" THEN "ready" ELSE IF hold[t] = Done THEN "over" ELSE "pull"

Put(t) ==
    /\ pc[t] = "put" /\ ~Contains(parked, t) /\ t \notin cancelling
    /\ IF Room
       THEN /\ queue' = Append(queue, hold[t])
            /\ pc' = [pc EXCEPT ![t] = AfterPut(t)]
            /\ early' = IF closed \/ kind # "channel" THEN early ELSE early \cup {hold[t]}
            /\ UNCHANGED parked
       ELSE parked' = Append(parked, t) /\ UNCHANGED <<queue, pc, early>>
    /\ UNCHANGED <<setup, ending, given, hold, finished, closed, dropped>>

WakeNone == UNCHANGED parked   \* a mutant
WakeNext == parked' = IF parked = <<>> THEN <<>> ELSE Tail(parked)

(* merge's _pump and buffer's _fill.                                           *)

Holds(t, e, p) == hold' = [hold EXCEPT ![t] = e] /\ pc' = [pc EXCEPT ![t] = p]

MoreOf(t) == given[t] < len[t]
Count(t) == given' = [given EXCEPT ![t] = @ + 1]

\* A source that raises ends the pump: no sentinel.
PumpEnds(t) ==
    IF fin[t] = "end" THEN Holds(t, Done, "put")
    ELSE pc' = [pc EXCEPT ![t] = "over"] /\ UNCHANGED hold

Pump(t) ==
    /\ kind \in {"merge", "buffer"} /\ pc[t] = "pull" /\ t \notin cancelling
    /\ IF MoreOf(t) THEN Count(t) /\ Holds(t, <<t, given[t] + 1>>, "put")
       ELSE PumpEnds(t) /\ UNCHANGED given
    /\ UNCHANGED <<setup, ending, sender, queue, parked, finished>>

(* map_async: the producer starts a task for each item, then puts it.          *)

Produce(t) ==
    /\ kind = "map_async" /\ pc[t] = "pull" /\ t \notin cancelling
    /\ IF MoreOf(t)
       THEN /\ Count(t)
            /\ hold' = [hold EXCEPT ![t] = <<given[t] + 2, 1>>]
            /\ pc' = [pc EXCEPT ![t] = "put", ![given[t] + 2] = "run"]
            /\ UNCHANGED finished
       ELSE /\ pc' = [pc EXCEPT ![t] = "over"]
            /\ finished' = 1
            /\ UNCHANGED <<given, hold>>
    /\ UNCHANGED <<setup, ending, sender, queue, parked>>

ItemEnds(t) ==
    /\ pc[t] = "run"
    /\ pc' = [pc EXCEPT ![t] = "over"]
    /\ UNCHANGED <<setup, ending, sender, given, hold, queue, parked, finished>>

(* flat_map_merge. Its queue has no bound and its lock is never awaited, so     *)
(* counting and the sentinel are one step with what they follow.                *)

Active == {t \in Tasks \ {1} : pc[t] = "pull"}

\* A mutant: a sub-stream that raises is not counted off.
LastSubEnding(t) == Active = {t} /\ fin[t] = "end"

LastSub(t) == Active = {t}

\* The producer has an item: it waits for a permit, then starts the sub-stream.
Acquire(t) ==
    /\ kind = "flat_map_merge" /\ t = 1 /\ pc[t] = "pull" /\ MoreOf(t) /\ t \notin cancelling
    /\ pc' = [pc EXCEPT ![t] = "acquire"]
    /\ Count(t)
    /\ UNCHANGED <<setup, ending, sender, hold, queue, parked, finished>>

NoPermit == FALSE    \* a mutant: the semaphore is not asked
Exhausted == Cardinality(Active) >= Width

StartSub(t) ==
    /\ pc[t] = "acquire" /\ ~Exhausted /\ t \notin cancelling
    /\ pc' = [pc EXCEPT ![t] = "pull", ![given[t] + 1] = "pull"]
    /\ UNCHANGED <<setup, ending, sender, given, hold, queue, parked, finished>>

ProducerEnds(t) ==
    /\ kind = "flat_map_merge" /\ t = 1 /\ pc[t] = "pull" /\ ~MoreOf(t) /\ t \notin cancelling
    /\ pc' = [pc EXCEPT ![t] = "over"]
    /\ finished' = IF fin[t] = "end" THEN 1 ELSE 0
    /\ queue' = IF fin[t] = "end" /\ Active = {} THEN Append(queue, Done) ELSE queue
    /\ UNCHANGED <<setup, ending, sender, given, hold, parked>>

\* An item of a sub-stream; its end, and its failure, which nobody looks at.
Sub(t) ==
    /\ t \in Active /\ kind = "flat_map_merge"
    /\ IF MoreOf(t)
       THEN Count(t) /\ queue' = Append(queue, <<t, given[t] + 1>>) /\ UNCHANGED pc
       ELSE /\ pc' = [pc EXCEPT ![t] = "over"]
            /\ queue' = IF LastSub(t) /\ finished = 1 THEN Append(queue, Done) ELSE queue
            /\ UNCHANGED given
    /\ UNCHANGED <<setup, ending, sender, hold, parked, finished>>

(* StreamSender.                                                               *)

Call(t) == kind = "channel" /\ pc[t] = "ready" /\ MoreOf(t) /\ Count(t)
Element(t) == <<t, given[t] + 1>>

\* offer: nothing once closed; at capacity what the overflow strategy says.
\* get_nowait and put_nowait of "drop_head" wake a parked put between them.
Offer(t) ==
    /\ Call(t)
    /\ IF closed \/ (Len(queue) >= Size /\ overflow # "drop_head")
       THEN UNCHANGED <<queue, parked, early, dropped>>
       ELSE /\ early' = early \cup {Element(t)}
            /\ IF Len(queue) < Size
               THEN queue' = Append(queue, Element(t)) /\ UNCHANGED <<parked, dropped>>
               ELSE /\ queue' = Append(Tail(queue), Element(t))
                    /\ dropped' = dropped \cup {Head(queue)}
                    /\ WakeNext
    /\ UNCHANGED <<setup, ending, pc, hold, finished, closed>>

\* put raises on a closed sender.
CallPut(t) ==
    /\ Call(t)
    /\ IF closed THEN UNCHANGED <<hold, pc>> ELSE Holds(t, Element(t), "put")
    /\ UNCHANGED <<setup, ending, sender, queue, parked, finished>>

\* complete and fail: closed before the sentinel is put.
CallClose(t) ==
    /\ Call(t) /\ ~closed
    /\ closed' = TRUE
    /\ \E e \in {Done, Failed} : Holds(t, e, "put")
    /\ UNCHANGED <<setup, ending, queue, parked, finished, early, dropped>>

(* The generator the consumer pulls.                                           *)

\* Its finally: cancel the producers and await them.
Leave(v) == verdict' = v /\ reader' = "closing" /\ cancelling' = {t \in Pumps : pc[t] # "over"}

Yield(e) == out' = Append(out, e) /\ reader' = "yield"

\* merge stops at its second sentinel.
FirstDone == TRUE    \* a mutant
LastDone == kind # "merge" \/ finished = 1

FlagEnds(e) == e = Done \/ closed    \* a mutant: the flag ends the stream
Sentinel(e) == e = Done

Take ==
    /\ reader = "get" /\ queue # <<>>
    /\ queue' = Tail(queue)
    /\ WakeNext
    /\ LET e == Head(queue)
       IN  CASE Sentinel(e) /\ LastDone -> Leave("end") /\ UNCHANGED <<out, awaited, finished>>
             [] Sentinel(e) /\ ~LastDone ->
                   finished' = 1 /\ UNCHANGED <<reader, out, verdict, cancelling, awaited>>
             [] e = Failed -> Leave("error") /\ UNCHANGED <<out, awaited, finished>>
             [] kind = "map_async" ->
                   /\ reader' = "await" /\ awaited' = e[1]
                   /\ UNCHANGED <<out, verdict, cancelling, finished>>
             [] OTHER -> Yield(e) /\ UNCHANGED <<verdict, cancelling, awaited, finished>>
    /\ UNCHANGED <<setup, sender, given, pc, hold>>

\* map_async: the loop ends when the producer has and nothing is pending, and
\* raises what the source raised.
EndsMap ==
    /\ kind = "map_async" /\ reader = "get" /\ queue = <<>> /\ finished = 1
    /\ Leave(fin[1])
    /\ UNCHANGED <<setup, sender, given, pc, hold, queue, parked, awaited, finished, out>>

\* ... a TimeoutError of the item's own is taken for the poll's.
Awaits ==
    /\ reader = "await" /\ pc[awaited] = "over"
    /\ CASE fin[awaited] = "end"   -> Yield(<<awaited, 1>>) /\ UNCHANGED <<verdict, cancelling>>
         [] fin[awaited] = "error" -> Leave("error") /\ UNCHANGED out
         [] OTHER -> reader' = "get" /\ UNCHANGED <<out, verdict, cancelling>>
    /\ UNCHANGED <<setup, sender, given, pc, hold, queue, parked, awaited, finished>>

AskNext ==
    /\ reader = "yield" /\ reader' = "get"
    /\ UNCHANGED <<setup, sender, given, pc, hold, queue, parked, awaited, finished, out,
                   verdict, cancelling>>

\* The consumer closes the generator, or is cancelled at its await, the awaited
\* item task with it.
Close ==
    /\ reader \in {"get", "yield", "await"}
    /\ Leave("closed")
    /\ pc' = IF reader = "await" THEN [pc EXCEPT ![awaited] = "over"] ELSE pc
    /\ UNCHANGED <<setup, sender, given, hold, queue, parked, awaited, finished, out>>

Dies(t) ==
    /\ t \in cancelling
    /\ cancelling' = cancelling \ {t}
    /\ pc' = [pc EXCEPT ![t] = "over"]
    /\ parked' = SelectSeq(parked, LAMBDA u : u # t)
    /\ finished' = IF kind = "map_async" THEN 1 ELSE finished
    /\ UNCHANGED <<setup, sender, given, hold, queue, reader, awaited, out, verdict>>

\* A mutant: the finally does not await what it cancelled.
ClosesAtOnce ==
    /\ reader = "closing" /\ reader' = "done"
    /\ UNCHANGED <<setup, sender, given, pc, hold, queue, parked, awaited, finished, out,
                   verdict, cancelling>>

Closes ==
    /\ reader = "closing" /\ cancelling = {}
    /\ reader' = "done"
    /\ UNCHANGED <<setup, sender, given, pc, hold, queue, parked, awaited, finished, out,
                   verdict, cancelling>>

Works(t) ==
    \/ Put(t) \/ Pump(t) \/ Produce(t) \/ ItemEnds(t) \/ Acquire(t) \/ StartSub(t)
    \/ ProducerEnds(t) \/ Sub(t) \/ Dies(t)

Sends(t) == Offer(t) \/ CallPut(t) \/ CallClose(t)

Reads == Take \/ EndsMap \/ Awaits \/ AskNext \/ Closes

Next == (\E t \in Tasks : Works(t) \/ Sends(t)) \/ Reads \/ Close

\* Sources yield and functions return in the end, and the consumer asks on.
Spec == Init /\ [][Next]_vars /\ (\A t \in Tasks : WF_vars(Works(t))) /\ WF_vars(Reads)

(* Properties.                                                                 *)

\* What a task's source has contributed to the output, and all it has.
From(t)   == {e \in ToSet(out) : e[1] = t}
Source(t) == {<<t, n>> : n \in 1..len[t]}

\* Each source's items arrive in its order, none twice and none skipped; map_async
\* yields in the order of its input; and a consumer told of the end has had
\* everything: all of merge's and buffer's sources, all of every sub-stream, every
\* item of map_async whose function did not raise TimeoutError.
DeliversInOrder ==
    /\ kind \in {"merge", "buffer", "flat_map_merge"} => \A i \in DOMAIN out :
           /\ \A j \in 1..i - 1 : out[j] # out[i]
           /\ out[i][2] # 1 => \E j \in 1..i - 1 : out[j] = <<out[i][1], out[i][2] - 1>>
    /\ kind = "map_async" =>
           \A i, j \in DOMAIN out : i < j => out[i][1] < out[j][1]
    /\ verdict = "end" =>
           CASE kind \in {"merge", "buffer"} -> \A t \in Pumps : From(t) = Source(t)
             [] kind = "flat_map_merge" -> \A t \in 2..len[1] + 1 : From(t) = Source(t)
             [] kind = "map_async" ->
                   \A t \in 2..len[1] + 1 : fin[t] = "timeout" \/ From(t) = {<<t, 1>>}
             [] OTHER -> TRUE

\* A generator that has finished or been closed has no producer left running, so
\* nothing pulls its source any more.
ProducersGone == reader = "done" => \A t \in Pumps : pc[t] = "over"

\* No more sub-streams run at a time than the breadth, and no more functions of
\* map_async than two above its parallelism: one held by the producer that waits
\* for a slot, and one by the reader.
Bounded ==
    /\ kind = "flat_map_merge" => Cardinality(Active) <= Width
    /\ kind = "map_async" => Cardinality({t \in Tasks : pc[t] = "run"}) <= Width + 2

\* An element a sender was told is accepted, before complete() or fail(), is read
\* before the end the consumer sees, or was dropped by drop_head.
AcceptedIsRead ==
    kind = "channel" /\ verdict \in {"end", "error"} =>
        early \ dropped \subseteq {out[i] : i \in DOMAIN out}

\* A stream whose sources end is finished or closed in the end, also when a
\* function or a sub-stream raises; so is a channel once its sender is closed.
Settles ==
    /\ kind # "channel" /\ (\A t \in Pumps : fin[t] = "end") => <>(reader = "done")
    /\ kind = "channel" => (closed ~> reader = "done")

\* complete() and fail() return while the channel is read.
CloserReturns ==
    \A t \in Tasks :
        (pc[t] = "put" /\ hold[t] \in {Done, Failed} /\ kind = "channel")
            ~> (pc[t] # "put" \/ verdict = "closed")
=============================================================================
