--------------------------- MODULE ActorCellProofs ---------------------------
(***************************************************************************)
(* Proofs about ActorCell for every set of callers, capacity, backend,     *)
(* policy and failure limit: the cell, then its mailbox and the callers of *)
(* tell().                                                                 *)
(***************************************************************************)
EXTENDS ActorCell, FunctionTheorems, FiniteSetTheorems, TLAPS

USE CellAssumption

Items == Messages \cup {Stop}

----------------------------------------------------------------------------
(* The mailbox as a sequence.                                              *)

LEMMA AppendElements ==
    ASSUME NEW S, NEW q \in Seq(S), NEW x \in S
    PROVE  ToSet(Append(q, x)) = ToSet(q) \cup {x}
<1>1. /\ DOMAIN Append(q, x) = 1..(Len(q) + 1)
      /\ \A i \in 1..Len(q) : Append(q, x)[i] = q[i]
      /\ Append(q, x)[Len(q) + 1] = x
  OBVIOUS
<1>2. DOMAIN q = 1..Len(q) /\ Len(q) \in Nat
  OBVIOUS
<1> QED
  BY <1>1, <1>2 DEF ToSet

LEMMA TailElements ==
    ASSUME NEW S, NEW q \in Seq(S), q # <<>>
    PROVE  /\ Tail(q) \in Seq(S)
           /\ Head(q) \in S
           /\ Len(Tail(q)) = Len(q) - 1
           /\ ToSet(q) = ToSet(Tail(q)) \cup {Head(q)}
<1>1. /\ Len(q) \in Nat \ {0}
      /\ DOMAIN q = 1..Len(q)
      /\ Len(Tail(q)) = Len(q) - 1
      /\ Tail(q) \in Seq(S)
      /\ DOMAIN Tail(q) = 1..(Len(q) - 1)
      /\ \A i \in 1..(Len(q) - 1) : Tail(q)[i] = q[i + 1]
      /\ Head(q) = q[1]
  OBVIOUS
<1>2. \A i \in DOMAIN q : q[i] = Head(q) \/ (i - 1 \in DOMAIN Tail(q) /\ q[i] = Tail(q)[i - 1])
  BY <1>1
<1>3. \A i \in DOMAIN Tail(q) : i + 1 \in DOMAIN q
  BY <1>1
<1>4. ToSet(q) \subseteq ToSet(Tail(q)) \cup {Head(q)}
  BY <1>2 DEF ToSet
<1>5. ToSet(Tail(q)) \subseteq ToSet(q)
  BY <1>1, <1>3 DEF ToSet
<1>6. Head(q) \in ToSet(q) /\ Head(q) \in S
  BY <1>1 DEF ToSet
<1> QED
  BY <1>1, <1>4, <1>5, <1>6

LEMMA EmptyElements == ToSet(<<>>) = {}
  BY DEF ToSet

LEMMA ElementsTyped ==
    ASSUME NEW S, NEW q \in Seq(S) PROVE ToSet(q) \subseteq S
  BY DEF ToSet

----------------------------------------------------------------------------
(* Type correctness.                                                       *)

Outcomes == {"none", "open", "result", "error", "full", "stopped", "cancelled"}

LEMMA WakeTyped ==
    ASSUME TypeOK, NEW k \in Nat, WakePutters(k)
    PROVE  /\ putters' \in Seq(Tells)
           /\ tell' \in [Tells -> {"new", "blocked", "woken", "returned"}]
<1> DEFINE n == IF k <= Len(putters) THEN k ELSE Len(putters)
<1>1. putters \in Seq(Tells) /\ Len(putters) \in Nat /\ n \in 0..Len(putters)
  BY DEF TypeOK
<1>2. SubSeq(putters, n + 1, Len(putters)) \in Seq(Tells)
  BY <1>1
<1> QED
  BY <1>2 DEF WakePutters, TypeOK

LEMMA ShutdownTyped ==
    ASSUME TypeOK, NEW answers \in [Asks -> Outcomes], NEW S \in SUBSET Asks,
           Shutdown(answers, S),
           policy' \in [after : SUBSET Messages, idle : BOOLEAN],
           cancel' \in BOOLEAN, failures' \in Nat
    PROVE  TypeOK'
<1>1. Len(queue) \in Nat /\ ToSet(queue) \subseteq Items
  BY ElementsTyped DEF TypeOK, Items
<1>2. WakePutters(Len(queue))
  BY DEF Shutdown
<1>3. /\ putters' \in Seq(Tells)
      /\ tell' \in [Tells -> {"new", "blocked", "woken", "returned"}]
  BY <1>1, <1>2, WakeTyped
<1>4. queue' \in Seq(Messages \cup {Stop}) /\ Len(queue') <= Capacity
  BY DEF Shutdown
<1>5. promise' \in [Asks -> Outcomes] /\ pending' \subseteq Asks
  BY DEF Shutdown, Outcomes
<1>6. dead' \subseteq Tells /\ current' = NoMsg /\ stopped' = TRUE /\ run' \in Stopping
  BY DEF Shutdown, TypeOK, Stopping
<1>7. UNCHANGED <<ask, taken, hookRan, joinCancels>>
  BY DEF Shutdown, history
<1> QED
  BY <1>3, <1>4, <1>5, <1>6, <1>7 DEF TypeOK, Outcomes

LEMMA LoopHeadTyped ==
    ASSUME TypeOK, NEW answers \in [Asks -> Outcomes], NEW S \in SUBSET Asks,
           LoopHead(answers, S),
           policy' \in [after : SUBSET Messages, idle : BOOLEAN],
           cancel' \in BOOLEAN, failures' \in Nat
    PROVE  TypeOK'
<1>1. CASE LeavesLoop
  BY <1>1, ShutdownTyped DEF LoopHead
<1>2. CASE ~LeavesLoop
  <2>1. /\ promise' = answers /\ pending' = S
        /\ UNCHANGED <<stopped, ask, dead, hookRan, joinCancels>>
    BY <1>2 DEF LoopHead
  <2>2. CASE queue = <<>>
    BY <1>2, <2>1, <2>2 DEF LoopHead, mailbox, TypeOK, Outcomes, Looping
  <2>3. CASE queue # <<>>
    <3>1. /\ run' = "handling" /\ current' = Head(queue)
          /\ taken' = taken \cup {Head(queue)} /\ queue' = Tail(queue)
          /\ WakePutters(1)
      BY <1>2, <2>3 DEF LoopHead
    <3>2. /\ Tail(queue) \in Seq(Messages \cup {Stop})
          /\ Head(queue) \in Messages \cup {Stop}
          /\ Len(Tail(queue)) = Len(queue) - 1
          /\ Len(queue) \in Nat
      BY <2>3, TailElements DEF TypeOK
    <3>3. Head(queue) \in Messages
      BY <1>2, <2>3, <3>2 DEF LeavesLoop
    <3>4. /\ putters' \in Seq(Tells)
          /\ tell' \in [Tells -> {"new", "blocked", "woken", "returned"}]
      BY <3>1, WakeTyped
    <3> QED
      BY <2>1, <3>1, <3>2, <3>3, <3>4 DEF TypeOK, Outcomes, Looping
  <2> QED
    BY <2>2, <2>3
<1> QED
  BY <1>1, <1>2

LEMMA SettleTyped ==
    ASSUME TypeOK, NEW S, NEW outcome \in Outcomes
    PROVE  Settle(S, outcome) \in [Asks -> Outcomes]
  BY DEF Settle, TypeOK, Outcomes

LEMMA TellTyped ==
    ASSUME TypeOK, NEW t \in Tells, Tell(t) PROVE TypeOK'
<1> USE DEF mailbox, askers, history
<1>1. UNCHANGED <<stopped, run, policy, cancel, askers, current, failures, history>>
  BY DEF Tell
<1>2. queue \in Seq(Items) /\ putters \in Seq(Tells) /\ Len(queue) \in Nat
  BY DEF TypeOK, Items
<1>3. CASE TellToDeadLetters(t)
  BY <1>1, <1>2, <1>3 DEF TellToDeadLetters, TypeOK
<1>4. CASE TellEnqueues(t)
  <2>1. queue' \in Seq(Messages \cup {Stop}) /\ Len(queue') <= Capacity
    <3>1. CASE Full
      <4>1. queue # <<>>
        BY <3>1 DEF Full
      <4>2. Tail(queue) \in Seq(Items) /\ Len(Tail(queue)) = Len(queue) - 1
        BY <1>2, <4>1, TailElements
      <4> QED
        BY <1>2, <1>4, <3>1, <4>2 DEF TellEnqueues, TypeOK, Items, Messages
    <3>2. CASE ~Full
      BY <1>2, <1>4, <3>2 DEF TellEnqueues, Full, TypeOK, Items, Messages
    <3> QED
      BY <3>1, <3>2
  <2> QED
    BY <1>1, <1>4, <2>1 DEF TellEnqueues, TypeOK
<1>5. CASE TellParks(t)
  BY <1>1, <1>2, <1>5 DEF TellParks, TypeOK
<1>6. CASE PutterResumes(t)
  <2>0. dead' = dead /\ tell' \in [Tells -> {"new", "blocked", "woken", "returned"}]
    BY <1>6 DEF PutterResumes, TypeOK
  <2>1. CASE Full
    <3>1. queue' = queue /\ putters' = Append(putters, t)
      BY <1>6, <2>1 DEF PutterResumes
    <3> QED
      BY <1>1, <1>2, <2>0, <3>1 DEF TypeOK
  <2>2. CASE ~Full
    <3>1. queue' = Append(queue, t) /\ putters' = putters
      BY <1>6, <2>2 DEF PutterResumes
    <3>2. queue' \in Seq(Messages \cup {Stop}) /\ Len(queue') <= Capacity
      BY <1>2, <2>2, <3>1 DEF Full, Items, Messages
    <3> QED
      BY <1>1, <1>2, <2>0, <3>1, <3>2 DEF TypeOK
  <2> QED
    BY <2>1, <2>2
<1> QED
  BY <1>3, <1>4, <1>5, <1>6 DEF Tell

LEMMA AskTyped ==
    ASSUME TypeOK, NEW a \in Asks, Ask(a) PROVE TypeOK'
<1> USE DEF mailbox, askers, history
<1>1. UNCHANGED <<stopped, run, policy, cancel, putters, tell, current, failures, dead,
                  history>>
  BY DEF Ask
<1>2. CASE AskStopped(a)
  BY <1>1, <1>2 DEF AskStopped, TypeOK
<1>3. CASE AskRejected(a)
  BY <1>1, <1>3 DEF AskRejected, TypeOK
<1>4. CASE AskEnqueues(a)
  BY <1>1, <1>4 DEF AskEnqueues, TypeOK, Full, Messages
<1>5. CASE AskDeadline(a)
  BY <1>1, <1>5 DEF AskDeadline, TypeOK
<1>6. CASE AskResumes(a)
  BY <1>1, <1>6 DEF AskResumes, TypeOK
<1> QED
  BY <1>2, <1>3, <1>4, <1>5, <1>6 DEF Ask

LEMMA TypeInductive == TypeOK /\ [Next]_vars => TypeOK'
<1> SUFFICES ASSUME TypeOK, [Next]_vars PROVE TypeOK'
  OBVIOUS
<1> USE DEF mailbox, askers, history
<1>t. /\ promise \in [Asks -> Outcomes] /\ pending \in SUBSET Asks
      /\ failures \in Nat /\ cancel \in BOOLEAN
      /\ policy \in [after : SUBSET Messages, idle : BOOLEAN]
  BY DEF TypeOK, Outcomes
<1>1. ASSUME NEW t \in Tells, Tell(t) PROVE TypeOK'
  BY <1>1, TellTyped
<1>2. ASSUME NEW a \in Asks, Ask(a) PROVE TypeOK'
  BY <1>2, AskTyped
<1>3. CASE RequestStop
  <2>1. UNCHANGED <<run, policy, putters, tell, askers, current, failures, dead, history>>
    BY <1>3 DEF RequestStop
  <2>2. stopped' \in BOOLEAN /\ cancel' \in BOOLEAN
    BY <1>3 DEF RequestStop, TypeOK
  <2>3. queue' \in Seq(Messages \cup {Stop}) /\ Len(queue') <= Capacity
    <3>1. queue' = queue \/ (~Full /\ queue' = Append(queue, Stop))
      BY <1>3 DEF RequestStop
    <3>2. queue \in Seq(Messages \cup {Stop}) /\ Len(queue) <= Capacity
      BY DEF TypeOK
    <3> QED
      BY <3>1, <3>2, CellAssumption DEF Full, Messages
  <2> QED
    BY <2>1, <2>2, <2>3 DEF TypeOK
<1>4. CASE Interrupt
  BY <1>4 DEF Interrupt, TypeOK
<1>5. CASE JoinerCancelled
  BY <1>5 DEF JoinerCancelled, TypeOK
<1>6. CASE Start
  BY <1>6 DEF Start, StartOk, StartFails, TypeOK, Starting, Looping
<1>7. CASE RunStep
  <2>1. CASE FirstStep
    BY <1>t, <2>1, LoopHeadTyped DEF FirstStep
  <2>2. CASE GetReturns
    BY <1>t, <2>2, LoopHeadTyped DEF GetReturns
  <2>3. CASE CancelledUnborn
    BY <2>3 DEF CancelledUnborn, TypeOK, Ended
  <2>4. CASE CancelledLoop
    BY <1>t, <2>4, ShutdownTyped DEF CancelledLoop
  <2>5. CASE CancelledStopping
    BY <2>5 DEF CancelledStopping, AfterCancel, TypeOK, Stopping, Ended
  <2>6. CASE MiddlewareDone
    BY <2>6 DEF MiddlewareDone, TypeOK, Stopping
  <2>7. CASE HookDone
    BY <2>7 DEF HookDone, TypeOK, Ended
  <2> QED
    BY <1>7, <2>1, <2>2, <2>3, <2>4, <2>5, <2>6, <2>7 DEF RunStep
<1>8. CASE HandlerReturns
  <2> DEFINE answers == Settle({current}, "result")
             left == pending \ {current}
  <2>1. answers \in [Asks -> Outcomes] /\ left \in SUBSET Asks /\ failures' \in Nat
    BY <1>t, <1>8, SettleTyped DEF Outcomes, HandlerReturns
  <2>2. UNCHANGED <<policy, cancel>> /\ (Shutdown(answers, left) \/ LoopHead(answers, left))
    BY <1>8 DEF HandlerReturns
  <2> HIDE DEF answers, left
  <2> QED
    BY <1>t, <2>1, <2>2, ShutdownTyped, LoopHeadTyped
<1>9. CASE HandlerRaises
  <2> DEFINE answers == Settle({current}, "error")
             left == pending \ {current}
  <2>1. answers \in [Asks -> Outcomes] /\ left \in SUBSET Asks /\ failures' \in Nat
    BY <1>t, <1>9, SettleTyped DEF Outcomes, HandlerRaises
  <2>2. UNCHANGED <<policy, cancel>> /\ (Shutdown(answers, left) \/ LoopHead(answers, left))
    BY <1>9 DEF HandlerRaises
  <2> HIDE DEF answers, left
  <2> QED
    BY <1>t, <2>1, <2>2, ShutdownTyped, LoopHeadTyped
<1>10. CASE IdleTimeout
  BY <1>10 DEF IdleTimeout, TypeOK
<1>11. CASE UNCHANGED vars
  BY <1>11 DEF vars, TypeOK
<1> QED
  BY <1>1, <1>2, <1>3, <1>4, <1>5, <1>6, <1>7, <1>8, <1>9, <1>10, <1>11
     DEF Next, Handler

\* Every variable keeps its type, the mailbox its capacity and the joiner's
\* cancellations their bound.
THEOREM TypeCorrect == Spec => []TypeOK
<1>1. Init => TypeOK
  <2> SUFFICES ASSUME Init PROVE TypeOK
    OBVIOUS
  <2>1. queue \in Seq(Messages \cup {Stop}) /\ Len(queue) <= Capacity /\ putters \in Seq(Tells)
    BY DEF Init
  <2>2. policy \in [after : SUBSET Messages, idle : BOOLEAN]
    BY DEF Init, NoPolicy
  <2>3. joinCancels \in 0..MaxJoinCancels /\ failures \in Nat
    BY DEF Init
  <2> QED
    BY <2>1, <2>2, <2>3 DEF Init, TypeOK, Starting
<1> QED
  BY <1>1, TypeInductive, PTL DEF Spec

----------------------------------------------------------------------------
(* The inductive invariant about asks.                                     *)

Closed == run \in Stopping \cup {"done"}

\* A question in the mailbox has not reached the handler, and nobody has settled it.
QueuedUnsettled ==
    \A a \in Asks : a \in InQueue => a \notin taken /\ promise[a] \in {"open", "cancelled"}

\* A question is in the mailbox at most once.
NoRepeat ==
    \A i, j \in DOMAIN queue : queue[i] = queue[j] /\ queue[i] \in Asks => i = j

\* A question that reached the handler was not refused.
TakenSubmitted ==
    \A a \in Asks : a \in taken => promise[a] \in {"open", "cancelled", "result", "error"}

\* The asker's own progress and its future go together.
AskerInStep ==
    \A a \in Asks : /\ ask[a] = "new" => promise[a] = "none"
                    /\ ask[a] = "waiting" => promise[a] # "none"

\* Only a handling task has a message at hand, and it has been taken.
CurrentTaken ==
    /\ run # "handling" => current = NoMsg
    /\ current # NoMsg => current \in taken

\* The drain leaves no question behind, and none comes after it.
ClosedDrained == Closed => stopped /\ \A a \in Asks : a \notin InQueue

AskInv ==
    /\ AskHeld
    /\ QueuedUnsettled
    /\ NoRepeat
    /\ TakenSubmitted
    /\ AskerInStep
    /\ CurrentTaken
    /\ ClosedDrained

\* What the end of a turn does to the promises and the registry: nothing, or one
\* reply to the message at hand.
Replies(answers, S) ==
    \/ answers = promise /\ S = pending
    \/ /\ \E o \in {"result", "error"} : answers = Settle({current}, o)
       /\ S = pending \ {current}

LEMMA RepliesFacts ==
    ASSUME TypeOK, AskHeld, NEW answers, NEW S, Replies(answers, S)
    PROVE  /\ answers \in [Asks -> Outcomes]
           /\ S \in SUBSET Asks
           /\ \A a \in Asks : a # current => answers[a] = promise[a] /\ (a \in S <=> a \in pending)
           /\ \A a \in Asks : \/ answers[a] = promise[a]
                              \/ promise[a] = "open" /\ answers[a] \in {"result", "error"}
           /\ \A a \in Asks : answers[a] = "open" => a \in S
<1>1. CASE answers = promise /\ S = pending
  BY <1>1 DEF TypeOK, Outcomes, AskHeld
<1>2. CASE /\ \E o \in {"result", "error"} : answers = Settle({current}, o)
           /\ S = pending \ {current}
  <2>1. PICK o \in {"result", "error"} : answers = Settle({current}, o)
    BY <1>2
  <2>2. answers = [a \in Asks |-> IF a = current /\ a \in pending /\ promise[a] = "open"
                                  THEN o ELSE promise[a]]
    BY <2>1 DEF Settle
  <2>3. \A a \in Asks : promise[a] = "open" => a \in pending
    BY DEF AskHeld
  <2> QED
    BY <1>2, <2>2, <2>3 DEF TypeOK, Outcomes
<1> QED
  BY <1>1, <1>2 DEF Replies

LEMMA ShutdownAskInv ==
    ASSUME TypeOK, AskInv, NEW answers, NEW S, Replies(answers, S), Shutdown(answers, S)
    PROVE  AskInv'
<1>1. /\ answers \in [Asks -> Outcomes]
      /\ \A a \in Asks : a # current => answers[a] = promise[a] /\ (a \in S <=> a \in pending)
      /\ \A a \in Asks : \/ answers[a] = promise[a]
                         \/ promise[a] = "open" /\ answers[a] \in {"result", "error"}
      /\ S \in SUBSET Asks
      /\ \A a \in Asks : answers[a] = "open" => a \in S
  BY RepliesFacts DEF AskInv
<1>2. /\ stopped' = TRUE /\ queue' = <<>> /\ current' = NoMsg /\ run' \in Stopping
      /\ promise' = [a \in Asks |-> IF a \in InQueue \cap S /\ answers[a] = "open"
                                    THEN "stopped" ELSE answers[a]]
      /\ pending' = S \ InQueue
      /\ UNCHANGED <<ask, taken>>
  BY DEF Shutdown, InQueue, history, Stopping
<1>3. InQueue' = {}
  BY <1>2, EmptyElements DEF InQueue
<1>4. AskHeld'
  <2> SUFFICES ASSUME NEW a \in Asks, promise'[a] = "open"
               PROVE  ask'[a] = "waiting" /\ a \in pending' /\ a \in taken' /\ stopped'
    BY DEF AskHeld
  <2>1. answers[a] = "open" /\ a \notin InQueue \cap S
    BY <1>1, <1>2
  <2>2. promise[a] = "open"
    BY <1>1, <2>1
  <2>3. ask[a] = "waiting" /\ a \in pending
    BY <2>2 DEF AskInv, AskHeld
  <2>4. a \in S
    BY <1>1, <2>1
  <2>5. a \in taken
    BY <2>1, <2>2, <2>4, CellAssumption DEF AskInv, AskHeld, CurrentTaken, Messages
  <2> QED
    BY <1>2, <2>1, <2>3, <2>4, <2>5
<1>5. QueuedUnsettled' /\ ClosedDrained'
  BY <1>2, <1>3 DEF QueuedUnsettled, ClosedDrained
<1>6. NoRepeat'
  BY <1>2 DEF NoRepeat
<1>7. TakenSubmitted'
  <2> SUFFICES ASSUME NEW a \in Asks, a \in taken
               PROVE  promise'[a] \in {"open", "cancelled", "result", "error"}
    BY <1>2 DEF TakenSubmitted
  <2>1. a \notin InQueue /\ promise[a] \in {"open", "cancelled", "result", "error"}
    BY DEF AskInv, QueuedUnsettled, TakenSubmitted
  <2> QED
    BY <1>1, <1>2, <2>1
<1>8. AskerInStep'
  BY <1>1, <1>2 DEF AskInv, AskerInStep
<1>9. CurrentTaken'
  BY <1>2 DEF CurrentTaken
<1> QED
  BY <1>4, <1>5, <1>6, <1>7, <1>8, <1>9 DEF AskInv

LEMMA LoopHeadAskInv ==
    ASSUME TypeOK, AskInv, NEW answers, NEW S, Replies(answers, S),
           \A a \in Asks : a = current => answers[a] # "open",
           ~Closed, LoopHead(answers, S)
    PROVE  AskInv'
<1>1. CASE LeavesLoop
  BY <1>1, ShutdownAskInv DEF LoopHead
<1>2. CASE ~LeavesLoop
  <2>1. /\ promise' = answers /\ pending' = S /\ run' \in {"idle", "handling"}
        /\ UNCHANGED <<stopped, ask>>
    BY <1>2 DEF LoopHead
  <2>2. /\ answers \in [Asks -> Outcomes]
        /\ \A a \in Asks : a # current => answers[a] = promise[a] /\ (a \in S <=> a \in pending)
        /\ \A a \in Asks : \/ answers[a] = promise[a]
                           \/ promise[a] = "open" /\ answers[a] \in {"result", "error"}
    BY RepliesFacts DEF AskInv
  <2>3. \A a \in Asks : answers[a] = "open" => a # current
    OBVIOUS
  <2>4. ~Closed'
    BY <2>1 DEF Closed, Stopping
  <2>5. AskerInStep'
    BY <2>1, <2>2 DEF AskInv, AskerInStep
  <2>6. CASE queue = <<>>
    <3>1. /\ run' = "idle" /\ current' = NoMsg /\ UNCHANGED <<queue, taken>>
      BY <1>2, <2>6 DEF LoopHead, mailbox
    <3>2. InQueue' = InQueue /\ InQueue = {}
      BY <2>6, <3>1, EmptyElements DEF InQueue
    <3>3. AskHeld'
      BY <2>1, <2>2, <2>3, <3>1, <3>2 DEF AskInv, AskHeld
    <3>4. QueuedUnsettled' /\ NoRepeat' /\ CurrentTaken' /\ ClosedDrained'
      BY <2>4, <2>6, <3>1, <3>2
         DEF AskInv, QueuedUnsettled, NoRepeat, CurrentTaken, ClosedDrained
    <3>5. TakenSubmitted'
      BY <2>1, <2>2, <3>1 DEF AskInv, TakenSubmitted
    <3> QED
      BY <2>5, <3>3, <3>4, <3>5 DEF AskInv
  <2>7. CASE queue # <<>>
    <3>1. /\ run' = "handling" /\ current' = Head(queue)
          /\ taken' = taken \cup {Head(queue)} /\ queue' = Tail(queue)
      BY <1>2, <2>7 DEF LoopHead
    <3>2. queue \in Seq(Messages \cup {Stop})
      BY DEF TypeOK
    <3>3. /\ Tail(queue) \in Seq(Messages \cup {Stop})
          /\ Len(Tail(queue)) = Len(queue) - 1
          /\ InQueue = InQueue' \cup {Head(queue)}
      BY <2>7, <3>1, <3>2, TailElements DEF InQueue
    <3>4. /\ Len(queue) \in Nat \ {0}
          /\ DOMAIN queue = 1..Len(queue)
          /\ DOMAIN Tail(queue) = 1..(Len(queue) - 1)
          /\ \A i \in 1..(Len(queue) - 1) : Tail(queue)[i] = queue[i + 1]
          /\ Head(queue) = queue[1]
      BY <2>7, <3>2
    <3>5. NoRepeat'
      BY <3>1, <3>4 DEF AskInv, NoRepeat
    <3>6. Head(queue) \in Asks => Head(queue) \notin InQueue'
      <4> SUFFICES ASSUME Head(queue) \in Asks, NEW i \in DOMAIN Tail(queue),
                          Tail(queue)[i] = Head(queue)
                   PROVE  FALSE
        BY <3>1 DEF InQueue, ToSet
      <4>1. i + 1 \in DOMAIN queue /\ 1 \in DOMAIN queue /\ queue[i + 1] = queue[1] /\ i + 1 # 1
        BY <3>4
      <4> QED
        BY <3>4, <4>1 DEF AskInv, NoRepeat
    <3>7. QueuedUnsettled'
      <4> SUFFICES ASSUME NEW a \in Asks, a \in InQueue'
                   PROVE  a \notin taken' /\ promise'[a] \in {"open", "cancelled"}
        BY DEF QueuedUnsettled
      <4>1. a \in InQueue /\ a # Head(queue)
        BY <3>3, <3>6
      <4>2. a \notin taken /\ promise[a] \in {"open", "cancelled"}
        BY <4>1 DEF AskInv, QueuedUnsettled
      <4>3. a # current
        BY <4>2, CellAssumption DEF AskInv, CurrentTaken, Messages
      <4> QED
        BY <2>1, <2>2, <3>1, <4>1, <4>2, <4>3
    <3>8. AskHeld'
      <4> SUFFICES ASSUME NEW a \in Asks, promise'[a] = "open"
                   PROVE  /\ ask'[a] = "waiting" /\ a \in pending'
                          /\ a \in InQueue' \/ current' = a \/ (a \in taken' /\ stopped')
        BY DEF AskHeld
      <4>1. promise[a] = "open" /\ a # current
        BY <2>1, <2>2, <2>3
      <4>2. /\ ask[a] = "waiting" /\ a \in pending
            /\ a \in InQueue \/ (a \in taken /\ stopped)
        BY <4>1 DEF AskInv, AskHeld
      <4> QED
        BY <2>1, <2>2, <3>1, <3>3, <4>1, <4>2
    <3>9. TakenSubmitted'
      <4> SUFFICES ASSUME NEW a \in Asks, a \in taken'
                   PROVE  promise'[a] \in {"open", "cancelled", "result", "error"}
        BY DEF TakenSubmitted
      <4>1. Head(queue) \in InQueue
        BY <3>3
      <4>2. promise[a] \in {"open", "cancelled", "result", "error"}
        BY <3>1, <4>1 DEF AskInv, QueuedUnsettled, TakenSubmitted
      <4> QED
        BY <2>1, <2>2, <4>2
    <3>10. CurrentTaken' /\ ClosedDrained'
      BY <2>4, <3>1 DEF CurrentTaken, ClosedDrained
    <3> QED
      BY <2>5, <3>5, <3>7, <3>8, <3>9, <3>10 DEF AskInv
  <2> QED
    BY <2>6, <2>7
<1> QED
  BY <1>1, <1>2

\* A tell only adds tells to the mailbox; a mailbox that evicts is left out, as it
\* may push a question out (FastMailbox with the "block" policy).
LEMMA TellAskInv ==
    ASSUME ~Evicts, TypeOK, AskInv, NEW t \in Tells, Tell(t) PROVE AskInv'
<1>1. /\ UNCHANGED <<stopped, run, ask, promise, pending, current, taken>>
      /\ queue' = queue \/ queue' = Append(queue, t)
  BY DEF Tell, TellToDeadLetters, TellEnqueues, TellParks, PutterResumes, mailbox, askers,
         history
<1>2. t \notin Asks /\ t \in Messages \cup {Stop} /\ queue \in Seq(Messages \cup {Stop})
  BY CellAssumption DEF TypeOK, Messages
<1>3. InQueue' = InQueue \/ InQueue' = InQueue \cup {t}
  <2>1. ToSet(Append(queue, t)) = ToSet(queue) \cup {t}
    BY <1>2, AppendElements
  <2> QED
    BY <1>1, <2>1 DEF InQueue
<1>4. AskHeld' /\ QueuedUnsettled' /\ ClosedDrained'
  BY <1>1, <1>2, <1>3
     DEF AskInv, AskHeld, QueuedUnsettled, ClosedDrained, Closed
<1>5. NoRepeat'
  <2>1. CASE queue' = queue
    BY <2>1 DEF AskInv, NoRepeat
  <2>2. CASE queue' = Append(queue, t)
    <3>1. /\ DOMAIN queue = 1..Len(queue) /\ Len(queue) \in Nat
          /\ DOMAIN queue' = 1..(Len(queue) + 1)
          /\ \A i \in 1..Len(queue) : queue'[i] = queue[i]
          /\ queue'[Len(queue) + 1] = t
      BY <1>2, <2>2
    <3> QED
      BY <1>2, <3>1 DEF AskInv, NoRepeat
  <2> QED
    BY <1>1, <2>1, <2>2
<1>6. TakenSubmitted' /\ AskerInStep' /\ CurrentTaken'
  BY <1>1 DEF AskInv, TakenSubmitted, AskerInStep, CurrentTaken
<1> QED
  BY <1>4, <1>5, <1>6 DEF AskInv

LEMMA AskAskInv ==
    ASSUME TypeOK, AskInv, NEW a \in Asks, Ask(a) PROVE AskInv'
<1> USE DEF AskHeld, QueuedUnsettled, NoRepeat, TakenSubmitted, AskerInStep, CurrentTaken,
            ClosedDrained, Closed
<1>1. UNCHANGED <<stopped, run, current, taken>>
  BY DEF Ask, history
<1>2. CASE AskStopped(a) \/ AskRejected(a) \/ AskDeadline(a) \/ AskResumes(a)
  <2>1. queue' = queue /\ InQueue' = InQueue
    BY <1>2 DEF AskStopped, AskRejected, AskDeadline, AskResumes, InQueue
  <2>2. a \in InQueue => promise[a] # "none"
    BY DEF AskInv
  <2>3. CASE AskStopped(a)
    BY <1>1, <2>1, <2>3 DEF AskInv, AskStopped, TypeOK
  <2>4. CASE AskRejected(a)
    BY <1>1, <2>1, <2>2, <2>4 DEF AskInv, AskRejected, TypeOK
  <2>5. CASE AskDeadline(a)
    BY <1>1, <2>1, <2>5 DEF AskInv, AskDeadline, TypeOK
  <2>6. CASE AskResumes(a)
    BY <1>1, <2>1, <2>6 DEF AskInv, AskResumes, TypeOK
  <2> QED
    BY <1>2, <2>3, <2>4, <2>5, <2>6
<1>3. CASE AskEnqueues(a)
  <2>1. /\ ask[a] = "new" /\ promise[a] = "none" /\ ~stopped
        /\ queue' = Append(queue, a)
        /\ ask' = [ask EXCEPT ![a] = "waiting"]
        /\ promise' = [promise EXCEPT ![a] = "open"]
        /\ pending' = pending \cup {a}
    BY <1>3 DEF AskEnqueues, AskInv
  <2>2. queue \in Seq(Messages \cup {Stop}) /\ a \in Messages \cup {Stop}
    BY DEF TypeOK, Messages
  <2>3. InQueue' = InQueue \cup {a}
    BY <2>1, <2>2, AppendElements DEF InQueue
  <2>4. a \notin InQueue /\ a \notin taken
    BY <2>1 DEF AskInv
  <2>5. NoRepeat'
    <3>1. /\ DOMAIN queue = 1..Len(queue) /\ Len(queue) \in Nat
          /\ DOMAIN queue' = 1..(Len(queue) + 1)
          /\ \A i \in 1..Len(queue) : queue'[i] = queue[i]
          /\ queue'[Len(queue) + 1] = a
      BY <2>1, <2>2
    <3>2. \A i \in 1..Len(queue) : queue[i] # a
      BY <2>4, <3>1 DEF InQueue, ToSet
    <3> QED
      BY <3>1, <3>2 DEF AskInv
  <2>6. AskHeld' /\ AskerInStep'
    BY <1>1, <2>1, <2>3 DEF AskInv, TypeOK
  <2>7. QueuedUnsettled' /\ TakenSubmitted'
    BY <1>1, <2>1, <2>3, <2>4 DEF AskInv, TypeOK
  <2>8. CurrentTaken' /\ ClosedDrained'
    BY <1>1, <2>1 DEF AskInv
  <2> QED
    BY <2>5, <2>6, <2>7, <2>8 DEF AskInv
<1> QED
  BY <1>2, <1>3 DEF Ask

LEMMA RequestStopAskInv ==
    ASSUME TypeOK, AskInv, RequestStop PROVE AskInv'
<1>1. /\ UNCHANGED <<run, ask, promise, pending, current, taken>>
      /\ queue' = queue \/ queue' = Append(queue, Stop)
      /\ stopped => stopped'
  BY DEF RequestStop, askers, history
<1>2. Stop \notin Asks /\ Stop \in Messages \cup {Stop} /\ queue \in Seq(Messages \cup {Stop})
  BY CellAssumption DEF TypeOK, Messages
<1>3. InQueue' = InQueue \/ InQueue' = InQueue \cup {Stop}
  <2>1. ToSet(Append(queue, Stop)) = ToSet(queue) \cup {Stop}
    BY <1>2, AppendElements
  <2> QED
    BY <1>1, <2>1 DEF InQueue
<1>4. AskHeld' /\ QueuedUnsettled' /\ ClosedDrained'
  BY <1>1, <1>2, <1>3
     DEF AskInv, AskHeld, QueuedUnsettled, ClosedDrained, Closed
<1>5. NoRepeat'
  <2>1. CASE queue' = queue
    BY <2>1 DEF AskInv, NoRepeat
  <2>2. CASE queue' = Append(queue, Stop)
    <3>1. /\ DOMAIN queue = 1..Len(queue) /\ Len(queue) \in Nat
          /\ DOMAIN queue' = 1..(Len(queue) + 1)
          /\ \A i \in 1..Len(queue) : queue'[i] = queue[i]
          /\ queue'[Len(queue) + 1] = Stop
      BY <1>2, <2>2
    <3> QED
      BY <1>2, <3>1 DEF AskInv, NoRepeat
  <2> QED
    BY <1>1, <2>1, <2>2
<1>6. TakenSubmitted' /\ AskerInStep' /\ CurrentTaken'
  BY <1>1 DEF AskInv, TakenSubmitted, AskerInStep, CurrentTaken
<1> QED
  BY <1>4, <1>5, <1>6 DEF AskInv

\* The steps that move only the run task's own position.
LEMMA PositionAskInv ==
    ASSUME TypeOK, AskInv,
           UNCHANGED <<stopped, queue, ask, promise, pending, current, taken>>,
           run' = "handling" <=> run = "handling",
           Closed' <=> Closed
    PROVE  AskInv'
<1>1. InQueue' = InQueue
  BY DEF InQueue
<1> QED
  BY <1>1 DEF AskInv, AskHeld, QueuedUnsettled, NoRepeat, TakenSubmitted, AskerInStep,
              CurrentTaken, ClosedDrained

LEMMA AskInvInductive == ASSUME ~Evicts PROVE TypeOK /\ AskInv /\ [Next]_vars => AskInv'
<1> SUFFICES ASSUME TypeOK, AskInv, [Next]_vars PROVE AskInv'
  OBVIOUS
<1> USE DEF mailbox, askers, history
<1>0. (\A a \in Asks : a # NoMsg) /\ (run # "handling" => current = NoMsg)
  BY CellAssumption DEF AskInv, CurrentTaken, Messages
<1>1. ASSUME NEW t \in Tells, Tell(t) PROVE AskInv'
  BY <1>1, TellAskInv
<1>2. ASSUME NEW a \in Asks, Ask(a) PROVE AskInv'
  BY <1>2, AskAskInv
<1>3. CASE RequestStop
  BY <1>3, RequestStopAskInv
<1>4. CASE Interrupt
  BY <1>4, PositionAskInv DEF Interrupt, Closed
<1>5. CASE JoinerCancelled
  BY <1>5, PositionAskInv DEF JoinerCancelled, Closed
<1>6. CASE Start
  BY <1>6, PositionAskInv DEF Start, StartOk, StartFails, Closed, Stopping
<1>7. CASE RunStep
  <2>1. CASE FirstStep
    <3>1. /\ LoopHead(promise, pending) /\ ~Closed
          /\ \A a \in Asks : a = current => promise[a] # "open"
      BY <1>0, <2>1 DEF FirstStep, Closed, Stopping
    <3>2. Replies(promise, pending)
      BY DEF Replies
    <3> QED
      BY <3>1, <3>2, LoopHeadAskInv
  <2>2. CASE GetReturns
    <3>1. /\ LoopHead(promise, pending) /\ ~Closed
          /\ \A a \in Asks : a = current => promise[a] # "open"
      BY <1>0, <2>2 DEF GetReturns, Closed, Stopping
    <3>2. Replies(promise, pending)
      BY DEF Replies
    <3> QED
      BY <3>1, <3>2, LoopHeadAskInv
  <2>3. CASE CancelledUnborn
    BY <2>3, PositionAskInv DEF CancelledUnborn, Closed, Stopping
  <2>4. CASE CancelledLoop
    BY <2>4, ShutdownAskInv DEF CancelledLoop, Replies
  <2>5. CASE CancelledStopping
    BY <2>5, PositionAskInv DEF CancelledStopping, AfterCancel, Closed, Stopping
  <2>6. CASE MiddlewareDone
    BY <2>6, PositionAskInv DEF MiddlewareDone, Closed, Stopping
  <2>7. CASE HookDone
    BY <2>7, PositionAskInv DEF HookDone, Closed, Stopping
  <2> QED
    BY <1>7, <2>1, <2>2, <2>3, <2>4, <2>5, <2>6, <2>7 DEF RunStep
<1>8. CASE Handler
  <2>1. PICK o \in {"result", "error"} :
           \/ Shutdown(Settle({current}, o), pending \ {current})
           \/ LoopHead(Settle({current}, o), pending \ {current})
    BY <1>8 DEF Handler, HandlerReturns, HandlerRaises
  <2> DEFINE answers == Settle({current}, o)
             left == pending \ {current}
  <2>2. Replies(answers, left) /\ ~Closed
    BY <1>8 DEF Replies, Handler, HandlerReturns, HandlerRaises, Closed, Stopping
  <2>3. \A a \in Asks : a = current => answers[a] # "open"
    BY DEF Settle, AskInv, AskHeld
  <2> QED
    BY <2>1, <2>2, <2>3, ShutdownAskInv, LoopHeadAskInv
<1>9. CASE IdleTimeout
  BY <1>9, PositionAskInv DEF IdleTimeout, Closed
<1>10. CASE UNCHANGED vars
  BY <1>10, PositionAskInv DEF vars, Closed
<1> QED
  BY <1>1, <1>2, <1>3, <1>4, <1>5, <1>6, <1>7, <1>8, <1>9, <1>10 DEF Next

----------------------------------------------------------------------------
(* The cell keeps the contract with its askers.                            *)

\* The contract's variables, read off the cell.
Status  == [a \in Asks |-> View(a)]
Serving == IF current \in Asks THEN current ELSE NoMsg
Served  == taken \cap Asks

LEMMA ViewFacts ==
    ASSUME TypeOK, NEW a \in Asks
    PROVE  /\ promise[a] \in {"result", "error"} => View(a) = "answered"
           /\ promise[a] \in {"full", "stopped"} => View(a) = "refused"
           /\ promise[a] = "cancelled" => View(a) = "expired"
           /\ promise[a] = "open" => View(a) = "open"
           /\ promise[a] = "none" /\ ask[a] = "done" => View(a) = "refused"
           /\ promise[a] = "none" /\ ask[a] # "done" => View(a) = "idle"
           /\ View(a) = "open" => promise[a] = "open"
<1>1. promise[a] \in Outcomes
  BY DEF TypeOK, Outcomes
<1> QED
  BY <1>1 DEF View, Outcomes

\* A step that leaves the askers, the handler and the end of the cell alone.
LEMMA ContractStutter ==
    ASSUME UNCHANGED <<ask, promise, current, taken>>, Closed' <=> Closed
    PROVE  UNCHANGED Contract!vars
<1>1. Closed' = Closed
  BY DEF Closed
<1> QED
  BY <1>1 DEF Contract!vars, View, Closed

LEMMA AskRefines ==
    ASSUME TypeOK, TypeOK', AskInv, NEW a \in Asks, Ask(a)
    PROVE  [Contract!Next]_(Contract!vars)
<1>1. /\ UNCHANGED <<run, stopped, current, taken>>
      /\ Serving' = Serving /\ Served' = Served /\ Closed' = Closed
  BY DEF Ask, history, Serving, Served, Closed
<1>2. \A b \in Asks : b # a /\ ask'[b] = ask[b] /\ promise'[b] = promise[b] => View(b)' = View(b)
  BY DEF View
<1>3. CASE AskStopped(a)
  <2>1. Status' = [Status EXCEPT ![a] = "refused"] /\ Status[a] = "idle"
    <3>1. promise[a] = "none" /\ promise' = promise /\ ask' = [ask EXCEPT ![a] = "done"]
      BY <1>3 DEF AskStopped, AskInv, AskerInStep
    <3>2. View(a)' = "refused"
      BY <3>1 DEF View, TypeOK
    <3>3. View(a) = "idle"
      BY <1>3, <3>1, ViewFacts DEF AskStopped
    <3>4. \A b \in Asks : b # a => View(b)' = View(b)
      BY <1>2, <3>1 DEF TypeOK
    <3> QED
      BY <3>2, <3>3, <3>4 DEF Status
  <2> QED
    BY <1>1, <2>1 DEF Contract!Next, Contract!Refuse, Status, Serving, Served, Closed
<1>4. CASE AskRejected(a)
  <2>1. Status' = [Status EXCEPT ![a] = "refused"] /\ Status[a] = "idle"
    <3>1. promise[a] = "none" /\ promise' = [promise EXCEPT ![a] = "full"]
          /\ ask' = [ask EXCEPT ![a] = "done"]
      BY <1>4 DEF AskRejected, AskInv, AskerInStep
    <3>2. View(a)' = "refused"
      BY <3>1 DEF View, TypeOK
    <3>3. View(a) = "idle"
      BY <1>4, <3>1, ViewFacts DEF AskRejected
    <3>4. \A b \in Asks : b # a => View(b)' = View(b)
      BY <1>2, <3>1 DEF TypeOK
    <3> QED
      BY <3>2, <3>3, <3>4 DEF Status
  <2> QED
    BY <1>1, <2>1 DEF Contract!Next, Contract!Refuse, Status, Serving, Served, Closed
<1>5. CASE AskEnqueues(a)
  <2>1. Status' = [Status EXCEPT ![a] = "open"] /\ Status[a] = "idle"
    <3>1. promise[a] = "none" /\ promise' = [promise EXCEPT ![a] = "open"]
          /\ ask' = [ask EXCEPT ![a] = "waiting"]
      BY <1>5 DEF AskEnqueues, AskInv, AskerInStep
    <3>2. View(a)' = "open"
      BY <3>1 DEF View, TypeOK
    <3>3. View(a) = "idle"
      BY <1>5, <3>1, ViewFacts DEF AskEnqueues
    <3>4. \A b \in Asks : b # a => View(b)' = View(b)
      BY <1>2, <3>1 DEF TypeOK
    <3> QED
      BY <3>2, <3>3, <3>4 DEF Status
  <2>2. ~Closed
    BY <1>5 DEF AskEnqueues, AskInv, ClosedDrained
  <2> QED
    BY <1>1, <2>1, <2>2 DEF Contract!Next, Contract!Open, Status, Serving, Served, Closed
<1>6. CASE AskDeadline(a)
  <2>1. Status' = [Status EXCEPT ![a] = "expired"] /\ Status[a] = "open"
    <3>1. promise[a] = "open" /\ promise' = [promise EXCEPT ![a] = "cancelled"] /\ ask' = ask
      BY <1>6 DEF AskDeadline
    <3>2. View(a)' = "expired"
      BY <3>1 DEF View, TypeOK
    <3>3. View(a) = "open"
      BY <1>6, <3>1, ViewFacts DEF AskDeadline
    <3>4. \A b \in Asks : b # a => View(b)' = View(b)
      BY <1>2, <3>1 DEF TypeOK
    <3> QED
      BY <3>2, <3>3, <3>4 DEF Status
  <2> QED
    BY <1>1, <2>1 DEF Contract!Next, Contract!Expire, Status, Serving, Served, Closed
<1>7. CASE AskResumes(a)
  <2>1. Status' = Status
    <3>1. promise[a] # "none" /\ promise' = promise /\ ask' = [ask EXCEPT ![a] = "done"]
      BY <1>7 DEF AskResumes, AskInv, AskerInStep
    <3>2. View(a)' = View(a)
      BY <3>1 DEF View, TypeOK
    <3> QED
      BY <1>2, <3>1, <3>2 DEF Status, TypeOK
  <2> QED
    BY <1>1, <2>1 DEF Contract!vars, Status, Serving, Served, Closed
<1> QED
  BY <1>3, <1>4, <1>5, <1>6, <1>7 DEF Ask

LEMMA ShutdownRefines ==
    ASSUME TypeOK, AskInv, NEW answers, NEW S, Replies(answers, S), Shutdown(answers, S),
           ~Closed
    PROVE  Contract!Next
<1>1. /\ answers \in [Asks -> Outcomes]
      /\ \A a \in Asks : a # current => answers[a] = promise[a]
      /\ \A a \in Asks : answers[a] = "open" => a \in S
      /\ \A a \in Asks : \/ answers[a] = promise[a]
                         \/ promise[a] = "open" /\ answers[a] \in {"result", "error"}
  BY RepliesFacts DEF AskInv
<1>2. /\ current' = NoMsg /\ run' \in Stopping /\ UNCHANGED <<ask, taken>>
      /\ promise' = [a \in Asks |-> IF a \in InQueue \cap S /\ answers[a] = "open"
                                    THEN "stopped" ELSE answers[a]]
  BY DEF Shutdown, InQueue, history, Stopping
<1>3. Serving' = NoMsg /\ Served' = Served /\ Closed' = TRUE /\ Closed = FALSE
  BY <1>2, CellAssumption DEF Serving, Served, Closed, Messages
<1>4. \A a \in Asks : promise[a] = "open" /\ a \notin taken => a \in InQueue
  BY CellAssumption DEF AskInv, AskHeld, CurrentTaken, Messages
<1>5. \A a \in Asks : a \in InQueue => a \notin taken
  BY DEF AskInv, QueuedUnsettled
<1> DEFINE Refusing(s) ==
        [a \in Asks |-> IF s[a] = "open" /\ a \notin Served THEN "refused" ELSE s[a]]
<1>6. CASE \A a \in Asks : answers[a] = promise[a]
  <2>1. ASSUME NEW a \in Asks PROVE Status'[a] = Refusing(Status)[a]
    <3>1. CASE promise[a] = "open" /\ a \notin taken
      <4>1. promise'[a] = "stopped"
        BY <1>1, <1>2, <1>4, <1>6, <3>1
      <4> QED
        BY <3>1, <4>1, ViewFacts DEF Status, Served, View
    <3>2. CASE ~(promise[a] = "open" /\ a \notin taken)
      <4>1. promise'[a] = promise[a] /\ ask'[a] = ask[a]
        BY <1>2, <1>5, <1>6, <3>2
      <4>2. View(a)' = View(a)
        BY <4>1 DEF View
      <4>3. Status[a] = "open" => a \in Served
        BY <3>2, ViewFacts DEF Status, Served
      <4> QED
        BY <4>2, <4>3 DEF Status
    <3> QED
      BY <3>1, <3>2
  <2>2. Status' = Refusing(Status)
    BY <2>1 DEF Status
  <2> QED
    BY <1>3, <2>2 DEF Contract!Next, Contract!Close, Status, Serving, Served, Closed
<1>7. CASE \E a \in Asks : answers[a] # promise[a]
  <2>1. PICK c \in Asks : answers[c] # promise[c]
    BY <1>7
  <2>2. c = current /\ promise[c] = "open" /\ answers[c] \in {"result", "error"}
    BY <1>1, <2>1
  <2>3. c \in taken
    BY <2>2, CellAssumption DEF AskInv, CurrentTaken, Messages
  <2> DEFINE Replied == [a \in Asks |-> IF a = Serving /\ Status[a] = "open"
                                        THEN "answered" ELSE Status[a]]
  <2>4. ASSUME NEW a \in Asks PROVE Status'[a] = Refusing(Replied)[a]
    <3>1. CASE a = c
      <4>1. promise'[a] \in {"result", "error"}
        BY <1>2, <2>2, <3>1
      <4>2. Replied[a] = "answered"
        BY <2>2, <3>1, ViewFacts DEF Status, Serving
      <4> QED
        BY <4>1, <4>2 DEF Status, View
    <3>2. CASE a # c /\ promise[a] = "open" /\ a \notin taken
      <4>1. promise'[a] = "stopped"
        BY <1>1, <1>2, <1>4, <2>2, <3>2
      <4>2. Replied[a] = "open" /\ a \notin Served
        BY <2>2, <3>2, ViewFacts DEF Status, Serving, Served
      <4> QED
        BY <4>1, <4>2 DEF Status, View
    <3>3. CASE a # c /\ ~(promise[a] = "open" /\ a \notin taken)
      <4>1. promise'[a] = promise[a] /\ ask'[a] = ask[a]
        BY <1>1, <1>2, <1>5, <2>2, <3>3
      <4>2. View(a)' = View(a)
        BY <4>1 DEF View
      <4>3. Replied[a] = Status[a] /\ (Status[a] = "open" => a \in Served)
        BY <2>2, <3>3, ViewFacts DEF Status, Served, Serving
      <4> QED
        BY <4>2, <4>3 DEF Status
    <3> QED
      BY <3>1, <3>2, <3>3
  <2>5. Status' = Refusing(Replied)
    BY <2>4 DEF Status
  <2> QED
    BY <1>3, <2>5 DEF Contract!Next, Contract!Close, Contract!Answered, Status, Serving,
                      Served, Closed
<1> QED
  BY <1>6, <1>7

LEMMA LoopHeadRefines ==
    ASSUME TypeOK, AskInv, NEW answers, NEW S, Replies(answers, S),
           \A a \in Asks : a = current => answers[a] # "open",
           ~Closed, LoopHead(answers, S)
    PROVE  Contract!Next
<1>1. CASE LeavesLoop
  BY <1>1, ShutdownRefines DEF LoopHead
<1>2. CASE ~LeavesLoop
  <2>1. /\ promise' = answers /\ run' \in {"idle", "handling"} /\ ask' = ask
    BY <1>2 DEF LoopHead
  <2>2. /\ answers \in [Asks -> Outcomes]
        /\ \A a \in Asks : a # current => answers[a] = promise[a]
        /\ \A a \in Asks : \/ answers[a] = promise[a]
                           \/ promise[a] = "open" /\ answers[a] \in {"result", "error"}
    BY RepliesFacts DEF AskInv
  <2>3. Closed' = FALSE /\ Closed = FALSE
    BY <2>1 DEF Closed, Stopping
  <2>4. Status' = [a \in Asks |-> IF a = Serving /\ Status[a] = "open"
                                  THEN "answered" ELSE Status[a]]
    <3>1. ASSUME NEW a \in Asks
          PROVE  View(a)' = IF a = Serving /\ View(a) = "open" THEN "answered" ELSE View(a)
      <4>1. CASE a = current /\ promise[a] = "open"
        <5>1. promise'[a] \in {"result", "error"}
          BY <2>1, <2>2, <4>1
        <5> QED
          BY <4>1, <5>1, ViewFacts DEF View, Serving
      <4>2. CASE ~(a = current /\ promise[a] = "open")
        <5>1. promise'[a] = promise[a]
          BY <2>1, <2>2, <4>2
        <5>2. View(a)' = View(a)
          BY <2>1, <5>1 DEF View
        <5>3. ~(a = Serving /\ View(a) = "open")
          BY <4>2, ViewFacts, CellAssumption DEF Serving, Messages
        <5> QED
          BY <5>2, <5>3
      <4> QED
        BY <4>1, <4>2
    <3> QED
      BY <3>1 DEF Status
  <2>5. ASSUME NEW n \in Asks \cup {NoMsg},
               n # NoMsg => n \notin Served /\ Status[n] \in {"open", "expired"},
               Serving' = n, Served' = Served \cup ({n} \cap Asks)
        PROVE  Contract!Next
    BY <2>3, <2>4, <2>5
       DEF Contract!Next, Contract!Turn, Contract!Answered, Status, Serving, Served, Closed
  <2>6. CASE queue = <<>>
    <3>1. current' = NoMsg /\ taken' = taken
      BY <1>2, <2>6 DEF LoopHead
    <3> QED
      BY <2>5, <3>1, CellAssumption DEF Serving, Served, Messages
  <2>7. CASE queue # <<>>
    <3>1. /\ current' = Head(queue) /\ taken' = taken \cup {Head(queue)}
      BY <1>2, <2>7 DEF LoopHead
    <3>2. Head(queue) \in InQueue
      BY <2>7, TailElements DEF TypeOK, InQueue
    <3>3. CASE Head(queue) \in Asks
      <4>1. Head(queue) \notin taken /\ promise[Head(queue)] \in {"open", "cancelled"}
        BY <3>2, <3>3 DEF AskInv, QueuedUnsettled
      <4>2. Status[Head(queue)] \in {"open", "expired"}
        BY <3>3, <4>1, ViewFacts DEF Status
      <4> QED
        BY <2>5, <3>1, <3>3, <4>1, <4>2 DEF Serving, Served
    <3>4. CASE Head(queue) \notin Asks
      BY <2>5, <3>1, <3>4, CellAssumption DEF Serving, Served, Messages
    <3> QED
      BY <3>3, <3>4
  <2> QED
    BY <2>6, <2>7
<1> QED
  BY <1>1, <1>2

LEMMA StepRefines ==
    ASSUME ~Evicts, TypeOK, TypeOK', AskInv, [Next]_vars
    PROVE  [Contract!Next]_(Contract!vars)
<1> USE DEF mailbox, askers, history
<1>0. (\A a \in Asks : a # NoMsg) /\ (run # "handling" => current = NoMsg)
  BY CellAssumption DEF AskInv, CurrentTaken, Messages
<1>1. ASSUME NEW t \in Tells, Tell(t) PROVE UNCHANGED Contract!vars
  BY <1>1, ContractStutter DEF Tell, Closed, TellToDeadLetters, TellEnqueues, TellParks,
     PutterResumes
<1>2. ASSUME NEW a \in Asks, Ask(a) PROVE [Contract!Next]_(Contract!vars)
  BY <1>2, AskRefines
<1>3. CASE RequestStop \/ Interrupt \/ JoinerCancelled \/ IdleTimeout \/ UNCHANGED vars
  BY <1>3, ContractStutter
     DEF RequestStop, Interrupt, JoinerCancelled, IdleTimeout, vars, Closed
<1>4. CASE Start \/ CancelledUnborn
  BY <1>4, ContractStutter DEF Start, StartOk, StartFails, CancelledUnborn, Closed, Stopping
<1>5. CASE CancelledStopping \/ MiddlewareDone \/ HookDone
  BY <1>5, ContractStutter
     DEF CancelledStopping, AfterCancel, MiddlewareDone, HookDone, Closed, Stopping
<1>6. CASE FirstStep \/ GetReturns
  <2>1. /\ LoopHead(promise, pending) /\ ~Closed
        /\ \A a \in Asks : a = current => promise[a] # "open"
    BY <1>0, <1>6 DEF FirstStep, GetReturns, Closed, Stopping
  <2> QED
    BY <2>1, LoopHeadRefines DEF Replies
<1>7. CASE CancelledLoop
  BY <1>7, ShutdownRefines DEF CancelledLoop, Replies, Closed, Stopping
<1>8. CASE Handler
  <2>1. PICK o \in {"result", "error"} :
           \/ Shutdown(Settle({current}, o), pending \ {current})
           \/ LoopHead(Settle({current}, o), pending \ {current})
    BY <1>8 DEF Handler, HandlerReturns, HandlerRaises
  <2> DEFINE answers == Settle({current}, o)
             left == pending \ {current}
  <2>2. Replies(answers, left) /\ ~Closed
    BY <1>8 DEF Replies, Handler, HandlerReturns, HandlerRaises, Closed, Stopping
  <2>3. \A a \in Asks : a = current => answers[a] # "open"
    BY DEF Settle, AskInv, AskHeld
  <2> QED
    BY <2>1, <2>2, <2>3, ShutdownRefines, LoopHeadRefines
<1> QED
  BY <1>1, <1>2, <1>3, <1>4, <1>5, <1>6, <1>7, <1>8 DEF Next, RunStep

LEMMA InitAskInv == Init => AskInv /\ Contract!Init
<1> SUFFICES ASSUME Init PROVE AskInv /\ Contract!Init
  OBVIOUS
<1>1. InQueue = {} /\ ~Closed
  BY EmptyElements DEF Init, InQueue, Closed, Stopping
<1>2. AskInv
  BY <1>1 DEF Init, AskInv, AskHeld, QueuedUnsettled, NoRepeat, TakenSubmitted, AskerInStep,
              CurrentTaken, ClosedDrained
<1>3. current \notin Asks
  BY CellAssumption DEF Init, Messages
<1>4. \A a \in Asks : View(a) = "idle"
  BY DEF Init, View
<1> QED
  BY <1>1, <1>2, <1>3, <1>4 DEF Init, Contract!Init, Closed

\* In a cell whose mailbox does not evict, an open ask is registered and its message
\* is in the mailbox, at the handler, or was cut off at the handler.
THEOREM AskHeldAlways == ASSUME ~Evicts PROVE Spec => []AskHeld
<1>1. AskInv => AskHeld
  BY DEF AskInv
<1> QED
  BY <1>1, InitAskInv, AskInvInductive, TypeCorrect, PTL DEF Spec

\* Such a cell implements the contract of AskContract: each of its steps is a step of
\* the contract or leaves the contract's variables alone.
THEOREM CellKeepsContract == ASSUME ~Evicts PROVE Spec => KeepsContract
<1>1. Init => AskInv /\ Contract!Init
  BY InitAskInv
<1>2. TypeOK /\ TypeOK' /\ AskInv /\ [Next]_vars => [Contract!Next]_(Contract!vars)
  BY StepRefines
<1> QED
  BY <1>1, <1>2, AskInvInductive, TypeCorrect, PTL DEF Spec, KeepsContract, Contract!Spec

\* A question that was answered had reached the handler.
AnsweredTaken ==
    \A a \in Asks : promise[a] \in {"result", "error"} => a \in taken

LEMMA AnsweredTakenInductive ==
    TypeOK /\ AskInv /\ AnsweredTaken /\ [Next]_vars => AnsweredTaken'
<1> SUFFICES ASSUME TypeOK, AskInv, AnsweredTaken, [Next]_vars PROVE AnsweredTaken'
  OBVIOUS
<1> USE DEF mailbox, askers, history
<1>0. current \in Asks => current \in taken
  BY CellAssumption DEF AskInv, CurrentTaken, Messages
<1>1. ASSUME NEW answers, NEW S, Replies(answers, S),
             Shutdown(answers, S) \/ LoopHead(answers, S)
      PROVE  AnsweredTaken'
  <2>1. \A a \in Asks : answers[a] \in {"result", "error"} => a \in taken
    BY <1>0, <1>1, RepliesFacts DEF AskInv, AnsweredTaken
  <2>2. taken \subseteq taken'
    BY <1>1 DEF Shutdown, LoopHead
  <2>3. \A a \in Asks : promise'[a] = answers[a] \/ promise'[a] = "stopped"
    <3>1. CASE Shutdown(answers, S)
      BY <3>1 DEF Shutdown
    <3>2. CASE LoopHead(answers, S)
      BY <3>2 DEF LoopHead, Shutdown
    <3> QED
      BY <1>1, <3>1, <3>2
  <2> QED
    BY <2>1, <2>2, <2>3 DEF AnsweredTaken
<1>2. CASE FirstStep \/ GetReturns \/ CancelledLoop
  BY <1>1, <1>2 DEF FirstStep, GetReturns, CancelledLoop, Replies
<1>3. CASE Handler
  <2>1. PICK o \in {"result", "error"} :
           \/ Shutdown(Settle({current}, o), pending \ {current})
           \/ LoopHead(Settle({current}, o), pending \ {current})
    BY <1>3 DEF Handler, HandlerReturns, HandlerRaises
  <2>2. Replies(Settle({current}, o), pending \ {current})
    BY DEF Replies
  <2> QED
    BY <1>1, <2>1, <2>2
<1>4. ASSUME NEW a \in Asks, Ask(a) PROVE AnsweredTaken'
  <2>1. taken' = taken
    BY <1>4 DEF Ask
  <2>2. \A b \in Asks : promise'[b] \in {promise[b], "full", "open", "cancelled"}
    BY <1>4 DEF Ask, AskStopped, AskRejected, AskEnqueues, AskDeadline, AskResumes, TypeOK
  <2> QED
    BY <2>1, <2>2 DEF AnsweredTaken
<1>5. ASSUME NEW t \in Tells, Tell(t) PROVE AnsweredTaken'
  BY <1>5 DEF Tell, AnsweredTaken
<1>6. CASE RequestStop \/ Interrupt \/ JoinerCancelled \/ Start \/ IdleTimeout
  BY <1>6 DEF RequestStop, Interrupt, JoinerCancelled, Start, StartOk, StartFails,
              IdleTimeout, AnsweredTaken
<1>7. CASE CancelledUnborn \/ CancelledStopping \/ MiddlewareDone \/ HookDone
  BY <1>7 DEF CancelledUnborn, CancelledStopping, MiddlewareDone, HookDone, AnsweredTaken
<1>8. CASE UNCHANGED vars
  BY <1>8 DEF vars, AnsweredTaken
<1> QED
  BY <1>2, <1>3, <1>4, <1>5, <1>6, <1>7, <1>8 DEF Next, RunStep

\* An asker that got MailboxFullError or ActorStoppedError from such a cell may send
\* its question again: the handler did not see it.
THEOREM RefusalsAreSafe == ASSUME ~Evicts PROVE Spec => []RefusedNeverHandled
<1>1. TypeOK /\ AskInv /\ AnsweredTaken => RefusedNeverHandled
  <2> SUFFICES ASSUME TypeOK, AskInv, AnsweredTaken, NEW a \in Asks
               PROVE  /\ View(a) = "refused" => a \notin taken \cap Asks
                      /\ View(a) = "answered" => a \in taken \cap Asks
    BY DEF RefusedNeverHandled, Contract!OutcomesTruthful
  <2>1. View(a) = "refused" => a \notin taken
    BY ViewFacts DEF AskInv, TakenSubmitted
  <2>2. View(a) = "answered" => a \in taken
    BY ViewFacts DEF AnsweredTaken, TypeOK
  <2> QED
    BY <2>1, <2>2
<1>2. Init => AskInv /\ AnsweredTaken
  BY InitAskInv DEF Init, AnsweredTaken
<1> QED
  BY <1>1, <1>2, AskInvInductive, AnsweredTakenInductive, TypeCorrect, PTL DEF Spec

\* No message reaches the handler of an actor that is stopped, whichever of its
\* callers, its policy or its failures stopped it.
THEOREM StoppedIsQuiet == Spec => NoHandlingOnceStopped
<1>1. [Next]_vars => [stopped => taken' = taken]_vars
  <2> SUFFICES ASSUME Next, stopped PROVE taken' = taken
    OBVIOUS
  <2> USE DEF mailbox, askers, history
  <2>1. ASSUME NEW answers, NEW S, Shutdown(answers, S) \/ LoopHead(answers, S)
        PROVE  taken' = taken
    BY <2>1 DEF Shutdown, LoopHead, LeavesLoop
  <2>2. CASE Handler \/ FirstStep \/ GetReturns \/ CancelledLoop
    BY <2>1, <2>2 DEF Handler, HandlerReturns, HandlerRaises, FirstStep, GetReturns,
                      CancelledLoop
  <2>3. ASSUME NEW t \in Tells, Tell(t) PROVE taken' = taken
    BY <2>3 DEF Tell
  <2>4. ASSUME NEW a \in Asks, Ask(a) PROVE taken' = taken
    BY <2>4 DEF Ask
  <2>5. CASE RequestStop \/ Interrupt \/ JoinerCancelled \/ IdleTimeout \/ Start
    BY <2>5 DEF RequestStop, Interrupt, JoinerCancelled, IdleTimeout, Start, StartOk,
                StartFails
  <2>6. CASE CancelledUnborn \/ CancelledStopping \/ MiddlewareDone \/ HookDone
    BY <2>6 DEF CancelledUnborn, CancelledStopping, MiddlewareDone, HookDone
  <2> QED
    BY <2>2, <2>3, <2>4, <2>5, <2>6 DEF Next, RunStep
<1> QED
  BY <1>1, PTL DEF Spec, NoHandlingOnceStopped

----------------------------------------------------------------------------
(* The ends of the loop and of the shutdown.                               *)

\* FailureLimit is not inductive: the first round needs it of the start.
FailureInv == run \in Starting \cup Looping => failures < MaxFailures

LEMMA FailureInvInductive == TypeOK /\ FailureInv /\ [Next]_vars => FailureInv'
<1> SUFFICES ASSUME TypeOK, FailureInv, [Next]_vars PROVE FailureInv'
  OBVIOUS
<1> USE DEF Starting, Looping, history
<1>1. CASE HandlerRaises
  <2>1. failures' = failures + 1 /\ failures \in Nat /\ MaxFailures \in Nat
    BY <1>1, CellAssumption DEF HandlerRaises, TypeOK
  <2>2. CASE GivesUp(failures + 1)
    BY <1>1, <2>2 DEF HandlerRaises, Shutdown, FailureInv
  <2>3. CASE ~GivesUp(failures + 1)
    BY <2>1, <2>3 DEF GivesUp, FailureInv
  <2> QED
    BY <2>2, <2>3
<1>2. CASE HandlerReturns
  BY <1>2, CellAssumption DEF HandlerReturns, FailureInv
<1>3. CASE FirstStep \/ GetReturns
  BY <1>3 DEF FirstStep, GetReturns, FailureInv
<1>4. CASE CancelledLoop
  BY <1>4 DEF CancelledLoop, Shutdown, FailureInv
<1>5. CASE Start
  BY <1>5 DEF Start, StartOk, StartFails, FailureInv
<1>6. CASE CancelledUnborn \/ CancelledStopping \/ MiddlewareDone \/ HookDone
  BY <1>6 DEF CancelledUnborn, CancelledStopping, AfterCancel, MiddlewareDone, HookDone,
              FailureInv
<1>7. ASSUME NEW t \in Tells, Tell(t) PROVE FailureInv'
  BY <1>7 DEF Tell, FailureInv
<1>8. ASSUME NEW a \in Asks, Ask(a) PROVE FailureInv'
  BY <1>8 DEF Ask, FailureInv
<1>9. CASE RequestStop \/ Interrupt \/ JoinerCancelled \/ IdleTimeout
  BY <1>9 DEF RequestStop, Interrupt, JoinerCancelled, IdleTimeout, FailureInv
<1>10. CASE UNCHANGED vars
  BY <1>10 DEF vars, FailureInv
<1> QED
  BY <1>1, <1>2, <1>3, <1>4, <1>5, <1>6, <1>7, <1>8, <1>9, <1>10 DEF Next, RunStep, Handler

\* A root actor never goes on with its loop after _MAX_CONSECUTIVE_FAILURES failures in
\* a row, whatever the number is and however stops and cancellations fall.
THEOREM FailureLimitAlways == Spec => []FailureLimit
<1>1. Init => FailureInv
  BY CellAssumption DEF Init, FailureInv
<1>2. FailureInv => FailureLimit
  BY DEF FailureInv, FailureLimit
<1> QED
  BY <1>1, <1>2, FailureInvInductive, TypeCorrect, PTL DEF Spec

\* In its shutdown a cell is stopped, so that only its joiner can cancel it: the second
\* on_stopped, which comes after a cancellation, is not cancelled again.
HookInv ==
    /\ HookRuns
    /\ run \in Stopping => stopped /\ run # "mw"
    /\ run = "retry" => ~cancel

LEMMA HookInvInductive ==
    ASSUME ~HasMiddleware, MaxJoinCancels = 0
    PROVE  TypeOK /\ HookInv /\ [Next]_vars => HookInv'
<1> SUFFICES ASSUME TypeOK, HookInv, [Next]_vars PROVE HookInv'
  OBVIOUS
<1> USE DEF HookInv, HookRuns, Stopping, history, mailbox
<1>1. CASE Handler \/ FirstStep \/ GetReturns \/ CancelledLoop
  <2>1. PICK answers, S : Shutdown(answers, S) \/ LoopHead(answers, S)
    BY <1>1 DEF Handler, HandlerReturns, HandlerRaises, FirstStep, GetReturns, CancelledLoop
  <2>2. CASE Shutdown(answers, S)
    BY <2>2 DEF Shutdown
  <2>3. CASE LoopHead(answers, S)
    BY <2>3 DEF LoopHead, Shutdown
  <2> QED
    BY <2>1, <2>2, <2>3
<1>2. CASE CancelledStopping
  BY <1>2 DEF CancelledStopping, AfterCancel
<1>3. CASE CancelledUnborn \/ MiddlewareDone \/ HookDone
  BY <1>3 DEF CancelledUnborn, MiddlewareDone, HookDone
<1>4. CASE Start
  BY <1>4 DEF Start, StartOk, StartFails
<1>5. CASE RequestStop
  BY <1>5 DEF RequestStop, Starting
<1>6. CASE Interrupt
  BY <1>6 DEF Interrupt
<1>7. CASE JoinerCancelled
  <2>1. joinCancels \in 0..0
    BY DEF TypeOK
  <2>2. joinCancels < 0
    BY <1>7 DEF JoinerCancelled
  <2> QED
    BY <2>1, <2>2
<1>8. CASE IdleTimeout
  BY <1>8 DEF IdleTimeout
<1>9. ASSUME NEW t \in Tells, Tell(t) PROVE HookInv'
  BY <1>9 DEF Tell
<1>10. ASSUME NEW a \in Asks, Ask(a) PROVE HookInv'
  BY <1>10 DEF Ask
<1>11. CASE UNCHANGED vars
  BY <1>11 DEF vars
<1> QED
  BY <1>1, <1>2, <1>3, <1>4, <1>5, <1>6, <1>7, <1>8, <1>9, <1>10, <1>11
     DEF Next, RunStep

\* An actor without middlewares, whose joiners are not cancelled, has run on_stopped to
\* its end when its task has ended, also when its shutdown began with a cancellation.
THEOREM HookRunsAlways ==
    ASSUME ~HasMiddleware, MaxJoinCancels = 0
    PROVE  Spec => []HookRuns
<1>1. Init => HookInv
  BY DEF Init, HookInv, HookRuns, Stopping
<1>2. HookInv => HookRuns
  BY DEF HookInv
<1> QED
  BY <1>1, <1>2, HookInvInductive, TypeCorrect, PTL DEF Spec

----------------------------------------------------------------------------
(* What one step of the cell does to the mailbox and to the tells.         *)

\* A message sent to a stopped actor, or dropped.
Refused(t) ==
    /\ tell[t] = "new"
    /\ dead' = dead \cup {t}
    /\ tell' = [tell EXCEPT ![t] = "returned"]
    /\ UNCHANGED <<mailbox, taken>>

Enqueued(t) ==
    /\ tell[t] \in {"new", "woken"}
    /\ ~Full
    /\ queue' = Append(queue, t)
    /\ tell' = [tell EXCEPT ![t] = "returned"]
    /\ UNCHANGED <<putters, taken, dead>>

\* deque(maxlen) lets go of its oldest item.
Evicted(t) ==
    /\ Evicts /\ Full
    /\ tell[t] = "new"
    /\ queue' = Append(Tail(queue), t)
    /\ tell' = [tell EXCEPT ![t] = "returned"]
    /\ UNCHANGED <<putters, taken, dead>>

Parked(t) ==
    /\ tell[t] \in {"new", "woken"}
    /\ Full
    /\ putters' = Append(putters, t)
    /\ tell' = [tell EXCEPT ![t] = "blocked"]
    /\ UNCHANGED <<queue, taken, dead>>

\* A question or the sentinel joins the queue.
OtherEnqueued(m) ==
    /\ ~Full
    /\ queue' = Append(queue, m)
    /\ UNCHANGED <<putters, tell, taken, dead>>

HeadTaken ==
    /\ queue # <<>>
    /\ queue' = Tail(queue)
    /\ taken' = taken \cup {Head(queue)}
    /\ WakePutters(1)
    /\ dead' = dead

Drained ==
    /\ queue' = <<>>
    /\ dead' = dead \cup (InQueue \cap Tells)
    /\ WakePutters(Len(queue))
    /\ taken' = taken

Unmoved == UNCHANGED <<mailbox, tell, taken, dead>>

MailboxStep ==
    \/ \E t \in Tells : Refused(t) \/ Enqueued(t) \/ Evicted(t) \/ Parked(t)
    \/ \E m \in Asks \cup {Stop} : OtherEnqueued(m)
    \/ HeadTaken \/ Drained \/ Unmoved

LEMMA LoopHeadMoves ==
    ASSUME NEW answers, NEW S, LoopHead(answers, S) \/ Shutdown(answers, S)
    PROVE  MailboxStep
<1> USE DEF mailbox, history
<1>1. CASE Shutdown(answers, S)
  <2>1. Drained
    BY <1>1 DEF Shutdown, Drained, InQueue
  <2> QED
    BY <2>1 DEF MailboxStep
<1>2. CASE LoopHead(answers, S) /\ ~LeavesLoop
  <2>1. HeadTaken \/ Unmoved
    BY <1>2 DEF LoopHead, HeadTaken, Unmoved
  <2> QED
    BY <2>1 DEF MailboxStep
<1> QED
  BY <1>1, <1>2 DEF LoopHead

LEMMA StepMoves == [Next]_vars => MailboxStep
<1> SUFFICES ASSUME [Next]_vars PROVE MailboxStep
  OBVIOUS
<1> USE DEF mailbox, askers, history
<1>1. ASSUME NEW t \in Tells, Tell(t) PROVE MailboxStep
  <2>0. taken' = taken
    BY <1>1 DEF Tell
  <2>1. CASE TellToDeadLetters(t)
    <3>1. Refused(t)
      BY <2>0, <2>1 DEF TellToDeadLetters, Refused
    <3> QED
      BY <3>1 DEF MailboxStep
  <2>2. CASE TellEnqueues(t)
    <3>1. Enqueued(t) \/ Evicted(t)
      BY <2>0, <2>2 DEF TellEnqueues, Enqueued, Evicted
    <3> QED
      BY <3>1 DEF MailboxStep
  <2>3. CASE TellParks(t)
    <3>1. Parked(t)
      BY <2>0, <2>3 DEF TellParks, Parked
    <3> QED
      BY <3>1 DEF MailboxStep
  <2>4. CASE PutterResumes(t)
    <3>1. Parked(t) \/ Enqueued(t)
      BY <2>0, <2>4 DEF PutterResumes, Parked, Enqueued
    <3> QED
      BY <3>1 DEF MailboxStep
  <2> QED
    BY <1>1, <2>1, <2>2, <2>3, <2>4 DEF Tell
<1>2. ASSUME NEW a \in Asks, Ask(a) PROVE MailboxStep
  <2>0. UNCHANGED <<putters, tell, taken, dead>>
    BY <1>2 DEF Ask
  <2>1. CASE AskEnqueues(a)
    <3>1. OtherEnqueued(a)
      BY <2>0, <2>1 DEF AskEnqueues, OtherEnqueued
    <3> QED
      BY <3>1 DEF MailboxStep
  <2>2. CASE ~AskEnqueues(a)
    <3>1. Unmoved
      BY <1>2, <2>0, <2>2
         DEF Ask, AskStopped, AskRejected, AskDeadline, AskResumes, Unmoved
    <3> QED
      BY <3>1 DEF MailboxStep
  <2> QED
    BY <2>1, <2>2
<1>3. CASE RequestStop
  <2>1. OtherEnqueued(Stop) \/ Unmoved
    BY <1>3 DEF RequestStop, OtherEnqueued, Unmoved
  <2> QED
    BY <2>1 DEF MailboxStep
<1>4. CASE RunStep
  <2>1. CASE FirstStep
    BY <2>1, LoopHeadMoves DEF FirstStep
  <2>2. CASE GetReturns
    BY <2>2, LoopHeadMoves DEF GetReturns
  <2>3. CASE CancelledLoop
    BY <2>3, LoopHeadMoves DEF CancelledLoop
  <2>4. CASE CancelledUnborn \/ CancelledStopping \/ MiddlewareDone \/ HookDone
    <3>1. Unmoved
      BY <2>4 DEF CancelledUnborn, CancelledStopping, MiddlewareDone, HookDone, Unmoved
    <3> QED
      BY <3>1 DEF MailboxStep
  <2> QED
    BY <1>4, <2>1, <2>2, <2>3, <2>4 DEF RunStep
<1>5. CASE Handler
  <2>1. PICK answers, S : LoopHead(answers, S) \/ Shutdown(answers, S)
    BY <1>5 DEF Handler, HandlerReturns, HandlerRaises
  <2> QED
    BY <2>1, LoopHeadMoves
<1>6. CASE Interrupt \/ JoinerCancelled \/ Start \/ IdleTimeout \/ UNCHANGED vars
  <2>1. Unmoved
    BY <1>6 DEF Interrupt, JoinerCancelled, Start, StartOk, StartFails, IdleTimeout,
                vars, Unmoved
  <2> QED
    BY <2>1 DEF MailboxStep
<1> QED
  BY <1>1, <1>2, <1>3, <1>4, <1>5, <1>6 DEF Next

----------------------------------------------------------------------------
(* The parked tells.                                                       *)

Woken == {t \in Tells : tell[t] = "woken"}

\* A parked call is blocked, and parked once.
ParkedBlocked == \A i \in DOMAIN putters : tell[putters[i]] = "blocked"
ParkedOnce == \A i, j \in DOMAIN putters : putters[i] = putters[j] => i = j

ParkInv ==
    /\ ParkedBlocked
    /\ ParkedOnce
    /\ IsFiniteSet(Woken)
    /\ NoLostWakeup

\* The calls that k gets wake.
Wakes(k) == {putters[i] : i \in 1..(IF k <= Len(putters) THEN k ELSE Len(putters))}

\* k gets wake the first k parked calls, or all of them, and leave the others parked.
LEMMA WakeEffect ==
    ASSUME TypeOK, ParkInv, NEW k \in Nat, WakePutters(k)
    PROVE  /\ ParkedBlocked' /\ ParkedOnce'
           /\ Woken' = Woken \cup Wakes(k)
           /\ IsFiniteSet(Wakes(k))
           /\ Wakes(k) \cap Woken = {}
           /\ Cardinality(Wakes(k)) = IF k <= Len(putters) THEN k ELSE Len(putters)
           /\ putters' # <<>> => k < Len(putters)
           /\ \A t \in Tells : tell'[t] # tell[t] => tell[t] = "blocked" /\ tell'[t] = "woken"
<1> DEFINE n == IF k <= Len(putters) THEN k ELSE Len(putters)
<1>1. /\ putters \in Seq(Tells) /\ Len(putters) \in Nat /\ n \in 0..Len(putters)
      /\ DOMAIN putters = 1..Len(putters)
      /\ 1..n \subseteq DOMAIN putters
      /\ \A i \in DOMAIN putters : putters[i] \in Tells
      /\ tell \in [Tells -> {"new", "blocked", "woken", "returned"}]
  BY DEF TypeOK
<1>2. /\ putters' = SubSeq(putters, n + 1, Len(putters))
      /\ tell' = [t \in Tells |-> IF \E i \in 1..n : putters[i] = t THEN "woken" ELSE tell[t]]
  BY DEF WakePutters
<1>w. Wakes(k) = {putters[i] : i \in 1..n}
  BY DEF Wakes
<1>h. n = IF k <= Len(putters) THEN k ELSE Len(putters)
  OBVIOUS
<1> HIDE DEF n
<1>3. /\ DOMAIN putters' = 1..(Len(putters) - n)
      /\ \A i \in 1..(Len(putters) - n) : putters'[i] = putters[i + n]
  BY <1>1, <1>2
<1>4. \A i \in DOMAIN putters' : i + n \in DOMAIN putters /\ i + n \notin 1..n
                                 /\ putters'[i] = putters[i + n]
  BY <1>1, <1>3
<1>5. ParkedOnce'
  <2>1. ASSUME NEW i \in DOMAIN putters', NEW j \in DOMAIN putters', putters'[i] = putters'[j]
        PROVE  i = j
    <3>1. i + n = j + n
      BY <1>4, <2>1 DEF ParkInv, ParkedOnce
    <3> QED
      BY <1>1, <1>3, <3>1
  <2> QED
    BY <2>1 DEF ParkedOnce
<1>6. ParkedBlocked'
  <2>1. ASSUME NEW i \in DOMAIN putters' PROVE tell'[putters'[i]] = "blocked"
    <3>1. putters'[i] \in Tells /\ tell[putters'[i]] = "blocked"
      BY <1>1, <1>4 DEF ParkInv, ParkedBlocked
    <3>2. ~\E j \in 1..n : putters[j] = putters'[i]
      BY <1>1, <1>4 DEF ParkInv, ParkedOnce
    <3> QED
      BY <1>2, <3>1, <3>2
  <2> QED
    BY <2>1 DEF ParkedBlocked
<1>7. Woken' = Woken \cup Wakes(k)
  <2>1. \A t \in Tells : tell'[t] = "woken" <=> tell[t] = "woken" \/ \E i \in 1..n : putters[i] = t
    BY <1>1, <1>2
  <2> QED
    BY <1>1, <1>w, <2>1 DEF Woken
<1>8. Wakes(k) \cap Woken = {}
  BY <1>1, <1>w DEF ParkInv, ParkedBlocked, Woken
<1>9. IsFiniteSet(Wakes(k)) /\ Cardinality(Wakes(k)) = n
  <2> DEFINE f == [i \in 1..n |-> putters[i]]
  <2>1. IsFiniteSet(1..n) /\ Cardinality(1..n) = n
    BY <1>1, FS_Interval
  <2>2. f \in Bijection(1..n, Wakes(k))
    <3>1. f \in [1..n -> Wakes(k)]
      BY <1>w
    <3>2. \A i, j \in 1..n : f[i] = f[j] => i = j
      BY <1>1 DEF ParkInv, ParkedOnce
    <3>3. \A x \in Wakes(k) : \E i \in 1..n : f[i] = x
      BY <1>w
    <3> QED
      BY <3>1, <3>2, <3>3, Fun_IsBij
  <2>3. ExistsBijection(1..n, Wakes(k))
    BY <2>2 DEF ExistsBijection
  <2> QED
    BY <2>1, <2>3, FS_Bijection
<1>10. putters' # <<>> => k < Len(putters)
  <2>1. n = Len(putters) => putters' = <<>>
    <3>1. n = Len(putters) => DOMAIN putters' = {}
      BY <1>1, <1>3
    <3>2. putters' \in Seq(Tells)
      BY WakeTyped
    <3> QED
      BY <3>1, <3>2
  <2>2. n = Len(putters) \/ k < Len(putters)
    <3>1. Len(putters) \in Nat
      BY <1>1
    <3>2. k < Len(putters) \/ k >= Len(putters)
      BY <3>1
    <3>3. k >= Len(putters) => n = Len(putters)
      BY <1>h, <3>1
    <3> QED
      BY <3>2, <3>3
  <2> QED
    BY <2>1, <2>2
<1>11. \A t \in Tells : tell'[t] # tell[t] => tell[t] = "blocked" /\ tell'[t] = "woken"
  BY <1>1, <1>2 DEF ParkInv, ParkedBlocked
<1> QED
  BY <1>5, <1>6, <1>7, <1>8, <1>9, <1>10, <1>11, <1>h

\* Append and Tail leave what is in a sequence once there once.
LEMMA AppendOnce ==
    ASSUME NEW S, NEW T, NEW q \in Seq(S), NEW x \in S, x \in T => x \notin ToSet(q),
           \A i, j \in DOMAIN q : q[i] = q[j] /\ q[i] \in T => i = j
    PROVE  \A i, j \in DOMAIN Append(q, x) :
              Append(q, x)[i] = Append(q, x)[j] /\ Append(q, x)[i] \in T => i = j
<1>1. /\ DOMAIN Append(q, x) = 1..(Len(q) + 1)
      /\ DOMAIN q = 1..Len(q)
      /\ Len(q) \in Nat
      /\ \A i \in 1..Len(q) : Append(q, x)[i] = q[i]
      /\ Append(q, x)[Len(q) + 1] = x
  OBVIOUS
<1>2. x \in T => \A i \in 1..Len(q) : q[i] # x
  BY <1>1 DEF ToSet
<1> QED
  BY <1>1, <1>2

LEMMA TailOnce ==
    ASSUME NEW S, NEW T, NEW q \in Seq(S), q # <<>>,
           \A i, j \in DOMAIN q : q[i] = q[j] /\ q[i] \in T => i = j
    PROVE  /\ Head(q) \in T => Head(q) \notin ToSet(Tail(q))
           /\ \A i, j \in DOMAIN Tail(q) :
                 Tail(q)[i] = Tail(q)[j] /\ Tail(q)[i] \in T => i = j
<1>1. /\ Len(q) \in Nat \ {0}
      /\ DOMAIN q = 1..Len(q)
      /\ DOMAIN Tail(q) = 1..(Len(q) - 1)
      /\ \A i \in 1..(Len(q) - 1) : Tail(q)[i] = q[i + 1]
      /\ Head(q) = q[1]
  OBVIOUS
<1>2. \A i \in DOMAIN Tail(q) : i + 1 \in DOMAIN q /\ i + 1 # 1 /\ 1 \in DOMAIN q
  BY <1>1
<1>3. Head(q) \in T => \A i \in DOMAIN Tail(q) : Tail(q)[i] # Head(q)
  BY <1>1, <1>2
<1>4. Head(q) \in T => Head(q) \notin ToSet(Tail(q))
  BY <1>3 DEF ToSet
<1>5. \A i, j \in DOMAIN Tail(q) :
         Tail(q)[i] = Tail(q)[j] /\ Tail(q)[i] \in T => i = j
  BY <1>1, <1>2
<1> QED
  BY <1>4, <1>5

LEMMA ParkInvInit == Init => ParkInv
<1> SUFFICES ASSUME Init PROVE ParkInv
  OBVIOUS
<1>1. putters = <<>> /\ DOMAIN putters = {} /\ Woken = {}
  BY DEF Init, Woken
<1> QED
  BY <1>1, FS_EmptySet DEF ParkInv, ParkedBlocked, ParkedOnce, NoLostWakeup

LEMMA ParkInvInductive == TypeOK /\ ParkInv /\ [Next]_vars => ParkInv'
<1> SUFFICES ASSUME TypeOK, ParkInv, MailboxStep PROVE ParkInv'
  BY StepMoves
<1> USE DEF mailbox
<1>t. /\ queue \in Seq(Messages \cup {Stop}) /\ Len(queue) \in Nat
      /\ putters \in Seq(Tells) /\ Len(putters) \in Nat
      /\ tell \in [Tells -> {"new", "blocked", "woken", "returned"}]
      /\ Capacity \in Nat
  BY DEF TypeOK
<1>c. IsFiniteSet(Woken) /\ Cardinality(Woken) \in Nat
  BY FS_CardinalityType DEF ParkInv
\* A caller that is not parked changes its own position.
<1>1. ASSUME NEW t \in Tells, tell[t] \in {"new", "woken"},
             tell' = [tell EXCEPT ![t] = "returned"], putters' = putters
      PROVE  /\ ParkedBlocked' /\ ParkedOnce'
             /\ Woken' = Woken \ {t}
             /\ IsFiniteSet(Woken')
             /\ Cardinality(Woken') \in Nat
             /\ Cardinality(Woken') >= Cardinality(Woken) - 1
             /\ tell[t] = "new" => Woken' = Woken
  <2>1. ParkedOnce'
    BY <1>1 DEF ParkInv, ParkedOnce
  <2>2. \A i \in DOMAIN putters : putters[i] # t /\ putters[i] \in Tells
    BY <1>t, <1>1 DEF ParkInv, ParkedBlocked
  <2>3. ParkedBlocked'
    BY <1>t, <1>1, <2>2 DEF ParkInv, ParkedBlocked
  <2>4. Woken' = Woken \ {t} /\ (tell[t] = "new" => Woken' = Woken)
    BY <1>t, <1>1 DEF Woken
  <2>5. IsFiniteSet(Woken') /\ Cardinality(Woken') >= Cardinality(Woken) - 1
    <3>1. /\ IsFiniteSet(Woken \ {t})
          /\ Cardinality(Woken \ {t}) = IF t \in Woken THEN Cardinality(Woken) - 1
                                       ELSE Cardinality(Woken)
      BY <1>c, FS_RemoveElement
    <3> QED
      BY <1>c, <2>4, <3>1
  <2> QED
    BY <2>1, <2>3, <2>4, <2>5, FS_CardinalityType
<1>2. ASSUME NEW t \in Tells, Refused(t) PROVE ParkInv'
  <2>1. ParkedBlocked' /\ ParkedOnce' /\ IsFiniteSet(Woken') /\ Woken' = Woken
    BY <1>1, <1>2 DEF Refused
  <2> QED
    BY <1>2, <2>1 DEF ParkInv, NoLostWakeup, Refused, Woken
<1>3. ASSUME NEW t \in Tells, Enqueued(t) PROVE ParkInv'
  <2>1. /\ ParkedBlocked' /\ ParkedOnce' /\ IsFiniteSet(Woken')
        /\ Cardinality(Woken') \in Nat
        /\ Cardinality(Woken') >= Cardinality(Woken) - 1
    BY <1>1, <1>3 DEF Enqueued
  <2>2. Len(queue') = Len(queue) + 1 /\ putters' = putters
    BY <1>t, <1>3 DEF Enqueued
  <2>3. NoLostWakeup'
    BY <1>t, <1>c, <2>1, <2>2 DEF ParkInv, NoLostWakeup, Woken
  <2> QED
    BY <2>1, <2>3 DEF ParkInv
<1>4. ASSUME NEW t \in Tells, Evicted(t) PROVE ParkInv'
  <2>1. ParkedBlocked' /\ ParkedOnce' /\ IsFiniteSet(Woken') /\ Woken' = Woken
    BY <1>1, <1>4 DEF Evicted
  <2>2. queue # <<>>
    BY <1>4 DEF Evicted, Full
  <2>3. Tail(queue) \in Seq(Messages \cup {Stop}) /\ Len(Tail(queue)) = Len(queue) - 1
    BY <1>t, <2>2, TailElements
  <2>4. Len(queue') = Len(queue) /\ putters' = putters
    BY <1>t, <1>4, <2>3 DEF Evicted, Messages
  <2> QED
    BY <2>1, <2>4 DEF ParkInv, NoLostWakeup, Woken
<1>5. ASSUME NEW t \in Tells, Parked(t) PROVE ParkInv'
  <2>0. /\ tell' = [tell EXCEPT ![t] = "blocked"]
        /\ putters' = Append(putters, t) /\ queue' = queue
        /\ tell[t] \in {"new", "woken"}
    BY <1>5 DEF Parked
  <2>1. \A i \in DOMAIN putters : putters[i] # t /\ putters[i] \in Tells
    BY <1>t, <2>0 DEF ParkInv, ParkedBlocked
  <2>2. t \notin ToSet(putters)
    BY <2>1 DEF ToSet
  <2>3. \A i, j \in DOMAIN putters : putters[i] = putters[j] /\ putters[i] \in Tells => i = j
    BY DEF ParkInv, ParkedOnce
  <2>4. \A i, j \in DOMAIN Append(putters, t) :
           /\ Append(putters, t)[i] = Append(putters, t)[j]
           /\ Append(putters, t)[i] \in Tells
           => i = j
    BY <1>t, <2>2, <2>3, AppendOnce
  <2>5. ParkedOnce'
    BY <1>t, <2>0, <2>4 DEF ParkedOnce
  <2>6. \A i \in DOMAIN putters' : putters'[i] = t \/ (i \in DOMAIN putters /\ putters'[i] = putters[i])
    BY <1>t, <2>0
  <2>7. ParkedBlocked'
    BY <1>t, <2>0, <2>1, <2>6 DEF ParkInv, ParkedBlocked
  <2>8. Woken' = Woken \ {t}
    BY <1>t, <2>0 DEF Woken
  <2>9. IsFiniteSet(Woken') /\ Cardinality(Woken') \in Nat
    BY <1>c, <2>8, FS_RemoveElement, FS_CardinalityType
  <2>10. NoLostWakeup'
    BY <1>t, <1>5, <2>9 DEF NoLostWakeup, Woken, Parked, Full
  <2> QED
    BY <2>5, <2>7, <2>9, <2>10 DEF ParkInv
<1>6. ASSUME NEW m \in Asks \cup {Stop}, OtherEnqueued(m) PROVE ParkInv'
  <2>1. Len(queue') = Len(queue) + 1 /\ putters' = putters /\ tell' = tell
    BY <1>t, <1>6 DEF OtherEnqueued, Messages
  <2>2. Woken' = Woken
    BY <2>1 DEF Woken
  <2>3. NoLostWakeup'
    BY <1>t, <1>c, <2>1, <2>2 DEF ParkInv, NoLostWakeup, Woken
  <2> QED
    BY <2>1, <2>2, <2>3 DEF ParkInv, ParkedBlocked, ParkedOnce
<1>7. ASSUME NEW k \in Nat, WakePutters(k), Len(queue') = Len(queue) - k PROVE ParkInv'
  <2>1. /\ ParkedBlocked' /\ ParkedOnce'
        /\ Woken' = Woken \cup Wakes(k)
        /\ IsFiniteSet(Wakes(k))
        /\ Wakes(k) \cap Woken = {}
        /\ Cardinality(Wakes(k)) = IF k <= Len(putters) THEN k ELSE Len(putters)
        /\ putters' # <<>> => k < Len(putters)
    BY <1>7, WakeEffect
  <2>2. /\ IsFiniteSet(Woken')
        /\ Cardinality(Woken') = Cardinality(Woken) + Cardinality(Wakes(k))
    <3>1. Woken \cap Wakes(k) = {}
      BY <2>1
    <3>2. Cardinality(Woken \cap Wakes(k)) = 0
      BY <3>1, FS_EmptySet
    <3>3. /\ IsFiniteSet(Woken \cup Wakes(k))
          /\ Cardinality(Woken \cup Wakes(k))
             = Cardinality(Woken) + Cardinality(Wakes(k)) - Cardinality(Woken \cap Wakes(k))
      BY <1>c, <2>1, FS_Union
    <3>4. Cardinality(Wakes(k)) \in Nat
      BY <2>1, FS_CardinalityType
    <3> QED
      BY <1>c, <2>1, <3>2, <3>3, <3>4
  <2>3. NoLostWakeup'
    <3>1. SUFFICES ASSUME putters' # <<>>
                   PROVE  Capacity - Len(queue') <= Cardinality(Woken')
      BY DEF NoLostWakeup, Woken
    <3>2. k < Len(putters) /\ putters # <<>>
      BY <1>t, <2>1, <3>1
    <3>3. Capacity - Len(queue) <= Cardinality(Woken)
      BY <3>2 DEF ParkInv, NoLostWakeup, Woken
    <3> QED
      BY <1>t, <1>c, <1>7, <2>1, <2>2, <3>2, <3>3
  <2> QED
    BY <2>1, <2>2, <2>3 DEF ParkInv
<1>8. CASE HeadTaken
  <2>1. Len(queue') = Len(queue) - 1 /\ WakePutters(1)
    BY <1>t, <1>8, TailElements DEF HeadTaken
  <2> QED
    BY <1>7, <2>1
<1>9. CASE Drained
  <2>1. Len(queue') = Len(queue) - Len(queue) /\ WakePutters(Len(queue))
    BY <1>t, <1>9 DEF Drained
  <2> QED
    BY <1>t, <1>7, <2>1
<1>10. CASE Unmoved
  BY <1>10 DEF Unmoved, ParkInv, ParkedBlocked, ParkedOnce, NoLostWakeup, Woken
<1> QED
  BY <1>2, <1>3, <1>4, <1>5, <1>6, <1>8, <1>9, <1>10 DEF MailboxStep

\* No parked tell is forgotten with room in the mailbox: whatever the backend, the
\* policy and the capacity, each free slot has a woken putter on its way to it.
THEOREM NoWakeupIsLost == Spec => []NoLostWakeup
<1>1. ParkInv => NoLostWakeup
  BY DEF ParkInv
<1> QED
  BY <1>1, ParkInvInit, TypeCorrect, ParkInvInductive, PTL DEF Spec

----------------------------------------------------------------------------
(* Where the message of a tell() is.                                       *)

\* A message is in the mailbox at most once.
QueuedOnce == \A i, j \in DOMAIN queue : queue[i] = queue[j] /\ queue[i] \in Tells => i = j

InOnePlace(t) ==
    /\ t \in InQueue \/ t \in taken \/ t \in dead
    /\ ~(t \in InQueue /\ t \in taken)
    /\ ~(t \in InQueue /\ t \in dead)
    /\ ~(t \in taken /\ t \in dead)

Nowhere(t) == t \notin InQueue /\ t \notin taken /\ t \notin dead

Accounted ==
    \A t \in Tells : IF tell[t] = "returned" THEN InOnePlace(t) ELSE Nowhere(t)

TellInv == QueuedOnce /\ Accounted

LEMMA PlacesFacts ==
    ASSUME NEW t
    PROVE  /\ (\E p \in Places(t) : Places(t) = {p}) <=> InOnePlace(t)
           /\ Places(t) = {} <=> Nowhere(t)
<1>1. /\ "queue" \in Places(t) <=> t \in InQueue
      /\ "taken" \in Places(t) <=> t \in taken
      /\ "dead" \in Places(t) <=> t \in dead
      /\ \A p \in Places(t) : p = "queue" \/ p = "taken" \/ p = "dead"
  BY DEF Places
<1>2. ASSUME NEW p \in Places(t), Places(t) = {p} PROVE InOnePlace(t)
  BY <1>1, <1>2 DEF InOnePlace
<1>3. ASSUME InOnePlace(t) PROVE \E p \in Places(t) : Places(t) = {p}
  <2>1. CASE t \in InQueue
    <3>1. Places(t) = {"queue"}
      BY <1>1, <1>3, <2>1 DEF InOnePlace
    <3> QED
      BY <3>1
  <2>2. CASE t \in taken
    <3>1. Places(t) = {"taken"}
      BY <1>1, <1>3, <2>2 DEF InOnePlace
    <3> QED
      BY <3>1
  <2>3. CASE t \in dead
    <3>1. Places(t) = {"dead"}
      BY <1>1, <1>3, <2>3 DEF InOnePlace
    <3> QED
      BY <3>1
  <2> QED
    BY <1>3, <2>1, <2>2, <2>3 DEF InOnePlace
<1>4. Places(t) = {} <=> Nowhere(t)
  BY <1>1 DEF Nowhere
<1> QED
  BY <1>2, <1>3, <1>4

LEMMA AccountedIffTellAccounted == Accounted <=> TellAccounted
  BY PlacesFacts DEF Accounted, TellAccounted

LEMMA TellInvInductive ==
    ASSUME ~Evicts PROVE TypeOK /\ ParkInv /\ TellInv /\ [Next]_vars => TellInv'
<1> SUFFICES ASSUME TypeOK, ParkInv, TellInv, MailboxStep PROVE TellInv'
  BY StepMoves
<1> USE DEF mailbox
<1>t. /\ queue \in Seq(Items) /\ Len(queue) \in Nat
      /\ tell \in [Tells -> {"new", "blocked", "woken", "returned"}]
      /\ \A t \in Tells : t \in Items
      /\ \A m \in Asks \cup {Stop} : m \in Items /\ m \notin Tells
  BY DEF TypeOK, Items, Messages
<1>o. \A i, j \in DOMAIN queue : queue[i] = queue[j] /\ queue[i] \in Tells => i = j
  BY DEF TellInv, QueuedOnce
<1>2. ASSUME NEW t \in Tells, Refused(t) PROVE TellInv'
  <2>1. Nowhere(t)
    BY <1>2 DEF TellInv, Accounted, Refused
  <2>2. InQueue' = InQueue /\ taken' = taken /\ dead' = dead \cup {t}
    BY <1>2 DEF Refused, InQueue
  <2>3. \A u \in Tells : tell'[u] = IF u = t THEN "returned" ELSE tell[u]
    BY <1>t, <1>2 DEF Refused
  <2>4. Accounted'
    BY <2>1, <2>2, <2>3 DEF TellInv, Accounted, InOnePlace, Nowhere
  <2>5. QueuedOnce'
    BY <1>2, <1>o DEF Refused, QueuedOnce
  <2> QED
    BY <2>4, <2>5 DEF TellInv
<1>3. ASSUME NEW t \in Tells, Enqueued(t) PROVE TellInv'
  <2>0. tell[t] # "returned" /\ queue' = Append(queue, t)
    BY <1>3 DEF Enqueued
  <2>1. Nowhere(t)
    BY <2>0 DEF TellInv, Accounted
  <2>2. InQueue' = InQueue \cup {t} /\ taken' = taken /\ dead' = dead
    BY <1>t, <1>3, AppendElements DEF Enqueued, InQueue
  <2>3. \A u \in Tells : tell'[u] = IF u = t THEN "returned" ELSE tell[u]
    BY <1>t, <1>3 DEF Enqueued
  <2>4. Accounted'
    BY <2>1, <2>2, <2>3 DEF TellInv, Accounted, InOnePlace, Nowhere
  <2>5. \A i, j \in DOMAIN Append(queue, t) :
           Append(queue, t)[i] = Append(queue, t)[j] /\ Append(queue, t)[i] \in Tells => i = j
    BY <1>t, <1>o, <2>1, AppendOnce DEF Nowhere, InQueue
  <2> QED
    BY <2>0, <2>4, <2>5 DEF TellInv, QueuedOnce
<1>4. ASSUME NEW t \in Tells, Parked(t) PROVE TellInv'
  <2>1. tell[t] # "returned" /\ UNCHANGED <<queue, taken, dead>>
    BY <1>4 DEF Parked
  <2>2. InQueue' = InQueue
    BY <2>1 DEF InQueue
  <2>3. \A u \in Tells : tell'[u] = "returned" <=> tell[u] = "returned"
    BY <1>t, <1>4 DEF Parked
  <2>4. Accounted'
    BY <2>1, <2>2, <2>3 DEF TellInv, Accounted, InOnePlace, Nowhere
  <2> QED
    BY <1>o, <2>1, <2>4 DEF TellInv, QueuedOnce
<1>5. ASSUME NEW m \in Asks \cup {Stop}, OtherEnqueued(m) PROVE TellInv'
  <2>1. InQueue' = InQueue \cup {m} /\ UNCHANGED <<tell, taken, dead>>
    BY <1>t, <1>5, AppendElements DEF OtherEnqueued, InQueue
  <2>2. Accounted'
    BY <1>t, <2>1 DEF TellInv, Accounted, InOnePlace, Nowhere
  <2>3. \A i, j \in DOMAIN Append(queue, m) :
           Append(queue, m)[i] = Append(queue, m)[j] /\ Append(queue, m)[i] \in Tells => i = j
    BY <1>t, <1>o, AppendOnce
  <2> QED
    BY <1>5, <2>2, <2>3 DEF TellInv, QueuedOnce, OtherEnqueued
<1>6. ASSUME NEW k \in Nat, WakePutters(k)
      PROVE  \A u \in Tells : tell'[u] = "returned" <=> tell[u] = "returned"
  <2>1. \A u \in Tells : tell'[u] # tell[u] => tell[u] = "blocked" /\ tell'[u] = "woken"
    BY <1>6, WakeEffect
  <2> QED
    BY <2>1
<1>7. CASE HeadTaken
  <2>0. queue # <<>>
    BY <1>7 DEF HeadTaken
  <2>1. InQueue = InQueue' \cup {Head(queue)}
    BY <1>t, <1>7, <2>0, TailElements DEF HeadTaken, InQueue
  <2>2. /\ Head(queue) \in Tells => Head(queue) \notin ToSet(Tail(queue))
        /\ \A i, j \in DOMAIN Tail(queue) :
              Tail(queue)[i] = Tail(queue)[j] /\ Tail(queue)[i] \in Tells => i = j
    BY <1>t, <1>o, <2>0, TailOnce
  <2>3. Head(queue) \in Tells => Head(queue) \notin InQueue'
    BY <1>7, <2>2 DEF HeadTaken, InQueue
  <2>4. taken' = taken \cup {Head(queue)} /\ dead' = dead
    BY <1>7 DEF HeadTaken
  <2>5. \A u \in Tells : tell'[u] = "returned" <=> tell[u] = "returned"
    BY <1>6, <1>7 DEF HeadTaken
  <2>6. Accounted'
    BY <2>1, <2>3, <2>4, <2>5 DEF TellInv, Accounted, InOnePlace, Nowhere
  <2> QED
    BY <1>7, <2>2, <2>6 DEF TellInv, QueuedOnce, HeadTaken
<1>8. CASE Drained
  <2>1. InQueue' = {} /\ dead' = dead \cup (InQueue \cap Tells) /\ taken' = taken
    BY <1>8, EmptyElements DEF Drained, InQueue
  <2>2. \A u \in Tells : tell'[u] = "returned" <=> tell[u] = "returned"
    BY <1>t, <1>6, <1>8 DEF Drained
  <2>3. Accounted'
    BY <2>1, <2>2 DEF TellInv, Accounted, InOnePlace, Nowhere
  <2>4. QueuedOnce'
    BY <1>8 DEF Drained, QueuedOnce
  <2> QED
    BY <2>3, <2>4 DEF TellInv
<1>9. CASE Unmoved
  BY <1>9 DEF Unmoved, TellInv, QueuedOnce, Accounted, InOnePlace, Nowhere, InQueue
<1>10. ASSUME NEW t \in Tells, Evicted(t) PROVE TellInv'
  BY <1>10 DEF Evicted
<1> QED
  BY <1>2, <1>3, <1>4, <1>5, <1>7, <1>8, <1>9, <1>10 DEF MailboxStep

\* Unless the mailbox evicts (a FastMailbox with the block policy), no message of a
\* tell() is lost or doubled: once the call returned it is in the mailbox, with the
\* handler, or in the dead letters, and in one of them only; before, it is nowhere.
THEOREM NoTellIsLost == ASSUME ~Evicts PROVE Spec => []TellAccounted
<1>1. Init => TellInv
  <2> SUFFICES ASSUME Init PROVE TellInv
    OBVIOUS
  <2>1. InQueue = {} /\ DOMAIN queue = {}
    BY EmptyElements DEF Init, InQueue
  <2> QED
    BY <2>1 DEF Init, TellInv, QueuedOnce, Accounted, Nowhere
<1>2. TellInv => TellAccounted
  BY AccountedIffTellAccounted DEF TellInv
<1>3. TypeOK /\ ParkInv /\ TellInv /\ [Next]_vars => ParkInv' /\ TellInv'
  BY ParkInvInductive, TellInvInductive
<1> QED
  BY <1>1, <1>2, <1>3, ParkInvInit, TypeCorrect, PTL DEF Spec
=============================================================================
