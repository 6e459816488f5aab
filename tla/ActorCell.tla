------------------------------ MODULE ActorCell ------------------------------
(***************************************************************************)
(* One root actor cell with its mailbox (core/system.py, core/mailbox.py), *)
(* the callers that tell, ask, stop, interrupt and join it (core/ref.py),  *)
(* and the reply registry that asks wait on.                               *)
(*                                                                         *)
(* The program runs on one asyncio event loop: the code between two awaits *)
(* is atomic, so an action is one such segment, and the loop's choice of   *)
(* the next ready callback is the choice of the next action.               *)
(***************************************************************************)
EXTENDS Naturals, SequencesExt

CONSTANTS
    Tells,           \* one tell() call each: the message it carries
    Asks,            \* one ask() call each: the message it carries
    Stop,            \* the _Stop sentinel
    NoMsg,           \* "no message is being handled"
    Capacity,        \* mailbox_size
    Backend,         \* "memory" (MemoryMailbox) or "fast" (FastMailbox)
    Policy,          \* backpressure_policy: "block", "drop_new" or "fail"
    MaxFailures,     \* _MAX_CONSECUTIVE_FAILURES
    StopPolicies,    \* what stop_policy() may return: see NoPolicy below
    HasMiddleware,   \* TRUE when a middleware has an on_stopped hook
    Calls,           \* which of "stop" and "interrupt" callers make
    MaxJoinCancels   \* bound: cancellations of the task that awaits the actor

Messages == Tells \cup Asks

ASSUME CellAssumption ==
    /\ Tells \cap Asks = {}
    /\ Stop \notin Messages
    /\ NoMsg \notin Messages \cup {Stop}
    /\ Capacity \in Nat \ {0}
    /\ Backend \in {"memory", "fast"}
    /\ Policy \in {"block", "drop_new", "fail"}
    /\ MaxFailures \in Nat \ {0}
    /\ StopPolicies \subseteq [after : SUBSET Messages, idle : BOOLEAN]
    /\ HasMiddleware \in BOOLEAN
    /\ Calls \subseteq {"stop", "interrupt"}
    /\ MaxJoinCancels \in Nat

VARIABLES
    stopped,      \* _ActorCell.stopped
    run,          \* where start() and then the _run task are suspended
    policy,       \* cached_policy: the messages that end the actor once they are
                  \* handled, and whether it ends when idle
    cancel,       \* a cancellation of the _run task is requested, not delivered
    queue,        \* the mailbox
    putters,      \* tells parked in asyncio.Queue.put, first come first
    tell,         \* per tell() call: where it is suspended
    ask,          \* per ask() call: where it is suspended
    promise,      \* per ask() call: the future of ComposableFuture.promise()
    pending,      \* the keys of _ReplyRegistry._pending
    current,      \* the message the receive chain works on
    failures,     \* consecutive_failures
    taken,        \* history: messages handed to the receive chain
    dead,         \* ActorSystem._dead_letters
    hookRan,      \* history: actor.on_stopped() ended (result, error, timeout)
    joinCancels   \* counts cancellations of the joiner

mailbox == <<queue, putters>>
askers  == <<ask, promise, pending>>
history == <<taken, hookRan, joinCancels>>
vars    == <<stopped, run, policy, cancel, mailbox, tell, askers, current, failures,
             dead, history>>

\* StopMode.NEVER; ONE_TIME is [after |-> Messages, idle |-> FALSE], AfterMessage
\* has the set of the messages that carry its payload, AfterIdle sets idle.
NoPolicy == [after |-> {}, idle |-> FALSE]

\* The start() of the cell is in a lifecycle hook; its run task does not exist.
Starting == {"starting", "failed"}
\* The task exists and has not begun to shut down.
Looping  == {"scheduled", "idle", "handling"}
\* The suspension points of _shutdown_inner, and the state after it.
Stopping == {"mw", "hook", "retry"}
Ended    == {"done", "dead"}

Init ==
    /\ stopped = FALSE
    /\ run = "starting"
    /\ policy = NoPolicy
    /\ cancel = FALSE
    /\ queue = <<>>
    /\ putters = <<>>
    /\ tell = [t \in Tells |-> "new"]
    /\ ask = [a \in Asks |-> "new"]
    /\ promise = [a \in Asks |-> "none"]
    /\ pending = {}
    /\ current = NoMsg
    /\ failures = 0
    /\ taken = {}
    /\ dead = {}
    /\ hookRan = FALSE
    /\ joinCancels = 0

----------------------------------------------------------------------------
(* The mailbox.                                                            *)

\* Mutation of Full: one item too many.
FullLate == Len(queue) > Capacity

Full == Len(queue) >= Capacity

\* What put() does on a full mailbox: park the caller, push out the oldest
\* item (deque(maxlen)), or return False.
Parks  == Backend = "memory" /\ Policy = "block"

\* Mutation of Evicts: a blocking put on any mailbox behaves like the deque.
EvictsAlways == Policy = "block"

Evicts == Backend = "fast" /\ Policy = "block"

\* Mutation of WakePutters: emptying the mailbox wakes a single putter.
WakeOne(k) ==
    /\ putters' = IF putters = <<>> THEN <<>> ELSE Tail(putters)
    /\ tell' = [t \in Tells |->
                   IF putters # <<>> /\ t = Head(putters) THEN "woken" ELSE tell[t]]

\* Mutation of WakePutters: a get wakes nobody.
WakeNobody(k) == UNCHANGED <<putters, tell>>

\* Every get of asyncio.Queue wakes the first parked putter; k gets wake k.
WakePutters(k) ==
    LET n == IF k <= Len(putters) THEN k ELSE Len(putters)
    IN  /\ putters' = SubSeq(putters, n + 1, Len(putters))
        /\ tell' = [t \in Tells |->
                       IF \E i \in 1..n : putters[i] = t THEN "woken" ELSE tell[t]]

----------------------------------------------------------------------------
(* The callers of tell().                                                  *)

\* A message sent to a stopped actor, or dropped by the mailbox.
TellToDeadLetters(t) ==
    /\ tell[t] = "new"
    /\ stopped \/ (Full /\ ~Parks /\ ~Evicts)
    /\ dead' = dead \cup {t}
    /\ tell' = [tell EXCEPT ![t] = "returned"]
    /\ UNCHANGED mailbox

TellEnqueues(t) ==
    /\ tell[t] = "new"
    /\ ~stopped
    /\ ~Full \/ Evicts
    /\ queue' = IF Full THEN Append(Tail(queue), t) ELSE Append(queue, t)
    /\ tell' = [tell EXCEPT ![t] = "returned"]
    /\ UNCHANGED <<putters, dead>>

TellParks(t) ==
    /\ tell[t] = "new"
    /\ ~stopped
    /\ Full /\ Parks
    /\ putters' = Append(putters, t)
    /\ tell' = [tell EXCEPT ![t] = "blocked"]
    /\ UNCHANGED <<queue, dead>>

\* A woken putter looks at the queue again, but not at the cell.
PutterResumes(t) ==
    /\ tell[t] = "woken"
    /\ \/ /\ Full
          /\ putters' = Append(putters, t)
          /\ tell' = [tell EXCEPT ![t] = "blocked"]
          /\ UNCHANGED queue
       \/ /\ ~Full
          /\ queue' = Append(queue, t)
          /\ tell' = [tell EXCEPT ![t] = "returned"]
          /\ UNCHANGED putters
    /\ UNCHANGED dead

Tell(t) ==
    /\ TellToDeadLetters(t) \/ TellEnqueues(t) \/ TellParks(t) \/ PutterResumes(t)
    /\ UNCHANGED <<stopped, run, policy, cancel, askers, current, failures, history>>

----------------------------------------------------------------------------
(* The callers of ask() and the reply registry.                            *)

\* Mutation of Settle: a failed handler sends no reply.
SettleResultsOnly(S, outcome) ==
    [a \in Asks |-> IF a \in S \cap pending /\ promise[a] = "open" /\ outcome = "result"
                    THEN outcome ELSE promise[a]]

\* Mutation of Settle: a reply is given to a future that is already done.
SettleLate(S, outcome) ==
    [a \in Asks |-> IF a \in S \cap pending THEN outcome ELSE promise[a]]

\* resolve/reject of the asks in S: only a registered one, and only a future
\* that is not done; the entry is popped either way.
Settle(S, outcome) ==
    [a \in Asks |-> IF a \in S \cap pending /\ promise[a] = "open"
                    THEN outcome ELSE promise[a]]

\* ActorStoppedError before anything is registered.
AskStopped(a) ==
    /\ ask[a] = "new"
    /\ stopped
    /\ ask' = [ask EXCEPT ![a] = "done"]
    /\ UNCHANGED <<promise, pending, queue>>

\* Register, be rejected with MailboxFullError, and raise it: one segment.
AskRejected(a) ==
    /\ ask[a] = "new"
    /\ ~stopped
    /\ Full
    /\ ask' = [ask EXCEPT ![a] = "done"]
    /\ promise' = [promise EXCEPT ![a] = "full"]
    /\ UNCHANGED <<pending, queue>>

AskEnqueues(a) ==
    /\ ask[a] = "new"
    /\ ~stopped
    /\ ~Full
    /\ queue' = Append(queue, a)
    /\ ask' = [ask EXCEPT ![a] = "waiting"]
    /\ promise' = [promise EXCEPT ![a] = "open"]
    /\ pending' = pending \cup {a}

\* The deadline of with_timeout: the awaited future is cancelled at once, the
\* asker runs later, and an answer may be given in between.
AskDeadline(a) ==
    /\ ask[a] = "waiting"
    /\ promise[a] = "open"
    /\ promise' = [promise EXCEPT ![a] = "cancelled"]
    /\ UNCHANGED <<ask, pending, queue>>

AskResumes(a) ==
    /\ ask[a] = "waiting"
    /\ promise[a] # "open"
    /\ ask' = [ask EXCEPT ![a] = "done"]
    /\ pending' = pending \ {a}
    /\ UNCHANGED <<promise, queue>>

Ask(a) ==
    /\ \/ AskStopped(a) \/ AskRejected(a) \/ AskEnqueues(a)
       \/ AskDeadline(a) \/ AskResumes(a)
    /\ UNCHANGED <<stopped, run, policy, cancel, putters, tell, current, failures,
                   dead, history>>

----------------------------------------------------------------------------
(* The callers of stop() and interrupt(), and the task that joins.         *)

TaskExists == run \in Looping \cup Stopping

RequestStop ==
    /\ "stop" \in Calls
    /\ ~stopped
    /\ \/ /\ ~Full
          /\ queue' = Append(queue, Stop)
          /\ UNCHANGED <<stopped, cancel>>
       \/ /\ Full /\ run \in Starting
          /\ stopped' = TRUE
          /\ UNCHANGED <<queue, cancel>>
       \/ /\ Full /\ TaskExists
          /\ cancel' = TRUE
          /\ UNCHANGED <<queue, stopped>>
    /\ UNCHANGED <<run, policy, putters, tell, askers, current, failures, dead, history>>

Interrupt ==
    /\ "interrupt" \in Calls
    /\ ~stopped
    /\ TaskExists
    /\ cancel' = TRUE
    /\ UNCHANGED <<stopped, run, policy, mailbox, tell, askers, current, failures,
                   dead, history>>

\* The first task that awaits _run_future awaits the run task itself, so the
\* cancellation of that task is handed on to the run task.
JoinerCancelled ==
    /\ joinCancels < MaxJoinCancels
    /\ TaskExists
    /\ cancel' = TRUE
    /\ joinCancels' = joinCancels + 1
    /\ UNCHANGED <<stopped, run, policy, mailbox, tell, askers, current, failures,
                   dead, taken, hookRan>>

----------------------------------------------------------------------------
(* The run task.                                                           *)

StartOk ==
    /\ run = "starting"
    /\ run' = "scheduled"
    /\ UNCHANGED <<stopped, policy, cancel, mailbox, tell, askers, current, failures,
                   dead, history>>

\* on_started raises: spawn() forgets the cell, the refs it gave out remain.
StartFails ==
    /\ run = "starting"
    /\ run' = "failed"
    /\ UNCHANGED <<stopped, policy, cancel, mailbox, tell, askers, current, failures,
                   dead, history>>

\* finally: _shutdown_inner up to its first await, the mailbox drained.  answers
\* and S are the promises and the keys left by the segment that ends the loop.
Shutdown(answers, S) ==
    LET drained == ToSet(queue)
    IN  /\ stopped' = TRUE
        /\ run' = IF HasMiddleware THEN "mw" ELSE "hook"
        /\ promise' = [a \in Asks |->
                          IF a \in drained \cap S /\ answers[a] = "open"
                          THEN "stopped" ELSE answers[a]]
        /\ pending' = S \ drained
        /\ dead' = dead \cup (drained \cap Tells)
        /\ queue' = <<>>
        /\ WakePutters(Len(queue))
        /\ current' = NoMsg
        /\ UNCHANGED <<ask, history>>

\* Mutations of LeavesLoop: the stopped flag, or the sentinel, is not looked at.
LeavesOnSentinel == queue # <<>> /\ Head(queue) = Stop
LeavesOnFlag == stopped

LeavesLoop == stopped \/ (queue # <<>> /\ Head(queue) = Stop)

\* The head of the loop: leave, wait in get(), or take the next message in the
\* same segment.
LoopHead(answers, S) ==
    \/ /\ LeavesLoop
       /\ Shutdown(answers, S)
    \/ /\ ~LeavesLoop
       /\ promise' = answers
       /\ pending' = S
       /\ UNCHANGED <<stopped, ask, dead, hookRan, joinCancels>>
       /\ \/ /\ queue = <<>>
             /\ run' = "idle"
             /\ current' = NoMsg
             /\ UNCHANGED <<mailbox, tell, taken>>
          \/ /\ queue # <<>>
             /\ run' = "handling"
             /\ current' = Head(queue)
             /\ taken' = taken \cup {Head(queue)}
             /\ queue' = Tail(queue)
             /\ WakePutters(1)

FirstStep ==
    /\ run = "scheduled"
    /\ ~cancel
    /\ policy' \in IF stopped THEN {policy} ELSE StopPolicies
    /\ LoopHead(promise, pending)
    /\ UNCHANGED <<cancel, failures>>

GetReturns ==
    /\ run = "idle"
    /\ ~cancel
    /\ queue # <<>>
    /\ LoopHead(promise, pending)
    /\ UNCHANGED <<policy, cancel, failures>>

\* A handler may cancel its own task and still return, so no guard on cancel.
HandlerReturns ==
    /\ run = "handling"
    /\ failures' = 0
    /\ LET answers == Settle({current}, "result")
           left == pending \ {current}
       IN  IF current \in policy.after THEN Shutdown(answers, left)
                                    ELSE LoopHead(answers, left)
    /\ UNCHANGED <<policy, cancel>>

\* Mutation of GivesUp: one failure too many.
GivesUpLate(n) == n > MaxFailures

GivesUp(n) == n >= MaxFailures

HandlerRaises ==
    /\ run = "handling"
    /\ failures' = failures + 1
    /\ LET answers == Settle({current}, "error")
           left == pending \ {current}
       IN  IF GivesUp(failures + 1) THEN Shutdown(answers, left)
                                    ELSE LoopHead(answers, left)
    /\ UNCHANGED <<policy, cancel>>

\* fail_after(idle_timeout) fires: it cancels a get() that still waits.
IdleTimeout ==
    /\ policy.idle
    /\ run = "idle"
    /\ ~cancel
    /\ queue = <<>>
    /\ cancel' = TRUE
    /\ UNCHANGED <<stopped, run, policy, mailbox, tell, askers, current, failures,
                   dead, history>>

\* A task cancelled before its first step never enters _run.
CancelledUnborn ==
    /\ run = "scheduled"
    /\ cancel
    /\ run' = "dead"
    /\ cancel' = FALSE
    /\ UNCHANGED <<stopped, policy, mailbox, tell, askers, current, failures, dead,
                   history>>

\* CancelledError in get() or in the receive chain ends the loop.
CancelledLoop ==
    /\ run \in {"idle", "handling"}
    /\ cancel
    /\ Shutdown(promise, pending)
    /\ cancel' = FALSE
    /\ UNCHANGED <<policy, failures>>

\* Mutation of AfterCancel: on_stopped is not tried again.
AfterCancelGivesUp(pc) == "done"

AfterCancel(pc) == IF pc = "hook" THEN "retry" ELSE "done"

\* In a middleware's hook, or in the second on_stopped, CancelledError leaves
\* _shutdown_inner and is swallowed by _shutdown; in the first on_stopped it is
\* caught and the hook is tried again.
CancelledStopping ==
    /\ run \in Stopping
    /\ cancel
    /\ run' = AfterCancel(run)
    /\ cancel' = FALSE
    /\ UNCHANGED <<stopped, policy, mailbox, tell, askers, current, failures, dead,
                   history>>

MiddlewareDone ==
    /\ run = "mw"
    /\ run' = "hook"
    /\ UNCHANGED <<stopped, policy, cancel, mailbox, tell, askers, current, failures,
                   dead, history>>

HookDone ==
    /\ run \in {"hook", "retry"}
    /\ run' = "done"
    /\ hookRan' = TRUE
    /\ UNCHANGED <<stopped, policy, cancel, mailbox, tell, askers, current, failures,
                   dead, taken, joinCancels>>

Start == StartOk \/ StartFails
RunStep ==
    \/ FirstStep \/ GetReturns
    \/ CancelledUnborn \/ CancelledLoop \/ CancelledStopping
    \/ MiddlewareDone \/ HookDone
Handler == HandlerReturns \/ HandlerRaises

Next ==
    \/ \E t \in Tells : Tell(t)
    \/ \E a \in Asks : Ask(a)
    \/ RequestStop \/ Interrupt \/ JoinerCancelled
    \/ Start \/ RunStep \/ Handler \/ IdleTimeout

Spec == Init /\ [][Next]_vars

\* The event loop runs every ready callback: a woken putter, an asker whose
\* future is done, the run task.  Hooks and handlers end (hooks are timed by
\* the code, handlers by assumption).  Nothing is assumed of the callers, of the
\* ask deadline or of the idle timeout.
Fairness ==
    /\ \A t \in Tells : WF_vars(PutterResumes(t) /\ Tell(t))
    /\ \A a \in Asks : WF_vars(AskResumes(a) /\ Ask(a))
    /\ WF_vars(Start)
    /\ WF_vars(RunStep)
    /\ WF_vars(Handler)

FairSpec == Spec /\ Fairness

----------------------------------------------------------------------------
(* Invariants.                                                             *)

InQueue == ToSet(queue)

TypeOK ==
    /\ stopped \in BOOLEAN
    /\ run \in Starting \cup Looping \cup Stopping \cup Ended
    /\ policy \in [after : SUBSET Messages, idle : BOOLEAN]
    /\ cancel \in BOOLEAN
    /\ queue \in Seq(Messages \cup {Stop}) /\ Len(queue) <= Capacity
    /\ putters \in Seq(Tells)
    /\ tell \in [Tells -> {"new", "blocked", "woken", "returned"}]
    /\ ask \in [Asks -> {"new", "waiting", "done"}]
    /\ promise \in [Asks -> {"none", "open", "result", "error", "full", "stopped",
                             "cancelled"}]
    /\ pending \subseteq Asks
    /\ current \in Messages \cup {NoMsg}
    /\ failures \in Nat
    /\ taken \subseteq Messages
    /\ dead \subseteq Tells
    /\ hookRan \in BOOLEAN
    /\ joinCancels \in 0..MaxJoinCancels

\* An ask whose future is open is registered, and either the mailbox or the
\* handler still holds its message; the one exception is an ask whose handler a
\* cancellation ended (_run's except CancelledError sends no reply).
AskHeld ==
    \A a \in Asks : promise[a] = "open" =>
        /\ ask[a] = "waiting"
        /\ a \in pending
        /\ a \in InQueue \/ current = a \/ (a \in taken /\ stopped)

\* Where a tell's message can be.
Places(t) == {p \in {"queue", "taken", "dead"} :
                 \/ p = "queue" /\ t \in InQueue
                 \/ p = "taken" /\ t \in taken
                 \/ p = "dead"  /\ t \in dead}

\* A tell() that returned left its message in exactly one place: the mailbox, the
\* handler, or the dead letters; never lost, never in two.  One that has not
\* returned left it nowhere.
TellAccounted ==
    \A t \in Tells :
        IF tell[t] = "returned" THEN \E p \in Places(t) : Places(t) = {p}
                                ELSE Places(t) = {}

\* While tells are parked, each free slot of the mailbox has a woken putter on
\* its way to it: no parked tell is forgotten with room in the mailbox.
NoLostWakeup ==
    putters # <<>> =>
        Capacity - Len(queue) <= Cardinality({t \in Tells : tell[t] = "woken"})

\* The loop never goes on after _MAX_CONSECUTIVE_FAILURES failures in a row.
FailureLimit == run \in Looping => failures < MaxFailures

\* An actor whose run task ended its shutdown has run on_stopped to its end.
HookRuns == run = "done" => hookRan

(* The contract with askers, seen from the outside.                        *)

View(a) ==
    CASE promise[a] \in {"result", "error"} -> "answered"
      [] promise[a] \in {"full", "stopped"} -> "refused"
      [] promise[a] = "cancelled" -> "expired"
      [] promise[a] = "open" -> "open"
      [] promise[a] = "none" -> IF ask[a] = "done" THEN "refused" ELSE "idle"

Contract == INSTANCE AskContract WITH
    Nobody  <- NoMsg,
    st      <- [a \in Asks |-> View(a)],
    serving <- IF current \in Asks THEN current ELSE NoMsg,
    served  <- taken \cap Asks,
    closed  <- run \in Stopping \cup {"done"}

\* A cell whose mailbox never evicts keeps the contract of AskContract.
KeepsContract == Contract!Spec

\* What askers may rely on: a refusal (mailbox full, actor stopped) means that the
\* handler has not seen the message, an answer that it has.
RefusedNeverHandled == Contract!OutcomesTruthful

(* Action properties.                                                      *)

\* Once stopped is set, by request_stop on a full mailbox during start() too, no
\* message reaches the handler.
NoHandlingOnceStopped == [][stopped => taken' = taken]_vars

(* Liveness, under Fairness.                                               *)

NeverRan == run \in {"failed", "dead"}

\* An ask is settled without the help of its deadline, unless start() failed, the
\* task was cancelled before its first step, or its handler was cancelled.
AskSettles ==
    \A a \in Asks :
        ask[a] = "waiting" ~> ask[a] = "done" \/ NeverRan \/ (stopped /\ a \in taken)

\* A _Stop in the mailbox, or a requested cancellation, ends the run task.
StopCompletes == (Stop \in InQueue \/ cancel) ~> (run \in Ended \/ NeverRan)

\* A parked tell gets through while the actor lives.
TellReturns ==
    \A t \in Tells :
        tell[t] = "blocked" ~> tell[t] = "returned" \/ stopped \/ NeverRan
=============================================================================
