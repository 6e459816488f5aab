------------------------------ MODULE CellTree ------------------------------
(***************************************************************************)
(* A tree of actor cells (core/system.py): a parent spawns children, a     *)
(* child that fails is supervised (core/supervision.py), and a cell that   *)
(* ends stops its children first.  A child's failure is handled in the     *)
(* child's own task, on its parent's data; ActorCell has the detail of one *)
(* cell's mailbox and hooks that is left out here.                         *)
(***************************************************************************)
EXTENDS Naturals, SequencesExt

CONSTANTS
    Cells, Root, None,
    Parent,        \* the parent of each cell, None for the root
    Order,         \* the rank of each cell: the order of the children dicts
    Initial,       \* the cells that run at the start; others may be spawned
    Capacity,      \* mailbox_size of every cell
    Modes,         \* <<strategy, escalates>>: what the supervisors of a tree may be
    MaxRestarts,   \* max_restarts; the model covers one within_seconds window
    MaxMessages,   \* bound: messages sent to the tree
    MaxCancels     \* bound: cancellations from outside

ASSUME TreeAssumption ==
    /\ Root \in Cells /\ None \notin Cells
    /\ Parent \in [Cells -> Cells \cup {None}]
    /\ \A c \in Cells : Parent[c] = None <=> c = Root
    /\ Order \in [Cells -> Nat] /\ \A c, d \in Cells : Order[c] = Order[d] => c = d
    /\ Initial \subseteq Cells /\ Root \in Initial
    /\ \A c \in Initial \ {Root} : Parent[c] \in Initial
    /\ Modes \subseteq {"one", "all"} \X BOOLEAN
    /\ Capacity \in Nat \ {0} /\ MaxRestarts \in Nat
    /\ MaxMessages \in Nat /\ MaxCancels \in Nat

VARIABLES
    strategy,   \* "one" (OneForOneStrategy) or "all" (AllForOneStrategy)
    escalates,  \* whether deciders may answer Directive.escalate
    life,       \* per cell: where its start() or its _run task is suspended
    mail,       \* per cell: its mailbox, of "msg" and "stop"
    stopped,    \* per cell: _ActorCell.stopped
    cancel,     \* per cell: a cancellation of its task is requested
    kids,       \* per cell: its children dict
    actor,      \* per cell: the number of its actor instance, 0 for None
    made,       \* per cell: instances made so far
    on,         \* per cell: the instance its handler runs on
    stamps,     \* per cell: len(_restart_timestamps[name])
    job,        \* per cell: the restarts its task has to do for its failure
    waits,      \* per cell: the children its shutdown waits for
    late,       \* per cell: the timeout of that wait has fired
    cut,        \* per cell: that wait was cancelled
    inited,     \* history: instances whose start hooks are over
    closed,     \* history: instances whose on_stopped was called
    sent, cancels

config  == <<strategy, escalates>>
tasks   == <<life, mail, stopped, cancel, kids, on, waits, late, cut>>
objects == <<actor, made, stamps, job, inited, closed>>
bounds  == <<sent, cancels>>
vars    == <<config, tasks, objects, bounds>>

NoJob == [now |-> None, todo |-> {}, phase |-> "none", new |-> 0]

Running == {"idle", "handling", "spawning", "restarting"}
Closing == {"joining", "hook", "retry"}
HasTask(c) == life[c] \in Running \cup Closing \cup {"done"}

Init ==
    /\ \E m \in Modes : strategy = m[1] /\ escalates = m[2]
    /\ life = [c \in Cells |-> IF c \in Initial THEN "idle" ELSE "none"]
    /\ mail = [c \in Cells |-> <<>>]
    /\ stopped = [c \in Cells |-> FALSE]
    /\ cancel = [c \in Cells |-> FALSE]
    /\ kids = [c \in Cells |-> {k \in Initial : Parent[k] = c}]
    /\ actor = [c \in Cells |-> IF c \in Initial THEN 1 ELSE 0]
    /\ made = actor
    /\ on = [c \in Cells |-> 0]
    /\ stamps = [c \in Cells |-> 0]
    /\ job = [c \in Cells |-> NoJob]
    /\ waits = [c \in Cells |-> {}]
    /\ late = [c \in Cells |-> FALSE]
    /\ cut = [c \in Cells |-> FALSE]
    /\ inited = {<<c, 1>> : c \in Initial}
    /\ closed = {}
    /\ sent = 0
    /\ cancels = 0

----------------------------------------------------------------------------
(* Requests to stop, and the run loop.  S is a set of cells on which       *)
(* request_stop() is called in this segment, before the loop goes on.      *)

\* Mutation of Full: one item too many.
FullLate(c) == Len(mail[c]) > Capacity

Full(c) == Len(mail[c]) >= Capacity

MailAfter(S) ==
    [c \in Cells |-> IF c \in S /\ ~stopped[c] /\ ~Full(c) THEN Append(mail[c], "stop")
                                                          ELSE mail[c]]
CancelAfter(S) ==
    [c \in Cells |-> cancel[c] \/ (c \in S /\ ~stopped[c] /\ Full(c) /\ HasTask(c))]
StoppedAfter(S) ==
    [c \in Cells |-> stopped[c] \/ (c \in S /\ Full(c) /\ ~HasTask(c))]

\* Mutation of Told: the children are waited for and not told.
ToldNobody(c) == {}

\* The children a shutdown asks to stop.
Told(c) == kids[c]

\* Mutation of Awaited: the children are told to stop and not waited for.
AwaitedNobody(c) == {}

\* The children a shutdown waits for: those whose task exists.
Awaited(c) == {k \in kids[c] : HasTask(k)}

\* on_stopped is called on the instance that the cell has now.
CallsOnStopped(c) == closed' = closed \cup {<<c, actor[c]>>}

\* A child whose start() was cut off with its parent's handler stays in the dict.
Abandoned(k, c) == life[k] = "starting" /\ k \in kids[c]

\* _shutdown_inner of c up to its first suspension, after request_stop() on S:
\* stop the children, wait for them or go on to drain the mailbox and on_stopped.
\* pending tells whether a cancellation of c is left.
BeginShutdown(c, S, pending) ==
    LET T == S \cup Told(c)
    IN  /\ stopped' = [StoppedAfter(T) EXCEPT ![c] = TRUE]
        /\ cancel' = [CancelAfter(T) EXCEPT ![c] = pending]
        /\ life' = [k \in Cells |->
                       IF k = c THEN IF Awaited(c) = {} THEN "hook" ELSE "joining"
                       ELSE IF Abandoned(k, c) THEN "ghost" ELSE life[k]]
        /\ waits' = [waits EXCEPT ![c] = Awaited(c)]
        /\ \/ /\ Awaited(c) # {}
              /\ mail' = MailAfter(T)
              /\ UNCHANGED closed
           \/ /\ Awaited(c) = {}
              /\ mail' = [MailAfter(T) EXCEPT ![c] = <<>>]
              /\ CallsOnStopped(c)
        /\ on' = [on EXCEPT ![c] = 0]
        /\ UNCHANGED <<kids, late, cut>>

\* The head of the run loop of c, after request_stop() on S.
Loop(c, S) ==
    LET inbox == MailAfter(S)[c]
        quits == StoppedAfter(S)[c] \/ (inbox # <<>> /\ Head(inbox) = "stop")
    IN  \/ quits /\ BeginShutdown(c, S, CancelAfter(S)[c])
        \/ /\ ~quits
           /\ life' = [life EXCEPT ![c] = IF inbox = <<>> THEN "idle" ELSE "handling"]
           /\ on' = [on EXCEPT ![c] = IF inbox = <<>> THEN 0 ELSE actor[c]]
           /\ mail' = [MailAfter(S) EXCEPT ![c] = IF inbox = <<>> THEN <<>> ELSE Tail(inbox)]
           /\ stopped' = StoppedAfter(S)
           /\ cancel' = CancelAfter(S)
           /\ UNCHANGED <<kids, waits, late, cut, closed>>

Send(c) ==
    /\ sent < MaxMessages
    /\ ~stopped[c] /\ ~Full(c) /\ HasTask(c)
    /\ sent' = sent + 1
    /\ mail' = [mail EXCEPT ![c] = Append(@, "msg")]
    /\ UNCHANGED <<config, life, stopped, cancel, kids, on, waits, late, cut, objects, cancels>>

\* ref.stop(), ActorSystem.shutdown() and context.stop_self().
StopCell(c) ==
    /\ HasTask(c) /\ ~stopped[c] /\ "stop" \notin ToSet(mail[c])
    /\ mail' = MailAfter({c})
    /\ cancel' = CancelAfter({c})
    /\ UNCHANGED <<config, life, stopped, kids, on, waits, late, cut, objects, bounds>>

\* ref.interrupt(), and shutdown() after its timeout.
Interrupt(c) ==
    /\ cancels < MaxCancels
    /\ HasTask(c) /\ ~stopped[c]
    /\ cancels' = cancels + 1
    /\ cancel' = [cancel EXCEPT ![c] = TRUE]
    /\ UNCHANGED <<config, life, mail, stopped, kids, on, waits, late, cut, objects, sent>>

GetReturns(c) ==
    /\ life[c] = "idle" /\ ~cancel[c]
    /\ mail[c] # <<>>
    /\ Loop(c, {})
    /\ UNCHANGED <<config, actor, made, stamps, job, inited, bounds>>

HandlerReturns(c) ==
    /\ life[c] = "handling"
    /\ Loop(c, {})
    /\ UNCHANGED <<config, actor, made, stamps, job, inited, bounds>>

----------------------------------------------------------------------------
(* Spawning, by the handler of the parent.                                 *)

Spawn(c) ==
    LET p == Parent[c]
    IN  /\ life[c] = "none"
        /\ life[p] = "handling"
        /\ life' = [life EXCEPT ![c] = "starting", ![p] = "spawning"]
        /\ kids' = [kids EXCEPT ![p] = @ \cup {c}]
        /\ actor' = [actor EXCEPT ![c] = 1]
        /\ made' = [made EXCEPT ![c] = 1]
        /\ UNCHANGED <<config, mail, stopped, cancel, on, waits, late, cut, stamps, job,
                       inited, closed, bounds>>

StartOk(c) ==
    /\ life[c] = "starting"
    /\ life' = [life EXCEPT ![c] = "idle", ![Parent[c]] = "handling"]
    /\ inited' = inited \cup {<<c, 1>>}
    /\ UNCHANGED <<config, mail, stopped, cancel, kids, on, waits, late, cut, actor, made,
                   stamps, job, closed, bounds>>

StartFails(c) ==
    LET p == Parent[c]
    IN  /\ life[c] = "starting"
        /\ life' = [life EXCEPT ![c] = "failed", ![p] = "handling"]
        /\ kids' = [kids EXCEPT ![p] = @ \ {c}]
        /\ UNCHANGED <<config, mail, stopped, cancel, on, waits, late, cut, objects, bounds>>

----------------------------------------------------------------------------
(* Supervision.                                                            *)

\* Mutation of WithinLimit: one restart too many.
WithinLimitLate(c) == stamps[c] <= MaxRestarts

\* record_restart: the new time is counted before it is compared.
WithinLimit(c) == stamps[c] + 1 <= MaxRestarts

\* Mutation of StoppedFor: a restart makes the new instance and forgets the old one.
StoppedForNew(c) == {}

\* The instance that a restart of c calls on_stopped on; none if c ended meanwhile.
StoppedFor(c) == {<<c, i>> : i \in {actor[c]} \ {0}}

\* The failing task of f goes through todo, children of p, in order: those gone are
\* skipped, those over the limit are told to stop, the first one left is restarted.  S is
\* as above.
NextRestart(f, p, todo, S) ==
    LET Here       == todo \cap kids[p]
        Fit        == {c \in Here : WithinLimit(c)}
        Counted(C) == stamps' = [c \in Cells |-> IF c \in C THEN stamps[c] + 1 ELSE stamps[c]]
        Asked(C)   == S \cup {c \in C : ~WithinLimit(c)}
    IN  \/ /\ Fit = {}
           /\ Counted(Here)
           /\ job' = [job EXCEPT ![f] = NoJob]
           /\ Loop(f, Asked(Here))
        \/ \E n \in Fit :
              LET Seen == {c \in Here : Order[c] <= Order[n]}
              IN  /\ \A c \in Fit : Order[n] <= Order[c]
                  /\ Counted(Seen)
                  /\ job' = [job EXCEPT ![f] = [now |-> n, todo |-> {c \in todo : Order[c] > Order[n]},
                                                phase |-> "old", new |-> 0]]
                  /\ life' = [life EXCEPT ![f] = "restarting"]
                  /\ closed' = closed \cup StoppedFor(n)
                  /\ mail' = MailAfter(Asked(Seen))
                  /\ stopped' = StoppedAfter(Asked(Seen))
                  /\ cancel' = CancelAfter(Asked(Seen))
                  /\ on' = [on EXCEPT ![f] = 0]
                  /\ UNCHANGED <<kids, waits, late, cut>>

\* Mutation of Affected: every failure concerns all children.
AffectedAlways(m) == kids[Parent[m]]

\* The children that the failure of m concerns.
Affected(m) == IF strategy = "one" THEN {m} ELSE kids[Parent[m]]

\* What the parent of m does about a failure in the task of f; the cells in S were
\* stopped on the way up.
Directive(f, m, S) ==
    \/ /\ Loop(f, S)                                                    \* resume
       /\ UNCHANGED <<stamps, job>>
    \/ /\ Loop(f, S \cup (Affected(m) \cap kids[Parent[m]]))     \* stop
       /\ UNCHANGED <<stamps, job>>
    \/ NextRestart(f, Parent[m], Affected(m), S)                                   \* restart

\* escalate stops the child and puts its parent in its place; at the root it ends.
Escalated(f) ==
    LET p == Parent[f]
    IN  \/ /\ p = Root
           /\ Loop(f, {f})
           /\ UNCHANGED <<stamps, job>>
        \/ /\ p # Root
           /\ \/ Directive(f, p, {f})
              \/ /\ Parent[p] = Root
                 /\ Loop(f, {f, p})
                 /\ UNCHANGED <<stamps, job>>

\* A handler that raises.  The root counts failures and may end (ActorCell).
HandlerRaises(f) ==
    /\ life[f] = "handling"
    /\ \/ /\ f = Root
          /\ Loop(f, {}) \/ BeginShutdown(f, {}, cancel[f])
          /\ UNCHANGED <<stamps, job>>
       \/ /\ f # Root
          /\ Directive(f, f, {}) \/ (escalates /\ Escalated(f))
    /\ UNCHANGED <<config, actor, made, inited, bounds>>

\* The old instance's on_stopped is over: the cell gets a fresh instance.
OldStopped(f) ==
    LET n == job[f].now
    IN  /\ life[f] = "restarting" /\ job[f].phase = "old"
        /\ made' = [made EXCEPT ![n] = @ + 1]
        /\ actor' = [actor EXCEPT ![n] = made[n] + 1]
        /\ job' = [job EXCEPT ![f].phase = "new", ![f].new = made[n] + 1]
        /\ UNCHANGED <<config, tasks, stamps, inited, closed, bounds>>

\* on_restart and on_started of the new instance are over; failed if they raised.
NewStarted(f) ==
    LET n == job[f].now
    IN  /\ life[f] = "restarting" /\ job[f].phase = "new"
        /\ inited' = inited \cup {<<n, job[f].new>>}
        /\ \E S \in {{}, {n}} :
              \/ /\ job[f].todo = {}
                 /\ Loop(f, S)
                 /\ job' = [job EXCEPT ![f] = NoJob]
                 /\ UNCHANGED stamps
              \/ /\ job[f].todo # {}
                 /\ NextRestart(f, Parent[n], job[f].todo, S)
        /\ UNCHANGED <<config, actor, made, bounds>>

----------------------------------------------------------------------------
(* The shutdown of a cell with children, and cancellation.                 *)

\* fail_after(10) fires: the wait for the children is cancelled, which hands a
\* cancellation to their tasks, again and again until they are done.
JoinTimesOut(c) ==
    /\ life[c] = "joining" /\ ~late[c]
    /\ late' = [late EXCEPT ![c] = TRUE]
    /\ UNCHANGED <<config, life, mail, stopped, cancel, kids, on, waits, cut, objects, bounds>>

\* All children awaited are done: drain the mailbox and call on_stopped; or, if the
\* wait was cancelled, leave _shutdown_inner.  With a timeout and a cancellation the
\* last delivered decides.
JoinDone(c) ==
    /\ life[c] = "joining"
    /\ \A k \in waits[c] : life[k] = "done"
    /\ waits' = [waits EXCEPT ![c] = {}]
    /\ \/ /\ ~cut[c] \/ late[c]
          /\ life' = [life EXCEPT ![c] = "hook"]
          /\ CallsOnStopped(c)
          /\ mail' = [mail EXCEPT ![c] = <<>>]
       \/ /\ cut[c]
          /\ life' = [life EXCEPT ![c] = "done"]
          /\ UNCHANGED <<mail, closed>>
    /\ UNCHANGED <<config, stopped, cancel, kids, on, late, cut, actor, made, stamps, job,
                   inited, bounds>>

HookDone(c) ==
    /\ life[c] \in {"hook", "retry"}
    /\ life' = [life EXCEPT ![c] = "done"]
    /\ actor' = [actor EXCEPT ![c] = 0]
    /\ kids' = IF c = Root THEN kids ELSE [kids EXCEPT ![Parent[c]] = @ \ {c}]
    /\ UNCHANGED <<config, mail, stopped, cancel, on, waits, late, cut, made, stamps, job,
                   inited, closed, bounds>>

\* The parent's timed-out wait cancels c over and over.
Stormed(c) == c # Root /\ late[Parent[c]] /\ c \in waits[Parent[c]]

AfterCancel(place) == IF place = "hook" THEN "retry" ELSE "done"

\* CancelledError where c is suspended: it ends the loop, is handed on to the
\* children that c waits for, or cuts on_stopped off, which is tried again once.
\* A shutdown that was cut off leaves the cell in its parent's dict.
Cancelled(c) ==
    /\ cancel[c] \/ Stormed(c)
    /\ \/ /\ life[c] \in Running
          /\ BeginShutdown(c, {}, FALSE)
          /\ job' = [job EXCEPT ![c] = NoJob]
       \/ /\ life[c] = "joining"
          /\ cut' = [cut EXCEPT ![c] = TRUE]
          /\ cancel' = [k \in Cells |-> IF k = c THEN FALSE
                                       ELSE cancel[k] \/ (k \in waits[c] /\ life[k] # "done")]
          /\ UNCHANGED <<life, mail, stopped, kids, on, waits, late, job, closed>>
       \/ /\ life[c] \in {"hook", "retry"}
          /\ life' = [life EXCEPT ![c] = AfterCancel(life[c])]
          /\ cancel' = [cancel EXCEPT ![c] = FALSE]
          /\ UNCHANGED <<mail, stopped, kids, on, waits, late, cut, job, closed>>
    /\ UNCHANGED <<config, actor, made, stamps, inited, bounds>>

Step(c) ==
    \/ GetReturns(c) \/ HandlerReturns(c) \/ HandlerRaises(c) \/ OldStopped(c) \/ NewStarted(c)
    \/ JoinDone(c) \/ HookDone(c) \/ Cancelled(c)

Next ==
    \E c \in Cells :
        \/ Send(c) \/ StopCell(c) \/ Interrupt(c)
        \/ Step(c) \/ JoinTimesOut(c)
        \/ c # Root /\ (Spawn(c) \/ StartOk(c) \/ StartFails(c))

Spec == Init /\ [][Next]_vars

\* Handlers and hooks end and ready tasks run; no timeout has to fire.
Fairness == \A c \in Cells :
    /\ WF_vars(Step(c))
    /\ WF_vars(c # Root /\ (StartOk(c) \/ StartFails(c)))

FairSpec == Spec /\ Fairness

----------------------------------------------------------------------------
(* Properties.                                                             *)

TypeOK ==
    /\ strategy \in {"one", "all"} /\ escalates \in BOOLEAN
    /\ life \in [Cells -> {"none", "starting", "failed", "ghost", "done"} \cup Running \cup Closing]
    /\ mail \in [Cells -> Seq({"msg", "stop"})] /\ \A c \in Cells : Len(mail[c]) <= Capacity
    /\ stopped \in [Cells -> BOOLEAN] /\ cancel \in [Cells -> BOOLEAN]
    /\ late \in [Cells -> BOOLEAN] /\ cut \in [Cells -> BOOLEAN]
    /\ kids \in [Cells -> SUBSET Cells] /\ waits \in [Cells -> SUBSET Cells]
    /\ actor \in [Cells -> Nat] /\ made \in [Cells -> Nat] /\ on \in [Cells -> Nat]
    /\ stamps \in [Cells -> Nat]
    /\ job \in [Cells -> [now : Cells \cup {None}, todo : SUBSET Cells,
                          phase : {"none", "old", "new"}, new : Nat]]
    /\ inited \subseteq Cells \X Nat /\ closed \subseteq Cells \X Nat
    /\ sent \in 0..MaxMessages /\ cancels \in 0..MaxCancels

Over(c) == life[c] \in {"none", "failed", "ghost", "done"}

\* Only the failing child is ever restarted, by its own task.
Calm == strategy = "one" /\ ~escalates

\* One-for-one and without escalation, an instance handles messages only between the
\* end of its start hooks and the call of its on_stopped, through any restarts.
HandlesWhileUp ==
    Calm => \A c \in Cells : on[c] # 0 => <<c, on[c]>> \in inited \ closed

\* There, every instance a cell ever had got its on_stopped once the cell is done;
\* the exception is a cell whose wait for its children was cancelled.
InstancesClosed ==
    Calm => \A c \in Cells : life[c] = "done" /\ ~cut[c] =>
                \A i \in 1..made[c] : <<c, i>> \in closed

\* No child is restarted more than max_restarts times in a window, by however many
\* failures of its siblings, its own children and itself.
RestartLimit == \A c \in Cells : made[c] <= 1 + MaxRestarts

\* A cell calls on_stopped, and ends, only after its children have ended, also when
\* its wait for them times out or is cancelled.
ChildrenFirst ==
    \A c \in Cells \ {Root} : life[Parent[c]] \in {"hook", "retry", "done"} => Over(c)

\* A root that stops takes the whole tree with it, whatever its cells are doing:
\* handling, restarting one another, spawning or waiting for their children.
TreeStops == stopped[Root] ~> \A c \in Cells : Over(c)
=============================================================================
