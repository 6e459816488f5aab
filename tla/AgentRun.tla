------------------------------ MODULE AgentRun ------------------------------
(* AgentSystem.run and ask_stream: an agent's events go through a collector     *)
(* actor into the stream the caller reads, while a background task drives the   *)
(* agent and tidies up; ActorSystem's table of root names and its shutdown.     *)
EXTENDS Naturals, Sequences, SequencesExt

CONSTANTS Runs,      \* calls of AgentSystem.run, each with a root agent of its own
          Asks,      \* calls of ask_stream on one shared agent
          Shared,    \* that agent
          IdOf,      \* run_id of each run
          None,
          MaxChunks, \* events an agent emits beside its first and its last
          Halt,
          Workloads  \* sets of calls that are made together, and Halt for a shutdown

Calls  == Runs \cup Asks

ASSUME Names == /\ Shared \notin Calls /\ None \notin Calls
                /\ Runs \cap Asks = {} /\ DOMAIN IdOf = Runs
                /\ Workloads \subseteq SUBSET (Calls \cup {Halt})

Agents == Runs \cup {Shared}
Target(c) == IF c \in Runs THEN c ELSE Shared

VARIABLES
    pc,         \* of the caller: "none", "idle", "starting", "reading", "failing", or its end
    roots,      \* root names of runs and collectors in _root_cells: a set of <<name, call>>
    active,     \* _active_runs: <<run_id, call>>
    agent,      \* "none", "starting", "idle", "busy", "closing" or "stopped"
    inbox,      \* of each agent: calls, and None for _Stop
    current,    \* the call an agent is answering
    chunks,
    log,        \* the events emitted for each call, by type
    collector,  \* "none", "up" or "stopped"
    box,        \* its mailbox: numbers of events, 0 for _Stop
    stream,     \* what the RunStream has been given: numbers, 0 for its end
    promise,    \* of the driver's ask: "none", "open", "ok", "error" or "late"
    driver,     \* "none", "ask", "wait", "root", "collector" or "done"
    system,     \* "up", "stopping", "cancelled", and "again" when it has been shut down
    halts       \* there is a shutdown to come

vars == <<pc, roots, active, agent, inbox, current, chunks, log, collector, box, stream,
          promise, driver, system, halts>>

agents    == <<agent, inbox, current, chunks>>
streams   == <<log, collector, box, stream>>
tables    == <<roots, active>>
shutdowns == <<system, halts>>

Init ==
    /\ \E w \in Workloads : /\ pc = [c \in Calls |-> IF c \in w THEN "idle" ELSE "none"]
                           /\ halts = (Halt \in w)
    /\ roots = {<< <<"shared", Shared>>, Shared>>} /\ active = {}
    /\ agent = [a \in Agents |-> IF a = Shared THEN "idle" ELSE "none"]
    /\ inbox = [a \in Agents |-> <<>>] /\ current = [a \in Agents |-> None]
    /\ chunks = [a \in Agents |-> 0]
    /\ log = [c \in Calls |-> <<>>] /\ collector = [c \in Calls |-> "none"]
    /\ box = [c \in Calls |-> <<>>] /\ stream = [c \in Calls |-> <<>>]
    /\ promise = [c \in Calls |-> "none"] /\ driver = [c \in Calls |-> "none"]
    /\ system = "up"

(* Names.                                                                      *)

RootName(c)      == <<"run", IdOf[c]>>
CollectorName(c) == IF c \in Runs THEN <<"collector", IdOf[c]>> ELSE <<"ask-collector", c>>
Taken(n)         == \E e \in roots : e[1] = n

\* The names a driver pops, whoever holds them.
Pops(c) == {CollectorName(c)} \cup (IF c \in Runs THEN {RootName(c)} ELSE {})

(* A stop request is queued behind what is there; a stopped actor ignores it.   *)

UpAgent(a)     == agent[a] \in {"starting", "idle", "busy"}
UpCollector(c) == collector[c] = "up"

StopAgents(S)     == inbox' = [a \in Agents |-> IF a \in S /\ UpAgent(a) THEN Append(inbox[a], None)
                                                ELSE inbox[a]]
StopCollectors(S) == box' = [c \in Calls |-> IF c \in S /\ UpCollector(c) THEN Append(box[c], 0)
                                             ELSE box[c]]

Ends(c, how) == pc' = [pc EXCEPT ![c] = how]

(* The caller.                                                                 *)

Stopping    == system \in {"stopping", "cancelled"}
IsActive(c) == \E e \in active : e[1] = IdOf[c]

Refused(c) ==
    \/ Stopping
    \/ c \in Runs /\ IsActive(c)
    \/ c \in Asks /\ ~UpAgent(Shared)
    \/ Taken(CollectorName(c))

Refuse(c) ==
    /\ pc[c] = "idle" /\ Refused(c) /\ Ends(c, "refused")
    /\ UNCHANGED <<tables, agents, streams, promise, driver, shutdowns>>

\* The collector starts without suspending, the root agent's on_started may not.
Run(c) ==
    /\ c \in Runs /\ pc[c] = "idle" /\ ~Refused(c)
    /\ collector' = [collector EXCEPT ![c] = "up"]
    /\ Ends(c, "starting")
    /\ agent' = [agent EXCEPT ![c] = "starting"]
    /\ roots' = roots \cup {<<CollectorName(c), c>>, <<RootName(c), c>>}
    /\ UNCHANGED <<active, inbox, current, chunks, log, box, stream, promise, driver, shutdowns>>

RootStarts(c) ==
    /\ pc[c] = "starting" /\ Ends(c, "reading")
    /\ agent' = [agent EXCEPT ![c] = "idle"]
    /\ active' = active \cup {<<IdOf[c], c>>}
    /\ driver' = [driver EXCEPT ![c] = "ask"]
    /\ UNCHANGED <<roots, inbox, current, chunks, streams, promise, shutdowns>>

\* spawn deletes the agent's name; the collector is stopped, its name stays.
RootFails(c) ==
    /\ pc[c] = "starting" /\ Ends(c, "failing")
    /\ agent' = [agent EXCEPT ![c] = "none"]
    /\ roots' = {e \in roots : e[1] # RootName(c)}
    /\ StopCollectors({c})
    /\ UNCHANGED <<active, inbox, current, chunks, log, collector, stream, promise, driver, shutdowns>>

FailureJoined(c) ==
    /\ pc[c] = "failing" /\ collector[c] = "stopped" /\ Ends(c, "failed")
    /\ UNCHANGED <<tables, agents, streams, promise, driver, shutdowns>>

AskStream(c) ==
    /\ c \in Asks /\ pc[c] = "idle" /\ ~Refused(c) /\ Ends(c, "reading")
    /\ collector' = [collector EXCEPT ![c] = "up"]
    /\ roots' = roots \cup {<<CollectorName(c), c>>}
    /\ driver' = [driver EXCEPT ![c] = "ask"]
    /\ UNCHANGED <<active, agents, log, box, stream, promise, shutdowns>>

\* The caller is cancelled, or stops reading: the run goes on without it. While
\* on_started is suspended this is the end of the run, names and collector left.
CallerLeaves(c) ==
    /\ \/ pc[c] = "starting" /\ Ends(c, "lost") /\ agent' = [agent EXCEPT ![c] = "none"]
       \/ pc[c] = "reading" /\ Ends(c, "left") /\ UNCHANGED agent
    /\ UNCHANGED <<tables, inbox, current, chunks, streams, promise, driver, shutdowns>>

\* The queue has no bound, so that only the end of the reading matters.
Reads(c) ==
    /\ pc[c] = "reading" /\ stream[c] # <<>> /\ Last(stream[c]) = 0
    /\ Ends(c, IF promise[c] = "ok" THEN "ended" ELSE "raised")
    /\ UNCHANGED <<tables, agents, streams, promise, driver, shutdowns>>

Abort(c) ==
    /\ c \in Runs /\ <<IdOf[c], c>> \in active /\ None \notin {inbox[c][i] : i \in DOMAIN inbox[c]}
    /\ UpAgent(c) /\ StopAgents({c})
    /\ UNCHANGED <<pc, tables, agent, current, chunks, streams, promise, driver, shutdowns>>

(* The background task.                                                        *)

Drives(c, from, to) == driver[c] = from /\ driver' = [driver EXCEPT ![c] = to]

DriverAsks(c) ==
    /\ Drives(c, "ask", "wait")
    /\ IF UpAgent(Target(c))
       THEN /\ inbox' = [inbox EXCEPT ![Target(c)] = Append(@, c)]
            /\ promise' = [promise EXCEPT ![c] = "open"]
       ELSE promise' = [promise EXCEPT ![c] = "error"] /\ UNCHANGED inbox
    /\ UNCHANGED <<pc, tables, agent, current, chunks, streams, shutdowns>>

AskTimesOut(c) ==
    /\ driver[c] = "wait" /\ promise[c] = "open"
    /\ promise' = [promise EXCEPT ![c] = "late"]
    /\ UNCHANGED <<pc, tables, agents, streams, driver, shutdowns>>

\* A mutant stops both at once, without joining the root first.
StopsBoth(c) == StopAgents({c}) /\ StopCollectors({c})
StopsRoot(c) == StopAgents({c}) /\ UNCHANGED box

DriverWakes(c) ==
    /\ promise[c] # "open"
    /\ IF c \in Runs THEN Drives(c, "wait", "root") /\ StopsRoot(c)
       ELSE Drives(c, "wait", "collector") /\ StopCollectors({c}) /\ UNCHANGED inbox
    /\ UNCHANGED <<pc, tables, agent, current, chunks, log, collector, stream, promise, shutdowns>>

RootJoined(c) ==
    /\ Drives(c, "root", "collector") /\ agent[c] = "stopped" /\ StopCollectors({c})
    /\ UNCHANGED <<pc, tables, agents, log, collector, stream, promise, shutdowns>>

CollectorJoined(c) ==
    /\ collector[c] = "stopped" /\ Drives(c, "collector", "done")
    /\ roots' = {e \in roots : e[1] \notin Pops(c)}
    /\ stream' = [stream EXCEPT ![c] = Append(@, 0)]
    /\ active' = IF c \in Runs THEN {e \in active : e[1] # IdOf[c]} ELSE active
    /\ UNCHANGED <<pc, agents, log, collector, box, promise, shutdowns>>

(* Agents and collectors.                                                      *)

\* Events go to the collector of the message being handled.
Emit(c, types) ==
    /\ log' = [log EXCEPT ![c] = @ \o types]
    /\ box' = IF UpCollector(c)
              THEN [box EXCEPT ![c] = @ \o [i \in 1..Len(types) |-> Len(log[c]) + i]]
              ELSE box

Reply(c, p) == promise' = [promise EXCEPT ![c] = IF @ = "open" THEN p ELSE @]

AgentTakes(a) ==
    /\ agent[a] = "idle" /\ inbox[a] # <<>> /\ Head(inbox[a]) # None
    /\ agent' = [agent EXCEPT ![a] = "busy"]
    /\ current' = [current EXCEPT ![a] = Head(inbox[a])]
    /\ chunks' = [chunks EXCEPT ![a] = 0]
    /\ inbox' = [inbox EXCEPT ![a] = Tail(@)]
    /\ Emit(Head(inbox[a]), <<"started">>)
    /\ UNCHANGED <<pc, tables, collector, stream, promise, driver, shutdowns>>

\* execute, or an agent it spawned and that inherits its collector.
AgentEmits(a) ==
    /\ agent[a] = "busy" /\ chunks[a] < MaxChunks
    /\ chunks' = [chunks EXCEPT ![a] = @ + 1]
    /\ Emit(current[a], <<"chunk">>)
    /\ UNCHANGED <<pc, tables, agent, inbox, current, collector, stream, promise, driver, shutdowns>>

AgentAnswers(a) ==
    /\ agent[a] = "busy"
    /\ agent' = [agent EXCEPT ![a] = "idle"]
    /\ current' = [current EXCEPT ![a] = None]
    /\ \/ Emit(current[a], <<"completed">>) /\ Reply(current[a], "ok")
       \/ Emit(current[a], <<"failed">>) /\ Reply(current[a], "error")
    /\ UNCHANGED <<pc, tables, inbox, chunks, collector, stream, driver, shutdowns>>

AgentStops(a) ==
    /\ agent[a] = "idle" /\ inbox[a] # <<>> /\ Head(inbox[a]) = None
    /\ agent' = [agent EXCEPT ![a] = "closing"]
    /\ inbox' = [inbox EXCEPT ![a] = Tail(@)]
    /\ UNCHANGED <<pc, tables, current, chunks, streams, promise, driver, shutdowns>>

Rejects(S) == promise' = [c \in Calls |-> IF c \in S /\ promise[c] = "open" THEN "error"
                                          ELSE promise[c]]

\* Its children are stopped first, and what they are at may still emit an event;
\* then whoever is left in its mailbox is refused.
AgentStopped(a) ==
    /\ agent[a] = "closing"
    /\ agent' = [agent EXCEPT ![a] = "stopped"]
    /\ Rejects({inbox[a][i] : i \in DOMAIN inbox[a]})
    /\ inbox' = [inbox EXCEPT ![a] = <<>>]
    /\ \/ a \in Runs /\ log[a] # <<>> /\ Emit(a, <<"chunk">>)
       \/ UNCHANGED <<log, box>>
    /\ UNCHANGED <<pc, tables, current, chunks, collector, stream, driver, shutdowns>>

CollectorTakes(c) ==
    /\ UpCollector(c) /\ box[c] # <<>>
    /\ IF Head(box[c]) = 0
       THEN /\ collector' = [collector EXCEPT ![c] = "stopped"]
            /\ box' = [box EXCEPT ![c] = <<>>]
            /\ UNCHANGED stream
       ELSE /\ stream' = [stream EXCEPT ![c] = Append(@, Head(box[c]))]
            /\ box' = [box EXCEPT ![c] = Tail(@)]
            /\ UNCHANGED collector
    /\ UNCHANGED <<pc, tables, agents, log, promise, driver, shutdowns>>

(* ActorSystem.shutdown.                                                       *)

MyAgents     == {a \in Agents : \E e \in roots : e[2] = a /\ e[1][1] \in {"shared", "run"}}
MyCollectors == {c \in Calls : <<CollectorName(c), c>> \in roots}

ShutdownBegins ==
    /\ halts /\ halts' = FALSE /\ system' = "stopping"
    /\ StopAgents(MyAgents) /\ StopCollectors(MyCollectors)
    /\ UNCHANGED <<pc, tables, agent, current, chunks, log, collector, stream, promise, driver>>

\* After its timeout it cancels what has not begun to stop: handlers are cut off
\* without a reply, collectors with what is in their mailbox.
ShutdownCancels ==
    /\ system = "stopping" /\ system' = "cancelled"
    /\ LET cut == {a \in MyAgents : agent[a] \in {"idle", "busy"}}
       IN /\ agent' = [a \in Agents |-> IF a \in cut THEN "closing" ELSE agent[a]]
          /\ current' = [a \in Agents |-> IF a \in cut THEN None ELSE current[a]]
    /\ LET off == {c \in MyCollectors : UpCollector(c)}
       IN /\ collector' = [c \in Calls |-> IF c \in off THEN "stopped" ELSE collector[c]]
          /\ box' = [c \in Calls |-> IF c \in off THEN <<>> ELSE box[c]]
    /\ UNCHANGED <<pc, tables, inbox, chunks, log, stream, promise, driver, halts>>

RejectsNone == UNCHANGED promise    \* a mutant
RejectsOpen == Rejects(Calls)

\* A cell that is still in start() is not waited for, and after the cancellation
\* there is a limit of two seconds.
ShutdownEnds ==
    /\ \/ system = "cancelled"
       \/ /\ system = "stopping"
          /\ \A a \in MyAgents : agent[a] \notin {"idle", "busy", "closing"}
          /\ \A c \in MyCollectors : collector[c] = "stopped"
    /\ system' = "again" /\ roots' = {} /\ RejectsOpen
    /\ UNCHANGED <<pc, active, agents, streams, driver, halts>>

CallerStep(c)  == RootStarts(c) \/ RootFails(c) \/ FailureJoined(c) \/ Reads(c)
DriverStep(c)  == DriverAsks(c) \/ DriverWakes(c) \/ RootJoined(c) \/ CollectorJoined(c)
AgentStep(a)   == AgentTakes(a) \/ AgentAnswers(a) \/ AgentStops(a) \/ AgentStopped(a)
ShutdownStep   == ShutdownCancels \/ ShutdownEnds

Progress == \/ \E c \in Calls : CallerStep(c) \/ DriverStep(c) \/ CollectorTakes(c)
            \/ \E a \in Agents : AgentStep(a)
            \/ ShutdownStep

Next ==
    \/ \E c \in Calls : \/ Refuse(c) \/ Run(c) \/ AskStream(c) \/ CallerLeaves(c)
                        \/ Abort(c) \/ AskTimesOut(c)
    \/ \E a \in Agents : AgentEmits(a)
    \/ ShutdownBegins
    \/ Progress

Spec == Init /\ [][Next]_vars

\* The event loop runs every task, handlers end and so does on_started. No step is
\* taken for ever, so that the fairness of all is the fairness of each.
FairSpec == Spec /\ WF_vars(Progress)

(* Properties.                                                                 *)

Over == {"refused", "failed", "lost", "left", "ended", "raised"}

\* Whoever has read its stream to the end has seen every event of its own run, or
\* of its own question, once and in order, unless the question was given up while
\* the agent went on; and an answer comes with its first and its last event.
StreamComplete ==
    \A c \in Calls : pc[c] \in {"ended", "raised"} /\ system = "up" =>
        /\ \A i \in 1..(Len(stream[c]) - 1) : stream[c][i] = i
        /\ c \in Runs \/ promise[c] # "late" => Len(stream[c]) = Len(log[c]) + 1
        /\ pc[c] = "ended" => /\ log[c][1] = "started"
                              /\ \E i \in DOMAIN log[c] : log[c][i] = "completed"

\* The names of a run, its actors and its entry are gone.
Tidy(c) ==
    /\ driver[c] = "done" /\ collector[c] = "stopped" /\ (c \in Runs => agent[c] = "stopped")
    /\ \A e \in roots : e[2] # c
    /\ \A e \in active : e[2] # c

\* Every call ends, whether its agent answers, is aborted, late or shut down with
\* the system, and then leaves nothing, except a run whose agent did not start.
CallsEnd == \A c \in Calls :
    pc[c] \notin {"none", "idle"} ~> /\ pc[c] \in Over
                                     /\ pc[c] \in {"ended", "raised", "left"} => Tidy(c)

\* "Use stable IDs to correlate logs across retries": a run is refused only while
\* another with its id is under way or was cut off in its start, or the system stops.
RetriesStart ==
    [][\A c \in Runs : pc[c] = "idle" /\ pc'[c] = "refused" =>
          \/ Stopping
          \/ \E d \in Runs \ {c} : /\ IdOf[d] = IdOf[c]
                                   /\ pc[d] \in {"starting", "failing", "reading", "lost"}
                                       \/ driver[d] \notin {"none", "done"}]_vars
=============================================================================
