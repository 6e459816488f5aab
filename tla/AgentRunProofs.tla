--------------------------- MODULE AgentRunProofs ---------------------------
(* Proofs about AgentRun, for every set of runs and questions, run ids,       *)
(* number of events and workloads.                                            *)
EXTENDS AgentRun, SequenceTheorems, TLAPS

USE Names

Positions == {"none", "idle", "starting", "reading", "failing"} \cup Over

TypeOK ==
    /\ pc \in [Calls -> Positions]
    /\ agent \in [Agents -> {"none", "starting", "idle", "busy", "closing", "stopped"}]
    /\ inbox \in [Agents -> Seq(Calls \cup {None})]
    /\ current \in [Agents -> Calls \cup {None}]
    /\ \A a \in Agents : agent[a] = "busy" => current[a] \in Calls
    /\ log \in [Calls -> Seq({"started", "chunk", "completed", "failed"})]
    /\ collector \in [Calls -> {"none", "up", "stopped"}]
    /\ box \in [Calls -> Seq(Nat)]
    /\ stream \in [Calls -> Seq(Nat)]
    /\ promise \in [Calls -> {"none", "open", "ok", "error", "late"}]
    /\ driver \in [Calls -> {"none", "ask", "wait", "root", "collector", "done"}]
    /\ system \in {"up", "stopping", "cancelled", "again"}

Kinds == {"started", "chunk", "completed", "failed"}

----------------------------------------------------------------------------
(* The operators of the model, one call or agent at a time.                   *)

LEMMA AppendFacts ==
    ASSUME NEW S, NEW s \in Seq(S), NEW x \in S
    PROVE  /\ Append(s, x) \in Seq(S) /\ Append(s, x) # <<>>
           /\ Len(Append(s, x)) = Len(s) + 1
           /\ Append(s, x)[Len(s) + 1] = x
           /\ \A i \in 1..Len(s) : Append(s, x)[i] = s[i]
           /\ s # <<>> => Append(s, x)[1] = s[1]
           /\ s = <<>> => Append(s, x)[1] = x
           /\ DOMAIN s = 1..Len(s) /\ Len(s) \in Nat
           /\ DOMAIN Append(s, x) = 1..(Len(s) + 1)
<1>1. /\ Append(s, x) \in Seq(S) /\ Len(Append(s, x)) = Len(s) + 1
      /\ Append(s, x)[Len(s) + 1] = x
      /\ \A i \in 1..Len(s) : Append(s, x)[i] = s[i]
      /\ DOMAIN s = 1..Len(s) /\ Len(s) \in Nat
      /\ DOMAIN Append(s, x) = 1..(Len(s) + 1)
  OBVIOUS
<1>2. Append(s, x) # <<>>
  BY <1>1
<1>3. s # <<>> => 1 \in 1..Len(s)
  BY <1>1
<1>4. s = <<>> => Len(s) = 0
  OBVIOUS
<1> QED
  BY <1>1, <1>2, <1>3, <1>4

LEMMA TailFacts ==
    ASSUME NEW S, NEW s \in Seq(S), s # <<>>
    PROVE  /\ Tail(s) \in Seq(S) /\ Head(s) \in S /\ Head(s) = s[1]
           /\ Len(Tail(s)) = Len(s) - 1
           /\ DOMAIN Tail(s) = 1..(Len(s) - 1)
           /\ \A i \in 1..(Len(s) - 1) : Tail(s)[i] = s[i + 1]
           /\ DOMAIN s = 1..Len(s) /\ Len(s) \in Nat \ {0}
  OBVIOUS

LEMMA ConcatOne ==
    ASSUME NEW S, NEW s \in Seq(S), NEW x \in S
    PROVE  s \o <<x>> = Append(s, x)
<1>1. <<x>> \in Seq(S) /\ Len(<<x>>) = 1 /\ <<x>>[1] = x
  OBVIOUS
<1>2. /\ s \o <<x>> \in Seq(S) /\ Len(s \o <<x>>) = Len(s) + 1
      /\ \A i \in 1..(Len(s) + 1) : (s \o <<x>>)[i] = IF i <= Len(s) THEN s[i] ELSE x
  BY <1>1
<1>3. \A i \in 1..(Len(s) + 1) : Append(s, x)[i] = IF i <= Len(s) THEN s[i] ELSE x
  OBVIOUS
<1> QED
  BY <1>2, <1>3, SeqEqual

\* What the emission of one event does.
Emitted(c, x) ==
    /\ log' \in [Calls -> Seq(Kinds)] /\ box' \in [Calls -> Seq(Nat)]
    /\ log'[c] = Append(log[c], x)
    /\ UpCollector(c) => box'[c] = Append(box[c], Len(log[c]) + 1)
    /\ ~UpCollector(c) => box'[c] = box[c]
    /\ \A d \in Calls \ {c} : log'[d] = log[d] /\ box'[d] = box[d]

LEMMA EmitEffect ==
    ASSUME TypeOK, NEW c \in Calls, NEW x \in Kinds, Emit(c, <<x>>)
    PROVE  Emitted(c, x)
<1>1. /\ log \in [Calls -> Seq(Kinds)] /\ box \in [Calls -> Seq(Nat)]
      /\ log[c] \in Seq(Kinds) /\ box[c] \in Seq(Nat) /\ Len(log[c]) \in Nat
  BY DEF TypeOK, Kinds
<1>2. log[c] \o <<x>> = Append(log[c], x) /\ Append(log[c], x) \in Seq(Kinds)
  BY <1>1, ConcatOne
<1>3. log' = [log EXCEPT ![c] = Append(log[c], x)]
  BY <1>2 DEF Emit
<1>4. [i \in 1..Len(<<x>>) |-> Len(log[c]) + i] = <<Len(log[c]) + 1>>
  <2>1. Len(<<x>>) = 1
    OBVIOUS
  <2>2. [i \in 1..1 |-> Len(log[c]) + i] \in Seq(Nat) /\ Len([i \in 1..1 |-> Len(log[c]) + i]) = 1
    BY <1>1
  <2>3. <<Len(log[c]) + 1>> \in Seq(Nat) /\ Len(<<Len(log[c]) + 1>>) = 1
    BY <1>1
  <2>4. \A i \in 1..1 : [j \in 1..1 |-> Len(log[c]) + j][i] = <<Len(log[c]) + 1>>[i]
    OBVIOUS
  <2> QED
    BY <2>1, <2>2, <2>3, <2>4, SeqEqual
<1>5. /\ box[c] \o <<Len(log[c]) + 1>> = Append(box[c], Len(log[c]) + 1)
      /\ Append(box[c], Len(log[c]) + 1) \in Seq(Nat)
  BY <1>1, ConcatOne
<1>6. box' = IF UpCollector(c) THEN [box EXCEPT ![c] = Append(box[c], Len(log[c]) + 1)] ELSE box
  BY <1>4, <1>5 DEF Emit
<1> QED
  BY <1>1, <1>2, <1>3, <1>5, <1>6 DEF Emitted

----------------------------------------------------------------------------
(* Type correctness.                                                          *)

LEMMA StopAgentsTyped ==
    ASSUME TypeOK, NEW S, StopAgents(S) PROVE inbox' \in [Agents -> Seq(Calls \cup {None})]
  BY DEF StopAgents, TypeOK

LEMMA StopCollectorsTyped ==
    ASSUME TypeOK, NEW S, StopCollectors(S) PROVE box' \in [Calls -> Seq(Nat)]
  BY DEF StopCollectors, TypeOK

LEMMA CallTyped ==
    ASSUME TypeOK, NEW c \in Calls,
           \/ Refuse(c) \/ Run(c) \/ AskStream(c) \/ CallerLeaves(c) \/ Abort(c) \/ AskTimesOut(c)
           \/ CallerStep(c)
    PROVE  TypeOK'
<1> USE DEF tables, agents, streams, shutdowns, Ends
<1>0. c \in Runs => c \in Agents
  BY DEF Agents
<1>1. CASE Refuse(c)
  BY <1>1 DEF Refuse, TypeOK, Positions, Over
<1>2. CASE Run(c)
  <2>1. /\ collector' \in [Calls -> {"none", "up", "stopped"}] /\ pc' \in [Calls -> Positions]
    BY <1>2 DEF Run, TypeOK, Positions
  <2>2. /\ agent' \in [Agents -> {"none", "starting", "idle", "busy", "closing", "stopped"}]
        /\ \A a \in Agents : agent'[a] = "busy" => agent[a] = "busy"
    BY <1>2 DEF Run, TypeOK
  <2> QED
    BY <1>2, <2>1, <2>2 DEF Run, TypeOK
<1>3. CASE AskStream(c)
  BY <1>3 DEF AskStream, TypeOK, Positions
<1>4. CASE CallerLeaves(c)
  <2>1. pc' \in [Calls -> Positions]
    <3>1. pc' = [pc EXCEPT ![c] = "lost"] \/ pc' = [pc EXCEPT ![c] = "left"]
      BY <1>4 DEF CallerLeaves
    <3> QED
      BY <3>1 DEF TypeOK, Positions, Over
  <2>2. /\ agent' \in [Agents -> {"none", "starting", "idle", "busy", "closing", "stopped"}]
        /\ \A a \in Agents : agent'[a] = "busy" => agent[a] = "busy"
    BY <1>4 DEF CallerLeaves, TypeOK
  <2> QED
    BY <1>4, <2>1, <2>2 DEF CallerLeaves, TypeOK
<1>5. CASE Abort(c)
  BY <1>5, StopAgentsTyped DEF Abort, TypeOK
<1>6. CASE AskTimesOut(c)
  BY <1>6 DEF AskTimesOut, TypeOK
<1>7. CASE RootStarts(c)
  <2>1. /\ pc' \in [Calls -> Positions]
        /\ driver' \in [Calls -> {"none", "ask", "wait", "root", "collector", "done"}]
    BY <1>7 DEF RootStarts, TypeOK, Positions
  <2>2. /\ agent' \in [Agents -> {"none", "starting", "idle", "busy", "closing", "stopped"}]
        /\ \A a \in Agents : agent'[a] = "busy" => agent[a] = "busy"
    BY <1>7 DEF RootStarts, TypeOK
  <2> QED
    BY <1>7, <2>1, <2>2 DEF RootStarts, TypeOK
<1>8. CASE RootFails(c)
  <2>1. pc' \in [Calls -> Positions] /\ box' \in [Calls -> Seq(Nat)]
    BY <1>8, StopCollectorsTyped DEF RootFails, TypeOK, Positions
  <2>2. /\ agent' \in [Agents -> {"none", "starting", "idle", "busy", "closing", "stopped"}]
        /\ \A a \in Agents : agent'[a] = "busy" => agent[a] = "busy"
    BY <1>8 DEF RootFails, TypeOK
  <2> QED
    BY <1>8, <2>1, <2>2 DEF RootFails, TypeOK
<1>9. CASE FailureJoined(c)
  BY <1>9 DEF FailureJoined, TypeOK, Positions, Over
<1>10. CASE Reads(c)
  <2>1. pc' \in [Calls -> Positions]
    BY <1>10 DEF Reads, TypeOK, Positions, Over
  <2> QED
    BY <1>10, <2>1 DEF Reads, TypeOK
<1> QED
  BY <1>1, <1>2, <1>3, <1>4, <1>5, <1>6, <1>7, <1>8, <1>9, <1>10 DEF CallerStep

LEMMA DriverTyped ==
    ASSUME TypeOK, NEW c \in Calls, DriverStep(c) PROVE TypeOK'
<1> USE DEF tables, agents, streams, shutdowns, Drives
<1>1. CASE DriverAsks(c)
  <2>0. Target(c) \in Agents
    BY DEF Target, Agents, Calls
  <2>1. /\ driver' \in [Calls -> {"none", "ask", "wait", "root", "collector", "done"}]
        /\ promise' \in [Calls -> {"none", "open", "ok", "error", "late"}]
    BY <1>1 DEF DriverAsks, TypeOK
  <2>2. inbox' \in [Agents -> Seq(Calls \cup {None})]
    <3>1. inbox[Target(c)] \in Seq(Calls \cup {None}) /\ c \in Calls \cup {None}
      BY <2>0 DEF TypeOK
    <3>2. Append(inbox[Target(c)], c) \in Seq(Calls \cup {None})
      BY <3>1, AppendFacts
    <3>3. inbox' = inbox \/ inbox' = [inbox EXCEPT ![Target(c)] = Append(inbox[Target(c)], c)]
      BY <1>1 DEF DriverAsks
    <3> QED
      BY <3>2, <3>3 DEF TypeOK
  <2> QED
    BY <1>1, <2>1, <2>2 DEF DriverAsks, TypeOK
<1>2. CASE DriverWakes(c)
  <2>1. driver' \in [Calls -> {"none", "ask", "wait", "root", "collector", "done"}]
    <3>1. \/ driver' = [driver EXCEPT ![c] = "root"]
          \/ driver' = [driver EXCEPT ![c] = "collector"]
      BY <1>2 DEF DriverWakes
    <3> QED
      BY <3>1 DEF TypeOK
  <2>2. inbox' \in [Agents -> Seq(Calls \cup {None})] /\ box' \in [Calls -> Seq(Nat)]
    <3>1. CASE c \in Runs
      BY <1>2, <3>1, StopAgentsTyped DEF DriverWakes, StopsRoot, TypeOK
    <3>2. CASE c \notin Runs
      BY <1>2, <3>2, StopCollectorsTyped DEF DriverWakes, TypeOK
    <3> QED
      BY <3>1, <3>2
  <2> QED
    BY <1>2, <2>1, <2>2 DEF DriverWakes, TypeOK
<1>3. CASE RootJoined(c)
  BY <1>3, StopCollectorsTyped DEF RootJoined, TypeOK
<1>4. CASE CollectorJoined(c)
  <2>1. stream' \in [Calls -> Seq(Nat)]
    BY <1>4 DEF CollectorJoined, TypeOK
  <2> QED
    BY <1>4, <2>1 DEF CollectorJoined, TypeOK
<1> QED
  BY <1>1, <1>2, <1>3, <1>4 DEF DriverStep

LEMMA CollectorTyped ==
    ASSUME TypeOK, NEW c \in Calls, CollectorTakes(c) PROVE TypeOK'
<1> USE DEF tables, agents, streams, shutdowns
<1>1. box[c] \in Seq(Nat) /\ box[c] # <<>> /\ stream[c] \in Seq(Nat)
  BY DEF CollectorTakes, TypeOK
<1>2. Head(box[c]) \in Nat /\ Tail(box[c]) \in Seq(Nat)
  BY <1>1, TailFacts
<1>3. collector' \in [Calls -> {"none", "up", "stopped"}]
  BY DEF CollectorTakes, TypeOK
<1>4. box' \in [Calls -> Seq(Nat)]
  <2>1. <<>> \in Seq(Nat)
    OBVIOUS
  <2> QED
    BY <1>2, <2>1 DEF CollectorTakes, TypeOK
<1>5. stream' \in [Calls -> Seq(Nat)]
  <2>1. Append(stream[c], Head(box[c])) \in Seq(Nat)
    BY <1>1, <1>2, AppendFacts
  <2>2. stream' = stream \/ stream' = [stream EXCEPT ![c] = Append(stream[c], Head(box[c]))]
    BY DEF CollectorTakes
  <2> QED
    BY <2>1, <2>2 DEF TypeOK
<1> QED
  BY <1>3, <1>4, <1>5 DEF CollectorTakes, TypeOK

LEMMA AgentTyped ==
    ASSUME TypeOK, NEW a \in Agents, AgentEmits(a) \/ AgentStep(a) PROVE TypeOK'
<1> USE DEF tables, agents, streams, shutdowns
<1>0. inbox[a] \in Seq(Calls \cup {None})
  BY DEF TypeOK
<1>1. CASE AgentEmits(a)
  <2>1. Emitted(current[a], "chunk")
    BY <1>1, EmitEffect DEF AgentEmits, TypeOK, Kinds
  <2> QED
    BY <1>1, <2>1 DEF AgentEmits, TypeOK, Emitted, Kinds
<1>2. CASE AgentTakes(a)
  <2>1. Tail(inbox[a]) \in Seq(Calls \cup {None}) /\ Head(inbox[a]) \in Calls
    BY <1>0, <1>2, TailFacts DEF AgentTakes
  <2>2. Emitted(Head(inbox[a]), "started")
    BY <1>2, <2>1, EmitEffect DEF AgentTakes, Kinds
  <2>3. inbox' \in [Agents -> Seq(Calls \cup {None})]
    BY <1>2, <2>1 DEF AgentTakes, TypeOK
  <2>4. /\ agent' \in [Agents -> {"none", "starting", "idle", "busy", "closing", "stopped"}]
        /\ current' \in [Agents -> Calls \cup {None}]
        /\ \A b \in Agents : agent'[b] = "busy" => current'[b] \in Calls
    BY <1>2, <2>1 DEF AgentTakes, TypeOK
  <2> QED
    BY <1>2, <2>2, <2>3, <2>4 DEF AgentTakes, TypeOK, Emitted, Kinds
<1>3. CASE AgentAnswers(a)
  <2>1. Emitted(current[a], "completed") \/ Emitted(current[a], "failed")
    BY <1>3, EmitEffect DEF AgentAnswers, TypeOK, Kinds
  <2>2. promise' \in [Calls -> {"none", "open", "ok", "error", "late"}]
    <3>1. PICK p \in {"ok", "error"} : Reply(current[a], p)
      BY <1>3 DEF AgentAnswers
    <3>2. \A c \in Calls : promise'[c] = promise[c] \/ promise'[c] = p
      BY <3>1 DEF Reply, TypeOK
    <3>3. promise' = [c \in Calls |-> promise'[c]]
      BY <3>1 DEF Reply, TypeOK
    <3> QED
      BY <3>2, <3>3 DEF TypeOK
  <2>3. /\ agent' \in [Agents -> {"none", "starting", "idle", "busy", "closing", "stopped"}]
        /\ current' \in [Agents -> Calls \cup {None}]
        /\ \A b \in Agents : agent'[b] = "busy" => current'[b] \in Calls
    BY <1>3 DEF AgentAnswers, TypeOK
  <2> QED
    BY <1>3, <2>1, <2>2, <2>3 DEF AgentAnswers, TypeOK, Emitted, Kinds
<1>4. CASE AgentStops(a)
  <2>1. Tail(inbox[a]) \in Seq(Calls \cup {None})
    BY <1>0, <1>4, TailFacts DEF AgentStops
  <2>2. inbox' \in [Agents -> Seq(Calls \cup {None})]
    BY <1>4, <2>1 DEF AgentStops, TypeOK
  <2>3. /\ agent' \in [Agents -> {"none", "starting", "idle", "busy", "closing", "stopped"}]
        /\ \A b \in Agents : agent'[b] = "busy" => agent[b] = "busy"
    BY <1>4 DEF AgentStops, TypeOK
  <2> QED
    BY <1>4, <2>2, <2>3 DEF AgentStops, TypeOK
<1>5. CASE AgentStopped(a)
  <2>1. inbox' \in [Agents -> Seq(Calls \cup {None})]
    <3>1. <<>> \in Seq(Calls \cup {None})
      OBVIOUS
    <3> QED
      BY <1>5, <3>1 DEF AgentStopped, TypeOK
  <2>2. promise' \in [Calls -> {"none", "open", "ok", "error", "late"}]
    BY <1>5 DEF AgentStopped, Rejects, TypeOK
  <2>3. /\ agent' \in [Agents -> {"none", "starting", "idle", "busy", "closing", "stopped"}]
        /\ \A b \in Agents : agent'[b] = "busy" => agent[b] = "busy"
    BY <1>5 DEF AgentStopped, TypeOK
  <2>4. log' \in [Calls -> Seq(Kinds)] /\ box' \in [Calls -> Seq(Nat)]
    <3>1. CASE a \in Runs /\ Emit(a, <<"chunk">>)
      <4>1. Emitted(a, "chunk")
        BY <3>1, EmitEffect DEF Calls, Kinds
      <4> QED
        BY <4>1 DEF Emitted
    <3>2. CASE UNCHANGED <<log, box>>
      BY <3>2 DEF TypeOK, Kinds
    <3> QED
      BY <1>5, <3>1, <3>2 DEF AgentStopped
  <2> QED
    BY <1>5, <2>1, <2>2, <2>3, <2>4 DEF AgentStopped, TypeOK, Kinds
<1> QED
  BY <1>1, <1>2, <1>3, <1>4, <1>5 DEF AgentStep

LEMMA ShutdownTyped ==
    ASSUME TypeOK, ShutdownBegins \/ ShutdownStep PROVE TypeOK' /\ system' # "up"
<1> USE DEF tables, agents, streams, shutdowns
<1>1. CASE ShutdownBegins
  BY <1>1, StopAgentsTyped, StopCollectorsTyped DEF ShutdownBegins, TypeOK
<1>2. CASE ShutdownCancels
  <2>1. /\ agent' \in [Agents -> {"none", "starting", "idle", "busy", "closing", "stopped"}]
        /\ current' \in [Agents -> Calls \cup {None}]
    BY <1>2 DEF ShutdownCancels, TypeOK
  <2>2. \A a \in Agents : agent'[a] = "busy" => current'[a] \in Calls
    BY <1>2 DEF ShutdownCancels, TypeOK
  <2>3. collector' \in [Calls -> {"none", "up", "stopped"}] /\ box' \in [Calls -> Seq(Nat)]
    <3>1. <<>> \in Seq(Nat)
      OBVIOUS
    <3> QED
      BY <1>2, <3>1 DEF ShutdownCancels, TypeOK
  <2> QED
    BY <1>2, <2>1, <2>2, <2>3 DEF ShutdownCancels, TypeOK
<1>3. CASE ShutdownEnds
  BY <1>3 DEF ShutdownEnds, RejectsOpen, Rejects, TypeOK
<1> QED
  BY <1>1, <1>2, <1>3 DEF ShutdownStep

LEMMA TypeInductive == TypeOK /\ [Next]_vars => TypeOK'
<1> SUFFICES ASSUME TypeOK, [Next]_vars PROVE TypeOK'
  OBVIOUS
<1>1. CASE UNCHANGED vars
  BY <1>1 DEF vars, TypeOK
<1> QED
  BY <1>1, CallTyped, DriverTyped, CollectorTyped, AgentTyped, ShutdownTyped
     DEF Next, Progress

LEMMA TypeInit == Init => TypeOK
<1> SUFFICES ASSUME Init PROVE TypeOK
  OBVIOUS
<1>1. pc \in [Calls -> Positions]
  BY DEF Init, Positions
<1>2. agent \in [Agents -> {"none", "starting", "idle", "busy", "closing", "stopped"}]
  BY DEF Init
<1>3. /\ inbox \in [Agents -> Seq(Calls \cup {None})] /\ current \in [Agents -> Calls \cup {None}]
      /\ \A a \in Agents : agent[a] # "busy"
  BY DEF Init
<1>4. log \in [Calls -> Seq(Kinds)] /\ box \in [Calls -> Seq(Nat)] /\ stream \in [Calls -> Seq(Nat)]
  BY DEF Init
<1> QED
  BY <1>1, <1>2, <1>3, <1>4 DEF Init, TypeOK, Kinds

----------------------------------------------------------------------------
(* The invariants hold until a shutdown begins.                               *)

\* Where the caller is, what drives its agent, and what it has been told.
DriverInStep(c) ==
    /\ driver[c] # "none" => pc[c] \in {"reading", "left", "ended", "raised"}
    /\ collector[c] = "none" <=> pc[c] \in {"none", "idle", "refused"}
    /\ driver[c] \notin {"none", "ask"} => promise[c] # "none"
    /\ driver[c] \in {"root", "collector", "done"} => promise[c] # "open"
    /\ driver[c] = "done" => collector[c] = "stopped"

\* A question waits at its own agent, once, and nobody has answered it.
Unanswered(c) == promise[c] \in {"open", "late"} /\ driver[c] \notin {"none", "ask"}

Waiting(a) ==
    /\ \A i \in DOMAIN inbox[a] :
          inbox[a][i] # None => Target(inbox[a][i]) = a /\ Unanswered(inbox[a][i])
    /\ \A i, j \in DOMAIN inbox[a] : inbox[a][i] = inbox[a][j] /\ inbox[a][i] # None => i = j

Serving(a) ==
    current[a] # None =>
        /\ agent[a] = "busy"
        /\ Target(current[a]) = a /\ Unanswered(current[a])
        /\ log[current[a]] # <<>>
        /\ \A i \in DOMAIN inbox[a] : inbox[a][i] # current[a]

\* The events begin with "started"; an answer is the last but one, or later.
Logged(c) ==
    /\ log[c] # <<>> => log[c][1] = "started" /\ driver[c] \notin {"none", "ask"}
    /\ promise[c] = "ok" => \E i \in DOMAIN log[c] : log[c][i] = "completed"

\* The collector has been told to stop by the driver, after a root agent ended.
Settled(c) == driver[c] \in {"collector", "done"}
RootFirst(c) == c \in Runs /\ Settled(c) => agent[c] = "stopped"

\* The question was not given up.
Exact(c) == c \in Runs \/ promise[c] # "late"

\* What the stream and the mailbox of the collector hold are the events from the
\* first, in order: all of them, until the collector is told to stop.
Fed(c) == IF driver[c] = "done" THEN Len(stream[c]) - 1 ELSE Len(stream[c])

InOrder(c) ==
    /\ \A i \in 1..Fed(c) : stream[c][i] = i
    /\ driver[c] = "done" => stream[c] # <<>> /\ stream[c][Len(stream[c])] = 0

Told(c) == \E i \in DOMAIN box[c] : box[c][i] = 0

Numbered(c) ==
    \A i \in DOMAIN box[c] : (\A j \in 1..i : box[c][j] # 0) => box[c][i] = Len(stream[c]) + i

StopIsLast(c) ==
    \A i \in DOMAIN box[c] :
        box[c][i] = 0 => i = Len(box[c]) /\ Len(stream[c]) + i = Len(log[c]) + 1

OnItsWay(c) ==
    /\ collector[c] = "none" => log[c] = <<>> /\ box[c] = <<>> /\ stream[c] = <<>>
    /\ Told(c) \/ collector[c] = "stopped" => Settled(c) \/ pc[c] \in {"failing", "failed"}
    /\ collector[c] = "up" => /\ Numbered(c)
                              /\ ~Told(c) => Len(stream[c]) + Len(box[c]) = Len(log[c])
                              /\ Settled(c) /\ Exact(c) => StopIsLast(c)
    /\ collector[c] = "stopped" /\ Settled(c) /\ Exact(c) => Fed(c) = Len(log[c])

Finished(c) ==
    /\ pc[c] \in {"ended", "raised"} => driver[c] = "done"
    /\ pc[c] = "ended" => promise[c] = "ok"

DriverInv == \A c \in Calls : DriverInStep(c)
AgentInv  == /\ \A a \in Agents : Waiting(a) /\ Serving(a)
             /\ \A c \in Calls : Logged(c)
CallInv(c) == RootFirst(c) /\ InOrder(c) /\ OnItsWay(c) /\ Finished(c)
StreamInv == \A c \in Calls : CallInv(c)

RunInv == system = "up" => DriverInv /\ AgentInv /\ StreamInv

----------------------------------------------------------------------------
(* The driver and its caller.                                                 *)

\* Nothing happens to a call but that its question may be settled.
Aside(d) ==
    /\ pc'[d] = pc[d] /\ collector'[d] = collector[d] /\ driver'[d] = driver[d]
    /\ \/ promise'[d] = promise[d]
       \/ promise[d] = "open" /\ promise'[d] \in {"ok", "error", "late"}

LEMMA AsideDriver ==
    ASSUME NEW d, DriverInStep(d), Aside(d) PROVE DriverInStep(d)'
  BY DEF DriverInStep, Aside

\* The steps that begin while the system is up and do not begin its shutdown.
UpStep ==
    \/ \E c \in Calls : \/ Refuse(c) \/ Run(c) \/ AskStream(c) \/ CallerLeaves(c)
                        \/ Abort(c) \/ AskTimesOut(c)
                        \/ CallerStep(c) \/ DriverStep(c) \/ CollectorTakes(c)
    \/ \E a \in Agents : AgentEmits(a) \/ AgentStep(a)

LEMMA StepsWhileUp ==
    ASSUME TypeOK, [Next]_vars, system' = "up"
    PROVE  system = "up" /\ (UpStep \/ UNCHANGED vars)
<1>1. ASSUME ShutdownBegins \/ ShutdownStep PROVE FALSE
  BY <1>1, ShutdownTyped
<1>2. CASE UpStep
  <2>1. UNCHANGED system
    <3>1. ASSUME NEW c \in Calls,
                 \/ Refuse(c) \/ Run(c) \/ AskStream(c) \/ CallerLeaves(c)
                 \/ Abort(c) \/ AskTimesOut(c)
          PROVE UNCHANGED system
      BY <3>1 DEF Refuse, Run, AskStream, CallerLeaves, Abort, AskTimesOut, shutdowns
    <3>2. ASSUME NEW c \in Calls, CallerStep(c) PROVE UNCHANGED system
      BY <3>2 DEF CallerStep, RootStarts, RootFails, FailureJoined, Reads, shutdowns
    <3>3. ASSUME NEW c \in Calls, DriverStep(c) PROVE UNCHANGED system
      BY <3>3 DEF DriverStep, DriverAsks, DriverWakes, RootJoined, CollectorJoined, shutdowns
    <3>4. ASSUME NEW c \in Calls, CollectorTakes(c) PROVE UNCHANGED system
      BY <3>4 DEF CollectorTakes, shutdowns
    <3>5. ASSUME NEW a \in Agents, AgentEmits(a) \/ AgentStep(a) PROVE UNCHANGED system
      BY <3>5 DEF AgentStep, AgentEmits, AgentTakes, AgentAnswers, AgentStops, AgentStopped,
                  shutdowns
    <3> QED
      BY <1>2, <3>1, <3>2, <3>3, <3>4, <3>5 DEF UpStep
  <2> QED
    BY <1>2, <2>1
<1>3. CASE UNCHANGED vars
  BY <1>3 DEF vars
<1>4. UpStep \/ UNCHANGED vars
  BY <1>1 DEF Next, Progress, UpStep
<1> QED
  BY <1>2, <1>3, <1>4

LEMMA AgentAside ==
    ASSUME TypeOK, NEW a \in Agents, AgentEmits(a) \/ AgentStep(a), NEW d \in Calls
    PROVE  Aside(d)
<1> USE DEF streams
<1>1. UNCHANGED <<pc, collector, driver>>
  BY DEF AgentEmits, AgentStep, AgentTakes, AgentAnswers, AgentStops, AgentStopped
<1>2. CASE UNCHANGED promise
  BY <1>1, <1>2 DEF Aside
<1>3. CASE AgentAnswers(a)
  <2>1. PICK p \in {"ok", "error"} : Reply(current[a], p)
    BY <1>3 DEF AgentAnswers
  <2>2. promise'[d] = promise[d] \/ (promise[d] = "open" /\ promise'[d] = p)
    BY <2>1 DEF Reply, TypeOK
  <2> QED
    BY <1>1, <2>2 DEF Aside
<1>4. CASE AgentStopped(a)
  BY <1>1, <1>4 DEF AgentStopped, Rejects, Aside
<1> QED
  BY <1>2, <1>3, <1>4 DEF AgentEmits, AgentStep, AgentTakes, AgentStops

LEMMA DriverInvInductive ==
    ASSUME TypeOK, DriverInv, UpStep PROVE DriverInv'
<1> SUFFICES ASSUME NEW d \in Calls PROVE DriverInStep(d)'
  BY DEF DriverInv
<1> USE DEF agents, streams, shutdowns, Ends, Drives
<1>t. /\ pc \in [Calls -> Positions] /\ promise \in [Calls -> {"none", "open", "ok", "error", "late"}]
      /\ collector \in [Calls -> {"none", "up", "stopped"}]
      /\ driver \in [Calls -> {"none", "ask", "wait", "root", "collector", "done"}]
      /\ DriverInStep(d)
  BY DEF TypeOK, DriverInv
<1>1. ASSUME NEW a \in Agents, AgentEmits(a) \/ AgentStep(a) PROVE DriverInStep(d)'
  BY <1>t, <1>1, AgentAside, AsideDriver
<1>2. ASSUME NEW c \in Calls, CollectorTakes(c) PROVE DriverInStep(d)'
  <2>1. collector'[d] = collector[d] \/ (collector[d] = "up" /\ collector'[d] = "stopped")
    BY <1>t, <1>2 DEF CollectorTakes, UpCollector
  <2> QED
    BY <1>t, <1>2, <2>1 DEF CollectorTakes, DriverInStep
<1>3. ASSUME NEW c \in Calls, DriverStep(c) PROVE DriverInStep(d)'
  <2>1. CASE d # c
    <3>1. Aside(d)
      BY <1>t, <1>3, <2>1 DEF DriverStep, DriverAsks, DriverWakes, RootJoined, CollectorJoined, Aside
    <3> QED
      BY <1>t, <3>1, AsideDriver
  <2>2. CASE d = c
    <3>0. UNCHANGED <<pc, collector>>
      BY <1>3 DEF DriverStep, DriverAsks, DriverWakes, RootJoined, CollectorJoined
    <3>1. CASE DriverAsks(c)
      <4>1. driver[c] = "ask" /\ driver'[c] = "wait" /\ promise'[c] \in {"open", "error"}
        BY <1>t, <3>1 DEF DriverAsks
      <4> QED
        BY <1>t, <2>2, <3>0, <4>1 DEF DriverInStep
    <3>2. CASE DriverWakes(c)
      <4>1. driver[c] = "wait" /\ driver'[c] \in {"root", "collector"} /\ promise[c] # "open"
            /\ promise' = promise
        BY <1>t, <3>2 DEF DriverWakes
      <4> QED
        BY <1>t, <2>2, <3>0, <4>1 DEF DriverInStep
    <3>3. CASE RootJoined(c)
      BY <1>t, <2>2, <3>0, <3>3 DEF RootJoined, DriverInStep
    <3>4. CASE CollectorJoined(c)
      BY <1>t, <2>2, <3>0, <3>4 DEF CollectorJoined, DriverInStep
    <3> QED
      BY <1>3, <3>1, <3>2, <3>3, <3>4 DEF DriverStep
  <2> QED
    BY <2>1, <2>2
<1>4. ASSUME NEW c \in Calls, CallerStep(c) PROVE DriverInStep(d)'
  <2>0. UNCHANGED <<collector, promise>>
    BY <1>4 DEF CallerStep, RootStarts, RootFails, FailureJoined, Reads
  <2>1. CASE RootStarts(c)
    BY <1>t, <2>0, <2>1 DEF RootStarts, DriverInStep
  <2>2. CASE RootFails(c)
    BY <1>t, <2>0, <2>2 DEF RootFails, DriverInStep
  <2>3. CASE FailureJoined(c)
    BY <1>t, <2>0, <2>3 DEF FailureJoined, DriverInStep
  <2>4. CASE Reads(c)
    <3>1. pc'[d] = pc[d] \/ (pc[d] = "reading" /\ pc'[d] \in {"ended", "raised"})
      BY <1>t, <2>4 DEF Reads
    <3> QED
      BY <1>t, <2>0, <2>4, <3>1 DEF Reads, DriverInStep
  <2> QED
    BY <1>4, <2>1, <2>2, <2>3, <2>4 DEF CallerStep
<1>5. ASSUME NEW c \in Calls, Refuse(c) PROVE DriverInStep(d)'
  BY <1>t, <1>5 DEF Refuse, DriverInStep
<1>6. ASSUME NEW c \in Calls, Run(c) PROVE DriverInStep(d)'
  BY <1>t, <1>6 DEF Run, DriverInStep
<1>7. ASSUME NEW c \in Calls, AskStream(c) PROVE DriverInStep(d)'
  BY <1>t, <1>7 DEF AskStream, DriverInStep
<1>8. ASSUME NEW c \in Calls, CallerLeaves(c) PROVE DriverInStep(d)'
  <2>1. \/ pc'[d] = pc[d] \/ (pc[d] = "starting" /\ pc'[d] = "lost")
        \/ (pc[d] = "reading" /\ pc'[d] = "left")
    BY <1>t, <1>8 DEF CallerLeaves
  <2> QED
    BY <1>t, <1>8, <2>1 DEF CallerLeaves, DriverInStep
<1>9. ASSUME NEW c \in Calls, Abort(c) PROVE DriverInStep(d)'
  BY <1>t, <1>9 DEF Abort, DriverInStep
<1>10. ASSUME NEW c \in Calls, AskTimesOut(c) PROVE DriverInStep(d)'
  <2>1. Aside(d)
    BY <1>t, <1>10 DEF AskTimesOut, Aside
  <2> QED
    BY <1>t, <2>1, AsideDriver
<1> QED
  BY <1>1, <1>2, <1>3, <1>4, <1>5, <1>6, <1>7, <1>8, <1>9, <1>10 DEF UpStep

----------------------------------------------------------------------------
(* The agents and what they emit.                                             *)

LEMMA TargetTyped == \A c \in Calls : Target(c) \in Agents
  BY DEF Target, Agents, Calls

\* A busy agent serves a call, an idle one does not.
LEMMA ServingFacts ==
    ASSUME TypeOK, AgentInv, NEW a \in Agents
    PROVE  /\ agent[a] = "busy" => current[a] \in Calls /\ current[a] # None
                                   /\ Target(current[a]) = a /\ Unanswered(current[a])
                                   /\ log[current[a]] # <<>>
                                   /\ \A i \in DOMAIN inbox[a] : inbox[a][i] # current[a]
           /\ agent[a] # "busy" => current[a] = None
  BY DEF TypeOK, AgentInv, Serving, Calls

\* Unanswered after the step.
Still(d) == promise'[d] \in {"open", "late"} /\ driver'[d] \notin {"none", "ask"}

\* Whoever is unanswered stays so.
Answering(d) == /\ Unanswered(d) => Still(d)
                /\ promise'[d] = "ok" => promise[d] = "ok"
                /\ driver'[d] \in {"none", "ask"} => driver[d] \in {"none", "ask"}

\* Steps that leave the agents' questions and events alone, but for a _Stop.
LEMMA AgentFrame ==
    ASSUME TypeOK, AgentInv, UNCHANGED <<current, log>>,
           \A b \in Agents : agent[b] = "busy" => agent'[b] = "busy",
           inbox' = inbox \/ (\E S : StopAgents(S)),
           \A d \in Calls : Answering(d)
    PROVE  AgentInv'
<1>1. ASSUME NEW b \in Agents
      PROVE  /\ Waiting(b)'
             /\ current[b] # None /\ (\A i \in DOMAIN inbox[b] : inbox[b][i] # current[b])
                => \A i \in DOMAIN inbox'[b] : inbox'[b][i] # current[b]
  <2>0. inbox[b] \in Seq(Calls \cup {None}) /\ None \in Calls \cup {None} /\ Waiting(b)
    BY DEF TypeOK, AgentInv
  <2>1. \A d \in Calls : Unanswered(d) => Still(d)
    BY DEF Answering
  <2>2. CASE inbox'[b] = inbox[b]
    <3>1. \A i \in DOMAIN inbox[b] : inbox[b][i] # None => inbox[b][i] \in Calls
      BY <2>0
    <3> QED
      BY <2>0, <2>1, <2>2, <3>1 DEF Waiting, Still, Unanswered
  <2>3. CASE inbox'[b] = Append(inbox[b], None)
    <3> DEFINE q == inbox[b]
               r == Append(q, None)
    <3>1. /\ DOMAIN r = 1..(Len(q) + 1) /\ DOMAIN q = 1..Len(q) /\ Len(q) \in Nat
          /\ r[Len(q) + 1] = None
          /\ \A i \in 1..Len(q) : r[i] = q[i]
      BY <2>0, AppendFacts
    <3>2. \A i \in DOMAIN r : r[i] # None => i \in DOMAIN q /\ r[i] = q[i] /\ r[i] \in Calls
      BY <2>0, <3>1
    <3>3. /\ \A i \in DOMAIN q : q[i] # None => Target(q[i]) = b /\ Unanswered(q[i])
          /\ \A i, j \in DOMAIN q : q[i] = q[j] /\ q[i] # None => i = j
      BY <2>0 DEF Waiting
    <3>4. inbox'[b] = r
      BY <2>3
    <3> HIDE DEF q, r
    <3>5. \A i \in DOMAIN r : r[i] # None => Target(r[i]) = b /\ Still(r[i])
      BY <2>1, <3>2, <3>3
    <3>6. \A i, j \in DOMAIN r : r[i] = r[j] /\ r[i] # None => i = j
      BY <3>2, <3>3
    <3>7. Waiting(b)'
      BY <3>4, <3>5, <3>6 DEF Waiting, Still, Unanswered
    <3> QED
      BY <3>2, <3>4, <3>7 DEF q
  <2>4. inbox'[b] = inbox[b] \/ inbox'[b] = Append(inbox[b], None)
    BY DEF StopAgents
  <2> QED
    BY <2>2, <2>3, <2>4
<1>2. ASSUME NEW b \in Agents PROVE Serving(b)'
  <2>1. CASE current[b] = None
    BY <2>1 DEF Serving
  <2>2. CASE current[b] # None
    <3>1. /\ agent[b] = "busy" /\ Target(current[b]) = b /\ Unanswered(current[b])
          /\ log[current[b]] # <<>> /\ current[b] \in Calls
          /\ \A i \in DOMAIN inbox[b] : inbox[b][i] # current[b]
      BY <2>2, ServingFacts
    <3>2. Still(current[b])
      BY <3>1 DEF Answering
    <3> QED
      BY <1>1, <2>2, <3>1, <3>2 DEF Serving, Still, Unanswered
  <2> QED
    BY <2>1, <2>2
<1>3. ASSUME NEW d \in Calls PROVE Logged(d)'
  BY DEF AgentInv, Logged, Answering
<1> QED
  BY <1>1, <1>2, <1>3 DEF AgentInv

\* One more event of a call that has some, or its first, "started".
LEMMA LoggedGrows ==
    ASSUME TypeOK, NEW d \in Calls, Logged(d), NEW x \in Kinds, log'[d] = Append(log[d], x),
           log[d] # <<>> \/ (x = "started" /\ driver[d] \notin {"none", "ask"}),
           driver'[d] = driver[d], promise'[d] = "ok" => promise[d] = "ok" \/ x = "completed"
    PROVE  Logged(d)' /\ log'[d] # <<>>
<1>1. log[d] \in Seq(Kinds)
  BY DEF TypeOK, Kinds
<1>2. /\ Append(log[d], x) # <<>>
      /\ Append(log[d], x)[Len(log[d]) + 1] = x
      /\ \A i \in 1..Len(log[d]) : Append(log[d], x)[i] = log[d][i]
      /\ log[d] # <<>> => Append(log[d], x)[1] = log[d][1]
      /\ log[d] = <<>> => Append(log[d], x)[1] = x
      /\ DOMAIN log[d] = 1..Len(log[d]) /\ Len(log[d]) \in Nat
      /\ DOMAIN Append(log[d], x) = 1..(Len(log[d]) + 1)
  BY <1>1, AppendFacts
<1>3. log'[d][1] = "started" /\ driver'[d] \notin {"none", "ask"}
  BY <1>2 DEF Logged
<1>4. promise'[d] = "ok" => \E i \in DOMAIN log'[d] : log'[d][i] = "completed"
  <2>1. CASE promise[d] = "ok"
    <3>1. PICK i \in DOMAIN log[d] : log[d][i] = "completed"
      BY <2>1 DEF Logged
    <3>2. i \in DOMAIN log'[d] /\ log'[d][i] = "completed"
      BY <1>2, <3>1
    <3> QED
      BY <3>2
  <2>2. CASE x = "completed"
    <3>1. Len(log[d]) + 1 \in DOMAIN log'[d] /\ log'[d][Len(log[d]) + 1] = "completed"
      BY <1>2, <2>2
    <3> QED
      BY <3>1
  <2> QED
    BY <2>1, <2>2
<1> QED
  BY <1>2, <1>3, <1>4 DEF Logged

LEMMA AgentTakesInv ==
    ASSUME TypeOK, AgentInv, NEW a \in Agents, AgentTakes(a) PROVE AgentInv'
<1>0. PICK c : c = Head(inbox[a])
  OBVIOUS
<1>1. /\ inbox[a] \in Seq(Calls \cup {None}) /\ inbox[a] # <<>> /\ c # None
      /\ agent[a] = "idle" /\ current[a] = None
  BY <1>0, ServingFacts DEF AgentTakes, TypeOK
<1>2. /\ Tail(inbox[a]) \in Seq(Calls \cup {None}) /\ c \in Calls \cup {None} /\ c = inbox[a][1]
      /\ DOMAIN Tail(inbox[a]) = 1..(Len(inbox[a]) - 1)
      /\ \A i \in 1..(Len(inbox[a]) - 1) : Tail(inbox[a])[i] = inbox[a][i + 1]
      /\ DOMAIN inbox[a] = 1..Len(inbox[a]) /\ Len(inbox[a]) \in Nat \ {0}
  BY <1>0, <1>1, TailFacts
<1>3. /\ \A i \in DOMAIN inbox[a] :
            inbox[a][i] # None => Target(inbox[a][i]) = a /\ Unanswered(inbox[a][i])
      /\ \A i, j \in DOMAIN inbox[a] : inbox[a][i] = inbox[a][j] /\ inbox[a][i] # None => i = j
  BY DEF AgentInv, Waiting
<1>4. c \in Calls /\ Target(c) = a /\ Unanswered(c)
  BY <1>1, <1>2, <1>3
<1>5. \A i \in DOMAIN Tail(inbox[a]) : i + 1 \in DOMAIN inbox[a] /\ i + 1 # 1
                                       /\ Tail(inbox[a])[i] = inbox[a][i + 1]
  BY <1>2
<1>6. \A i \in DOMAIN Tail(inbox[a]) : Tail(inbox[a])[i] # c
  BY <1>1, <1>2, <1>3, <1>5
<1>7. /\ agent' = [agent EXCEPT ![a] = "busy"]
      /\ current' = [current EXCEPT ![a] = c]
      /\ inbox' = [inbox EXCEPT ![a] = Tail(inbox[a])]
      /\ Emitted(c, "started")
      /\ UNCHANGED <<promise, driver>>
  BY <1>0, <1>4, EmitEffect DEF AgentTakes, Kinds
<1>8. \A d : Still(d) <=> Unanswered(d)
  BY <1>7 DEF Unanswered, Still
<1>9. \A d \in Calls : Logged(d)' /\ (log[d] # <<>> => log'[d] # <<>>)
  <2>1. ASSUME NEW d \in Calls, d # c PROVE Logged(d)' /\ log'[d] = log[d]
    BY <1>7, <2>1 DEF Emitted, AgentInv, Logged
  <2>2. Logged(c)' /\ log'[c] # <<>>
    BY <1>4, <1>7, LoggedGrows DEF Emitted, AgentInv, Logged, Unanswered, Kinds
  <2> QED
    BY <2>1, <2>2
<1>10. log'[c] # <<>>
  BY <1>4, <1>7, LoggedGrows DEF Emitted, AgentInv, Logged, Unanswered, Kinds
<1>11. Waiting(a)' /\ Serving(a)'
  <2>1. /\ agent'[a] = "busy" /\ current'[a] = c /\ inbox'[a] = Tail(inbox[a])
    BY <1>7 DEF TypeOK
  <2>2. \A i \in DOMAIN inbox'[a] :
           inbox'[a][i] # None => Target(inbox'[a][i]) = a /\ Unanswered(inbox'[a][i])
    BY <1>3, <1>5, <2>1
  <2>4. \A i \in DOMAIN inbox'[a] :
           inbox'[a][i] # None => Target(inbox'[a][i]) = a /\ Still(inbox'[a][i])
    BY <1>8, <2>2
  <2>5. \A i, j \in DOMAIN inbox'[a] : inbox'[a][i] = inbox'[a][j] /\ inbox'[a][i] # None => i = j
    BY <1>2, <1>3, <1>5, <2>1
  <2>6. Still(c)
    BY <1>4, <1>8
  <2> QED
    BY <1>4, <1>6, <1>10, <2>1, <2>4, <2>5, <2>6 DEF Waiting, Serving, Still, Unanswered
<1>12. ASSUME NEW b \in Agents, b # a PROVE Waiting(b)' /\ Serving(b)'
  <2>1. agent'[b] = agent[b] /\ current'[b] = current[b] /\ inbox'[b] = inbox[b]
    BY <1>7, <1>12 DEF TypeOK
  <2>2. inbox[b] \in Seq(Calls \cup {None}) /\ current[b] \in Calls \cup {None}
    BY DEF TypeOK
  <2>3. \A i \in DOMAIN inbox[b] : inbox[b][i] # None => inbox[b][i] \in Calls
    BY <2>2
  <2> QED
    BY <1>8, <1>9, <2>1, <2>2, <2>3 DEF AgentInv, Waiting, Serving, Still, Unanswered
<1> QED
  BY <1>9, <1>11, <1>12 DEF AgentInv

\* An event of the call that is served, without an answer.
LEMMA AgentEmitsInv ==
    ASSUME TypeOK, AgentInv, NEW a \in Agents, AgentEmits(a) PROVE AgentInv'
<1>0. PICK c : c = current[a]
  OBVIOUS
<1>1. /\ c \in Calls /\ log[c] # <<>>
      /\ Emitted(c, "chunk")
      /\ UNCHANGED <<agent, inbox, current, promise, driver>>
  BY <1>0, EmitEffect, ServingFacts DEF AgentEmits, TypeOK, Kinds
<1>2. \A d \in Calls : Logged(d)' /\ (log[d] # <<>> => log'[d] # <<>>)
  <2>1. ASSUME NEW d \in Calls, d # c PROVE Logged(d)' /\ log'[d] = log[d]
    BY <1>1, <2>1 DEF Emitted, AgentInv, Logged
  <2>2. Logged(c)' /\ log'[c] # <<>>
    BY <1>1, LoggedGrows DEF Emitted, AgentInv, Kinds
  <2> QED
    BY <2>1, <2>2
<1>3. \A d : Still(d) <=> Unanswered(d)
  BY <1>1 DEF Unanswered, Still
<1>4. ASSUME NEW b \in Agents PROVE Waiting(b)' /\ Serving(b)'
  <2>1. inbox[b] \in Seq(Calls \cup {None}) /\ current[b] \in Calls \cup {None}
    BY DEF TypeOK
  <2>2. \A i \in DOMAIN inbox[b] : inbox[b][i] # None => inbox[b][i] \in Calls
    BY <2>1
  <2> QED
    BY <1>1, <1>2, <1>3, <2>1, <2>2 DEF AgentInv, Waiting, Serving, Still, Unanswered
<1> QED
  BY <1>2, <1>4 DEF AgentInv

LEMMA AgentAnswersInv ==
    ASSUME TypeOK, AgentInv, NEW a \in Agents, AgentAnswers(a) PROVE AgentInv'
<1>0. PICK c : c = current[a]
  OBVIOUS
<1>1. /\ c \in Calls /\ c # None /\ log[c] # <<>> /\ Target(c) = a
      /\ \A i \in DOMAIN inbox[a] : inbox[a][i] # c
      /\ driver[c] \notin {"none", "ask"}
  BY <1>0, ServingFacts DEF AgentAnswers, TypeOK, Unanswered
<1>2. /\ current' = [current EXCEPT ![a] = None]
      /\ agent' = [agent EXCEPT ![a] = "idle"]
      /\ UNCHANGED <<inbox, driver>>
  BY DEF AgentAnswers
<1>3. PICK p \in {"ok", "error"}, x \in {"completed", "failed"} :
         /\ Emitted(c, x) /\ Reply(c, p) /\ (p = "ok" => x = "completed")
  BY <1>0, <1>1, EmitEffect DEF AgentAnswers, Kinds
<1>4. /\ \A d \in Calls \ {c} : promise'[d] = promise[d]
      /\ promise'[c] = promise[c] \/ promise'[c] = p
  BY <1>1, <1>3 DEF Reply, TypeOK
<1>5. \A d \in Calls \ {c} : Unanswered(d) => Still(d)
  BY <1>2, <1>4 DEF Still, Unanswered
<1>6. \A d \in Calls : Logged(d)' /\ (log[d] # <<>> => log'[d] # <<>>)
  <2>1. ASSUME NEW d \in Calls, d # c PROVE Logged(d)' /\ log'[d] = log[d]
    <3>1. log'[d] = log[d] /\ promise'[d] = promise[d] /\ driver'[d] = driver[d]
      BY <1>2, <1>3, <1>4, <2>1 DEF Emitted
    <3> QED
      BY <3>1 DEF AgentInv, Logged
  <2>2. Logged(c)' /\ log'[c] # <<>>
    BY <1>1, <1>2, <1>3, <1>4, LoggedGrows DEF Emitted, AgentInv, Kinds
  <2> QED
    BY <2>1, <2>2
<1>7. ASSUME NEW b \in Agents PROVE Waiting(b)' /\ Serving(b)'
  <2>1. inbox[b] \in Seq(Calls \cup {None}) /\ current[b] \in Calls \cup {None}
    BY DEF TypeOK
  <2>2. /\ \A i \in DOMAIN inbox[b] :
              inbox[b][i] # None => Target(inbox[b][i]) = b /\ Unanswered(inbox[b][i])
        /\ \A i, j \in DOMAIN inbox[b] : inbox[b][i] = inbox[b][j] /\ inbox[b][i] # None => i = j
    BY DEF AgentInv, Waiting
  <2>3. \A i \in DOMAIN inbox[b] : inbox[b][i] # None => inbox[b][i] \in Calls \ {c}
    BY <1>1, <2>1, <2>2
  <2>4. Waiting(b)'
    BY <1>2, <1>5, <2>2, <2>3 DEF Waiting, Still, Unanswered
  <2>5. CASE b = a
    BY <1>2, <2>4, <2>5 DEF Serving, TypeOK
  <2>6. CASE b # a
    <3>1. current'[b] = current[b] /\ agent'[b] = agent[b]
      BY <1>2, <2>6 DEF TypeOK
    <3>2. current[b] # None => current[b] \in Calls \ {c} /\ Unanswered(current[b])
      BY <1>1, <2>1, <2>6 DEF AgentInv, Serving
    <3> QED
      BY <1>2, <1>5, <1>6, <2>4, <3>1, <3>2 DEF AgentInv, Serving, Still, Unanswered
  <2> QED
    BY <2>5, <2>6
<1> QED
  BY <1>6, <1>7 DEF AgentInv

LEMMA AgentStopsInv ==
    ASSUME TypeOK, AgentInv, NEW a \in Agents, AgentStops(a) PROVE AgentInv'
<1> USE DEF streams
<1>1. /\ agent[a] = "idle" /\ inbox[a] # <<>> /\ current[a] = None
      /\ agent' = [agent EXCEPT ![a] = "closing"]
      /\ inbox' = [inbox EXCEPT ![a] = Tail(inbox[a])]
      /\ UNCHANGED <<current, log, promise, driver>>
  BY ServingFacts DEF AgentStops
<1>2. inbox[a] \in Seq(Calls \cup {None})
  BY DEF TypeOK
<1>3. \A i \in DOMAIN Tail(inbox[a]) : i + 1 \in DOMAIN inbox[a]
                                       /\ Tail(inbox[a])[i] = inbox[a][i + 1]
  BY <1>1, <1>2, TailFacts
<1>4. \A i \in DOMAIN Tail(inbox[a]) : i \in Int
  BY <1>1, <1>2, TailFacts
<1>5. \A d : Still(d) <=> Unanswered(d)
  BY <1>1 DEF Still, Unanswered
<1>6. ASSUME NEW b \in Agents PROVE Waiting(b)' /\ Serving(b)'
  <2>1. CASE b # a
    <3>1. agent'[b] = agent[b] /\ inbox'[b] = inbox[b]
      BY <1>1, <2>1 DEF TypeOK
    <3>2. Waiting(b) /\ Serving(b) /\ current'[b] = current[b] /\ log' = log
      BY <1>1 DEF AgentInv
    <3>3. Waiting(b)'
      BY <1>5, <3>1, <3>2 DEF Waiting, Still, Unanswered
    <3>4. Serving(b)'
      BY <1>5, <3>1, <3>2 DEF Serving, Still, Unanswered
    <3> QED
      BY <3>3, <3>4
  <2>2. CASE b = a
    <3>1. inbox'[a] = Tail(inbox[a])
      BY <1>1 DEF TypeOK
    <3>2. /\ \A i \in DOMAIN inbox[a] :
                inbox[a][i] # None => Target(inbox[a][i]) = a /\ Unanswered(inbox[a][i])
          /\ \A i, j \in DOMAIN inbox[a] : inbox[a][i] = inbox[a][j] /\ inbox[a][i] # None => i = j
      BY DEF AgentInv, Waiting
    <3>3. \A i \in DOMAIN inbox'[a] :
             inbox'[a][i] # None => Target(inbox'[a][i]) = a /\ Still(inbox'[a][i])
      BY <1>3, <1>5, <3>1, <3>2
    <3>4. \A i, j \in DOMAIN inbox'[a] : inbox'[a][i] = inbox'[a][j] /\ inbox'[a][i] # None => i = j
      BY <1>3, <1>4, <3>1, <3>2
    <3> QED
      BY <1>1, <2>2, <3>3, <3>4 DEF Waiting, Serving, Still, Unanswered
  <2> QED
    BY <2>1, <2>2
<1>7. \A d \in Calls : Logged(d)'
  BY <1>1 DEF AgentInv, Logged
<1> QED
  BY <1>6, <1>7 DEF AgentInv

LEMMA AgentStoppedInv ==
    ASSUME TypeOK, AgentInv, NEW a \in Agents, AgentStopped(a) PROVE AgentInv'
<1>1. /\ agent[a] = "closing" /\ current[a] = None
      /\ agent' = [agent EXCEPT ![a] = "stopped"]
      /\ inbox' = [inbox EXCEPT ![a] = <<>>]
      /\ Rejects({inbox[a][i] : i \in DOMAIN inbox[a]})
      /\ UNCHANGED <<current, driver>>
  BY ServingFacts DEF AgentStopped
<1>2. /\ \A i \in DOMAIN inbox[a] : inbox[a][i] # None => Target(inbox[a][i]) = a
      /\ \A d \in Calls : d # None
  BY DEF AgentInv, Waiting, Calls
<1>3. \A d \in Calls : /\ promise'[d] = "ok" => promise[d] = "ok"
                       /\ Target(d) # a => promise'[d] = promise[d]
  BY <1>1, <1>2 DEF Rejects
<1>4. \A d \in Calls : Target(d) # a /\ Unanswered(d) => Still(d)
  BY <1>1, <1>3 DEF Still, Unanswered
<1>5. \A d \in Calls : Logged(d)' /\ (log[d] # <<>> => log'[d] # <<>>)
  <2>1. CASE log' = log
    BY <1>1, <1>3, <2>1 DEF AgentInv, Logged
  <2>2. CASE a \in Runs /\ log[a] # <<>> /\ Emit(a, <<"chunk">>)
    <3>1. Emitted(a, "chunk") /\ a \in Calls
      BY <2>2, EmitEffect DEF Calls, Kinds
    <3>2. ASSUME NEW d \in Calls, d # a PROVE Logged(d)' /\ log'[d] = log[d]
      BY <1>1, <1>3, <3>1, <3>2 DEF Emitted, AgentInv, Logged
    <3>3. Logged(a)' /\ log'[a] # <<>>
      BY <1>1, <1>3, <2>2, <3>1, LoggedGrows DEF Emitted, AgentInv, Kinds
    <3> QED
      BY <3>2, <3>3
  <2> QED
    BY <2>1, <2>2 DEF AgentStopped
<1>6. ASSUME NEW b \in Agents PROVE Waiting(b)' /\ Serving(b)'
  <2>1. CASE b = a
    <3>1. inbox'[a] = <<>> /\ current'[a] = None
      BY <1>1 DEF TypeOK
    <3> QED
      BY <2>1, <3>1 DEF Waiting, Serving
  <2>2. CASE b # a
    <3>1. inbox[b] \in Seq(Calls \cup {None}) /\ current[b] \in Calls \cup {None}
      BY DEF TypeOK
    <3>2. /\ \A i \in DOMAIN inbox[b] :
                inbox[b][i] # None => Target(inbox[b][i]) = b /\ Unanswered(inbox[b][i])
          /\ \A i, j \in DOMAIN inbox[b] : inbox[b][i] = inbox[b][j] /\ inbox[b][i] # None => i = j
      BY DEF AgentInv, Waiting
    <3>3. inbox'[b] = inbox[b] /\ agent'[b] = agent[b] /\ current'[b] = current[b]
      BY <1>1, <2>2 DEF TypeOK
    <3>4. \A i \in DOMAIN inbox[b] : inbox[b][i] # None => inbox[b][i] \in Calls
      BY <3>1
    <3>5. \A i \in DOMAIN inbox[b] : inbox[b][i] # None => Still(inbox[b][i])
      BY <1>4, <2>2, <3>2, <3>4
    <3>6. Waiting(b)'
      BY <3>2, <3>3, <3>5 DEF Waiting, Still, Unanswered
    <3>7. Serving(b)'
      BY <1>4, <1>5, <2>2, <3>1, <3>3 DEF AgentInv, Serving, Still, Unanswered
    <3> QED
      BY <3>6, <3>7
  <2> QED
    BY <2>1, <2>2
<1> QED
  BY <1>5, <1>6 DEF AgentInv

LEMMA DriverAsksInv ==
    ASSUME TypeOK, AgentInv, NEW c \in Calls, DriverAsks(c) PROVE AgentInv'
<1> DEFINE a == Target(c)
<1> USE DEF streams
<1>0. a \in Agents /\ c # None
  BY TargetTyped DEF Calls
<1>1. /\ driver[c] = "ask" /\ driver' = [driver EXCEPT ![c] = "wait"]
      /\ UNCHANGED <<agent, current, log>>
      /\ \/ /\ inbox' = [inbox EXCEPT ![a] = Append(inbox[a], c)]
            /\ promise' = [promise EXCEPT ![c] = "open"]
         \/ /\ inbox' = inbox
            /\ promise' = [promise EXCEPT ![c] = "error"]
  BY DEF DriverAsks, Drives
<1>2. \A d \in Calls \ {c} : promise'[d] = promise[d] /\ driver'[d] = driver[d]
  BY <1>1 DEF TypeOK
<1>3. ~Unanswered(c) /\ promise'[c] # "ok" /\ driver'[c] = "wait"
  BY <1>1 DEF Unanswered, TypeOK
<1>4. \A d \in Calls : Unanswered(d) => Still(d)
  BY <1>2, <1>3 DEF Unanswered, Still
<1>5. \A d \in Calls : Logged(d)'
  BY <1>1, <1>2, <1>3 DEF AgentInv, Logged
<1>6. ASSUME NEW b \in Agents PROVE Waiting(b)' /\ Serving(b)'
  <2>1. inbox[b] \in Seq(Calls \cup {None}) /\ current[b] \in Calls \cup {None}
    BY DEF TypeOK
  <2>2. /\ \A i \in DOMAIN inbox[b] :
              inbox[b][i] # None => Target(inbox[b][i]) = b /\ Unanswered(inbox[b][i])
        /\ \A i, j \in DOMAIN inbox[b] : inbox[b][i] = inbox[b][j] /\ inbox[b][i] # None => i = j
    BY DEF AgentInv, Waiting
  <2>3. \A i \in DOMAIN inbox[b] :
           inbox[b][i] # None => inbox[b][i] \in Calls /\ Still(inbox[b][i])
    BY <1>4, <2>1, <2>2
  <2>4. /\ current[b] # None => current[b] \in Calls /\ current[b] # c
                                /\ Unanswered(current[b]) /\ Still(current[b])
        /\ Serving(b)
    BY <1>3, <1>4, <2>1 DEF AgentInv, Serving
  <2>5. CASE inbox'[b] = inbox[b]
    BY <1>1, <2>2, <2>3, <2>4, <2>5 DEF Waiting, Serving, Still, Unanswered
  <2>6. CASE b = a /\ inbox'[b] = Append(inbox[b], c) /\ promise'[c] = "open"
    <3> DEFINE q == inbox[b]
               r == Append(q, c)
    <3>1. /\ DOMAIN r = 1..(Len(q) + 1) /\ DOMAIN q = 1..Len(q) /\ Len(q) \in Nat
          /\ r[Len(q) + 1] = c
          /\ \A i \in 1..Len(q) : r[i] = q[i]
      BY <2>1, AppendFacts
    <3>2. \A i \in DOMAIN q : q[i] # c
      BY <1>0, <1>3, <2>2
    <3>3. inbox'[b] = r
      BY <2>6
    <3>4. /\ \A i \in DOMAIN q : q[i] # None => Target(q[i]) = b /\ Still(q[i])
          /\ \A i, j \in DOMAIN q : q[i] = q[j] /\ q[i] # None => i = j
      BY <2>2, <2>3
    <3> HIDE DEF q, r
    <3>5. \A i \in DOMAIN r : (i \in DOMAIN q /\ r[i] = q[i]) \/ (i = Len(q) + 1 /\ r[i] = c)
      BY <3>1
    <3>6. Still(c) /\ Target(c) = b
      BY <1>3, <2>6 DEF Still
    <3>7. \A i \in DOMAIN r : r[i] # None => Target(r[i]) = b /\ Still(r[i])
      BY <3>4, <3>5, <3>6
    <3>8. \A i, j \in DOMAIN r : r[i] = r[j] /\ r[i] # None => i = j
      BY <3>2, <3>4, <3>5
    <3>9. Waiting(b)'
      BY <3>3, <3>7, <3>8 DEF Waiting, Still, Unanswered
    <3>10. current[b] # None => \A i \in DOMAIN r : r[i] # current[b]
      BY <2>4, <3>5 DEF Serving, q
    <3> QED
      BY <1>1, <2>4, <3>3, <3>9, <3>10 DEF Serving, Still, Unanswered
  <2> QED
    BY <1>0, <1>1, <2>5, <2>6 DEF TypeOK
<1> QED
  BY <1>5, <1>6 DEF AgentInv

\* A root agent that has not started, or a call that has not, serves nobody.
LEMMA UnstartedServesNobody ==
    ASSUME TypeOK, DriverInv, AgentInv, NEW c \in Runs, driver[c] = "none"
    PROVE  agent[c] # "busy"
<1>1. c \in Agents /\ c # Shared
  BY DEF Agents, Calls
<1>2. ASSUME agent[c] = "busy" PROVE FALSE
  <2>1. current[c] \in Calls /\ Target(current[c]) = c /\ Unanswered(current[c])
    BY <1>1, <1>2, ServingFacts
  <2>2. current[c] = c
    BY <1>1, <2>1 DEF Target
  <2> QED
    BY <2>1, <2>2 DEF Unanswered
<1> QED
  BY <1>2

LEMMA AgentInvInductive ==
    ASSUME TypeOK, DriverInv, AgentInv, UpStep PROVE AgentInv'
<1> USE DEF agents, streams, shutdowns, Ends, Drives
<1>1. ASSUME NEW a \in Agents, AgentEmits(a) \/ AgentStep(a) PROVE AgentInv'
  BY <1>1, AgentTakesInv, AgentEmitsInv, AgentAnswersInv, AgentStopsInv, AgentStoppedInv
     DEF AgentStep
<1>2. ASSUME NEW c \in Calls, CollectorTakes(c) PROVE AgentInv'
  <2>1. UNCHANGED <<agent, inbox, current, log, promise, driver>>
    BY <1>2 DEF CollectorTakes
  <2> QED
    BY <2>1, AgentFrame DEF Answering, Unanswered, Still
<1>3. ASSUME NEW c \in Calls, DriverStep(c) PROVE AgentInv'
  <2>1. CASE DriverAsks(c)
    BY <2>1, DriverAsksInv
  <2>2. CASE DriverWakes(c)
    <3>1. /\ UNCHANGED <<agent, current, log, promise>>
          /\ inbox' = inbox \/ StopAgents({c})
          /\ driver[c] = "wait"
          /\ \/ driver' = [driver EXCEPT ![c] = "root"]
             \/ driver' = [driver EXCEPT ![c] = "collector"]
      BY <2>2 DEF DriverWakes, StopsRoot
    <3>2. \A d \in Calls : Answering(d)
      BY <3>1 DEF Answering, Unanswered, Still, TypeOK
    <3> QED
      BY <3>1, <3>2, AgentFrame
  <2>3. CASE RootJoined(c) \/ CollectorJoined(c)
    <3>1. /\ UNCHANGED <<agent, inbox, current, log, promise>>
          /\ driver[c] \in {"root", "collector"}
          /\ \/ driver' = [driver EXCEPT ![c] = "collector"]
             \/ driver' = [driver EXCEPT ![c] = "done"]
      BY <2>3 DEF RootJoined, CollectorJoined
    <3>2. \A d \in Calls : Answering(d)
      BY <3>1 DEF Answering, Unanswered, Still, TypeOK
    <3> QED
      BY <3>1, <3>2, AgentFrame
  <2> QED
    BY <1>3, <2>1, <2>2, <2>3 DEF DriverStep
<1>4. ASSUME NEW c \in Calls,
             Run(c) \/ RootStarts(c) \/ RootFails(c) \/ (CallerLeaves(c) /\ pc[c] = "starting")
      PROVE  AgentInv'
  <2>1. driver[c] = "none" /\ pc[c] \in {"idle", "starting"}
    BY <1>4 DEF Run, RootStarts, RootFails, CallerLeaves, DriverInv, DriverInStep
  <2>2. /\ UNCHANGED <<inbox, current, log, promise>>
        /\ \A b \in Agents : b # c => agent'[b] = agent[b]
        /\ \A d \in Calls : driver'[d] = driver[d] \/ (d = c /\ driver'[d] = "ask")
    BY <1>4 DEF Run, RootStarts, RootFails, CallerLeaves, TypeOK
  <2>3. \A b \in Agents : agent[b] = "busy" => agent'[b] = "busy"
    <3>1. c \in Agents => c \in Runs
      BY DEF Agents, Calls
    <3> QED
      BY <2>1, <2>2, <3>1, UnstartedServesNobody
  <2>4. \A d \in Calls : Answering(d)
    BY <2>1, <2>2 DEF Answering, Unanswered, Still
  <2> QED
    BY <2>2, <2>3, <2>4, AgentFrame
<1>5. ASSUME NEW c \in Calls,
             \/ Refuse(c) \/ AskStream(c) \/ FailureJoined(c) \/ Reads(c)
             \/ (CallerLeaves(c) /\ pc[c] # "starting")
      PROVE  AgentInv'
  <2>1. /\ UNCHANGED <<agent, inbox, current, log, promise>>
        /\ \A d \in Calls : driver'[d] = driver[d] \/ (d = c /\ driver'[d] = "ask" /\ AskStream(c))
    BY <1>5 DEF Refuse, AskStream, FailureJoined, Reads, CallerLeaves, TypeOK
  <2>2. AskStream(c) => driver[c] = "none"
    BY DEF AskStream, DriverInv, DriverInStep
  <2>3. \A d \in Calls : Answering(d)
    BY <2>1, <2>2 DEF Answering, Unanswered, Still
  <2> QED
    BY <2>1, <2>3, AgentFrame
<1>6. ASSUME NEW c \in Calls, Abort(c) PROVE AgentInv'
  <2>1. UNCHANGED <<agent, current, log, promise, driver>> /\ StopAgents({c})
    BY <1>6 DEF Abort
  <2> QED
    BY <2>1, AgentFrame DEF Answering, Unanswered, Still
<1>7. ASSUME NEW c \in Calls, AskTimesOut(c) PROVE AgentInv'
  <2>1. UNCHANGED <<agent, inbox, current, log, driver>>
        /\ promise' = [promise EXCEPT ![c] = "late"]
    BY <1>7 DEF AskTimesOut
  <2>2. \A d \in Calls : Answering(d)
    BY <2>1 DEF Answering, Unanswered, Still, TypeOK
  <2> QED
    BY <2>1, <2>2, AgentFrame
<1> QED
  BY <1>1, <1>2, <1>3, <1>4, <1>5, <1>6, <1>7 DEF UpStep, CallerStep

----------------------------------------------------------------------------
(* The collector and the stream, one call at a time.                          *)

\* Nothing happens to the events of a call; what is settled stays.
Quiet(d) ==
    /\ collector'[d] = collector[d] /\ box'[d] = box[d] /\ stream'[d] = stream[d] /\ log'[d] = log[d]
    /\ Settled(d) => /\ driver'[d] = driver[d] /\ promise'[d] = promise[d]
                     /\ d \in Runs /\ agent[d] = "stopped" => agent'[d] = "stopped"
    /\ ~Settled(d) => driver'[d] \notin {"collector", "done"}
    /\ pc[d] \in {"failing", "failed"} => pc'[d] \in {"failing", "failed"}
    /\ pc'[d] \in {"ended", "raised"} => pc'[d] = pc[d]

LEMMA QuietCall ==
    ASSUME NEW d \in Calls, CallInv(d), Quiet(d) PROVE CallInv(d)'
<1>1. Settled(d)' <=> Settled(d)
  BY DEF Settled, Quiet
<1>2. RootFirst(d)'
  BY <1>1 DEF CallInv, RootFirst, Quiet
<1>3. Fed(d)' = Fed(d) /\ (driver'[d] = "done" <=> driver[d] = "done")
  BY DEF Fed, Quiet, Settled
<1>4. InOrder(d)'
  BY <1>3 DEF CallInv, InOrder, Quiet
<1>5. /\ Told(d)' <=> Told(d)
      /\ Numbered(d)' <=> Numbered(d)
      /\ StopIsLast(d)' <=> StopIsLast(d)
      /\ Settled(d) => (Exact(d)' <=> Exact(d))
  BY DEF Told, Numbered, StopIsLast, Exact, Quiet
<1>6. OnItsWay(d)'
  BY <1>1, <1>3, <1>5 DEF CallInv, OnItsWay, Quiet
<1>7. Finished(d)'
  BY DEF CallInv, Finished, Quiet, Settled
<1> QED
  BY <1>2, <1>4, <1>6, <1>7 DEF CallInv

\* A collector starts before anything is said.
LEMMA OpensCall ==
    ASSUME TypeOK, NEW c \in Calls, DriverInStep(c), CallInv(c), collector[c] = "none",
           collector'[c] = "up", UNCHANGED <<box, stream, log>>,
           driver'[c] \in {"none", "ask"}, pc'[c] \in {"starting", "reading"}
    PROVE  CallInv(c)'
<1>1. log'[c] = <<>> /\ box'[c] = <<>> /\ stream'[c] = <<>> /\ ~Settled(c)'
  BY DEF CallInv, OnItsWay, Settled
<1>2. Fed(c)' = 0 /\ ~Told(c)' /\ Numbered(c)'
  BY <1>1 DEF Fed, Told, Numbered
<1> QED
  BY <1>1, <1>2 DEF CallInv, RootFirst, InOrder, OnItsWay, Finished

\* The collector is told to stop, behind all events if its call is settled.
LEMMA ToldCall ==
    ASSUME TypeOK, NEW c \in Calls, DriverInStep(c), CallInv(c),
           ~Settled(c), pc[c] \notin {"failing", "failed"}, collector[c] # "none",
           StopCollectors({c}), UNCHANGED <<collector, stream, log>>,
           driver'[c] = "collector" \/ (driver'[c] = driver[c] /\ pc'[c] = "failing"),
           pc'[c] \in {"ended", "raised"} => pc'[c] = pc[c],
           c \in Runs /\ driver'[c] = "collector" => agent'[c] = "stopped"
    PROVE  CallInv(c)'
<1> DEFINE q == box[c]
           r == Append(q, 0)
<1>1. /\ collector[c] = "up" /\ ~Told(c) /\ Numbered(c)
      /\ Len(stream[c]) + Len(q) = Len(log[c])
  BY DEF CallInv, OnItsWay, TypeOK
<1>2. q \in Seq(Nat) /\ Len(stream[c]) \in Nat /\ Len(log[c]) \in Nat
  BY DEF TypeOK
<1>3. /\ DOMAIN r = 1..(Len(q) + 1) /\ DOMAIN q = 1..Len(q) /\ Len(q) \in Nat
      /\ Len(r) = Len(q) + 1
      /\ r[Len(q) + 1] = 0
      /\ \A i \in 1..Len(q) : r[i] = q[i]
  BY <1>2, AppendFacts
<1>4. box'[c] = r /\ collector'[c] = "up" /\ stream'[c] = stream[c] /\ log'[c] = log[c]
  BY <1>1 DEF StopCollectors, UpCollector
<1>5. /\ \A i \in DOMAIN q : q[i] # 0
      /\ \A i \in DOMAIN q : q[i] = Len(stream[c]) + i
  BY <1>1, <1>3 DEF Told, Numbered
<1> HIDE DEF q, r
<1>6. Numbered(c)'
  <2>1. ASSUME NEW i \in DOMAIN r, \A j \in 1..i : r[j] # 0 PROVE r[i] = Len(stream[c]) + i
    <3>1. i \in 1..i
      BY <1>3
    <3>2. i \in 1..Len(q)
      BY <1>3, <2>1, <3>1
    <3>3. r[i] = q[i] /\ q[i] = Len(stream[c]) + i
      BY <1>3, <1>5, <3>2
    <3> QED
      BY <3>3
  <2> QED
    BY <1>4, <2>1 DEF Numbered
<1>7. Told(c)'
  BY <1>3, <1>4 DEF Told
<1>8. StopIsLast(c)'
  <2>1. ASSUME NEW i \in DOMAIN r, r[i] = 0 PROVE i = Len(r) /\ Len(stream[c]) + i = Len(log[c]) + 1
    <3>1. i = Len(q) + 1
      BY <1>3, <1>5, <2>1
    <3>2. Len(stream[c]) + (Len(q) + 1) = Len(log[c]) + 1
      <4> DEFINE x == Len(stream[c])
                 y == Len(q)
                 z == Len(log[c])
      <4>1. x + y = z /\ x \in Nat /\ y \in Nat /\ z \in Nat
        BY <1>1, <1>2, <1>3
      <4> HIDE DEF x, y, z
      <4>2. x + (y + 1) = z + 1
        BY <4>1
      <4> QED
        BY <4>2 DEF x, y, z
    <3> QED
      BY <1>3, <3>1, <3>2
  <2> QED
    BY <1>4, <2>1 DEF StopIsLast
<1>9. OnItsWay(c)'
  BY <1>4, <1>6, <1>7, <1>8 DEF OnItsWay, Settled
<1>10. Fed(c) = Len(stream[c]) /\ Fed(c)' = Len(stream[c]) /\ driver'[c] # "done"
  BY <1>4 DEF Fed, Settled
<1>11. InOrder(c)'
  BY <1>4, <1>10 DEF CallInv, InOrder
<1>12. RootFirst(c)' /\ Finished(c)'
  BY DEF CallInv, RootFirst, Finished, Settled
<1> QED
  BY <1>9, <1>11, <1>12 DEF CallInv

\* The driver ends the stream when the collector has stopped.
LEMMA EndedCall ==
    ASSUME TypeOK, NEW c \in Calls, CallInv(c), driver[c] = "collector", driver'[c] = "done",
           collector[c] = "stopped", stream'[c] = Append(stream[c], 0),
           UNCHANGED <<pc, agent, collector, box, log, promise>>
    PROVE  CallInv(c)'
<1>1. /\ stream[c] \in Seq(Nat) /\ Len(stream'[c]) = Len(stream[c]) + 1 /\ Len(stream[c]) \in Nat
      /\ stream'[c][Len(stream[c]) + 1] = 0 /\ stream'[c] # <<>>
      /\ \A i \in 1..Len(stream[c]) : stream'[c][i] = stream[c][i]
  <2>1. stream[c] \in Seq(Nat) /\ 0 \in Nat
    BY DEF TypeOK
  <2>2. /\ Len(Append(stream[c], 0)) = Len(stream[c]) + 1 /\ Len(stream[c]) \in Nat
        /\ Append(stream[c], 0)[Len(stream[c]) + 1] = 0 /\ Append(stream[c], 0) # <<>>
        /\ \A i \in 1..Len(stream[c]) : Append(stream[c], 0)[i] = stream[c][i]
    BY <2>1, AppendFacts
  <2> QED
    BY <2>1, <2>2
<1>2. Fed(c)' = Len(stream[c]) /\ Fed(c) = Len(stream[c])
  BY <1>1 DEF Fed
<1>3. InOrder(c)'
  BY <1>1, <1>2 DEF CallInv, InOrder
<1>4. Settled(c) /\ Settled(c)' /\ (Exact(c)' <=> Exact(c))
  BY DEF Settled, Exact
<1>5. OnItsWay(c)'
  BY <1>2, <1>4 DEF CallInv, OnItsWay
<1>6. RootFirst(c)' /\ Finished(c)'
  BY <1>4 DEF CallInv, RootFirst, Finished
<1> QED
  BY <1>3, <1>5, <1>6 DEF CallInv

\* An event joins the others, unless the collector is gone or only waits for its end.
LEMMA EmittedCall ==
    ASSUME TypeOK, NEW c \in Calls, NEW x \in Kinds, DriverInStep(c), CallInv(c), Emitted(c, x),
           driver[c] \notin {"none", "ask"}, ~(Settled(c) /\ Exact(c)), ~(Settled(c) /\ Exact(c))',
           UNCHANGED <<pc, collector, stream, driver>>,
           promise[c] = "ok" => promise'[c] = "ok"
    PROVE  CallInv(c)'
<1>1. collector[c] # "none" /\ pc[c] \notin {"failing", "failed"}
  BY DEF DriverInStep
<1>2. Settled(c)' <=> Settled(c)
  BY DEF Settled
<1>3. /\ box[c] \in Seq(Nat) /\ Len(stream[c]) \in Nat /\ log[c] \in Seq(Kinds)
      /\ Len(log[c]) \in Nat /\ Len(log[c]) + 1 \in Nat
  BY DEF TypeOK, Kinds
<1>4. Len(log'[c]) = Len(log[c]) + 1
  BY <1>3, AppendFacts DEF Emitted
<1>5. InOrder(c)' /\ RootFirst(c)' /\ Finished(c)'
  BY <1>2 DEF CallInv, InOrder, Fed, RootFirst, Finished, Exact
<1>6. CASE collector[c] = "up"
  <2> DEFINE q == box[c]
             n == Len(log[c]) + 1
             r == Append(q, n)
  <2>1. /\ DOMAIN r = 1..(Len(q) + 1) /\ DOMAIN q = 1..Len(q) /\ Len(q) \in Nat
        /\ Len(r) = Len(q) + 1
        /\ r[Len(q) + 1] = n
        /\ \A i \in 1..Len(q) : r[i] = q[i]
    BY <1>3, AppendFacts
  <2>2. box'[c] = r /\ n # 0
    BY <1>3, <1>6 DEF Emitted, UpCollector
  <2>3. /\ \A i \in DOMAIN q : (\A j \in 1..i : q[j] # 0) => q[i] = Len(stream[c]) + i
        /\ ~Told(c) => Len(stream[c]) + Len(q) + 1 = n
        /\ Told(c) <=> \E i \in DOMAIN q : q[i] = 0
    BY <1>3, <1>6, <2>1 DEF CallInv, OnItsWay, Numbered, Told
  <2> HIDE DEF q, r, n
  <2>4. Told(c)' <=> Told(c)
    <3>1. (\E i \in DOMAIN r : r[i] = 0) <=> (\E i \in DOMAIN q : q[i] = 0)
      BY <2>1, <2>2
    <3> QED
      BY <2>2, <2>3, <3>1 DEF Told
  <2>5. Numbered(c)'
    <3>1. ASSUME NEW i \in DOMAIN r, \A j \in 1..i : r[j] # 0 PROVE r[i] = Len(stream[c]) + i
      <4>1. CASE i \in DOMAIN q
        BY <2>1, <2>3, <3>1, <4>1
      <4>2. CASE i = Len(q) + 1
        <5>1. \A j \in DOMAIN q : j \in 1..i /\ r[j] = q[j]
          BY <2>1, <4>2
        <5>2. ~Told(c)
          BY <2>3, <3>1, <5>1
        <5> QED
          <6>1. Len(stream[c]) + Len(q) + 1 = n
            BY <2>3, <5>2
          <6>2. r[i] = n
            BY <2>1, <4>2
          <6>3. \A u, v \in Nat : u + v + 1 = u + (v + 1)
            OBVIOUS
          <6> QED
            BY <1>3, <2>1, <4>2, <6>1, <6>2, <6>3
      <4> QED
        BY <2>1, <4>1, <4>2
    <3> QED
      BY <2>2, <3>1 DEF Numbered
  <2>6. ~Told(c)' => Len(stream'[c]) + Len(box'[c]) = Len(log'[c])
    <3>1. SUFFICES ASSUME ~Told(c) PROVE Len(stream[c]) + (Len(q) + 1) = Len(log[c]) + 1
      BY <1>4, <2>1, <2>2, <2>4
    <3>2. Len(stream[c]) + Len(q) + 1 = Len(log[c]) + 1
      BY <2>3, <3>1 DEF n
    <3>3. \A u, v \in Nat : u + v + 1 = u + (v + 1)
      OBVIOUS
    <3> QED
      BY <1>3, <2>1, <3>2, <3>3
  <2> QED
    BY <1>2, <1>5, <1>6, <2>4, <2>5, <2>6 DEF CallInv, OnItsWay
<1>7. CASE collector[c] = "stopped"
  <2>1. box'[c] = box[c]
    BY <1>7 DEF Emitted, UpCollector
  <2>2. OnItsWay(c)'
    BY <1>2, <1>7, <2>1 DEF CallInv, OnItsWay, Told
  <2> QED
    BY <1>5, <2>2 DEF CallInv
<1> QED
  BY <1>1, <1>6, <1>7 DEF TypeOK

\* The collector takes an event, or its end.
LEMMA TakenCall ==
    ASSUME TypeOK, NEW c \in Calls, DriverInStep(c), CallInv(c), CollectorTakes(c)
    PROVE  CallInv(c)'
<1>0. PICK q, n, k : q = box[c] /\ n = Len(stream[c]) /\ k = Len(log[c])
  OBVIOUS
<1>1. /\ collector[c] = "up" /\ q # <<>> /\ q \in Seq(Nat) /\ stream[c] \in Seq(Nat)
      /\ n \in Nat /\ k \in Nat
  BY <1>0 DEF CollectorTakes, UpCollector, TypeOK
<1>2. UNCHANGED <<pc, agent, log, promise, driver>> /\ driver[c] # "done"
  BY <1>1 DEF CollectorTakes, agents, DriverInStep
<1>3. /\ Tail(q) \in Seq(Nat) /\ Head(q) \in Nat /\ Head(q) = q[1]
      /\ Len(Tail(q)) = Len(q) - 1
      /\ DOMAIN Tail(q) = 1..(Len(q) - 1)
      /\ \A i \in 1..(Len(q) - 1) : Tail(q)[i] = q[i + 1]
      /\ DOMAIN q = 1..Len(q) /\ Len(q) \in Nat \ {0}
  BY <1>1, TailFacts
<1>4. Fed(c) = n /\ Fed(c)' = Len(stream'[c])
  BY <1>0, <1>2 DEF Fed
<1>5. /\ Settled(c)' <=> Settled(c)
      /\ Exact(c)' <=> Exact(c)
      /\ RootFirst(c)' /\ Finished(c)'
  BY <1>2 DEF Settled, Exact, CallInv, RootFirst, Finished
<1>6. CASE Head(q) = 0
  <2>1. collector'[c] = "stopped" /\ box'[c] = <<>> /\ stream' = stream
    BY <1>0, <1>6 DEF CollectorTakes, TypeOK
  <2>2. InOrder(c)'
    BY <1>0, <1>2, <1>4, <2>1 DEF CallInv, InOrder
  <2>3. Told(c)
    BY <1>0, <1>3, <1>6 DEF Told
  <2>4. Settled(c) /\ Exact(c) => n = k
    <3>1. Settled(c) /\ Exact(c) => n + 1 = k + 1
      BY <1>0, <1>1, <1>3, <1>6 DEF CallInv, OnItsWay, StopIsLast
    <3> QED
      BY <1>1, <3>1
  <2>5. OnItsWay(c)'
    BY <1>0, <1>2, <1>4, <1>5, <2>1, <2>3, <2>4 DEF CallInv, OnItsWay
  <2> QED
    BY <1>5, <2>2, <2>5 DEF CallInv
<1>7. CASE Head(q) # 0
  <2>1. collector'[c] = "up" /\ box'[c] = Tail(q) /\ stream'[c] = Append(stream[c], Head(q))
    BY <1>0, <1>1, <1>7 DEF CollectorTakes, TypeOK
  <2>2. /\ Len(stream'[c]) = n + 1
        /\ stream'[c][n + 1] = Head(q)
        /\ \A i \in 1..n : stream'[c][i] = stream[c][i]
    BY <1>0, <1>1, <1>3, <2>1, AppendFacts
  <2>3. /\ \A i \in DOMAIN q : (\A j \in 1..i : q[j] # 0) => q[i] = n + i
        /\ ~Told(c) => n + Len(q) = k
        /\ Settled(c) /\ Exact(c) =>
              \A i \in DOMAIN q : q[i] = 0 => i = Len(q) /\ n + i = k + 1
    BY <1>0, <1>1 DEF CallInv, OnItsWay, Numbered, StopIsLast
  <2>4. Head(q) = n + 1
    <3>1. 1 \in DOMAIN q /\ \A j \in 1..1 : q[j] # 0
      BY <1>3, <1>7
    <3> QED
      BY <1>3, <2>3, <3>1
  <2>5. InOrder(c)'
    <3>1. \A i \in 1..n : stream[c][i] = i
      BY <1>4 DEF CallInv, InOrder
    <3>2. \A i \in 1..(n + 1) : stream'[c][i] = i
      <4>1. \A i \in 1..(n + 1) : i \in 1..n \/ i = n + 1
        BY <1>1
      <4> QED
        BY <2>2, <2>4, <3>1, <4>1
    <3> QED
      BY <1>2, <1>4, <2>2, <3>2 DEF InOrder
  <2>6. Told(c)' <=> Told(c)
    <3>1. (\E i \in DOMAIN Tail(q) : Tail(q)[i] = 0) => \E i \in DOMAIN q : q[i] = 0
      <4>1. \A i \in DOMAIN Tail(q) : i + 1 \in DOMAIN q /\ Tail(q)[i] = q[i + 1]
        BY <1>3
      <4> QED
        BY <4>1
    <3>2. (\E i \in DOMAIN q : q[i] = 0) => \E i \in DOMAIN Tail(q) : Tail(q)[i] = 0
      <4>1. \A i \in DOMAIN q : i # 1 => i - 1 \in DOMAIN Tail(q) /\ Tail(q)[i - 1] = q[i]
        BY <1>3
      <4> QED
        BY <1>3, <1>7, <4>1
    <3> QED
      BY <1>0, <2>1, <3>1, <3>2 DEF Told
  <2>7. Numbered(c)'
    <3>1. ASSUME NEW i \in DOMAIN Tail(q), \A j \in 1..i : Tail(q)[j] # 0
          PROVE  Tail(q)[i] = n + 1 + i
      <4>1. i + 1 \in DOMAIN q /\ Tail(q)[i] = q[i + 1] /\ i \in Nat
        BY <1>3
      <4>2. \A j \in 1..(i + 1) : q[j] # 0
        <5>1. ASSUME NEW j \in 1..(i + 1) PROVE q[j] # 0
          <6>1. CASE j = 1
            BY <1>3, <1>7, <6>1
          <6>2. CASE j # 1
            <7>1. j - 1 \in 1..i /\ j - 1 \in 1..(Len(q) - 1) /\ (j - 1) + 1 = j
              BY <1>3, <4>1, <6>2
            <7> QED
              BY <1>3, <3>1, <7>1
          <6> QED
            BY <6>1, <6>2
        <5> QED
          BY <5>1
      <4>3. q[i + 1] = n + (i + 1)
        BY <2>3, <4>1, <4>2
      <4> QED
        <5>1. \A x, y \in Nat : x + (y + 1) = x + 1 + y
          OBVIOUS
        <5> QED
          BY <1>1, <4>1, <4>3, <5>1
    <3> QED
      BY <2>1, <2>2, <3>1 DEF Numbered
  <2>8. ~Told(c) => Len(stream'[c]) + Len(box'[c]) = Len(log'[c])
    <3>1. \A x, y, z \in Nat : x + y = z => (x + 1) + (y - 1) = z
      OBVIOUS
    <3>2. ~Told(c) => (n + 1) + (Len(q) - 1) = k
      BY <1>1, <1>3, <2>3, <3>1
    <3> QED
      BY <1>0, <1>2, <1>3, <2>1, <2>2, <3>2
  <2>9. Settled(c) /\ Exact(c) => StopIsLast(c)'
    <3>1. ASSUME Settled(c), Exact(c), NEW i \in DOMAIN Tail(q), Tail(q)[i] = 0
          PROVE  i = Len(Tail(q)) /\ n + 1 + i = k + 1
      <4>1. i + 1 \in DOMAIN q /\ q[i + 1] = 0 /\ i \in Nat
        BY <1>3, <3>1
      <4>2. i + 1 = Len(q) /\ n + (i + 1) = k + 1
        BY <2>3, <3>1, <4>1
      <4> QED
        <5>1. n + 1 + i = n + (i + 1)
          BY <1>1, <4>1
        <5>2. i = Len(q) - 1
          <6>1. \A u, v \in Nat : u + 1 = v => u = v - 1
            OBVIOUS
          <6>2. Len(q) \in Nat /\ i + 1 = Len(q)
            BY <1>3, <4>2
          <6> QED
            BY <4>1, <6>1, <6>2
        <5> QED
          BY <1>3, <4>2, <5>1, <5>2
    <3> QED
      BY <1>0, <1>2, <2>1, <2>2, <3>1 DEF StopIsLast
  <2>10. OnItsWay(c)'
    BY <1>1, <1>2, <1>5, <2>1, <2>6, <2>7, <2>8, <2>9 DEF CallInv, OnItsWay
  <2> QED
    BY <1>5, <2>5, <2>10 DEF CallInv
<1> QED
  BY <1>6, <1>7

----------------------------------------------------------------------------
(* The steps of the run.                                                      *)

LEMMA CollectorInv ==
    ASSUME TypeOK, DriverInv, StreamInv, NEW c \in Calls, CollectorTakes(c), NEW d \in Calls
    PROVE  CallInv(d)'
<1>1. CallInv(d) /\ DriverInStep(d)
  BY DEF DriverInv, StreamInv
<1>2. CASE d = c
  BY <1>1, <1>2, TakenCall
<1>3. CASE d # c
  <2>1. Quiet(d)
    BY <1>3 DEF CollectorTakes, Quiet, Settled, agents, TypeOK
  <2> QED
    BY <1>1, <2>1, QuietCall
<1> QED
  BY <1>2, <1>3

LEMMA DriverStreamInv ==
    ASSUME TypeOK, DriverInv, StreamInv, NEW c \in Calls, DriverStep(c), NEW d \in Calls
    PROVE  CallInv(d)'
<1> USE DEF Drives, agents
<1>1. CallInv(d) /\ DriverInStep(d)
  BY DEF DriverInv, StreamInv
<1>2. CASE d # c
  <2>1. UNCHANGED <<pc, agent, log, collector>>
        /\ driver'[d] = driver[d] /\ promise'[d] = promise[d]
        /\ box'[d] = box[d] /\ stream'[d] = stream[d]
    BY <1>2 DEF DriverStep, DriverAsks, DriverWakes, RootJoined, CollectorJoined, StopsRoot,
                StopCollectors, streams, TypeOK
  <2>2. Quiet(d)
    BY <2>1 DEF Quiet, Settled
  <2> QED
    BY <1>1, <2>2, QuietCall
<1>3. CASE DriverAsks(c) /\ d = c
  <2>1. driver[c] = "ask" /\ driver'[c] = "wait" /\ UNCHANGED <<pc, streams, agent>>
    BY <1>3 DEF DriverAsks, TypeOK
  <2>2. Quiet(c)
    BY <2>1 DEF Quiet, Settled, streams
  <2> QED
    BY <1>1, <1>3, <2>2, QuietCall
<1>4. CASE DriverWakes(c) /\ d = c
  <2>1. driver[c] = "wait" /\ UNCHANGED <<pc, agent, log, collector, stream, promise>>
    BY <1>4 DEF DriverWakes
  <2>2. CASE c \in Runs
    <3>1. driver'[c] = "root" /\ box' = box
      BY <1>4, <2>2 DEF DriverWakes, StopsRoot, TypeOK
    <3>2. Quiet(c)
      BY <2>1, <3>1 DEF Quiet, Settled
    <3> QED
      BY <1>1, <1>4, <3>2, QuietCall
  <2>3. CASE c \notin Runs
    <3>1. driver'[c] = "collector" /\ StopCollectors({c})
      BY <1>4, <2>3 DEF DriverWakes, TypeOK
    <3>2. ~Settled(c) /\ pc[c] \notin {"failing", "failed"} /\ collector[c] # "none"
      BY <1>1, <1>4, <2>1 DEF Settled, DriverInStep
    <3> QED
      BY <1>1, <1>4, <2>1, <2>3, <3>1, <3>2, ToldCall
  <2> QED
    BY <2>2, <2>3
<1>5. CASE RootJoined(c) /\ d = c
  <2>1. /\ driver[c] = "root" /\ driver'[c] = "collector" /\ agent'[c] = "stopped"
        /\ StopCollectors({c}) /\ UNCHANGED <<pc, log, collector, stream, promise>>
    BY <1>5 DEF RootJoined, TypeOK
  <2>2. ~Settled(c) /\ pc[c] \notin {"failing", "failed"} /\ collector[c] # "none"
    BY <1>1, <1>5, <2>1 DEF Settled, DriverInStep
  <2> QED
    BY <1>1, <1>5, <2>1, <2>2, ToldCall
<1>6. CASE CollectorJoined(c) /\ d = c
  <2>1. /\ driver[c] = "collector" /\ driver'[c] = "done" /\ collector[c] = "stopped"
        /\ stream'[c] = Append(stream[c], 0)
        /\ UNCHANGED <<pc, agent, collector, box, log, promise>>
    BY <1>6 DEF CollectorJoined, TypeOK
  <2> QED
    BY <1>1, <1>6, <2>1, EndedCall
<1> QED
  BY <1>2, <1>3, <1>4, <1>5, <1>6 DEF DriverStep

\* The call an agent works on has been asked, and not settled unless given up.
LEMMA ServedCall ==
    ASSUME TypeOK, DriverInv, StreamInv, NEW a \in Agents, NEW c \in Calls,
           Target(c) = a, agent[a] \in {"idle", "busy"}, Unanswered(c)
    PROVE  driver[c] \notin {"none", "ask"} /\ ~(Settled(c) /\ Exact(c))
<1>1. driver[c] \notin {"none", "ask"} /\ promise[c] \in {"open", "late"}
  BY DEF Unanswered
<1>2. c \in Runs => ~Settled(c)
  BY DEF StreamInv, CallInv, RootFirst, Target
<1>3. Settled(c) => promise[c] = "late"
  BY <1>1 DEF DriverInv, DriverInStep, Settled
<1> QED
  BY <1>1, <1>2, <1>3 DEF Exact

LEMMA AgentStreamInv ==
    ASSUME TypeOK, DriverInv, AgentInv, StreamInv, NEW a \in Agents,
           AgentEmits(a) \/ AgentStep(a), NEW d \in Calls
    PROVE  CallInv(d)'
<1> USE DEF streams
<1>1. CallInv(d) /\ DriverInStep(d)
  BY DEF DriverInv, StreamInv
<1>2. UNCHANGED <<pc, collector, stream, driver>>
  BY DEF AgentEmits, AgentStep, AgentTakes, AgentAnswers, AgentStops, AgentStopped
<1>3. /\ promise'[d] = promise[d] \/ (promise[d] = "open" /\ promise'[d] \in {"ok", "error", "late"})
  BY AgentAside DEF Aside
<1>4. Settled(d) => promise'[d] = promise[d]
  BY <1>1, <1>3 DEF DriverInStep, Settled
<1>5. \A b \in Agents : agent[b] = "stopped" => agent'[b] = "stopped"
  BY DEF AgentEmits, AgentStep, AgentTakes, AgentAnswers, AgentStops, AgentStopped, TypeOK
<1>6. ASSUME log'[d] = log[d], box'[d] = box[d] PROVE CallInv(d)'
  <2>1. d \in Runs => d \in Agents
    BY DEF Agents
  <2>2. Quiet(d)
    BY <1>2, <1>4, <1>5, <1>6, <2>1 DEF Quiet, Settled
  <2> QED
    BY <1>1, <2>2, QuietCall
<1>7. ASSUME NEW c \in Calls, NEW x \in Kinds, Emitted(c, x),
             driver[c] \notin {"none", "ask"}, ~(Settled(c) /\ Exact(c))
      PROVE  CallInv(d)'
  <2>1. CASE d # c
    BY <1>6, <1>7, <2>1 DEF Emitted
  <2>2. CASE d = c
    <3>1. ~(Settled(c) /\ Exact(c))'
      BY <1>2, <1>4, <1>7, <2>2 DEF Settled, Exact
    <3>2. promise[c] = "ok" => promise'[c] = "ok"
      BY <1>3, <2>2
    <3> QED
      BY <1>1, <1>2, <1>7, <2>2, <3>1, <3>2, EmittedCall
  <2> QED
    BY <2>1, <2>2
<1>8. CASE AgentEmits(a) \/ AgentAnswers(a)
  <2>0. PICK c : c = current[a]
    OBVIOUS
  <2>1. agent[a] = "busy" /\ c \in Calls /\ Target(c) = a /\ Unanswered(c)
    BY <1>8, <2>0, ServingFacts DEF AgentEmits, AgentAnswers
  <2>2. \E x \in Kinds : Emitted(c, x)
    BY <1>8, <2>0, <2>1, EmitEffect DEF AgentEmits, AgentAnswers, Kinds
  <2> QED
    BY <1>7, <2>1, <2>2, ServedCall
<1>9. CASE AgentTakes(a)
  <2>0. PICK c : c = Head(inbox[a])
    OBVIOUS
  <2>1. /\ agent[a] = "idle" /\ inbox[a] # <<>> /\ c # None
        /\ inbox[a] \in Seq(Calls \cup {None})
    BY <1>9, <2>0 DEF AgentTakes, TypeOK
  <2>2. c \in Calls /\ 1 \in DOMAIN inbox[a] /\ c = inbox[a][1]
    BY <2>0, <2>1, TailFacts
  <2>3. Target(c) = a /\ Unanswered(c)
    BY <2>1, <2>2 DEF AgentInv, Waiting
  <2>4. Emitted(c, "started") /\ "started" \in Kinds
    BY <1>9, <2>0, <2>2, EmitEffect DEF AgentTakes, Kinds
  <2> QED
    BY <1>7, <2>1, <2>2, <2>3, <2>4, ServedCall
<1>10. CASE AgentStops(a)
  BY <1>6, <1>10 DEF AgentStops
<1>11. CASE AgentStopped(a)
  <2>1. CASE UNCHANGED <<log, box>>
    BY <1>6, <2>1
  <2>2. CASE a \in Runs /\ log[a] # <<>> /\ Emit(a, <<"chunk">>)
    <3>1. a \in Calls /\ Emitted(a, "chunk") /\ "chunk" \in Kinds
      BY <2>2, EmitEffect DEF Calls, Kinds
    <3>2. driver[a] \notin {"none", "ask"}
      BY <2>2, <3>1 DEF AgentInv, Logged
    <3>3. ~Settled(a)
      BY <1>11, <2>2, <3>1 DEF AgentStopped, StreamInv, CallInv, RootFirst
    <3> QED
      BY <1>7, <3>1, <3>2, <3>3
  <2> QED
    BY <1>11, <2>1, <2>2 DEF AgentStopped
<1> QED
  BY <1>8, <1>9, <1>10, <1>11 DEF AgentStep

LEMMA CallerStreamInv ==
    ASSUME TypeOK, DriverInv, StreamInv, NEW c \in Calls, NEW d \in Calls,
           \/ Refuse(c) \/ Run(c) \/ AskStream(c) \/ CallerLeaves(c) \/ Abort(c) \/ AskTimesOut(c)
           \/ CallerStep(c)
    PROVE  CallInv(d)'
<1> USE DEF agents, streams, Ends
<1>1. CallInv(d) /\ DriverInStep(d)
  BY DEF DriverInv, StreamInv
<1>2. CASE d # c
  <2>1. /\ pc'[d] = pc[d] /\ driver'[d] = driver[d] /\ promise'[d] = promise[d]
        /\ collector'[d] = collector[d] /\ stream'[d] = stream[d]
        /\ log'[d] = log[d] /\ box'[d] = box[d]
    BY <1>2 DEF Refuse, Run, AskStream, CallerLeaves, Abort, AskTimesOut, CallerStep, RootStarts,
                RootFails, FailureJoined, Reads, StopCollectors, TypeOK
  <2>2. \A b \in Agents : b # c => agent'[b] = agent[b]
    BY DEF Refuse, Run, AskStream, CallerLeaves, Abort, AskTimesOut, CallerStep, RootStarts,
           RootFails, FailureJoined, Reads, TypeOK
  <2>3. d \in Runs => d \in Agents
    BY DEF Agents
  <2>4. Quiet(d)
    BY <1>2, <2>1, <2>2, <2>3 DEF Quiet, Settled
  <2> QED
    BY <1>1, <2>4, QuietCall
<1>3. CASE Refuse(c) /\ d = c
  <2>1. pc[c] = "idle" /\ pc'[c] = "refused" /\ UNCHANGED <<agent, streams, promise, driver>>
    BY <1>3 DEF Refuse, TypeOK
  <2>2. Quiet(c)
    BY <2>1 DEF Quiet, Settled
  <2> QED
    BY <1>1, <1>3, <2>2, QuietCall
<1>4. CASE (Run(c) \/ AskStream(c)) /\ d = c
  <2>1. /\ pc[c] = "idle" /\ pc'[c] \in {"starting", "reading"} /\ collector'[c] = "up"
        /\ UNCHANGED <<box, stream, log>>
        /\ driver'[c] = driver[c] \/ driver'[c] = "ask"
    BY <1>4 DEF Run, AskStream, TypeOK
  <2>2. collector[c] = "none" /\ driver[c] = "none"
    BY <1>1, <1>4, <2>1 DEF DriverInStep
  <2> QED
    BY <1>1, <1>4, <2>1, <2>2, OpensCall
<1>5. CASE CallerLeaves(c) /\ d = c
  <2>1. \/ pc[c] = "starting" /\ pc'[c] = "lost"
        \/ pc[c] = "reading" /\ pc'[c] = "left" /\ UNCHANGED agent
    BY <1>5 DEF CallerLeaves, TypeOK
  <2>2. pc[c] = "starting" => ~Settled(c)
    BY <1>1, <1>5 DEF DriverInStep, Settled
  <2>3. UNCHANGED <<collector, box, stream, log, promise, driver>>
    BY <1>5 DEF CallerLeaves
  <2>4. Quiet(c)
    BY <2>1, <2>2, <2>3 DEF Quiet, Settled
  <2> QED
    BY <1>1, <1>5, <2>4, QuietCall
<1>6. CASE Abort(c) /\ d = c
  <2>1. UNCHANGED <<pc, agent, streams, promise, driver>>
    BY <1>6 DEF Abort
  <2>2. Quiet(c)
    BY <2>1 DEF Quiet, Settled
  <2> QED
    BY <1>1, <1>6, <2>2, QuietCall
<1>7. CASE AskTimesOut(c) /\ d = c
  <2>1. driver[c] = "wait" /\ UNCHANGED <<pc, agent, streams, driver>>
    BY <1>7 DEF AskTimesOut
  <2>2. Quiet(c)
    BY <2>1 DEF Quiet, Settled
  <2> QED
    BY <1>1, <1>7, <2>2, QuietCall
<1>8. CASE RootStarts(c) /\ d = c
  <2>1. /\ pc[c] = "starting" /\ pc'[c] = "reading" /\ driver'[c] = "ask"
        /\ UNCHANGED <<streams, promise>>
    BY <1>8 DEF RootStarts, TypeOK
  <2>2. ~Settled(c)
    BY <1>1, <1>8, <2>1 DEF DriverInStep, Settled
  <2>3. Quiet(c)
    BY <2>1, <2>2 DEF Quiet
  <2> QED
    BY <1>1, <1>8, <2>3, QuietCall
<1>9. CASE RootFails(c) /\ d = c
  <2>1. /\ pc[c] = "starting" /\ pc'[c] = "failing" /\ StopCollectors({c})
        /\ UNCHANGED <<log, collector, stream, driver>>
    BY <1>9 DEF RootFails, TypeOK
  <2>2. driver[c] = "none" /\ collector[c] # "none"
    BY <1>1, <1>9, <2>1 DEF DriverInStep
  <2> QED
    BY <1>1, <1>9, <2>1, <2>2, ToldCall DEF Settled
<1>10. CASE FailureJoined(c) /\ d = c
  <2>1. pc[c] = "failing" /\ pc'[c] = "failed" /\ UNCHANGED <<agent, streams, promise, driver>>
    BY <1>10 DEF FailureJoined, TypeOK
  <2>2. Quiet(c)
    BY <2>1 DEF Quiet, Settled
  <2> QED
    BY <1>1, <1>10, <2>2, QuietCall
\* Only the end of a stream, put by the driver, is 0.
<1>11. CASE Reads(c) /\ d = c
  <2>1. /\ pc[c] = "reading" /\ stream[c] # <<>> /\ Last(stream[c]) = 0
        /\ pc'[c] \in {"ended", "raised"} /\ (pc'[c] = "ended" => promise[c] = "ok")
        /\ UNCHANGED <<agent, streams, promise, driver>>
    BY <1>11 DEF Reads, TypeOK
  <2>2. driver[c] = "done"
    <3>1. stream[c] \in Seq(Nat) /\ Len(stream[c]) \in 1..Len(stream[c])
          /\ stream[c][Len(stream[c])] = 0
      BY <2>1 DEF TypeOK, Last
    <3>2. ASSUME driver[c] # "done" PROVE FALSE
      <4>1. stream[c][Len(stream[c])] = Len(stream[c])
        BY <1>1, <1>11, <3>1, <3>2 DEF CallInv, InOrder, Fed
      <4> QED
        BY <3>1, <4>1
    <3> QED
      BY <3>2
  <2>3. Finished(c)'
    BY <2>1, <2>2 DEF Finished
  <2>4. RootFirst(c)' /\ InOrder(c)'
    BY <1>1, <1>11, <2>1 DEF CallInv, RootFirst, InOrder, Fed, Settled
  <2>5. OnItsWay(c)'
    <3>1. /\ Told(c)' <=> Told(c)
          /\ Numbered(c)' <=> Numbered(c)
          /\ StopIsLast(c)' <=> StopIsLast(c)
          /\ Fed(c)' = Fed(c)
          /\ Settled(c)' <=> Settled(c)
          /\ Exact(c)' <=> Exact(c)
      BY <2>1 DEF Told, Numbered, StopIsLast, Fed, Settled, Exact
    <3>2. Settled(c)
      BY <2>2 DEF Settled
    <3> QED
      BY <1>1, <1>11, <2>1, <3>1, <3>2 DEF CallInv, OnItsWay
  <2> QED
    BY <1>11, <2>3, <2>4, <2>5 DEF CallInv
<1> QED
  BY <1>2, <1>3, <1>4, <1>5, <1>6, <1>7, <1>8, <1>9, <1>10, <1>11 DEF CallerStep

LEMMA RunInvInductive == TypeOK /\ RunInv /\ [Next]_vars => RunInv'
<1> SUFFICES ASSUME TypeOK, RunInv, [Next]_vars, system' = "up"
             PROVE  DriverInv' /\ AgentInv' /\ StreamInv'
  BY DEF RunInv
<1>1. DriverInv /\ AgentInv /\ StreamInv /\ (UpStep \/ UNCHANGED vars)
  BY StepsWhileUp DEF RunInv
<1>2. CASE UpStep
  <2>1. ASSUME NEW d \in Calls PROVE CallInv(d)'
    BY <1>1, <1>2, CollectorInv, DriverStreamInv, AgentStreamInv, CallerStreamInv DEF UpStep
  <2> QED
    BY <1>1, <1>2, <2>1, DriverInvInductive, AgentInvInductive DEF StreamInv
<1>3. CASE UNCHANGED vars
  <2>1. UNCHANGED <<pc, agent, inbox, current, log, collector, box, stream, promise, driver>>
    BY <1>3 DEF vars
  <2>2. DriverInv'
    BY <1>1, <2>1 DEF DriverInv, DriverInStep
  <2>3. AgentInv'
    BY <1>1, <2>1 DEF AgentInv, Waiting, Serving, Unanswered, Logged
  <2>4. ASSUME NEW c \in Calls PROVE CallInv(c)'
    <3>1. (RootFirst(c) /\ InOrder(c))' <=> RootFirst(c) /\ InOrder(c)
      BY <2>1 DEF RootFirst, InOrder, Settled, Fed
    <3>2. OnItsWay(c)' <=> OnItsWay(c)
      BY <2>1 DEF OnItsWay, Fed, Told, Numbered, StopIsLast, Settled, Exact
    <3>3. Finished(c)' <=> Finished(c)
      BY <2>1 DEF Finished, Settled, Exact
    <3> QED
      BY <1>1, <3>1, <3>2, <3>3 DEF StreamInv, CallInv
  <2>5. StreamInv'
    BY <2>4 DEF StreamInv
  <2> QED
    BY <2>2, <2>3, <2>5
<1> QED
  BY <1>1, <1>2, <1>3

LEMMA RunInvInit == Init => RunInv
<1> SUFFICES ASSUME Init PROVE DriverInv /\ AgentInv /\ StreamInv
  BY DEF RunInv
<1>1. \A c \in Calls : /\ pc[c] \in {"none", "idle"} /\ driver[c] = "none" /\ collector[c] = "none"
                       /\ promise[c] = "none" /\ log[c] = <<>> /\ box[c] = <<>> /\ stream[c] = <<>>
  BY DEF Init
<1>2. \A a \in Agents : inbox[a] = <<>> /\ current[a] = None
  BY DEF Init
<1>3. DriverInv
  BY <1>1 DEF DriverInv, DriverInStep
<1>4. AgentInv
  BY <1>1, <1>2 DEF AgentInv, Waiting, Serving, Logged
<1>5. StreamInv
  <2>1. ASSUME NEW c \in Calls PROVE CallInv(c)
    <3>1. Fed(c) = 0 /\ ~Settled(c) /\ ~Told(c)
      BY <1>1 DEF Fed, Settled, Told
    <3>0. 1..0 = {} /\ driver[c] # "done"
      BY <1>1
    <3>a. InOrder(c)
      BY <3>0, <3>1 DEF InOrder
    <3>b. OnItsWay(c)
      BY <1>1, <3>1 DEF OnItsWay
    <3>2. InOrder(c) /\ OnItsWay(c)
      BY <3>a, <3>b
    <3>3. RootFirst(c) /\ Finished(c)
      BY <1>1, <3>1 DEF RootFirst, Finished
    <3> QED
      BY <3>2, <3>3 DEF CallInv
  <2> QED
    BY <2>1 DEF StreamInv
<1> QED
  BY <1>3, <1>4, <1>5

\* Whoever reads a stream to its end has seen every event of its run or question, in
\* order and once, whatever else runs: the collector is told to stop only when the
\* root agent has ended, or the question has been answered, and queues that behind
\* all events. A question that was given up still sees a prefix.
THEOREM StreamsComplete == Spec => []StreamComplete
<1>1. TypeOK /\ RunInv => StreamComplete
  <2> SUFFICES ASSUME TypeOK, RunInv, NEW c \in Calls, pc[c] \in {"ended", "raised"}, system = "up"
               PROVE  /\ \A i \in 1..(Len(stream[c]) - 1) : stream[c][i] = i
                      /\ c \in Runs \/ promise[c] # "late" => Len(stream[c]) = Len(log[c]) + 1
                      /\ pc[c] = "ended" => /\ log[c][1] = "started"
                                            /\ \E i \in DOMAIN log[c] : log[c][i] = "completed"
    BY DEF StreamComplete
  <2>1. DriverInStep(c) /\ Logged(c) /\ CallInv(c)
    BY DEF RunInv, DriverInv, AgentInv, StreamInv
  <2>2. driver[c] = "done" /\ (pc[c] = "ended" => promise[c] = "ok") /\ collector[c] = "stopped"
    BY <2>1 DEF CallInv, Finished, DriverInStep
  <2>3. Fed(c) = Len(stream[c]) - 1 /\ Settled(c)
    BY <2>2 DEF Fed, Settled
  <2>4. \A i \in 1..(Len(stream[c]) - 1) : stream[c][i] = i
    BY <2>1, <2>3 DEF CallInv, InOrder
  <2>5. c \in Runs \/ promise[c] # "late" => Len(stream[c]) = Len(log[c]) + 1
    <3>1. Exact(c) => Len(stream[c]) - 1 = Len(log[c])
      BY <2>1, <2>2, <2>3 DEF CallInv, OnItsWay
    <3>2. Len(stream[c]) \in Nat /\ Len(log[c]) \in Nat
      BY DEF TypeOK
    <3> QED
      BY <3>1, <3>2 DEF Exact
  <2>6. pc[c] = "ended" => log[c][1] = "started" /\ \E i \in DOMAIN log[c] : log[c][i] = "completed"
    <3>1. SUFFICES ASSUME promise[c] = "ok"
                   PROVE  log[c][1] = "started" /\ \E i \in DOMAIN log[c] : log[c][i] = "completed"
      BY <2>2
    <3>2. PICK i \in DOMAIN log[c] : log[c][i] = "completed"
      BY <2>1, <3>1 DEF Logged
    <3>3. log[c] # <<>>
      BY <3>2 DEF TypeOK
    <3> QED
      BY <2>1, <3>2, <3>3 DEF Logged
  <2> QED
    BY <2>4, <2>5, <2>6
<1> QED
  BY <1>1, TypeInit, TypeInductive, RunInvInit, RunInvInductive, PTL DEF Spec
=============================================================================
