--------------------------- MODULE CellTreeProofs ---------------------------
(* Proofs about CellTree, for any tree, order, capacity and limits. *)
EXTENDS CellTree, SequenceTheorems, FiniteSetTheorems, TLAPS

Lives == {"none", "starting", "failed", "ghost", "done"} \cup Running \cup Closing

\* The part of the type invariant that the end of a cell depends on.
LifeTyped ==
    /\ life \in [Cells -> Lives]
    /\ kids \in [Cells -> SUBSET Cells]
    /\ waits \in [Cells -> SUBSET Cells]

Children == Cells \ {Root}

\* A cell that starts or runs is in the children dict of its parent.
Listed == \A k \in Children : ~Over(k) => k \in kids[Parent[k]]

\* A cell that starts holds its parent's handler, alone.
StartsAlone ==
    \A k \in Children : life[k] = "starting" =>
        /\ life[Parent[k]] = "spawning"
        /\ \A j \in Children : life[j] = "starting" /\ Parent[j] = Parent[k] => j = k

\* A parent in its shutdown waits for every child that has not ended.
AllAwaited ==
    \A k \in Children : life[Parent[k]] = "joining" /\ ~Over(k) => k \in waits[Parent[k]]

\* ChildrenFirst is not inductive: the wait must be for all the children there are, so
\* they must be in the dict when it begins and no other may start while it lasts.
LifeInv ==
    /\ LifeTyped /\ life[Root] # "starting"
    /\ Listed /\ StartsAlone /\ AllAwaited /\ ChildrenFirst

LEMMA ParentIsCell == \A k \in Children : Parent[k] \in Cells
  BY TreeAssumption DEF Children

\* The shutdown of a running cell, from its request to the children to its first wait.
LEMMA BeginShutdownLife ==
    ASSUME LifeInv, NEW c \in Cells, life[c] \in Running, NEW S, NEW pending,
           BeginShutdown(c, S, pending)
    PROVE  LifeInv'
<1> USE DEF Running, Closing, Over
<1>1. /\ kids' = kids
      /\ waits' = [waits EXCEPT ![c] = Awaited(c)]
      /\ life' = [k \in Cells |->
                     IF k = c THEN IF Awaited(c) = {} THEN "hook" ELSE "joining"
                     ELSE IF Abandoned(k, c) THEN "ghost" ELSE life[k]]
  BY DEF BeginShutdown
<1>2. Awaited(c) \in SUBSET Cells
  BY DEF Awaited, LifeInv, LifeTyped
<1>3. LifeTyped'
  BY <1>1, <1>2 DEF LifeInv, LifeTyped, Lives
<1>4. Listed'
  BY <1>1, ParentIsCell, TreeAssumption DEF LifeInv, Listed, LifeTyped, Children
<1>5. ASSUME NEW k \in Children, life'[k] = "starting"
      PROVE  life[k] = "starting" /\ Parent[k] # c
  BY <1>1, <1>5 DEF LifeInv, Listed, Abandoned, Children
<1>6. StartsAlone'
  BY <1>1, <1>5, ParentIsCell DEF LifeInv, StartsAlone, LifeTyped, Children, Abandoned
<1>7. ASSUME NEW k \in Children, Parent[k] = c, ~Over(k)'
      PROVE  k \in Awaited(c)
  <2>1. ~Over(k) /\ k \in kids[c]
    BY <1>1, <1>7 DEF LifeInv, Listed, Children, LifeTyped, Lives
  <2>2. life[k] # "starting"
    BY <1>1, <1>7, <2>1 DEF Abandoned, Children
  <2> QED
    BY <2>1, <2>2 DEF Awaited, HasTask, LifeInv, LifeTyped, Lives, Children
<1>8. AllAwaited' /\ ChildrenFirst'
  <2> SUFFICES ASSUME NEW k \in Children, ~Over(k)'
               PROVE  /\ life'[Parent[k]] = "joining" => k \in waits'[Parent[k]]
                      /\ life'[Parent[k]] \notin {"hook", "retry", "done"}
    BY DEF AllAwaited, ChildrenFirst, Children
  <2>1. CASE Parent[k] = c
    BY <1>1, <1>2, <1>7, <2>1 DEF LifeInv, LifeTyped
  <2>2. CASE Parent[k] # c
    <3>1. ~Over(k)
      BY <1>1 DEF Children
    <3>2. life'[Parent[k]] = life[Parent[k]] \/ life'[Parent[k]] = "ghost"
      BY <1>1, <2>2, ParentIsCell
    <3>3. waits'[Parent[k]] = waits[Parent[k]]
      BY <1>1, <2>2, ParentIsCell DEF LifeInv, LifeTyped
    <3> QED
      BY <3>1, <3>2, <3>3 DEF LifeInv, AllAwaited, ChildrenFirst, Children
  <2> QED
    BY <2>1, <2>2
<1>9. life'[Root] # "starting"
  BY <1>1, TreeAssumption DEF LifeInv, Abandoned
<1> QED
  BY <1>3, <1>4, <1>6, <1>8, <1>9 DEF LifeInv

\* A running cell that goes on running, in whatever place, with no spawn under way.
LEMMA GoesOnLife ==
    ASSUME LifeInv, NEW c \in Cells, life[c] \in Running \ {"spawning"},
           NEW place \in Running \ {"spawning"},
           life' = [life EXCEPT ![c] = place], UNCHANGED <<kids, waits>>
    PROVE  LifeInv'
<1> USE DEF Running, Closing, Over
<1>1. LifeTyped' /\ life'[Root] # "starting"
  BY TreeAssumption DEF LifeInv, LifeTyped, Lives
<1>2. Listed' /\ StartsAlone' /\ AllAwaited' /\ ChildrenFirst'
  BY ParentIsCell DEF LifeInv, LifeTyped, Listed, StartsAlone, AllAwaited, ChildrenFirst,
                      Children
<1> QED
  BY <1>1, <1>2 DEF LifeInv

LEMMA LoopLife ==
    ASSUME LifeInv, NEW c \in Cells, life[c] \in Running \ {"spawning"}, NEW S, Loop(c, S)
    PROVE  LifeInv'
<1>1. CASE BeginShutdown(c, S, CancelAfter(S)[c])
  BY <1>1, BeginShutdownLife
<1>2. ASSUME NEW place \in {"idle", "handling"},
             life' = [life EXCEPT ![c] = place], UNCHANGED <<kids, waits>>
      PROVE  LifeInv'
  BY <1>2, GoesOnLife DEF Running
<1> QED
  BY <1>1, <1>2 DEF Loop

LEMMA NextRestartLife ==
    ASSUME LifeInv, NEW f \in Cells, life[f] \in Running \ {"spawning"},
           NEW p, NEW todo, NEW S, NextRestart(f, p, todo, S)
    PROVE  LifeInv'
<1>1. \/ \E T : Loop(f, T)
      \/ life' = [life EXCEPT ![f] = "restarting"] /\ UNCHANGED <<kids, waits>>
  BY DEF NextRestart
<1> QED
  BY <1>1, LoopLife, GoesOnLife DEF Running

LEMMA DirectiveLife ==
    ASSUME LifeInv, NEW f \in Cells, life[f] \in Running \ {"spawning"},
           NEW m, NEW S, Directive(f, m, S)
    PROVE  LifeInv'
  BY LoopLife, NextRestartLife DEF Directive

LEMMA HandlerRaisesLife ==
    ASSUME LifeInv, NEW f \in Cells, HandlerRaises(f)
    PROVE  LifeInv'
<1>1. life[f] \in Running \ {"spawning"}
  BY DEF HandlerRaises, Running
<1>2. CASE BeginShutdown(f, {}, cancel[f])
  BY <1>1, <1>2, BeginShutdownLife
<1>3. CASE \E T : Loop(f, T)
  BY <1>1, <1>3, LoopLife
<1>4. CASE \E m, T : Directive(f, m, T)
  BY <1>1, <1>4, DirectiveLife
<1> QED
  BY <1>2, <1>3, <1>4 DEF HandlerRaises, Escalated

\* A cell that leaves its wait or its hook.
LEMMA EndsLife ==
    ASSUME LifeInv, NEW c \in Cells, JoinDone(c) \/ HookDone(c)
    PROVE  LifeInv'
<1> USE DEF Running, Closing, Over
<1>1. CASE JoinDone(c)
  <2>1. /\ life[c] = "joining" /\ \A k \in waits[c] : life[k] = "done"
        /\ waits' = [waits EXCEPT ![c] = {}] /\ kids' = kids
        /\ life' = [life EXCEPT ![c] = "hook"] \/ life' = [life EXCEPT ![c] = "done"]
    BY <1>1 DEF JoinDone
  <2>2. LifeTyped' /\ life'[Root] # "starting"
    BY <2>1, TreeAssumption DEF LifeInv, LifeTyped, Lives
  <2>3. \A k \in Children : Parent[k] = c => Over(k)
    BY <2>1 DEF LifeInv, AllAwaited
  <2>4. Listed' /\ StartsAlone'
    BY <2>1, ParentIsCell DEF LifeInv, LifeTyped, Listed, StartsAlone, Children
  <2>5. AllAwaited' /\ ChildrenFirst'
    BY <2>1, <2>3, ParentIsCell DEF LifeInv, LifeTyped, AllAwaited, ChildrenFirst, Children
  <2> QED
    BY <2>2, <2>4, <2>5 DEF LifeInv
<1>2. CASE HookDone(c)
  <2>1. /\ life[c] \in {"hook", "retry"} /\ waits' = waits
        /\ life' = [life EXCEPT ![c] = "done"]
        /\ kids' = kids \/ (c # Root /\ kids' = [kids EXCEPT ![Parent[c]] = @ \ {c}])
    BY <1>2 DEF HookDone
  <2>2. LifeTyped' /\ life'[Root] # "starting"
    BY <2>1, ParentIsCell, TreeAssumption DEF LifeInv, LifeTyped, Lives, Children
  <2>3. Listed'
    BY <2>1, ParentIsCell DEF LifeInv, LifeTyped, Listed, Children
  <2>4. StartsAlone' /\ AllAwaited' /\ ChildrenFirst'
    BY <2>1, ParentIsCell DEF LifeInv, LifeTyped, StartsAlone, AllAwaited, ChildrenFirst, Children
  <2> QED
    BY <2>2, <2>3, <2>4 DEF LifeInv
<1> QED
  BY <1>1, <1>2

LEMMA CancelledLife ==
    ASSUME LifeInv, NEW c \in Cells, Cancelled(c)
    PROVE  LifeInv'
<1> USE DEF Running, Closing, Over
<1>1. CASE life[c] \in Running /\ BeginShutdown(c, {}, FALSE)
  BY <1>1, BeginShutdownLife
<1>2. CASE UNCHANGED <<life, kids, waits>>
  BY <1>2 DEF LifeInv, LifeTyped, Listed, StartsAlone, AllAwaited, ChildrenFirst
<1>3. CASE /\ life[c] \in {"hook", "retry"} /\ UNCHANGED <<kids, waits>>
           /\ life' = [life EXCEPT ![c] = AfterCancel(life[c])]
  <2>1. AfterCancel(life[c]) \in {"retry", "done"}
    BY DEF AfterCancel
  <2>2. LifeTyped' /\ life'[Root] # "starting"
    BY <1>3, <2>1, TreeAssumption DEF LifeInv, LifeTyped, Lives
  <2>3. Listed' /\ StartsAlone' /\ AllAwaited' /\ ChildrenFirst'
    BY <1>3, <2>1, ParentIsCell
       DEF LifeInv, LifeTyped, Listed, StartsAlone, AllAwaited, ChildrenFirst, Children
  <2> QED
    BY <2>2, <2>3 DEF LifeInv
<1> QED
  BY <1>1, <1>2, <1>3 DEF Cancelled

LEMMA SpawningLife ==
    ASSUME LifeInv, NEW c \in Children, Spawn(c) \/ StartOk(c) \/ StartFails(c)
    PROVE  LifeInv'
<1> USE DEF Running, Closing, Over, Children
<1>1. Parent[c] \in Cells
  BY ParentIsCell
<1>2. CASE Spawn(c)
  <2>1. /\ life[c] = "none" /\ life[Parent[c]] = "handling" /\ waits' = waits
        /\ life' = [life EXCEPT ![c] = "starting", ![Parent[c]] = "spawning"]
        /\ kids' = [kids EXCEPT ![Parent[c]] = @ \cup {c}]
    BY <1>2 DEF Spawn
  <2>2. LifeTyped' /\ life'[Root] # "starting"
    BY <1>1, <2>1, TreeAssumption DEF LifeInv, LifeTyped, Lives
  <2>3. Listed'
    BY <1>1, <2>1, ParentIsCell DEF LifeInv, LifeTyped, Listed
  <2>4. StartsAlone'
    BY <1>1, <2>1, ParentIsCell DEF LifeInv, LifeTyped, StartsAlone
  <2>5. AllAwaited' /\ ChildrenFirst'
    BY <1>1, <2>1, ParentIsCell DEF LifeInv, LifeTyped, AllAwaited, ChildrenFirst
  <2> QED
    BY <2>2, <2>3, <2>4, <2>5 DEF LifeInv
<1>3. CASE StartOk(c) \/ StartFails(c)
  <2>1. /\ life[c] = "starting" /\ waits' = waits
        /\ \/ life' = [life EXCEPT ![c] = "idle", ![Parent[c]] = "handling"] /\ kids' = kids
           \/ /\ life' = [life EXCEPT ![c] = "failed", ![Parent[c]] = "handling"]
              /\ kids' = [kids EXCEPT ![Parent[c]] = @ \ {c}]
    BY <1>3 DEF StartOk, StartFails
  <2>2. life[Parent[c]] = "spawning"
    BY <2>1 DEF LifeInv, StartsAlone
  <2>3. LifeTyped' /\ life'[Root] # "starting"
    BY <1>1, <2>1, TreeAssumption DEF LifeInv, LifeTyped, Lives
  <2>4. Listed'
    BY <1>1, <2>1, <2>2, ParentIsCell DEF LifeInv, LifeTyped, Listed
  <2>5. StartsAlone'
    BY <1>1, <2>1, <2>2, ParentIsCell DEF LifeInv, LifeTyped, StartsAlone
  <2>6. AllAwaited' /\ ChildrenFirst'
    BY <1>1, <2>1, <2>2, ParentIsCell DEF LifeInv, LifeTyped, AllAwaited, ChildrenFirst
  <2> QED
    BY <2>3, <2>4, <2>5, <2>6 DEF LifeInv
<1> QED
  BY <1>2, <1>3

LEMMA LifeInvInductive == LifeInv /\ [Next]_vars => LifeInv'
<1> SUFFICES ASSUME LifeInv, [Next]_vars PROVE LifeInv'
  OBVIOUS
<1>1. CASE UNCHANGED <<life, kids, waits>>
  BY <1>1 DEF LifeInv, LifeTyped, Listed, StartsAlone, AllAwaited, ChildrenFirst, Over
<1>2. ASSUME NEW c \in Cells, Send(c) \/ StopCell(c) \/ Interrupt(c) \/ JoinTimesOut(c)
      PROVE  UNCHANGED <<life, kids, waits>>
  BY <1>2 DEF Send, StopCell, Interrupt, JoinTimesOut
<1>3. ASSUME NEW c \in Cells, Step(c)
      PROVE  LifeInv'
  <2>1. CASE GetReturns(c) \/ HandlerReturns(c)
    BY <2>1, LoopLife DEF GetReturns, HandlerReturns, Running
  <2>2. CASE HandlerRaises(c)
    BY <2>2, HandlerRaisesLife
  <2>3. CASE OldStopped(c)
    BY <1>1, <2>3 DEF OldStopped, tasks
  <2>4. CASE NewStarted(c)
    <3>1. life[c] \in Running \ {"spawning"}
      BY <2>4 DEF NewStarted, Running
    <3>2. (\E S : Loop(c, S)) \/ (\E p, todo, S : NextRestart(c, p, todo, S))
      BY <2>4 DEF NewStarted
    <3> QED
      BY <3>1, <3>2, LoopLife, NextRestartLife
  <2>5. CASE JoinDone(c) \/ HookDone(c)
    BY <2>5, EndsLife
  <2>6. CASE Cancelled(c)
    BY <2>6, CancelledLife
  <2> QED
    BY <1>3, <2>1, <2>2, <2>3, <2>4, <2>5, <2>6 DEF Step
<1>4. ASSUME NEW c \in Cells, c # Root, Spawn(c) \/ StartOk(c) \/ StartFails(c)
      PROVE  LifeInv'
  BY <1>4, SpawningLife DEF Children
<1>5. CASE UNCHANGED vars
  BY <1>1, <1>5 DEF vars, tasks
<1> QED
  BY <1>1, <1>2, <1>3, <1>4, <1>5 DEF Next

LEMMA LifeInvInitially == Init => LifeInv
<1> SUFFICES ASSUME Init PROVE LifeInv
  OBVIOUS
<1> USE TreeAssumption DEF Running, Closing, Over, Children
<1>1. LifeTyped /\ life[Root] # "starting"
  BY DEF Init, LifeTyped, Lives
<1>2. Listed
  BY ParentIsCell DEF Init, Listed
<1>3. StartsAlone /\ AllAwaited
  BY ParentIsCell DEF Init, StartsAlone, AllAwaited
<1>4. ChildrenFirst
  BY ParentIsCell DEF Init, ChildrenFirst
<1> QED
  BY <1>1, <1>2, <1>3, <1>4 DEF LifeInv

\* In a tree of any shape a cell calls on_stopped, and ends, only after its children have
\* ended, whatever was restarted, escalated, timed out or cancelled before.
THEOREM ChildrenFirstAlways == Spec => []ChildrenFirst
<1>1. LifeInv => ChildrenFirst
  BY DEF LifeInv
<1> QED
  BY <1>1, LifeInvInitially, LifeInvInductive, PTL DEF Spec

----------------------------------------------------------------------------
(* The instances of a cell, one-for-one and without escalation.            *)

\* What a task may have to restart; under way, that is a cell.
Jobs ==
    {j \in [now : Cells \cup {None}, todo : SUBSET Cells, phase : {"none", "old", "new"}, new : Nat] :
        j.phase # "none" => j.now \in Cells}

InstancesTyped ==
    /\ actor \in [Cells -> Nat] /\ made \in [Cells -> Nat] /\ on \in [Cells -> Nat]
    /\ cut \in [Cells -> BOOLEAN]
    /\ job \in [Cells -> Jobs]

\* The last instance of c is the one it has, from its start to its shutdown.
HasLast(c) ==
    /\ life[c] = "none" => made[c] = 0
    /\ life[c] \in Running \cup Closing \cup {"starting"} => made[c] > 0 /\ actor[c] = made[c]
    /\ on[c] # 0 => life[c] \in {"handling", "spawning"} /\ on[c] = made[c]

\* A restart closes the instance there is and then makes the next.
RestartsItself(c) ==
    life[c] = "restarting" =>
        /\ job[c].now = c /\ job[c].todo = {}
        /\ \/ job[c].phase = "old" /\ <<c, made[c]>> \in closed
           \/ job[c].phase = "new" /\ job[c].new = made[c] /\ <<c, made[c]>> \notin closed

\* Where the last instance is in its life.
LastInstance(c) ==
    /\ life[c] \in {"idle", "handling", "spawning"} => <<c, made[c]>> \in inited \ closed
    /\ life[c] = "starting" => made[c] = 1 /\ <<c, made[c]>> \notin closed
    /\ life[c] \in {"hook", "retry"} \/ (life[c] = "done" /\ ~cut[c]) => <<c, made[c]>> \in closed

\* Those before it are closed, and none is closed before it is made.
FormerInstances(c) ==
    /\ \A i \in Nat : 0 < i /\ i < made[c] => <<c, i>> \in closed
    /\ \A i \in Nat : <<c, i>> \in closed => i <= made[c]

Upkeep(c) == HasLast(c) /\ RestartsItself(c) /\ LastInstance(c) /\ FormerInstances(c)

InstancesInv == InstancesTyped /\ \A c \in Cells : Upkeep(c)

\* A step leaves alone what Upkeep says of k, whose start hooks may be over.
LEMMA UpkeepFrame ==
    ASSUME NEW k \in Cells, Upkeep(k), inited \subseteq inited',
           life'[k] = life[k] \/ (life[k] = "starting" /\ life'[k] \in {"ghost", "failed"}),
           made'[k] = made[k], actor'[k] = actor[k], on'[k] = on[k], cut'[k] = cut[k],
           job'[k] = job[k], \A i \in Nat : <<k, i>> \in closed' <=> <<k, i>> \in closed,
           made[k] \in Nat
    PROVE  Upkeep(k)'
<1>1. HasLast(k)'
  BY DEF Upkeep, HasLast, Running, Closing
<1>2. RestartsItself(k)'
  BY DEF Upkeep, RestartsItself
<1>3. LastInstance(k)'
  BY DEF Upkeep, LastInstance
<1>4. FormerInstances(k)'
  BY DEF Upkeep, FormerInstances
<1> QED
  BY <1>1, <1>2, <1>3, <1>4 DEF Upkeep

LEMMA NoJobTyped == NoJob \in Jobs
  BY DEF NoJob, Jobs

LEMMA NewJobTyped ==
    ASSUME NEW j \in Jobs, j.phase # "none", NEW n \in Nat
    PROVE  [[j EXCEPT !.phase = "new"] EXCEPT !.new = n] \in Jobs
  BY DEF Jobs

LEMMA LastCloses ==
    ASSUME NEW c \in Cells, FormerInstances(c), made[c] \in Nat, made'[c] = made[c],
           closed' = closed \cup {<<c, made[c]>>}
    PROVE  FormerInstances(c)'
<1>1. ASSUME NEW i \in Nat, <<c, i>> \in closed' PROVE i <= made[c]
  <2>1. <<c, i>> \in closed \/ i = made[c]
    BY <1>1
  <2> QED
    BY <2>1 DEF FormerInstances
<1>2. ASSUME NEW i \in Nat, 0 < i, i < made[c] PROVE <<c, i>> \in closed'
  BY <1>2 DEF FormerInstances
<1> QED
  BY <1>1, <1>2 DEF FormerInstances

LEMMA LoopTyped ==
    ASSUME InstancesTyped, NEW c \in Cells, NEW S, Loop(c, S)
    PROVE  on' \in [Cells -> Nat] /\ cut' = cut
<1>1. CASE BeginShutdown(c, S, CancelAfter(S)[c])
  BY <1>1 DEF BeginShutdown, InstancesTyped
<1>2. ASSUME NEW i \in Nat, on' = [on EXCEPT ![c] = i] PROVE on' \in [Cells -> Nat]
  BY <1>2 DEF InstancesTyped
<1>3. CASE /\ on' = [on EXCEPT ![c] = IF MailAfter(S)[c] = <<>> THEN 0 ELSE actor[c]]
           /\ cut' = cut
  <2>1. (IF MailAfter(S)[c] = <<>> THEN 0 ELSE actor[c]) \in Nat
    BY DEF InstancesTyped
  <2> QED
    BY <1>2, <1>3, <2>1
<1> QED
  BY <1>1, <1>3 DEF Loop

LEMMA BeginShutdownInstances ==
    ASSUME LifeTyped, InstancesInv, NEW c \in Cells, life[c] \in Running, NEW S, NEW pending,
           BeginShutdown(c, S, pending), inited \subseteq inited', UNCHANGED <<actor, made>>,
           InstancesTyped', \A k \in Cells \ {c} : job'[k] = job[k]
    PROVE  InstancesInv'
<1> USE DEF InstancesInv, InstancesTyped, LifeTyped
<1>1. /\ life' = [k \in Cells |->
                     IF k = c THEN IF Awaited(c) = {} THEN "hook" ELSE "joining"
                     ELSE IF Abandoned(k, c) THEN "ghost" ELSE life[k]]
      /\ on' = [on EXCEPT ![c] = 0] /\ cut' = cut
      /\ closed' = closed \/ closed' = closed \cup {<<c, made[c]>>}
      /\ Awaited(c) = {} => closed' = closed \cup {<<c, made[c]>>}
  BY DEF BeginShutdown, CallsOnStopped, Upkeep, HasLast
<1>2. ASSUME NEW k \in Cells, k # c PROVE Upkeep(k)'
  <2>1. life'[k] = life[k] \/ (life[k] = "starting" /\ life'[k] = "ghost")
    BY <1>1, <1>2 DEF Abandoned
  <2>2. \A i \in Nat : <<k, i>> \in closed' <=> <<k, i>> \in closed
    BY <1>1, <1>2
  <2> QED
    BY <1>1, <1>2, <2>1, <2>2, UpkeepFrame
<1>3. Upkeep(c)'
  <2>1. life'[c] \in {"hook", "joining"} /\ (life'[c] = "hook" => <<c, made[c]>> \in closed')
    BY <1>1
  <2>2. HasLast(c)'
    BY <1>1, <2>1 DEF Upkeep, HasLast, Running, Closing
  <2>3. RestartsItself(c)' /\ LastInstance(c)'
    BY <2>1 DEF RestartsItself, LastInstance
  <2>4. ASSUME closed' = closed PROVE FormerInstances(c)'
    BY <2>4 DEF Upkeep, FormerInstances
  <2>5. ASSUME closed' = closed \cup {<<c, made[c]>>} PROVE FormerInstances(c)'
    BY <2>5, LastCloses DEF Upkeep
  <2>6. FormerInstances(c)'
    BY <1>1, <2>4, <2>5
  <2> QED
    BY <2>2, <2>3, <2>6 DEF Upkeep
<1> QED
  BY <1>2, <1>3

LEMMA LoopInstances ==
    ASSUME LifeTyped, InstancesInv, NEW c \in Cells, life[c] \in Running \ {"spawning"}, NEW S,
           Loop(c, S), inited \subseteq inited', UNCHANGED <<actor, made>>,
           InstancesTyped', \A k \in Cells \ {c} : job'[k] = job[k],
           <<c, made[c]>> \in inited' \ closed
    PROVE  InstancesInv'
<1>1. CASE BeginShutdown(c, S, CancelAfter(S)[c])
  BY <1>1, BeginShutdownInstances
<1>2. ASSUME NEW place \in {"idle", "handling"}, life' = [life EXCEPT ![c] = place],
             \/ on' = [on EXCEPT ![c] = 0]
             \/ place = "handling" /\ on' = [on EXCEPT ![c] = actor[c]],
             cut' = cut, closed' = closed
      PROVE  InstancesInv'
  <2> USE DEF InstancesInv, InstancesTyped, LifeTyped
  <2>1. ASSUME NEW k \in Cells, k # c PROVE Upkeep(k)'
    BY <1>2, <2>1, UpkeepFrame
  <2>2. HasLast(c)'
    BY <1>2 DEF Upkeep, HasLast, Running, Closing
  <2>3. RestartsItself(c)' /\ LastInstance(c)' /\ FormerInstances(c)'
    BY <1>2 DEF Upkeep, RestartsItself, LastInstance, FormerInstances
  <2> QED
    BY <2>1, <2>2, <2>3 DEF Upkeep
<1>3. CASE /\ life' = [life EXCEPT ![c] = IF MailAfter(S)[c] = <<>> THEN "idle" ELSE "handling"]
           /\ on' = [on EXCEPT ![c] = IF MailAfter(S)[c] = <<>> THEN 0 ELSE actor[c]]
           /\ cut' = cut /\ closed' = closed
  BY <1>2, <1>3
<1> QED
  BY <1>1, <1>3 DEF Loop

\* One-for-one, a supervisor restarts the child that failed and no other.
LEMMA DirectiveInstances ==
    ASSUME LifeTyped, InstancesInv, Calm, NEW f \in Cells, life[f] = "handling",
           Directive(f, f, {}), UNCHANGED <<actor, made, inited>>
    PROVE  InstancesInv'
<1> USE DEF InstancesInv, InstancesTyped, LifeTyped
<1>1. <<f, made[f]>> \in inited \ closed /\ made[f] > 0 /\ actor[f] = made[f]
  BY DEF Upkeep, LastInstance, HasLast, Running
<1>2. ASSUME NEW S, Loop(f, S), job' = job PROVE InstancesInv'
  <2>1. on' \in [Cells -> Nat] /\ cut' = cut
    BY <1>2, LoopTyped
  <2> QED
    BY <1>1, <1>2, <2>1, LoopInstances DEF Running
<1>3. CASE NextRestart(f, Parent[f], {f}, {})
  <2>1. ASSUME NEW S, Loop(f, S), job' = [job EXCEPT ![f] = NoJob] PROVE InstancesInv'
    <3>1. on' \in [Cells -> Nat] /\ cut' = cut
      BY <2>1, LoopTyped
    <3> QED
      BY <1>1, <2>1, <3>1, NoJobTyped, LoopInstances DEF Running
  <2>2. CASE /\ job' = [job EXCEPT ![f] = [now |-> f, todo |-> {}, phase |-> "old", new |-> 0]]
             /\ life' = [life EXCEPT ![f] = "restarting"]
             /\ closed' = closed \cup StoppedFor(f)
             /\ on' = [on EXCEPT ![f] = 0] /\ cut' = cut
    <3>1. closed' = closed \cup {<<f, made[f]>>}
      BY <1>1, <2>2 DEF StoppedFor
    <3>6. job'[f] = [now |-> f, todo |-> {}, phase |-> "old", new |-> 0] /\ job'[f] \in Jobs
      BY <2>2 DEF Jobs
    <3>7. InstancesTyped'
      BY <2>2, <3>6
    <3>2. ASSUME NEW k \in Cells, k # f PROVE Upkeep(k)'
      BY <2>2, <3>1, <3>2, UpkeepFrame
    <3>3. HasLast(f)'
      BY <1>1, <2>2 DEF HasLast, Running, Closing
    <3>4. RestartsItself(f)' /\ LastInstance(f)'
      BY <2>2, <3>1, <3>6 DEF RestartsItself, LastInstance
    <3>5. FormerInstances(f)'
      BY <3>1, LastCloses DEF Upkeep
    <3> QED
      BY <3>2, <3>3, <3>4, <3>5, <3>7 DEF Upkeep
  <2>3. ASSUME NEW n \in {f}
        PROVE  {c \in {f} : Order[c] > Order[n]} = {}
    BY TreeAssumption
  <2>4. \/ job' = [job EXCEPT ![f] = NoJob] /\ \E S : Loop(f, S)
        \/ \E n \in {f} :
              /\ job' = [job EXCEPT ![f] = [now |-> n, todo |-> {c \in {f} : Order[c] > Order[n]},
                                            phase |-> "old", new |-> 0]]
              /\ life' = [life EXCEPT ![f] = "restarting"]
              /\ closed' = closed \cup StoppedFor(n)
              /\ on' = [on EXCEPT ![f] = 0] /\ cut' = cut
    BY <1>3 DEF NextRestart
  <2> QED
    BY <2>1, <2>2, <2>3, <2>4
<1>4. Affected(f) = {f}
  BY DEF Affected, Calm
<1> QED
  BY <1>2, <1>3, <1>4 DEF Directive

LEMMA RestartInstances ==
    ASSUME LifeTyped, InstancesInv, NEW f \in Cells, OldStopped(f) \/ NewStarted(f)
    PROVE  InstancesInv'
<1> USE DEF InstancesInv, InstancesTyped, LifeTyped
<1>1. life[f] = "restarting" /\ job[f].now = f /\ job[f].todo = {}
  <2>1. life[f] = "restarting"
    BY DEF OldStopped, NewStarted
  <2>2. job[f].now = f /\ job[f].todo = {}
    BY <2>1 DEF Upkeep, RestartsItself
  <2> QED
    BY <2>1, <2>2
<1>2. CASE OldStopped(f)
  <2>1. /\ job[f].phase = "old" /\ UNCHANGED <<life, on, cut, inited, closed>>
        /\ made' = [made EXCEPT ![f] = made[f] + 1]
        /\ actor' = [actor EXCEPT ![f] = made[f] + 1]
        /\ job' = [job EXCEPT ![f].phase = "new", ![f].new = made[f] + 1]
    BY <1>1, <1>2 DEF OldStopped, tasks
  <2>2. InstancesTyped'
    <3>1. made[f] + 1 \in Nat
      OBVIOUS
    <3>2. actor' \in [Cells -> Nat] /\ made' \in [Cells -> Nat]
      BY <2>1, <3>1
    <3> DEFINE j == [[job[f] EXCEPT !.phase = "new"] EXCEPT !.new = made[f] + 1]
    <3>3. j \in Jobs
      BY <2>1, <3>1, NewJobTyped
    <3>4. job' = [job EXCEPT ![f] = j] /\ job \in [Cells -> Jobs]
      BY <2>1
    <3> HIDE DEF j
    <3>5. job' \in [Cells -> Jobs]
      BY <3>3, <3>4
    <3> QED
      BY <2>1, <3>2, <3>5
  <2>3. ASSUME NEW k \in Cells, k # f PROVE Upkeep(k)'
    BY <2>1, <2>3, UpkeepFrame
  <2>4. <<f, made[f]>> \in closed /\ on[f] = 0
    BY <1>1, <2>1 DEF Upkeep, RestartsItself, HasLast
  <2>5. /\ made'[f] = made[f] + 1 /\ actor'[f] = made[f] + 1 /\ made[f] \in Nat
        /\ job'[f].now = f /\ job'[f].todo = {} /\ job'[f].phase = "new" /\ job'[f].new = made[f] + 1
    BY <1>1, <2>1 DEF Jobs
  <2>6. HasLast(f)'
    BY <1>1, <2>1, <2>4, <2>5 DEF HasLast
  <2>7. FormerInstances(f)'
    <3>1. ASSUME NEW i \in Nat, 0 < i, i < made[f] + 1 PROVE <<f, i>> \in closed
      <4>1. i < made[f] \/ i = made[f]
        BY <2>5, <3>1
      <4> QED
        BY <2>4, <3>1, <4>1 DEF Upkeep, FormerInstances
    <3>2. ASSUME NEW i \in Nat, <<f, i>> \in closed PROVE i <= made[f] + 1
      BY <2>5, <3>2 DEF Upkeep, FormerInstances
    <3> QED
      BY <2>1, <2>5, <3>1, <3>2 DEF FormerInstances
  <2>8. <<f, made[f] + 1>> \notin closed
    <3>1. made[f] + 1 \in Nat /\ ~(made[f] + 1 <= made[f])
      BY <2>5
    <3> QED
      BY <3>1 DEF Upkeep, FormerInstances
  <2>9. RestartsItself(f)' /\ LastInstance(f)'
    BY <1>1, <2>1, <2>5, <2>8 DEF RestartsItself, LastInstance
  <2> QED
    BY <2>2, <2>3, <2>6, <2>7, <2>9 DEF Upkeep
<1>3. CASE NewStarted(f)
  <2>1. /\ job[f].phase = "new"
        /\ inited' = inited \cup {<<f, job[f].new>>}
    BY <1>1, <1>3 DEF NewStarted
  <2>2. job[f].new = made[f] /\ <<f, made[f]>> \notin closed
    BY <1>1, <2>1 DEF Upkeep, RestartsItself
  <2>3. PICK S : Loop(f, S) /\ job' = [job EXCEPT ![f] = NoJob]
    BY <1>1, <1>3 DEF NewStarted
  <2>4. UNCHANGED <<actor, made>>
    BY <1>3 DEF NewStarted
  <2>5. on' \in [Cells -> Nat] /\ cut' = cut
    BY <2>3, LoopTyped
  <2>6. InstancesTyped' /\ \A k \in Cells \ {f} : job'[k] = job[k]
    BY <2>3, <2>4, <2>5, NoJobTyped
  <2> QED
    BY <1>1, <2>1, <2>2, <2>3, <2>4, <2>6, LoopInstances DEF Running
<1> QED
  BY <1>2, <1>3

LEMMA EndInstances ==
    ASSUME LifeTyped, InstancesInv, NEW c \in Cells, JoinDone(c) \/ HookDone(c) \/ Cancelled(c)
    PROVE  InstancesInv'
<1> USE DEF InstancesInv, InstancesTyped, LifeTyped
<1>1. CASE life[c] \in Running /\ Cancelled(c)
  <2>1. BeginShutdown(c, {}, FALSE) /\ job' = [job EXCEPT ![c] = NoJob]
        /\ UNCHANGED <<actor, made, inited>>
    BY <1>1 DEF Cancelled, Running
  <2>2. on' \in [Cells -> Nat] /\ cut' = cut
    BY <2>1 DEF BeginShutdown
  <2> QED
    BY <1>1, <2>1, <2>2, NoJobTyped, BeginShutdownInstances
<1>2. ASSUME NEW place,
             \/ life[c] = "joining" /\ place = "hook" /\ closed' = closed \cup {<<c, made[c]>>}
             \/ life[c] = "joining" /\ place = "done" /\ cut[c] /\ closed' = closed
             \/ life[c] = "joining" /\ place = "joining" /\ closed' = closed
             \/ life[c] \in {"hook", "retry"} /\ place \in {"retry", "done"} /\ closed' = closed,
             life' = [life EXCEPT ![c] = place],
             cut' = cut \/ (place = "joining" /\ cut' = [cut EXCEPT ![c] = TRUE]),
             actor' = actor \/ (place = "done" /\ actor' = [actor EXCEPT ![c] = 0]),
             UNCHANGED <<made, on, job, inited>>
      PROVE  InstancesInv'
  <2>1. InstancesTyped'
    <3>1. cut' \in [Cells -> BOOLEAN]
      BY <1>2
    <3>2. actor' \in [Cells -> Nat]
      BY <1>2
    <3> QED
      BY <1>2, <3>1, <3>2
  <2>2. ASSUME NEW k \in Cells, k # c PROVE Upkeep(k)'
    BY <1>2, <2>2, UpkeepFrame
  <2>3. HasLast(c)'
    BY <1>2 DEF Upkeep, HasLast, Running, Closing
  <2>4. RestartsItself(c)' /\ LastInstance(c)'
    BY <1>2 DEF Upkeep, RestartsItself, LastInstance
  <2>5. FormerInstances(c)'
    BY <1>2, LastCloses DEF Upkeep, FormerInstances
  <2> QED
    BY <2>1, <2>2, <2>3, <2>4, <2>5 DEF Upkeep
<1>3. CASE JoinDone(c)
  <2>1. life[c] = "joining" /\ actor[c] = made[c]
    BY <1>3 DEF JoinDone, Upkeep, HasLast, Closing
  <2> QED
    BY <1>2, <1>3, <2>1 DEF JoinDone, CallsOnStopped
<1>4. CASE HookDone(c)
  BY <1>2, <1>4 DEF HookDone
<1>5. CASE life[c] \notin Running /\ Cancelled(c)
  <2>1. life = [life EXCEPT ![c] = life[c]]
    OBVIOUS
  <2>2. AfterCancel(life[c]) \in {"retry", "done"}
    BY DEF AfterCancel
  <2> QED
    BY <1>2, <1>5, <2>1, <2>2 DEF Cancelled
<1> QED
  BY <1>1, <1>3, <1>4, <1>5

LEMMA SpawningInstances ==
    ASSUME LifeInv, InstancesInv, NEW c \in Children, Spawn(c) \/ StartOk(c) \/ StartFails(c)
    PROVE  InstancesInv'
<1> USE DEF InstancesInv, InstancesTyped, LifeInv, LifeTyped, Children
<1>1. Parent[c] \in Cells
  BY ParentIsCell
<1>2. ASSUME NEW k \in Cells, k # c, k # Parent[c] PROVE Upkeep(k)'
  <2>1. UNCHANGED <<on, cut, job, closed>> /\ inited \subseteq inited'
    BY DEF Spawn, StartOk, StartFails, objects
  <2>2. life'[k] = life[k] /\ made'[k] = made[k] /\ actor'[k] = actor[k]
    BY <1>1, <1>2 DEF Spawn, StartOk, StartFails, objects
  <2> QED
    BY <2>1, <2>2, UpkeepFrame
<1>3. Upkeep(Parent[c])' /\ InstancesTyped'
  <2> DEFINE p == Parent[c]
  <2>1. /\ p # c /\ p \in Cells
        /\ \/ life[p] = "handling" /\ life'[p] = "spawning"
           \/ life[p] = "spawning" /\ life'[p] = "handling"
        /\ made'[p] = made[p] /\ actor'[p] = actor[p] /\ on' = on /\ cut' = cut /\ job' = job
        /\ closed' = closed /\ inited \subseteq inited'
        /\ made' \in [Cells -> Nat] /\ actor' \in [Cells -> Nat]
    <3>1. CASE Spawn(c)
      <4>1. p # c /\ life[p] = "handling" /\ life'[p] = "spawning"
        BY <1>1, <3>1 DEF Spawn
      <4>2. /\ made' = [made EXCEPT ![c] = 1] /\ actor' = [actor EXCEPT ![c] = 1]
            /\ UNCHANGED <<on, cut, job, inited, closed>>
        BY <3>1 DEF Spawn
      <4>3. made' \in [Cells -> Nat] /\ actor' \in [Cells -> Nat]
        BY <4>2
      <4>4. made'[p] = made[p] /\ actor'[p] = actor[p]
        BY <1>1, <4>1, <4>2
      <4> QED
        BY <1>1, <4>1, <4>2, <4>3, <4>4
    <3>2. CASE StartOk(c)
      BY <1>1, <3>2 DEF StartOk, StartsAlone
    <3>3. CASE StartFails(c)
      BY <1>1, <3>3 DEF StartFails, StartsAlone, objects
    <3> QED
      BY <3>1, <3>2, <3>3
  <2>2. InstancesTyped'
    BY <2>1
  <2>3. HasLast(p)' /\ RestartsItself(p)'
    BY <2>1 DEF Upkeep, HasLast, RestartsItself, Running, Closing
  <2>4. LastInstance(p)' /\ FormerInstances(p)'
    BY <2>1 DEF Upkeep, LastInstance, FormerInstances
  <2> QED
    BY <2>2, <2>3, <2>4 DEF Upkeep
<1>4. Upkeep(c)'
  <2>1. CASE Spawn(c)
    <3>1. /\ life[c] = "none" /\ life'[c] = "starting" /\ actor'[c] = 1 /\ made'[c] = 1
          /\ UNCHANGED <<on, cut, job, inited, closed>>
      BY <1>1, <2>1 DEF Spawn
    <3>2. made[c] = 0 /\ on[c] = 0
      BY <3>1 DEF Upkeep, HasLast
    <3>3. HasLast(c)' /\ RestartsItself(c)'
      BY <3>1, <3>2 DEF HasLast, RestartsItself
    <3>4. <<c, 1>> \notin closed
      BY <3>2 DEF Upkeep, FormerInstances
    <3>5. LastInstance(c)'
      BY <3>1, <3>4 DEF LastInstance
    <3>6. FormerInstances(c)'
      BY <3>1, <3>2 DEF Upkeep, FormerInstances
    <3> QED
      BY <3>3, <3>5, <3>6 DEF Upkeep
  <2>2. CASE StartOk(c)
    <3>1. /\ life[c] = "starting" /\ life'[c] = "idle" /\ made' = made /\ actor' = actor
          /\ inited' = inited \cup {<<c, 1>>} /\ UNCHANGED <<on, cut, job, closed>>
      BY <1>1, <2>2 DEF StartOk, StartsAlone
    <3>2. HasLast(c)' /\ RestartsItself(c)'
      BY <3>1 DEF Upkeep, HasLast, RestartsItself, Running, Closing
    <3>3. LastInstance(c)' /\ FormerInstances(c)'
      BY <3>1 DEF Upkeep, LastInstance, FormerInstances
    <3> QED
      BY <3>2, <3>3 DEF Upkeep
  <2>3. CASE StartFails(c)
    <3>1. /\ life[c] = "starting" /\ life'[c] = "failed"
          /\ UNCHANGED <<made, actor, inited, on, cut, job, closed>>
      BY <1>1, <2>3 DEF StartFails, StartsAlone, objects
    <3> QED
      BY <3>1, UpkeepFrame
  <2> QED
    BY <2>1, <2>2, <2>3
<1> QED
  BY <1>2, <1>3, <1>4

LEMMA InstancesInductive == LifeInv /\ Calm /\ InstancesInv /\ [Next]_vars => InstancesInv'
<1> SUFFICES ASSUME LifeInv, Calm, InstancesInv, [Next]_vars PROVE InstancesInv'
  OBVIOUS
<1> USE DEF LifeInv
<1>1. CASE UNCHANGED <<life, on, cut, actor, made, job, inited, closed>>
  <2>1. InstancesTyped'
    BY <1>1 DEF InstancesInv, InstancesTyped
  <2>2. ASSUME NEW k \in Cells PROVE Upkeep(k)'
    BY <1>1, <2>2, UpkeepFrame DEF InstancesInv, InstancesTyped
  <2> QED
    BY <2>1, <2>2 DEF InstancesInv
<1>2. ASSUME NEW c \in Cells, Send(c) \/ StopCell(c) \/ Interrupt(c) \/ JoinTimesOut(c)
      PROVE  UNCHANGED <<life, on, cut, actor, made, job, inited, closed>>
  BY <1>2 DEF Send, StopCell, Interrupt, JoinTimesOut, objects
<1>3. ASSUME NEW c \in Cells, Step(c)
      PROVE  InstancesInv'
  <2> USE DEF InstancesInv, InstancesTyped, LifeTyped
  <2>1. ASSUME life[c] \in {"idle", "handling"}, NEW S, Loop(c, S),
               UNCHANGED <<actor, made, inited, job>>
        PROVE  InstancesInv'
    <3>1. on' \in [Cells -> Nat] /\ cut' = cut
      BY <2>1, LoopTyped
    <3>2. <<c, made[c]>> \in inited \ closed
      BY <2>1 DEF Upkeep, LastInstance
    <3>3. life[c] \in Running \ {"spawning"}
      BY <2>1 DEF Running
    <3>4. InstancesTyped'
      BY <2>1, <3>1
    <3> QED
      BY <2>1, <3>2, <3>3, <3>4, LoopInstances
  <2>2. CASE GetReturns(c) \/ HandlerReturns(c)
    BY <2>1, <2>2 DEF GetReturns, HandlerReturns
  <2>3. CASE HandlerRaises(c)
    <3>1. life[c] = "handling" /\ UNCHANGED <<actor, made, inited>>
      BY <2>3 DEF HandlerRaises
    <3>2. CASE BeginShutdown(c, {}, cancel[c]) /\ job' = job
      <4>1. on' \in [Cells -> Nat] /\ cut' = cut
        BY <3>2 DEF BeginShutdown
      <4> QED
        BY <3>1, <3>2, <4>1, BeginShutdownInstances DEF Running
    <3>3. CASE Directive(c, c, {})
      BY <3>1, <3>3, DirectiveInstances
    <3>4. CASE Loop(c, {}) /\ job' = job
      BY <2>1, <3>1, <3>4
    <3>5. ~escalates
      BY DEF Calm
    <3> QED
      BY <2>3, <3>2, <3>3, <3>4, <3>5 DEF HandlerRaises
  <2>4. CASE OldStopped(c) \/ NewStarted(c)
    BY <2>4, RestartInstances
  <2>5. CASE JoinDone(c) \/ HookDone(c) \/ Cancelled(c)
    BY <2>5, EndInstances
  <2> QED
    BY <1>3, <2>2, <2>3, <2>4, <2>5 DEF Step
<1>4. ASSUME NEW c \in Cells, c # Root, Spawn(c) \/ StartOk(c) \/ StartFails(c)
      PROVE  InstancesInv'
  BY <1>4, SpawningInstances DEF Children
<1>5. CASE UNCHANGED vars
  BY <1>1, <1>5 DEF vars, tasks, objects
<1> QED
  BY <1>1, <1>2, <1>3, <1>4, <1>5 DEF Next

LEMMA InstancesInitially == Init => InstancesInv
<1> SUFFICES ASSUME Init PROVE InstancesInv
  OBVIOUS
<1>1. InstancesTyped
  BY NoJobTyped DEF Init, InstancesTyped
<1>2. ASSUME NEW c \in Cells PROVE Upkeep(c)
  <2>1. HasLast(c) /\ RestartsItself(c)
    BY DEF Init, HasLast, RestartsItself, Running, Closing
  <2>2. LastInstance(c) /\ FormerInstances(c)
    BY DEF Init, LastInstance, FormerInstances
  <2> QED
    BY <2>1, <2>2 DEF Upkeep
<1> QED
  BY <1>1, <1>2 DEF InstancesInv

LEMMA ConfigIsKept == [Next]_vars => UNCHANGED config
<1> SUFFICES ASSUME [Next]_vars PROVE UNCHANGED config
  OBVIOUS
<1>1. ASSUME NEW c \in Cells, Send(c) \/ StopCell(c) \/ Interrupt(c) \/ JoinTimesOut(c)
      PROVE  UNCHANGED config
  BY <1>1 DEF Send, StopCell, Interrupt, JoinTimesOut
<1>2. ASSUME NEW c \in Cells, Step(c) PROVE UNCHANGED config
  BY <1>2 DEF Step, GetReturns, HandlerReturns, HandlerRaises, OldStopped, NewStarted,
              JoinDone, HookDone, Cancelled
<1>3. ASSUME NEW c \in Cells, Spawn(c) \/ StartOk(c) \/ StartFails(c) PROVE UNCHANGED config
  BY <1>3 DEF Spawn, StartOk, StartFails
<1> QED
  BY <1>1, <1>2, <1>3 DEF Next, vars

CalmInstances == Calm => InstancesInv

LEMMA CalmAlways == Spec => [](LifeInv /\ CalmInstances)
<1>1. Init => LifeInv /\ CalmInstances
  BY LifeInvInitially, InstancesInitially DEF CalmInstances
<1>2. LifeInv /\ CalmInstances /\ [Next]_vars => CalmInstances'
  BY InstancesInductive, ConfigIsKept DEF CalmInstances, Calm, config
<1> QED
  BY <1>1, <1>2, LifeInvInductive, PTL DEF Spec

\* One-for-one and without escalation, a handler runs only on an instance whose start
\* hooks are over and whose on_stopped was not called, through any number of restarts.
THEOREM HandlesWhileUpAlways == Spec => []HandlesWhileUp
<1>1. LifeInv /\ CalmInstances => HandlesWhileUp
  BY DEF CalmInstances, HandlesWhileUp, InstancesInv, InstancesTyped, Upkeep, HasLast, LastInstance
<1> QED
  BY <1>1, CalmAlways, PTL

\* There, a cell that has ended has called on_stopped on every instance it ever had.
THEOREM InstancesClosedAlways == Spec => []InstancesClosed
<1>1. LifeInv /\ CalmInstances => InstancesClosed
  <2> SUFFICES ASSUME InstancesInv, NEW c \in Cells, life[c] = "done", ~cut[c],
                      NEW i \in 1..made[c]
               PROVE  <<c, i>> \in closed
    BY DEF CalmInstances, InstancesClosed
  <2>1. made[c] \in Nat /\ i \in Nat /\ 0 < i /\ (i < made[c] \/ i = made[c])
    BY DEF InstancesInv, InstancesTyped
  <2> QED
    BY <2>1 DEF InstancesInv, Upkeep, LastInstance, FormerInstances
<1> QED
  BY <1>1, CalmAlways, PTL

----------------------------------------------------------------------------
(* Types.  LifeTyped has those of life, kids and waits.                    *)

Boxes == {m \in [Cells -> Seq({"msg", "stop"})] : \A c \in Cells : Len(m[c]) <= Capacity}

TasksTyped ==
    /\ mail \in Boxes
    /\ stopped \in [Cells -> BOOLEAN] /\ cancel \in [Cells -> BOOLEAN]
    /\ late \in [Cells -> BOOLEAN] /\ cut \in [Cells -> BOOLEAN]
    /\ on \in [Cells -> Nat] /\ closed \subseteq Cells \X Nat

ObjectsTyped ==
    /\ actor \in [Cells -> Nat] /\ made \in [Cells -> Nat] /\ stamps \in [Cells -> Nat]
    /\ job \in [Cells -> Jobs] /\ inited \subseteq Cells \X Nat

BoundsTyped ==
    /\ strategy \in {"one", "all"} /\ escalates \in BOOLEAN
    /\ sent \in 0..MaxMessages /\ cancels \in 0..MaxCancels

Types == TasksTyped /\ ObjectsTyped /\ BoundsTyped

\* A mailbox that has room takes one item more, and one that is emptied or read fits.
LEMMA BoxAppend ==
    ASSUME NEW m \in Boxes, NEW c \in Cells, Len(m[c]) < Capacity, NEW x \in {"msg", "stop"}
    PROVE  [m EXCEPT ![c] = Append(@, x)] \in Boxes
<1>1. m[c] \in Seq({"msg", "stop"}) /\ Capacity \in Nat
  BY TreeAssumption DEF Boxes
<1>2. Append(m[c], x) \in Seq({"msg", "stop"}) /\ Len(Append(m[c], x)) <= Capacity
  BY <1>1
<1> QED
  BY <1>2 DEF Boxes

LEMMA BoxShrinks ==
    ASSUME NEW m \in Boxes, NEW c \in Cells, NEW s \in {<<>>} \cup {Tail(m[c])},
           s = <<>> \/ m[c] # <<>>
    PROVE  [m EXCEPT ![c] = s] \in Boxes
<1>1. m[c] \in Seq({"msg", "stop"}) /\ Len(m[c]) <= Capacity /\ Capacity \in Nat
  BY TreeAssumption DEF Boxes
<1>2. s \in Seq({"msg", "stop"}) /\ Len(s) <= Capacity
  <2>1. CASE s = <<>>
    BY <1>1, <2>1
  <2>2. CASE m[c] # <<>> /\ s = Tail(m[c])
    BY <1>1, <2>2
  <2> QED
    BY <2>1, <2>2
<1> QED
  BY <1>2 DEF Boxes

LEMMA MailAfterTyped ==
    ASSUME mail \in Boxes, NEW S
    PROVE  MailAfter(S) \in Boxes
<1>1. ASSUME NEW c \in Cells
      PROVE  MailAfter(S)[c] \in Seq({"msg", "stop"}) /\ Len(MailAfter(S)[c]) <= Capacity
  <2>1. mail[c] \in Seq({"msg", "stop"}) /\ Len(mail[c]) <= Capacity /\ Capacity \in Nat
    BY TreeAssumption DEF Boxes
  <2>2. CASE MailAfter(S)[c] = mail[c]
    BY <2>1, <2>2
  <2>3. CASE MailAfter(S)[c] = Append(mail[c], "stop") /\ ~Full(c)
    <3>1. Len(Append(mail[c], "stop")) <= Capacity /\ Append(mail[c], "stop") \in Seq({"msg", "stop"})
      BY <2>1, <2>3 DEF Full
    <3> QED
      BY <2>3, <3>1
  <2> QED
    BY <2>2, <2>3 DEF MailAfter
<1>2. MailAfter(S) = [c \in Cells |-> MailAfter(S)[c]]
  BY DEF MailAfter
<1> QED
  BY <1>1, <1>2 DEF Boxes

LEMMA FlagsAfterTyped ==
    ASSUME TasksTyped, NEW S
    PROVE  CancelAfter(S) \in [Cells -> BOOLEAN] /\ StoppedAfter(S) \in [Cells -> BOOLEAN]
  BY DEF CancelAfter, StoppedAfter

LEMMA BeginShutdownTyped ==
    ASSUME TasksTyped, ObjectsTyped, NEW c \in Cells, NEW S, NEW pending \in BOOLEAN,
           BeginShutdown(c, S, pending)
    PROVE  TasksTyped'
<1> DEFINE T == S \cup Told(c)
<1>1. MailAfter(T) \in Boxes /\ [MailAfter(T) EXCEPT ![c] = <<>>] \in Boxes
  BY MailAfterTyped, BoxShrinks DEF TasksTyped
<1>2. CancelAfter(T) \in [Cells -> BOOLEAN] /\ StoppedAfter(T) \in [Cells -> BOOLEAN]
  BY FlagsAfterTyped
<1>3. /\ stopped' = [StoppedAfter(T) EXCEPT ![c] = TRUE]
      /\ cancel' = [CancelAfter(T) EXCEPT ![c] = pending]
      /\ mail' = MailAfter(T) \/ mail' = [MailAfter(T) EXCEPT ![c] = <<>>]
      /\ closed' = closed \/ closed' = closed \cup {<<c, actor[c]>>}
      /\ on' = [on EXCEPT ![c] = 0] /\ late' = late /\ cut' = cut
  BY DEF BeginShutdown, CallsOnStopped
<1> HIDE DEF T
<1>4. mail' \in Boxes
  BY <1>1, <1>3
<1>5. stopped' \in [Cells -> BOOLEAN] /\ cancel' \in [Cells -> BOOLEAN]
  BY <1>2, <1>3
<1>6. on' \in [Cells -> Nat] /\ closed' \subseteq Cells \X Nat
  BY <1>3 DEF TasksTyped, ObjectsTyped
<1> QED
  BY <1>3, <1>4, <1>5, <1>6 DEF TasksTyped

LEMMA LoopTasksTyped ==
    ASSUME TasksTyped, ObjectsTyped, NEW c \in Cells, NEW S, Loop(c, S)
    PROVE  TasksTyped'
<1>1. CASE BeginShutdown(c, S, CancelAfter(S)[c])
  <2>1. CancelAfter(S)[c] \in BOOLEAN
    BY FlagsAfterTyped
  <2> QED
    BY <1>1, <2>1, BeginShutdownTyped
<1>2. CASE /\ on' = [on EXCEPT ![c] = IF MailAfter(S)[c] = <<>> THEN 0 ELSE actor[c]]
           /\ mail' = [MailAfter(S) EXCEPT ![c] = IF MailAfter(S)[c] = <<>> THEN <<>>
                                                  ELSE Tail(MailAfter(S)[c])]
           /\ stopped' = StoppedAfter(S) /\ cancel' = CancelAfter(S)
           /\ late' = late /\ cut' = cut /\ closed' = closed
  <2>1. MailAfter(S) \in Boxes
    BY MailAfterTyped DEF TasksTyped
  <2>2. mail' \in Boxes
    BY <1>2, <2>1, BoxShrinks
  <2>3. stopped' \in [Cells -> BOOLEAN] /\ cancel' \in [Cells -> BOOLEAN]
    BY <1>2, FlagsAfterTyped
  <2>4. on' \in [Cells -> Nat]
    BY <1>2 DEF TasksTyped, ObjectsTyped
  <2> QED
    BY <1>2, <2>2, <2>3, <2>4 DEF TasksTyped
<1> QED
  BY <1>1, <1>2 DEF Loop

LEMMA NextRestartTyped ==
    ASSUME TasksTyped, ObjectsTyped, NEW f \in Cells, NEW p, NEW todo \in SUBSET Cells, NEW S,
           NextRestart(f, p, todo, S)
    PROVE  /\ TasksTyped' /\ stamps' \in [Cells -> Nat] /\ job' \in [Cells -> Jobs]
<1>1. ASSUME NEW C, stamps' = [c \in Cells |-> IF c \in C THEN stamps[c] + 1 ELSE stamps[c]]
      PROVE  stamps' \in [Cells -> Nat]
  BY <1>1 DEF ObjectsTyped
<1>2. ASSUME NEW T, Loop(f, T), job' = [job EXCEPT ![f] = NoJob]
      PROVE  TasksTyped' /\ job' \in [Cells -> Jobs]
  BY <1>2, LoopTasksTyped, NoJobTyped DEF ObjectsTyped
<1>3. ASSUME NEW n \in todo, NEW T,
             job' = [job EXCEPT ![f] = [now |-> n, todo |-> {c \in todo : Order[c] > Order[n]},
                                        phase |-> "old", new |-> 0]],
             closed' = closed \cup StoppedFor(n), on' = [on EXCEPT ![f] = 0],
             mail' = MailAfter(T), stopped' = StoppedAfter(T), cancel' = CancelAfter(T),
             late' = late, cut' = cut
      PROVE  TasksTyped' /\ job' \in [Cells -> Jobs]
  <2>1. [now |-> n, todo |-> {c \in todo : Order[c] > Order[n]}, phase |-> "old", new |-> 0] \in Jobs
    BY DEF Jobs
  <2>2. job' \in [Cells -> Jobs]
    BY <1>3, <2>1 DEF ObjectsTyped
  <2>3. closed' \subseteq Cells \X Nat
    BY <1>3 DEF StoppedFor, TasksTyped, ObjectsTyped
  <2>4. mail' \in Boxes
    BY <1>3, MailAfterTyped DEF TasksTyped
  <2>5. stopped' \in [Cells -> BOOLEAN] /\ cancel' \in [Cells -> BOOLEAN]
    BY <1>3, FlagsAfterTyped
  <2>6. on' \in [Cells -> Nat]
    BY <1>3 DEF TasksTyped
  <2> QED
    BY <1>3, <2>2, <2>3, <2>4, <2>5, <2>6 DEF TasksTyped
<1>4. \E C : stamps' = [c \in Cells |-> IF c \in C THEN stamps[c] + 1 ELSE stamps[c]]
  BY DEF NextRestart
<1>5. \/ \E T : Loop(f, T) /\ job' = [job EXCEPT ![f] = NoJob]
      \/ \E n \in todo : \E T :
             /\ job' = [job EXCEPT ![f] = [now |-> n, todo |-> {c \in todo : Order[c] > Order[n]},
                                        phase |-> "old", new |-> 0]]
             /\ closed' = closed \cup StoppedFor(n) /\ on' = [on EXCEPT ![f] = 0]
             /\ mail' = MailAfter(T) /\ stopped' = StoppedAfter(T) /\ cancel' = CancelAfter(T)
             /\ late' = late /\ cut' = cut
  BY DEF NextRestart
<1> QED
  BY <1>1, <1>2, <1>3, <1>4, <1>5

LEMMA DirectiveTyped ==
    ASSUME LifeTyped, TasksTyped, ObjectsTyped, NEW f \in Cells, NEW m \in Children, NEW S,
           Directive(f, m, S)
    PROVE  /\ TasksTyped' /\ stamps' \in [Cells -> Nat] /\ job' \in [Cells -> Jobs]
<1>1. Affected(m) \in SUBSET Cells
  BY ParentIsCell DEF Affected, LifeTyped, Children
<1>2. CASE \E T : Loop(f, T) /\ UNCHANGED <<stamps, job>>
  BY <1>2, LoopTasksTyped DEF ObjectsTyped
<1>3. CASE NextRestart(f, Parent[m], Affected(m), S)
  BY <1>1, <1>3, NextRestartTyped
<1> QED
  BY <1>2, <1>3 DEF Directive

LEMMA HandlerRaisesTyped ==
    ASSUME LifeTyped, TasksTyped, ObjectsTyped, NEW f \in Cells, HandlerRaises(f)
    PROVE  TasksTyped' /\ ObjectsTyped'
<1>1. UNCHANGED <<actor, made, inited>>
  BY DEF HandlerRaises
<1>2. CASE (\E T : Loop(f, T)) /\ UNCHANGED <<stamps, job>>
  BY <1>1, <1>2, LoopTasksTyped DEF ObjectsTyped
<1>3. CASE BeginShutdown(f, {}, cancel[f]) /\ UNCHANGED <<stamps, job>>
  <2>1. cancel[f] \in BOOLEAN
    BY DEF TasksTyped
  <2> QED
    BY <1>1, <1>3, <2>1, BeginShutdownTyped DEF ObjectsTyped
<1>4. CASE \E m \in Children : \E S : Directive(f, m, S)
  BY <1>1, <1>4, DirectiveTyped DEF ObjectsTyped
<1>5. ASSUME f # Root PROVE f \in Children /\ Parent[f] \in Cells
  BY <1>5, ParentIsCell DEF Children
<1> QED
  BY <1>2, <1>3, <1>4, <1>5 DEF HandlerRaises, Escalated, Children

LEMMA NewStartedTyped ==
    ASSUME LifeTyped, TasksTyped, ObjectsTyped, NEW f \in Cells, NewStarted(f)
    PROVE  TasksTyped' /\ ObjectsTyped'
<1>1. UNCHANGED <<actor, made>> /\ inited' = inited \cup {<<job[f].now, job[f].new>>}
  BY DEF NewStarted
<1>2. job[f] \in Jobs
  BY DEF ObjectsTyped
<1>3. job[f].new \in Nat /\ job[f].todo \in SUBSET Cells /\ job[f].now \in Cells
  BY <1>2 DEF Jobs, NewStarted
<1>4. inited' \subseteq Cells \X Nat
  BY <1>1, <1>3 DEF ObjectsTyped
<1>5. CASE \E T : Loop(f, T) /\ job' = [job EXCEPT ![f] = NoJob] /\ stamps' = stamps
  BY <1>1, <1>4, <1>5, LoopTasksTyped, NoJobTyped DEF ObjectsTyped
<1>6. CASE \E p, T : NextRestart(f, p, job[f].todo, T)
  BY <1>1, <1>3, <1>4, <1>6, NextRestartTyped DEF ObjectsTyped
<1> QED
  BY <1>5, <1>6 DEF NewStarted

LEMMA OldStoppedTyped ==
    ASSUME TasksTyped, ObjectsTyped, NEW f \in Cells, OldStopped(f)
    PROVE  TasksTyped' /\ ObjectsTyped'
<1> DEFINE n == job[f].now
           j == [[job[f] EXCEPT !.phase = "new"] EXCEPT !.new = made[n] + 1]
<1>1. /\ job[f].phase = "old" /\ UNCHANGED <<mail, stopped, cancel, late, cut, on, closed>>
      /\ UNCHANGED <<stamps, inited>>
      /\ made' = [made EXCEPT ![n] = @ + 1] /\ actor' = [actor EXCEPT ![n] = made[n] + 1]
      /\ job' = [job EXCEPT ![f] = j]
  BY DEF OldStopped, tasks
<1>2. job[f] \in Jobs
  BY DEF ObjectsTyped
<1>3. n \in Cells
  BY <1>1, <1>2 DEF Jobs
<1>4. made[n] + 1 \in Nat
  BY <1>3 DEF ObjectsTyped
<1>5. j \in Jobs
  BY <1>1, <1>2, <1>4, NewJobTyped
<1> HIDE DEF n, j
<1>6. made' \in [Cells -> Nat] /\ actor' \in [Cells -> Nat]
  BY <1>1, <1>3, <1>4 DEF ObjectsTyped
<1>7. job' \in [Cells -> Jobs]
  BY <1>1, <1>5 DEF ObjectsTyped
<1> QED
  BY <1>1, <1>6, <1>7 DEF TasksTyped, ObjectsTyped

LEMMA ShutdownTyped ==
    ASSUME TasksTyped, ObjectsTyped, NEW c \in Cells, JoinDone(c) \/ HookDone(c) \/ Cancelled(c)
    PROVE  TasksTyped' /\ ObjectsTyped'
<1>1. CASE JoinDone(c)
  <2>1. /\ closed' = closed \/ closed' = closed \cup {<<c, actor[c]>>}
        /\ mail' = mail \/ mail' = [mail EXCEPT ![c] = <<>>]
        /\ UNCHANGED <<stopped, cancel, on, late, cut, actor, made, stamps, job, inited>>
    BY <1>1 DEF JoinDone, CallsOnStopped
  <2>2. mail \in Boxes /\ [mail EXCEPT ![c] = <<>>] \in Boxes
    BY BoxShrinks DEF TasksTyped
  <2>3. mail' \in Boxes
    BY <2>1, <2>2
  <2>4. closed' \subseteq Cells \X Nat
    BY <2>1 DEF TasksTyped, ObjectsTyped
  <2> QED
    BY <2>1, <2>3, <2>4 DEF TasksTyped, ObjectsTyped
<1>2. CASE HookDone(c)
  BY <1>2 DEF HookDone, TasksTyped, ObjectsTyped
<1>3. CASE BeginShutdown(c, {}, FALSE) /\ Cancelled(c) /\ job' = [job EXCEPT ![c] = NoJob]
  <2>1. TasksTyped'
    BY <1>3, BeginShutdownTyped
  <2>2. job' \in [Cells -> Jobs]
    BY <1>3, NoJobTyped DEF ObjectsTyped
  <2> QED
    BY <1>3, <2>1, <2>2 DEF Cancelled, ObjectsTyped
<1>4. CASE /\ cut' = cut \/ cut' = [cut EXCEPT ![c] = TRUE]
           /\ \/ cancel' = [cancel EXCEPT ![c] = FALSE]
              \/ cancel' = [k \in Cells |-> IF k = c THEN FALSE
                                            ELSE cancel[k] \/ (k \in waits[c] /\ life[k] # "done")]
           /\ UNCHANGED <<mail, stopped, on, late, closed, actor, made, stamps, job, inited>>
  <2>1. cancel' \in [Cells -> BOOLEAN] /\ cut' \in [Cells -> BOOLEAN]
    BY <1>4 DEF TasksTyped
  <2> QED
    BY <1>4, <2>1 DEF TasksTyped, ObjectsTyped
<1>5. CASE Cancelled(c)
  BY <1>3, <1>4, <1>5 DEF Cancelled
<1> QED
  BY <1>1, <1>2, <1>5

LEMMA RequestTyped ==
    ASSUME TasksTyped, ObjectsTyped, NEW c \in Cells,
           Send(c) \/ StopCell(c) \/ Interrupt(c) \/ JoinTimesOut(c)
    PROVE  TasksTyped' /\ ObjectsTyped'
<1>1. UNCHANGED <<stopped, cut, on, closed, actor, made, stamps, job, inited>>
  BY DEF Send, StopCell, Interrupt, JoinTimesOut, objects
<1>2. mail' \in Boxes
  <2>1. CASE Send(c)
    <3>1. Len(mail[c]) < Capacity /\ mail' = [mail EXCEPT ![c] = Append(@, "msg")]
      <4>1. ~(Len(mail[c]) >= Capacity) /\ Capacity \in Nat /\ mail[c] \in Seq({"msg", "stop"})
        BY <2>1, TreeAssumption DEF Send, Full, TasksTyped, Boxes
      <4> QED
        BY <2>1, <4>1 DEF Send
    <3> QED
      BY <3>1, BoxAppend DEF TasksTyped
  <2>2. CASE StopCell(c)
    BY <2>2, MailAfterTyped DEF StopCell, TasksTyped
  <2>3. CASE Interrupt(c) \/ JoinTimesOut(c)
    BY <2>3 DEF Interrupt, JoinTimesOut, TasksTyped
  <2> QED
    BY <2>1, <2>2, <2>3
<1>3. cancel' \in [Cells -> BOOLEAN]
  BY FlagsAfterTyped DEF Send, StopCell, Interrupt, JoinTimesOut, TasksTyped
<1>4. late' \in [Cells -> BOOLEAN]
  BY DEF Send, StopCell, Interrupt, JoinTimesOut, TasksTyped
<1> QED
  BY <1>1, <1>2, <1>3, <1>4 DEF TasksTyped, ObjectsTyped

LEMMA SpawningTyped ==
    ASSUME TasksTyped, ObjectsTyped, NEW c \in Cells, Spawn(c) \/ StartOk(c) \/ StartFails(c)
    PROVE  TasksTyped' /\ ObjectsTyped'
  BY DEF Spawn, StartOk, StartFails, objects, TasksTyped, ObjectsTyped

LEMMA BoundsInductive == BoundsTyped /\ [Next]_vars => BoundsTyped'
<1> SUFFICES ASSUME BoundsTyped, [Next]_vars PROVE BoundsTyped'
  OBVIOUS
<1>1. UNCHANGED <<strategy, escalates>>
  BY ConfigIsKept DEF config
<1>2. CASE UNCHANGED <<sent, cancels>>
  BY <1>1, <1>2 DEF BoundsTyped
<1>3. ASSUME NEW c \in Cells, Send(c) PROVE BoundsTyped'
  BY <1>1, <1>3, TreeAssumption DEF Send, BoundsTyped
<1>4. ASSUME NEW c \in Cells, Interrupt(c) PROVE BoundsTyped'
  BY <1>1, <1>4, TreeAssumption DEF Interrupt, BoundsTyped
<1>5. ASSUME NEW c \in Cells, StopCell(c) \/ JoinTimesOut(c) \/ Step(c) PROVE UNCHANGED <<sent, cancels>>
  BY <1>5 DEF StopCell, JoinTimesOut, Step, GetReturns, HandlerReturns, HandlerRaises, OldStopped,
              NewStarted, JoinDone, HookDone, Cancelled, bounds
<1>6. ASSUME NEW c \in Cells, Spawn(c) \/ StartOk(c) \/ StartFails(c)
      PROVE  UNCHANGED <<sent, cancels>>
  BY <1>6 DEF Spawn, StartOk, StartFails, bounds
<1>7. CASE UNCHANGED vars
  BY <1>2, <1>7 DEF vars, bounds
<1> QED
  BY <1>2, <1>3, <1>4, <1>5, <1>6, <1>7 DEF Next

LEMMA TypesInductive == LifeInv /\ Types /\ [Next]_vars => Types'
<1> SUFFICES ASSUME LifeTyped, TasksTyped, ObjectsTyped, [Next]_vars
             PROVE  TasksTyped' /\ ObjectsTyped'
  BY BoundsInductive DEF Types, LifeInv
<1>1. ASSUME NEW c \in Cells, Step(c) PROVE TasksTyped' /\ ObjectsTyped'
  <2>1. CASE GetReturns(c) \/ HandlerReturns(c)
    BY <2>1, LoopTasksTyped DEF GetReturns, HandlerReturns, ObjectsTyped
  <2>2. CASE HandlerRaises(c)
    BY <2>2, HandlerRaisesTyped
  <2>3. CASE OldStopped(c) \/ NewStarted(c)
    BY <2>3, OldStoppedTyped, NewStartedTyped
  <2>4. CASE JoinDone(c) \/ HookDone(c) \/ Cancelled(c)
    BY <2>4, ShutdownTyped
  <2> QED
    BY <1>1, <2>1, <2>2, <2>3, <2>4 DEF Step
<1>2. CASE UNCHANGED vars
  BY <1>2 DEF vars, tasks, objects, TasksTyped, ObjectsTyped
<1> QED
  BY <1>1, <1>2, RequestTyped, SpawningTyped DEF Next

LEMMA TypesInitially == Init => Types
<1> SUFFICES ASSUME Init PROVE Types
  OBVIOUS
<1>1. mail \in Boxes
  <2>1. <<>> \in Seq({"msg", "stop"}) /\ Len(<<>>) <= Capacity
    BY TreeAssumption
  <2> QED
    BY <2>1 DEF Init, Boxes
<1>2. TasksTyped
  BY <1>1 DEF Init, TasksTyped
<1>3. actor \in [Cells -> Nat] /\ made = actor /\ stamps \in [Cells -> Nat] /\ inited \subseteq Cells \X Nat
  BY TreeAssumption DEF Init
<1>4. ObjectsTyped
  BY <1>3, NoJobTyped DEF Init, ObjectsTyped
<1>5. BoundsTyped
  BY TreeAssumption DEF Init, BoundsTyped
<1> QED
  BY <1>2, <1>4, <1>5 DEF Types

\* The state of a tree has its types; no mailbox ever exceeds its capacity, whoever asks a
\* cell to stop and however often.
THEOREM TreeTyped == Spec => []TypeOK
<1>1. LifeInv /\ Types => TypeOK
  <2> SUFFICES ASSUME LifeInv, Types PROVE TypeOK
    OBVIOUS
  <2>1. mail \in [Cells -> Seq({"msg", "stop"})] /\ \A c \in Cells : Len(mail[c]) <= Capacity
    BY DEF Types, TasksTyped, Boxes
  <2>2. job \in [Cells -> [now : Cells \cup {None}, todo : SUBSET Cells,
                           phase : {"none", "old", "new"}, new : Nat]]
    BY DEF Types, ObjectsTyped, Jobs
  <2> QED
    BY <2>1, <2>2 DEF TypeOK, LifeInv, LifeTyped, Lives, Types, TasksTyped, ObjectsTyped, BoundsTyped
<1>2. Init => LifeInv /\ Types
  BY LifeInvInitially, TypesInitially
<1>3. LifeInv /\ Types /\ [Next]_vars => LifeInv' /\ Types'
  BY LifeInvInductive, TypesInductive
<1> QED
  BY <1>1, <1>2, <1>3, PTL DEF Spec

----------------------------------------------------------------------------
(* The limit on restarts.                                                  *)

\* The tasks that have begun a restart of c and not made its new instance yet.
Pending(c) == {f \in Cells : job[f].phase = "old" /\ job[f].now = c}

\* RestartLimit is not inductive: several tasks may have a restart of c under way at once,
\* and each of them was counted in stamps[c] when it began.
Room(c) ==
    /\ IsFiniteSet(Pending(c))
    /\ made[c] + Cardinality(Pending(c)) <= 1 + stamps[c]
    /\ made[c] + Cardinality(Pending(c)) <= 1 + MaxRestarts

\* Nobody restarts a cell before it is spawned: spawning sets made[c] to 1.
Unborn(c) ==
    life[c] = "none" => /\ made[c] = 0 /\ Pending(c) = {}
                        /\ \A p \in Cells : c \notin kids[p]

ChildrenOfParents == \A p \in Cells : \A k \in kids[p] : Parent[k] = p

RestartsChildren == \A f \in Cells : job[f].phase # "none" => Parent[job[f].now] \in Cells

LimitInv ==
    ChildrenOfParents /\ RestartsChildren /\ \A c \in Cells : Room(c) /\ Unborn(c)

\* No restart of c is begun or made, whatever else is counted or given up.
LEMMA RoomFrame ==
    ASSUME ObjectsTyped, NEW c \in Cells, Room(c), made'[c] = made[c],
           stamps'[c] \in {stamps[c], stamps[c] + 1}, Pending(c)' \subseteq Pending(c)
    PROVE  Room(c)'
<1>1. /\ IsFiniteSet(Pending(c)') /\ Cardinality(Pending(c)') <= Cardinality(Pending(c))
      /\ Cardinality(Pending(c)') \in Nat /\ Cardinality(Pending(c)) \in Nat
  BY FS_Subset, FS_CardinalityType DEF Room
<1>2. made[c] \in Nat /\ stamps[c] \in Nat /\ MaxRestarts \in Nat
  BY TreeAssumption DEF ObjectsTyped
<1> DEFINE old == Cardinality(Pending(c))
           new == Cardinality(Pending(c)')
<1>3. new <= old /\ new \in Nat /\ old \in Nat
  BY <1>1
<1>4. made[c] + old <= 1 + stamps[c] /\ made[c] + old <= 1 + MaxRestarts
  BY DEF Room
<1>5. IsFiniteSet(Pending(c))'
  BY <1>1
<1> HIDE DEF old, new
<1>6. made'[c] + new <= 1 + stamps'[c] /\ made'[c] + new <= 1 + MaxRestarts
  BY <1>2, <1>3, <1>4
<1> QED
  BY <1>5, <1>6 DEF Room, new

\* The task of f begins a restart of c, which is within the limit.
LEMMA RoomBegins ==
    ASSUME ObjectsTyped, NEW c \in Cells, Room(c), made'[c] = made[c], WithinLimit(c),
           stamps'[c] = stamps[c] + 1, NEW f, Pending(c)' \subseteq Pending(c) \cup {f}
    PROVE  Room(c)'
<1>1. /\ IsFiniteSet(Pending(c) \cup {f})
      /\ Cardinality(Pending(c) \cup {f}) <= Cardinality(Pending(c)) + 1
      /\ Cardinality(Pending(c)) \in Nat
  BY FS_AddElement, FS_CardinalityType DEF Room
<1>2. /\ IsFiniteSet(Pending(c)')
      /\ Cardinality(Pending(c)') <= Cardinality(Pending(c) \cup {f})
      /\ Cardinality(Pending(c)') \in Nat /\ Cardinality(Pending(c) \cup {f}) \in Nat
  BY <1>1, FS_Subset, FS_CardinalityType
<1>3. made[c] \in Nat /\ stamps[c] \in Nat /\ MaxRestarts \in Nat
  BY TreeAssumption DEF ObjectsTyped
<1> DEFINE old == Cardinality(Pending(c))
           mid == Cardinality(Pending(c) \cup {f})
           new == Cardinality(Pending(c)')
<1>4. new <= mid /\ mid <= old + 1 /\ new \in Nat /\ mid \in Nat /\ old \in Nat
  BY <1>1, <1>2
<1>5. made[c] + old <= 1 + stamps[c] /\ stamps[c] + 1 <= MaxRestarts
  BY DEF Room, WithinLimit
<1> HIDE DEF old, mid, new
<1>6. made'[c] + new <= 1 + stamps'[c] /\ made'[c] + new <= 1 + MaxRestarts
  BY <1>3, <1>4, <1>5
<1>7. IsFiniteSet(Pending(c))'
  BY <1>2
<1> QED
  BY <1>6, <1>7 DEF Room, new

\* The task of f makes the new instance of c that it had begun a restart for.
LEMMA RoomMakes ==
    ASSUME ObjectsTyped, NEW c \in Cells, Room(c), made'[c] = made[c] + 1,
           stamps'[c] = stamps[c], NEW f \in Pending(c), Pending(c)' = Pending(c) \ {f}
    PROVE  Room(c)'
<1>1. /\ IsFiniteSet(Pending(c)') /\ Cardinality(Pending(c)') = Cardinality(Pending(c)) - 1
      /\ Cardinality(Pending(c)) \in Nat
  BY FS_RemoveElement, FS_CardinalityType DEF Room
<1>2. made[c] \in Nat /\ stamps[c] \in Nat /\ MaxRestarts \in Nat
  BY TreeAssumption DEF ObjectsTyped
<1> DEFINE old == Cardinality(Pending(c))
           new == Cardinality(Pending(c)')
<1>3. new = old - 1 /\ old \in Nat
  BY <1>1
<1>4. made[c] + old <= 1 + stamps[c] /\ made[c] + old <= 1 + MaxRestarts
  BY DEF Room
<1> HIDE DEF old, new
<1>5. made'[c] + new <= 1 + stamps'[c] /\ made'[c] + new <= 1 + MaxRestarts
  BY <1>2, <1>3, <1>4
<1>6. IsFiniteSet(Pending(c))'
  BY <1>1
<1> QED
  BY <1>5, <1>6 DEF Room, new

\* The tasks keep what they have to restart, or give it up.
LEMMA LimitFrame ==
    ASSUME LifeTyped, ObjectsTyped, LimitInv,
           \A c \in Cells : life'[c] = "none" => life[c] = "none",
           \A p \in Cells : kids'[p] \subseteq kids[p],
           \A c \in Cells : made'[c] = made[c] /\ stamps'[c] \in {stamps[c], stamps[c] + 1},
           \A f \in Cells : job'[f] = job[f] \/ job'[f].phase = "none"
                            \/ (job'[f].phase = "new" /\ job'[f].now = job[f].now
                                /\ job[f].phase # "none")
    PROVE  LimitInv'
<1>1. \A c \in Cells : Pending(c)' \subseteq Pending(c)
  BY DEF Pending
<1>2. ChildrenOfParents' /\ RestartsChildren'
  BY DEF LimitInv, ChildrenOfParents, RestartsChildren
<1>3. ASSUME NEW c \in Cells PROVE Room(c)'
  BY <1>1, RoomFrame DEF LimitInv
<1>4. ASSUME NEW c \in Cells PROVE Unborn(c)'
  BY <1>1 DEF LimitInv, Unborn
<1> QED
  BY <1>2, <1>3, <1>4 DEF LimitInv

LEMMA LoopKeepsLives ==
    ASSUME LifeTyped, NEW c \in Cells, life[c] \in Running, NEW S,
           Loop(c, S) \/ \E pending : BeginShutdown(c, S, pending)
    PROVE  /\ kids' = kids /\ \A k \in Cells : life'[k] = "none" => life[k] = "none"
  BY DEF Loop, BeginShutdown, LifeTyped, Running, Abandoned

LEMMA NextRestartLimit ==
    ASSUME LifeTyped, ObjectsTyped, LimitInv, NEW f \in Cells, life[f] \in Running,
           NEW p \in Cells, NEW todo \in SUBSET Cells, NEW S, made' = made,
           NextRestart(f, p, todo, S)
    PROVE  LimitInv'
<1> DEFINE Here == todo \cap kids[p]
           Jobs0(n) == [now |-> n, todo |-> {c \in todo : Order[c] > Order[n]},
                        phase |-> "old", new |-> 0]
<1>1. ASSUME NEW C, stamps' = [c \in Cells |-> IF c \in C THEN stamps[c] + 1 ELSE stamps[c]],
             NEW T, Loop(f, T), job' = [job EXCEPT ![f] = NoJob]
      PROVE  LimitInv'
  <2>1. kids' = kids /\ \A k \in Cells : life'[k] = "none" => life[k] = "none"
    BY <1>1, LoopKeepsLives
  <2>2. \A k \in Cells : stamps'[k] \in {stamps[k], stamps[k] + 1}
    BY <1>1
  <2>3. \A k \in Cells : job'[k] = job[k] \/ job'[k].phase = "none"
    BY <1>1 DEF ObjectsTyped, NoJob
  <2> QED
    BY <2>1, <2>2, <2>3, LimitFrame
<1>2. ASSUME NEW n \in Here, WithinLimit(n),
             stamps' = [c \in Cells |-> IF c \in {k \in Here : Order[k] <= Order[n]} THEN stamps[c] + 1
                                                                       ELSE stamps[c]],
             job' = [job EXCEPT ![f] = Jobs0(n)],
             life' = [life EXCEPT ![f] = "restarting"], kids' = kids
      PROVE  LimitInv'
  <2>1. n \in Cells /\ n \in kids[p] /\ Parent[n] = p
    BY DEF LimitInv, ChildrenOfParents
  <2>2. \A k \in Cells : life'[k] = "none" => life[k] = "none"
    BY <1>2 DEF LifeTyped
  <2>3. /\ \A k \in Cells : k # f => job'[k] = job[k]
        /\ job'[f].phase = "old" /\ job'[f].now = n
    BY <1>2 DEF ObjectsTyped
  <2>4. ChildrenOfParents' /\ RestartsChildren'
    BY <1>2, <2>1, <2>3 DEF LimitInv, ChildrenOfParents, RestartsChildren
  <2>5. Pending(n)' \subseteq Pending(n) \cup {f}
    BY <2>3 DEF Pending
  <2>6. ASSUME NEW c \in Cells, c # n PROVE Pending(c)' \subseteq Pending(c)
    BY <2>3, <2>6 DEF Pending
  <2>7. stamps'[n] = stamps[n] + 1
    <3>1. Order[n] <= Order[n]
      BY <2>1, TreeAssumption
    <3> QED
      BY <1>2, <2>1, <3>1
  <2>8. Room(n)'
    BY <1>2, <2>1, <2>5, <2>7, RoomBegins DEF LimitInv
  <2>9. ASSUME NEW c \in Cells, c # n PROVE Room(c)'
    <3>1. stamps'[c] \in {stamps[c], stamps[c] + 1}
      BY <1>2
    <3> QED
      BY <2>6, <2>9, <3>1, RoomFrame DEF LimitInv
  <2>10. life'[n] # "none"
    BY <2>1, <2>2 DEF LimitInv, Unborn
  <2>11. ASSUME NEW c \in Cells PROVE Unborn(c)'
    BY <1>2, <2>2, <2>6, <2>10 DEF LimitInv, Unborn
  <2> QED
    BY <2>4, <2>8, <2>9, <2>11 DEF LimitInv
<1>3. CASE \E C : /\ stamps' = [c \in Cells |-> IF c \in C THEN stamps[c] + 1 ELSE stamps[c]]
                  /\ job' = [job EXCEPT ![f] = NoJob] /\ \E T : Loop(f, T)
  BY <1>1, <1>3
<1>4. CASE \E n \in Here :
             /\ WithinLimit(n)
             /\ stamps' = [c \in Cells |-> IF c \in {k \in Here : Order[k] <= Order[n]} THEN stamps[c] + 1
                                                                              ELSE stamps[c]]
             /\ job' = [job EXCEPT ![f] = Jobs0(n)]
             /\ life' = [life EXCEPT ![f] = "restarting"] /\ kids' = kids
  BY <1>2, <1>4
<1> QED
  BY <1>3, <1>4 DEF NextRestart

LEMMA DirectiveLimit ==
    ASSUME LifeTyped, ObjectsTyped, LimitInv, NEW f \in Cells, life[f] \in Running, made' = made,
           NEW m \in Children, NEW S, Directive(f, m, S)
    PROVE  LimitInv'
<1>1. Affected(m) \in SUBSET Cells /\ Parent[m] \in Cells
  BY ParentIsCell DEF Affected, LifeTyped, Children
<1>2. CASE \E T : Loop(f, T) /\ UNCHANGED <<stamps, job>>
  BY <1>2, LoopKeepsLives, LimitFrame
<1>3. CASE NextRestart(f, Parent[m], Affected(m), S)
  BY <1>1, <1>3, NextRestartLimit
<1> QED
  BY <1>2, <1>3 DEF Directive

LEMMA OldStoppedLimit ==
    ASSUME ObjectsTyped, LimitInv, NEW f \in Cells, OldStopped(f)
    PROVE  LimitInv'
<1>1. PICK n : n = job[f].now
  OBVIOUS
<1>2. /\ job[f].phase = "old" /\ UNCHANGED <<life, kids, stamps>>
      /\ made' = [made EXCEPT ![n] = @ + 1]
      /\ job' = [job EXCEPT ![f].phase = "new", ![f].new = made[n] + 1]
  BY <1>1 DEF OldStopped, tasks
<1>3. job[f] \in Jobs
  BY DEF ObjectsTyped
<1>4. n \in Cells
  BY <1>1, <1>2, <1>3 DEF Jobs
<1>5. /\ \A k \in Cells : k # f => job'[k] = job[k]
      /\ job'[f].phase = "new" /\ job'[f].now = n
  <2>1. job[f] \in [now : Cells \cup {None}, todo : SUBSET Cells, phase : {"none", "old", "new"}, new : Nat]
    BY <1>3 DEF Jobs
  <2> QED
    BY <1>1, <1>2, <2>1 DEF ObjectsTyped
<1>6. ChildrenOfParents' /\ RestartsChildren'
  BY <1>1, <1>2, <1>5 DEF LimitInv, ChildrenOfParents, RestartsChildren
<1>7. f \in Pending(n) /\ Pending(n)' = Pending(n) \ {f}
  BY <1>1, <1>2, <1>5 DEF Pending
<1>8. Room(n)'
  <2>1. made'[n] = made[n] + 1
    BY <1>2, <1>4 DEF ObjectsTyped
  <2> QED
    BY <1>2, <1>4, <1>7, <2>1, RoomMakes DEF LimitInv
<1>9. ASSUME NEW c \in Cells, c # n PROVE Room(c)' /\ Pending(c)' \subseteq Pending(c)
  <2>1. Pending(c)' \subseteq Pending(c) /\ made'[c] = made[c]
    BY <1>2, <1>5, <1>9 DEF Pending, ObjectsTyped
  <2> QED
    BY <1>2, <2>1, RoomFrame DEF LimitInv
<1>10. life[n] # "none"
  BY <1>4, <1>7 DEF LimitInv, Unborn
<1>11. ASSUME NEW c \in Cells PROVE Unborn(c)'
  <2>1. CASE c = n
    BY <1>2, <1>10, <2>1 DEF Unborn
  <2>2. CASE c # n
    <3>1. made'[c] = made[c]
      BY <1>2, <2>2 DEF ObjectsTyped
    <3> QED
      BY <1>2, <1>9, <2>2, <3>1 DEF LimitInv, Unborn
  <2> QED
    BY <2>1, <2>2
<1> QED
  BY <1>6, <1>8, <1>9, <1>11 DEF LimitInv

LEMMA SpawnLimit ==
    ASSUME LifeTyped, ObjectsTyped, LimitInv, NEW c \in Children, Spawn(c)
    PROVE  LimitInv'
<1>1. /\ life[c] = "none" /\ c \in Cells /\ Parent[c] \in Cells /\ c # Parent[c]
      /\ life' = [life EXCEPT ![c] = "starting", ![Parent[c]] = "spawning"]
      /\ kids' = [kids EXCEPT ![Parent[c]] = @ \cup {c}]
      /\ made' = [made EXCEPT ![c] = 1] /\ UNCHANGED <<stamps, job>>
  BY ParentIsCell DEF Spawn, Children
<1>2. made[c] = 0 /\ Pending(c) = {}
  BY <1>1 DEF LimitInv, Unborn
<1>3. \A k \in Cells : Pending(k)' = Pending(k)
  BY <1>1 DEF Pending
<1>4. ChildrenOfParents' /\ RestartsChildren'
  BY <1>1 DEF LimitInv, ChildrenOfParents, RestartsChildren, LifeTyped
<1>5. ASSUME NEW k \in Cells, k # c PROVE Room(k)' /\ Unborn(k)'
  <2>1. made'[k] = made[k] /\ stamps'[k] = stamps[k]
    BY <1>1, <1>5 DEF ObjectsTyped
  <2>2. Room(k)'
    BY <1>3, <2>1, RoomFrame DEF LimitInv
  <2>3. Unborn(k)'
    BY <1>1, <1>3, <1>5, <2>1 DEF LimitInv, Unborn, LifeTyped
  <2> QED
    BY <2>2, <2>3
<1>6. Unborn(c)'
  BY <1>1 DEF Unborn, LifeTyped
<1>7. Room(c)'
  <2>1. Pending(c)' = {} /\ made'[c] = 1 /\ stamps'[c] \in Nat /\ MaxRestarts \in Nat
    BY <1>1, <1>2, <1>3, TreeAssumption DEF ObjectsTyped
  <2>2. IsFiniteSet({}) /\ Cardinality({}) = 0
    BY FS_EmptySet
  <2> QED
    BY <2>1, <2>2 DEF Room
<1> QED
  BY <1>4, <1>5, <1>6, <1>7 DEF LimitInv

LEMMA StepLimit ==
    ASSUME LifeTyped, ObjectsTyped, LimitInv, NEW c \in Cells, Step(c)
    PROVE  LimitInv'
<1>1. CASE OldStopped(c)
  BY <1>1, OldStoppedLimit
<1>2. ASSUME NEW S, life[c] \in Running, Loop(c, S) \/ \E pending : BeginShutdown(c, S, pending),
             made' = made, stamps' = stamps,
             job' = job \/ job' = [job EXCEPT ![c] = NoJob]
      PROVE  LimitInv'
  <2>1. kids' = kids /\ \A k \in Cells : life'[k] = "none" => life[k] = "none"
    BY <1>2, LoopKeepsLives
  <2>2. \A k \in Cells : job'[k] = job[k] \/ job'[k].phase = "none"
    BY <1>2 DEF ObjectsTyped, NoJob
  <2> QED
    BY <1>2, <2>1, <2>2, LimitFrame
<1>3. CASE GetReturns(c) \/ HandlerReturns(c)
  BY <1>2, <1>3 DEF GetReturns, HandlerReturns, Running
<1>4. CASE HandlerRaises(c)
  <2>1. life[c] \in Running /\ made' = made
    BY <1>4 DEF HandlerRaises, Running
  <2>2. CASE \E m \in Children : \E S : Directive(c, m, S)
    BY <2>1, <2>2, DirectiveLimit
  <2>3. CASE (\E S : Loop(c, S)) /\ UNCHANGED <<stamps, job>>
    BY <1>2, <2>1, <2>3
  <2>4. CASE BeginShutdown(c, {}, cancel[c]) /\ UNCHANGED <<stamps, job>>
    BY <1>2, <2>1, <2>4
  <2>5. ASSUME c # Root PROVE c \in Children /\ Parent[c] \in Cells
    BY <2>5, ParentIsCell DEF Children
  <2> QED
    BY <1>4, <2>2, <2>3, <2>4, <2>5 DEF HandlerRaises, Escalated, Children
<1>5. CASE NewStarted(c)
  <2>1. life[c] \in Running /\ made' = made /\ job[c].phase = "new"
    BY <1>5 DEF NewStarted, Running
  <2>2. job[c].todo \in SUBSET Cells /\ Parent[job[c].now] \in Cells
    BY <2>1 DEF ObjectsTyped, Jobs, LimitInv, RestartsChildren
  <2>3. CASE \E S : Loop(c, S) /\ job' = [job EXCEPT ![c] = NoJob] /\ stamps' = stamps
    BY <1>2, <2>1, <2>3
  <2>4. CASE \E S : NextRestart(c, Parent[job[c].now], job[c].todo, S)
    BY <2>1, <2>2, <2>4, NextRestartLimit
  <2> QED
    BY <1>5, <2>3, <2>4 DEF NewStarted
<1>6. CASE Cancelled(c) /\ life[c] \in Running
  <2>1. BeginShutdown(c, {}, FALSE) /\ job' = [job EXCEPT ![c] = NoJob] /\ UNCHANGED <<made, stamps>>
    BY <1>6 DEF Cancelled, Running
  <2> QED
    BY <1>2, <1>6, <2>1
<1>7. CASE JoinDone(c) \/ HookDone(c) \/ (Cancelled(c) /\ life[c] \notin Running)
  <2>1. UNCHANGED <<made, stamps, job>> /\ \A p \in Cells : kids'[p] \subseteq kids[p]
    <3>1. CASE JoinDone(c)
      BY <3>1 DEF JoinDone
    <3>2. CASE HookDone(c)
      BY <3>2 DEF HookDone, LifeTyped
    <3>3. CASE Cancelled(c) /\ life[c] \notin Running
      BY <3>3 DEF Cancelled
    <3> QED
      BY <1>7, <3>1, <3>2, <3>3
  <2>2. \A k \in Cells : life'[k] = "none" => life[k] = "none"
    BY <1>7 DEF JoinDone, HookDone, Cancelled, LifeTyped, AfterCancel
  <2> QED
    BY <2>1, <2>2, LimitFrame
<1> QED
  BY <1>1, <1>3, <1>4, <1>5, <1>6, <1>7 DEF Step

LEMMA LimitInductive == LifeInv /\ Types /\ LimitInv /\ [Next]_vars => LimitInv'
<1> SUFFICES ASSUME LifeTyped, ObjectsTyped, LimitInv, [Next]_vars PROVE LimitInv'
  BY DEF LifeInv, Types
<1>1. CASE UNCHANGED <<life, kids, made, stamps, job>>
  BY <1>1, LimitFrame
<1>2. ASSUME NEW c \in Cells, Send(c) \/ StopCell(c) \/ Interrupt(c) \/ JoinTimesOut(c)
      PROVE  UNCHANGED <<life, kids, made, stamps, job>>
  BY <1>2 DEF Send, StopCell, Interrupt, JoinTimesOut, objects
<1>3. ASSUME NEW c \in Children, StartOk(c) \/ StartFails(c)
      PROVE  LimitInv'
  <2>1. UNCHANGED <<made, stamps, job>>
    BY <1>3 DEF StartOk, StartFails, objects
  <2>2. \A p \in Cells : kids'[p] \subseteq kids[p]
    BY <1>3 DEF StartOk, StartFails, LifeTyped
  <2>3. \A k \in Cells : life'[k] = "none" => life[k] = "none"
    BY <1>3, ParentIsCell DEF StartOk, StartFails, LifeTyped
  <2> QED
    BY <2>1, <2>2, <2>3, LimitFrame
<1>4. CASE UNCHANGED vars
  BY <1>1, <1>4 DEF vars, tasks, objects
<1> QED
  BY <1>1, <1>2, <1>3, <1>4, StepLimit, SpawnLimit DEF Next, Children

LEMMA LimitInitially == Init => LimitInv
<1> SUFFICES ASSUME Init PROVE LimitInv
  OBVIOUS
<1>1. ChildrenOfParents /\ RestartsChildren
  BY DEF Init, ChildrenOfParents, RestartsChildren, NoJob
<1>2. ASSUME NEW c \in Cells PROVE Room(c) /\ Unborn(c)
  <2>1. Pending(c) = {}
    BY DEF Init, Pending, NoJob
  <2>2. made[c] \in {0, 1} /\ stamps[c] = 0 /\ (life[c] = "none" => c \notin Initial /\ made[c] = 0)
    BY DEF Init
  <2>3. Room(c)
    BY <2>1, <2>2, FS_EmptySet, TreeAssumption DEF Room
  <2>4. Unborn(c)
    BY <2>1, <2>2 DEF Init, Unborn
  <2> QED
    BY <2>3, <2>4
<1> QED
  BY <1>1, <1>2 DEF LimitInv

\* No cell is restarted more than max_restarts times in a window, whichever tasks restart
\* it: its own, those of its siblings or, after an escalation, those below it.
THEOREM RestartLimitAlways == Spec => []RestartLimit
<1>1. Types /\ LimitInv => RestartLimit
  <2> SUFFICES ASSUME Types, LimitInv, NEW c \in Cells PROVE made[c] <= 1 + MaxRestarts
    BY DEF RestartLimit
  <2>1. IsFiniteSet(Pending(c)) /\ made[c] + Cardinality(Pending(c)) <= 1 + MaxRestarts
    BY DEF LimitInv, Room
  <2>2. Cardinality(Pending(c)) \in Nat
    BY <2>1, FS_CardinalityType
  <2>3. made[c] \in Nat /\ MaxRestarts \in Nat
    BY TreeAssumption DEF Types, ObjectsTyped
  <2> QED
    BY <2>1, <2>2, <2>3
<1>2. Init => LifeInv /\ Types /\ LimitInv
  BY LifeInvInitially, TypesInitially, LimitInitially
<1>3. LifeInv /\ Types /\ LimitInv /\ [Next]_vars => LifeInv' /\ Types' /\ LimitInv'
  BY LifeInvInductive, TypesInductive, LimitInductive
<1> QED
  BY <1>1, <1>2, <1>3, PTL DEF Spec

=============================================================================
