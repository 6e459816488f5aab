------------------------------ MODULE FlowRun -------------------------------
(* flow/interpreter.py at work: the tasks it awaits, the parallel combinators   *)
(* of core/composable_future.py, and an ephemeral actor for every agent. One    *)
(* step is what the event loop runs between two suspensions.                    *)
EXTENDS FlowMeaning

CONSTANT Programs    \* the flows that may be run

VARIABLES
    flow,
    main,        \* what the caller awaits, a tree of tasks and the frames they run
    loose,       \* tasks nobody awaits, and names left in _root_cells
    cancels      \* how often the caller's task has been cancelled

vars == <<flow, main, loose, cancels>>

Input == <<"in">>

(* Terms; an operator on them yields the term it leaves and what comes loose.   *)

Over(o)      == [at |-> "over", out |-> o]
New(f, v)    == [at |-> "new", flow |-> f, in |-> v]
Ghost        == [at |-> "ghost"]
Spawning(f, v) == [at |-> "spawn", id |-> f.id, own |-> f.op, in |-> v]
Nothing      == [is |-> "none", v |-> <<>>]

Only(t) == [to |-> t, loose |-> <<>>]

IsOver(t) == t.at = "over"
OnlyGhosts(s) == \A i \in DOMAIN s : s[i] = Ghost

Fork(f, In(_)) ==
    [at |-> "par", kind |-> f.op, kids |-> [i \in 1..Len(f.kids) |-> New(f.kids[i], In(i))],
     order |-> <<>>, seen |-> 0, draining |-> FALSE, cancelling |-> FALSE, out |-> Nothing]

RECURSIVE Enter(_, _), Resume(_, _, _, _), Moves(_), Cancel(_)

\* The frame of f, awaiting what r is: the code after the await runs at once.
Under(f, v, i, r) ==
    IF IsOver(r.to)
    THEN LET n == Resume(f, v, i, r.to.out) IN [n EXCEPT !.loose = r.loose \o @]
    ELSE [r EXCEPT !.to = [at |-> "frame", flow |-> f, in |-> v, i |-> i, inner |-> @]]

Enter(f, v) ==
    CASE f.op \in {"agent", "ask"}  -> Only(Spawning(f, v))
      [] f.op = "pure"              -> Only(Over(Apply(f.f, v)))
      [] f.op = "zip"               -> Only(Fork(f, LAMBDA i: Part(v, i)))
      [] f.op \in {"race", "first"} -> Only(Fork(f, LAMBDA i: v))
      [] f.op \in Derived           -> Enter(Expand(f), v)
      [] f.op = "loop_with_state"   -> Under(f, v, 1, Enter(f.src, Append(v, "init")))
      [] OTHER                      -> Under(f, v, 1, Enter(f.src, v))

FallbackInputs(v, o) == o.v   \* a mutant
FallbackInput(v, o) == v

OnError(f, v, o) ==
    CASE f.op = "recover"      -> Only(Over(Apply(f.f, o.v)))
      [] f.op = "recover_with" -> Enter(f.next, o.v)
      [] f.op = "fallback_to"  -> Enter(f.next, FallbackInput(v, o))
      [] OTHER                 -> Only(Over(o))

OnBranch(f, o) ==
    IF Says(o.v) \in DOMAIN f.cases THEN Enter(f.cases[Says(o.v)], o.v)
    ELSE Only(Over(Error(Append(o.v, "KeyError"))))

OnIteration(f, v, i, o) ==
    CASE Says(o.v) = "yes" -> Only(Over(o))
      [] Says(o.v) = "no"  -> IF i = f.max THEN Only(Over(Error(Append(o.v, "max_iter"))))
                              ELSE Under(f, v, i + 1, Enter(f.src, o.v))
      [] OTHER             -> Only(Over(Error(Append(o.v, "TypeError"))))

Tap(name, o) == Only(Over(IF name = "raise" THEN Apply(name, o.v) ELSE o))

OnValue(f, v, i, o) ==
    CASE f.op = "map"       -> Only(Over(Apply(f.f, o.v)))
      [] f.op = "flat_map"  -> Enter(f.next, o.v)
      [] f.op = "branch"    -> OnBranch(f, o)
      [] f.op = "branch_on" -> Enter(IF Yes(o.v) THEN f.next ELSE f.other, o.v)
      [] f.op = "divert_to" -> [to |-> Over(o),
                                loose |-> IF Yes(o.v) THEN <<New(f.next, o.v)>> ELSE <<>>]
      [] f.op = "and_then"  -> Tap(f.f, o)
      [] f.op = "filter"    -> Only(Over(IF Yes(o.v) THEN o ELSE Error(Append(o.v, "filter"))))
      [] f.op = "validate"  -> Only(Over(Validate(f.n, o.v)))
      [] f.op \in {"loop", "loop_with_state"} -> OnIteration(f, v, i, o)
      [] OTHER              -> Only(Over(o))

\* The methods of a future: a function that raises inside transform's try is
\* handed to the other one.
FutureOnError(f, o) ==
    CASE f.fn = "recover"     -> Only(Over(Apply(f.f, o.v)))
      [] f.fn = "transform"   -> Only(Over(Apply(f.g, o.v)))
      [] f.fn \in {"recover_with", "fallback_to"} -> Enter(f.next, o.v)
      [] f.fn = "on_complete" -> Tap(f.g, o)
      [] OTHER                -> Only(Over(o))

FutureOnValue(f, o) ==
    CASE f.fn = "transform"   -> LET r == Apply(f.f, o.v)
                                 IN IF IsValue(r) THEN Only(Over(r)) ELSE FutureOnError(f, r)
      [] f.fn = "map"         -> Only(Over(Apply(f.f, o.v)))
      [] f.fn = "flat_map"    -> Enter(f.next, o.v)
      [] f.fn \in {"and_then", "on_complete"} -> Tap(f.f, o)
      [] OTHER                -> Only(Over(o))

\* except Exception: a CancelledError passes through every frame.
Resume(f, v, i, o) ==
    IF o.is = "cancelled" THEN Only(Over(o))
    ELSE IF f.op = "future" THEN IF IsValue(o) THEN FutureOnValue(f, o) ELSE FutureOnError(f, o)
    ELSE IF o.is = "error" THEN OnError(f, v, o)
    ELSE OnValue(f, v, i, o)

(* An agent's ephemeral actor: spawned, asked, stopped and joined.              *)

Stopping(t, o, busy, hit) ==
    [at |-> "stop", id |-> t.id, own |-> t.own, out |-> o, busy |-> busy, hit |-> hit]

NeverInterrupts(t) == FALSE    \* a mutant
\* An actor's own ask interrupts a child that is late or whose caller is cancelled.
Interrupts(t) == t.own = "ask"

\* Stopping is graceful: an actor that is handling a message finishes it first,
\* and one that never does is never joined.
Joined(t) == ~t.busy \/ t.hit \/ Agents[t.id].says # {}

LeafMoves(t) ==
    CASE t.at = "spawn" ->
             IF Agents[t.id].starts THEN {Only([t EXCEPT !.at = "ask"])}
             ELSE {Only(Over(o)) : o \in Unstarted(t.id)}
      [] t.at = "ask" ->
             {Only(Stopping(t, o, FALSE, FALSE)) : o \in Answers(t.id, t.in)}
             \cup {Only(Stopping(t, o, TRUE, Interrupts(t))) : o \in Late(t.id)}
      [] t.at = "stop" -> IF Joined(t) THEN {Only(Over(t.out))} ELSE {}

\* join awaits the actor's own task: that is what a cancellation of it cancels,
\* and join absorbs the error. A spawn that is cancelled leaves its name behind.
CancelLeaf(t) ==
    CASE t.at = "spawn" -> [to |-> Over(Cancelled), loose |-> <<Ghost>>]
      [] t.at = "ask"   -> Only(Stopping(t, Cancelled, TRUE, Interrupts(t)))
      [] t.at = "stop"  -> Only([t EXCEPT !.hit = TRUE])

(* Children of gather and asyncio.wait, in the order they finish.               *)

Pending(t)  == SelectSeq(t.kids, LAMBDA k: ~IsOver(k))
AllOver(t)  == Pending(t) = <<>>
Failed(t)   == SelectSeq(t.order, LAMBDA i: ~IsValue(t.kids[i].out))
OutOf(t, i) == t.kids[i].out

Settle(t, ks) ==
    [t EXCEPT !.kids = ks,
              !.order = @ \o SelectSeq([i \in DOMAIN ks |-> i],
                                       LAMBDA i: IsOver(ks[i]) /\ ~IsOver(t.kids[i]))]

CancelKids(t) ==
    LET rs == [i \in DOMAIN t.kids |-> Cancel(t.kids[i])]
    IN [to    |-> Settle(t, [i \in DOMAIN rs |-> rs[i].to]),
        loose |-> FlattenSeq([i \in DOMAIN rs |-> rs[i].loose])]

Leave(t, o) == [to |-> Over(o), loose |-> Pending(t)]

\* _cancel_and_wait, without the wait: a mutant.
DrainNot(t, o) == LET r == CancelKids(t)
                  IN [to |-> Over(o), loose |-> r.loose \o Pending(r.to)]
Drain(t, o) == LET r == CancelKids(t)
               IN [r EXCEPT !.to.draining = TRUE, !.to.cancelling = FALSE, !.to.out = o]

Drained(t) == {Only(Over(IF t.cancelling THEN Cancelled ELSE t.out)) : x \in {AllOver(t)} \cap {TRUE}}

\* gather: the first failure, or a cancelled child, which is not an Exception and
\* leaves the others behind.
ZipWakes(t) ==
    IF Failed(t) # <<>>
    THEN LET o == OutOf(t, Head(Failed(t)))
         IN {IF o.is = "error" THEN Drain(t, o) ELSE Leave(t, o)}
    ELSE IF ~AllOver(t) THEN {}
    ELSE {Only(Over(IF t.cancelling THEN Cancelled
                    ELSE Value(Tuple([i \in DOMAIN t.kids |-> OutOf(t, i).v]))))}

RaceWakes(t) == {IF AllOver(t) /\ IsValue(OutOf(t, i)) THEN Only(Over(OutOf(t, i)))
                 ELSE Drain(t, OutOf(t, i)) : i \in ToSet(t.order)}

\* Each time it is woken, first_completed looks at what is newly done.
FirstWakes(t) ==
    LET fresh == ToSet(SubSeq(t.order, t.seen + 1, Len(t.order)))
        wins  == {i \in fresh : IsValue(OutOf(t, i))}
        keep(i) == [t EXCEPT !.seen = Len(t.order), !.out = IF @ = Nothing THEN OutOf(t, i) ELSE @]
    IN IF wins # {}
       THEN {IF AllOver(t) THEN Only(Over(OutOf(t, i))) ELSE Drain(t, OutOf(t, i)) : i \in wins}
       ELSE {IF AllOver(t) THEN Only(Over(keep(i).out)) ELSE Only(keep(i)) : i \in fresh}

Wakes(t) == IF t.draining THEN Drained(t)
            ELSE CASE t.kind = "zip"  -> ZipWakes(t)
                   [] t.kind = "race" -> RaceWakes(t)
                   [] OTHER           -> FirstWakes(t)

KidMoves(t, i) == {[r EXCEPT !.to = Settle(t, [t.kids EXCEPT ![i] = r.to])] : r \in Moves(t.kids[i])}

Moves(t) ==
    CASE t.at = "new"   -> {Enter(t.flow, t.in)}
      [] t.at \in {"spawn", "ask", "stop"} -> LeafMoves(t)
      [] t.at = "frame" -> {Under(t.flow, t.in, t.i, r) : r \in Moves(t.inner)}
      [] t.at = "par"   -> Wakes(t) \cup UNION {KidMoves(t, i) : i \in DOMAIN t.kids}
      [] OTHER          -> {}

\* A gather hands the cancellation to its children, asyncio.wait does not; one
\* that has its result already is woken with the error instead.
CancelPar(t) ==
    IF (t.draining \/ t.kind = "zip") /\ ~AllOver(t) /\ (t.draining \/ Failed(t) = <<>>)
    THEN LET r == CancelKids(t) IN [r EXCEPT !.to.cancelling = TRUE]
    ELSE Leave(t, Cancelled)

Cancel(t) ==
    CASE t.at = "new"   -> Only(Over(Cancelled))
      [] t.at \in {"spawn", "ask", "stop"} -> CancelLeaf(t)
      [] t.at = "frame" -> Under(t.flow, t.in, t.i, Cancel(t.inner))
      [] t.at = "par"   -> CancelPar(t)
      [] OTHER          -> Only(t)

(* The machine.                                                                *)

Init == /\ flow \in Programs
        /\ main = New(flow, Input)
        /\ loose = <<>> /\ cancels = 0

Step == \E r \in Moves(main) :
            /\ main' = r.to /\ loose' = loose \o r.loose
            /\ UNCHANGED <<flow, cancels>>

\* A task nobody awaits; the wrapper of a side flow logs its error.
Aside == \E i \in DOMAIN loose : \E r \in Moves(loose[i]) :
             /\ loose' = (IF IsOver(r.to) THEN RemoveAt(loose, i)
                          ELSE [loose EXCEPT ![i] = r.to]) \o r.loose
             /\ UNCHANGED <<flow, main, cancels>>

\* The caller cancels its task, or its own timeout does.
CancelRun == /\ cancels = 0 /\ ~IsOver(main)
             /\ cancels' = 1
             /\ LET r == Cancel(main) IN main' = r.to /\ loose' = loose \o r.loose
             /\ UNCHANGED flow

Next == Step \/ Aside \/ CancelRun

Spec == Init /\ [][Next]_vars /\ WF_vars(Step) /\ WF_vars(Aside)

(* Properties.                                                                 *)

Depth(f) == {n \in Nodes(f) : n.op \in Parallel}

\* No parallel combinator inside another, and no side flow.
Flat(f) == \A n \in Nodes(f) :
               /\ n.op # "divert_to"
               /\ n.op \in Parallel => \A k \in ToSet(n.kids) : Depth(k) = {}

\* A flow answers what its shape means whatever finishes first, times out or is
\* cancelled underneath, and is cancelled only when its caller cancels it.
Agrees == IsOver(main) =>
              IF main.out = Cancelled THEN cancels > 0 ELSE main.out \in Means(flow, Input)

\* zip, sequence and race return only when the children they cancel have stopped:
\* their actors do not work on after the flow's answer.
NothingRuns == IsOver(main) /\ cancels = 0 /\ Flat(flow) => OnlyGhosts(loose)

\* Every flow ends and so does all it started, when handlers end or, for an
\* actor's own children, may be interrupted.
Ends == <>[](IsOver(main) /\ OnlyGhosts(loose))
=============================================================================
