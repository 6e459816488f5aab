----------------------------- MODULE FreeMonad -----------------------------
(* Workflows as data (core/frees.py, core/actor_f.py) and the loops that run   *)
(* them: the trampolines of core/interpreter.py, and run_free of core/frees.py. *)
(* Two workflows of different systems share the cached interpreter.             *)
EXTENDS Naturals, Sequences, FiniteSets

CONSTANTS Flows,     \* concurrent calls of a runner
          Programs,  \* the terms each workflow may be
          Runners,   \* "live", "mock" (async), "sync", "loop" (frees.run_free)
          Values,    \* what a workflow computes with: references, answers, results
          None,      \* None
          Answers,   \* what an actor answers, which actor is spawned
          Size       \* the most continuations on a path through a program

VARIABLES
    program,   \* what the caller of each runner passed
    runner,    \* which runner it called
    current,   \* the term the runner is at
    stack,     \* its continuations, the innermost last
    pc,        \* "start", "fast", "run", "done" or "failed"
    result,
    system,    \* the system each workflow's operations are performed on
    log,       \* the operations performed, in order
    cached     \* the system of _cached_interpreter

vars == <<program, runner, current, stack, pc, result, system, log, cached>>

(* Terms.                                                                      *)

Kinds == {"spawn", "tell", "ask", "stop", "get_ref"}

Operation == [kind : Kinds, arg : Values]

Pure(v)       == [is |-> "pure", value |-> v]
Suspend(op)   == [is |-> "suspend", op |-> op]
FlatMap(t, f) == [is |-> "flatMap", thunk |-> t, f |-> f]

\* A continuation is a function from values to terms: one that lifts its value,
\* one that performs an operation on it, and the closure of merge_flatmaps and
\* run_free that goes on with g after f.
Return     == [v \in Values |-> Pure(v)]
Do(kind)   == [v \in Values |-> Suspend([kind |-> kind, arg |-> v])]
Both(f, g) == [v \in Values |-> FlatMap(f[v], g)]

Leaves == [is : {"pure"}, value : Values] \cup [is : {"suspend"}, op : Operation]

\* The terms with at most n continuations on any path: i of them in the thunk,
\* and the rest from the continuation on.
Terms[n \in Nat] ==
    IF n = 0 THEN Leaves
    ELSE Leaves \cup
         {t \in [is : {"flatMap"}, thunk : Terms[n - 1], f : [Values -> Terms[n - 1]]] :
             \E i \in 0..(n - 1) :
                 t.thunk \in Terms[i] /\ t.f \in [Values -> Terms[n - 1 - i]]}

ASSUME Bounded ==
    /\ Size \in Nat
    /\ None \in Values
    /\ Answers \in [Operation -> Values]
    /\ DOMAIN Programs = Flows
    /\ \A w \in Flows : Programs[w] \subseteq Terms[Size]
    /\ Runners \subseteq {"live", "mock", "sync", "loop"}

\* What an operation returns; a spawned actor and an answer depend on the argument.
Reply(op) == IF op.kind \in {"tell", "stop"} THEN None ELSE Answers[op]

\* get_ref needs an actor, and MockInterpreter awaits the plain value of
\* MockRef._ask, after the message is noted: both raise.
Raises(r, op) == op.kind = "get_ref" \/ (r = "mock" /\ op.kind = "ask")

Effects(op) == IF op.kind = "get_ref" THEN <<>> ELSE <<op>>

\* A mutant: the outer continuation first.
ReassociateSwapped(t, f, g) == FlatMap(t, Both(g, f))

\* (t >>= f) >>= g as t >>= (f >>= g).
Reassociate(t, f, g) == FlatMap(t, Both(f, g))

Merge[t \in Terms[Size]] ==   \* merge_flatmaps
    IF t.is # "flatMap" THEN t
    ELSE LET left == Merge[t.thunk]
         IN  IF left.is = "flatMap" THEN Reassociate(left.thunk, left.f, t.f)
             ELSE FlatMap(left, t.f)

Returns(v) == [ops |-> <<>>, raised |-> FALSE, value |-> v]
RaisedNow  == [ops |-> <<>>, raised |-> TRUE, value |-> None]

After(ops, m) == [m EXCEPT !.ops = ops \o @]

\* What a program means: the operations it performs, and its outcome.
Meaning(r) ==
    LET means[t \in Terms[Size]] ==
            IF t.is = "pure" THEN Returns(t.value)
            ELSE IF t.is = "suspend"
            THEN After(Effects(t.op),
                       IF Raises(r, t.op) THEN RaisedNow ELSE Returns(Reply(t.op)))
            ELSE LET first == means[t.thunk]
                 IN  IF first.raised THEN first
                     ELSE After(first.ops, means[t.f[first.value]])
    IN  means

(* The runners.                                                                *)

Init ==
    /\ program \in [Flows -> UNION {Programs[w] : w \in Flows}]
    /\ \A w \in Flows : program[w] \in Programs[w]
    /\ runner \in [Flows -> Runners]
    /\ \/ current = program
       \/ current = [w \in Flows |-> Merge[program[w]]]
    /\ stack = [w \in Flows |-> <<>>]
    /\ pc = [w \in Flows |-> "start"]
    /\ result = [w \in Flows |-> None]
    /\ system = [w \in Flows |-> "none"]
    /\ log = [w \in Flows |-> <<>>]
    /\ cached = "none"

\* A mutant: made once.
InterpreterOnce(w) == IF cached = "none" THEN w ELSE cached

\* The cached interpreter is replaced if it is of another system.
InterpreterFor(w) == IF cached # w THEN w ELSE cached

\* run_free: a single operation other than get_ref needs no trampoline; any other
\* program takes the cached interpreter. The mock runners make an interpreter of their own.
Start(w) ==
    /\ pc[w] = "start"
    /\ LET fast == /\ runner[w] = "live"
                   /\ current[w].is = "suspend" /\ current[w].op.kind # "get_ref"
       IN  /\ pc' = [pc EXCEPT ![w] = IF fast THEN "fast" ELSE "run"]
           /\ cached' = IF runner[w] = "live" /\ ~fast THEN InterpreterFor(w) ELSE cached
           /\ system' = [system EXCEPT ![w] =
                            IF runner[w] = "live" /\ ~fast THEN cached' ELSE w]
    /\ UNCHANGED <<program, runner, current, stack, result, log>>

Finish(w, v) == pc' = [pc EXCEPT ![w] = "done"] /\ result' = [result EXCEPT ![w] = v]

Perform(w, op) ==
    log' = [log EXCEPT ![w] = @ \o [i \in DOMAIN Effects(op) |-> <<system[w], Effects(op)[i]>>]]

FastPath(w) ==
    /\ pc[w] = "fast"
    /\ Perform(w, current[w].op)
    /\ Finish(w, Reply(current[w].op))
    /\ UNCHANGED <<program, runner, current, stack, system, cached>>

At(w, shape) == pc[w] = "run" /\ current[w].is = shape

\* _run_trampoline on a FlatMap: push the continuation, go into the thunk.
Push(w) ==
    /\ At(w, "flatMap") /\ runner[w] # "loop"
    /\ stack' = [stack EXCEPT ![w] = Append(@, current[w].f)]
    /\ current' = [current EXCEPT ![w] = @.thunk]
    /\ UNCHANGED <<program, runner, pc, result, system, log, cached>>

\* A mutant: the continuation is read and not removed.
PoppedNever(w) == stack[w]

\* What is left on the stack once its top is applied.
Popped(w) == SubSeq(stack[w], 1, Len(stack[w]) - 1)

\* ... on a Pure: pop the innermost continuation, or return.
Pop(w) ==
    /\ At(w, "pure")
    /\ IF stack[w] = <<>>
       THEN Finish(w, current[w].value) /\ UNCHANGED <<stack, current>>
       ELSE LET top == Len(stack[w])
            IN  /\ current' = [current EXCEPT ![w] = stack[w][top][@.value]]
                /\ stack' = [stack EXCEPT ![w] = Popped(w)]
                /\ UNCHANGED <<pc, result>>
    /\ UNCHANGED <<program, runner, system, log, cached>>

\* ... on a Suspend: await the interpreter, then apply a continuation or return.
Execute(w) ==
    /\ At(w, "suspend")
    /\ ~Raises(runner[w], current[w].op)
    /\ Perform(w, current[w].op)
    /\ LET r == Pure(Reply(current[w].op))
           top == Len(stack[w])
       IN  IF stack[w] = <<>>
           THEN Finish(w, r.value) /\ UNCHANGED <<stack, current>>
           ELSE /\ current' = [current EXCEPT ![w] = FlatMap(r, stack[w][top])]
                /\ stack' = [stack EXCEPT ![w] = Popped(w)]
                /\ UNCHANGED <<pc, result>>
    /\ UNCHANGED <<program, runner, system, cached>>

\* run_free of core/frees.py, one round of its while loop.
LoopInterprets(w) ==
    /\ At(w, "flatMap") /\ runner[w] = "loop" /\ current[w].thunk.is = "suspend"
    /\ ~Raises("loop", current[w].thunk.op)
    /\ Perform(w, current[w].thunk.op)
    /\ current' = [current EXCEPT ![w] = FlatMap(Pure(Reply(@.thunk.op)), @.f)]
    /\ UNCHANGED <<program, runner, stack, pc, result, system, cached>>

LoopReassociates(w) ==
    /\ At(w, "flatMap") /\ runner[w] = "loop" /\ current[w].thunk.is = "flatMap"
    /\ current' = [current EXCEPT ![w] = Reassociate(@.thunk.thunk, @.thunk.f, @.f)]
    /\ UNCHANGED <<program, runner, stack, pc, result, system, log, cached>>

\* "Pure or already-resolved: just continue" makes the same term again.
LoopContinues(w) ==
    /\ At(w, "flatMap") /\ runner[w] = "loop" /\ current[w].thunk.is = "pure"
    /\ current' = [current EXCEPT ![w] = FlatMap(@.thunk, @.f)]
    /\ UNCHANGED <<program, runner, stack, pc, result, system, log, cached>>

Raising(w) ==
    LET t == IF runner[w] = "loop" /\ current[w].is = "flatMap"
             THEN current[w].thunk ELSE current[w]
    IN  pc[w] = "run" /\ t.is = "suspend" /\ Raises(runner[w], t.op) /\ Perform(w, t.op)

\* A mutant: the exception is caught and the operation tried again.
FailRetries(w) == Raising(w) /\ UNCHANGED vars

\* The interpreter raises, and the runner with it.
Fail(w) ==
    /\ Raising(w)
    /\ pc' = [pc EXCEPT ![w] = "failed"]
    /\ UNCHANGED <<program, runner, current, stack, result, system, cached>>

Step(w) ==
    \/ Start(w) \/ FastPath(w) \/ Push(w) \/ Pop(w) \/ Execute(w)
    \/ LoopInterprets(w) \/ LoopReassociates(w) \/ LoopContinues(w) \/ Fail(w)

Next == \E w \in Flows : Step(w)

Spec == Init /\ [][Next]_vars /\ \A w \in Flows : WF_vars(Step(w))

(* Properties.                                                                 *)

Ops(w) == [i \in DOMAIN log[w] |-> log[w][i][2]]

\* The term a runner still has to evaluate: current with its stack around it.
Wrap(t, fs) ==
    LET wrapped[n \in 0..Len(fs)] ==
            IF n = 0 THEN t ELSE FlatMap(wrapped[n - 1], fs[Len(fs) + 1 - n])
    IN  wrapped[Len(fs)]

\* What a runner has yet to do.
Remaining(w) ==
    CASE pc[w] = "done"   -> Returns(result[w])
      [] pc[w] = "failed" -> RaisedNow
      [] OTHER            -> Meaning(runner[w])[Wrap(current[w], stack[w])]

\* At every step of every runner, also of a program that merge_flatmaps has
\* rewritten, what has been performed and what is left make up the meaning of the
\* caller's program: no operation is lost, repeated, reordered or given a wrong
\* argument, and the outcome is right (the laws in the docstring of Free).
KeepsMeaning ==
    \A w \in Flows : After(Ops(w), Remaining(w)) = Meaning(runner[w])[program[w]]

\* A workflow acts on the system it was given, although workflows of several
\* systems replace the one cached interpreter under each other (run_free of
\* core/interpreter.py).
OwnSystem == \A w \in Flows : \A i \in DOMAIN log[w] : log[w][i][1] = w

\* Every workflow that is run by a trampoline ends.
TrampolineEnds == \A w \in Flows : runner[w] # "loop" => <>(pc[w] \in {"done", "failed"})
=============================================================================
