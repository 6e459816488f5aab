----------------------------- MODULE AskContract -----------------------------
(***************************************************************************)
(* What an actor promises to those who ask it, whatever its mailbox, its   *)
(* supervision and its shutdown do: at most one handling of each question, *)
(* one at a time, at most one outcome for each asker, and two outcomes a   *)
(* caller can rely on.  An answer comes from the handler.  A refusal       *)
(* (MailboxFullError, ActorStoppedError) means the handler never saw the   *)
(* question and never will: it is safe to ask again.                       *)
(***************************************************************************)

CONSTANTS
    Asks,
    Nobody     \* not an ask

VARIABLES
    st,        \* per ask: "idle", "open", "answered", "refused" or "expired"
    serving,   \* the ask the handler works on, or Nobody
    served,    \* the asks the handler has been given
    closed     \* no question will be taken any more

vars == <<st, serving, served, closed>>

Init ==
    /\ st = [a \in Asks |-> "idle"]
    /\ serving = Nobody
    /\ served = {}
    /\ closed = FALSE

Open(a) ==
    /\ st[a] = "idle"
    /\ ~closed
    /\ st' = [st EXCEPT ![a] = "open"]
    /\ UNCHANGED <<serving, served, closed>>

Refuse(a) ==
    /\ st[a] = "idle"
    /\ st' = [st EXCEPT ![a] = "refused"]
    /\ UNCHANGED <<serving, served, closed>>

\* The asker gives up; its question may still be handled.
Expire(a) ==
    /\ st[a] = "open"
    /\ st' = [st EXCEPT ![a] = "expired"]
    /\ UNCHANGED <<serving, served, closed>>

\* The handler ends with what it serves and goes on to n (or to nothing).
Answered == [a \in Asks |-> IF a = serving /\ st[a] = "open" THEN "answered" ELSE st[a]]

Turn(n) ==
    /\ ~closed
    /\ n # Nobody => n \notin served /\ st[n] \in {"open", "expired"}
    /\ st' = Answered
    /\ serving' = n
    /\ served' = served \cup ({n} \cap Asks)
    /\ UNCHANGED closed

\* The actor ends: it answers what it serves or abandons it, and refuses every
\* question it did not take.
Close ==
    /\ ~closed
    /\ \E s \in {st, Answered} :
          st' = [a \in Asks |-> IF s[a] = "open" /\ a \notin served THEN "refused" ELSE s[a]]
    /\ serving' = Nobody
    /\ closed' = TRUE
    /\ UNCHANGED served

Next ==
    \/ \E a \in Asks : Open(a) \/ Refuse(a) \/ Expire(a)
    \/ \E n \in Asks \cup {Nobody} : Turn(n)
    \/ Close

Spec == Init /\ [][Next]_vars

----------------------------------------------------------------------------
TypeOK ==
    /\ st \in [Asks -> {"idle", "open", "answered", "refused", "expired"}]
    /\ serving \in Asks \cup {Nobody}
    /\ served \subseteq Asks
    /\ closed \in BOOLEAN

\* A refused question was never handled, and an answered one was.
OutcomesTruthful ==
    \A a \in Asks : /\ st[a] = "refused" => a \notin served
                    /\ st[a] = "answered" => a \in served

\* After the end only a question whose handler was cut off is left open.
ClosedSettled == closed => \A a \in Asks : st[a] = "open" => a \in served
=============================================================================
