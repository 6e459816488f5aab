--------------------------- MODULE VirtualRegistry ---------------------------
(***************************************************************************)
(* VirtualActorRegistry (core/virtual.py): activation of actors on demand, *)
(* one asyncio.Lock per key, and the watchers that clean up after an actor *)
(* that stopped.  A call is one tell/ask/ask_stream/deactivate of the      *)
(* registry; the incarnation and the Lock it creates carry the call's name.*)
(***************************************************************************)
EXTENDS Naturals, FiniteSets

CONSTANTS
    Activators,    \* calls of tell(), ask(), ask_stream()
    Deactivators,  \* calls of deactivate()
    Keys,          \* "<class>:<actor id>"
    Names,         \* "v:<actor id>", the names in ActorSystem._root_cells
    NameOf,        \* the root name of a key: it leaves the class out
    None,
    MayFail        \* what may raise: "start" (on_started), "put", "delete"

ASSUME RegistryAssumption ==
    /\ Activators \cap Deactivators = {}
    /\ None \notin Activators \cup Keys
    /\ NameOf \in [Keys -> Names]
    /\ MayFail \subseteq {"start", "put", "delete"}

VARIABLES
    pc,        \* per call: where it is suspended
    key,       \* per call: the key it was made for
    lock,      \* per activation: the Lock of its "async with"
    held,      \* the Locks that are locked
    target,    \* per deactivate(): the incarnation it joins
    active,    \* _active
    locks,     \* _locks
    roots,     \* ActorSystem._root_cells
    known,     \* the keys in the RegistryStore
    life,      \* per incarnation: its cell
    watcher,   \* per incarnation: its _watch_deactivation task
    asked      \* incarnations that deactivate() sent a _Stop

calls  == <<pc, key, lock, target>>
tables == <<active, locks, roots, known>>
vars   == <<calls, held, tables, life, watcher, asked>>

Calls == Activators \cup Deactivators

Init ==
    /\ pc = [c \in Calls |-> "new"]
    /\ key = [c \in Calls |-> None]
    /\ lock = [c \in Activators |-> None]
    /\ held = {}
    /\ target = [d \in Deactivators |-> None]
    /\ active = [k \in Keys |-> None]
    /\ locks = [k \in Keys |-> None]
    /\ roots = [n \in Names |-> None]
    /\ known = {}
    /\ life = [i \in Activators |-> "none"]
    /\ watcher = [i \in Activators |-> "none"]
    /\ asked = {}

\* ref.is_alive of an entry of _active: the cell is not stopped.
Alive(i) == i # None /\ life[i] = "live"

Goes(c, place) == pc' = [pc EXCEPT ![c] = place]

----------------------------------------------------------------------------
(* _ensure_active.                                                         *)

\* Nobody holds the Lock or is queued for it.
Free(l) == l \notin held /\ \A d \in Activators : ~(pc[d] = "waiting" /\ lock[d] = l)

\* Mutation of Leave: the lock is kept by a call that leaves.
LeaveLocked(l) == UNCHANGED held

\* "async with" releases the lock however its block is left.
Leave(l) == held' = held \ {l}

\* Forget the stale entry and the stale root cell, and spawn up to on_started.
SpawnsUnder(c, k, l) ==
    /\ active' = [active EXCEPT ![k] = None]
    /\ roots' = [roots EXCEPT ![NameOf[k]] = c]
    /\ life' = [life EXCEPT ![c] = "starting"]
    /\ held' = held \cup {l}
    /\ Goes(c, "starting")

FindsActive(c, k) ==
    /\ pc[c] = "new"
    /\ Alive(active[k])
    /\ key' = [key EXCEPT ![c] = k]
    /\ Goes(c, "returned")
    /\ UNCHANGED <<lock, target, held, tables, life, watcher, asked>>

\* Mutation of LockFor: _locks.get(key), with no Lock made for a new key.
LockOrNone(c, k) == locks[k]

\* _locks.setdefault(key, Lock()).
LockFor(c, k) == IF locks[k] = None THEN c ELSE locks[k]

\* The slow path takes a free Lock without a suspension.
Activates(c, k) ==
    /\ pc[c] = "new"
    /\ ~Alive(active[k])
    /\ key' = [key EXCEPT ![c] = k]
    /\ LET l == LockFor(c, k)
       IN  /\ lock' = [lock EXCEPT ![c] = l]
           /\ locks' = [locks EXCEPT ![k] = l]
           /\ \/ /\ Free(l)
                 /\ SpawnsUnder(c, k, l)
              \/ /\ ~Free(l)
                 /\ Goes(c, "waiting")
                 /\ UNCHANGED <<active, roots, life, held>>
    /\ UNCHANGED <<target, known, watcher, asked>>

\* Mutation of Rechecks: no second look at _active under the Lock.
NeverRechecks(k) == FALSE

Rechecks(k) == Alive(active[k])

LockGranted(c) ==
    /\ pc[c] = "waiting"
    /\ lock[c] \notin held
    /\ \/ /\ Rechecks(key[c])
          /\ Goes(c, "returned")
          /\ UNCHANGED <<active, roots, life, held>>
       \/ /\ ~Rechecks(key[c])
          /\ SpawnsUnder(c, key[c], lock[c])
    /\ UNCHANGED <<key, lock, target, locks, known, watcher, asked>>

\* The record is written, the watcher started, the Lock released.
Recorded(c) ==
    /\ known' = known \cup {key[c]}
    /\ watcher' = [watcher EXCEPT ![c] = "watching"]
    /\ Leave(lock[c])
    /\ Goes(c, "returned")

\* store.put may suspend, or not (_InMemoryStore); so may delete below.
StartOk(c) ==
    /\ pc[c] = "starting"
    /\ life' = [life EXCEPT ![c] = "live"]
    /\ active' = [active EXCEPT ![key[c]] = c]
    /\ \/ /\ Goes(c, "putting")
          /\ UNCHANGED <<known, watcher, held>>
       \/ Recorded(c)
    /\ UNCHANGED <<key, lock, target, locks, roots, asked>>

\* spawn() deletes whatever cell has the name by now.
StartFails(c) ==
    /\ "start" \in MayFail
    /\ pc[c] = "starting"
    /\ life' = [life EXCEPT ![c] = "failed"]
    /\ roots' = [roots EXCEPT ![NameOf[key[c]]] = None]
    /\ Leave(lock[c])
    /\ Goes(c, "raised")
    /\ UNCHANGED <<key, lock, target, active, locks, known, watcher, asked>>

PutReturns(c) ==
    /\ pc[c] = "putting"
    /\ Recorded(c)
    /\ UNCHANGED <<key, lock, target, active, locks, roots, life, asked>>

\* The actor runs on, in _active, and no watcher was started.
PutFails(c) ==
    /\ "put" \in MayFail
    /\ pc[c] = "putting"
    /\ Leave(lock[c])
    /\ Goes(c, "raised")
    /\ UNCHANGED <<key, lock, target, tables, life, watcher, asked>>

Activation(c) ==
    \/ \E k \in Keys : FindsActive(c, k) \/ Activates(c, k)
    \/ LockGranted(c) \/ StartOk(c) \/ StartFails(c) \/ PutReturns(c) \/ PutFails(c)

----------------------------------------------------------------------------
(* Deactivation.                                                           *)

Deactivate(d, k) ==
    /\ pc[d] = "new"
    /\ key' = [key EXCEPT ![d] = k]
    /\ \/ /\ Alive(active[k])
          /\ asked' = asked \cup {active[k]}
          /\ target' = [target EXCEPT ![d] = active[k]]
          /\ Goes(d, "joining")
       \/ /\ ~Alive(active[k])
          /\ Goes(d, "returned")
          /\ UNCHANGED <<asked, target>>
    /\ UNCHANGED <<lock, held, tables, life, watcher>>

JoinReturns(d) ==
    /\ pc[d] = "joining"
    /\ life[target[d]] = "dead"
    /\ Goes(d, "returned")
    /\ UNCHANGED <<key, lock, target, held, tables, life, watcher, asked>>

\* Idle timeout, _Stop, failure limit or cancellation: the cell's own business.
Stops(i) ==
    /\ life[i] = "live"
    /\ life' = [life EXCEPT ![i] = "stopping"]
    /\ UNCHANGED <<calls, held, tables, watcher, asked>>

\* The run task is over; the cell stays in _root_cells.
Ends(i) ==
    /\ life[i] = "stopping"
    /\ life' = [life EXCEPT ![i] = "dead"]
    /\ UNCHANGED <<calls, held, tables, watcher, asked>>

\* Mutation of Forget: the root cell is left to the next activation.
ForgetNoRoot(k) ==
    /\ active' = [active EXCEPT ![k] = None]
    /\ locks' = [locks EXCEPT ![k] = None]
    /\ UNCHANGED roots

\* The watcher's clean-up goes by key and by name, whoever owns them by now.
Forget(k) ==
    /\ active' = [active EXCEPT ![k] = None]
    /\ roots' = [roots EXCEPT ![NameOf[k]] = None]
    /\ locks' = [locks EXCEPT ![k] = None]

WatcherDeletes(i) ==
    /\ watcher[i] = "watching"
    /\ life[i] = "dead"
    /\ watcher' = [watcher EXCEPT ![i] = "deleting"]
    /\ UNCHANGED <<calls, held, tables, life, asked>>

WatcherCleans(i) ==
    /\ watcher[i] = "deleting" \/ (watcher[i] = "watching" /\ life[i] = "dead")
    /\ known' = known \ {key[i]}
    /\ Forget(key[i])
    /\ watcher' = [watcher EXCEPT ![i] = "done"]
    /\ UNCHANGED <<calls, held, life, asked>>

\* RegistryStore.delete raises: the task dies before it cleans up.
DeleteFails(i) ==
    /\ "delete" \in MayFail
    /\ watcher[i] = "deleting"
    /\ watcher' = [watcher EXCEPT ![i] = "failed"]
    /\ UNCHANGED <<calls, held, tables, life, asked>>

Watch(i) == WatcherDeletes(i) \/ WatcherCleans(i) \/ DeleteFails(i)

Deactivation(d) == (\E k \in Keys : Deactivate(d, k)) \/ JoinReturns(d)

Next ==
    \/ \E c \in Activators : Activation(c)
    \/ \E d \in Deactivators : Deactivation(d)
    \/ \E i \in Activators : Stops(i) \/ Ends(i) \/ Watch(i)

Spec == Init /\ [][Next]_vars

\* Hooks are timed by the cell, the store answers, an actor that has a _Stop in its
\* mailbox stops; an idle actor need not.
Fairness ==
    /\ \A c \in Activators :
          /\ WF_vars(LockGranted(c))
          /\ WF_vars(StartOk(c) \/ StartFails(c))
          /\ WF_vars(PutReturns(c) \/ PutFails(c))
          /\ WF_vars(c \in asked /\ Stops(c))
          /\ WF_vars(Ends(c))
          /\ WF_vars(Watch(c))
    /\ \A d \in Deactivators : WF_vars(JoinReturns(d))

FairSpec == Spec /\ Fairness

----------------------------------------------------------------------------
(* Properties.                                                             *)

TypeOK ==
    /\ pc \in [Calls -> {"new", "waiting", "starting", "putting", "joining",
                         "returned", "raised"}]
    /\ key \in [Calls -> Keys \cup {None}]
    /\ lock \in [Activators -> Activators \cup {None}]
    /\ held \subseteq Activators
    /\ target \in [Deactivators -> Activators \cup {None}]
    /\ active \in [Keys -> Activators \cup {None}]
    /\ locks \in [Keys -> Activators \cup {None}]
    /\ roots \in [Names -> Activators \cup {None}]
    /\ known \subseteq Keys
    /\ life \in [Activators -> {"none", "starting", "live", "stopping", "dead", "failed"}]
    /\ watcher \in [Activators -> {"none", "watching", "deleting", "done", "failed"}]
    /\ asked \subseteq Activators

Running(i) == life[i] \in {"starting", "live"}
Over(i)    == life[i] \in {"stopping", "dead"}

\* "One lock per actor ID prevents double activation" (_ensure_active): no two
\* running incarnations of one key.
SingleActivation ==
    \A i, j \in Activators : Running(i) /\ Running(j) /\ key[i] = key[j] => i = j

\* What the lock does guarantee: as long as no incarnation of a key has stopped,
\* concurrent calls, failed starts among them, run at most one at a time.
SingleUntilStop ==
    \A i, j \in Activators :
        Running(i) /\ Running(j) /\ key[i] = key[j] /\ i # j
            => \E h \in Activators : key[h] = key[i] /\ Over(h)

\* When every call is over and every actor it activated is dead and watched to the
\* end, the registry and the system have forgotten the key: a registry that serves
\* many keys does not grow, unless start, put or delete failed.
AtRest(k) ==
    \A c \in Calls : key[c] = k =>
        /\ pc[c] = "returned"
        /\ c \in Activators => life[c] \in {"none", "dead"} /\ watcher[c] \in {"none", "done"}
NothingLeaks ==
    \A k \in Keys : AtRest(k) =>
        /\ active[k] = None /\ locks[k] = None /\ k \notin known
        /\ roots[NameOf[k]] = None \/ key[roots[NameOf[k]]] # k

\* Every call returns or raises: nobody waits for ever for a Lock whose holder
\* failed, or for an actor that was told to stop.
CallsReturn == \A c \in Calls : pc[c] # "new" ~> pc[c] \in {"returned", "raised"}
=============================================================================
