------------------------ MODULE VirtualRegistryProofs ------------------------
(* Proofs about VirtualRegistry, for any number of calls, keys and names. *)
EXTENDS VirtualRegistry, TLAPS

Inside(c) == pc[c] \in {"starting", "putting"}

\* A call that has begun has a key; one that waits for its lock or holds it, a lock.
Bound ==
    \A c \in Activators : /\ pc[c] # "new" => key[c] \in Keys
                          /\ pc[c] = "waiting" \/ Inside(c) => lock[c] \in Activators

LEMMA TypeInductive == TypeOK /\ Bound /\ [Next]_vars => TypeOK'
<1> SUFFICES ASSUME TypeOK, Bound, [Next]_vars PROVE TypeOK'
  OBVIOUS
<1> USE RegistryAssumption DEF TypeOK, Bound, Inside, calls, tables, Calls, Goes, Leave
<1>1. ASSUME NEW c \in Activators, NEW k \in Keys, FindsActive(c, k) PROVE TypeOK'
  BY <1>1 DEF FindsActive
<1>2. ASSUME NEW c \in Activators, NEW k \in Keys, Activates(c, k) PROVE TypeOK'
  <2>1. LockFor(c, k) \in Activators
    BY DEF LockFor
  <2> QED
    BY <1>2, <2>1 DEF Activates, SpawnsUnder
<1>3. ASSUME NEW c \in Activators, LockGranted(c) PROVE TypeOK'
  <2>1. CASE Rechecks(key[c])
    BY <1>3, <2>1 DEF LockGranted
  <2>2. CASE ~Rechecks(key[c])
    BY <1>3, <2>2 DEF LockGranted, SpawnsUnder
  <2> QED
    BY <2>1, <2>2
<1>4. ASSUME NEW c \in Activators, StartOk(c) PROVE TypeOK'
  BY <1>4 DEF StartOk, Recorded
<1>5. ASSUME NEW c \in Activators, StartFails(c) \/ PutReturns(c) \/ PutFails(c) PROVE TypeOK'
  <2>1. CASE StartFails(c)
    BY <2>1 DEF StartFails
  <2>2. CASE PutReturns(c)
    BY <2>2 DEF PutReturns, Recorded
  <2>3. CASE PutFails(c)
    BY <2>3 DEF PutFails
  <2> QED
    BY <1>5, <2>1, <2>2, <2>3
<1>6. ASSUME NEW d \in Deactivators, Deactivation(d) PROVE TypeOK'
  BY <1>6 DEF Deactivation, Deactivate, JoinReturns, Alive
<1>7. ASSUME NEW i \in Activators, Stops(i) \/ Ends(i) PROVE TypeOK'
  BY <1>7 DEF Stops, Ends
<1>8. ASSUME NEW i \in Activators, Watch(i) PROVE TypeOK'
  BY <1>8 DEF Watch, WatcherDeletes, WatcherCleans, DeleteFails, Forget
<1>9. CASE UNCHANGED vars
  BY <1>9 DEF vars
<1> QED
  BY <1>1, <1>2, <1>3, <1>4, <1>5, <1>6, <1>7, <1>8, <1>9 DEF Next, Activation

LEMMA BoundInductive == TypeOK /\ Bound /\ [Next]_vars => Bound'
<1> SUFFICES ASSUME TypeOK, Bound, [Next]_vars PROVE Bound'
  OBVIOUS
<1> USE RegistryAssumption DEF TypeOK, Bound, Inside, calls, tables, Calls, Goes
<1>1. ASSUME NEW c \in Activators, NEW k \in Keys, FindsActive(c, k) PROVE Bound'
  BY <1>1 DEF FindsActive
<1>2. ASSUME NEW c \in Activators, NEW k \in Keys, Activates(c, k) PROVE Bound'
  <2>1. LockFor(c, k) \in Activators
    BY DEF LockFor
  <2> QED
    BY <1>2, <2>1 DEF Activates, SpawnsUnder
<1>3. ASSUME NEW c \in Activators, LockGranted(c) PROVE Bound'
  BY <1>3 DEF LockGranted, SpawnsUnder
<1>4. ASSUME NEW c \in Activators, StartOk(c) PROVE Bound'
  BY <1>4 DEF StartOk, Recorded
<1>5. ASSUME NEW c \in Activators, StartFails(c) \/ PutReturns(c) \/ PutFails(c) PROVE Bound'
  BY <1>5 DEF StartFails, PutReturns, PutFails, Recorded
<1>6. ASSUME NEW d \in Deactivators, Deactivation(d) PROVE Bound'
  BY <1>6 DEF Deactivation, Deactivate, JoinReturns
<1>7. ASSUME NEW i \in Activators, Stops(i) \/ Ends(i) \/ Watch(i) PROVE Bound'
  BY <1>7 DEF Stops, Ends, Watch, WatcherDeletes, WatcherCleans, DeleteFails
<1>8. CASE UNCHANGED vars
  BY <1>8 DEF vars
<1> QED
  BY <1>1, <1>2, <1>3, <1>4, <1>5, <1>6, <1>7, <1>8 DEF Next, Activation

\* Every variable of the registry keeps its type; in particular a Lock that is
\* held is one that _locks.setdefault made.
THEOREM RegistryTyped == Spec => []TypeOK
<1>1. Init => TypeOK /\ Bound
  BY RegistryAssumption DEF Init, TypeOK, Bound, Inside, Calls
<1> QED
  BY <1>1, TypeInductive, BoundInductive, PTL DEF Spec

----------------------------------------------------------------------------
(* One running incarnation, until one has stopped.                         *)

\* An incarnation of k has stopped: its watcher may take the lock away.
Disturbed(k) == \E h \in Activators : key[h] = k /\ Over(h)

\* A Lock is held by every call inside its block, of which there is one.
LockInv ==
    /\ \A c \in Activators : Inside(c) => lock[c] \in held
    /\ \A c, d \in Activators : Inside(c) /\ Inside(d) /\ lock[c] = lock[d] => c = d

\* A call's progress, the cell it makes and the cell's watcher go together.
LifeInv ==
    \A c \in Activators : /\ pc[c] \in {"new", "waiting"} => life[c] = "none"
                          /\ life[c] = "starting" <=> pc[c] = "starting"
                          /\ watcher[c] = "deleting" => life[c] = "dead"

\* All calls for k use the lock in _locks, a running incarnation of k is in _active,
\* and none runs while another starts.
KeyInv(k) ==
    \A c \in Activators : key[c] = k =>
        /\ pc[c] = "waiting" \/ Inside(c) => lock[c] = locks[k]
        /\ life[c] = "live" => active[k] = c
        /\ life[c] = "starting" => \A i \in Activators : key[i] = k => life[i] # "live"

RegistryInv == LockInv /\ LifeInv /\ \A k \in Keys : Disturbed(k) \/ KeyInv(k)

LEMMA LockInvInductive == TypeOK /\ Bound /\ LockInv /\ [Next]_vars => LockInv'
<1> SUFFICES ASSUME TypeOK, Bound, LockInv, [Next]_vars PROVE LockInv'
  OBVIOUS
<1> USE RegistryAssumption DEF TypeOK, Bound, LockInv, Inside, calls, tables, Calls, Goes
<1>1. ASSUME NEW c \in Activators, NEW k \in Keys, FindsActive(c, k) PROVE LockInv'
  BY <1>1 DEF FindsActive
<1>2. ASSUME NEW c \in Activators, NEW k \in Keys, Activates(c, k) PROVE LockInv'
  <2> DEFINE l == LockFor(c, k)
  <2>1. lock' = [lock EXCEPT ![c] = l]
    BY <1>2 DEF Activates
  <2>2. CASE Free(l) /\ SpawnsUnder(c, k, l)
    <3>1. held' = held \cup {l} /\ l \notin held /\ pc' = [pc EXCEPT ![c] = "starting"]
      BY <2>2 DEF Free, SpawnsUnder
    <3> HIDE DEF l
    <3> QED
      BY <2>1, <3>1
  <2>3. CASE Goes(c, "waiting") /\ UNCHANGED held
    BY <2>1, <2>3 DEF LockFor
  <2> QED
    BY <1>2, <2>2, <2>3 DEF Activates
<1>3. ASSUME NEW c \in Activators, LockGranted(c) PROVE LockInv'
  BY <1>3 DEF LockGranted, SpawnsUnder
<1>4. ASSUME NEW c \in Activators, StartOk(c) PROVE LockInv'
  <2>1. UNCHANGED lock /\ Inside(c)
    BY <1>4 DEF StartOk
  <2>2. CASE Goes(c, "putting") /\ UNCHANGED held
    BY <2>1, <2>2
  <2>3. CASE Recorded(c)
    BY <2>1, <2>3 DEF Recorded, Leave
  <2> QED
    BY <1>4, <2>2, <2>3 DEF StartOk
<1>5. ASSUME NEW c \in Activators, StartFails(c) \/ PutReturns(c) \/ PutFails(c) PROVE LockInv'
  BY <1>5 DEF StartFails, PutReturns, PutFails, Recorded, Leave
<1>6. ASSUME NEW d \in Deactivators, Deactivation(d) PROVE LockInv'
  BY <1>6 DEF Deactivation, Deactivate, JoinReturns
<1>7. ASSUME NEW i \in Activators, Stops(i) \/ Ends(i) \/ Watch(i) PROVE LockInv'
  BY <1>7 DEF Stops, Ends, Watch, WatcherDeletes, WatcherCleans, DeleteFails
<1>8. CASE UNCHANGED vars
  BY <1>8 DEF vars
<1> QED
  BY <1>1, <1>2, <1>3, <1>4, <1>5, <1>6, <1>7, <1>8 DEF Next, Activation

LEMMA LifeInvInductive == TypeOK /\ LifeInv /\ [Next]_vars => LifeInv'
<1> SUFFICES ASSUME TypeOK, LifeInv, [Next]_vars PROVE LifeInv'
  OBVIOUS
<1> USE RegistryAssumption DEF TypeOK, LifeInv, calls, tables, Calls, Goes
<1>1. ASSUME NEW c \in Activators, NEW k \in Keys, FindsActive(c, k) PROVE LifeInv'
  BY <1>1 DEF FindsActive
<1>2. ASSUME NEW c \in Activators, NEW k \in Keys, Activates(c, k) PROVE LifeInv'
  BY <1>2 DEF Activates, SpawnsUnder
<1>3. ASSUME NEW c \in Activators, LockGranted(c) PROVE LifeInv'
  BY <1>3 DEF LockGranted, SpawnsUnder
<1>4. ASSUME NEW c \in Activators, StartOk(c) PROVE LifeInv'
  BY <1>4 DEF StartOk, Recorded
<1>5. ASSUME NEW c \in Activators, StartFails(c) \/ PutReturns(c) \/ PutFails(c) PROVE LifeInv'
  BY <1>5 DEF StartFails, PutReturns, PutFails, Recorded
<1>6. ASSUME NEW d \in Deactivators, Deactivation(d) PROVE LifeInv'
  BY <1>6 DEF Deactivation, Deactivate, JoinReturns
<1>7. ASSUME NEW i \in Activators, Stops(i) \/ Ends(i) \/ Watch(i) PROVE LifeInv'
  BY <1>7 DEF Stops, Ends, Watch, WatcherDeletes, WatcherCleans, DeleteFails
<1>8. CASE UNCHANGED vars
  BY <1>8 DEF vars
<1> QED
  BY <1>1, <1>2, <1>3, <1>4, <1>5, <1>6, <1>7, <1>8 DEF Next, Activation

LEMMA KeyInvInductive ==
    ASSUME TypeOK, Bound, LockInv, LifeInv, [Next]_vars, NEW q \in Keys,
           Disturbed(q) \/ KeyInv(q)
    PROVE  Disturbed(q)' \/ KeyInv(q)'
<1> USE RegistryAssumption DEF TypeOK, calls, tables, Calls
<1>1. CASE Disturbed(q)
  <2>1. PICK h \in Activators : key[h] = q /\ Over(h)
    BY <1>1 DEF Disturbed
  <2>2. key'[h] = q /\ Over(h)'
    BY <2>1 DEF Over, LifeInv, Next, Activation, FindsActive, Activates, LockGranted, SpawnsUnder, Goes,
       StartOk, StartFails, PutReturns, PutFails, Recorded, Deactivation, Deactivate,
       JoinReturns, Stops, Ends, Watch, WatcherDeletes, WatcherCleans, DeleteFails, vars
  <2> QED
    BY <2>2 DEF Disturbed
<1>2. CASE ~Disturbed(q) /\ KeyInv(q)
  <2> USE <1>2 DEF KeyInv, Inside, Bound, LifeInv, Goes
  \* A step of an incarnation of q leads out of the case; its watcher sleeps.
  <2>0. \A i \in Activators : key[i] = q => life[i] \notin {"stopping", "dead"}
    BY DEF Disturbed, Over
  <2>1. ASSUME NEW c \in Activators, NEW k \in Keys, FindsActive(c, k)
        PROVE  Disturbed(q)' \/ KeyInv(q)'
    BY <2>1 DEF FindsActive
  <2>2. ASSUME NEW c \in Activators, NEW k \in Keys, NEW l, SpawnsUnder(c, k, l),
               pc[c] \in {"new", "waiting"}, key'[c] = k, lock'[c] = locks'[q] \/ k # q,
               ~Alive(active[k]),
               \A d \in Activators \ {c} : key'[d] = key[d] /\ lock'[d] = lock[d],
               \A d \in Activators \ {c} :
                   key[d] = q /\ (pc[d] = "waiting" \/ Inside(d)) => lock[d] = locks'[q]
        PROVE  KeyInv(q)'
    <3>1. /\ life' = [life EXCEPT ![c] = "starting"] /\ pc' = [pc EXCEPT ![c] = "starting"]
          /\ active' = [active EXCEPT ![k] = None]
      BY <2>2 DEF SpawnsUnder
    <3>2. k = q => \A i \in Activators : key[i] = q => life[i] # "live"
      BY <2>2 DEF Alive
    <3> QED
      BY <2>2, <3>1, <3>2
  <2>3. ASSUME NEW c \in Activators, NEW k \in Keys, Activates(c, k)
        PROVE  KeyInv(q)'
    <3>1. /\ key' = [key EXCEPT ![c] = k] /\ lock' = [lock EXCEPT ![c] = LockFor(c, k)]
          /\ locks' = [locks EXCEPT ![k] = LockFor(c, k)]
          /\ pc[c] = "new" /\ life[c] = "none" /\ ~Alive(active[k])
      BY <2>3 DEF Activates
    <3>2. \A d \in Activators \ {c} :
             key[d] = q /\ (pc[d] = "waiting" \/ Inside(d)) => lock[d] = locks'[q]
      BY <3>1 DEF LockFor
    <3>3. CASE SpawnsUnder(c, k, LockFor(c, k))
      BY <2>2, <3>1, <3>2, <3>3
    <3>4. CASE Goes(c, "waiting") /\ UNCHANGED <<active, life>>
      BY <3>1, <3>2, <3>4
    <3> QED
      BY <2>3, <3>3, <3>4 DEF Activates
  <2>4. ASSUME NEW c \in Activators, LockGranted(c) PROVE KeyInv(q)'
    <3>1. pc[c] = "waiting" /\ UNCHANGED <<key, lock, locks>>
      BY <2>4 DEF LockGranted
    <3>2. CASE SpawnsUnder(c, key[c], lock[c]) /\ ~Rechecks(key[c])
      BY <2>2, <3>1, <3>2 DEF Rechecks
    <3>3. CASE Goes(c, "returned") /\ UNCHANGED <<active, life>>
      BY <3>1, <3>3
    <3> QED
      BY <2>4, <3>2, <3>3 DEF LockGranted
  <2>5. ASSUME NEW c \in Activators, StartOk(c) PROVE KeyInv(q)'
    <3>1. /\ pc[c] = "starting" /\ life' = [life EXCEPT ![c] = "live"]
          /\ active' = [active EXCEPT ![key[c]] = c] /\ UNCHANGED <<key, lock, locks>>
          /\ pc' \in {[pc EXCEPT ![c] = "putting"], [pc EXCEPT ![c] = "returned"]}
      BY <2>5 DEF StartOk, Recorded
    <3>2. key[c] = q => \A d \in Activators \ {c} : key[d] = q => ~Running(d)
      BY <3>1 DEF Running, LockInv
    <3> QED
      BY <3>1, <3>2 DEF Running
  <2>6. ASSUME NEW c \in Activators, StartFails(c) \/ PutReturns(c) \/ PutFails(c)
        PROVE  KeyInv(q)'
    BY <2>6 DEF StartFails, PutReturns, PutFails, Recorded
  <2>7. ASSUME NEW d \in Deactivators, Deactivation(d) PROVE KeyInv(q)'
    BY <2>7 DEF Deactivation, Deactivate, JoinReturns
  <2>8. ASSUME NEW i \in Activators, Stops(i) \/ Ends(i) PROVE Disturbed(q)' \/ KeyInv(q)'
    <3>1. CASE key[i] = q
      BY <2>8, <3>1 DEF Stops, Ends, Disturbed, Over
    <3>2. CASE key[i] # q
      BY <2>8, <3>2 DEF Stops, Ends
    <3> QED
      BY <3>1, <3>2
  <2>9. ASSUME NEW i \in Activators, Watch(i) PROVE KeyInv(q)'
    BY <2>0, <2>9 DEF Watch, WatcherDeletes, WatcherCleans, DeleteFails, Forget
  <2>10. CASE UNCHANGED vars
    BY <2>10 DEF vars
  <2> QED
    BY <2>1, <2>3, <2>4, <2>5, <2>6, <2>7, <2>8, <2>9, <2>10 DEF Next, Activation
<1> QED
  BY <1>1, <1>2

\* As long as no incarnation of a key has stopped, at most one runs, however many
\* calls compete for the key and however many starts fail.
THEOREM SingleUntilStopAlways == Spec => []SingleUntilStop
<1>1. Init => TypeOK /\ Bound /\ RegistryInv
  <2> SUFFICES ASSUME Init PROVE TypeOK /\ Bound /\ RegistryInv
    OBVIOUS
  <2>1. TypeOK /\ Bound /\ LockInv /\ LifeInv
    BY RegistryAssumption DEF Init, TypeOK, Bound, Inside, Calls, LockInv, LifeInv
  <2>2. \A k \in Keys : KeyInv(k)
    BY RegistryAssumption DEF Init, Calls, KeyInv
  <2> QED
    BY <2>1, <2>2 DEF RegistryInv
<1>2. TypeOK /\ Bound /\ RegistryInv /\ [Next]_vars => RegistryInv'
  BY LockInvInductive, LifeInvInductive, KeyInvInductive DEF RegistryInv
<1>3. TypeOK /\ Bound /\ RegistryInv => SingleUntilStop
  <2> SUFFICES ASSUME TypeOK, Bound, RegistryInv, NEW i \in Activators, NEW j \in Activators,
                      Running(i), Running(j), key[i] = key[j], i # j, ~Disturbed(key[i])
               PROVE  FALSE
    BY DEF SingleUntilStop, Disturbed
  <2>1. key[i] \in Keys
    BY DEF RegistryInv, LifeInv, Bound, Running
  <2>2. KeyInv(key[i])
    BY <2>1 DEF RegistryInv
  <2> QED
    BY <2>2 DEF RegistryInv, KeyInv, LifeInv, LockInv, Inside, Running
<1> QED
  BY <1>1, <1>2, <1>3, TypeInductive, BoundInductive, PTL DEF Spec

----------------------------------------------------------------------------
(* Nothing is left of a key that is at rest: every entry of a table is the *)
(* business of a call or a watcher that is not through with its key.       *)

\* A call that has not returned, or whose watcher has not cleaned up.
Open(c) == \/ pc[c] \in {"waiting", "starting", "putting", "raised"}
           \/ watcher[c] \in {"watching", "deleting", "failed"}

\* An incarnation was spawned by this call.
Spawned(c) == pc[c] \notin {"new", "waiting"}

\* _active and _root_cells name the call that owns the entry; a record is owned by
\* a watcher of its key, a Lock by any call of its key.
OwnerInv ==
    /\ \A c \in Activators : ~Spawned(c) => watcher[c] = "none"
    /\ \A k \in Keys : active[k] # None =>
          key[active[k]] = k /\ Spawned(active[k]) /\ Open(active[k])
    /\ \A n \in Names : roots[n] # None =>
          NameOf[key[roots[n]]] = n /\ Spawned(roots[n]) /\ Open(roots[n])
    /\ \A k \in known : \E c \in Activators :
          key[c] = k /\ watcher[c] \in {"watching", "deleting", "failed"}
    /\ \A k \in Keys : locks[k] # None =>
          \E c \in Activators : key[c] = k /\ Open(c)

LEMMA OwnerInvInductive == TypeOK /\ Bound /\ LifeInv /\ OwnerInv /\ [Next]_vars => OwnerInv'
<1> SUFFICES ASSUME TypeOK, Bound, LifeInv, OwnerInv, [Next]_vars PROVE OwnerInv'
  OBVIOUS
<1> USE RegistryAssumption DEF TypeOK, Bound, Inside, OwnerInv, Open, Spawned, calls, tables, Calls, Goes
\* A call that begins owned nothing: what its key is makes no difference yet.
<1>0. ASSUME NEW c \in Activators, pc[c] = "new"
      PROVE  /\ ~Open(c)
             /\ \A k \in Keys : active[k] # c
             /\ \A n \in Names : roots[n] # c
  <2>1. watcher[c] = "none" /\ ~Spawned(c) /\ c # None
    BY <1>0
  <2> QED
    BY <1>0, <2>1
<1>1. ASSUME NEW c \in Activators, NEW k \in Keys, FindsActive(c, k) PROVE OwnerInv'
  <2>1. /\ pc[c] = "new" /\ key' = [key EXCEPT ![c] = k]
        /\ pc' = [pc EXCEPT ![c] = "returned"] /\ UNCHANGED <<tables, watcher>>
    BY <1>1 DEF FindsActive
  <2>2. \A e \in Activators \ {c} : key'[e] = key[e] /\ pc'[e] = pc[e]
    BY <2>1
  <2>3. \A e \in Activators : Open(e) => Open(e)' /\ key'[e] = key[e]
    BY <1>0, <2>1, <2>2
  <2>4. \A j \in known : \E e \in Activators :
           key'[e] = j /\ watcher'[e] \in {"watching", "deleting", "failed"}
    BY <2>1, <2>3
  <2>5. \A j \in Keys : locks[j] # None => \E e \in Activators : key'[e] = j /\ Open(e)'
    BY <2>3
  <2> QED
    BY <1>0, <2>1, <2>2, <2>4, <2>5
<1>2. ASSUME NEW c \in Activators, NEW k \in Keys, Activates(c, k) PROVE OwnerInv'
  <2>1. /\ pc[c] = "new" /\ key' = [key EXCEPT ![c] = k] /\ UNCHANGED <<known, watcher>>
        /\ locks' = [locks EXCEPT ![k] = LockFor(c, k)]
        /\ pc' \in {[pc EXCEPT ![c] = "starting"], [pc EXCEPT ![c] = "waiting"]}
    BY <1>2 DEF Activates, SpawnsUnder
  <2>2. \A e \in Activators \ {c} : key'[e] = key[e] /\ pc'[e] = pc[e]
    BY <2>1
  <2>3. \A e \in Activators : Open(e) => Open(e)' /\ key'[e] = key[e]
    BY <1>0, <2>1, <2>2
  <2>4. \A j \in known : \E e \in Activators :
           key'[e] = j /\ watcher'[e] \in {"watching", "deleting", "failed"}
    BY <2>1, <2>3
  <2>5. key'[c] = k /\ Open(c)'
    BY <2>1
  <2>6. \A j \in Keys : locks'[j] # None => \E e \in Activators : key'[e] = j /\ Open(e)'
    BY <2>1, <2>3, <2>5
  <2>7. CASE SpawnsUnder(c, k, LockFor(c, k))
    BY <1>0, <2>1, <2>2, <2>4, <2>6, <2>7 DEF SpawnsUnder
  <2>8. CASE Goes(c, "waiting") /\ UNCHANGED <<active, roots>>
    BY <1>0, <2>1, <2>2, <2>4, <2>6, <2>8
  <2> QED
    BY <1>2, <2>7, <2>8 DEF Activates
<1>3. ASSUME NEW c \in Activators, LockGranted(c) PROVE OwnerInv'
  <2>1. pc[c] = "waiting" /\ UNCHANGED <<key, locks, known, watcher>>
    BY <1>3 DEF LockGranted
  <2>2. CASE SpawnsUnder(c, key[c], lock[c])
    BY <2>1, <2>2 DEF SpawnsUnder
  <2>3. CASE Rechecks(key[c]) /\ Goes(c, "returned") /\ UNCHANGED <<active, roots>>
    \* The call found somebody else's incarnation: its owner keeps the Lock in use.
    <3> DEFINE i == active[key[c]]
    <3>1. i # None /\ i \in Activators /\ key[i] = key[c] /\ i # c /\ Open(i)
      BY <2>1, <2>3 DEF Rechecks, Alive
    <3> QED
      BY <2>1, <2>3, <3>1
  <2> QED
    BY <1>3, <2>2, <2>3 DEF LockGranted
<1>4. ASSUME NEW c \in Activators, StartOk(c) PROVE OwnerInv'
  <2>1. /\ pc[c] = "starting" /\ active' = [active EXCEPT ![key[c]] = c]
        /\ UNCHANGED <<key, locks, roots>>
    BY <1>4 DEF StartOk
  <2>2. CASE Goes(c, "putting") /\ UNCHANGED <<known, watcher>>
    BY <2>1, <2>2
  <2>3. CASE Recorded(c)
    BY <2>1, <2>3 DEF Recorded
  <2> QED
    BY <1>4, <2>2, <2>3 DEF StartOk
<1>5. ASSUME NEW c \in Activators, StartFails(c) \/ PutFails(c) PROVE OwnerInv'
  BY <1>5 DEF StartFails, PutFails
<1>6. ASSUME NEW c \in Activators, PutReturns(c) PROVE OwnerInv'
  BY <1>6 DEF PutReturns, Recorded
<1>7. ASSUME NEW d \in Deactivators, Deactivation(d) PROVE OwnerInv'
  BY <1>7 DEF Deactivation, Deactivate, JoinReturns
<1>8. ASSUME NEW i \in Activators, Stops(i) \/ Ends(i) PROVE OwnerInv'
  BY <1>8 DEF Stops, Ends
<1>9. ASSUME NEW i \in Activators, WatcherDeletes(i) \/ DeleteFails(i) PROVE OwnerInv'
  BY <1>9 DEF WatcherDeletes, DeleteFails
<1>10. ASSUME NEW i \in Activators, WatcherCleans(i) PROVE OwnerInv'
  \* Whatever this watcher owned goes with it; the other keys are left alone.
  BY <1>10 DEF WatcherCleans, Forget
<1>11. CASE UNCHANGED vars
  BY <1>11 DEF vars
<1>12. ASSUME NEW c \in Activators, Activation(c) PROVE OwnerInv'
  BY <1>1, <1>2, <1>3, <1>4, <1>5, <1>6, <1>12 DEF Activation
<1>13. ASSUME NEW i \in Activators, Watch(i) PROVE OwnerInv'
  BY <1>9, <1>10, <1>13 DEF Watch
<1> HIDE DEF OwnerInv
<1> QED
  BY <1>7, <1>8, <1>11, <1>12, <1>13 DEF Next

\* The registry and the system forget a key once every call for it has returned and
\* every incarnation is dead and cleaned up after, however calls, stops and
\* watchers of successive incarnations overlapped.
THEOREM RegistryForgets == Spec => []NothingLeaks
<1>1. Init => TypeOK /\ Bound /\ LifeInv /\ OwnerInv
  BY RegistryAssumption
  DEF Init, TypeOK, Bound, Inside, Calls, LifeInv, OwnerInv
<1>2. TypeOK /\ OwnerInv => NothingLeaks
  <2> SUFFICES ASSUME TypeOK, OwnerInv, NEW k \in Keys, AtRest(k)
               PROVE  /\ active[k] = None /\ locks[k] = None /\ k \notin known
                      /\ roots[NameOf[k]] = None \/ key[roots[NameOf[k]]] # k
    BY DEF NothingLeaks
  <2>1. \A c \in Activators : key[c] = k => ~Open(c)
    BY DEF AtRest, Open, Calls
  <2>2. NameOf[k] \in Names
    BY RegistryAssumption
  <2> QED
    BY <2>1, <2>2, RegistryAssumption DEF OwnerInv, TypeOK, Open
<1> QED
  BY <1>1, <1>2, TypeInductive, BoundInductive, LifeInvInductive, OwnerInvInductive, PTL DEF Spec

=============================================================================
