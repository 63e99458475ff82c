-------------------------------- MODULE KeyLock --------------------------------
(******************************************************************************)
(* lockRunnerOpt of runner.Manager: a sync.Map from keys to mutexes, built on *)
(* demand.  Every atomic operation on the map or on a mutex is a step.  An    *)
(* unlock that forgets (create:<containerName>, and Delete's runner id) takes *)
(* the mutex again with TryLock and removes the key, so that the map does not *)
(* grow for ever.                                                             *)
(******************************************************************************)
CONSTANTS
  Callers,     \* goroutines that call lockRunnerOpt
  Keys,        \* runner ids and create:<containerName>
  Mutexes,     \* *sync.Mutex values; one that nobody refers to is collected
  Forgetting,  \* key -> values of the parameter forget that its callers pass
  None

ASSUME LockOK ==
  /\ Forgetting \in [Keys -> SUBSET BOOLEAN]
  /\ None \notin Callers \cup Keys \cup Mutexes

VARIABLES
  table,       \* runnerLocks: key -> mutex
  holder,      \* mutex -> the caller that has it locked
  pc,          \* caller -> next step
  key, mu,     \* caller -> its key and the mutex it found for it
  forget       \* caller -> forget

vars == <<table, holder, pc, key, mu, forget>>

Init ==
  /\ table = [k \in Keys |-> None]
  /\ holder = [m \in Mutexes |-> None]
  /\ pc = [c \in Callers |-> "idle"]
  /\ key = [c \in Callers |-> None]
  /\ mu = [c \in Callers |-> None]
  /\ forget = [c \in Callers |-> FALSE]

Goto(c, label) == pc' = [pc EXCEPT ![c] = label]
Fresh == {m \in Mutexes : /\ \A k \in Keys : table[k] # m
                          /\ \A c \in Callers : mu[c] # m}

\* Slip: Store instead of LoadOrStore.
EnterStore(c, k) ==
  /\ pc[c] = "idle"
  /\ \E m \in Fresh : /\ table' = [table EXCEPT ![k] = m]
                      /\ mu' = [mu EXCEPT ![c] = m]
  /\ key' = [key EXCEPT ![c] = k]
  /\ \E f \in Forgetting[k] : forget' = [forget EXCEPT ![c] = f]
  /\ Goto(c, "waiting")
  /\ UNCHANGED holder

\* LoadOrStore: the mutex of the key, or a new one.
Enter(c, k) ==
  /\ pc[c] = "idle"
  /\ \E m \in IF table[k] = None THEN Fresh ELSE {table[k]} :
       /\ table' = [table EXCEPT ![k] = m]
       /\ mu' = [mu EXCEPT ![c] = m]
  /\ key' = [key EXCEPT ![c] = k]
  /\ \E f \in Forgetting[k] : forget' = [forget EXCEPT ![c] = f]
  /\ Goto(c, "waiting")
  /\ UNCHANGED holder

Lock(c) ==
  /\ pc[c] = "waiting" /\ holder[mu[c]] = None
  /\ holder' = [holder EXCEPT ![mu[c]] = c]
  /\ Goto(c, "holding")
  /\ UNCHANGED <<table, key, mu, forget>>

Done(c) ==
  /\ Goto(c, "idle")
  /\ key' = [key EXCEPT ![c] = None]
  /\ mu' = [mu EXCEPT ![c] = None]

\* Slip: every unlock forgets.
UnlockForgetting(c) ==
  /\ pc[c] = "holding"
  /\ holder' = [holder EXCEPT ![mu[c]] = None]
  /\ Goto(c, "unlocked") /\ UNCHANGED <<table, key, mu, forget>>

\* Slip: TryLock before the unlock, where it always fails.
UnlockAfterTry(c) ==
  /\ pc[c] = "holding"
  /\ holder' = [holder EXCEPT ![mu[c]] = None]
  /\ Done(c) /\ UNCHANGED <<table, forget>>

Unlock(c) ==
  /\ pc[c] = "holding"
  /\ holder' = [holder EXCEPT ![mu[c]] = None]
  /\ IF forget[c] THEN Goto(c, "unlocked") /\ UNCHANGED <<key, mu>> ELSE Done(c)
  /\ UNCHANGED <<table, forget>>

TryLock(c) ==
  /\ pc[c] = "unlocked"
  /\ \/ /\ holder[mu[c]] = None
        /\ holder' = [holder EXCEPT ![mu[c]] = c]
        /\ Goto(c, "forgetting") /\ UNCHANGED <<key, mu>>
     \/ holder[mu[c]] # None /\ UNCHANGED holder /\ Done(c)
  /\ UNCHANGED <<table, forget>>

\* runnerLocks.Delete(key): whatever mutex the key has by now.
Forget(c) ==
  /\ pc[c] = "forgetting"
  /\ table' = [table EXCEPT ![key[c]] = None]
  /\ Goto(c, "forgotten")
  /\ UNCHANGED <<holder, key, mu, forget>>

\* Slip: the mutex taken by TryLock stays locked.
ReleaseNothing(c) ==
  /\ pc[c] = "forgotten"
  /\ Done(c)
  /\ UNCHANGED <<table, holder, forget>>

Release(c) ==
  /\ pc[c] = "forgotten"
  /\ holder' = [holder EXCEPT ![mu[c]] = None]
  /\ Done(c)
  /\ UNCHANGED <<table, forget>>

Unlocking(c) == Unlock(c) \/ TryLock(c) \/ Forget(c) \/ Release(c)

Next ==
  \E c \in Callers : Lock(c) \/ Unlocking(c) \/ \E k \in Keys : Enter(c, k)

Spec == Init /\ [][Next]_vars

\* A handler ends (every wait of it has a deadline) and a mutex of Go hands the
\* lock to a starving waiter.
FairSpec ==
  /\ Spec
  /\ \A c \in Callers : WF_vars(Unlocking(c)) /\ SF_vars(Lock(c))

--------------------------------------------------------------------------------
TypeOK ==
  /\ table \in [Keys -> Mutexes \cup {None}]
  /\ holder \in [Mutexes -> Callers \cup {None}]
  /\ pc \in [Callers -> {"idle", "waiting", "holding", "unlocked", "forgetting",
                         "forgotten"}]
  /\ key \in [Callers -> Keys \cup {None}]
  /\ mu \in [Callers -> Mutexes \cup {None}]
  /\ forget \in [Callers -> BOOLEAN]

\* runnerLocks serializes the operations on one runner: never two callers in the
\* critical section of one key.
Exclusive ==
  \A c, d \in Callers :
    c # d /\ pc[c] = "holding" /\ pc[d] = "holding" => key[c] # key[d]

\* The keys that nobody forgets: those of runners that are not deleted.
Plain == {k \in Keys : Forgetting[k] = {FALSE}}

\* The same, of the keys that nobody forgets, whatever happens to the others.
PlainExclusive ==
  \A c, d \in Callers :
    c # d /\ pc[c] = "holding" /\ pc[d] = "holding" /\ key[c] \in Plain
      => key[c] # key[d]

\* Keys that every caller forgets are pruned: once everybody is done, the map
\* does not have them, in every race of unlock, TryLock and Delete.
Pruned ==
  (\A c \in Callers : pc[c] = "idle")
    => \A k \in Keys : Forgetting[k] = {TRUE} => table[k] = None

\* Every caller gets its lock, also while mutexes are forgotten and rebuilt.
EveryoneServed == \A c \in Callers : pc[c] = "waiting" ~> pc[c] = "holding"

\* The promise that the handlers build on, KeyedMutex, for the keys that nobody
\* forgets.
Phase(c) ==
  IF pc[c] \in {"waiting", "holding"} /\ key[c] \in Plain THEN pc[c] ELSE "idle"
Promise == INSTANCE KeyedMutex WITH
  Keys <- Plain,
  phase <- [c \in Callers |-> Phase(c)],
  wants <- [c \in Callers |-> IF Phase(c) = "idle" THEN None ELSE key[c]]
KeepsPromise == Promise!Spec

(* Why it holds: who waits for or holds a plain key has the mutex that the    *)
(* map has, and only the owner of a mutex ever unlocks it.                    *)
Bound(c) ==
  /\ pc[c] # "idle" => key[c] \in Keys /\ mu[c] \in Mutexes
  /\ pc[c] # "idle" /\ key[c] \in Plain =>
       pc[c] \in {"waiting", "holding"} /\ ~ forget[c] /\ table[key[c]] = mu[c]
  /\ pc[c] \in {"holding", "forgetting", "forgotten"} => holder[mu[c]] = c
LockInv == TypeOK /\ \A c \in Callers : Bound(c)

(* Why Pruned holds: a mutex serves one key, and as long as the map has it    *)
(* somebody is on the way to forget it, because a TryLock fails only when     *)
(* another caller of the same key has the mutex and is on that way too.       *)
OneKey ==
  /\ \A k, l \in Keys : table[k] # None /\ table[k] = table[l] => k = l
  /\ \A c \in Callers, k \in Keys : pc[c] # "idle" /\ mu[c] = table[k] => key[c] = k
  /\ \A c \in Callers : pc[c] = "forgotten" => table[key[c]] # mu[c]

Held ==
  \A m \in Mutexes : holder[m] # None =>
    mu[holder[m]] = m /\ pc[holder[m]] \in {"holding", "forgetting", "forgotten"}

Asked == \A c \in Callers : pc[c] # "idle" => forget[c] \in Forgetting[key[c]]

OnTheWay(k) ==
  \E c \in Callers : /\ mu[c] = table[k]
                     /\ pc[c] \in {"waiting", "holding", "unlocked", "forgetting"}

PruneInv ==
  /\ LockInv /\ OneKey /\ Held /\ Asked
  /\ \A k \in Keys : Forgetting[k] = {TRUE} /\ table[k] # None => OnTheWay(k)

================================================================================
