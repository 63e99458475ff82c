---------------------------- MODULE KeyLock_proofs ----------------------------
(* The map of mutexes of KeyLock is, for the keys that nobody forgets, the    *)
(* lock that the handlers expect (KeyedMutex), whatever is done to the other  *)
(* keys and for any number of callers, keys and mutexes.                      *)
EXTENDS KeyLock, TLAPS

LEMMA InitLockInv == Init => LockInv
BY LockOK DEF Init, LockInv, TypeOK, Bound

\* The parameter forget of a call with key k.
LEMMA Forgets ==
  ASSUME NEW k \in Keys, NEW f \in Forgetting[k]
  PROVE  f \in BOOLEAN /\ (k \in Plain => f = FALSE)
<1>1. Forgetting[k] \in SUBSET BOOLEAN
  BY LockOK
<1>2. f \in BOOLEAN
  BY <1>1, Zenon
<1>3. k \in Plain => Forgetting[k] = {FALSE}
  BY DEF Plain
<1>4. k \in Plain => f = FALSE
  BY <1>3, Zenon
<1> QED
  BY <1>2, <1>4

\* Steps keep the types.
LEMMA NextType == LockInv /\ [Next]_vars => TypeOK'
<1> SUFFICES ASSUME LockInv, [Next]_vars PROVE TypeOK'
  OBVIOUS
<1> USE DEF LockInv, TypeOK
<1>1. CASE UNCHANGED vars
  BY <1>1 DEF vars
<1>2. ASSUME NEW c \in Callers, NEW k \in Keys, Enter(c, k) PROVE TypeOK'
  <2>1. PICK m \in Mutexes : /\ table' = [table EXCEPT ![k] = m]
                             /\ mu' = [mu EXCEPT ![c] = m]
    BY <1>2 DEF Enter, Fresh
  <2>2. PICK f \in Forgetting[k] : forget' = [forget EXCEPT ![c] = f]
    BY <1>2 DEF Enter
  <2>3. f \in BOOLEAN
    BY Forgets
  <2> QED
    BY <1>2, <2>1, <2>2, <2>3 DEF Enter, Goto
<1>3. ASSUME NEW c \in Callers, Lock(c) PROVE TypeOK'
  BY <1>3 DEF Lock, Goto
<1>4. ASSUME NEW c \in Callers, Unlocking(c) PROVE TypeOK'
  <2>1. CASE Unlock(c)
    BY <2>1 DEF Unlock, Done, Goto
  <2>2. CASE TryLock(c)
    BY <2>2 DEF TryLock, Done, Goto
  <2>3. CASE Forget(c)
    BY <2>3 DEF Forget, Goto
  <2>4. CASE Release(c)
    BY <2>4 DEF Release, Done, Goto
  <2> QED
    BY <1>4, <2>1, <2>2, <2>3, <2>4 DEF Unlocking
<1> QED
  BY <1>1, <1>2, <1>3, <1>4 DEF Next

LEMMA EnterBound ==
  ASSUME LockInv, NEW c \in Callers, NEW k \in Keys, Enter(c, k), NEW d \in Callers
  PROVE  Bound(d)'
<1> USE DEF LockInv, TypeOK
<1>1. PICK m \in Mutexes : /\ table' = [table EXCEPT ![k] = m]
                           /\ mu' = [mu EXCEPT ![c] = m]
                           /\ table[k] = None \/ table[k] = m
  BY DEF Enter, Fresh
<1>2. PICK f \in Forgetting[k] : forget' = [forget EXCEPT ![c] = f]
  BY DEF Enter
<1>3. /\ key' = [key EXCEPT ![c] = k] /\ pc' = [pc EXCEPT ![c] = "waiting"]
      /\ holder' = holder
  BY DEF Enter, Goto
<1>4. CASE d = c
  <2>1. f \in BOOLEAN /\ (k \in Plain => f = FALSE)
    BY Forgets
  <2> QED
    BY <1>1, <1>2, <1>3, <1>4, <2>1 DEF Bound
<1>5. CASE d # c
  <2>1. Bound(d) /\ None \notin Mutexes
    BY LockOK
  <2> QED
    BY <1>1, <1>2, <1>3, <1>5, <2>1 DEF Bound
<1> QED
  BY <1>4, <1>5

\* A mutex is locked only when it is free and unlocked only by its holder.
LEMMA LockBound ==
  ASSUME LockInv, NEW c \in Callers, Lock(c) \/ TryLock(c), NEW d \in Callers
  PROVE  Bound(d)'
<1>1. Bound(c) /\ Bound(d) /\ TypeOK /\ None \notin Callers
  BY LockOK DEF LockInv
<1>2. CASE Lock(c)
  BY <1>1, <1>2 DEF TypeOK, Lock, Goto, Bound
<1>3. CASE TryLock(c)
  BY <1>1, <1>3 DEF TypeOK, TryLock, Done, Goto, Bound
<1> QED
  BY <1>2, <1>3

LEMMA UnlockBound ==
  ASSUME LockInv, NEW c \in Callers, Unlock(c) \/ Forget(c) \/ Release(c),
         NEW d \in Callers
  PROVE  Bound(d)'
<1>1. Bound(c) /\ Bound(d) /\ TypeOK
  BY DEF LockInv
<1>2. CASE Unlock(c)
  BY <1>1, <1>2 DEF TypeOK, Unlock, Done, Goto, Bound
<1>3. CASE Forget(c)
  BY <1>1, <1>3 DEF TypeOK, Forget, Goto, Bound
<1>4. CASE Release(c)
  BY <1>1, <1>4 DEF TypeOK, Release, Done, Goto, Bound
<1> QED
  BY <1>2, <1>3, <1>4

LEMMA NextLockInv == LockInv /\ [Next]_vars => LockInv'
<1> SUFFICES ASSUME LockInv, [Next]_vars PROVE LockInv'
  OBVIOUS
<1>1. TypeOK'
  BY NextType
<1>2. ASSUME NEW d \in Callers PROVE Bound(d)'
  <2>1. CASE UNCHANGED vars
    BY <2>1 DEF vars, LockInv, Bound
  <2> QED
    BY <2>1, EnterBound, LockBound, UnlockBound DEF Next, Unlocking
<1> QED
  BY <1>1, <1>2 DEF LockInv

\* The invariant of the lock, whoever forgets which of the other keys.
THEOREM LockInvariant == Spec => []LockInv
<1> QED
  BY InitLockInv, NextLockInv, PTL DEF Spec

LEMMA OwnersDiffer == LockInv => PlainExclusive
BY DEF LockInv, TypeOK, Bound, PlainExclusive

\* Mutual exclusion of lockRunner per runner, the lock of Patch, Recreate, Start,
\* Stop and Restart, as long as no Delete forgets that runner's key.
THEOREM PlainKeysExclude == Spec => []PlainExclusive
<1> QED
  BY OwnersDiffer, LockInvariant, PTL

-------------------------------------------------------------------------------
(* The refinement.  A caller of a plain key enters, is granted and leaves;    *)
(* every other step is invisible.                                             *)

Phases == [c \in Callers |-> Phase(c)]
Wants == [c \in Callers |-> IF Phase(c) = "idle" THEN None ELSE key[c]]

LEMMA InitPromise == Init => Promise!Init
BY DEF Init, Promise!Init, Phase

\* A step of c leaves every other caller's phase and key alone.
LEMMA Others ==
  ASSUME LockInv, NEW c \in Callers, Lock(c) \/ Unlocking(c) \/ \E k \in Keys : Enter(c, k),
         NEW d \in Callers, d # c
  PROVE  pc'[d] = pc[d] /\ key'[d] = key[d]
BY DEF LockInv, TypeOK, Lock, Unlocking, Unlock, TryLock, Forget, Release, Enter,
       Done, Goto

\* What a caller of a plain key does, as the abstract lock sees it.
LEMMA Visible ==
  ASSUME LockInv, NEW c \in Callers, NEW ph, NEW w,
         \A d \in Callers : d # c => pc'[d] = pc[d] /\ key'[d] = key[d],
         Phase(c)' = ph, w = IF ph = "idle" THEN None ELSE key'[c]
  PROVE  /\ Phases' = [Phases EXCEPT ![c] = ph]
         /\ Wants' = [Wants EXCEPT ![c] = w]
BY DEF Phases, Wants, Phase

LEMMA PromiseEnter ==
  ASSUME LockInv, NEW c \in Callers, NEW k \in Keys, Enter(c, k)
  PROVE  [Promise!Next]_Promise!vars
<1>1. /\ pc[c] = "idle" /\ pc'[c] = "waiting" /\ key'[c] = k
      /\ \A d \in Callers : d # c => pc'[d] = pc[d] /\ key'[d] = key[d]
  BY DEF Enter, Goto, LockInv, TypeOK
<1>2. CASE k \in Plain
  <2>1. Phase(c)' = "waiting" /\ Phases[c] = "idle"
    BY <1>1, <1>2 DEF Phase, Phases
  <2>2. /\ Phases' = [Phases EXCEPT ![c] = "waiting"]
        /\ Wants' = [Wants EXCEPT ![c] = k]
    BY <1>1, <2>1, Visible
  <2>3. Promise!Enter(c, k)
    BY <2>1, <2>2 DEF Promise!Enter, Phases, Wants
  <2> QED
    BY <1>2, <2>3 DEF Promise!Next
<1>3. CASE k \notin Plain
  <2>1. UNCHANGED <<Phases, Wants>>
    BY <1>1, <1>3 DEF Phase, Phases, Wants
  <2> QED
    BY <2>1 DEF Promise!vars, Phases, Wants
<1> QED
  BY <1>2, <1>3

LEMMA PromiseGrant ==
  ASSUME LockInv, LockInv', NEW c \in Callers, Lock(c)
  PROVE  [Promise!Next]_Promise!vars
<1>1. /\ pc[c] = "waiting" /\ pc'[c] = "holding" /\ key' = key
      /\ \A d \in Callers : d # c => pc'[d] = pc[d] /\ key'[d] = key[d]
  BY DEF Lock, Goto, LockInv, TypeOK
<1>2. CASE key[c] \in Plain
  <2>1. Phase(c)' = "holding" /\ Phases[c] = "waiting" /\ Wants[c] = key[c]
    BY <1>1, <1>2 DEF Phase, Phases, Wants
  <2>2. /\ Phases' = [Phases EXCEPT ![c] = "holding"]
        /\ Wants' = [Wants EXCEPT ![c] = key[c]]
    BY <1>1, <2>1, Visible
  <2>3. Wants' = Wants
    BY <2>1, <2>2 DEF Wants
  <2>4. ASSUME NEW d \in Callers, Phases[d] = "holding", Wants[d] = Wants[c]
        PROVE  FALSE
    <3>1. d # c /\ pc[d] = "holding" /\ key[d] = key[c] /\ key[d] \in Plain
      BY <2>1, <2>4 DEF Phases, Wants, Phase
    <3>2. PlainExclusive'
      BY OwnersDiffer, PTL
    <3>3. pc'[d] = "holding" /\ key'[d] = key'[c]
      BY <1>1, <3>1
    <3> QED
      BY <1>1, <3>1, <3>2, <3>3 DEF PlainExclusive
  <2>5. Promise!Grant(c)
    BY <2>1, <2>2, <2>3, <2>4 DEF Promise!Grant, Phases, Wants
  <2> QED
    BY <2>5 DEF Promise!Next
<1>3. CASE key[c] \notin Plain
  <2>1. UNCHANGED <<Phases, Wants>>
    BY <1>1, <1>3 DEF Phase, Phases, Wants
  <2> QED
    BY <2>1 DEF Promise!vars, Phases, Wants
<1> QED
  BY <1>2, <1>3

LEMMA PromiseLeave ==
  ASSUME LockInv, NEW c \in Callers, Unlocking(c)
  PROVE  [Promise!Next]_Promise!vars
<1>1. \A d \in Callers : d # c => pc'[d] = pc[d] /\ key'[d] = key[d]
  BY Others
<1>2. pc'[c] \notin {"waiting", "holding"}
  BY DEF LockInv, TypeOK, Unlocking, Unlock, TryLock, Forget, Release, Done, Goto
<1>3. Phase(c)' = "idle"
  BY <1>2 DEF Phase
<1>4. /\ Phases' = [Phases EXCEPT ![c] = "idle"]
      /\ Wants' = [Wants EXCEPT ![c] = None]
  BY <1>1, <1>3, Visible
<1>5. CASE Phases[c] = "holding"
  <2>1. Promise!Leave(c)
    BY <1>4, <1>5 DEF Promise!Leave, Phases, Wants
  <2> QED
    BY <2>1 DEF Promise!Next
<1>6. CASE Phases[c] = "idle"
  <2>1. UNCHANGED <<Phases, Wants>>
    BY <1>4, <1>6 DEF Phases, Wants
  <2> QED
    BY <2>1 DEF Promise!vars, Phases, Wants
<1>7. pc[c] # "waiting"
  BY DEF Unlocking, Unlock, TryLock, Forget, Release
<1> QED
  BY <1>5, <1>6, <1>7 DEF Phases, Phase

\* The map of mutexes implements the keyed lock on the keys that nobody forgets.
THEOREM MapIsKeyedMutex == Spec => KeepsPromise
<1>1. LockInv /\ LockInv' /\ [Next]_vars => [Promise!Next]_Promise!vars
  <2> SUFFICES ASSUME LockInv, LockInv', [Next]_vars
               PROVE  [Promise!Next]_Promise!vars
    OBVIOUS
  <2>1. CASE UNCHANGED vars
    BY <2>1 DEF vars, Promise!vars, Phase
  <2> QED
    BY <2>1, PromiseEnter, PromiseGrant, PromiseLeave DEF Next
<1> QED
  BY <1>1, InitPromise, LockInvariant, PTL DEF Spec, KeepsPromise, Promise!Spec

-------------------------------------------------------------------------------
(* The keys that every caller forgets do not stay in the map.                 *)

LEMMA EnterKeeps ==
  ASSUME PruneInv, NEW c \in Callers, NEW k \in Keys, Enter(c, k)
  PROVE  /\ OneKey' /\ Held' /\ Asked'
         /\ \A l \in Keys : Forgetting[l] = {TRUE} /\ table'[l] # None => OnTheWay(l)'
<1> USE DEF PruneInv, LockInv, TypeOK
<1>1. PICK m \in Mutexes : /\ table' = [table EXCEPT ![k] = m]
                           /\ mu' = [mu EXCEPT ![c] = m]
                           /\ \/ table[k] = None /\ m \in Fresh
                              \/ table[k] = m
  BY DEF Enter, Fresh
<1>2. PICK f \in Forgetting[k] : forget' = [forget EXCEPT ![c] = f]
  BY DEF Enter
<1>3. /\ key' = [key EXCEPT ![c] = k] /\ pc' = [pc EXCEPT ![c] = "waiting"]
      /\ holder' = holder /\ pc[c] = "idle"
  BY DEF Enter, Goto
<1>4. f \in BOOLEAN /\ m # None
  BY Forgets, LockOK
<1>5. OneKey'
  <2>1. \A l \in Keys : table'[l] = IF l = k THEN m ELSE table[l]
    BY <1>1
  <2>2. \A l \in Keys : table[l] = m => l = k
    BY <1>1, <1>4 DEF OneKey, Fresh
  <2>3. \A d \in Callers : d # c /\ pc[d] # "idle" /\ mu[d] = m => table[k] = m
    BY <1>1 DEF Fresh
  <2>4. \A d \in Callers : /\ d # c => mu'[d] = mu[d] /\ key'[d] = key[d] /\ pc'[d] = pc[d]
                           /\ d = c => mu'[d] = m /\ key'[d] = k /\ pc'[d] = "waiting"
    BY <1>1, <1>3
  <2>5. \A l, n \in Keys : table'[l] # None /\ table'[l] = table'[n] => l = n
    BY <2>1, <2>2 DEF OneKey
  <2>6. \A d \in Callers, l \in Keys : pc'[d] # "idle" /\ mu'[d] = table'[l] => key'[d] = l
    BY <2>1, <2>2, <2>3, <2>4 DEF OneKey
  <2>7. ASSUME NEW d \in Callers, pc'[d] = "forgotten"
        PROVE  table'[key'[d]] # mu'[d]
    <3>1. d # c /\ key[d] \in Keys /\ pc[d] = "forgotten"
      BY <2>4, <2>7 DEF Bound
    <3> QED
      BY <2>1, <2>3, <2>4, <3>1 DEF OneKey
  <2> QED
    BY <2>5, <2>6, <2>7 DEF OneKey
<1>6. Held'
  BY <1>1, <1>3 DEF Held
<1>7. Asked'
  BY <1>2, <1>3, <1>4 DEF Asked
<1>8. ASSUME NEW l \in Keys, Forgetting[l] = {TRUE}, table'[l] # None
      PROVE  OnTheWay(l)'
  <2>1. CASE l = k
    BY <1>1, <1>3, <2>1 DEF OnTheWay
  <2>2. CASE l # k
    <3>1. table'[l] = table[l]
      BY <1>1, <2>2
    <3>2. PICK d \in Callers : /\ mu[d] = table[l]
                               /\ pc[d] \in {"waiting", "holding", "unlocked", "forgetting"}
      BY <1>8, <3>1 DEF OnTheWay
    <3> QED
      BY <1>1, <1>3, <3>1, <3>2 DEF OnTheWay
  <2> QED
    BY <2>1, <2>2
<1> QED
  BY <1>5, <1>6, <1>7, <1>8

\* An unlock leaves a key that is forgotten to the TryLock that follows.
LEMMA UnlockKeeps ==
  ASSUME PruneInv, NEW c \in Callers, Lock(c) \/ Unlock(c)
  PROVE  /\ OneKey' /\ Held' /\ Asked'
         /\ \A l \in Keys : Forgetting[l] = {TRUE} /\ table'[l] # None => OnTheWay(l)'
<1> USE DEF PruneInv, LockInv, TypeOK, Goto, Done
<1>1. /\ table' = table /\ forget' = forget /\ pc[c] \in {"waiting", "holding"}
      /\ pc'[c] # "forgotten"
      /\ \A d \in Callers : d # c => pc'[d] = pc[d] /\ mu'[d] = mu[d] /\ key'[d] = key[d]
      /\ pc'[c] # "idle" => mu'[c] = mu[c] /\ key'[c] = key[c]
      /\ pc'[c] \in {"idle", "holding", "unlocked"}
  BY DEF Lock, Unlock
<1>2. OneKey'
  BY <1>1 DEF OneKey
<1>3. Held'
  <2>1. mu[c] \in Mutexes /\ c # None /\ (pc[c] = "holding" => holder[mu[c]] = c)
    BY <1>1, LockOK DEF Bound
  <2>2. \/ holder' = [holder EXCEPT ![mu[c]] = c] /\ pc'[c] = "holding"
           /\ holder[mu[c]] = None
        \/ holder' = [holder EXCEPT ![mu[c]] = None] /\ pc[c] = "holding"
    BY DEF Lock, Unlock
  <2>3. ASSUME NEW m \in Mutexes, holder'[m] # None
        PROVE  /\ mu'[holder'[m]] = m
               /\ pc'[holder'[m]] \in {"holding", "forgetting", "forgotten"}
    <3>1. CASE m = mu[c]
      BY <1>1, <2>1, <2>2, <2>3, <3>1
    <3>2. CASE m # mu[c]
      <4>1. holder'[m] = holder[m]
        BY <2>2, <3>2
      <4>2. mu[holder[m]] = m /\ holder[m] \in Callers /\ holder[m] # c
        BY <2>3, <3>2, <4>1 DEF Held
      <4> QED
        BY <1>1, <2>3, <4>1, <4>2 DEF Held
    <3> QED
      BY <3>1, <3>2
  <2> QED
    BY <2>3 DEF Held
<1>4. Asked'
  BY <1>1 DEF Asked
<1>5. ASSUME NEW l \in Keys, Forgetting[l] = {TRUE}, table'[l] # None
      PROVE  OnTheWay(l)'
  <2>1. PICK d \in Callers : /\ mu[d] = table[l]
                             /\ pc[d] \in {"waiting", "holding", "unlocked", "forgetting"}
    BY <1>1, <1>5 DEF OnTheWay
  <2>2. CASE d # c
    BY <1>1, <2>1, <2>2 DEF OnTheWay
  <2>3. CASE d = c
    <3>1. key[c] = l
      BY <2>1, <2>3 DEF OneKey
    <3>2. forget[c] = TRUE
      BY <1>1, <1>5, <3>1, Zenon DEF Asked
    <3>3. pc'[c] # "idle"
      BY <3>2 DEF Lock, Unlock
    <3> QED
      BY <1>1, <2>1, <2>3, <3>3 DEF OnTheWay
  <2> QED
    BY <2>2, <2>3
<1> QED
  BY <1>2, <1>3, <1>4, <1>5

\* A TryLock that fails leaves the key to the caller that has the mutex.
LEMMA TryLockKeeps ==
  ASSUME PruneInv, NEW c \in Callers, TryLock(c)
  PROVE  /\ OneKey' /\ Held' /\ Asked'
         /\ \A l \in Keys : Forgetting[l] = {TRUE} /\ table'[l] # None => OnTheWay(l)'
<1> USE DEF PruneInv, LockInv, TypeOK, Goto, Done
<1>1. /\ table' = table /\ forget' = forget /\ pc[c] = "unlocked"
      /\ pc'[c] \in {"idle", "forgetting"}
      /\ \A d \in Callers : d # c => pc'[d] = pc[d] /\ mu'[d] = mu[d] /\ key'[d] = key[d]
      /\ pc'[c] # "idle" => mu'[c] = mu[c] /\ key'[c] = key[c]
  BY DEF TryLock
<1>2. \/ /\ holder' = [holder EXCEPT ![mu[c]] = c] /\ pc'[c] = "forgetting"
         /\ holder[mu[c]] = None
      \/ holder' = holder /\ holder[mu[c]] # None /\ pc'[c] = "idle"
  BY DEF TryLock
<1>3. mu[c] \in Mutexes /\ c # None
  BY <1>1, LockOK DEF Bound
<1>4. OneKey'
  BY <1>1 DEF OneKey
<1>5. ASSUME NEW m \in Mutexes, holder'[m] # None
      PROVE  /\ mu'[holder'[m]] = m
             /\ pc'[holder'[m]] \in {"holding", "forgetting", "forgotten"}
  <2>1. CASE m = mu[c] /\ holder[m] = None
    BY <1>1, <1>2, <1>3, <2>1
  <2>2. CASE holder'[m] = holder[m]
    <3>1. mu[holder[m]] = m /\ holder[m] \in Callers /\ holder[m] # c
      BY <1>1, <1>5, <2>2 DEF Held
    <3> QED
      BY <1>1, <1>5, <2>2, <3>1 DEF Held
  <2> QED
    BY <1>2, <2>1, <2>2
<1>6. Held'
  BY <1>5 DEF Held
<1>7. Asked'
  BY <1>1 DEF Asked
<1>8. ASSUME NEW l \in Keys, Forgetting[l] = {TRUE}, table'[l] # None
      PROVE  OnTheWay(l)'
  <2>1. PICK d \in Callers : /\ mu[d] = table[l]
                             /\ pc[d] \in {"waiting", "holding", "unlocked", "forgetting"}
    BY <1>1, <1>8 DEF OnTheWay
  <2>2. CASE d # c \/ pc'[c] = "forgetting"
    BY <1>1, <2>1, <2>2 DEF OnTheWay
  <2>3. CASE d = c /\ holder[mu[c]] # None
    <3> DEFINE h == holder[mu[c]]
    <3>1. /\ h \in Callers /\ mu[h] = table[l] /\ h # c
          /\ pc[h] \in {"holding", "forgetting", "forgotten"}
      BY <1>1, <1>3, <2>1, <2>3 DEF Held
    <3>2. pc[h] # "forgotten"
      <4>1. key[h] = l
        BY <3>1 DEF OneKey
      <4> QED
        BY <3>1, <4>1 DEF OneKey
    <3> QED
      BY <1>1, <3>1, <3>2 DEF OnTheWay
  <2> QED
    BY <1>2, <2>2, <2>3
<1> QED
  BY <1>4, <1>6, <1>7, <1>8

LEMMA ForgetKeeps ==
  ASSUME PruneInv, NEW c \in Callers, Forget(c)
  PROVE  /\ OneKey' /\ Held' /\ Asked'
         /\ \A l \in Keys : Forgetting[l] = {TRUE} /\ table'[l] # None => OnTheWay(l)'
<1> USE DEF PruneInv, LockInv, TypeOK, Goto
<1>1. /\ table' = [table EXCEPT ![key[c]] = None] /\ pc[c] = "forgetting"
      /\ pc' = [pc EXCEPT ![c] = "forgotten"]
      /\ UNCHANGED <<holder, key, mu, forget>>
  BY DEF Forget
<1>2. key[c] \in Keys /\ None \notin Mutexes
  BY <1>1, LockOK DEF Bound
<1>3. \A d \in Callers : pc[d] # "idle" => key[d] \in Keys /\ mu[d] \in Mutexes
  BY DEF Bound
<1>4. OneKey'
  BY <1>1, <1>2, <1>3 DEF OneKey
<1>5. Held'
  BY <1>1 DEF Held
<1>6. Asked'
  BY <1>1 DEF Asked
<1>7. ASSUME NEW l \in Keys, Forgetting[l] = {TRUE}, table'[l] # None
      PROVE  OnTheWay(l)'
  <2>1. l # key[c] /\ table'[l] = table[l]
    BY <1>1, <1>2, <1>7
  <2>2. PICK d \in Callers : /\ mu[d] = table[l]
                             /\ pc[d] \in {"waiting", "holding", "unlocked", "forgetting"}
    BY <1>7, <2>1 DEF OnTheWay
  <2>3. d # c
    BY <1>1, <2>1, <2>2 DEF OneKey
  <2> QED
    BY <1>1, <2>1, <2>2, <2>3 DEF OnTheWay
<1> QED
  BY <1>4, <1>5, <1>6, <1>7

LEMMA ReleaseKeeps ==
  ASSUME PruneInv, NEW c \in Callers, Release(c)
  PROVE  /\ OneKey' /\ Held' /\ Asked'
         /\ \A l \in Keys : Forgetting[l] = {TRUE} /\ table'[l] # None => OnTheWay(l)'
<1> USE DEF PruneInv, LockInv, TypeOK, Goto, Done
<1>1. /\ table' = table /\ forget' = forget /\ pc[c] = "forgotten" /\ pc'[c] = "idle"
      /\ \A d \in Callers : d # c => pc'[d] = pc[d] /\ mu'[d] = mu[d] /\ key'[d] = key[d]
      /\ holder' = [holder EXCEPT ![mu[c]] = None]
  BY DEF Release
<1>2. mu[c] \in Mutexes
  BY <1>1 DEF Bound
<1>3. OneKey'
  BY <1>1 DEF OneKey
<1>4. ASSUME NEW m \in Mutexes, holder'[m] # None
      PROVE  /\ mu'[holder'[m]] = m
             /\ pc'[holder'[m]] \in {"holding", "forgetting", "forgotten"}
  <2>1. m # mu[c] /\ holder'[m] = holder[m]
    BY <1>1, <1>2, <1>4
  <2>2. mu[holder[m]] = m /\ holder[m] \in Callers /\ holder[m] # c
    BY <1>4, <2>1 DEF Held
  <2> QED
    BY <1>1, <1>4, <2>1, <2>2 DEF Held
<1>5. Held'
  BY <1>4 DEF Held
<1>6. Asked'
  BY <1>1 DEF Asked
<1>7. ASSUME NEW l \in Keys, Forgetting[l] = {TRUE}, table'[l] # None
      PROVE  OnTheWay(l)'
  <2>1. PICK d \in Callers : /\ mu[d] = table[l]
                             /\ pc[d] \in {"waiting", "holding", "unlocked", "forgetting"}
    BY <1>1, <1>7 DEF OnTheWay
  <2> QED
    BY <1>1, <2>1 DEF OnTheWay
<1> QED
  BY <1>3, <1>5, <1>6, <1>7

LEMMA NextPruneInv == PruneInv /\ [Next]_vars => PruneInv'
<1> SUFFICES ASSUME PruneInv, [Next]_vars PROVE PruneInv'
  OBVIOUS
<1>1. LockInv'
  BY NextLockInv DEF PruneInv
<1>2. CASE UNCHANGED vars
  <2>1. OneKey' /\ Held' /\ Asked'
    BY <1>2 DEF vars, PruneInv, OneKey, Held, Asked
  <2>2. ASSUME NEW k \in Keys, Forgetting[k] = {TRUE}, table'[k] # None
        PROVE  OnTheWay(k)'
    BY <1>2, <2>2 DEF vars, PruneInv, OnTheWay
  <2> QED
    BY <1>1, <2>1, <2>2 DEF PruneInv
<1> QED
  BY <1>1, <1>2, EnterKeeps, UnlockKeeps, TryLockKeeps, ForgetKeeps, ReleaseKeeps
     DEF Next, Unlocking, PruneInv

\* A mutex of the map serves one key, and a key that everybody forgets has a
\* caller that is going to forget it.
THEOREM PruneInvariant == Spec => []PruneInv
<1>1. Init => PruneInv
  BY InitLockInv, LockOK DEF Init, PruneInv, OneKey, Held, Asked, OnTheWay
<1> QED
  BY <1>1, NextPruneInv, PTL DEF Spec

\* create:<containerName> does not stay in the map once the creates are over, in
\* every race of their unlocks, their TryLocks and new callers.
THEOREM ForgottenKeysGo == Spec => []Pruned
<1>1. PruneInv => Pruned
  BY DEF PruneInv, Pruned, OnTheWay
<1> QED
  BY <1>1, PruneInvariant, PTL

===============================================================================
