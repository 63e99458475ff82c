-------------------------- MODULE InspectCache_proofs --------------------------
(* The generations of InspectCache make every inspect at least as new as the  *)
(* lifecycle calls that ended before it began, for any number of callers,     *)
(* writers and changes.                                                       *)
EXTENDS InspectCache, TLAPS

LEMMA InitCacheInv == Init => CacheInv
BY CacheOK DEF Init, CacheInv, TypeOK, Versions, FlightInv, CallerInv, Entry, Flight

LEMMA CallLoad ==
  ASSUME CacheInv, NEW c \in Callers, Call(c) \/ Load(c) \/ ReadGen(c) \/ Return(c)
  PROVE  CacheInv'
<1> USE DEF CacheInv
<1>1. CASE Call(c)
  BY <1>1 DEF Call, Goto, cache, writer, TypeOK, Versions, Current, FlightInv, CallerInv
<1>2. CASE Load(c)
  BY <1>2 DEF Load, Goto, cache, writer, TypeOK, Versions, Current, FlightInv, CallerInv
<1>3. CASE ReadGen(c)
  BY <1>3 DEF ReadGen, Goto, cache, writer, TypeOK, Versions, Current, FlightInv, CallerInv
<1>4. CASE Return(c)
  BY <1>4 DEF Return, Goto, cache, writer, TypeOK, Versions, Current, FlightInv, CallerInv
<1> QED
  BY <1>1, <1>2, <1>3, <1>4

LEMMA HitMiss ==
  ASSUME CacheInv, NEW c \in Callers, Hit(c) \/ Miss(c)
  PROVE  CacheInv'
<1> USE DEF CacheInv
<1>1. mine[c] \in Entry /\ mine[c].ver \in Nat /\ pc[c] = "compare"
  BY DEF Hit, Miss, TypeOK, CallerInv, Entry
<1>2. CASE Hit(c)
  <2>1. floor[c] <= mine[c].ver
    BY <1>1, <1>2 DEF Hit, TypeOK, Versions, CallerInv, Current
  <2> QED
    BY <1>1, <1>2, <2>1 DEF Hit, Goto, cache, writer, TypeOK, Versions, Current, FlightInv, CallerInv
<1>3. CASE Miss(c)
  BY <1>3 DEF Miss, Goto, writer, TypeOK, Versions, Current, FlightInv, CallerInv
<1> QED
  BY <1>2, <1>3

LEMMA DoStep ==
  ASSUME CacheInv, NEW c \in Callers, Do(c)
  PROVE  CacheInv'
<1> USE DEF CacheInv
<1>1. key[c] \in 0 .. gen /\ [at |-> "read", ver |-> 0] \in Flight
  BY DEF Do, CallerInv, Flight
<1> QED
  BY <1>1 DEF Do, Goto, writer, TypeOK, Versions, Current, FlightInv, CallerInv

LEMMA FlightSteps ==
  ASSUME CacheInv, NEW g \in 0 .. gen, FlightRead(g) \/ FlightCheck(g) \/ FlightStore(g)
  PROVE  CacheInv'
<1> USE DEF CacheInv
<1>1. flight[g] \in Flight /\ flight[g].ver \in Nat
      /\ (flight[g].at # "read" => covers[g] <= flight[g].ver)
  BY DEF FlightRead, FlightCheck, FlightStore, Flying, TypeOK, FlightInv, Flight
<1>2. covers[g] <= version /\ covers[g] \in Nat
  BY DEF TypeOK, Versions
<1>3. CASE FlightRead(g)
  BY <1>1, <1>2, <1>3
     DEF FlightRead, MoveFlight, reader, writer, TypeOK, Versions, Current, FlightInv, CallerInv, Flight
<1>4. CASE FlightCheck(g)
  BY <1>1, <1>4
     DEF FlightCheck, Flying, MoveFlight, reader, writer, TypeOK, Versions, Current, FlightInv, CallerInv, Flight
<1>5. CASE FlightStore(g)
  BY <1>1, <1>5
     DEF FlightStore, Flying, MoveFlight, reader, writer, TypeOK, Versions, Current, FlightInv, CallerInv, Flight, Entry
<1> QED
  BY <1>3, <1>4, <1>5

\* The callers of a flight get a version that covers their generation.
LEMMA FlightEnds ==
  ASSUME CacheInv, NEW g \in 0 .. gen, FlightEnd(g) \/ FlightFails(g)
  PROVE  CacheInv'
<1> USE DEF CacheInv
<1>1. flight[g] \in Flight /\ flight[g].ver \in Nat
      /\ (flight[g].at # "read" => covers[g] <= flight[g].ver)
  BY DEF FlightEnd, FlightFails, Flying, TypeOK, FlightInv, Flight
<1>2. CASE FlightEnd(g)
  <2>1. ASSUME NEW c \in Callers, Waiting(c, g) PROVE floor[c] <= flight[g].ver
    BY <1>1, <1>2, <2>1 DEF FlightEnd, Flying, Waiting, TypeOK, CallerInv
  <2> QED
    BY <1>1, <1>2, <2>1 DEF FlightEnd, Waiting, writer, TypeOK, Versions, Current, FlightInv, CallerInv
<1>3. CASE FlightFails(g)
  BY <1>3 DEF FlightFails, Waiting, writer, TypeOK, Versions, Current, FlightInv, CallerInv
<1> QED
  BY <1>2, <1>3

LEMMA ChangeDrop ==
  ASSUME CacheInv, (\E w \in Writers : Change(w) \/ Drop(w)) \/ Unannounced
  PROVE  CacheInv'
<1> USE DEF CacheInv
<1>1. CASE Unannounced
  BY <1>1 DEF Unannounced, reader, writer, TypeOK, Versions, Current, FlightInv, CallerInv
<1>2. ASSUME NEW w \in Writers, Change(w) PROVE CacheInv'
  BY <1>2 DEF Change, reader, TypeOK, Versions, Current, FlightInv, CallerInv
<1>3. ASSUME NEW w \in Writers, Drop(w) PROVE CacheInv'
  BY <1>3 DEF Drop, reader, TypeOK, Versions, Current, FlightInv, CallerInv
<1> QED
  BY <1>1, <1>2, <1>3

\* The new generation covers what is complete; the older ones cover no more.
LEMMA BumpStep ==
  ASSUME CacheInv, NEW w \in Writers, Bump(w)
  PROVE  CacheInv'
<1> USE DEF CacheInv
<1>1. /\ gen' = gen + 1 /\ gen \in Nat
      /\ version' = version /\ entry' = entry /\ pc' = pc /\ mine' = mine
      /\ key' = key /\ got' = got /\ floor' = floor
      /\ wpc' = [wpc EXCEPT ![w] = "idle"] /\ wrote' = [wrote EXCEPT ![w] = 0]
  BY DEF Bump, reader, TypeOK
<1>2. /\ \A g \in 0 .. gen : covers'[g] = covers[g] /\ flight'[g] = flight[g]
      /\ covers'[gen + 1] = complete' /\ flight'[gen + 1] = None
      /\ DOMAIN covers' = 0 .. (gen + 1) /\ DOMAIN flight' = 0 .. (gen + 1)
  BY <1>1 DEF Bump
<1>3. complete' \in Nat /\ complete <= complete' /\ complete' <= version
  BY DEF Bump, TypeOK, Versions
<1>4. 0 .. gen' = (0 .. gen) \cup {gen + 1}
  BY <1>1
<1>5. TypeOK'
  <2>1. covers' \in [0 .. gen' -> Nat]
    BY <1>1, <1>2, <1>3, <1>4 DEF TypeOK, Bump
  <2>2. flight' \in [0 .. gen' -> Flight \cup {None}]
    BY <1>1, <1>2, <1>4 DEF TypeOK, Bump
  <2> QED
    BY <1>1, <1>3, <2>1, <2>2 DEF TypeOK
<1>6. Versions'
  BY <1>1, <1>2, <1>3, <1>4 DEF TypeOK, Versions
<1>7. entry' # None => Current(entry)'
  BY <1>1, <1>2, <1>4 DEF Current
<1>8. \A g \in 0 .. gen' : FlightInv(g)'
  BY <1>2, <1>4 DEF FlightInv
<1>9. \A c \in Callers : CallerInv(c)'
  BY <1>1, <1>2, <1>3, <1>4 DEF TypeOK, CallerInv, Current
<1> QED
  BY <1>5, <1>6, <1>7, <1>8, <1>9

LEMMA NextCacheInv == CacheInv /\ [Next]_vars => CacheInv'
<1> SUFFICES ASSUME CacheInv, [Next]_vars PROVE CacheInv'
  OBVIOUS
<1>1. CASE UNCHANGED vars
  BY <1>1 DEF vars, cache, reader, writer, CacheInv, TypeOK, Versions, Current, FlightInv, CallerInv
<1>2. CASE Next
  BY <1>2, CallLoad, HitMiss, DoStep, FlightSteps, FlightEnds, ChangeDrop, BumpStep
     DEF Next, CallerStep, FlightStep, WriterStep
<1> QED
  BY <1>1, <1>2

\* The invariant of the cache: nothing in it is older than its generation.
THEOREM CacheInvariant == Spec => []CacheInv
<1> QED
  BY InitCacheInv, NextCacheInv, PTL DEF Spec

\* InspectByName never reports a state older than a lifecycle call that ended
\* before the inspect began.
THEOREM InspectSeesWrites == Spec => []ReadsSeeWrites
<1>1. CacheInv => ReadsSeeWrites
  BY DEF CacheInv, TypeOK, CallerInv, ReadsSeeWrites
<1> QED
  BY <1>1, CacheInvariant, PTL

================================================================================
