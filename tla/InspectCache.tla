----------------------------- MODULE InspectCache -----------------------------
(******************************************************************************)
(* InspectByName of docker.Client for one container name: a cache with a TTL, *)
(* concurrent inspects coalesced by a singleflight group, and a generation    *)
(* that every lifecycle call bumps after it has changed the container, so     *)
(* that an inspect in flight cannot put back what it read before the change.  *)
(* Every load, store, delete or bump of a sync.Map or an atomic is a step.    *)
(* The state of the container is abstracted to the number of its changes.     *)
(******************************************************************************)
EXTENDS Naturals

CONSTANTS
  Callers,     \* goroutines that call InspectByName
  Writers,     \* goroutines that start, stop, restart, remove or create
  MaxChanges,  \* bound on the changes of the container
  None

Entry == [ver : Nat, gen : Nat]
Flight == [at : {"read", "check", "store", "end"}, ver : Nat]

ASSUME CacheOK == MaxChanges \in Nat /\ None \notin Entry \cup Flight

VARIABLES
  version,     \* changes of the container so far: what the Engine would report
  gen,         \* inspectGens[name]
  entry,       \* inspectCache[name]: what was read, and in which generation
  flight,      \* generation -> the inspect in flight for the key name#generation
  pc,          \* caller -> next step
  mine,        \* caller -> the entry it has loaded
  key,         \* caller -> the generation in its singleflight key
  got,         \* caller -> the result it returns
  wpc,         \* writer -> next step
  wrote,       \* writer -> the version it has produced
  complete,    \* history: the newest change whose lifecycle call has invalidated
  covers,      \* history: generation -> complete when the generation began
  floor        \* history: caller -> complete when its call began

cache == <<version, gen, entry, flight, complete, covers>>
reader == <<pc, mine, key, got, floor>>
writer == <<wpc, wrote>>
vars == <<cache, reader, writer>>

Init ==
  /\ version = 0 /\ gen = 0 /\ entry = None
  /\ flight = [g \in {0} |-> None]
  /\ complete = 0 /\ covers = [g \in {0} |-> 0]
  /\ pc = [c \in Callers |-> "idle"]
  /\ mine = [c \in Callers |-> None]
  /\ key = [c \in Callers |-> 0]
  /\ got = [c \in Callers |-> 0]
  /\ floor = [c \in Callers |-> 0]
  /\ wpc = [w \in Writers |-> "idle"]
  /\ wrote = [w \in Writers |-> 0]

Goto(c, label) == pc' = [pc EXCEPT ![c] = label]

--------------------------------------------------------------------------------
(* InspectByName.                                                             *)

Call(c) ==
  /\ pc[c] = "idle"
  /\ floor' = [floor EXCEPT ![c] = complete]
  /\ Goto(c, "load")
  /\ UNCHANGED <<cache, mine, key, got, writer>>

\* getInspectCache: Load, and a second step that looks at the entry.
Load(c) ==
  /\ pc[c] = "load"
  /\ mine' = [mine EXCEPT ![c] = entry]
  /\ Goto(c, IF entry = None THEN "gen" ELSE "compare")
  /\ UNCHANGED <<cache, key, got, floor, writer>>

Hit(c) ==
  /\ pc[c] = "compare" /\ mine[c].gen = gen
  /\ got' = [got EXCEPT ![c] = mine[c].ver]
  /\ mine' = [mine EXCEPT ![c] = None]
  /\ Goto(c, "done")
  /\ UNCHANGED <<cache, key, floor, writer>>

\* Expired, or of another generation: whatever entry there is now is deleted.
Miss(c) ==
  /\ pc[c] = "compare"
  /\ entry' = None
  /\ mine' = [mine EXCEPT ![c] = None]
  /\ Goto(c, "gen")
  /\ UNCHANGED <<version, gen, flight, complete, covers, key, got, floor, writer>>

ReadGen(c) ==
  /\ pc[c] = "gen"
  /\ key' = [key EXCEPT ![c] = gen]
  /\ Goto(c, "do")
  /\ UNCHANGED <<cache, mine, got, floor, writer>>

\* singleflight.Do: start a flight for the key or wait for the one under way.
Do(c) ==
  /\ pc[c] = "do"
  /\ flight' = IF flight[key[c]] = None
                 THEN [flight EXCEPT ![key[c]] = [at |-> "read", ver |-> 0]]
                 ELSE flight
  /\ Goto(c, "wait")
  /\ UNCHANGED <<version, gen, entry, complete, covers, mine, key, got, floor, writer>>

--------------------------------------------------------------------------------
(* The function that a flight runs, and what its callers get.                 *)

Flying(g, label) == flight[g] # None /\ flight[g].at = label
MoveFlight(g, label, v) ==
  flight' = [flight EXCEPT ![g] = [at |-> label, ver |-> v]]
Waiting(c, g) == pc[c] = "wait" /\ key[c] = g

FlightRead(g) ==
  /\ Flying(g, "read")
  /\ MoveFlight(g, "check", version)
  /\ UNCHANGED <<version, gen, entry, complete, covers, reader, writer>>

\* putInspectCache: compare the generation, then store.
FlightCheck(g) ==
  /\ Flying(g, "check")
  /\ MoveFlight(g, IF gen = g THEN "store" ELSE "end", flight[g].ver)
  /\ UNCHANGED <<version, gen, entry, complete, covers, reader, writer>>

\* Slip: the put is marked with the generation it finds, not with its own.
FlightStoreAsCurrent(g) ==
  /\ Flying(g, "store")
  /\ entry' = [ver |-> flight[g].ver, gen |-> gen]
  /\ MoveFlight(g, "end", flight[g].ver)
  /\ UNCHANGED <<version, gen, complete, covers, reader, writer>>

FlightStore(g) ==
  /\ Flying(g, "store")
  /\ entry' = [ver |-> flight[g].ver, gen |-> g]
  /\ MoveFlight(g, "end", flight[g].ver)
  /\ UNCHANGED <<version, gen, complete, covers, reader, writer>>

FlightEnd(g) ==
  /\ Flying(g, "end")
  /\ flight' = [flight EXCEPT ![g] = None]
  /\ pc' = [c \in Callers |-> IF Waiting(c, g) THEN "done" ELSE pc[c]]
  /\ got' = [c \in Callers |-> IF Waiting(c, g) THEN flight[g].ver ELSE got[c]]
  /\ key' = [c \in Callers |-> IF Waiting(c, g) THEN 0 ELSE key[c]]
  /\ UNCHANGED <<version, gen, entry, complete, covers, mine, floor, writer>>

\* Slip: the error does not reach the callers.
FlightLost(g) ==
  /\ Flying(g, "read")
  /\ flight' = [flight EXCEPT ![g] = None]
  /\ UNCHANGED <<version, gen, entry, complete, covers, reader, writer>>

\* The Engine fails or does not answer for 15 seconds: nothing is put, and
\* every caller gets the error.
FlightFails(g) ==
  /\ Flying(g, "read")
  /\ flight' = [flight EXCEPT ![g] = None]
  /\ pc' = [c \in Callers |-> IF Waiting(c, g) THEN "idle" ELSE pc[c]]
  /\ floor' = [c \in Callers |-> IF Waiting(c, g) THEN 0 ELSE floor[c]]
  /\ key' = [c \in Callers |-> IF Waiting(c, g) THEN 0 ELSE key[c]]
  /\ UNCHANGED <<version, gen, entry, complete, covers, mine, got, writer>>

\* The caller uses the result; what it held is dropped, here and above.
Return(c) ==
  /\ pc[c] = "done"
  /\ Goto(c, "idle")
  /\ got' = [got EXCEPT ![c] = 0]
  /\ floor' = [floor EXCEPT ![c] = 0]
  /\ UNCHANGED <<cache, mine, key, writer>>

--------------------------------------------------------------------------------
(* Start, Stop, Restart, RemoveContainer and CreateAndStart: the Engine call, *)
(* then InvalidateInspect (Delete and bump).                                  *)

Change(w) ==
  /\ wpc[w] = "idle" /\ version < MaxChanges
  /\ version' = version + 1
  /\ wrote' = [wrote EXCEPT ![w] = version + 1]
  /\ wpc' = [wpc EXCEPT ![w] = "changed"]
  /\ UNCHANGED <<gen, entry, flight, complete, covers, reader>>

Drop(w) ==
  /\ wpc[w] = "changed"
  /\ entry' = None
  /\ wpc' = [wpc EXCEPT ![w] = "dropped"]
  /\ UNCHANGED <<version, gen, flight, complete, covers, reader, wrote>>

Bump(w) ==
  LET seen == IF wrote[w] > complete THEN wrote[w] ELSE complete
      next == 0 .. (gen + 1)
  IN /\ wpc[w] = "dropped"
     /\ gen' = gen + 1
     /\ flight' = [g \in next |-> IF g = gen + 1 THEN None ELSE flight[g]]
     /\ complete' = seen
     /\ covers' = [g \in next |-> IF g = gen + 1 THEN seen ELSE covers[g]]
     /\ wpc' = [wpc EXCEPT ![w] = "idle"]
     /\ wrote' = [wrote EXCEPT ![w] = 0]
     /\ UNCHANGED <<version, entry, reader>>

\* A change that nobody announces: the container exits by itself, or a removal
\* or a create fails half-way and returns without InvalidateInspect.
Unannounced ==
  /\ version < MaxChanges
  /\ version' = version + 1
  /\ UNCHANGED <<gen, entry, flight, complete, covers, reader, writer>>

--------------------------------------------------------------------------------
CallerStep(c) == Load(c) \/ Hit(c) \/ Miss(c) \/ ReadGen(c) \/ Do(c) \/ Return(c)
FlightStep(g) ==
  FlightRead(g) \/ FlightCheck(g) \/ FlightStore(g) \/ FlightEnd(g) \/ FlightFails(g)
WriterStep(w) == Change(w) \/ Drop(w) \/ Bump(w)

Next ==
  \/ \E c \in Callers : Call(c) \/ CallerStep(c)
  \/ \E g \in 0 .. gen : FlightStep(g)
  \/ \E w \in Writers : WriterStep(w)
  \/ Unannounced

Spec == Init /\ [][Next]_vars

\* Goroutines run; an inspect that gets no answer is cut off.
FairSpec ==
  /\ Spec
  /\ \A c \in Callers : WF_vars(CallerStep(c))
  /\ \A g \in 0 .. MaxChanges : WF_vars(g <= gen /\ FlightStep(g))

--------------------------------------------------------------------------------
TypeOK ==
  /\ version \in Nat /\ gen \in Nat /\ complete \in Nat
  /\ entry \in Entry \cup {None}
  /\ flight \in [0 .. gen -> Flight \cup {None}]
  /\ covers \in [0 .. gen -> Nat]
  /\ pc \in [Callers -> {"idle", "load", "compare", "gen", "do", "wait", "done"}]
  /\ mine \in [Callers -> Entry \cup {None}]
  /\ key \in [Callers -> Nat] /\ got \in [Callers -> Nat] /\ floor \in [Callers -> Nat]
  /\ wpc \in [Writers -> {"idle", "changed", "dropped"}]
  /\ wrote \in [Writers -> Nat]

\* An inspect that begins after a lifecycle call has ended reports that call's
\* effect or a later state, whatever inspects of before it are still in flight.
ReadsSeeWrites == \A c \in Callers : pc[c] = "done" => got[c] >= floor[c]

\* Every inspect returns.
InspectReturns == \A c \in Callers : pc[c] = "load" ~> pc[c] = "idle"

(* Why ReadsSeeWrites holds: what was read in a generation is at least as new *)
(* as the changes complete when that generation began.                        *)

Versions ==
  /\ complete <= version /\ complete = covers[gen]
  /\ \A w \in Writers : wrote[w] <= version
  /\ \A g \in 0 .. gen : covers[g] <= complete

\* What is read in generation g is not older than what g covers.
Current(e) == e.gen \in 0 .. gen /\ covers[e.gen] <= e.ver

FlightInv(g) ==
  flight[g] # None /\ flight[g].at # "read" => covers[g] <= flight[g].ver

CallerInv(c) ==
  /\ floor[c] <= complete
  /\ pc[c] = "compare" => mine[c] # None /\ Current(mine[c])
  /\ pc[c] \in {"do", "wait"} => key[c] \in 0 .. gen /\ floor[c] <= covers[key[c]]
  /\ pc[c] = "done" => floor[c] <= got[c]

CacheInv ==
  /\ TypeOK /\ Versions
  /\ entry # None => Current(entry)
  /\ \A g \in 0 .. gen : FlightInv(g)
  /\ \A c \in Callers : CallerInv(c)

================================================================================
