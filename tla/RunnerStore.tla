----------------------------- MODULE RunnerStore ------------------------------
(******************************************************************************)
(* What the manager expects of Store: every call takes effect at once or not  *)
(* at all, a change is refused if rows were not unique with it, the end of    *)
(* the process loses nothing, and a power loss no more than what has not      *)
(* settled.                                                                   *)
(******************************************************************************)
EXTENDS RunnerRows

CONSTANTS Callers, None

VARIABLES
  stored,      \* the rows
  kept,        \* what a power loss may leave of them
  call,        \* caller -> its call, or None
  answer       \* caller -> how its call ended, or None

vars == <<stored, kept, call, answer>>

Init ==
  /\ stored \in SUBSET Runners /\ Unique(stored) /\ kept = {stored}
  /\ call = [c \in Callers |-> None] /\ answer = [c \in Callers |-> None]

Ask(c) ==
  /\ call[c] = None
  /\ \E q \in Calls : call' = [call EXCEPT ![c] = q]
  /\ UNCHANGED <<stored, kept, answer>>

Outcome(q) ==
  CASE q.op = "list" -> Listed(stored)
    [] q.op # "list" /\ ~ Found(stored, q) -> NotFound
    [] q.op # "list" /\ Found(stored, q) ->
         IF Unique(After(stored, q)) THEN Done ELSE Conflict

Pending(c) == call[c] # None /\ answer[c] = None

Apply(c) ==
  /\ Pending(c)
  /\ answer' = [answer EXCEPT ![c] = Outcome(call[c])]
  /\ stored' = IF Outcome(call[c]) = Done THEN After(stored, call[c]) ELSE stored
  /\ kept' = kept \cup {stored'}
  /\ UNCHANGED call

Fail(c) ==
  /\ Pending(c)
  /\ answer' = [answer EXCEPT ![c] = Failed]
  /\ UNCHANGED <<stored, kept, call>>

Return(c) ==
  /\ answer[c] # None
  /\ call' = [call EXCEPT ![c] = None] /\ answer' = [answer EXCEPT ![c] = None]
  /\ UNCHANGED <<stored, kept>>

Settle == kept' = {stored} /\ UNCHANGED <<stored, call, answer>>

Gone == call' = [c \in Callers |-> None] /\ answer' = [c \in Callers |-> None]
Crash == Gone /\ UNCHANGED <<stored, kept>>
PowerLoss == Gone /\ stored' \in kept /\ kept' = {stored'}

Next ==
  \/ \E c \in Callers : Ask(c) \/ Apply(c) \/ Fail(c) \/ Return(c)
  \/ Settle \/ Crash \/ PowerLoss

Spec == Init /\ [][Next]_vars

===============================================================================
