------------------------------ MODULE KeyedMutex ------------------------------
(* What the handlers of runner.Manager expect of lockRunner: one mutex per    *)
(* key, which admits one caller at a time.                                    *)
CONSTANTS Callers, Keys, None

VARIABLES
  phase,       \* caller -> "idle", "waiting" or "holding"
  wants        \* caller -> the key it waits for or holds

Init ==
  /\ phase = [c \in Callers |-> "idle"]
  /\ wants = [c \in Callers |-> None]

Enter(c, k) ==
  /\ phase[c] = "idle"
  /\ phase' = [phase EXCEPT ![c] = "waiting"]
  /\ wants' = [wants EXCEPT ![c] = k]

Grant(c) ==
  /\ phase[c] = "waiting"
  /\ \A d \in Callers : ~ (phase[d] = "holding" /\ wants[d] = wants[c])
  /\ phase' = [phase EXCEPT ![c] = "holding"]
  /\ UNCHANGED wants

Leave(c) ==
  /\ phase[c] = "holding"
  /\ phase' = [phase EXCEPT ![c] = "idle"]
  /\ wants' = [wants EXCEPT ![c] = None]

Next == \E c \in Callers : Grant(c) \/ Leave(c) \/ \E k \in Keys : Enter(c, k)

vars == <<phase, wants>>

Spec == Init /\ [][Next]_vars

===============================================================================
