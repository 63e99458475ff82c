-------------------------- MODULE MCRunnerRequests --------------------------
(* RunnerLifecycle from a restart on: a manager that finds stored runners  *)
(* without containers (Docker was reset while it was down), so that        *)
(* recreate-missing has several of them in its list, and a bounded number  *)
(* of requests beside each other.                                          *)
EXTENDS RunnerLifecycle, TLC

CONSTANTS
  Stored,       \* the rows in runners.json when the manager starts
  MaxRequests,  \* bound on the requests that come in
  i1, i2, i3, n1, n2, w1

VARIABLE served \* requests so far

TwoRunners == (i1 :> [name |-> n1, wd |-> w1])
                @@ (i2 :> [name |-> n2, wd |-> w1]) @@ (i3 :> None)

Restart ==
  /\ rows = Stored
  /\ used = {i \in Ids : Stored[i] # None}
  /\ ctr = [n \in Names |-> None]
  /\ vol = [n \in Names |-> None]
  /\ table = [k \in Ids \cup Names |-> None]
  /\ nameMu = [p \in Handlers |-> None]
  /\ idMu = [p \in Handlers |-> None]
  /\ pc = [p \in Handlers |-> "idle"]
  /\ op = [p \in Handlers |-> "none"]
  /\ rid = [p \in Handlers |-> None]
  /\ rec = [p \in Handlers |-> None]
  /\ plan = [p \in Handlers |-> "reuse"]
  /\ clean = [p \in Handlers |-> TRUE]
  /\ todo = [p \in Handlers |-> {}]
  /\ faults = 0 /\ astray = FALSE /\ served = 0

NextRequest == \E p \in Handlers : Request(p) /\ served < MaxRequests
                                     /\ served' = served + 1
NextStep == ((\E p \in Handlers : Acquire(p) \/ Step(p)) \/ Environment)
              /\ UNCHANGED served

RestartSpec ==
  Restart /\ [][NextRequest \/ NextStep]_<<vars, served>> /\ Fairness
=============================================================================
