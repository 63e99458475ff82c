----------------------------- MODULE MCFleetPage -----------------------------
(* Instances of FleetPage for TLC.                                            *)
EXTENDS FleetPage, TLC

CONSTANTS r1, r2, r3

\* One runner that works, one that must be recreated, and one to create.
SmallFleet == r1 :> "up" @@ r2 :> "missing" @@ r3 :> "none"

================================================================================
