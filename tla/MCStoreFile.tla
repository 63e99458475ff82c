----------------------------- MODULE MCStoreFile ------------------------------
(* Instances of StoreFile for TLC.                                            *)
EXTENDS StoreFile, TLC

\* Two runners that compete for a name, and one that only wants its container.
SomeRunners ==
  {[id |-> 1, name |-> "a", container |-> "a"], [id |-> 2, name |-> "a", container |-> "a"],
   [id |-> 2, name |-> "b", container |-> "b"], [id |-> 3, name |-> "B", container |-> "b"]}
Symmetry == Permutations(Callers)

===============================================================================
