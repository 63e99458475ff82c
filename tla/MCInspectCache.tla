---------------------------- MODULE MCInspectCache ----------------------------
(* Instances of InspectCache for TLC.                                         *)
EXTENDS InspectCache, TLC

Symmetry == Permutations(Callers) \cup Permutations(Writers)

================================================================================
