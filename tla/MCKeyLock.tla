------------------------------ MODULE MCKeyLock ------------------------------
(* Instances of KeyLock for TLC.                                              *)
EXTENDS KeyLock, TLC

CONSTANTS runner, create

\* The id of a runner that is not deleted, and create:<containerName>, which
\* Create always forgets.
PlainAndPruned == runner :> {FALSE} @@ create :> {TRUE}

\* The id of a runner that a Delete may forget while others wait for it.
Deleted == runner :> {FALSE, TRUE}

Symmetry == Permutations(Callers) \cup Permutations(Mutexes)

==============================================================================
