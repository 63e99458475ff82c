------------------------ MODULE MCRunnerLifecycle ------------------------
(* Instances of RunnerLifecycle for TLC. *)
EXTENDS RunnerLifecycle, TLC

\* Failures other than an unreadable .runner (run rollback_read).
LoudFaults == AllFaults \ {"volumeRead"}

Symmetry == Permutations(Handlers) \cup Permutations(Ids)
              \cup Permutations(Names) \cup Permutations(Workdirs)

\* The invariants of lifecycle_pair say nothing of a behaviour that has gone astray.
SingleHolders == ~ astray

\* Which mutex a key has does not matter, only who refers to the same one and whether
\* a newcomer would; a key that nobody refers to is as good as absent.
Refers(p, k) == IF k \in Names THEN nameMu[p] # None /\ NameOf(p) = k
                ELSE idMu[p] # None /\ rid[p] = k
MutexOf(p, k) == IF k \in Names THEN nameMu[p] ELSE idMu[p]
Current(k) == {p \in Handlers : Refers(p, k) /\ MutexOf(p, k) = table[k]}
Together(k) == {pq \in Handlers \X Handlers :
                  /\ Refers(pq[1], k) /\ Refers(pq[2], k)
                  /\ MutexOf(pq[1], k) = MutexOf(pq[2], k)}
View == <<rows, used, ctr, vol, pc, locals, faults, astray,
          [k \in Ids \cup Names |-> <<Current(k), Together(k)>>]>>
=============================================================================
