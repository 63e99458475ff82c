------------------------------ MODULE MCBusyGate ------------------------------
(* Instances of BusyGate for TLC.                                             *)
EXTENDS BusyGate, TLC

Symmetry == Permutations(Readers) \cup Permutations(Workdirs)

\* What a state can still come to: the locals of a request, its history and the
\* workdir of a container count as long as somebody reads them.
View ==
  <<ctr, job, shown, row, file, cache, pc, readers, wiped,
    IF ctr = "missing" THEN None ELSE wd,
    IF pc = "idle" THEN None ELSE <<op, rec>>,
    IF pc \in {"put", "decide"} THEN seen ELSE None,
    IF pc \in {"inspect"} \cup PastInspect /\ op \in Gated
      THEN <<busyAll /\ quiet, downAll>> ELSE None>>

===============================================================================
