SPECIFICATION FairSpec
CONSTANTS
  runner = runner
  create = create
  Callers = {c1, c2, c3}
  Keys = {runner, create}
  Mutexes = {m1, m2, m3, m4}
  Forgetting <- PlainAndPruned
  None = None
INVARIANT PruneInv
INVARIANT Pruned
PROPERTY EveryoneServed
PROPERTY KeepsPromise
