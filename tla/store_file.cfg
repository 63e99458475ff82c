SPECIFICATION Spec
CONSTANTS
  Callers = {c1, c2}
  None = None
  Runners <- SomeRunners
  MaxFaults = 2
SYMMETRY Symmetry
INVARIANT StoreInv
PROPERTY ForeignKept
PROPERTY KeepsPromise
