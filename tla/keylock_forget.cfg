SPECIFICATION Spec
CONSTANTS
  runner = runner
  create = create
  Callers = {c1, c2, c3}
  Keys = {runner}
  Mutexes = {m1, m2, m3, m4}
  Forgetting <- Deleted
  None = None
SYMMETRY Symmetry
INVARIANT Exclusive
