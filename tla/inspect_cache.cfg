SPECIFICATION FairSpec
CONSTANTS
  Callers = {c1, c2}
  Writers = {w1, w2}
  MaxChanges = 3
  None = None
INVARIANT ReadsSeeWrites
PROPERTY InspectReturns
