SPECIFICATION Spec
CONSTANTS
  Handlers = {h1}
  Ids = {i1, i2}
  Names = {n1}
  Workdirs = {w1, w2}
  Ops = {"create"}
  FaultKinds = {"call", "agent", "volumeRead"}
  MaxFaults = 2
  Mutexes = {m1, m2}
  None = None
SYMMETRY Symmetry
PROPERTY OnlyDeleteUnregisters
