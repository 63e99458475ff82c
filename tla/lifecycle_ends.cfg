SPECIFICATION RestartSpec
CONSTANTS
  i1 = i1
  i2 = i2
  i3 = i3
  n1 = n1
  n2 = n2
  w1 = w1
  Handlers = {h1, h2}
  Ids = {i1, i2, i3}
  Names = {n1, n2}
  Workdirs = {w1}
  Ops = {"create", "stop", "delete", "missing"}
  FaultKinds = {}
  MaxFaults = 0
  Mutexes = {m1, m2}
  None = None
  Stored <- TwoRunners
  MaxRequests = 3
CHECK_DEADLOCK FALSE
INVARIANT TokenOnlyWhileConfiguring
PROPERTY RequestsEnd
