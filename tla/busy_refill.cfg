SPECIFICATION Spec
CONSTANTS
  Readers = {r1}
  Workdirs = {w1, w2}
  None = None
INVARIANT BusyRefused
