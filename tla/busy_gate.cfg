SPECIFICATION Spec
CONSTANTS
  Readers = {r1}
  Workdirs = {w1, w2}
  None = None
SYMMETRY Symmetry
VIEW View
INVARIANT BusyRefusedWhenQuiet
INVARIANT DownNeverRefused
INVARIANT OnlyStartWipes
