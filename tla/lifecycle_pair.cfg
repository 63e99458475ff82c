SPECIFICATION Spec
CONSTANTS
  Handlers = {h1, h2}
  Ids = {i1, i2}
  Names = {n1}
  Workdirs = {w1, w2}
  Ops <- AllOps
  FaultKinds <- LoudFaults
  MaxFaults = 2
  Mutexes = {m1, m2}
  None = None
SYMMETRY Symmetry
VIEW View
CONSTRAINT SingleHolders
INVARIANT CourseInv
INVARIANT OneWorkerPerName
INVARIANT SuccessIsServing
INVARIANT NoOrphan
INVARIANT RecreateRecovers
PROPERTY RegistrationKept
PROPERTY OnlyDeleteUnregisters
