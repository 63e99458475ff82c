SPECIFICATION FairSpec
CONSTANTS
  r1 = r1
  r2 = r2
  r3 = r3
  Runners = {r1, r2, r3}
  None = None
  Fleet <- SmallFleet
  Address = r1
  MaxBackground = 2
  MaxEvents = 1
INVARIANT PageInv
INVARIANT GateHonest
PROPERTY DialogTarget
PROPERTY MutationErrorStays
PROPERTY Converges
PROPERTY ActionsEnd
