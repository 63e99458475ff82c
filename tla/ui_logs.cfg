SPECIFICATION FairSpec
CONSTANTS
  Runners = {a, b}
  None = None
  MaxStreams = 4
  MaxActs = 4
  MaxFaults = 2
INVARIANT DialogInv
INVARIANT FollowAlive
INVARIANT LiveLinesOfRunner
INVARIANT SnapshotOfRunner
INVARIANT OneFeed
INVARIANT ReconnectWhenDown
PROPERTY FollowReconnects
CHECK_DEADLOCK FALSE
