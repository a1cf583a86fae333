SPECIFICATION FairSpec
CONSTANTS
  Depth = 2
  PipeCap = 1
  MaxCalls = 3
  Oversized = "idle"
INVARIANTS RepliesInOrder ResultsAreOwn ArenaOutlivesCalls
PROPERTIES ClientReturns ArenaReleased
