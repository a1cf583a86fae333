SPECIFICATION Spec
CONSTANTS
  Depth = 2
  PipeCap = 1
  MaxCalls = 3
  Oversized = "anytime"
INVARIANT ResultsAreOwn
