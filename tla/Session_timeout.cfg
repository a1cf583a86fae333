SPECIFICATION Spec
CONSTANTS
  Depth = 2
  Stages = 2
  MaxReqs = 4
  Programs <- Untimed
INVARIANT ResultIsOwn
