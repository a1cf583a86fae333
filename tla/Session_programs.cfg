SPECIFICATION Spec
CONSTANTS
  Depth = 2
  Stages = 3
  MaxReqs = 4
  Programs <- Usual
INVARIANTS ResultOwnIfPushed CloseDrained
PROPERTY InputStable
