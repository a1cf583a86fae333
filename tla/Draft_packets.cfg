SPECIFICATION Spec
CONSTANTS
  None = None  p1 = p1  p2 = p2  t1 = t1  t2 = t2
  Program <- MCProgram
  MaxContexts = 2  MaxStreams = 2
  Tokens = {t1, t2}
  Prompts = {p1, p2}
  Positions = 3
  Modes = {"plain", "cached", "bound"}
  Capacities = {0, 2}
INVARIANTS DispatchFresh ContextsOfHolder ContextBound
SYMMETRY Renamings
