SPECIFICATION Spec
CONSTANTS
  Stages = 2
  Runners = {r1, r2}
  Hosts = {h1, h2}
  MaxWrites = 2
  MaxRuns = 2
  Faults = TRUE
SYMMETRY Symmetry
CHECK_DEADLOCK FALSE
INVARIANTS HostKeptOut OutputComplete Quarantined LocksReturned
