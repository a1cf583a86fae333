SPECIFICATION FairSpec
CONSTANTS
  Peers = {p1, p2, p3}
  Leavers = {p3}
  LeaveFrom = {"dialled", "accepted"}
PROPERTIES ShutdownStops ClientServed
