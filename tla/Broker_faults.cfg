SPECIFICATION Spec
CONSTANTS
  Clients = {c1, c2}
  Xclbins = {x1, x2, x3}
  Streams = {h1}
  MaxContexts = 2
  Streak = 2
  MaxCalls = 3
  Faults = {"open", "upload", "copyin", "start", "timeout", "wait", "copyout"}
  None = None
  MaxTotal = 4
SYMMETRY Symmetry
CONSTRAINT FewCalls
INVARIANTS LiveBuffersPrivate LiveContextsOpen RoomForContext ClientOrder HeadNotStarved CallsAccounted ExitDrained
PROPERTIES UnhealthyLeavesDeviceAlone ImplementsService
