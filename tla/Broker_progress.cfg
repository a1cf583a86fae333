SPECIFICATION FairSpec
CONSTANTS
  Clients = {c1, c2}
  Xclbins = {x1, x2}
  Streams = {h1}
  MaxContexts = 1
  Streak = 1
  MaxCalls = 2
  Faults = {"open", "copyin", "timeout", "copyout"}
  None = None
  MaxTotal = 4
PROPERTIES AcceptedAnswered CloseReturns
