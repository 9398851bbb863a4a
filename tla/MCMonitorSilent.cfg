SPECIFICATION LiveSpec
CONSTANTS
  a1 = a1
  a2 = a2
  None = None
  N = 1
  Name <- MCNameOne
  Addr = {a1}
  Resolve <- MCResolveOne
  PollInterval = 1
  ErrInterval = 2
  MaxLag = 1
  SockMax = 1
PROPERTY SilentIsReported
