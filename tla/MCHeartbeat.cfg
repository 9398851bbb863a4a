SPECIFICATION HLiveSpec
CONSTANTS
  a1 = a1
  None = None
  N = 1
  Name <- MCName
  Addr = {a1}
  Resolve <- MCResolve
  PollInterval = 1
  ErrInterval = 3
  MaxLag = 1
  SockMax = 1
  HostMax = 1
INVARIANT HTypeOK
PROPERTIES
  NoFalseAlarm
  DeadNoticed
  AliveNoticed
