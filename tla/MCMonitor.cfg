SPECIFICATION Spec
CONSTANTS
  a1 = a1
  a2 = a2
  None = None
  N = 2
  Name <- MCName
  Addr = {a1, a2}
  Resolve <- MCResolve
  PollInterval = 1
  ErrInterval = 2
  MaxLag = 2
  SockMax = 2
INVARIANTS
  TypeOK
  Watched
  Prompt
  TimerMeasuresSilence
  NoStaleOnline
  ToldIsOnline
  LogSound
PROPERTY DetectorSpec
