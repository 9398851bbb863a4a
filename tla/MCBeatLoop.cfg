SPECIFICATION LiveSpec
CONSTANTS
  c1 = c1
  c2 = c2
  None = None
  Client = {c1, c2}
  Backlog = 2
  MaxFd = 5
INVARIANTS
  TypeOK
  NothingLeaks
PROPERTIES
  TcpServed
  UdpServed
  HostSpec
