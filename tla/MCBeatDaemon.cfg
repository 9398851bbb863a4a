SPECIFICATION LiveSpec
CONSTANTS
  p1 = p1
  p2 = p2
  p3 = p3
  Pid = {p1, p2, p3}
  Digits <- MCDigits
  Port = {114343}
  Forking = {TRUE, FALSE}
INVARIANTS
  TypeOK
  ServesAlone
  PidfileNamesDaemon
PROPERTY ServiceResumes
