SPECIFICATION Spec
CONSTANTS
  p1 = p1
  p2 = p2
  p3 = p3
  Pid = {p1, p2}
  Digits <- MCDigits
  Port = {48807}
  Forking = {TRUE, FALSE}
INVARIANT PidfileRemoved
