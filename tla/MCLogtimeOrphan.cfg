SPECIFICATION Spec
CONSTANTS
  Name = {"n1", "n2"}
  NSEC = 2
  IntHalf = 2
  Seconds = {0, 2}
  MaxId = 3
  MaxRows = 2
INVARIANT ForeignKey
