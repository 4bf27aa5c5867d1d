SPECIFICATION Spec
CONSTANTS
  p1 = p1
  p2 = p2
  Absent = Absent
  Empty = Empty
  Mixed = Mixed
  Publisher = {p1}
  Bad = {1}
  MaxVersion = 1
  MaxRestart = 1
INVARIANT ProxyComesUp
