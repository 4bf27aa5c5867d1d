SPECIFICATION Spec
CONSTANTS
  p1 = p1
  p2 = p2
  Absent = Absent
  Empty = Empty
  Mixed = Mixed
  Publisher = {p1, p2}
  Bad = {}
  MaxVersion = 1
  MaxRestart = 0
INVARIANT ReloaderSeesWholeFiles
