SPECIFICATION FairSpec
CONSTANTS
  p1 = p1
  p2 = p2
  Absent = Absent
  Empty = Empty
  Mixed = Mixed
  Publisher = {p1}
  Bad = {1}
  MaxVersion = 2
  MaxRestart = 1
INVARIANTS
  TypeOK
  LiveParses
PROPERTIES
  NeverBack
  StagedIsSettled
