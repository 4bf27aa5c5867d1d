SPECIFICATION Spec
CONSTANTS
  p1 = p1
  p2 = p2
  Absent = Absent
  Empty = Empty
  Mixed = Mixed
  Publisher = {p1, p2}
  Bad = {1}
  MaxVersion = 2
  MaxRestart = 0
SYMMETRY PublisherSymmetry
CONSTRAINT NotShared
INVARIANTS
  WholeUnlessShared
  RunsTheTableUnlessRaced
