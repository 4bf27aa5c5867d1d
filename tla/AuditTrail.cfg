SPECIFICATION FairSpec
CONSTANTS
  d1 = d1
  d2 = d2
  d3 = d3
  t1 = t1
  t2 = t2
  e1 = e1
  Decision = {d1, d2, d3}
  Tally = {t1, t2}
  Entry = {e1}
  TallyOf <- TwoTallies
  EntryOf <- OneEntry
  AUDIT_QUEUE = 1
INVARIANTS
  TypeOK
  PlacedOnce
PROPERTIES
  Accounted
  DrainEnds
  Settles
