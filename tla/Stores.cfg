SPECIFICATION Spec
CONSTANTS
  u1 = u1
  g1 = g1
  g2 = g2
  p1 = p1
  p2 = p2
  k1 = k1
  k2 = k2
  m1 = m1
  m2 = m2
  c1 = c1
  c2 = c2
  Slug <- TwoSlugs
  NameOf <- OneName
  Sub = {u1}
  Group = {g1, g2}
  Groups <- OneMember
  MaxId = 2
  MaxEnt = 2
  Pass = {p1, p2}
  Months = 1
  Limit = 1
  MaxMonth = 2
  MaxRow = 3
  SessionKey = {k1, k2}
  Miss = {m1, m2}
  INDEX_TTL = 2
  cookie_expire = 2
  MaxClock = 6
  User = {"root", "user"}
  KGroup = {"admins", "auditors", "staff"}
  ADMIN_GROUP = "admins"
  AUDITOR_GROUP = "auditors"
  Request <- Requests
  ResetCall = {c1, c2}
  GROUPS_READ = 1
  MaxOtp = 2
SYMMETRY StoreSymmetry
INVARIANTS
  TypeOK
  AnswerFromTheTable
  PortalAgrees
  KeptLongEnough
  PassCleans
  PagesExact
  RecordedIsFindable
  NoPrivilegedReset
  OkMeansGone
PROPERTY
  NewFactorStays
