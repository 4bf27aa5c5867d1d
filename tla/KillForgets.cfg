SPECIFICATION Spec
CONSTANTS
  i1 = i1
  i2 = i2
  u1 = u1
  u2 = u2
  b1 = b1
  b2 = b2
  s1 = s1
  s2 = s2
  k1 = k1
  k2 = k2
  l1 = l1
  Instance = {i1}
  Session = {s1, s2}
  User = {u1}
  Browser = {b1, b2}
  Kill = {k1}
  Logout = {}
  UserOf <- SameUser
  BrowserOf <- TwoBrowsers
INVARIANT EveryGrantedIsFindable
