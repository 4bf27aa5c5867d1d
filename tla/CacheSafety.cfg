SPECIFICATION Spec
CONSTANTS
  r1 = r1
  r2 = r2
  r3 = r3
  r4 = r4
  ka = ka
  kb = kb
  kc = kc
  ua = ua
  ub = ub
  d1 = d1
  lock1 = lock1
  lock2 = lock2
  Request = {r1, r2, r3, r4}
  Key = {ka, kb, kc}
  Sub = {ua, ub}
  KeyOf <- ThreeKeys
  SubOf <- ThreeSubs
  Shard = {lock1, lock2}
  ShardOf <- ThreeLocks
  Dropper = {d1}
  CAPACITY = 2
  TTL = 1
INVARIANTS
  TypeOK
  CountedOnce
  OneRefresh
  DropsWhatWasThere
  HeldAtWork
