\* Every request is answered.
CONSTANTS
  t1 = t1
  t2 = t2
  t3 = t3
  Tx = {t1, t2, t3}
  k1 = k1
  a1 = a1
  a2 = a2
  i1 = i1
  i2 = i2
  r1 = r1
  r2 = r2
  s1 = s1
  s2 = s2
  s3 = s3
  m1 = m1
  None = None
  ApiKey = {k1}
  Ani = {a1}
  IdemKey = {i1, i2}
  Ref = {r1, r2}
  Slot = {s1, s2, s3}
  Month = {m1}
  Retention = 1
  MaxTime = 0
  MaxAborts = 0
  MonthOf <- MCMonthOf
  Capacity <- MCCapacity
  Bookable <- MCBookable
  InRange <- MCInRange
  hashtext <- MCHash
  Request <- ContendingRequests
SPECIFICATION FairSpec
PROPERTY EveryRequestAnswered
