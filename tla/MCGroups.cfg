\* One registration, three calls of syncMembership, an operator who links by hand, and three
\* acts of people; a lease that ends in the next instant.  Beside it a regular group: two
\* operations, two calls, two members, one deed of the staff.
SPECIFICATION GroupsSpec
CONSTANTS
  m1 = m1
  m2 = m2
  w1 = w1
  w2 = w2
  w3 = w3
  o1 = o1
  l1 = l1
  l2 = l2
  a1 = a1
  a2 = a2
  c1 = c1
  c2 = c2
  d1 = d1
  d2 = d2
  None = None
  Member = {m1}
  Call = {w1, w2, w3}
  Operator = {o1}
  List = {l1, l2}
  Account = {a1, a2}
  AccountOf <- MCAccountOf
  FirstAccount = a1
  Contact = {c1, c2}
  Data = {d1, d2}
  Lease = 1
  MaxTime = 1
  MaxChanges = 3
  ListMember = {m1, m2}
  SyncOperation = {c1, c2}
  SyncCall = {w1, w2, w3}
  Clerk = {o1}
  RateWait = 1
  ItemLife = 1
  MaxSyncTime = 2
  MaxDeeds = 1
  NoListMember = NoListMember
INVARIANTS TypeOK CreatedOnce ContactOfBoundList RebindingWaitsForWrites
PROPERTIES SyncReportsHold
SYMMETRY Symmetry
