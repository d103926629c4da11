\* One-time dispatches, deployments, port allocations, the public gates and the reset form.
CONSTANTS
  one = one
  two = two
  a = a
  b = b
  s1 = s1
  s2 = s2
  v2 = v2
  v3 = v3
  only = only
  OperationKey = {only}
  Actor = {only}
  Draft = {only}
  Person = {a, b}
  Setting = {s1, s2}
  Preparation = {one, two}
  Starter = {only}
  TokenLife = 1
  MaxDispatchTime = 1
  MaxEdits = 1
  Nothing = Nothing
  Pipeline = {one, two}
  Commit = {v2, v3}
  ChainOf <- MCChainOf
  Chain = 3
  Gated = {3}
  TenantBase = 2
  ReviewedBase = 1
  MaxWrites = 1
  MaxActs = 2
  NoOne = NoOne
  Checkout = {a, b}
  Slot = {1, 2}
  Process = {one, two}
  MaxStarts = 2
  MaxAllocations = 2
  Nobody = Nobody
  Tenant = {only}
  Global = Global
  Entry = Entry
  Code = {a, b}
  NoCode = NoCode
  Visitor = {one, two}
  Editor = {only}
  Tries = 1
  WindowLength = 1
  Lifetimes = {1}
  Schedules <- MCSchedules
  MaxGateTime = 1
  MaxChanges = 2
  NoRecord = NoRecord
  Email = {a, b}
  ResetCall = {one, two}
  DuplicateWindow = 2
  GlobalWindow = 1
  ResetRetention = 3
  WindowLimit = 1
  TotalLimit = 2
  MaxResetTime = 3
  NoEmail = NoEmail
SPECIFICATION ServicesSpec
INVARIANTS ServicesTypeOK RowTellsOutside DialsAsConfirmed MigrationsVouchedFor SchemaBeforeCode
  LeasesHold CodeInForceOpens TriesPerWindow ResetsBounded
PROPERTY LeasesSpec
SYMMETRY Symmetric
CHECK_DEADLOCK FALSE
