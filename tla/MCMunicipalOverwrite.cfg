\* Two contradictory receipts delivered at the same time.
SPECIFICATION Spec
CONSTANTS
  x = x
  w1 = w1
  w2 = w2
  d1 = d1
  d2 = d2
  None = None
  Target = {x}
  Worker = {w1}
  Delivery = {d1, d2}
  ReceiptOf <- MCReceipt
  Answer = {"planned", "concern"}
  Event = {"ANSWERED"}
  Window <- AlwaysOpen
  DueAt = 3
  Deadline = 3
  Horizon = 4
  RetryInterval = 1
  MaxRetries = 1
  Lease = 1
  MaxTime = 3
  MaxCrashes = 1
  MaxRevisions = 0
  StaffStatus = {}
INVARIANT AnswerNotOverwritten
