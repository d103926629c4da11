\* One request after the other, one of which is killed; a revision; the staff verifies the fact.
\* The answer is clear, or unclear but acknowledged.
SPECIFICATION FairSpec
CONSTANTS
  x = x
  w1 = w1
  w2 = w2
  d1 = d1
  d2 = d2
  None = None
  Target = {x}
  Worker = {w1}
  Delivery = {d1}
  ReceiptOf <- MCReceipt
  Answer = {"planned", "unclear"}
  Event = {"ANSWERED", "NO_ANSWER"}
  Window <- AlwaysOpen
  DueAt = 1
  Deadline = 1
  Horizon = 4
  RetryInterval = 0
  MaxRetries = 1
  Lease = 0
  MaxTime = 1
  MaxCrashes = 1
  MaxRevisions = 1
  StaffStatus = {"OPEN"}
PROPERTIES EveryTargetSettled CrashedSendSurfaces RoundSpec
