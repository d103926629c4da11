\* Two cron requests that overlap, one receipt, events in any order, one retry.
SPECIFICATION Spec
CONSTANTS
  x = x
  w1 = w1
  w2 = w2
  d1 = d1
  d2 = d2
  None = None
  Target = {x}
  Worker = {w1, w2}
  Delivery = {d1}
  ReceiptOf <- MCReceipt
  Answer = {"planned", "unacknowledged"}
  Event = {"ANSWERED", "NO_ANSWER"}
  Window <- AlwaysOpen
  DueAt = 2
  Deadline = 2
  Horizon = 4
  RetryInterval = 0
  MaxRetries = 1
  Lease = 0
  MaxTime = 1
  MaxCrashes = 0
  MaxRevisions = 0
  StaffStatus = {}
INVARIANTS AtMostOneCallPerAttempt RetryFollowsFailedCall OutcomeFollowsEvidence
PROPERTY AnsweredIsFinal
SYMMETRY Symmetry
