\* Two calls with two keys across the end of a month.
SPECIFICATION FairSpec
CONSTANTS
  Call = {c1, c2}
  Key = {k1, k2}
  Limit = {1}
  MaxRevision = 2
  MaxMonth = 1
  None = None
INVARIANT UsageIsCounted
PROPERTIES AdmittedWithinLimits QuotaSpec EveryCallAnswered
