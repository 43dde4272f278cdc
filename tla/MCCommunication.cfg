SPECIFICATION Spec
CONSTANTS
  Request = {r1, r2}
  NoMessage = NoMessage
  DailyLimit = 1
  RetryLimit = 1
  MaxRollbacks = 1
  MaxChanges = 1
  MaxReceipts = 2
INVARIANTS SendBudget AppliedOnce StatusWasTold
CHECK_DEADLOCK FALSE
