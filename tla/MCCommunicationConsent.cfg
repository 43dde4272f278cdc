SPECIFICATION Spec
CONSTANTS
  Request = {r1}
  NoMessage = NoMessage
  DailyLimit = 1
  RetryLimit = 1
  MaxRollbacks = 0
  MaxChanges = 1
  MaxReceipts = 2
PROPERTY MessagesArePermitted
CHECK_DEADLOCK FALSE
