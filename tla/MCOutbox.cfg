SPECIFICATION FairSpec
CONSTANTS
  Event = {e1, e2}
  Worker = {w1, w2}
  NoEvent = NoEvent
  NoToken = NoToken
  Orphan = Orphan
  BatchSize = 2
  MaxAttempts = 2
  MaxCrashes = 1
  MaxTakeovers = 2
INVARIANTS HonestReceipts SingleHolder CallBudget
PROPERTIES FencedOutcomes NeverStuck
CHECK_DEADLOCK FALSE
