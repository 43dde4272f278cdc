SPECIFICATION Spec
CONSTANTS
  User = User
  Session = {s1, s2}
  MaxTokens = 3
  MaxPassword = 1
  MaxLinks = 2
INVARIANTS LinearFamily RevokedWithFamily SweepIsComplete OnlyNewestLink
CHECK_DEADLOCK FALSE
