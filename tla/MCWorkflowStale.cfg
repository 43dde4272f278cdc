SPECIFICATION Spec
CONSTANTS
  clerk = clerk
  manager = manager
  execute = execute
  approve = approve
  board = board
  Document <- MCDocument
  NoDocument = NoDocument
  Instance = {i1}
  Task = {k1}
  NoTask = NoTask
  Actor <- MCActor
  Grants <- MCGrants
  Roles <- MCRoles
  NoPermission = NoPermission
  NoRole = NoRole
  Permission <- MCPermission
  LiveRole <- MCLiveRole
  MaxVersion = 1
  MaxMoves = 2
INVARIANT StaleApprovalsAreCancelled
CHECK_DEADLOCK FALSE
