SPECIFICATION Spec
CONSTANTS
  clerk = clerk
  manager = manager
  execute = execute
  approve = approve
  board = board
  Document <- MCDocument
  NoDocument = NoDocument
  Instance = {i1}
  Task = {k1, k2}
  NoTask = NoTask
  Actor <- MCActor
  Grants <- MCGrants
  Roles <- MCRoles
  NoPermission = NoPermission
  NoRole = NoRole
  Permission <- MCPermission
  LiveRole <- MCLiveRole
  MaxVersion = 2
  MaxMoves = 3
INVARIANTS LogIsHistory ApprovalsSpentOnce
PROPERTIES RunsAsProcess TransitionsLeaveWhatWasSeen
CHECK_DEADLOCK FALSE
