SPECIFICATION Spec
CONSTANTS
  ann = ann
  bob = bob
INVARIANTS OnlyOnce RecordsAreBacked MoneyIsTraced StartedWasApproved FiguresAgree SealedAndClosed
CHECK_DEADLOCK FALSE
