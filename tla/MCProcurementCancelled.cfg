SPECIFICATION ProcurementSpec
CONSTANTS
  i1 = i1
  g1 = g1
  g2 = g2
  hand = hand
  Item = {i1}
  NoItem = NoItem
  Vendor = {v1, v2}
  Line <- MCLine
  Receipt <- MCReceipt
  Manual <- MCManual
  Source <- MCSource
  Quantity <- MCQuantity
  Cost <- MCCost
PROPERTY CancelledOrdersStayCancelled
CHECK_DEADLOCK FALSE
