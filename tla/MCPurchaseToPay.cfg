SPECIFICATION SideSpec
CONSTANTS
  i1 = i1
  g1 = g1
  g2 = g2
  hand = hand
  Item = {i1}
  NoItem = NoItem
  Vendor = {v1, v2}
  Line <- MCLine
  Receipt <- MCReceipt
  Manual <- MCManual
  Source <- MCSource
  Quantity <- MCQuantity
  Cost <- MCCost
  Payment = {p1, p2}
  Adjustment = {a1}
  Period = {q1, q2}
  Home = q1
  Invoice = Invoice
  InvoiceLine = {l1, l2}
  Charged <- MCCharged
  Total = 2
  Retained = 1
INVARIANTS StockIsLedger ValueIsConserved OneAward ReceivedIsBooked
INVARIANTS LedgerAgrees BooksClose OwnPeriodFenced
CHECK_DEADLOCK FALSE
