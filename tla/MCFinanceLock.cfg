SPECIFICATION Spec
CONSTANTS
  Payment = {p1}
  Adjustment = {a1}
  Period = {q1, q2}
  Home = q1
  Invoice = Invoice
  InvoiceLine = {l1, l2}
  Charged <- MCCharged
  Total = 2
  Retained = 1
INVARIANT LockedPeriodsBlockPostings
CHECK_DEADLOCK FALSE
