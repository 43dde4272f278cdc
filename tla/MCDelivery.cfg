SPECIFICATION DeliverySpec
CONSTANTS
  ann = ann
  bob = bob
  x = x
  y = y
  m1 = m1
  m2 = m2
  n1 = n1
  n2 = n2
  phone = phone
  tablet = tablet
  ByWeb = ByWeb
  Meter <- MCMeter
  Visit <- MCVisit
  Device <- MCDevice
  DeviceOf <- MCDeviceOf
  ReadingOf <- MCReadingOf
  WebReading <- MCWebReading
  MaxNumber = 4
INVARIANTS AppliedExactlyOnce MeterRunsForward FirstSubmissionWins CheckpointWasAnswered
INVARIANTS NothingTwice WorkIsReviewed RecordsAreLinked TotalsAgree
PROPERTIES FinalStays
CHECK_DEADLOCK FALSE
