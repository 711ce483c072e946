CONSTANTS
  t1 = t1
  Threads = {t1}
  Owner = t1
  MaxOrders = 2
  MaxSockets = 3
  MaxRuns = 3
  Size <- MCSize
SPECIFICATION LiveSpec
INVARIANTS
  LiveTypeOK
  RunsShareAnId
  SessionClosedAtExit
  AnnouncedIsSubmitted
PROPERTY CycleEnds
CHECK_DEADLOCK FALSE
