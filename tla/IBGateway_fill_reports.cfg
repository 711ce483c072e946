CONSTANTS
  t1 = t1
  Threads = {t1}
  Owner = t1
  MaxOrders = 1
  MaxSockets = 2
  MaxRuns = 2
  Size <- MCSize
SPECIFICATION Spec
PROPERTY FillReportsAreTaken
