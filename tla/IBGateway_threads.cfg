CONSTANTS
  t1 = t1
  t2 = t2
  Threads = {t1, t2}
  Owner = t1
  MaxOrders = 2
  MaxSockets = 1
  MaxRuns = 1
  Size <- MCSize
SPECIFICATION FairSpec
INVARIANTS
  TypeOK
  UniqueOrderIds
  StoredBeforeSent
  ErrorNeverLive
  SettledWhenReturned
  BookMatchesTws
PROPERTIES
  ImplementsLifecycle
  PendingResolves
