CONSTANTS
  MaxDate = 6
  Published <- MCPublished
  RollingWindow = 3
  MinWindow = 2
SPECIFICATION Spec
INVARIANTS
  TypeOK
  NoLookAhead
  FilledFromNewest
  ReturnsChain
  ChangeSeenOnce
  WindowsAligned
  EquityAloneDecides
CHECK_DEADLOCK FALSE
