CONSTANTS
  MaxDate = 6
  Published <- MCPublished
  RollingWindow = 3
  MinWindow = 2
SPECIFICATION Spec
INVARIANT ReturnOfOneIndex
CHECK_DEADLOCK FALSE
