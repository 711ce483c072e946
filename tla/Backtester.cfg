CONSTANTS
  InitialCapital = 100
  CommissionPerTrade = 1
  Slippage = 1
  Notionals = {2, 5}
  Returns <- MCReturns
  MaxDays = 4
  VaRPerUnit = 2
  MaxHistory = 3
SPECIFICATION Spec
INVARIANTS
  TypeOK
  TradesAreHoldingPeriods
  NavIsAccountedFor
  DrawdownIsPeakToTrough
  MonitorSeesTheSameBreaches
CHECK_DEADLOCK FALSE
