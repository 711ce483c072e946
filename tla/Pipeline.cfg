CONSTANTS
  TradingDaysPerMonth = 21
  TargetMonths = 12
  LookbackMonths = 6
  MaxDay = 2
  Stored <- MCStored
  Gaps <- MCGaps
  VixDays = {0, 30}
SPECIFICATION Spec
INVARIANTS
  TypeOK
  AlignedAges
  EveryResultOverruns
  YieldsStopTheRun
  SignalOfTwoVariances
