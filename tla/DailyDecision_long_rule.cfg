CONSTANTS
  VixLevels = {11, 12, 19, 25, 31, 45, 46, 60}
  Slopes <- MCSlopes
  GrowthFactors <- MCGrowthFactors
  VolatilityFactors <- MCVolatilityFactors
  TradeReturns <- MCTradeReturns
  BaseNotional = 10000
  MaxNotional = 20000
  MinHistory = 3
  MaxTrades = 3
SPECIFICATION Spec
INVARIANT
  LongNeedsRiskOn
