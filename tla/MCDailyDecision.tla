--------------------------- MODULE MCDailyDecision ---------------------------
(* Values of DailyDecision's constants for TLC: both sides of every threshold. *)
EXTENDS DailyDecision

MCSlopes            == {-60, 0, 51, 120}
MCGrowthFactors     == {-100, 0, 20}
MCVolatilityFactors == {-50, 0, 150}
MCTradeReturns      == {-1, 0, 3}
=============================================================================
