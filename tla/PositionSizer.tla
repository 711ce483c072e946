---------------------------- MODULE PositionSizer ----------------------------
(***************************************************************************)
(* The sizing rules of DataProcessors/PositionSizer.cpp.  Rates are in     *)
(* points, spreads and slopes in basis points, the put/call ratio in       *)
(* hundredths.  A score in [0,1] is a multiple of 1/4200, which makes the  *)
(* score of an integer observable exact; the multiplier is a multiple of   *)
(* 1/5600 and money of its unit, both rounded down.                        *)
(***************************************************************************)
EXTENDS Integers, Sequences, FiniteSetsExt

CONSTANTS
  MaxNotional,    \* constraints.maxNotional
  MinHistory      \* trades needed before Kelly is used (30 in the code)

Lower(a, b)  == IF a < b THEN a ELSE b
Higher(a, b) == IF a > b THEN a ELSE b
Clamp(x, low, high) == Lower(high, Higher(low, x))

-----------------------------------------------------------------------------
(* Regime. *)

RiskLabel(vix, spread) ==
  CASE vix > 30 /\ spread > 250 -> "Risk-Off"
    [] vix < 12 /\ spread < 100 -> "Risk-On"
    [] OTHER -> "Neutral"

ClassifyRegime(vix, move, spread, slope, putCall) ==
  [vixLevel |-> vix, moveIndex |-> move, creditSpread |-> spread,
   yieldCurveSlope |-> slope, putCallRatio |-> putCall, riskLabel |-> RiskLabel(vix, spread)]

\* 4200 times how far x is from low to low + width, within [0,1].
Score(x, low, width) == Clamp((x - low) * (4200 \div width), 0, 4200)

\* Mistake: a flat curve is taken for calm.
StressOfFlatIsCalm(regime) ==
  (8 * Score(regime.vixLevel, 10, 40) + 5 * Score(regime.moveIndex, 80, 70)
   + 3 * Score(regime.creditSpread, 100, 150) + 3 * Score(regime.yieldCurveSlope, 0, 100)
   + Score(regime.putCallRatio, 80, 40)) \div 10

\* The weights 0.4, 0.25, 0.15, 0.15, 0.05 are 8, 5, 3, 3, 1 of 20; the result
\* is 8400 times the stress score.
Stress(regime) ==
  (8 * Score(regime.vixLevel, 10, 40) + 5 * Score(regime.moveIndex, 80, 70)
   + 3 * Score(regime.creditSpread, 100, 150) + 3 * Score(-regime.yieldCurveSlope, -100, 100)
   + Score(regime.putCallRatio, 80, 40)) \div 10

Unit == 5600   \* a multiplier of 1

\* 1 + 1.5 * stress, in units of 1/5600: from 5600 to 14000.
VolatilityMultiplier(regime) == Unit + Stress(regime)

-----------------------------------------------------------------------------
(* Size. *)

Scale(notional, regime) == (notional * Unit) \div VolatilityMultiplier(regime)

\* recommendedNotional; the factor and leverage checks only set flags.
ComputePositionSize(baseNotional, regime) ==
  Higher(0, Lower(Scale(baseNotional, regime), MaxNotional))

Indices(tradeReturns, Test(_)) == {i \in DOMAIN tradeReturns : Test(tradeReturns[i])}

\* estimateWinRate: wins, losses and their totals, from which the rates follow.
EstimateWinRate(tradeReturns) ==
  LET won  == Indices(tradeReturns, LAMBDA r : r > 0)
      lost == Indices(tradeReturns, LAMBDA r : r < 0)
  IN  [wins |-> Cardinality(won), losses |-> Cardinality(lost),
       totalWin  |-> MapThenSumSet(LAMBDA i : tradeReturns[i], won),
       totalLoss |-> MapThenSumSet(LAMBDA i : -tradeReturns[i], lost)]

\* With p = wins/n, q = losses/n and R the ratio of the averages,
\* (p * R - q) / R = wins * (totalWin - totalLoss) / (n * totalWin).  Half of it,
\* at most 1/4, as a pair; zero without an edge, or if all trades went one way.
KellyFraction(e) ==
  LET half == <<e.wins * (e.totalWin - e.totalLoss), 2 * (e.wins + e.losses) * e.totalWin>>
  IN  IF e.wins = 0 \/ e.losses = 0 \/ e.totalWin <= e.totalLoss THEN <<0, 1>>
      ELSE IF 4 * half[1] < half[2] THEN half ELSE <<1, 4>>

\* The Kelly notional is divided by the multiplier here, and again by
\* computePositionSize.
ComputeKellyPositionSize(baseNotional, regime, tradeReturns) ==
  LET kelly == KellyFraction(EstimateWinRate(tradeReturns))
  IN  CASE Len(tradeReturns) < MinHistory -> ComputePositionSize(baseNotional, regime)
        [] Len(tradeReturns) >= MinHistory /\ kelly[1] = 0 ->
             ComputePositionSize(baseNotional \div 10, regime)
        [] OTHER ->
             ComputePositionSize(Scale((baseNotional * kelly[1]) \div kelly[2], regime), regime)
=============================================================================
