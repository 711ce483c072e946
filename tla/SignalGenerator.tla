--------------------------- MODULE SignalGenerator ---------------------------
(***************************************************************************)
(* The trade signal of DataProcessors/SignalGenerator.cpp.  An indicator   *)
(* leans to LONG (1), to SHORT (-1) or nowhere (0), and has a strength in  *)
(* percent.  The growth and volatility factors are in hundredths; the      *)
(* conviction is in hundredths of a percent.                               *)
(***************************************************************************)
EXTENDS Integers, FiniteSets

Indicators == {"regime", "vix", "growth", "curve", "volatility"}

Absolute(x) == IF x < 0 THEN -x ELSE x

Lean(bullish, bearish) == CASE bullish -> 1 [] bearish -> -1 [] OTHER -> 0

\* Mistake: the strength of an indicator is not limited.
StrengthUnlimited(x) == x

Strength(x) == IF x > 100 THEN 100 ELSE x

\* o is what generateSignalFromObservables is given: vixLevel, yieldCurveSlope,
\* growthFactor, volatilityFactor and riskLabel.
Leaning(o) ==
  [regime |-> Lean(o.riskLabel = "Risk-On", o.riskLabel = "Risk-Off"),
   vix    |-> Lean(o.vixLevel < 20, o.vixLevel > 30),
   growth |-> Lean(o.growthFactor > 0, o.growthFactor < 0),
   curve  |-> Lean(o.yieldCurveSlope > 50, o.yieldCurveSlope < 0),
   volatility |-> Lean(o.volatilityFactor < 0, o.volatilityFactor > 0)]

\* How strongly each indicator speaks, whichever side it is on.
Strengths(o) ==
  LET side == Leaning(o)
  IN  [regime |-> IF side.regime = 0 THEN 50 ELSE 100,
       vix    |-> CASE side.vix = 1  -> Strength((20 - o.vixLevel) * 10)
                    [] side.vix = -1 -> Strength((o.vixLevel - 30) * 5)
                    [] OTHER -> 0,
       growth |-> Strength(Absolute(o.growthFactor)),
       curve  |-> CASE side.curve = 1  -> Strength(o.yieldCurveSlope - 50)
                    [] side.curve = -1 -> Strength(-o.yieldCurveSlope)
                    [] OTHER -> 0,
       volatility |-> Strength(Absolute(o.volatilityFactor))]

ComputeConviction(s) ==
  30 * s.regime + 25 * s.growth + 20 * s.vix + 15 * s.curve + 10 * s.volatility

MinConviction == 3000

Count(o, side) == Cardinality({i \in Indicators : Leaning(o)[i] = side})

\* Mistake: two indicators may be against.
AgreedWithTwoAgainst(o, side) ==
  /\ Count(o, side) >= 3 /\ Count(o, -side) <= 2
  /\ ComputeConviction(Strengths(o)) >= MinConviction

\* Three indicators for a side, at most one against it, and enough conviction.
Agreed(o, side) ==
  /\ Count(o, side) >= 3 /\ Count(o, -side) <= 1
  /\ ComputeConviction(Strengths(o)) >= MinConviction

\* Mistake: a majority is enough.
DirectionOfMajority(o) ==
  CASE Count(o, 1) > Count(o, -1) -> "LONG"
    [] Count(o, 1) < Count(o, -1) -> "SHORT"
    [] OTHER -> "FLAT"

Direction(o) ==
  CASE Agreed(o, 1)  -> "LONG"
    [] Agreed(o, -1) -> "SHORT"
    [] OTHER -> "FLAT"

\* An ambiguous signal keeps half its conviction.
Conviction(o) ==
  LET raw == ComputeConviction(Strengths(o))
  IN  IF Direction(o) = "FLAT" THEN raw \div 2 ELSE raw

-----------------------------------------------------------------------------
(* The signal from a factor decomposition. *)

\* Of the first factor with a label it matters whether its variance is above 0.5
\* ("strong") or not ("weak"); "none" if there is no such factor.
FactorKinds == {"none", "weak", "strong"}
Factors     == [{"Growth", "Volatility"} -> FactorKinds]

\* Mistake: a label that no factor has counts like a weak factor.
FactorValueOfAny(factors, label) == IF factors[label] = "strong" THEN 50 ELSE -50

\* A decomposition has no series of factor values, so that the variance of the
\* factor stands for its value.
FactorValue(factors, label) ==
  CASE factors[label] = "none" -> 0
    [] factors[label] = "strong" -> 50
    [] factors[label] = "weak" -> -50

GenerateSignal(regime, factors) ==
  Direction([vixLevel |-> regime.vixLevel, yieldCurveSlope |-> regime.yieldCurveSlope,
             growthFactor |-> FactorValue(factors, "Growth"),
             volatilityFactor |-> FactorValue(factors, "Volatility"),
             riskLabel |-> regime.riskLabel])
=============================================================================
