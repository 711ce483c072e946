---------------------------- MODULE DailyDecision ----------------------------
(***************************************************************************)
(* What a trading day decides, from the market data to the direction and   *)
(* the size of the position: the data point Backtester::fetchHistoricalData *)
(* builds (Backtester.cpp:501-523), the signal and the size Backtester::run *)
(* takes from it (68-86), and the trade returns that feed back into the    *)
(* size (96-106).                                                          *)
(*                                                                         *)
(* One step is a day on which one series has a new value; a day on which   *)
(* several have one is several steps.  The size of a day is taken from the *)
(* trades closed before it, as in the code, where sizing precedes the      *)
(* bookkeeping of trades.                                                  *)
(***************************************************************************)
EXTENDS PositionSizer, SignalGenerator

CONSTANTS
  VixLevels, Slopes, GrowthFactors, VolatilityFactors,   \* values the series take
  TradeReturns,                \* returns a closed trade can have, zero included
  BaseNotional,                \* config.baseNotional
  MaxTrades                    \* bound: length of the trade history

ASSUME SeriesAssumption ==
  /\ VixLevels \subseteq Nat
  /\ Slopes \cup GrowthFactors \cup VolatilityFactors \cup TradeReturns \subseteq Int
\* The maximum is twice the base in the code (Backtester.cpp:48).
ASSUME SizingAssumption ==
  /\ BaseNotional \in Nat \ {0} /\ MaxNotional \in Nat /\ MaxNotional >= BaseNotional
  /\ MinHistory \in Nat /\ MaxTrades \in Nat

VARIABLES
  market,       \* the day's values of the series
  direction, conviction, recommendedNotional,   \* the day's decision
  tradeReturns  \* returns of the trades closed so far

vars == <<market, direction, conviction, recommendedNotional, tradeReturns>>

Markets ==
  [vix : VixLevels, slope : Slopes, growth : GrowthFactors, volatility : VolatilityFactors]

-----------------------------------------------------------------------------
(* The data point of a day. *)

\* The history has no series for the spread, MOVE and the put/call ratio: they
\* are estimated from the VIX.
EstimatedSpread(vix)  == Clamp(100 + (vix - 15) * 5, 50, 500)
EstimatedMOVE(vix)    == Clamp(80 + (vix - 15) * 2, 60, 200)
EstimatedPutCall(vix) == Clamp(90 + (vix - 20), 50, 180)

Regime(m) ==
  ClassifyRegime(m.vix, EstimatedMOVE(m.vix), EstimatedSpread(m.vix), m.slope,
                       EstimatedPutCall(m.vix))

Observables(m) ==
  [vixLevel |-> Regime(m).vixLevel, yieldCurveSlope |-> m.slope, growthFactor |-> m.growth,
   volatilityFactor |-> m.volatility, riskLabel |-> Regime(m).riskLabel]

\* The size of a day with market m after the trades h.
SizeAfter(m, h) == ComputeKellyPositionSize(BaseNotional, Regime(m), h)

-----------------------------------------------------------------------------

Decide(m, h) ==
  /\ market' = m
  /\ direction' = Direction(Observables(m))
  /\ conviction' = Conviction(Observables(m))
  /\ recommendedNotional' = SizeAfter(m, h)

\* The first day: no trade is open and none was closed.
Init ==
  /\ market \in Markets
  /\ direction = Direction(Observables(market))
  /\ conviction = Conviction(Observables(market))
  /\ recommendedNotional = SizeAfter(market, << >>)
  /\ tradeReturns = << >>

\* Mistake: the trade that the day closes already counts for its size.
TradeDayCountedEarly(m, ret) ==
  /\ direction # "FLAT" /\ Direction(Observables(m)) # direction
  /\ Len(tradeReturns) < MaxTrades
  /\ tradeReturns' = IF ret = 0 THEN tradeReturns ELSE Append(tradeReturns, ret)
  /\ Decide(m, tradeReturns')

\* A day that turns away from an open position closes its trade, with return ret.
TradeDay(m, ret) ==
  /\ direction # "FLAT" /\ Direction(Observables(m)) # direction
  /\ Len(tradeReturns) < MaxTrades
  /\ tradeReturns' = IF ret = 0 THEN tradeReturns ELSE Append(tradeReturns, ret)
  /\ Decide(m, tradeReturns)

\* Any other day closes no trade.
QuietDay(m) ==
  /\ direction = "FLAT" \/ Direction(Observables(m)) = direction
  /\ UNCHANGED tradeReturns
  /\ Decide(m, tradeReturns)

\* The markets in which one series differs from the day before.
NextMarkets ==
  {[market EXCEPT !.vix = v] : v \in VixLevels} \cup {[market EXCEPT !.slope = s] : s \in Slopes}
    \cup {[market EXCEPT !.growth = g] : g \in GrowthFactors}
    \cup {[market EXCEPT !.volatility = v] : v \in VolatilityFactors}

Next ==
  \E m \in NextMarkets : QuietDay(m) \/ \E ret \in TradeReturns : TradeDay(m, ret)

Spec == Init /\ [][Next]_vars

-----------------------------------------------------------------------------
(* Safety. *)

\* Type invariant.
TypeOK ==
  /\ market \in Markets
  /\ direction \in {"LONG", "SHORT", "FLAT"}
  /\ conviction \in 0 .. 10000
  /\ recommendedNotional \in 0 .. BaseNotional
  /\ tradeReturns \in Seq(TradeReturns \ {0})

\* The day's direction never goes against its regime: no LONG in Risk-Off, no
\* SHORT in Risk-On.  It rests on two classifications that do not know of each
\* other: the regime's thresholds (PositionSizer.cpp:121-127) imply the signal's
\* own VIX vote (SignalGenerator.cpp:64-72), and two votes against are a veto
\* (112-118).
NoContrarianTrade ==
  /\ direction = "LONG"  => Regime(market).riskLabel # "Risk-Off"
  /\ direction = "SHORT" => Regime(market).riskLabel # "Risk-On"

\* No single series turns a LONG into a SHORT, or back, except the VIX, and then
\* only by a jump across both regime borders, 12 and 45 (the spread estimated
\* from it must cross 100 and 250, Backtester.cpp:503): one noisy growth,
\* curve or volatility reading never reverses the position.
OnlyVixShocksReverse ==
  [][{direction, direction'} = {"LONG", "SHORT"} =>
       /\ market' = [market EXCEPT !.vix = market'.vix]
       /\ Lower(market.vix, market'.vix) < 12
       /\ Higher(market.vix, market'.vix) > 45]_vars

\* A more stressed market never makes the position larger than it would have
\* been, the trades being the same: neither a higher VIX, through the four scores
\* that depend on it, nor a flatter curve (PositionSizer.cpp:174-205, 394-440).
StressNeverEnlarges ==
  [][market'.vix >= market.vix /\ market'.slope <= market.slope
       => recommendedNotional' <= SizeAfter(market, tradeReturns)]_vars

\* From the day on which there are MinHistory trades the size is never more than
\* a quarter of what volatility scaling alone would give, whatever the trades
\* were; before it is all of it.  The trades that count are those closed before
\* the day (Backtester.cpp:79-86, PositionSizer.cpp:329-440).
KellyCapsTheSize ==
  [][LET full == ComputePositionSize(BaseNotional, Regime(market'))
     IN  IF Len(tradeReturns) >= MinHistory
         THEN 4 * recommendedNotional' <= full
         ELSE recommendedNotional' = full]_vars

-----------------------------------------------------------------------------
(* What comments say, and the code does not do. *)

\* SignalGenerator.hpp:49-51 "LONG when: regime=Risk-On, growth factor positive,
\* VIX < 20, curve steep ... FLAT otherwise".
LongNeedsRiskOn ==
  direction = "LONG" =>
    /\ Regime(market).riskLabel = "Risk-On"
    /\ market.growth > 0 /\ market.vix < 20 /\ market.slope > 50
=============================================================================
