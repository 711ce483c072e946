------------------------------ MODULE Backtester ------------------------------
(***************************************************************************)
(* The simulation loop of DataProcessors/Backtester.cpp (run) and the      *)
(* report the backtest mode of MultiVarAnalysisWorkflow.cpp makes of it    *)
(* with a VaRMonitor.                                                      *)
(*                                                                         *)
(* One step is one day of the loop.  What a day brings is chosen from sets: *)
(* the direction SignalGenerator gives, the notional PositionSizer gives   *)
(* times the conviction, and the return of ES.  Money is counted in        *)
(* integers: a position is a number of units, a return is in percent, and  *)
(* money is in units times percent, so position * return is exact.  Ratios *)
(* of money are pairs and are compared by cross-multiplication.            *)
(***************************************************************************)
EXTENDS Integers, Sequences, FiniteSetsExt

CONSTANTS
  InitialCapital, CommissionPerTrade,
  Slippage,      \* cost of a trade per unit of notional
  Notionals,     \* sizes a non-FLAT day can have
  Returns,       \* daily returns of ES
  MaxDays,       \* bound: days of history
  VaRPerUnit, MaxHistory   \* of the VaRMonitor

ASSUME MoneyAssumption ==
  /\ InitialCapital \in Nat \ {0}
  /\ CommissionPerTrade \in Nat /\ Slippage \in Nat
  /\ Notionals \subseteq Nat \ {0} /\ Returns \subseteq Int
  /\ MaxDays \in Nat
  /\ VaRPerUnit \in Nat /\ MaxHistory \in Nat \ {0}

VARIABLES
  phase,               \* "loop", then "report", then "done"
  portfolioValue, peakValue, maxDrawdown, maxDrawdownDollar, cumulativePnl,
  numTrades, varBreaches,
  previousSignal, tradeReturns, currentTradeReturn, inTrade,
  dailyPnls,           \* result.dailyPnls, one record per day so far
  history,             \* of the VaRMonitor
  replayed             \* days fed to the VaRMonitor

Monitor == INSTANCE VaRMonitor

money   == <<portfolioValue, peakValue, maxDrawdown, maxDrawdownDollar, cumulativePnl>>
counts  == <<numTrades, varBreaches>>
trade   == <<previousSignal, tradeReturns, currentTradeReturn, inTrade>>
vars    == <<phase, money, counts, trade, dailyPnls, history, replayed>>

SignalDirection == {"LONG", "SHORT", "FLAT"}

Sign(direction) == CASE direction = "LONG" -> 1 [] direction = "SHORT" -> -1 [] OTHER -> 0

Larger(a, b) == IF a > b THEN a ELSE b

\* Ratios <<n, d>> with d > 0.
Exceeds(a, b) == a[1] * b[2] > b[1] * a[2]

DailyPnL ==
  [signal : SignalDirection, position : Int, dailyReturn : Returns, pnl : Int,
   cumulativePnl : Int, portfolioValue : Int, predictedVaR : Nat]

\* Type invariant: the loop's locals and the result.
TypeOK ==
  /\ phase \in {"loop", "report", "done"}
  /\ {portfolioValue, cumulativePnl, currentTradeReturn} \subseteq Int
  /\ peakValue \in Nat \ {0} /\ maxDrawdownDollar \in Nat
  /\ maxDrawdown \in Nat \X (Nat \ {0})
  /\ numTrades \in 0 .. MaxDays /\ varBreaches \in 0 .. MaxDays
  /\ previousSignal \in SignalDirection /\ inTrade \in BOOLEAN
  /\ tradeReturns \in Seq(Int \ {0})
  /\ dailyPnls \in Seq(DailyPnL)
  /\ Len(history) <= MaxHistory /\ replayed \in 0 .. Len(dailyPnls)

Init ==
  /\ phase = "loop"
  /\ portfolioValue = InitialCapital /\ peakValue = InitialCapital
  /\ maxDrawdown = <<0, 1>> /\ maxDrawdownDollar = 0 /\ cumulativePnl = 0
  /\ numTrades = 0 /\ varBreaches = 0
  /\ previousSignal = "FLAT" /\ tradeReturns = << >>
  /\ currentTradeReturn = 0 /\ inTrade = FALSE
  /\ dailyPnls = << >>
  /\ Monitor!InitMonitor /\ replayed = 0

-----------------------------------------------------------------------------
(* One day. *)

\* Mistake: a trade that did not move is recorded too.
WithEveryTrade == IF inTrade THEN Append(tradeReturns, currentTradeReturn) ELSE tradeReturns

\* A return is pushed only for an open trade that moved.
WithClosedTrade ==
  IF inTrade /\ currentTradeReturn # 0
  THEN Append(tradeReturns, currentTradeReturn)
  ELSE tradeReturns

\* Mistake: a change of direction does not reset the running return.
TradeWithoutReset(direction, ret) ==
  /\ previousSignal' = direction
  /\ currentTradeReturn' = currentTradeReturn + Sign(direction) * ret
  /\ tradeReturns' = IF direction # previousSignal THEN WithClosedTrade ELSE tradeReturns
  /\ inTrade' = (direction # "FLAT")

\* The trade statistics: a change of direction closes the open trade, and the
\* day's return, signed by the position, goes to the trade that is open now.
TrackTrade(direction, ret) ==
  /\ previousSignal' = direction
  /\ IF direction # previousSignal
     THEN /\ tradeReturns' = WithClosedTrade
          /\ inTrade' = (direction # "FLAT")
          /\ currentTradeReturn' = Sign(direction) * ret
     ELSE /\ currentTradeReturn' = currentTradeReturn + Sign(direction) * ret
          /\ UNCHANGED <<tradeReturns, inTrade>>

\* Mistake: a turn to FLAT costs nothing.
CostOfEntry(direction, position) ==
  IF direction # previousSignal /\ direction # "FLAT"
  THEN CommissionPerTrade + Monitor!Magnitude(position) * Slippage
  ELSE 0

\* Commission and slippage are taken when the direction changes, on the new
\* position, and from the portfolio value alone.
Cost(direction, position) ==
  IF direction # previousSignal
  THEN CommissionPerTrade + Monitor!Magnitude(position) * Slippage
  ELSE 0

\* Mistake: the drawdown is taken from the initial capital.
DrawdownFromStart(value) ==
  /\ peakValue' = Larger(peakValue, value)
  /\ maxDrawdownDollar' = Larger(maxDrawdownDollar, InitialCapital - value)
  /\ maxDrawdown' = IF Exceeds(<<InitialCapital - value, InitialCapital>>, maxDrawdown)
                    THEN <<InitialCapital - value, InitialCapital>> ELSE maxDrawdown

\* Peak and drawdown, after the day's costs and P&L.
TrackDrawdown(value) ==
  LET peak == Larger(peakValue, value)
      drawdown == <<peak - value, peak>>
  IN  /\ peakValue' = peak
      /\ maxDrawdown' = IF Exceeds(drawdown, maxDrawdown) THEN drawdown ELSE maxDrawdown
      /\ maxDrawdownDollar' = Larger(maxDrawdownDollar, peak - value)

Day(direction, notional, ret) ==
  LET position == Sign(direction) * notional
      pnl == position * ret
      value == portfolioValue - Cost(direction, position) + pnl
      predicted == Monitor!ComputeDailyVaR(position)
  IN  /\ phase = "loop" /\ Len(dailyPnls) < MaxDays
      /\ numTrades' = numTrades + (IF direction # previousSignal THEN 1 ELSE 0)
      /\ TrackTrade(direction, ret)
      /\ portfolioValue' = value
      /\ cumulativePnl' = cumulativePnl + pnl
      /\ TrackDrawdown(value)
      /\ varBreaches' = varBreaches + (IF Monitor!CheckVaRBreach(pnl, predicted) THEN 1 ELSE 0)
      /\ dailyPnls' = Append(dailyPnls,
           [signal |-> direction, position |-> position, dailyReturn |-> ret, pnl |-> pnl,
            cumulativePnl |-> cumulativePnl', portfolioValue |-> value,
            predictedVaR |-> predicted])
      /\ UNCHANGED <<phase, history, replayed>>

\* The history is over: the open trade is closed and the result returned.
Finish ==
  /\ phase = "loop" /\ dailyPnls # << >>
  /\ phase' = "report"
  /\ tradeReturns' = WithClosedTrade
  /\ UNCHANGED <<money, counts, previousSignal, currentTradeReturn, inTrade, dailyPnls, history, replayed>>

\* The backtest mode feeds the recorded days, in order, to a fresh monitor.
Report ==
  /\ phase = "report"
  /\ replayed < Len(dailyPnls)
  /\ replayed' = replayed + 1
  /\ Monitor!UpdatePosition(dailyPnls[replayed'].position, dailyPnls[replayed'].pnl)
  /\ phase' = IF replayed' = Len(dailyPnls) THEN "done" ELSE "report"
  /\ UNCHANGED <<money, counts, trade, dailyPnls>>

Next ==
  \/ \E direction \in {"LONG", "SHORT"}, notional \in Notionals, ret \in Returns :
       Day(direction, notional, ret)
  \/ \E ret \in Returns : Day("FLAT", 0, ret)
  \/ Finish \/ Report

Spec == Init /\ [][Next]_vars

-----------------------------------------------------------------------------
(* Safety. *)

Days == 1 .. Len(dailyPnls)

SignalBefore(i) == IF i = 1 THEN "FLAT" ELSE dailyPnls[i - 1].signal

\* Days on which the direction is not that of the day before.
Turns == {i \in Days : dailyPnls[i].signal # SignalBefore(i)}

\* A holding period runs from the turn that opens it to the last day before the
\* next turn.
Entries == {i \in Turns : dailyPnls[i].signal # "FLAT"}
Period(i) == {j \in Days : j >= i /\ \A k \in Turns : k > i => k > j}
PeriodReturn(i) ==
  MapThenSumSet(LAMBDA j : Sign(dailyPnls[j].signal) * dailyPnls[j].dailyReturn, Period(i))

\* A period is finished by the next turn, or by the end of the history.
Finished == {i \in Entries : phase # "loop" \/ \E k \in Turns : k > i}

\* The trade statistics hold one return per finished period that moved, in order,
\* and that return is the sum of the period's signed daily returns; the period
\* still open is the running return until the end of the history closes it
\* (Backtester.cpp:96-118, 166-169).
TradesAreHoldingPeriods ==
  LET moved == {i \in Finished : PeriodReturn(i) # 0}
  IN  /\ Len(tradeReturns) = Cardinality(moved)
      /\ \A i \in moved : tradeReturns[Cardinality({k \in moved : k <= i})] = PeriodReturn(i)

\* Nothing is earned or lost that is not in the records: the portfolio value is
\* the capital plus every day's P&L less what the turns cost, although costs are
\* in no record and not in cumulativePnl (Backtester.cpp:107-121).
NavIsAccountedFor ==
  /\ cumulativePnl = MapThenSumSet(LAMBDA i : dailyPnls[i].pnl, Days)
  /\ portfolioValue = InitialCapital + cumulativePnl
       - Cardinality(Turns) * CommissionPerTrade
       - Slippage * MapThenSumSet(LAMBDA i : Monitor!Magnitude(dailyPnls[i].position), Turns)
  /\ numTrades = Cardinality(Turns)

\* Value i of the series computeMaxDrawdown would be given: day 0 is the capital.
Value(i) == IF i = 0 THEN InitialCapital ELSE dailyPnls[i].portfolioValue

\* The drawdown the loop keeps day by day is the largest fall from any earlier
\* value of the recorded series, in percent of that value and in dollars
\* (Backtester.cpp:127-139 against computeMaxDrawdown, 561-576), while the
\* portfolio is worth something.
DrawdownIsPeakToTrough ==
  LET Falls == {f \in (0 .. Len(dailyPnls)) \X (0 .. Len(dailyPnls)) : f[1] <= f[2]}
      Fall(f) == Value(f[1]) - Value(f[2])
      Percent(f) == <<Fall(f), Value(f[1])>>
  IN  (\A i \in 0 .. Len(dailyPnls) : Value(i) > 0) =>
        /\ \A f \in Falls : ~Exceeds(Percent(f), maxDrawdown) /\ Fall(f) <= maxDrawdownDollar
        /\ \E f \in Falls : ~Exceeds(maxDrawdown, Percent(f))
        /\ \E f \in Falls : Fall(f) = maxDrawdownDollar

\* The monitor holds the days most recently fed to it, at most MAX_HISTORY, and
\* its breach count is the loop's whenever no day was dropped, although the two
\* compute it apart (Backtester.cpp:141-148, VaRMonitor.cpp:17-47).
MonitorSeesTheSameBreaches ==
  /\ Len(history) = (IF replayed < MaxHistory THEN replayed ELSE MaxHistory)
  /\ \A i \in 1 .. Len(history) :
       LET d == dailyPnls[replayed - Len(history) + i]
       IN  /\ history[i].position = d.position /\ history[i].actualPnL = d.pnl
           /\ history[i].predictedVaR = d.predictedVaR
  /\ phase = "done" =>
       /\ Monitor!Breaches <= varBreaches
       /\ Len(dailyPnls) <= MaxHistory => Monitor!Breaches = varBreaches
=============================================================================
