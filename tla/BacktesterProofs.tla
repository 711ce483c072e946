--------------------------- MODULE BacktesterProofs ---------------------------
(***************************************************************************)
(* Proofs about Backtester, for every history of days, every size and      *)
(* every capacity of the VaR monitor.  What the loop keeps in counters and *)
(* running extremes is tied to the records it has made so far; the theorems *)
(* on the drawdown and on the breaches follow from that.                   *)
(***************************************************************************)
EXTENDS Backtester, SetFacts

ShapeInv ==
  /\ phase \in {"loop", "report", "done"}
  /\ portfolioValue \in Int /\ cumulativePnl \in Int /\ currentTradeReturn \in Int
  /\ peakValue \in Nat \ {0} /\ maxDrawdownDollar \in Nat
  /\ maxDrawdown \in Nat \X (Nat \ {0})
  /\ numTrades \in Nat /\ varBreaches \in Nat
  /\ previousSignal \in SignalDirection /\ inTrade \in BOOLEAN
  /\ tradeReturns \in Seq(Int \ {0})
  /\ dailyPnls \in Seq(DailyPnL) /\ Len(dailyPnls) <= MaxDays
  /\ replayed \in 0 .. Len(dailyPnls)
  /\ phase = "loop" => replayed = 0
  /\ phase = "done" => replayed = Len(dailyPnls)

\* The counters count days of the record.
BreachDays ==
  {d \in Days : Monitor!CheckVaRBreach(dailyPnls[d].pnl, dailyPnls[d].predictedVaR)}

CountInv ==
  /\ previousSignal = SignalBefore(Len(dailyPnls) + 1)
  /\ numTrades = Cardinality(Turns)
  /\ varBreaches = Cardinality(BreachDays)
  /\ \A d \in Days : dailyPnls[d].predictedVaR = Monitor!ComputeDailyVaR(dailyPnls[d].position)

\* The monitor holds the newest of the days fed to it.
Kept == IF replayed < MaxHistory THEN replayed ELSE MaxHistory

MonitorInv ==
  /\ history \in Seq([predictedVaR : Nat, actualPnL : Int, breached : BOOLEAN, position : Int])
  /\ Len(history) = Kept
  /\ \A k \in 1 .. Kept :
       LET d == dailyPnls[replayed - Kept + k] IN history[k] = Monitor!Record(d.position, d.pnl)

\* The peak is the highest value so far, and the drawdowns are the largest falls.
PeakInv ==
  /\ portfolioValue = Value(Len(dailyPnls))
  /\ \A d \in 0 .. Len(dailyPnls) : Value(d) <= peakValue
  /\ \E d \in 0 .. Len(dailyPnls) : Value(d) = peakValue

Worth == \A i \in 0 .. Len(dailyPnls) : Value(i) > 0

\* No fall is larger than the ones kept, and some fall is as large.
DrawdownInv ==
  Worth =>
    /\ \A i, j \in 0 .. Len(dailyPnls) : i <= j =>
         /\ (Value(i) - Value(j)) * maxDrawdown[2] <= maxDrawdown[1] * Value(i)
         /\ Value(i) - Value(j) <= maxDrawdownDollar
    /\ \E i, j \in 0 .. Len(dailyPnls) :
         i <= j /\ maxDrawdown[1] * Value(i) <= (Value(i) - Value(j)) * maxDrawdown[2]
    /\ \E i, j \in 0 .. Len(dailyPnls) : i <= j /\ Value(i) - Value(j) = maxDrawdownDollar

\* The money in the totals of the days' P&L and of the sizes of the turns.
Pnls  == [d \in Days |-> dailyPnls[d].pnl]
Sizes == [d \in Days |-> Monitor!Magnitude(dailyPnls[d].position)]

MoneyInv ==
  /\ cumulativePnl = Total(Days, Pnls)
  /\ portfolioValue = InitialCapital + cumulativePnl - numTrades * CommissionPerTrade
                        - Slippage * Total(Turns, Sizes)

\* A list of the numbers g of a set of days, in order.
Lists(q, M, g) == Len(q) = Cardinality(M) /\ \A i \in M : q[Rank(M, i)] = g[i]

\* What the holding period of a day earned, and the periods that earned or lost.
Signed == [d \in Days |-> Sign(dailyPnls[d].signal) * dailyPnls[d].dailyReturn]
Gains  == [i \in Days |-> Total(Period(i), Signed)]
Moving(S) == {i \in S : Gains[i] # 0}

\* The trade list has the finished periods; while the loop runs an open trade is
\* the last period, with its return so far, and without one all are finished.
OpenTradeIsLast ==
  \E e \in Entries : (\A k \in Turns : k <= e) /\ currentTradeReturn = Gains[e]

TradeInv ==
  /\ Lists(tradeReturns, Moving(Finished), Gains)
  /\ phase = "loop" =>
       /\ inTrade = TRUE => OpenTradeIsLast
       /\ inTrade = FALSE => \A e \in Entries : \E k \in Turns : k > e

Inv == ShapeInv /\ CountInv /\ MonitorInv /\ PeakInv /\ DrawdownInv /\ MoneyInv /\ TradeInv

-----------------------------------------------------------------------------
(* Ratios. *)

LEMMA ProductPositive ==
  ASSUME NEW a \in Nat \ {0}, NEW b \in Nat \ {0}
  PROVE  a * b \in Nat \ {0}
  OBVIOUS

\* Not exceeding is transitive among ratios.
LEMMA RatioTransitive ==
  ASSUME NEW a \in Int, NEW b \in Nat \ {0}, NEW c \in Int, NEW d \in Nat \ {0},
         NEW e \in Int, NEW f \in Nat \ {0},
         a * d <= c * b, c * f <= e * d
  PROVE  a * f <= e * b
<1>1. a * d \in Int /\ c * b \in Int /\ c * f \in Int /\ e * d \in Int /\ a * f \in Int /\ e * b \in Int
  OBVIOUS
<1>2. (a * d) * f <= (c * b) * f
  BY <1>1, ProductMonotone
<1>3. (c * f) * b <= (e * d) * b
  BY <1>1, ProductMonotone
<1>4. (a * d) * f = (a * f) * d
  OBVIOUS
<1>5. (c * b) * f = (c * f) * b
  OBVIOUS
<1>6. (e * d) * b = (e * b) * d
  OBVIOUS
<1>7. (a * f) * d <= (e * b) * d
  <2>1. (a * d) * f \in Int /\ (c * b) * f \in Int /\ (e * d) * b \in Int
    BY <1>1
  <2> QED
    BY <1>2, <1>3, <1>4, <1>5, <1>6, <2>1
<1> QED
  BY <1>1, <1>7, ProductCancels

\* From a higher value the fall to the same one is the larger in percent.
LEMMA HigherFallsMore ==
  ASSUME NEW v \in Nat \ {0}, NEW low \in Nat \ {0}, NEW high \in Nat \ {0}, low <= high
  PROVE  (low - v) * high <= (high - v) * low
<1>1. v * low <= v * high
  <2>1. low * v <= high * v
    BY ProductMonotone
  <2> QED
    BY <2>1
<1>2. (low - v) * high = low * high - v * high
  OBVIOUS
<1>3. (high - v) * low = low * high - v * low
  OBVIOUS
<1>4. v * low \in Int /\ v * high \in Int /\ low * high \in Int
  OBVIOUS
<1> QED
  BY <1>1, <1>2, <1>3, <1>4

-----------------------------------------------------------------------------
(* What a day appends to the record. *)

\* The record of a day.
DayRecord(direction, position, ret, value) ==
  [signal |-> direction, position |-> position, dailyReturn |-> ret, pnl |-> position * ret,
   cumulativePnl |-> cumulativePnl', portfolioValue |-> value,
   predictedVaR |-> Monitor!ComputeDailyVaR(position)]

LEMMA NextCases ==
  ASSUME Next
  PROVE  \/ \E direction \in SignalDirection, notional \in Nat, ret \in Returns : Day(direction, notional, ret)
         \/ Finish
         \/ Report
<1>1. Notionals \subseteq Nat /\ 0 \in Nat
  BY MoneyAssumption
<1>2. {"LONG", "SHORT"} \subseteq SignalDirection /\ "FLAT" \in SignalDirection
  BY DEF SignalDirection
<1> QED
  BY <1>1, <1>2 DEF Next

LEMMA DayNumbers ==
  ASSUME NEW direction \in SignalDirection, NEW notional \in Nat, NEW ret \in Returns
  PROVE  /\ Sign(direction) \in {-1, 0, 1}
         /\ Sign(direction) * notional \in Int /\ (Sign(direction) * notional) * ret \in Int
         /\ Sign(direction) * ret \in Int
         /\ Monitor!Magnitude(Sign(direction) * notional) \in Nat
         /\ Monitor!ComputeDailyVaR(Sign(direction) * notional) \in Nat
         /\ Cost(direction, Sign(direction) * notional) \in Nat
<1>1. Sign(direction) \in {-1, 0, 1}
  BY DEF Sign, SignalDirection
<1>2. ret \in Int /\ VaRPerUnit \in Nat /\ Slippage \in Nat /\ CommissionPerTrade \in Nat
  BY MoneyAssumption
<1>3. Sign(direction) * notional \in Int /\ Sign(direction) * ret \in Int
  BY <1>1, <1>2
<1>4. PICK position : position = Sign(direction) * notional
  OBVIOUS
<1>5. position \in Int
  BY <1>3, <1>4
<1>6. position * ret \in Int
  BY <1>2, <1>5
<1>7. Monitor!Magnitude(position) \in Nat
  BY <1>5 DEF Monitor!Magnitude
<1>8. \A a, b \in Nat : a * b \in Nat
  OBVIOUS
<1>9. Monitor!ComputeDailyVaR(position) \in Nat
  BY <1>2, <1>7, <1>8 DEF Monitor!ComputeDailyVaR
<1>10. Cost(direction, position) \in Nat
  <2>1. Monitor!Magnitude(position) * Slippage \in Nat
    BY <1>2, <1>7, <1>8
  <2> QED
    BY <1>2, <2>1 DEF Cost
<1> QED
  BY <1>1, <1>3, <1>4, <1>6, <1>7, <1>9, <1>10

\* What a day leaves behind: n is the number of days before it.
DayEffect(direction, ret, n, position, value, r) ==
  /\ n = Len(dailyPnls) /\ n < MaxDays /\ phase = "loop"
  /\ dailyPnls' = Append(dailyPnls, r) /\ Len(dailyPnls') = n + 1 /\ dailyPnls'[n + 1] = r
  /\ \A d \in 1 .. n : dailyPnls'[d] = dailyPnls[d]
  /\ \A d \in 0 .. n : Value(d)' = Value(d)
  /\ Value(n + 1)' = value
  /\ r.signal = direction /\ r.position = position /\ r.pnl = position * ret
  /\ r.portfolioValue = value /\ r.predictedVaR = Monitor!ComputeDailyVaR(position)
  /\ portfolioValue' = value /\ cumulativePnl' \in Int
  /\ value = portfolioValue - Cost(direction, position) + position * ret
  /\ cumulativePnl' = cumulativePnl + position * ret
  /\ TrackDrawdown(value)
  /\ numTrades' = numTrades + (IF direction # previousSignal THEN 1 ELSE 0)
  /\ varBreaches' = varBreaches +
       (IF Monitor!CheckVaRBreach(position * ret, Monitor!ComputeDailyVaR(position)) THEN 1 ELSE 0)
  /\ TrackTrade(direction, ret)
  /\ UNCHANGED <<phase, history, replayed>>

\* The record grows by one record of its type, and keeps the others.
LEMMA DayGrows ==
  ASSUME ShapeInv, PeakInv, NEW direction \in SignalDirection, NEW notional \in Nat, NEW ret \in Returns,
         Day(direction, notional, ret)
  PROVE  \E n \in Nat, position \in Int, value \in Int, r \in DailyPnL :
           DayEffect(direction, ret, n, position, value, r)
<1>1. PICK n : n = Len(dailyPnls)
  OBVIOUS
<1>2. PICK position : position = Sign(direction) * notional
  OBVIOUS
<1>3. PICK value : value = portfolioValue - Cost(direction, position) + position * ret
  OBVIOUS
<1>4. PICK r : r = DayRecord(direction, position, ret, value)
  OBVIOUS
<1>5. /\ position \in Int /\ position * ret \in Int
      /\ Monitor!ComputeDailyVaR(position) \in Nat /\ Cost(direction, position) \in Nat
  BY <1>2, DayNumbers
<1>6. n \in Nat /\ dailyPnls \in Seq(DailyPnL) /\ portfolioValue \in Int /\ cumulativePnl \in Int
  BY <1>1 DEF ShapeInv
<1>7. value \in Int
  BY <1>3, <1>5, <1>6
<1>8. /\ phase = "loop" /\ n < MaxDays
      /\ dailyPnls' = Append(dailyPnls, r)
      /\ portfolioValue' = value /\ cumulativePnl' = cumulativePnl + position * ret
      /\ TrackDrawdown(value)
      /\ numTrades' = numTrades + (IF direction # previousSignal THEN 1 ELSE 0)
      /\ varBreaches' = varBreaches +
           (IF Monitor!CheckVaRBreach(position * ret, Monitor!ComputeDailyVaR(position)) THEN 1 ELSE 0)
      /\ TrackTrade(direction, ret)
      /\ UNCHANGED <<phase, history, replayed>>
  BY <1>1, <1>2, <1>3, <1>4 DEF Day, DayRecord
<1>9. cumulativePnl' \in Int
  BY <1>5, <1>6, <1>8
<1>10. /\ r \in DailyPnL
       /\ r.signal = direction /\ r.position = position /\ r.pnl = position * ret
       /\ r.portfolioValue = value /\ r.predictedVaR = Monitor!ComputeDailyVaR(position)
  BY <1>4, <1>5, <1>7, <1>9 DEF DayRecord, DailyPnL
<1>11. /\ Len(dailyPnls') = n + 1 /\ dailyPnls'[n + 1] = r
       /\ \A d \in 1 .. n : dailyPnls'[d] = dailyPnls[d]
  BY <1>1, <1>6, <1>8, <1>10
<1>12. \A d \in 0 .. n : Value(d)' = Value(d)
  <2> TAKE d \in 0 .. n
  <2>1. CASE d = 0
    BY <2>1 DEF Value
  <2>2. CASE d \in 1 .. n
    BY <1>11, <2>2 DEF Value
  <2> QED
    BY <1>6, <2>1, <2>2
<1>13. Value(n + 1)' = value
  BY <1>6, <1>10, <1>11 DEF Value
<1> QED
  BY <1>1, <1>3, <1>5, <1>6, <1>7, <1>8, <1>9, <1>10, <1>11, <1>12, <1>13 DEF DayEffect

\* A day is a turn when its direction is not that of the day before.
LEMMA TurnsGrow ==
  ASSUME ShapeInv, PeakInv, CountInv,
         NEW direction \in SignalDirection, NEW notional \in Nat, NEW ret \in Returns,
         Day(direction, notional, ret)
  PROVE  Turns' = IF direction # previousSignal THEN Turns \cup {Len(dailyPnls) + 1} ELSE Turns
<1>0. PICK n \in Nat, position \in Int, value \in Int, r \in DailyPnL :
       DayEffect(direction, ret, n, position, value, r)
  BY DayGrows
<1>1. /\ n \in Nat /\ r \in DailyPnL
      /\ n = Len(dailyPnls)
      /\ Len(dailyPnls') = n + 1 /\ dailyPnls'[n + 1] = r
      /\ \A d \in 1 .. n : dailyPnls'[d] = dailyPnls[d]
      /\ r.signal = direction
  BY <1>0 DEF DayEffect
<1>2. Days = 1 .. n /\ Days' = 1 .. n + 1
  BY <1>1 DEF Days
<1>3. \A d \in 1 .. n + 1 : d \in 1 .. n \/ d = n + 1
  BY <1>1
<1>4. \A d \in 1 .. n + 1 : SignalBefore(d)' = SignalBefore(d)
  <2> TAKE d \in 1 .. n + 1
  <2>1. d # 1 => d - 1 \in 1 .. n
    BY <1>1
  <2> QED
    BY <1>1, <2>1 DEF SignalBefore
<1>5. SignalBefore(n + 1) = previousSignal
  BY <1>1 DEF CountInv
<1>6. \A d : d \in Turns' <=> d \in 1 .. n + 1 /\ dailyPnls'[d].signal # SignalBefore(d)
  BY <1>2, <1>4 DEF Turns
<1>7. \A d : d \in Turns <=> d \in 1 .. n /\ dailyPnls[d].signal # SignalBefore(d)
  BY <1>2 DEF Turns
<1>8. n + 1 \in Turns' <=> direction # previousSignal
  BY <1>1, <1>5, <1>6
<1>9. \A d \in 1 .. n : d \in 1 .. n + 1
  BY <1>1
<1>10. \A d : d \in Turns' <=> d \in Turns \/ (d = n + 1 /\ direction # previousSignal)
  BY <1>1, <1>3, <1>6, <1>7, <1>8, <1>9
<1> QED
  BY <1>1, <1>10

-----------------------------------------------------------------------------
(* Every step keeps the invariant. *)

\* The record of the days is extended by Day alone.
LEMMA OtherSteps ==
  ASSUME Finish \/ Report \/ UNCHANGED vars
  PROVE  /\ UNCHANGED <<portfolioValue, peakValue, maxDrawdown, maxDrawdownDollar, cumulativePnl>>
         /\ UNCHANGED <<numTrades, varBreaches, previousSignal, currentTradeReturn, inTrade, dailyPnls>>
         /\ \A d : Value(d)' = Value(d)
<1>1. /\ UNCHANGED <<portfolioValue, peakValue, maxDrawdown, maxDrawdownDollar, cumulativePnl>>
      /\ UNCHANGED <<numTrades, varBreaches, previousSignal, currentTradeReturn, inTrade, dailyPnls>>
  BY DEF Finish, Report, vars, money, counts, trade
<1> QED
  BY <1>1 DEF Value

LEMMA ClosedTradeType ==
  ASSUME ShapeInv
  PROVE  WithClosedTrade \in Seq(Int \ {0})
<1>1. tradeReturns \in Seq(Int \ {0}) /\ currentTradeReturn \in Int
  BY DEF ShapeInv
<1> QED
  BY <1>1 DEF WithClosedTrade

LEMMA ShapeStep ==
  ASSUME Inv, [Next]_vars
  PROVE  ShapeInv'
<1>1. ShapeInv /\ PeakInv
  BY DEF Inv
<1>2. ASSUME NEW direction \in SignalDirection, NEW notional \in Nat, NEW ret \in Returns,
             Day(direction, notional, ret)
      PROVE  ShapeInv'
  <2>0. PICK n \in Nat, position \in Int, value \in Int, r \in DailyPnL :
         DayEffect(direction, ret, n, position, value, r)
    BY <1>1, <1>2, DayGrows
  <2>1. /\ n \in Nat /\ position \in Int /\ value \in Int /\ r \in DailyPnL
        /\ n = Len(dailyPnls) /\ n < MaxDays /\ phase = "loop"
        /\ dailyPnls' = Append(dailyPnls, r) /\ Len(dailyPnls') = n + 1
        /\ portfolioValue' = value /\ cumulativePnl' \in Int
        /\ TrackDrawdown(value)
        /\ numTrades' = numTrades + (IF direction # previousSignal THEN 1 ELSE 0)
        /\ varBreaches' = varBreaches +
             (IF Monitor!CheckVaRBreach(position * ret, Monitor!ComputeDailyVaR(position)) THEN 1 ELSE 0)
        /\ TrackTrade(direction, ret)
        /\ UNCHANGED <<phase, history, replayed>>
    BY <2>0 DEF DayEffect
  <2>2. numTrades' \in Nat /\ varBreaches' \in Nat
    <3>1. numTrades \in Nat /\ varBreaches \in Nat
      BY <1>1 DEF ShapeInv
    <3> QED
      BY <2>1, <3>1
  <2>3. /\ dailyPnls' \in Seq(DailyPnL) /\ Len(dailyPnls') <= MaxDays
        /\ replayed' \in 0 .. Len(dailyPnls') /\ replayed' = 0 /\ phase' = "loop"
    <3>1. dailyPnls \in Seq(DailyPnL) /\ replayed = 0 /\ MaxDays \in Nat
      BY <1>1, <2>1, MoneyAssumption DEF ShapeInv
    <3>2. dailyPnls' \in Seq(DailyPnL)
      BY <2>1, <3>1
    <3> QED
      BY <2>1, <3>1, <3>2
  <2>4. /\ peakValue' \in Nat \ {0} /\ maxDrawdownDollar' \in Nat
        /\ maxDrawdown' \in Nat \X (Nat \ {0})
    <3>1. PICK peak : peak = Larger(peakValue, value)
      OBVIOUS
    <3>2. peakValue \in Nat \ {0} /\ maxDrawdownDollar \in Nat /\ maxDrawdown \in Nat \X (Nat \ {0})
      BY <1>1 DEF ShapeInv
    <3>3. peak \in Nat \ {0} /\ peak - value \in Nat
      BY <3>1, <3>2 DEF Larger
    <3>4. <<peak - value, peak>> \in Nat \X (Nat \ {0})
      BY <3>3
    <3>5. /\ peakValue' = peak /\ maxDrawdownDollar' = Larger(maxDrawdownDollar, peak - value)
          /\ maxDrawdown' \in {<<peak - value, peak>>, maxDrawdown}
      BY <2>1, <3>1 DEF TrackDrawdown
    <3>6. maxDrawdownDollar' \in Nat
      BY <3>2, <3>3, <3>5 DEF Larger
    <3> QED
      BY <3>2, <3>3, <3>4, <3>5, <3>6
  <2>5. /\ previousSignal' \in SignalDirection /\ inTrade' \in BOOLEAN
        /\ currentTradeReturn' \in Int /\ tradeReturns' \in Seq(Int \ {0})
    <3>1. Sign(direction) * ret \in Int
      BY DayNumbers
    <3>2. currentTradeReturn \in Int /\ inTrade \in BOOLEAN /\ tradeReturns \in Seq(Int \ {0})
      BY <1>1 DEF ShapeInv
    <3>3. WithClosedTrade \in Seq(Int \ {0})
      BY <1>1, ClosedTradeType
    <3>4. CASE direction # previousSignal
      BY <2>1, <3>1, <3>3, <3>4 DEF TrackTrade
    <3>5. CASE direction = previousSignal
      BY <2>1, <3>1, <3>2, <3>5 DEF TrackTrade
    <3> QED
      BY <3>4, <3>5
  <2> QED
    BY <2>1, <2>2, <2>3, <2>4, <2>5 DEF ShapeInv
<1>3. CASE Finish
  <2>1. tradeReturns' \in Seq(Int \ {0}) /\ phase' = "report" /\ UNCHANGED <<history, replayed>>
    BY <1>1, <1>3, ClosedTradeType DEF Finish
  <2> QED
    BY <1>1, <1>3, <2>1, OtherSteps DEF ShapeInv
<1>4. CASE Report
  <2>1. /\ replayed < Len(dailyPnls) /\ replayed' = replayed + 1 /\ UNCHANGED tradeReturns
        /\ phase' = IF replayed' = Len(dailyPnls) THEN "done" ELSE "report"
    BY <1>4 DEF Report, trade
  <2>2. replayed' \in 0 .. Len(dailyPnls)
    BY <1>1, <2>1 DEF ShapeInv
  <2> QED
    BY <1>1, <1>4, <2>1, <2>2, OtherSteps DEF ShapeInv
<1>5. CASE UNCHANGED vars
  <2>1. UNCHANGED <<phase, tradeReturns, replayed>>
    BY <1>5 DEF vars, trade
  <2> QED
    BY <1>1, <1>5, <2>1, OtherSteps DEF ShapeInv
<1> QED
  BY <1>2, <1>3, <1>4, <1>5, NextCases

\* Sets of days are finite, and have no more members than there are days.
LEMMA SomeOfTheDays ==
  ASSUME ShapeInv, NEW S \in SUBSET Days
  PROVE  IsFiniteSet(S) /\ Cardinality(S) \in 0 .. Len(dailyPnls)
<1>1. PICK n \in Nat : n = Len(dailyPnls)
  BY DEF ShapeInv
<1>2. S \subseteq 1 .. n
  BY <1>1 DEF Days
<1>3. IsFiniteSet(1 .. n) /\ Cardinality(1 .. n) = n
  <2>1. 1 \in Int /\ n \in Int
    BY <1>1
  <2>2. /\ IsFiniteSet(1 .. n)
        /\ Cardinality(1 .. n) = IF 1 > n THEN 0 ELSE n - 1 + 1
    BY <2>1, FS_Interval, Zenon
  <2> QED
    BY <1>1, <2>2
<1>4. IsFiniteSet(S) /\ Cardinality(S) <= n
  BY <1>2, <1>3, FS_Subset
<1>5. Cardinality(S) \in Nat
  BY <1>4, FS_CardinalityType
<1> QED
  BY <1>1, <1>4, <1>5

\* A counter that is raised when the new day is one of those it counts.
LEMMA CountedDays ==
  ASSUME NEW n \in Nat, NEW old \in SUBSET (1 .. n), NEW new,
         NEW counts_n \in BOOLEAN,
         new = IF counts_n THEN old \cup {n + 1} ELSE old
  PROVE  Cardinality(new) = Cardinality(old) + (IF counts_n THEN 1 ELSE 0)
<1>1. IsFiniteSet(1 .. n)
  <2>1. 1 \in Int /\ n \in Int
    OBVIOUS
  <2> QED
    BY <2>1, FS_Interval, Zenon
<1>2. IsFiniteSet(old)
  BY <1>1, FS_Subset, Zenon
<1>3. Cardinality(old) \in Nat
  BY <1>2, FS_CardinalityType, Zenon
<1>4. n + 1 \notin old
  OBVIOUS
<1>5. Cardinality(old \cup {n + 1}) = Cardinality(old) + 1
  BY <1>2, <1>4, FS_AddElement, Zenon
<1> QED
  BY <1>3, <1>5

LEMMA CountStep ==
  ASSUME Inv, [Next]_vars
  PROVE  CountInv'
<1>1. ShapeInv /\ PeakInv /\ CountInv
  BY DEF Inv
<1>2. ASSUME NEW direction \in SignalDirection, NEW notional \in Nat, NEW ret \in Returns,
             Day(direction, notional, ret)
      PROVE  CountInv'
  <2>0. PICK n \in Nat, position \in Int, value \in Int, r \in DailyPnL :
         DayEffect(direction, ret, n, position, value, r)
    BY <1>1, <1>2, DayGrows
  <2>1. /\ n \in Nat /\ position \in Int /\ r \in DailyPnL
        /\ n = Len(dailyPnls)
        /\ Len(dailyPnls') = n + 1 /\ dailyPnls'[n + 1] = r
        /\ \A d \in 1 .. n : dailyPnls'[d] = dailyPnls[d]
        /\ r.signal = direction /\ r.position = position /\ r.pnl = position * ret
        /\ r.predictedVaR = Monitor!ComputeDailyVaR(position)
        /\ numTrades' = numTrades + (IF direction # previousSignal THEN 1 ELSE 0)
        /\ varBreaches' = varBreaches +
             (IF Monitor!CheckVaRBreach(position * ret, Monitor!ComputeDailyVaR(position)) THEN 1 ELSE 0)
        /\ TrackTrade(direction, ret)
    BY <2>0 DEF DayEffect
  <2>2. Days = 1 .. n /\ Days' = 1 .. n + 1
    BY <2>1 DEF Days
  <2>3. \A d \in 1 .. n + 1 : d \in 1 .. n \/ d = n + 1
    BY <2>1
  <2>4. previousSignal' = SignalBefore(Len(dailyPnls) + 1)'
    <3>1. previousSignal' = direction
      BY <2>1 DEF TrackTrade
    <3>2. (n + 1) + 1 # 1 /\ (n + 1) + 1 - 1 = n + 1
      BY <2>1
    <3> QED
      BY <2>1, <3>1, <3>2 DEF SignalBefore
  <2>6. numTrades' = Cardinality(Turns')
    <3>1. Turns \in SUBSET (1 .. n)
      BY <2>2 DEF Turns
    <3>2. Turns' = IF direction # previousSignal THEN Turns \cup {n + 1} ELSE Turns
      BY <1>1, <1>2, <2>1, TurnsGrow
    <3>4. Cardinality(Turns') = Cardinality(Turns) + (IF direction # previousSignal THEN 1 ELSE 0)
      BY <2>1, <3>1, <3>2, CountedDays
    <3> QED
      BY <1>1, <2>1, <3>4 DEF CountInv
  <2>7. varBreaches' = Cardinality(BreachDays')
    <3>1. BreachDays \in SUBSET (1 .. n)
      BY <2>2 DEF BreachDays
    <3>2. PICK breach \in BOOLEAN :
            breach = Monitor!CheckVaRBreach(position * ret, Monitor!ComputeDailyVaR(position))
      BY DEF Monitor!CheckVaRBreach
    <3>3. BreachDays' = IF breach THEN BreachDays \cup {n + 1} ELSE BreachDays
      <4>1. \A d : d \in BreachDays' <=>
              d \in 1 .. n + 1 /\ Monitor!CheckVaRBreach(dailyPnls'[d].pnl, dailyPnls'[d].predictedVaR)
        BY <2>2 DEF BreachDays, Monitor!CheckVaRBreach, Monitor!Magnitude
      <4>2. \A d : d \in BreachDays <=>
              d \in 1 .. n /\ Monitor!CheckVaRBreach(dailyPnls[d].pnl, dailyPnls[d].predictedVaR)
        BY <2>2 DEF BreachDays
      <4>3. n + 1 \in BreachDays' <=> breach
        BY <2>1, <3>2, <4>1
      <4>4. \A d \in 1 .. n : d \in 1 .. n + 1
        BY <2>1
      <4>5. \A d : d \in BreachDays' <=> d \in BreachDays \/ (d = n + 1 /\ breach)
        BY <2>1, <2>3, <4>1, <4>2, <4>3, <4>4
      <4> QED
        BY <4>5
    <3>4. Cardinality(BreachDays') = Cardinality(BreachDays) + (IF breach THEN 1 ELSE 0)
      BY <2>1, <3>1, <3>3, CountedDays
    <3> QED
      BY <1>1, <2>1, <3>2, <3>4 DEF CountInv
  <2>8. \A d \in 1 .. n + 1 :
          dailyPnls'[d].predictedVaR = Monitor!ComputeDailyVaR(dailyPnls'[d].position)
    BY <1>1, <2>1, <2>2, <2>3 DEF CountInv
  <2>9. \A d \in Days' :
          (dailyPnls[d].predictedVaR = Monitor!ComputeDailyVaR(dailyPnls[d].position))'
    BY <2>2, <2>8 DEF Monitor!ComputeDailyVaR, Monitor!Magnitude
  <2> QED
    BY <2>4, <2>6, <2>7, <2>9 DEF CountInv
<1>3. CASE Finish \/ Report \/ UNCHANGED vars
  <2>1. UNCHANGED <<numTrades, varBreaches, previousSignal, dailyPnls>>
    BY <1>3, OtherSteps
  <2> QED
    BY <1>1, <2>1 DEF CountInv, SignalBefore, Turns, BreachDays, Days,
       Monitor!ComputeDailyVaR, Monitor!Magnitude, Monitor!CheckVaRBreach
<1> QED
  BY <1>2, <1>3, NextCases

\* One more entry for a list that keeps at most MaxHistory: the oldest makes room.
Pushed(w, v) == IF Len(Append(w, v)) > MaxHistory THEN Tail(Append(w, v)) ELSE Append(w, v)

\* Entry k of the list after the push, which leaves it n entries.
EntryAfter(w, v, n, k) == IF k = n THEN v ELSE IF Len(w) < MaxHistory THEN w[k] ELSE w[k + 1]

LEMMA PushedIsNewest ==
  ASSUME NEW V, NEW w \in Seq(V), NEW v \in V, Len(w) <= MaxHistory
  PROVE  /\ Pushed(w, v) \in Seq(V)
         /\ Len(Pushed(w, v)) = (IF Len(w) < MaxHistory THEN Len(w) + 1 ELSE MaxHistory)
         /\ \A k \in 1 .. Len(Pushed(w, v)) :
              Pushed(w, v)[k] = EntryAfter(w, v, Len(Pushed(w, v)), k)
<1>1. PICK K : K = Len(w)
  OBVIOUS
<1>2. K \in Nat /\ K <= MaxHistory /\ MaxHistory \in Nat \ {0}
  BY <1>1, MoneyAssumption
<1>3. PICK longer : longer = Append(w, v)
  OBVIOUS
<1>4. longer \in Seq(V) /\ Len(longer) = K + 1 /\ longer[K + 1] = v
  BY <1>1, <1>3
<1>5. \A k \in 1 .. K : longer[k] = w[k]
  BY <1>1, <1>3
<1>6. CASE K < MaxHistory
  <2>1. Pushed(w, v) = longer
    BY <1>2, <1>3, <1>4, <1>6 DEF Pushed
  <2>2. \A k \in 1 .. K + 1 : k # K + 1 => k \in 1 .. K
    BY <1>2
  <2> QED
    BY <1>1, <1>4, <1>5, <1>6, <2>1, <2>2 DEF EntryAfter
<1>7. CASE ~(K < MaxHistory)
  <2>1. K = MaxHistory /\ Pushed(w, v) = Tail(longer)
    BY <1>2, <1>3, <1>4, <1>7 DEF Pushed
  <2>2. /\ Tail(longer) \in Seq(V) /\ Len(Tail(longer)) = K
        /\ \A k \in 1 .. K : Tail(longer)[k] = longer[k + 1]
    BY <1>2, <1>4
  <2>3. \A k \in 1 .. K : k # K => k + 1 \in 1 .. K
    BY <1>2
  <2> QED
    BY <1>1, <1>4, <1>5, <1>7, <2>1, <2>2, <2>3 DEF EntryAfter
<1> QED
  BY <1>6, <1>7

\* What the monitor records of a recorded day has the type of its entries.
LEMMA RecordType ==
  ASSUME NEW position \in Int, NEW pnl \in Int
  PROVE  Monitor!Record(position, pnl) \in
           [predictedVaR : Nat, actualPnL : Int, breached : BOOLEAN, position : Int]
<1>1. Monitor!Magnitude(position) \in Nat
  BY DEF Monitor!Magnitude
<1>2. \A a, b \in Nat : a * b \in Nat
  OBVIOUS
<1>3. Monitor!ComputeDailyVaR(position) \in Nat
  BY <1>1, <1>2, MoneyAssumption DEF Monitor!ComputeDailyVaR
<1>4. Monitor!CheckVaRBreach(pnl, Monitor!ComputeDailyVaR(position)) \in BOOLEAN
  BY DEF Monitor!CheckVaRBreach
<1> QED
  BY <1>3, <1>4 DEF Monitor!Record

LEMMA MonitorStep ==
  ASSUME Inv, [Next]_vars
  PROVE  MonitorInv'
<1>1. ShapeInv /\ PeakInv /\ MonitorInv
  BY DEF Inv
<1>2. ASSUME NEW direction \in SignalDirection, NEW notional \in Nat, NEW ret \in Returns,
             Day(direction, notional, ret)
      PROVE  MonitorInv'
  <2>1. replayed = 0 /\ replayed' = 0 /\ history' = history
    BY <1>1, <1>2 DEF ShapeInv, Day
  <2>2. Kept = 0 /\ Kept' = 0
    BY <2>1, MoneyAssumption DEF Kept
  <2> QED
    BY <1>1, <2>1, <2>2 DEF MonitorInv
<1>3. CASE Report
  <2>1. /\ replayed < Len(dailyPnls) /\ replayed' = replayed + 1 /\ dailyPnls' = dailyPnls
        /\ Monitor!UpdatePosition(dailyPnls[replayed'].position, dailyPnls[replayed'].pnl)
    BY <1>3 DEF Report
  <2>2. PICK n : n = Len(dailyPnls)
    OBVIOUS
  <2>3. replayed \in Nat /\ n \in Nat /\ replayed < n /\ MaxHistory \in Nat \ {0}
    BY <1>1, <2>1, <2>2, MoneyAssumption DEF ShapeInv
  <2>4. PICK V : V = [predictedVaR : Nat, actualPnL : Int, breached : BOOLEAN, position : Int]
    OBVIOUS
  <2>5. PICK K : K = Kept
    OBVIOUS
  <2>6. PICK K2 : K2 = Kept'
    OBVIOUS
  <2>7. /\ K = (IF replayed < MaxHistory THEN replayed ELSE MaxHistory)
        /\ K2 = (IF replayed + 1 < MaxHistory THEN replayed + 1 ELSE MaxHistory)
    BY <2>1, <2>5, <2>6 DEF Kept
  <2> DEFINE day(d) == Monitor!Record(dailyPnls[d].position, dailyPnls[d].pnl)
  <2>8. history' = Pushed(history, day(replayed + 1))
    BY <2>1 DEF Monitor!UpdatePosition, Pushed
  <2>9. \A d \in 1 .. n : day(d) \in V
    <3> TAKE d \in 1 .. n
    <3>1. dailyPnls[d] \in DailyPnL
      BY <1>1, <2>2 DEF ShapeInv
    <3> QED
      BY <2>4, <3>1, RecordType DEF DailyPnL
  <2>10. history \in Seq(V) /\ Len(history) = K /\ \A k \in 1 .. K : history[k] = day(replayed - K + k)
    BY <1>1, <2>4, <2>5 DEF MonitorInv
  <2> HIDE DEF day
  <2>11. PICK v : v = day(replayed + 1)
    OBVIOUS
  <2>12. v \in V /\ K <= MaxHistory
    <3>1. replayed + 1 \in 1 .. n
      BY <2>3
    <3> QED
      BY <2>3, <2>7, <2>9, <2>11, <3>1
  <2>13. /\ history' \in Seq(V) /\ Len(history') = (IF K < MaxHistory THEN K + 1 ELSE MaxHistory)
         /\ \A k \in 1 .. Len(history') :
              history'[k] = IF k = Len(history') THEN v ELSE IF K < MaxHistory THEN history[k] ELSE history[k + 1]
    <3>1. PICK w : w = history
      OBVIOUS
    <3>2. PICK next : next = Pushed(w, v)
      OBVIOUS
    <3>3. w \in Seq(V) /\ Len(w) = K /\ Len(w) <= MaxHistory
      BY <2>10, <2>12, <3>1
    <3>4. /\ next \in Seq(V) /\ Len(next) = (IF Len(w) < MaxHistory THEN Len(w) + 1 ELSE MaxHistory)
          /\ \A k \in 1 .. Len(next) :
               next[k] = IF k = Len(next) THEN v ELSE IF Len(w) < MaxHistory THEN w[k] ELSE w[k + 1]
      <4>1. v \in V /\ MaxHistory \in Nat \ {0}
        BY <2>3, <2>12
      <4>2. /\ Pushed(w, v) \in Seq(V)
            /\ Len(Pushed(w, v)) = (IF Len(w) < MaxHistory THEN Len(w) + 1 ELSE MaxHistory)
            /\ \A k \in 1 .. Len(Pushed(w, v)) :
                 Pushed(w, v)[k] = EntryAfter(w, v, Len(Pushed(w, v)), k)
        BY <3>3, <4>1, PushedIsNewest, Zenon
      <4> QED
        BY <3>2, <4>2 DEF EntryAfter
    <3>5. history' = next
      BY <2>8, <2>11, <3>1, <3>2
    <3> QED
      BY <3>1, <3>3, <3>4, <3>5
  <2>14. Len(history') = K2
    BY <2>3, <2>7, <2>13
  <2>15. \A k \in 1 .. K2 : history'[k] = day(replayed + 1 - K2 + k)
    <3> TAKE k \in 1 .. K2
    <3>1. K \in Nat /\ K2 \in Nat /\ K <= replayed
      BY <2>3, <2>7
    <3>2. CASE k = K2
      <4>1. replayed + 1 - K2 + k = replayed + 1
        BY <2>3, <3>1, <3>2
      <4>2. history'[k] = v
        BY <2>13, <2>14, <3>1, <3>2
      <4> QED
        BY <2>11, <4>1, <4>2
    <3>3. CASE k # K2 /\ K < MaxHistory
      <4>1. K2 = K + 1
        BY <2>3, <2>7, <3>3
      <4>2. k \in 1 .. K /\ replayed + 1 - K2 + k = replayed - K + k
        BY <2>3, <3>1, <3>3, <4>1
      <4>3. history'[k] = history[k]
        BY <2>13, <2>14, <3>1, <3>3
      <4> QED
        BY <2>10, <4>2, <4>3
    <3>4. CASE k # K2 /\ ~(K < MaxHistory)
      <4>1. K2 = K
        BY <2>3, <2>7, <3>4
      <4>2. k + 1 \in 1 .. K /\ replayed + 1 - K2 + k = replayed - K + (k + 1)
        BY <2>3, <3>1, <3>4, <4>1
      <4>3. history'[k] = history[k + 1]
        BY <2>13, <2>14, <3>1, <3>4
      <4> QED
        BY <2>10, <4>2, <4>3
    <3> QED
      BY <3>2, <3>3, <3>4
  <2> USE DEF day
  <2>16. \A k \in 1 .. Kept' : history'[k] = (LET d == dailyPnls'[replayed' - Kept' + k]
                                             IN  Monitor!Record(d.position, d.pnl))
    <3> TAKE k \in 1 .. Kept'
    <3>1. replayed' = replayed + 1 /\ dailyPnls' = dailyPnls
      BY <2>1
    <3>2. PICK x : x = replayed' - Kept' + k
      OBVIOUS
    <3>3. PICK y : y = replayed + 1 - K2 + k
      OBVIOUS
    <3>4. x = y
      <4>1. replayed \in Int /\ K2 \in Int /\ k \in Int
        BY <2>3, <2>6, <2>7
      <4> QED
        BY <2>6, <3>1, <3>2, <3>3, <4>1
    <3>5. history'[k] = Monitor!Record(dailyPnls[y].position, dailyPnls[y].pnl)
      BY <2>6, <2>15, <3>3
    <3> QED
      BY <3>1, <3>2, <3>4, <3>5, Zenon
  <2> HIDE DEF day
  <2> QED
    BY <2>4, <2>6, <2>13, <2>14, <2>16 DEF MonitorInv, Monitor!Record, Monitor!ComputeDailyVaR,
       Monitor!CheckVaRBreach, Monitor!Magnitude
<1>4. CASE Finish \/ UNCHANGED vars
  <2>1. UNCHANGED <<replayed, history, dailyPnls>>
    BY <1>4 DEF Finish, vars
  <2> QED
    BY <1>1, <2>1 DEF MonitorInv, Kept, Monitor!Record, Monitor!ComputeDailyVaR,
       Monitor!CheckVaRBreach, Monitor!Magnitude
<1> QED
  BY <1>2, <1>3, <1>4, NextCases

LEMMA PeakStep ==
  ASSUME Inv, [Next]_vars
  PROVE  PeakInv'
<1>1. ShapeInv /\ PeakInv
  BY DEF Inv
<1>2. ASSUME NEW direction \in SignalDirection, NEW notional \in Nat, NEW ret \in Returns,
             Day(direction, notional, ret)
      PROVE  PeakInv'
  <2>0. PICK n \in Nat, position \in Int, value \in Int, r \in DailyPnL :
         DayEffect(direction, ret, n, position, value, r)
    BY <1>1, <1>2, DayGrows
  <2>1. /\ n \in Nat /\ value \in Int
        /\ n = Len(dailyPnls) /\ Len(dailyPnls') = n + 1
        /\ \A d \in 0 .. n : Value(d)' = Value(d)
        /\ Value(n + 1)' = value
        /\ portfolioValue' = value
        /\ TrackDrawdown(value)
    BY <2>0 DEF DayEffect
  <2>2. \A d \in 0 .. n + 1 : d \in 0 .. n \/ d = n + 1
    BY <2>1
  <2>3. n + 1 \in 0 .. n + 1 /\ \A d \in 0 .. n : d \in 0 .. n + 1
    BY <2>1
  <2>4. portfolioValue' = Value(Len(dailyPnls))'
    BY <2>1 DEF Value
  <2>5. peakValue \in Nat /\ peakValue' = Larger(peakValue, value)
    BY <1>1, <2>1 DEF ShapeInv, TrackDrawdown
  <2>6. peakValue <= peakValue' /\ value <= peakValue' /\ peakValue' \in {peakValue, value}
    BY <2>5 DEF Larger
  <2>7. \A d \in 0 .. n : Value(d) \in Int /\ Value(d) <= peakValue
    <3> TAKE d \in 0 .. n
    <3>1. dailyPnls \in Seq(DailyPnL) /\ InitialCapital \in Int
      BY <1>1, MoneyAssumption DEF ShapeInv
    <3>2. Value(d) \in Int
      <4>1. CASE d = 0
        BY <3>1, <4>1 DEF Value
      <4>2. CASE d # 0
        <5>1. dailyPnls[d] \in DailyPnL
          BY <2>1, <3>1, <4>2
        <5> QED
          BY <4>2, <5>1 DEF Value, DailyPnL
      <4> QED
        BY <4>1, <4>2
    <3> QED
      BY <1>1, <2>1, <3>2 DEF PeakInv
  <2>8. peakValue' \in Int
    BY <2>5, <2>6
  <2>9. \A d \in 0 .. n + 1 : Value(d)' <= peakValue'
    BY <2>1, <2>2, <2>5, <2>6, <2>7, <2>8
  <2>10. \E d \in 0 .. n + 1 : Value(d)' = peakValue'
    <3>1. CASE peakValue' = value
      BY <2>1, <2>3, <3>1
    <3>2. CASE peakValue' = peakValue
      <4>1. PICK d \in 0 .. n : Value(d) = peakValue
        BY <1>1, <2>1 DEF PeakInv
      <4> QED
        BY <2>1, <2>3, <3>2, <4>1
    <3> QED
      BY <2>6, <3>1, <3>2
  <2> QED
    BY <2>1, <2>4, <2>9, <2>10 DEF PeakInv
<1>3. CASE Finish \/ Report \/ UNCHANGED vars
  <2>1. UNCHANGED <<portfolioValue, peakValue, dailyPnls>> /\ \A d : Value(d)' = Value(d)
    BY <1>3, OtherSteps
  <2> QED
    BY <1>1, <2>1 DEF PeakInv, Value
<1> QED
  BY <1>2, <1>3, NextCases

LEMMA DrawdownStep ==
  ASSUME Inv, [Next]_vars
  PROVE  DrawdownInv'
<1>1. ShapeInv /\ PeakInv /\ DrawdownInv
  BY DEF Inv
<1>2. ASSUME NEW direction \in SignalDirection, NEW notional \in Nat, NEW ret \in Returns,
             Day(direction, notional, ret), Worth'
      PROVE  DrawdownInv'
  <2>0. PICK n \in Nat, position \in Int, value \in Int, r \in DailyPnL :
         DayEffect(direction, ret, n, position, value, r)
    BY <1>1, <1>2, DayGrows
  <2>1. /\ n \in Nat /\ value \in Int
        /\ n = Len(dailyPnls) /\ Len(dailyPnls') = n + 1
        /\ \A d \in 0 .. n : Value(d)' = Value(d)
        /\ Value(n + 1)' = value
        /\ TrackDrawdown(value)
    BY <2>0 DEF DayEffect
  <2>2. PICK f : f = [d \in 0 .. n + 1 |-> Value(d)']
    OBVIOUS
  <2>3. /\ \A d \in 0 .. n + 1 : f[d] = Value(d)'
        /\ \A d \in 0 .. n : d \in 0 .. n + 1 /\ f[d] = Value(d)
        /\ f[n + 1] = value /\ n + 1 \in 0 .. n + 1
    BY <2>1, <2>2
  <2>4. \A d \in 0 .. n + 1 : d \in 0 .. n \/ d = n + 1
    BY <2>1
  <2>5. \A d \in 0 .. n + 1 : f[d] \in Nat \ {0}
    <3>1. \A d \in 0 .. n + 1 : Value(d)' > 0
      BY <1>2, <2>1 DEF Worth
    <3>2. \A d \in 0 .. n : Value(d) \in Int
      <4>1. dailyPnls \in Seq(DailyPnL) /\ InitialCapital \in Int
        BY <1>1, MoneyAssumption DEF ShapeInv
      <4> TAKE d \in 0 .. n
      <4>2. d # 0 => dailyPnls[d] \in DailyPnL
        BY <2>1, <4>1
      <4> QED
        BY <4>1, <4>2 DEF Value, DailyPnL
    <3>3. \A d \in 0 .. n + 1 : f[d] \in Int
      BY <2>1, <2>3, <2>4, <3>2
    <3> QED
      BY <2>3, <3>1, <3>3
  <2>6. Worth
    BY <2>1, <2>3, <2>5 DEF Worth
  <2>7. PICK m \in Nat, q \in Nat \ {0} : m = maxDrawdown[1] /\ q = maxDrawdown[2] /\ maxDrawdown = <<m, q>>
    BY <1>1 DEF ShapeInv
  <2>8. \A i, j \in 0 .. n : i <= j => (f[i] - f[j]) * q <= m * f[i] /\ f[i] - f[j] <= maxDrawdownDollar
    BY <1>1, <2>1, <2>3, <2>6, <2>7 DEF DrawdownInv
  <2>9. PICK i1 \in 0 .. n, j1 \in 0 .. n : i1 <= j1 /\ m * f[i1] <= (f[i1] - f[j1]) * q
    BY <1>1, <2>1, <2>3, <2>6, <2>7 DEF DrawdownInv
  <2>10. PICK i2 \in 0 .. n, j2 \in 0 .. n : i2 <= j2 /\ f[i2] - f[j2] = maxDrawdownDollar
    BY <1>1, <2>1, <2>3, <2>6 DEF DrawdownInv
  <2>11. PICK peak : peak = Larger(peakValue, value)
    OBVIOUS
  <2>12. peakValue \in Nat \ {0} /\ maxDrawdownDollar \in Nat /\ value \in Nat \ {0}
    BY <1>1, <2>3, <2>5 DEF ShapeInv
  <2>13. peak \in Nat \ {0} /\ value <= peak /\ peakValue <= peak /\ peak \in {peakValue, value}
    BY <2>11, <2>12 DEF Larger
  <2>14. \A d \in 0 .. n + 1 : f[d] <= peak
    <3>1. \A d \in 0 .. n : f[d] <= peakValue
      BY <1>1, <2>1, <2>3 DEF PeakInv
    <3> QED
      BY <2>3, <2>4, <2>5, <2>12, <2>13, <3>1
  <2>15. PICK top \in 0 .. n + 1 : f[top] = peak
    <3>1. CASE peak = value
      BY <2>3, <3>1
    <3>2. CASE peak = peakValue
      <4>1. PICK d \in 0 .. n : Value(d) = peakValue
        BY <1>1, <2>1 DEF PeakInv
      <4> QED
        BY <2>3, <3>2, <4>1
    <3> QED
      BY <2>13, <3>1, <3>2
  <2>16. PICK x \in Nat : x = peak - value
    BY <2>12, <2>13
  <2>17. /\ maxDrawdown' = IF x * q > m * peak THEN <<x, peak>> ELSE <<m, q>>
         /\ maxDrawdownDollar' = Larger(maxDrawdownDollar, x)
    BY <2>1, <2>7, <2>11, <2>16 DEF TrackDrawdown, Exceeds
  <2>18. PICK m1 \in Nat, q1 \in Nat \ {0} :
            /\ maxDrawdown' = <<m1, q1>>
            /\ (m1 = x /\ q1 = peak /\ x * q > m * peak) \/ (m1 = m /\ q1 = q /\ ~(x * q > m * peak))
    BY <2>13, <2>17
  <2>19. maxDrawdown'[1] = m1 /\ maxDrawdown'[2] = q1
    BY <2>18
  <2>20. m * q1 <= m1 * q /\ x * q1 <= m1 * peak
    <3>1. x * q \in Int /\ m * peak \in Int /\ x * peak \in Int /\ m * q \in Int
      BY <2>13
    <3> QED
      BY <2>18, <3>1
  <2>21. PICK dollar : dollar = maxDrawdownDollar'
    OBVIOUS
  <2>22. dollar \in Nat /\ maxDrawdownDollar <= dollar /\ x <= dollar /\ dollar \in {maxDrawdownDollar, x}
    BY <2>12, <2>17, <2>21 DEF Larger
  <2>23. ASSUME NEW i \in 0 .. n + 1, NEW j \in 0 .. n + 1, i <= j
         PROVE  (f[i] - f[j]) * q1 <= m1 * f[i] /\ f[i] - f[j] <= dollar
    <3>1. f[i] \in Nat \ {0} /\ f[j] \in Nat \ {0} /\ f[i] <= peak
      BY <2>5, <2>14
    <3>2. CASE j \in 0 .. n
      <4>1. i \in 0 .. n
        BY <2>23, <3>2
      <4>2. (f[i] - f[j]) * q <= m * f[i] /\ f[i] - f[j] <= maxDrawdownDollar
        BY <2>8, <2>23, <3>2, <4>1
      <4>3. f[i] - f[j] \in Int
        BY <3>1
      <4>4. (f[i] - f[j]) * q1 <= m1 * f[i]
        BY <2>20, <3>1, <4>2, <4>3, RatioTransitive
      <4> QED
        BY <2>12, <2>22, <4>2, <4>3, <4>4
    <3>3. CASE j = n + 1
      <4>1. f[j] = value
        BY <2>3, <3>3
      <4>2. (f[i] - value) * peak <= x * f[i]
        BY <2>12, <2>13, <2>16, <3>1, HigherFallsMore
      <4>3. f[i] - value \in Int
        BY <2>12, <3>1
      <4>4. (f[i] - value) * q1 <= m1 * f[i]
        BY <2>13, <2>20, <3>1, <4>2, <4>3, RatioTransitive
      <4>5. f[i] - value <= dollar
        BY <2>12, <2>13, <2>16, <2>22, <3>1
      <4> QED
        BY <4>1, <4>4, <4>5
    <3> QED
      BY <2>4, <3>2, <3>3
  <2>24. \E i, j \in 0 .. n + 1 : i <= j /\ m1 * f[i] <= (f[i] - f[j]) * q1
    <3>1. CASE m1 = x /\ q1 = peak
      <4>1. m1 * f[top] <= (f[top] - f[n + 1]) * q1
        BY <2>3, <2>13, <2>15, <2>16, <3>1
      <4>2. top <= n + 1
        OBVIOUS
      <4> QED
        BY <2>3, <4>1, <4>2
    <3>2. CASE m1 = m /\ q1 = q
      BY <2>3, <2>9, <3>2
    <3> QED
      BY <2>18, <3>1, <3>2
  <2>25. \E i, j \in 0 .. n + 1 : i <= j /\ f[i] - f[j] = dollar
    <3>1. CASE dollar = x
      <4>1. top <= n + 1 /\ f[top] - f[n + 1] = dollar
        BY <2>3, <2>15, <2>16, <3>1
      <4> QED
        BY <2>3, <4>1
    <3>2. CASE dollar = maxDrawdownDollar
      BY <2>3, <2>10, <3>2
    <3> QED
      BY <2>22, <3>1, <3>2
  <2>26. /\ \A i, j \in 0 .. n + 1 : i <= j =>
              /\ (Value(i)' - Value(j)') * maxDrawdown'[2] <= maxDrawdown'[1] * Value(i)'
              /\ Value(i)' - Value(j)' <= maxDrawdownDollar'
         /\ \E i, j \in 0 .. n + 1 :
              i <= j /\ maxDrawdown'[1] * Value(i)' <= (Value(i)' - Value(j)') * maxDrawdown'[2]
         /\ \E i, j \in 0 .. n + 1 : i <= j /\ Value(i)' - Value(j)' = maxDrawdownDollar'
    <3>1. \A i, j \in 0 .. n + 1 : i <= j =>
            /\ (Value(i)' - Value(j)') * maxDrawdown'[2] <= maxDrawdown'[1] * Value(i)'
            /\ Value(i)' - Value(j)' <= maxDrawdownDollar'
      BY <2>3, <2>19, <2>21, <2>23
    <3>2. \E i, j \in 0 .. n + 1 :
            i <= j /\ maxDrawdown'[1] * Value(i)' <= (Value(i)' - Value(j)') * maxDrawdown'[2]
      BY <2>3, <2>19, <2>24
    <3>3. \E i, j \in 0 .. n + 1 : i <= j /\ Value(i)' - Value(j)' = maxDrawdownDollar'
      BY <2>3, <2>21, <2>25
    <3> QED
      BY <3>1, <3>2, <3>3
  <2> QED
    BY <2>1, <2>26 DEF DrawdownInv, Value
<1>3. CASE Finish \/ Report \/ UNCHANGED vars
  <2>1. UNCHANGED <<maxDrawdown, maxDrawdownDollar, dailyPnls>> /\ \A d : Value(d)' = Value(d)
    BY <1>3, OtherSteps
  <2>2. Worth' <=> Worth
    BY <2>1 DEF Worth, Value
  <2> QED
    BY <1>1, <2>1, <2>2 DEF DrawdownInv, Value
<1>4. CASE ~Worth'
  BY <1>4 DEF DrawdownInv
<1> QED
  BY <1>2, <1>3, <1>4, NextCases

\* What the invariant says in terms of the model's property.
LEMMA DrawdownMeaning ==
  ASSUME ShapeInv, DrawdownInv
  PROVE  DrawdownIsPeakToTrough
<1>1. PICK n \in Nat : n = Len(dailyPnls)
  BY DEF ShapeInv
<1>2. PICK m \in Nat, q \in Nat \ {0} : m = maxDrawdown[1] /\ q = maxDrawdown[2]
  BY DEF ShapeInv
<1>3. maxDrawdownDollar \in Nat
  BY DEF ShapeInv
<1>4. \A d \in 0 .. n : Value(d) \in Int
  <2>1. dailyPnls \in Seq(DailyPnL) /\ InitialCapital \in Int
    BY MoneyAssumption DEF ShapeInv
  <2> TAKE d \in 0 .. n
  <2>2. d # 0 => dailyPnls[d] \in DailyPnL
    BY <1>1, <2>1
  <2> QED
    BY <2>1, <2>2 DEF Value, DailyPnL
<1> DEFINE Falls == {f \in (0 .. Len(dailyPnls)) \X (0 .. Len(dailyPnls)) : f[1] <= f[2]}
           Fall(f) == Value(f[1]) - Value(f[2])
           Percent(f) == <<Fall(f), Value(f[1])>>
<1>5. SUFFICES ASSUME Worth
      PROVE  /\ \A f \in Falls : ~Exceeds(Percent(f), maxDrawdown) /\ Fall(f) <= maxDrawdownDollar
             /\ \E f \in Falls : ~Exceeds(maxDrawdown, Percent(f))
             /\ \E f \in Falls : Fall(f) = maxDrawdownDollar
  BY DEF DrawdownIsPeakToTrough, Worth
<1>6. \A i, j \in 0 .. n : (Value(i) - Value(j)) * q \in Int /\ m * Value(i) \in Int
  BY <1>2, <1>4
<1>7. ASSUME NEW f \in Falls
      PROVE  ~Exceeds(Percent(f), maxDrawdown) /\ Fall(f) <= maxDrawdownDollar
  <2>1. f[1] \in 0 .. n /\ f[2] \in 0 .. n /\ f[1] <= f[2]
    BY <1>1
  <2>2. (Value(f[1]) - Value(f[2])) * q <= m * Value(f[1]) /\ Value(f[1]) - Value(f[2]) <= maxDrawdownDollar
    BY <1>1, <1>2, <1>5, <2>1 DEF DrawdownInv
  <2>3. PICK i \in 0 .. n, j \in 0 .. n : i = f[1] /\ j = f[2]
    BY <2>1
  <2>4. (Value(i) - Value(j)) * q \in Int /\ m * Value(i) \in Int
    BY <1>6
  <2>5. ~((Value(i) - Value(j)) * q > m * Value(i)) /\ Value(i) - Value(j) <= maxDrawdownDollar
    BY <2>2, <2>3, <2>4
  <2> QED
    BY <1>2, <2>3, <2>5 DEF Exceeds
<1>8. \E f \in Falls : ~Exceeds(maxDrawdown, Percent(f))
  <2>1. PICK i \in 0 .. n, j \in 0 .. n : i <= j /\ m * Value(i) <= (Value(i) - Value(j)) * q
    BY <1>1, <1>2, <1>5 DEF DrawdownInv
  <2>2. <<i, j>> \in Falls
    BY <1>1, <2>1
  <2>3. ~Exceeds(maxDrawdown, Percent(<<i, j>>))
    BY <1>2, <1>6, <2>1 DEF Exceeds
  <2> QED
    BY <2>2, <2>3
<1>9. \E f \in Falls : Fall(f) = maxDrawdownDollar
  <2>1. PICK i \in 0 .. n, j \in 0 .. n : i <= j /\ Value(i) - Value(j) = maxDrawdownDollar
    BY <1>1, <1>5 DEF DrawdownInv
  <2>2. <<i, j>> \in Falls
    BY <1>1, <2>1
  <2>3. Fall(<<i, j>>) = maxDrawdownDollar
    BY <2>1
  <2> QED
    BY <2>2, <2>3
<1> QED
  BY <1>7, <1>8, <1>9

LEMMA MoneyStep ==
  ASSUME Inv, [Next]_vars
  PROVE  MoneyInv'
<1>1. ShapeInv /\ PeakInv /\ CountInv /\ MoneyInv
  BY DEF Inv
<1>2. ASSUME NEW direction \in SignalDirection, NEW notional \in Nat, NEW ret \in Returns,
             Day(direction, notional, ret)
      PROVE  MoneyInv'
  <2>0. PICK n \in Nat, position \in Int, value \in Int, r \in DailyPnL :
         DayEffect(direction, ret, n, position, value, r)
    BY <1>1, <1>2, DayGrows
  <2>1. /\ n \in Nat /\ position \in Int /\ value \in Int /\ r \in DailyPnL
        /\ n = Len(dailyPnls)
        /\ Len(dailyPnls') = n + 1 /\ dailyPnls'[n + 1] = r
        /\ \A d \in 1 .. n : dailyPnls'[d] = dailyPnls[d]
        /\ r.position = position /\ r.pnl = position * ret
        /\ portfolioValue' = value
        /\ value = portfolioValue - Cost(direction, position) + position * ret
        /\ cumulativePnl' = cumulativePnl + position * ret
        /\ numTrades' = numTrades + (IF direction # previousSignal THEN 1 ELSE 0)
    BY <2>0 DEF DayEffect
  <2>2. PICK D : D = Days
    OBVIOUS
  <2>3. D = 1 .. n /\ Days' = D \cup {n + 1} /\ n + 1 \notin D
    BY <2>1, <2>2 DEF Days
  <2>4. PICK p : p = Pnls
    OBVIOUS
  <2>5. PICK p1 : p1 = Pnls'
    OBVIOUS
  <2>6. PICK s : s = Sizes
    OBVIOUS
  <2>7. PICK s1 : s1 = Sizes'
    OBVIOUS
  <2>8. /\ \A d \in D : dailyPnls[d] \in DailyPnL
        /\ \A d \in D \cup {n + 1} : dailyPnls'[d] \in DailyPnL
    <3>1. \A d \in 1 .. n : dailyPnls[d] \in DailyPnL
      BY <1>1, <2>1 DEF ShapeInv
    <3>2. \A d \in 1 .. n : dailyPnls'[d] \in DailyPnL
      BY <2>1, <3>1
    <3>3. dailyPnls'[n + 1] \in DailyPnL
      BY <2>1
    <3> QED
      BY <2>3, <3>1, <3>2, <3>3
  <2>9. \A x \in Int : Monitor!Magnitude(x) \in Nat
    BY DEF Monitor!Magnitude
  <2>10. \A d \in D \cup {n + 1} : p1[d] = dailyPnls'[d].pnl /\ p1[d] \in Int
    BY <2>3, <2>5, <2>8 DEF Pnls, DailyPnL
  <2>11. \A d \in D : p[d] = dailyPnls[d].pnl /\ p1[d] = p[d]
    BY <2>1, <2>2, <2>3, <2>4, <2>10 DEF Pnls
  <2>12. \A d \in D \cup {n + 1} : s1[d] = Monitor!Magnitude(dailyPnls'[d].position) /\ s1[d] \in Int
    <3>1. s1 = [d \in D \cup {n + 1} |-> Monitor!Magnitude(dailyPnls'[d].position)]
      BY <2>3, <2>7 DEF Sizes, Monitor!Magnitude
    <3> QED
      BY <2>8, <2>9, <3>1 DEF DailyPnL
  <2>13. \A d \in D : s[d] = Monitor!Magnitude(dailyPnls[d].position) /\ s1[d] = s[d]
    BY <2>1, <2>2, <2>3, <2>6, <2>12 DEF Sizes
  <2>14. IsFiniteSet(D)
    BY <1>1, <2>2, SomeOfTheDays
  <2>15. Total(Days', p1) = position * ret + Total(D, p)
    <3>1. Total(D \cup {n + 1}, p1) = p1[n + 1] + Total(D, p1)
      BY <2>3, <2>10, <2>14, TotalGrows
    <3>2. Total(D, p1) = Total(D, p)
      BY <2>11, <2>14, TotalSame
    <3> QED
      BY <2>1, <2>3, <2>10, <3>1, <3>2
  <2>16. cumulativePnl' = Total(Days', p1)
    <3>1. cumulativePnl = Total(D, p) /\ cumulativePnl \in Int /\ position * ret \in Int
      BY <1>1, <2>1, <2>2, <2>4, MoneyAssumption DEF MoneyInv, ShapeInv
    <3> QED
      BY <2>1, <2>15, <3>1
  <2>17. PICK T : T = Turns
    OBVIOUS
  <2>18. T \in SUBSET D /\ IsFiniteSet(T)
    <3>1. T \in SUBSET D
      BY <2>2, <2>17 DEF Turns
    <3> QED
      BY <1>1, <2>2, <3>1, SomeOfTheDays
  <2>19. Turns' = IF direction # previousSignal THEN T \cup {n + 1} ELSE T
    BY <1>1, <1>2, <2>1, <2>17, TurnsGrow
  <2>20. Total(T, s1) = Total(T, s)
    BY <2>13, <2>18, TotalSame
  <2>21. Total(Turns', s1) = Total(T, s) + (IF direction # previousSignal THEN Monitor!Magnitude(position) ELSE 0)
    <3>1. Total(T, s) \in Int
      BY <2>12, <2>13, <2>18, TotalType
    <3>2. CASE direction # previousSignal
      <4>1. n + 1 \notin T /\ \A d \in T \cup {n + 1} : s1[d] \in Int
        BY <2>3, <2>12, <2>18
      <4>2. Total(T \cup {n + 1}, s1) = s1[n + 1] + Total(T, s1)
        BY <2>18, <4>1, TotalGrows
      <4>3. s1[n + 1] = Monitor!Magnitude(position) /\ s1[n + 1] \in Int
        BY <2>1, <2>12
      <4> QED
        BY <2>19, <2>20, <3>1, <3>2, <4>2, <4>3
    <3>3. CASE direction = previousSignal
      BY <2>19, <2>20, <3>1, <3>3
    <3> QED
      BY <3>2, <3>3
  <2>22. portfolioValue' = InitialCapital + cumulativePnl' - numTrades' * CommissionPerTrade - Slippage * Total(Turns', s1)
    <3>1. PICK t \in Int : t = Total(T, s)
      BY <2>12, <2>13, <2>18, TotalType
    <3>2. PICK m \in Int : m = Monitor!Magnitude(position)
      BY <2>9
    <3>3. /\ InitialCapital \in Int /\ CommissionPerTrade \in Int /\ Slippage \in Int
          /\ cumulativePnl \in Int /\ numTrades \in Int /\ position * ret \in Int
      BY <1>1, MoneyAssumption DEF ShapeInv
    <3>4. portfolioValue = InitialCapital + cumulativePnl - numTrades * CommissionPerTrade - Slippage * t
      BY <1>1, <2>6, <2>17, <3>1 DEF MoneyInv
    <3>5. CASE direction # previousSignal
      <4>1. Cost(direction, position) = CommissionPerTrade + m * Slippage
        BY <3>2, <3>5 DEF Cost
      <4>2. numTrades' = numTrades + 1 /\ Total(Turns', s1) = t + m
        BY <2>1, <2>21, <3>1, <3>2, <3>5
      <4>3. Slippage * (t + m) = Slippage * t + m * Slippage
        BY <3>3
      <4>4. (numTrades + 1) * CommissionPerTrade = numTrades * CommissionPerTrade + CommissionPerTrade
        BY <3>3
      <4>5. Slippage * t \in Int /\ m * Slippage \in Int /\ numTrades * CommissionPerTrade \in Int
        BY <3>3
      <4> QED
        BY <2>1, <3>3, <3>4, <4>1, <4>2, <4>3, <4>4, <4>5
    <3>6. CASE direction = previousSignal
      <4>1. Cost(direction, position) = 0
        BY <3>6 DEF Cost
      <4>2. numTrades' = numTrades /\ Total(Turns', s1) = t
        BY <2>1, <2>21, <3>1, <3>3, <3>6
      <4>3. Slippage * t \in Int /\ numTrades * CommissionPerTrade \in Int
        BY <3>3
      <4> QED
        BY <2>1, <3>3, <3>4, <4>1, <4>2, <4>3
    <3> QED
      BY <3>5, <3>6
  <2> QED
    BY <2>5, <2>7, <2>16, <2>22 DEF MoneyInv
<1>3. CASE Finish \/ Report \/ UNCHANGED vars
  <2>1. UNCHANGED <<cumulativePnl, portfolioValue, numTrades, dailyPnls>>
    BY <1>3, OtherSteps
  <2>2. Days' = Days /\ Pnls' = Pnls
    BY <2>1 DEF Days, Pnls
  <2>3. Sizes' = Sizes /\ Turns' = Turns
    BY <2>1, <2>2 DEF Sizes, Turns, SignalBefore, Monitor!Magnitude
  <2> QED
    BY <1>1, <2>1, <2>2, <2>3 DEF MoneyInv
<1> QED
  BY <1>2, <1>3, NextCases

-----------------------------------------------------------------------------
(* The trade list. *)

\* One more number for a day after all the others.
LEMMA ListsOneMore ==
  ASSUME NEW n \in Nat, NEW M \in SUBSET (1 .. n), NEW e \in 1 .. n, \A d \in M : d < e,
         NEW g, NEW c \in Int \ {0}, NEW q \in Seq(Int \ {0}), Lists(q, M, g), g[e] = c
  PROVE  Lists(Append(q, c), M \cup {e}, g)
<1>1. PICK R : R = M \cup {e}
  OBVIOUS
<1>2. /\ Cardinality(R) = Cardinality(M) + 1 /\ Rank(R, e) = Cardinality(M) + 1
      /\ \A d \in M : Rank(R, d) = Rank(M, d)
  BY <1>1, RankOfLast
<1>3. Len(q) = Cardinality(M) /\ \A d \in M : q[Rank(M, d)] = g[d]
  BY DEF Lists
<1>4. \A d \in M : Rank(M, d) \in 1 .. Cardinality(M)
  BY RankInRange
<1>5. PICK L \in Nat : L = Len(q)
  OBVIOUS
<1>6. PICK next : next = Append(q, c)
  OBVIOUS
<1>7. Len(next) = L + 1 /\ next[L + 1] = c /\ \A k \in 1 .. L : next[k] = q[k]
  BY <1>5, <1>6
<1>8. \A d \in R : next[Rank(R, d)] = g[d]
  BY <1>1, <1>2, <1>3, <1>4, <1>5, <1>7
<1> QED
  BY <1>1, <1>2, <1>3, <1>5, <1>6, <1>7, <1>8 DEF Lists

\* The signed returns are integers, and each period is a finite set of days.
LEMMA PeriodTypes ==
  ASSUME ShapeInv
  PROVE  /\ \A d \in Days : Signed[d] \in Int
         /\ \A i : Period(i) \in SUBSET Days /\ IsFiniteSet(Period(i))
         /\ \A i \in Days : Gains[i] = Total(Period(i), Signed) /\ Gains[i] \in Int
<1>1. ASSUME NEW d \in Days PROVE Signed[d] \in Int
  <2>1. dailyPnls[d] \in DailyPnL
    BY DEF ShapeInv, Days
  <2>2. dailyPnls[d].signal \in SignalDirection /\ dailyPnls[d].dailyReturn \in Int
    BY <2>1, MoneyAssumption DEF DailyPnL
  <2>3. Sign(dailyPnls[d].signal) \in {-1, 0, 1}
    BY <2>2 DEF Sign, SignalDirection
  <2>4. Sign(dailyPnls[d].signal) * dailyPnls[d].dailyReturn \in Int
    BY <2>2, <2>3
  <2> QED
    BY <2>4 DEF Signed
<1>2. \A i : Period(i) \in SUBSET Days
  BY DEF Period
<1>3. \A i : IsFiniteSet(Period(i))
  BY <1>2, SomeOfTheDays
<1>4. \A i \in Days : Gains[i] = Total(Period(i), Signed)
  BY DEF Gains
<1>5. ASSUME NEW i \in Days PROVE Total(Period(i), Signed) \in Int
  <2>1. \A d \in Period(i) : Signed[d] \in Int
    BY <1>1, <1>2
  <2> QED
    BY <1>3, <2>1, TotalType
<1> QED
  BY <1>1, <1>2, <1>3, <1>4, <1>5

\* Closing the open trade lists every period that moved, the last one included.
LEMMA ClosingListsAll ==
  ASSUME ShapeInv, TradeInv, phase = "loop"
  PROVE  Lists(WithClosedTrade, Moving(Entries), Gains)
<1>1. PICK n \in Nat : n = Len(dailyPnls) /\ Days = 1 .. n
  BY DEF ShapeInv, Days
<1>2. Entries \in SUBSET Turns /\ Turns \in SUBSET (1 .. n)
  BY <1>1 DEF Entries, Turns
<1>3. Finished = {i \in Entries : \E k \in Turns : k > i}
  BY DEF Finished
<1>4. Lists(tradeReturns, Moving(Finished), Gains) /\ tradeReturns \in Seq(Int \ {0}) /\ currentTradeReturn \in Int
  BY DEF TradeInv, ShapeInv
<1>5. CASE inTrade = FALSE
  <2>1. Finished = Entries
    BY <1>3, <1>5 DEF TradeInv
  <2> QED
    BY <1>4, <1>5, <2>1 DEF WithClosedTrade
<1>6. CASE inTrade = TRUE
  <2>1. PICK e \in Entries : (\A k \in Turns : k <= e) /\ currentTradeReturn = Gains[e]
    BY <1>6 DEF TradeInv, OpenTradeIsLast
  <2>2. e \in 1 .. n
    BY <1>2
  <2>3. \A d \in Turns : d \in 1 .. n /\ d <= e
    BY <1>2, <2>1
  <2>4. \A d \in Finished : d < e
    <3> TAKE d \in Finished
    <3>1. PICK k \in Turns : k > d
      BY <1>3
    <3>2. d \in 1 .. n /\ k \in 1 .. n /\ k <= e
      BY <1>2, <1>3, <2>3
    <3> QED
      BY <2>2, <3>1, <3>2
  <2>5. \A d \in Entries : d \in Finished \/ d = e
    <3> TAKE d \in Entries
    <3>1. d \in 1 .. n /\ d <= e /\ e \in Turns
      BY <1>2, <2>3
    <3>2. CASE d < e
      BY <1>3, <3>1, <3>2
    <3> QED
      BY <2>2, <3>1, <3>2
  <2>6. Finished \in SUBSET Entries
    BY <1>3
  <2>7. CASE Gains[e] = 0
    <3>1. Moving(Entries) = Moving(Finished)
      BY <2>5, <2>6, <2>7 DEF Moving
    <3> QED
      BY <1>4, <2>1, <2>7, <3>1 DEF WithClosedTrade
  <2>8. CASE Gains[e] # 0
    <3>1. Moving(Entries) = Moving(Finished) \cup {e}
      BY <2>5, <2>6, <2>8 DEF Moving
    <3>2. Moving(Finished) \in SUBSET (1 .. n)
      BY <1>2, <2>6 DEF Moving
    <3>3. \A d \in Moving(Finished) : d < e
      BY <2>4 DEF Moving
    <3>4. currentTradeReturn \in Int \ {0}
      BY <1>4, <2>1, <2>8
    <3>5. Lists(Append(tradeReturns, currentTradeReturn), Moving(Finished) \cup {e}, Gains)
      BY <1>4, <2>1, <2>2, <3>2, <3>3, <3>4, ListsOneMore
    <3>6. WithClosedTrade = Append(tradeReturns, currentTradeReturn)
      BY <1>6, <3>4 DEF WithClosedTrade
    <3> QED
      BY <3>1, <3>5, <3>6
  <2> QED
    BY <2>7, <2>8
<1> QED
  BY <1>5, <1>6 DEF ShapeInv

\* The day's return is in the record, signed by the direction.
LEMMA DayReturn ==
  ASSUME ShapeInv, PeakInv, NEW direction \in SignalDirection, NEW notional \in Nat, NEW ret \in Returns,
         Day(direction, notional, ret)
  PROVE  Signed'[Len(dailyPnls) + 1] = Sign(direction) * ret
<1>0. PICK n \in Nat, position \in Int, value \in Int, r \in DailyPnL :
       DayEffect(direction, ret, n, position, value, r)
  BY DayGrows
<1>1. /\ n \in Nat /\ r \in DailyPnL
      /\ n = Len(dailyPnls) /\ Len(dailyPnls') = n + 1 /\ dailyPnls'[n + 1] = r /\ r.signal = direction
  BY <1>0 DEF DayEffect
<1>2. PICK worth : dailyPnls' = Append(dailyPnls, DayRecord(direction, Sign(direction) * notional, ret, worth))
  BY DEF Day, DayRecord
<1>3. PICK rec : rec = DayRecord(direction, Sign(direction) * notional, ret, worth)
  OBVIOUS
<1>4. rec.dailyReturn = ret
  BY <1>3 DEF DayRecord
<1>5. dailyPnls'[n + 1] = rec
  BY <1>1, <1>2, <1>3 DEF ShapeInv
<1>6. n + 1 \in Days'
  BY <1>1 DEF Days
<1> QED
  BY <1>1, <1>4, <1>5, <1>6 DEF Signed

\* A turn ends every period and opens its own; on another day the last period
\* goes on, and the others stay as they are.
LEMMA PeriodsGrow ==
  ASSUME ShapeInv, PeakInv, CountInv,
         NEW direction \in SignalDirection, NEW notional \in Nat, NEW ret \in Returns,
         Day(direction, notional, ret), NEW n \in Nat, n = Len(dailyPnls)
  PROVE  /\ \A d \in 1 .. n : Signed'[d] = Signed[d]
         /\ \A i \in Turns : (direction # previousSignal \/ \E k \in Turns : k > i)
                               => Period(i)' = Period(i)
         /\ direction # previousSignal => Period(n + 1)' = {n + 1}
         /\ \A i \in Turns : (direction = previousSignal /\ \A k \in Turns : k <= i)
                               => Period(i)' = Period(i) \cup {n + 1}
<1>0. PICK m \in Nat, position \in Int, value \in Int, r \in DailyPnL :
       DayEffect(direction, ret, m, position, value, r)
  BY DayGrows
<1>1. /\ r \in DailyPnL
      /\ Len(dailyPnls') = n + 1 /\ dailyPnls'[n + 1] = r
      /\ \A d \in 1 .. n : dailyPnls'[d] = dailyPnls[d]
  BY <1>0 DEF DayEffect
<1>2. Days = 1 .. n /\ Days' = 1 .. n + 1
  BY <1>1 DEF Days
<1>3. \A d \in 1 .. n : d \in 1 .. n + 1
  OBVIOUS
<1>4. \A d \in 1 .. n : Signed'[d] = Signed[d]
  BY <1>1, <1>2, <1>3 DEF Signed
<1>5. PICK T : T = Turns
  OBVIOUS
<1>6. PICK T2 : T2 = Turns'
  OBVIOUS
<1>7. T2 = IF direction # previousSignal THEN T \cup {n + 1} ELSE T
  BY <1>5, <1>6, TurnsGrow
<1>8. T \in SUBSET (1 .. n)
  BY <1>2, <1>5 DEF Turns
<1>9. \A i, j : j \in Period(i) <=> j \in 1 .. n /\ j >= i /\ \A k \in T : k > i => k > j
  BY <1>2, <1>5 DEF Period
<1>10. \A i, j : j \in Period(i)' <=> j \in 1 .. n + 1 /\ j >= i /\ \A k \in T2 : k > i => k > j
  BY <1>2, <1>6 DEF Period
<1>11. \A j \in 1 .. n + 1 : j \in 1 .. n \/ j = n + 1
  OBVIOUS
<1>12. \A j \in 1 .. n : j < n + 1 /\ j # n + 1
  OBVIOUS
<1>13. ASSUME NEW i \in T, direction # previousSignal PROVE Period(i)' = Period(i)
  <2>1. T2 = T \cup {n + 1}
    BY <1>7, <1>13
  <2>2. n + 1 > i /\ ~(n + 1 > n + 1)
    BY <1>8
  <2>3. \A j : j \in Period(i)' <=> j \in Period(i)
    <3> TAKE j
    <3>1. CASE j \in 1 .. n
      <4>1. n + 1 > j /\ j \in 1 .. n + 1
        BY <3>1
      <4> QED
        BY <1>9, <1>10, <2>1, <3>1, <4>1
    <3>2. CASE j = n + 1
      <4>1. j \notin 1 .. n
        BY <3>2
      <4> QED
        BY <1>9, <1>10, <2>1, <2>2, <3>2, <4>1
    <3>3. CASE j \notin 1 .. n + 1
      BY <1>3, <1>9, <1>10, <3>3
    <3> QED
      BY <1>11, <3>1, <3>2, <3>3
  <2> QED
    BY <2>3
<1>14. ASSUME NEW i \in T, direction = previousSignal, NEW k \in T, k > i PROVE Period(i)' = Period(i)
  <2>1. T2 = T
    BY <1>7, <1>14
  <2>2. k \in 1 .. n /\ ~(k > n + 1)
    BY <1>8
  <2>3. \A j : j \in Period(i)' <=> j \in Period(i)
    BY <1>3, <1>9, <1>10, <1>11, <1>14, <2>1, <2>2
  <2> QED
    BY <2>3
<1>15. ASSUME direction # previousSignal PROVE Period(n + 1)' = {n + 1}
  <2>1. T2 = T \cup {n + 1}
    BY <1>7, <1>15
  <2>2. \A j \in 1 .. n + 1 : j >= n + 1 <=> j = n + 1
    OBVIOUS
  <2>3. \A k \in T2 : ~(k > n + 1)
    BY <1>8, <1>12, <2>1
  <2>4. n + 1 \in 1 .. n + 1
    OBVIOUS
  <2>5. \A j : j \in Period(n + 1)' <=> j = n + 1
    BY <1>10, <2>2, <2>3, <2>4
  <2> QED
    BY <2>5
<1>16. ASSUME NEW i \in T, direction = previousSignal, \A k \in T : k <= i
       PROVE  Period(i)' = Period(i) \cup {n + 1}
  <2>1. T2 = T
    BY <1>7, <1>16
  <2>2. i \in 1 .. n /\ n + 1 >= i /\ n + 1 \in 1 .. n + 1
    BY <1>8
  <2>3. \A k \in T : ~(k > i)
    BY <1>8, <1>16, <2>2
  <2>4. \A j : j \in Period(i)' <=> j \in Period(i) \/ j = n + 1
    BY <1>3, <1>9, <1>10, <1>11, <2>1, <2>2, <2>3
  <2> QED
    BY <2>4
<1> QED
  BY <1>4, <1>5, <1>13, <1>14, <1>15, <1>16

\* What the periods earned after a day: its signed return goes to the last one.
LEMMA GainsGrow ==
  ASSUME ShapeInv, PeakInv, CountInv,
         NEW direction \in SignalDirection, NEW notional \in Nat, NEW ret \in Returns,
         Day(direction, notional, ret), NEW n \in Nat, n = Len(dailyPnls)
  PROVE  /\ \A i \in Turns : (direction # previousSignal \/ \E k \in Turns : k > i)
                               => Gains'[i] = Gains[i]
         /\ direction # previousSignal => Gains'[n + 1] = Sign(direction) * ret
         /\ \A i \in Turns : (direction = previousSignal /\ \A k \in Turns : k <= i)
                               => Gains'[i] = Gains[i] + Sign(direction) * ret
<1>0. PICK m \in Nat, position \in Int, value \in Int, r \in DailyPnL :
       DayEffect(direction, ret, m, position, value, r)
  BY DayGrows
<1>1. Len(dailyPnls') = n + 1
  BY <1>0 DEF DayEffect
<1>2. Days = 1 .. n /\ Days' = 1 .. n + 1 /\ Turns \in SUBSET (1 .. n)
  BY <1>1 DEF Days, Turns
<1>3. \A d \in 1 .. n : d \in 1 .. n + 1 /\ d # n + 1
  OBVIOUS
<1>4. \A i \in Days' : Gains'[i] = Total(Period(i)', Signed')
  BY DEF Gains
<1>5. PICK a : a = Signed
  OBVIOUS
<1>6. PICK b : b = Signed'
  OBVIOUS
<1>7. PICK c \in Int : c = Sign(direction) * ret
  BY DayNumbers
<1>8. b[n + 1] = c
  BY <1>6, <1>7, DayReturn
<1>9. \A d \in 1 .. n : b[d] = a[d] /\ a[d] \in Int
  BY <1>2, <1>5, <1>6, PeriodsGrow, PeriodTypes
<1>10. ASSUME NEW i \in Turns
       PROVE  /\ Period(i) \in SUBSET (1 .. n) /\ IsFiniteSet(Period(i))
              /\ Gains[i] = Total(Period(i), a) /\ Gains[i] \in Int
              /\ Total(Period(i), b) = Total(Period(i), a)
              /\ Gains'[i] = Total(Period(i)', b)
  <2>1. i \in Days /\ i \in Days'
    BY <1>2, <1>3
  <2>2. /\ Period(i) \in SUBSET (1 .. n) /\ IsFiniteSet(Period(i))
        /\ Gains[i] = Total(Period(i), a) /\ Gains[i] \in Int
    BY <1>2, <1>5, <2>1, PeriodTypes
  <2>3. \A d \in Period(i) : b[d] = a[d]
    BY <1>9, <2>2
  <2>4. Total(Period(i), b) = Total(Period(i), a)
    BY <2>2, <2>3, TotalSame
  <2> QED
    BY <1>4, <1>6, <2>1, <2>2, <2>4
<1>11. ASSUME NEW i \in Turns, direction # previousSignal \/ \E k \in Turns : k > i
       PROVE  Gains'[i] = Gains[i]
  <2>1. Period(i)' = Period(i)
    BY <1>11, PeriodsGrow
  <2> QED
    BY <1>10, <2>1
<1>12. ASSUME direction # previousSignal PROVE Gains'[n + 1] = c
  <2>1. Period(n + 1)' = {n + 1} /\ n + 1 \in Days'
    BY <1>2, <1>12, PeriodsGrow
  <2>2. Total({} \cup {n + 1}, b) = b[n + 1] + Total({}, b)
    <3>1. IsFiniteSet({})
      BY FS_EmptySet
    <3> QED
      BY <1>7, <1>8, <3>1, TotalGrows
  <2>3. Total({}, b) = 0 /\ {} \cup {n + 1} = {n + 1}
    BY TotalOfNone
  <2>4. Gains'[n + 1] = Total({n + 1}, b)
    BY <1>4, <1>6, <2>1
  <2> QED
    BY <1>7, <1>8, <2>2, <2>3, <2>4
<1>13. ASSUME NEW i \in Turns, direction = previousSignal, \A k \in Turns : k <= i
       PROVE  Gains'[i] = Gains[i] + c
  <2>1. Period(i)' = Period(i) \cup {n + 1}
    BY <1>13, PeriodsGrow
  <2>2. PICK P : P = Period(i)
    OBVIOUS
  <2>3. P \in SUBSET (1 .. n) /\ IsFiniteSet(P) /\ Total(P, b) = Gains[i] /\ Gains[i] \in Int
    BY <1>10, <2>2
  <2>4. n + 1 \notin P
    BY <1>3, <2>3
  <2>5. \A d \in P \cup {n + 1} : b[d] \in Int
    BY <1>7, <1>8, <1>9, <2>3
  <2>6. Total(P \cup {n + 1}, b) = b[n + 1] + Total(P, b)
    BY <2>3, <2>4, <2>5, TotalGrows
  <2>7. Gains'[i] = Total(P \cup {n + 1}, b)
    BY <1>10, <2>1, <2>2
  <2> QED
    BY <1>7, <1>8, <2>3, <2>6, <2>7
<1> QED
  BY <1>7, <1>11, <1>12, <1>13

LEMMA TradeStep ==
  ASSUME Inv, [Next]_vars
  PROVE  TradeInv'
<1>1. ShapeInv /\ PeakInv /\ CountInv /\ TradeInv
  BY DEF Inv
<1>2. ASSUME NEW direction \in SignalDirection, NEW notional \in Nat, NEW ret \in Returns,
             Day(direction, notional, ret)
      PROVE  TradeInv'
  <2>0. PICK n \in Nat, position \in Int, value \in Int, r \in DailyPnL :
         DayEffect(direction, ret, n, position, value, r)
    BY <1>1, <1>2, DayGrows
  <2>1. /\ n \in Nat /\ r \in DailyPnL
        /\ n = Len(dailyPnls) /\ phase = "loop"
        /\ Len(dailyPnls') = n + 1 /\ dailyPnls'[n + 1] = r
        /\ \A d \in 1 .. n : dailyPnls'[d] = dailyPnls[d]
        /\ r.signal = direction
        /\ TrackTrade(direction, ret) /\ UNCHANGED <<phase, history, replayed>>
    BY <2>0 DEF DayEffect
  <2>2. Turns \in SUBSET (1 .. n)
    BY <2>1 DEF Turns, Days
  <2>3. \A d \in 1 .. n : d < n + 1 /\ d # n + 1
    OBVIOUS
  <2>4. Turns' = IF direction # previousSignal THEN Turns \cup {n + 1} ELSE Turns
    BY <1>1, <1>2, <2>1, TurnsGrow
  <2>5. Entries' = IF direction # previousSignal /\ direction # "FLAT"
                   THEN Entries \cup {n + 1} ELSE Entries
    <3>1. \A d : d \in Entries' <=> d \in Turns' /\ dailyPnls'[d].signal # "FLAT"
      BY DEF Entries
    <3>2. \A d : d \in Entries <=> d \in Turns /\ dailyPnls[d].signal # "FLAT"
      BY DEF Entries
    <3> QED
      BY <2>1, <2>2, <2>3, <2>4, <3>1, <3>2
  <2>6. Finished = {i \in Entries : \E k \in Turns : k > i}
    BY <2>1 DEF Finished
  <2>7. Finished' = {i \in Entries' : \E k \in Turns' : k > i}
    BY <2>1 DEF Finished
  <2>8. Entries \in SUBSET Turns
    BY DEF Entries
  <2>9. CASE direction # previousSignal
    <3>1. Turns' = Turns \cup {n + 1} /\ ~(n + 1 > n + 1)
      BY <2>4, <2>9
    <3>2. \A i \in Turns : n + 1 > i /\ ~(i > n + 1)
      BY <2>2, <2>3
    <3>3. Finished' = Entries
      <4>1. \A i : i \in Finished' <=> i \in Entries
        BY <2>5, <2>7, <2>8, <2>9, <3>1, <3>2
      <4> QED
        BY <4>1
    <3>4. \A i \in Entries : Gains'[i] = Gains[i]
      BY <1>1, <1>2, <2>1, <2>8, <2>9, GainsGrow
    <3>5. Moving(Finished)' = Moving(Entries)
      <4>1. Moving(Finished)' = {i \in Finished' : Gains'[i] # 0}
        BY DEF Moving
      <4> QED
        BY <3>3, <3>4, <4>1 DEF Moving
    <3>6. Lists(WithClosedTrade, Moving(Entries), Gains)
      BY <1>1, <2>1, ClosingListsAll
    <3>7. /\ tradeReturns' = WithClosedTrade /\ inTrade' = (direction # "FLAT")
          /\ currentTradeReturn' = Sign(direction) * ret
      BY <2>1, <2>9 DEF TrackTrade
    <3>8. Lists(tradeReturns, Moving(Finished), Gains)'
      <4>1. \A i \in Moving(Entries) : Gains'[i] = Gains[i]
        BY <3>4 DEF Moving
      <4>2. Lists(WithClosedTrade, Moving(Entries), Gains')
        BY <3>6, <4>1 DEF Lists
      <4>3. Lists(tradeReturns', Moving(Finished)', Gains')
        BY <3>5, <3>7, <4>2
      <4> QED
        BY <4>3 DEF Lists, Rank
    <3>9. CASE direction # "FLAT"
      <4>1. n + 1 \in Entries' /\ \A k \in Turns' : k <= n + 1
        <5>1. \A i \in Turns : i <= n + 1
          BY <2>2
        <5>2. n + 1 <= n + 1
          BY <2>1
        <5> QED
          BY <2>5, <2>9, <3>1, <3>9, <5>1, <5>2
      <4>2. currentTradeReturn' = Gains'[n + 1]
        BY <1>1, <1>2, <2>1, <2>9, <3>7, GainsGrow
      <4>3. OpenTradeIsLast'
        BY <4>1, <4>2 DEF OpenTradeIsLast
      <4>4. inTrade' = TRUE
        BY <3>7, <3>9
      <4> QED
        BY <3>8, <4>3, <4>4 DEF TradeInv
    <3>10. CASE direction = "FLAT"
      <4>1. inTrade' = FALSE /\ Entries' = Entries
        BY <2>5, <3>7, <3>10
      <4>2. \A e \in Entries' : \E k \in Turns' : k > e
        BY <2>8, <3>1, <3>2, <4>1
      <4> QED
        BY <3>8, <4>1, <4>2 DEF TradeInv
    <3> QED
      BY <3>9, <3>10
  <2>10. CASE direction = previousSignal
    <3>1. Turns' = Turns /\ Entries' = Entries /\ Finished' = Finished
      BY <2>4, <2>5, <2>6, <2>7, <2>10
    <3>2. \A i \in Finished : Gains'[i] = Gains[i]
      BY <1>1, <1>2, <2>1, <2>6, <2>8, GainsGrow
    <3>3. Moving(Finished)' = Moving(Finished)
      <4>1. Moving(Finished)' = {i \in Finished' : Gains'[i] # 0}
        BY DEF Moving
      <4> QED
        BY <3>1, <3>2, <4>1 DEF Moving
    <3>4. /\ UNCHANGED <<tradeReturns, inTrade>>
          /\ currentTradeReturn' = currentTradeReturn + Sign(direction) * ret
      BY <2>1, <2>10 DEF TrackTrade
    <3>5. Lists(tradeReturns, Moving(Finished), Gains)'
      <4>1. \A i \in Moving(Finished) : Gains'[i] = Gains[i]
        BY <3>2 DEF Moving
      <4>2. Lists(tradeReturns, Moving(Finished), Gains)
        BY <1>1 DEF TradeInv
      <4>3. Lists(tradeReturns, Moving(Finished), Gains')
        BY <4>1, <4>2 DEF Lists
      <4>4. Lists(tradeReturns', Moving(Finished)', Gains')
        BY <3>3, <3>4, <4>3
      <4> QED
        BY <4>4 DEF Lists, Rank
    <3>6. ASSUME inTrade = TRUE PROVE OpenTradeIsLast'
      <4>1. PICK e \in Entries : (\A k \in Turns : k <= e) /\ currentTradeReturn = Gains[e]
        BY <1>1, <2>1, <3>6 DEF TradeInv, OpenTradeIsLast
      <4>2. e \in Turns
        BY <2>8
      <4>3. Gains'[e] = Gains[e] + Sign(direction) * ret
        BY <1>1, <1>2, <2>1, <2>10, <4>1, <4>2, GainsGrow
      <4>4. e \in Entries' /\ (\A k \in Turns' : k <= e) /\ currentTradeReturn' = Gains'[e]
        BY <3>1, <3>4, <4>1, <4>3
      <4> QED
        BY <4>4 DEF OpenTradeIsLast
    <3>7. ASSUME inTrade = FALSE PROVE \A e \in Entries' : \E k \in Turns' : k > e
      BY <1>1, <2>1, <3>1, <3>7 DEF TradeInv
    <3>8. inTrade' = inTrade
      BY <3>4
    <3> QED
      BY <3>5, <3>6, <3>7, <3>8 DEF TradeInv
  <2> QED
    BY <2>9, <2>10
<1>3. CASE Finish
  <2>1. /\ phase = "loop" /\ phase' = "report" /\ tradeReturns' = WithClosedTrade
        /\ dailyPnls' = dailyPnls
    BY <1>3 DEF Finish
  <2>2. Days' = Days /\ Turns' = Turns /\ Entries' = Entries
    BY <2>1 DEF Days, Turns, Entries, SignalBefore
  <2>3. Signed' = Signed /\ \A i : Period(i)' = Period(i)
    BY <2>1, <2>2 DEF Signed, Period
  <2>4. Gains' = Gains
    BY <2>2, <2>3 DEF Gains
  <2>5. Finished' = Entries
    BY <2>1, <2>2 DEF Finished
  <2>6. Moving(Finished)' = Moving(Entries)
    BY <2>4, <2>5 DEF Moving
  <2>7. Lists(tradeReturns', Moving(Finished)', Gains')
    BY <1>1, <2>1, <2>4, <2>6, ClosingListsAll
  <2>8. Lists(tradeReturns, Moving(Finished), Gains)'
    BY <2>7 DEF Lists, Rank
  <2> QED
    BY <2>1, <2>8 DEF TradeInv
<1>4. CASE Report \/ UNCHANGED vars
  <2>1. dailyPnls' = dailyPnls /\ UNCHANGED <<tradeReturns, currentTradeReturn, inTrade>>
    BY <1>4 DEF Report, vars, trade
  <2>2. (phase = "loop") <=> (phase' = "loop")
    BY <1>4 DEF Report, vars
  <2>3. Days' = Days /\ Turns' = Turns /\ Entries' = Entries
    BY <2>1 DEF Days, Turns, Entries, SignalBefore
  <2>4. Signed' = Signed /\ \A i : Period(i)' = Period(i)
    BY <2>1, <2>3 DEF Signed, Period
  <2>5. Gains' = Gains
    BY <2>3, <2>4 DEF Gains
  <2>6. Finished' = Finished
    BY <2>2, <2>3 DEF Finished
  <2>7. Moving(Finished)' = Moving(Finished)
    BY <2>5, <2>6 DEF Moving
  <2>8. Lists(tradeReturns', Moving(Finished)', Gains')
    BY <1>1, <2>1, <2>5, <2>7 DEF TradeInv
  <2>9. Lists(tradeReturns, Moving(Finished), Gains)'
    BY <2>8 DEF Lists, Rank
  <2>10. OpenTradeIsLast' <=> OpenTradeIsLast
    BY <2>1, <2>3, <2>5 DEF OpenTradeIsLast
  <2> QED
    BY <1>1, <2>1, <2>2, <2>3, <2>9, <2>10 DEF TradeInv
<1> QED
  BY <1>2, <1>3, <1>4, NextCases

LEMMA BacktesterInit == Init => Inv
<1> SUFFICES ASSUME Init PROVE Inv
  OBVIOUS
<1>1. /\ InitialCapital \in Nat \ {0} /\ MaxDays \in Nat /\ MaxHistory \in Nat \ {0}
  BY MoneyAssumption
<1>0. dailyPnls = << >> /\ history = << >> /\ tradeReturns = << >>
  BY DEF Init, Monitor!InitMonitor
<1>2. /\ Len(dailyPnls) = 0 /\ replayed = 0
      /\ portfolioValue = InitialCapital /\ peakValue = InitialCapital
      /\ maxDrawdown = <<0, 1>> /\ maxDrawdownDollar = 0
  BY <1>0 DEF Init
<1>3. ShapeInv
  <2>1. tradeReturns \in Seq(Int \ {0}) /\ dailyPnls \in Seq(DailyPnL)
    BY <1>0
  <2>2. maxDrawdown \in Nat \X (Nat \ {0})
    BY <1>2
  <2>3. Len(dailyPnls) <= MaxDays /\ replayed \in 0 .. Len(dailyPnls)
    BY <1>1, <1>2
  <2>4. /\ phase = "loop" /\ cumulativePnl = 0 /\ currentTradeReturn = 0 /\ numTrades = 0 /\ varBreaches = 0
        /\ previousSignal = "FLAT"
    BY DEF Init
  <2>5. inTrade \in BOOLEAN
    BY Zenon DEF Init
  <2>6. /\ peakValue \in Nat \ {0} /\ maxDrawdownDollar \in Nat
        /\ portfolioValue \in Int /\ cumulativePnl \in Int /\ currentTradeReturn \in Int
        /\ numTrades \in Nat /\ varBreaches \in Nat
        /\ previousSignal \in SignalDirection
    BY <1>1, <1>2, <2>4 DEF SignalDirection
  <2> QED
    <3>1. phase \in {"loop", "report", "done"} /\ phase # "done" /\ replayed = 0
      BY <1>2, <2>4
    <3> QED
      BY <2>1, <2>2, <2>3, <2>5, <2>6, <3>1, Zenon DEF ShapeInv
<1>4. CountInv
  <2>1. Days = {}
    BY <1>2 DEF Days
  <2>2. Turns = {} /\ BreachDays = {}
    BY <2>1 DEF Turns, BreachDays
  <2>3. Cardinality({}) = 0
    BY FS_EmptySet
  <2>4. previousSignal = SignalBefore(Len(dailyPnls) + 1)
    BY <1>2 DEF Init, SignalBefore
  <2> QED
    BY <2>1, <2>2, <2>3, <2>4 DEF CountInv, Init
<1>5. MonitorInv
  <2>1. Kept = 0
    BY <1>1, <1>2 DEF Kept
  <2> QED
    BY <1>0, <2>1 DEF MonitorInv
<1>6. Value(0) = InitialCapital /\ \A d \in 0 .. 0 : d = 0
  BY DEF Value
<1>7. PeakInv
  BY <1>1, <1>2, <1>6 DEF PeakInv
<1>8. DrawdownInv
  <2>1. Value(0) - Value(0) = 0
    BY <1>1, <1>6
  <2>2. maxDrawdown[1] = 0 /\ maxDrawdown[2] = 1
    BY <1>2
  <2>3. 0 * 1 = 0 /\ 0 * InitialCapital = 0
    BY <1>1
  <2> QED
    BY <1>1, <1>2, <1>6, <2>1, <2>2, <2>3 DEF DrawdownInv
<1>9. MoneyInv
  <2>1. Days = {}
    BY <1>2 DEF Days
  <2>2. Turns = {}
    BY <2>1 DEF Turns
  <2>3. \A a : Total(Days, a) = 0 /\ Total(Turns, a) = 0
    BY <2>1, <2>2, TotalOfNone
  <2>4. cumulativePnl = 0 /\ numTrades = 0
    BY DEF Init
  <2>5. 0 * CommissionPerTrade = 0 /\ Slippage * 0 = 0 /\ InitialCapital + 0 - 0 - 0 = InitialCapital
    BY <1>1, MoneyAssumption
  <2> QED
    BY <1>2, <2>3, <2>4, <2>5 DEF MoneyInv
<1>10. TradeInv
  <2>1. Days = {}
    BY <1>2 DEF Days
  <2>2. Entries = {}
    BY <2>1 DEF Turns, Entries
  <2>3. Moving(Finished) = {}
    BY <2>2 DEF Finished, Moving
  <2>4. Cardinality({}) = 0 /\ Len(tradeReturns) = 0
    BY <1>0, FS_EmptySet
  <2>5. Lists(tradeReturns, Moving(Finished), Gains)
    BY <2>3, <2>4 DEF Lists
  <2>6. inTrade = FALSE
    BY DEF Init
  <2> QED
    BY <2>2, <2>5, <2>6 DEF TradeInv
<1> QED
  BY <1>3, <1>4, <1>5, <1>7, <1>8, <1>9, <1>10 DEF Inv

LEMMA BacktesterInvariance == Spec => []Inv
<1>1. Inv /\ [Next]_vars => Inv'
  BY ShapeStep, CountStep, MonitorStep, PeakStep, DrawdownStep, MoneyStep, TradeStep DEF Inv
<1> QED
  BY <1>1, BacktesterInit, PTL DEF Spec

-----------------------------------------------------------------------------
(* The theorems. *)

\* The locals of the loop and its result have their types on every history: the
\* peak stays positive, a drawdown is never negative, and no counter passes the
\* number of days (Backtester.cpp:60-160).
THEOREM BacktesterTypeCorrect == Spec => []TypeOK
<1>1. Inv => TypeOK
  <2> SUFFICES ASSUME Inv PROVE TypeOK
    OBVIOUS
  <2>1. ShapeInv /\ CountInv /\ MonitorInv
    BY DEF Inv
  <2>2. Turns \in SUBSET Days /\ BreachDays \in SUBSET Days
    BY DEF Turns, BreachDays
  <2>3. numTrades \in 0 .. Len(dailyPnls) /\ varBreaches \in 0 .. Len(dailyPnls)
    BY <2>1, <2>2, SomeOfTheDays DEF CountInv
  <2>4. numTrades \in 0 .. MaxDays /\ varBreaches \in 0 .. MaxDays
    BY <2>1, <2>3, MoneyAssumption DEF ShapeInv
  <2>5. Len(history) <= MaxHistory
    BY <2>1, MoneyAssumption DEF MonitorInv, Kept, ShapeInv
  <2> QED
    BY <2>1, <2>4, <2>5 DEF TypeOK, ShapeInv
<1> QED
  BY <1>1, BacktesterInvariance, PTL

\* Whatever the days bring, the drawdown kept day by day is the largest fall of
\* the recorded series from any earlier value, in percent and in dollars, as
\* long as the portfolio is worth something (Backtester.cpp:127-139).
THEOREM DrawdownIsTrue == Spec => []DrawdownIsPeakToTrough
<1>1. Inv => DrawdownIsPeakToTrough
  BY DrawdownMeaning DEF Inv
<1> QED
  BY <1>1, BacktesterInvariance, PTL

\* The replay of the record into a monitor of any capacity holds its newest days,
\* and finds no breach the loop did not count; it finds them all when no day was
\* dropped (Backtester.cpp:141-148, VaRMonitor.cpp:17-47).
THEOREM MonitorAgrees == Spec => []MonitorSeesTheSameBreaches
<1>1. Inv => MonitorSeesTheSameBreaches
  <2> SUFFICES ASSUME Inv PROVE MonitorSeesTheSameBreaches
    OBVIOUS
  <2>1. ShapeInv /\ CountInv /\ MonitorInv
    BY DEF Inv
  <2>2. PICK n \in Nat : n = Len(dailyPnls)
    BY <2>1 DEF ShapeInv
  <2>3. PICK K \in Nat : K = Kept /\ K = Len(history) /\ K <= replayed /\ K <= MaxHistory
    BY <2>1, MoneyAssumption DEF MonitorInv, Kept, ShapeInv
  <2>4. replayed \in 0 .. n /\ Days = 1 .. n
    BY <2>1, <2>2 DEF ShapeInv, Days
  <2>5. PICK off \in Nat : off = replayed - K
    BY <2>3, <2>4
  <2>6. \A k \in 1 .. K : off + k \in 1 .. n /\ replayed - Len(history) + k = off + k
    BY <2>3, <2>4, <2>5
  <2>7. ASSUME NEW k \in 1 .. K
        PROVE  /\ history[k].position = dailyPnls[off + k].position
               /\ history[k].actualPnL = dailyPnls[off + k].pnl
               /\ history[k].predictedVaR = dailyPnls[off + k].predictedVaR
               /\ history[k].breached <=> off + k \in BreachDays
    <3>1. history[k] = Monitor!Record(dailyPnls[off + k].position, dailyPnls[off + k].pnl)
      BY <2>1, <2>3, <2>5 DEF MonitorInv
    <3>2. off + k \in Days
      BY <2>4, <2>6
    <3>3. dailyPnls[off + k].predictedVaR = Monitor!ComputeDailyVaR(dailyPnls[off + k].position)
      BY <2>1, <3>2 DEF CountInv
    <3>4. off + k \in BreachDays <=>
            Monitor!CheckVaRBreach(dailyPnls[off + k].pnl, dailyPnls[off + k].predictedVaR)
      BY <3>2 DEF BreachDays
    <3> QED
      BY <3>1, <3>3, <3>4 DEF Monitor!Record
  <2>8. Len(history) = (IF replayed < MaxHistory THEN replayed ELSE MaxHistory)
    BY <2>3 DEF Kept
  <2>9. \A k \in 1 .. Len(history) :
          LET d == dailyPnls[replayed - Len(history) + k]
          IN  /\ history[k].position = d.position /\ history[k].actualPnL = d.pnl
              /\ history[k].predictedVaR = d.predictedVaR
    BY <2>3, <2>6, <2>7
  <2>10. ASSUME phase = "done"
         PROVE  /\ Monitor!Breaches <= varBreaches
                /\ Len(dailyPnls) <= MaxHistory => Monitor!Breaches = varBreaches
    <3> DEFINE S == {k \in DOMAIN history : history[k].breached}
               f == [k \in S |-> off + k]
    <3>1. S = {k \in 1 .. K : off + k \in BreachDays}
      <4>1. DOMAIN history = 1 .. K
        BY <2>1, <2>3 DEF MonitorInv
      <4> QED
        BY <2>7, <4>1
    <3>2. BreachDays \in SUBSET Days
      BY DEF BreachDays
    <3>3. IsFiniteSet(BreachDays)
      BY <2>1, <3>2, SomeOfTheDays
    <3>4. f \in [S -> BreachDays]
      BY <3>1
    <3>5. \A a, b \in S : f[a] = f[b] => a = b
      BY <2>5, <3>1
    <3>6. f \in Injection(S, BreachDays)
      BY <3>4, <3>5 DEF Injection, IsInjective
    <3>7. Cardinality(S) <= Cardinality(BreachDays)
      <4> HIDE DEF f, S
      <4> QED
        BY <3>3, <3>6, FS_Injection, Zenon
    <3>8. Len(dailyPnls) <= MaxHistory => S = BreachDays
      <4> SUFFICES ASSUME n <= MaxHistory PROVE S = BreachDays
        BY <2>2
      <4>1. replayed = n
        BY <2>1, <2>2, <2>10 DEF ShapeInv
      <4>2. K = n /\ off = 0
        BY <2>3, <2>5, <2>8, <4>1, MoneyAssumption
      <4>3. \A k \in 1 .. K : off + k = k
        BY <4>2
      <4> QED
        BY <2>4, <3>1, <3>2, <4>2, <4>3
    <3> QED
      <4>1. Monitor!Breaches = Cardinality(S)
        BY Zenon DEF Monitor!Breaches, Monitor!Cardinality, Cardinality
      <4>2. varBreaches = Cardinality(BreachDays)
        BY <2>1 DEF CountInv
      <4> HIDE DEF S
      <4> QED
        BY <3>7, <3>8, <4>1, <4>2, Zenon
  <2> QED
    BY <2>8, <2>9, <2>10 DEF MonitorSeesTheSameBreaches
<1> QED
  BY <1>1, BacktesterInvariance, PTL

\* Nothing is earned or lost that is not in the records, on any history: the
\* value is the capital plus the days' P&L less what the turns cost
\* (Backtester.cpp:107-121).
THEOREM EveryDollarAccounted == Spec => []NavIsAccountedFor
<1>1. Inv => NavIsAccountedFor
  <2> SUFFICES ASSUME Inv PROVE NavIsAccountedFor
    OBVIOUS
  <2>1. ShapeInv /\ CountInv /\ MoneyInv
    BY DEF Inv
  <2>2. Turns \in SUBSET Days
    BY DEF Turns
  <2>3. IsFiniteSet(Days) /\ IsFiniteSet(Turns)
    BY <2>1, <2>2, SomeOfTheDays
  <2>4. MapThenSumSet(LAMBDA i : dailyPnls[i].pnl, Days) = Total(Days, Pnls)
    <3>1. PICK g : IsSum(g, Days, Pnls) /\ Total(Days, Pnls) = g[Days]
      BY <2>3, TotalIsSum
    <3>2. \A T \in SUBSET Days : T # {} => Pnls[Some(T)] = dailyPnls[Some(T)].pnl
      BY DEF Some, Pnls
    <3>3. \A h : IsSum(h, Days, Pnls) <=>
            h = [T \in SUBSET Days |-> IF T = {} THEN 0 ELSE dailyPnls[Some(T)].pnl + h[T \ {Some(T)}]]
      BY <3>2 DEF IsSum
    <3>4. PICK h : /\ h = [T \in SUBSET Days |-> IF T = {} THEN 0 ELSE dailyPnls[Some(T)].pnl + h[T \ {Some(T)}]]
                   /\ MapThenSumSet(LAMBDA i : dailyPnls[i].pnl, Days) = h[Days]
      <4>1. \E h : h = [T \in SUBSET Days |-> IF T = {} THEN 0 ELSE dailyPnls[Some(T)].pnl + h[T \ {Some(T)}]]
        BY <3>1, <3>3
      <4> QED
        BY <4>1, Zenon DEF MapThenSumSet, MapThenFoldSet, Some
    <3>5. IsSum(h, Days, Pnls)
      BY <3>3, <3>4
    <3>6. h[Days] = Total(Days, Pnls)
      BY <2>3, <3>5, SumIsTotal
    <3> QED
      BY <3>4, <3>6
  <2>5. MapThenSumSet(LAMBDA i : Monitor!Magnitude(dailyPnls[i].position), Turns) = Total(Turns, Sizes)
    <3>1. PICK g : IsSum(g, Turns, Sizes) /\ Total(Turns, Sizes) = g[Turns]
      BY <2>3, TotalIsSum
    <3>2. \A T \in SUBSET Turns : T # {} => Sizes[Some(T)] = Monitor!Magnitude(dailyPnls[Some(T)].position)
      BY <2>2 DEF Some, Sizes
    <3>3. \A h : IsSum(h, Turns, Sizes) <=>
            h = [T \in SUBSET Turns |->
                  IF T = {} THEN 0 ELSE Monitor!Magnitude(dailyPnls[Some(T)].position) + h[T \ {Some(T)}]]
      BY <3>2 DEF IsSum
    <3>4. PICK h : /\ h = [T \in SUBSET Turns |->
                         IF T = {} THEN 0 ELSE Monitor!Magnitude(dailyPnls[Some(T)].position) + h[T \ {Some(T)}]]
                   /\ MapThenSumSet(LAMBDA i : Monitor!Magnitude(dailyPnls[i].position), Turns) = h[Turns]
      <4>1. \E h : h = [T \in SUBSET Turns |->
                         IF T = {} THEN 0 ELSE Monitor!Magnitude(dailyPnls[Some(T)].position) + h[T \ {Some(T)}]]
        BY <3>1, <3>3
      <4> QED
        BY <4>1, Zenon DEF MapThenSumSet, MapThenFoldSet, Some
    <3>5. IsSum(h, Turns, Sizes)
      BY <3>3, <3>4
    <3>6. h[Turns] = Total(Turns, Sizes)
      BY <2>3, <3>5, SumIsTotal
    <3> QED
      BY <3>4, <3>6
  <2> QED
    BY <2>1, <2>4, <2>5 DEF NavIsAccountedFor, MoneyInv, CountInv
<1> QED
  BY <1>1, BacktesterInvariance, PTL

\* The trade statistics have one return per finished holding period that moved,
\* in order, and it is the sum of the period's signed daily returns, on any
\* history (Backtester.cpp:96-118, 166-169).
THEOREM TradesArePeriods == Spec => []TradesAreHoldingPeriods
<1>1. Inv => TradesAreHoldingPeriods
  <2> SUFFICES ASSUME Inv PROVE TradesAreHoldingPeriods
    OBVIOUS
  <2>1. ShapeInv /\ TradeInv
    BY DEF Inv
  <2>2. ASSUME NEW i \in Finished PROVE PeriodReturn(i) = Gains[i]
    <3>1. PICK P : P = Period(i)
      OBVIOUS
    <3>2. i \in Days
      BY DEF Finished, Entries, Turns
    <3>3. P \in SUBSET Days /\ IsFiniteSet(P) /\ Gains[i] = Total(P, Signed)
      BY <2>1, <3>1, <3>2, PeriodTypes
    <3>4. PICK g : IsSum(g, P, Signed)
      BY <3>3, TotalIsSum
    <3>5. \A T \in SUBSET P : T # {} =>
            Signed[Some(T)] = Sign(dailyPnls[Some(T)].signal) * dailyPnls[Some(T)].dailyReturn
      BY <3>3 DEF Some, Signed
    <3>6. \A h : IsSum(h, P, Signed) <=>
            h = [T \in SUBSET P |->
                  IF T = {} THEN 0
                  ELSE Sign(dailyPnls[Some(T)].signal) * dailyPnls[Some(T)].dailyReturn + h[T \ {Some(T)}]]
      BY <3>5 DEF IsSum
    <3>7. PICK h : /\ h = [T \in SUBSET P |->
                         IF T = {} THEN 0
                         ELSE Sign(dailyPnls[Some(T)].signal) * dailyPnls[Some(T)].dailyReturn + h[T \ {Some(T)}]]
                   /\ PeriodReturn(i) = h[P]
      <4>1. \E h : h = [T \in SUBSET P |->
                         IF T = {} THEN 0
                         ELSE Sign(dailyPnls[Some(T)].signal) * dailyPnls[Some(T)].dailyReturn + h[T \ {Some(T)}]]
        BY <3>4, <3>6
      <4>2. PeriodReturn(i) = MapThenSumSet(LAMBDA j : Sign(dailyPnls[j].signal) * dailyPnls[j].dailyReturn, P)
        BY <3>1, Zenon DEF PeriodReturn
      <4> QED
        BY <4>1, <4>2, Zenon DEF MapThenSumSet, MapThenFoldSet, Some
    <3>8. IsSum(h, P, Signed)
      BY <3>6, <3>7
    <3>9. h[P] = Total(P, Signed)
      BY <3>3, <3>8, SumIsTotal
    <3> QED
      BY <3>3, <3>7, <3>9
  <2>3. {i \in Finished : PeriodReturn(i) # 0} = Moving(Finished)
    BY <2>2 DEF Moving
  <2>4. Lists(tradeReturns, Moving(Finished), Gains)
    BY <2>1 DEF TradeInv
  <2>5. \A i \in Moving(Finished) : PeriodReturn(i) = Gains[i]
    BY <2>2 DEF Moving
  <2> QED
    BY <2>3, <2>4, <2>5 DEF TradesAreHoldingPeriods, Lists, Rank
<1> QED
  BY <1>1, BacktesterInvariance, PTL
=============================================================================
