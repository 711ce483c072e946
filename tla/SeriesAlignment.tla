--------------------------- MODULE SeriesAlignment ---------------------------
(***************************************************************************)
(* The series operations of the covariance mode: DataAligner.cpp, which    *)
(* brings series of different frequency to monthly rows, and the           *)
(* expectations of SurpriseTransformer.cpp.                                *)
(*                                                                         *)
(* A series is a sequence, most recent value first, of the ages of its     *)
(* values in trading days; a month is TradingDaysPerMonth of them and a    *)
(* quarter three months.  An interpolated value has the age it stands for, *)
(* a value that is none (see Pipeline) has the age NoAge.                  *)
(***************************************************************************)
EXTENDS Integers, Sequences, FiniteSetsExt, SequencesExt

CONSTANTS
  TradingDaysPerMonth,   \* 21 in the code
  TargetMonths,          \* 12
  LookbackMonths         \* 6

\* A month has at least the ten days of yields, a target more than the ten months
\* of inflation and at most the thirty of ten quarters.  AR(1) has two values to go by.
ASSUME AlignmentAssumption ==
  /\ TradingDaysPerMonth \in Nat /\ TradingDaysPerMonth >= 10
  /\ TargetMonths \in 11 .. 30 /\ LookbackMonths \in Nat \ {0, 1}

NoAge == -1

DailyIndicators     == {"vix", "inverted_yield"}
QuarterlyIndicators == {"gdp"}
MonthlyIndicators   == {"inflation", "fed_funds", "unemployment", "consumer_sentiment"}
Indicator           == DailyIndicators \cup QuarterlyIndicators \cup MonthlyIndicators

\* What a source without gaps delivers: n values, one per period.
EveryPeriod(n, period) == [k \in 1 .. n |-> (k - 1) * period]

FirstOf(series, n) == SubSeq(series, 1, IF Len(series) < n THEN Len(series) ELSE n)

\* Every step-th value from index first (the code's, from 0) on.
EveryNth(series, first, step) ==
  LET count == IF first < Len(series) THEN (Len(series) - 1 - first) \div step + 1 ELSE 0
  IN  [k \in 1 .. count |-> series[first + (k - 1) * step + 1]]

\* Mistake: the missing months are filled by repeating the oldest value.
DownsamplePadded(dailyData) ==
  LET taken == FirstOf(EveryNth(dailyData, 0, TradingDaysPerMonth), TargetMonths)
  IN  taken \o [k \in 1 .. TargetMonths - Len(taken) |-> taken[Len(taken)]]

\* One value per month while there are any; the second loop goes on after the
\* last value taken, in steps of a month.
downsampleToMonthly(dailyData) ==
  LET taken == FirstOf(EveryNth(dailyData, 0, TradingDaysPerMonth), TargetMonths)
      pad   == EveryNth(dailyData, Len(taken) * TradingDaysPerMonth, TradingDaysPerMonth)
  IN  FirstOf(taken \o pad, TargetMonths)

\* Mistake: garbage is interpolated like a value.
MonthAfterAny(a, m) == a - m * TradingDaysPerMonth

\* Month m (0, 1, 2) after the quarter of age a; garbage stays garbage.
MonthAfter(a, m) == IF a = NoAge THEN NoAge ELSE a - m * TradingDaysPerMonth

\* From the oldest quarter on, three months for each pair of quarters, then the
\* newest quarter three times.
MonthsOf(quarterlyData) ==
  LET quarters == Len(quarterlyData)
  IN  [k \in 1 .. 3 * quarters |->
         IF k > 3 * (quarters - 1) THEN quarterlyData[1]
         ELSE MonthAfter(quarterlyData[quarters - (k - 1) \div 3], (k - 1) % 3)]

\* Mistake: the values of the newest months are kept.
InterpolateNewest(quarterlyData) == FirstOf(Reverse(MonthsOf(quarterlyData)), TargetMonths)

\* The loops stop when there are enough months, the oldest; then most recent first.
interpolateQuarterlyToMonthly(quarterlyData) ==
  Reverse(FirstOf(MonthsOf(quarterlyData), TargetMonths))

\* Mistake: every series is brought to the target by repeating its oldest value.
AlignedAndPadded(indicator, series) ==
  [k \in 1 .. TargetMonths |-> IF k <= Len(series) THEN series[k] ELSE series[Len(series)]]

\* An empty series is left out; a single quarter makes the interpolation throw
\* and is kept as it is; monthly series are trimmed.
Aligned(indicator, series) ==
  CASE indicator \in DailyIndicators -> downsampleToMonthly(series)
    [] indicator \in QuarterlyIndicators /\ Len(series) < 2 -> series
    [] indicator \in QuarterlyIndicators /\ Len(series) >= 2 -> interpolateQuarterlyToMonthly(series)
    [] OTHER -> FirstOf(series, TargetMonths)

alignAllIndicators(rawData) ==
  [indicator \in {j \in Indicator : rawData[j] # << >>} |-> Aligned(indicator, rawData[indicator])]

\* Indices of the levels that the expectation of level i is made of: none for
\* the first, the one before it in the vector, or all before it by AR(1).
ExpectedFrom(levels, i) ==
  CASE i = 1 -> {}
    [] 1 < i /\ i <= LookbackMonths -> {i - 1}
    [] OTHER -> 1 .. i - 1

\* A surprise is a level less its expectation, and there is one for each level:
\* the ages of the levels that each expectation is made of.
ExpectationsOf(levels) ==
  [i \in 1 .. Len(levels) |-> {levels[e] : e \in ExpectedFrom(levels, i)}]
=============================================================================
