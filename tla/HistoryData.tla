----------------------------- MODULE HistoryData -----------------------------
(***************************************************************************)
(* The data side of the backtest mode: fetchHistoricalData of              *)
(* DataProcessors/Backtester.cpp, which joins seven FRED series into one   *)
(* point per trading day, and the fallback of MultiVarAnalysisWorkflow.cpp *)
(* to synthetic data.                                                      *)
(*                                                                         *)
(* A day is a number.  The value a series has on a day is represented by   *)
(* that day, so that a point tells which observations it was made from,    *)
(* and a series is the set of days it has values for.  NoValue stands for  *)
(* a default the code puts where it has no observation.                    *)
(***************************************************************************)
EXTENDS Integers, Sequences, FiniteSetsExt, Functions

CONSTANTS
  MaxDate,      \* bound: the last day of the requested range
  Published,    \* for each series, the sets of days FRED may have values for
  RollingWindow, MinWindow   \* 60 and 20 in the code

Dates == 1 .. MaxDate

FetchOrder == <<"SP500", "NASDAQCOM", "DGS10", "DGS2", "VIXCLS", "UNRATE", "UMCSENT">>
SeriesId   == Range(FetchOrder)

ASSUME HistoryAssumption ==
  /\ MaxDate \in Nat
  /\ Published \in [SeriesId -> SUBSET SUBSET Dates]
  /\ RollingWindow \in Nat \ {0} /\ MinWindow \in Nat \ {0}

NoValue == 0
Observation == Dates \cup {NoValue}
Price == {"SP500", "NASDAQCOM"} \X Dates      \* index and day of a price

VARIABLES
  stage,         \* "start", "fetch", "fill", "days", "done"
  origin,        \* what the backtest will run on: "none", "FRED", "synthetic"
  fetched,       \* series fetched so far
  maps,          \* the date -> value map of each series
  filled,        \* trading days whose monthly values are filled
  lastUnrate, lastSentiment, unrateDaily, sentimentDaily,
  i,             \* trading days the main loop is through with
  prevSp500, prevUnrate,
  recentVix, recentUnrateChange, recentSentiment,
  history

lasts   == <<lastUnrate, lastSentiment>>
fills   == <<filled, lasts, unrateDaily, sentimentDaily>>
windows == <<recentVix, recentUnrateChange, recentSentiment>>
days    == <<i, prevSp500, prevUnrate, windows, history>>
vars    == <<stage, origin, fetched, maps, fills, days>>

-----------------------------------------------------------------------------
(* Joining. *)

\* The keys of equityMap: the days with a price of either index.
EquityDates == maps["SP500"] \cup maps["NASDAQCOM"]

\* The k-th trading day is the one with k trading days up to it.
tradingDates ==
  [k \in 1 .. Cardinality(EquityDates) |->
     CHOOSE d \in EquityDates : Cardinality({e \in EquityDates : e <= d}) = k]

\* equityMap[d]: the S&P 500 overwrites the NASDAQ where both have the day.
equity(d) == <<IF d \in maps["SP500"] THEN "SP500" ELSE "NASDAQCOM", d>>

\* Mistake: lower_bound, which steps over an observation of the day itself.
LatestBefore(observations, d, kept) ==
  LET before == {e \in observations : e < d}
  IN  IF before = {} THEN kept ELSE Max(before)

\* The observation upper_bound(d) steps back to, or the one kept so far.
LatestUpTo(observations, d, kept) ==
  LET upTo == {e \in observations : e <= d}
  IN  IF upTo = {} THEN kept ELSE Max(upTo)

\* Mistake: without an earlier observation, the next one is used.
NearestVix(d) ==
  LET later == {e \in maps["VIXCLS"] : e > d}
  IN  LatestUpTo(maps["VIXCLS"], d, IF later = {} THEN NoValue ELSE Min(later))

\* The VIX of the day, or the last one before it, or the default 20.
vixLevel(d) == LatestUpTo(maps["VIXCLS"], d, NoValue)

\* A yield of exactly that day, or the default 0: yields are not filled forward.
YieldOn(series, d) == IF d \in maps[series] THEN d ELSE NoValue

\* Mistake: the windows are never trimmed.
PushOnly(recent, value) == Append(recent, value)

\* Mistake: the windows are trimmed at the newest end.
PushNewest(recent, value) ==
  IF Len(recent) < RollingWindow THEN Append(recent, value) ELSE recent

\* push_back, then erase of the first when there are too many.
Push(recent, value) ==
  LET longer == Append(recent, value)
  IN  IF Len(longer) > RollingWindow THEN Tail(longer) ELSE longer

\* The values a z-score is taken over; none while there are too few.
ScoredOver(recent) == IF Len(recent) >= MinWindow THEN recent ELSE << >>

Point ==
  [date : Dates, equityTo : Price, equityFrom : Price,
   dgs10 : Observation, dgs2 : Observation, vix : Observation,
   unrate : Observation, unrateFrom : Observation, sentiment : Observation,
   growth : Seq(Observation), volatility : Seq(Observation)]

\* Type invariant: the locals of fetchHistoricalData and its result.
TypeOK ==
  /\ stage \in {"start", "fetch", "fill", "days", "done"}
  /\ origin \in {"none", "FRED", "synthetic"}
  /\ fetched \in 0 .. Len(FetchOrder)
  /\ maps \in [SeriesId -> SUBSET Dates]
  /\ filled \in 0 .. MaxDate /\ i \in 0 .. MaxDate
  /\ {lastUnrate, lastSentiment, prevUnrate} \subseteq Observation
  /\ unrateDaily \in Seq(Observation) /\ sentimentDaily \in Seq(Observation)
  /\ prevSp500 \in Price \cup {<< >>}
  /\ \A recent \in {recentVix, recentSentiment} :
       recent \in Seq(Observation) /\ Len(recent) <= RollingWindow
  /\ recentUnrateChange \in Seq(Observation \X Observation)
  /\ history \in Seq(Point)

Init ==
  /\ stage = "start" /\ origin = "none" /\ fetched = 0
  /\ maps = [s \in SeriesId |-> {}]
  /\ filled = 0 /\ lastUnrate = NoValue /\ lastSentiment = NoValue
  /\ unrateDaily = << >> /\ sentimentDaily = << >>
  /\ i = 0 /\ prevSp500 = << >> /\ prevUnrate = NoValue
  /\ recentVix = << >> /\ recentUnrateChange = << >> /\ recentSentiment = << >>
  /\ history = << >>

-----------------------------------------------------------------------------
(* The backtest mode around it. *)

\* FRED_API_KEY is set, or it is not and nothing is fetched.
Start ==
  /\ stage = "start"
  /\ stage' \in {"fetch", "done"}
  /\ UNCHANGED <<origin, fetched, maps, fills, days>>

\* The history that came back is used unless it is empty.
ChooseOrigin ==
  /\ stage = "done" /\ origin = "none"
  /\ origin' = IF history = << >> THEN "synthetic" ELSE "FRED"
  /\ UNCHANGED <<stage, fetched, maps, fills, days>>

-----------------------------------------------------------------------------
(* fetchHistoricalData. *)

\* One call of fetchSeriesMap.  A failed request leaves the map empty; a value
\* that does not parse ends the loop and leaves what was read before it; the
\* exception is swallowed either way.
FetchSeries ==
  /\ stage = "fetch" /\ fetched < Len(FetchOrder)
  /\ \E values \in Published[FetchOrder[fetched + 1]], upTo \in Dates \cup {0} :
       maps' = [maps EXCEPT ![FetchOrder[fetched + 1]] = {d \in values : d <= upTo}]
  /\ fetched' = fetched + 1
  /\ UNCHANGED <<stage, origin, fills, days>>

\* Mistake: a failed index is an error although the other has data.
BuildDatesFromBoth ==
  /\ stage = "fetch" /\ fetched = Len(FetchOrder)
  /\ IF maps["SP500"] = {} \/ Cardinality(EquityDates) < 2
     THEN stage' = "done" /\ UNCHANGED lasts
     ELSE /\ stage' = "fill"
          /\ lastUnrate' = IF maps["UNRATE"] = {} THEN NoValue ELSE Min(maps["UNRATE"])
          /\ lastSentiment' = IF maps["UMCSENT"] = {} THEN NoValue ELSE Min(maps["UMCSENT"])
  /\ UNCHANGED <<origin, fetched, maps, filled, unrateDaily, sentimentDaily, days>>

\* The trading days are those with a price.  Fewer than two end in an empty
\* history.  The fill starts from the first value of each monthly series.
BuildDates ==
  /\ stage = "fetch" /\ fetched = Len(FetchOrder)
  /\ IF Cardinality(EquityDates) < 2
     THEN stage' = "done" /\ UNCHANGED lasts
     ELSE /\ stage' = "fill"
          /\ lastUnrate' = IF maps["UNRATE"] = {} THEN NoValue ELSE Min(maps["UNRATE"])
          /\ lastSentiment' = IF maps["UMCSENT"] = {} THEN NoValue ELSE Min(maps["UMCSENT"])
  /\ UNCHANGED <<origin, fetched, maps, filled, unrateDaily, sentimentDaily, days>>

\* One turn of the forward fill; after the last one prevUnrate is lastUnrate.
FillDay ==
  /\ stage = "fill"
  /\ LET d == tradingDates[filled + 1]
     IN  /\ lastUnrate' = LatestUpTo(maps["UNRATE"], d, lastUnrate)
         /\ lastSentiment' = LatestUpTo(maps["UMCSENT"], d, lastSentiment)
  /\ unrateDaily' = Append(unrateDaily, lastUnrate')
  /\ sentimentDaily' = Append(sentimentDaily, lastSentiment')
  /\ filled' = filled + 1
  /\ IF filled' = Len(tradingDates)
     THEN stage' = "days" /\ prevUnrate' = lastUnrate'
     ELSE UNCHANGED <<stage, prevUnrate>>
  /\ UNCHANGED <<origin, fetched, maps, i, prevSp500, windows, history>>

\* Mistake: the unemployment rate of the first day is not taken.
FirstDayPriceOnly ==
  /\ stage = "days" /\ i = 0
  /\ prevSp500' = equity(tradingDates[1])
  /\ i' = 1
  /\ UNCHANGED <<stage, origin, fetched, maps, fills, prevUnrate, windows, history>>

\* The first trading day gives no point, only what the second compares with.
FirstDay ==
  /\ stage = "days" /\ i = 0
  /\ prevSp500' = equity(tradingDates[1])
  /\ prevUnrate' = unrateDaily[1]
  /\ i' = 1
  /\ UNCHANGED <<stage, origin, fetched, maps, fills, windows, history>>

\* Mistake: a day without a yield is left out of the history.
DayWithYields ==
  LET d == tradingDates[i + 1]
  IN  /\ stage = "days" /\ i \in 1 .. Len(tradingDates) - 1
      /\ i' = i + 1
      /\ recentVix' = Push(recentVix, vixLevel(d))
      /\ recentUnrateChange' = Push(recentUnrateChange, <<prevUnrate, unrateDaily[i']>>)
      /\ recentSentiment' = Push(recentSentiment, sentimentDaily[i'])
      /\ history' = IF YieldOn("DGS10", d) = NoValue THEN history ELSE Append(history,
           [date |-> d, equityTo |-> equity(d), equityFrom |-> prevSp500,
            dgs10 |-> YieldOn("DGS10", d), dgs2 |-> YieldOn("DGS2", d), vix |-> vixLevel(d),
            unrate |-> unrateDaily[i'], unrateFrom |-> prevUnrate,
            sentiment |-> sentimentDaily[i'],
            growth |-> ScoredOver(recentSentiment'), volatility |-> ScoredOver(recentVix')])
      /\ prevSp500' = equity(d)
      /\ prevUnrate' = unrateDaily[i']
      /\ stage' = IF i' = Len(tradingDates) THEN "done" ELSE "days"
      /\ UNCHANGED <<origin, fetched, maps, fills>>

\* Every other trading day: return from the day before, slope, VIX, the change
\* of the unemployment rate, the windows, the z-scores, the point.
Day ==
  LET d == tradingDates[i + 1]
  IN  /\ stage = "days" /\ i \in 1 .. Len(tradingDates) - 1
      /\ i' = i + 1
      /\ recentVix' = Push(recentVix, vixLevel(d))
      /\ recentUnrateChange' = Push(recentUnrateChange, <<prevUnrate, unrateDaily[i']>>)
      /\ recentSentiment' = Push(recentSentiment, sentimentDaily[i'])
      /\ history' = Append(history,
           [date |-> d, equityTo |-> equity(d), equityFrom |-> prevSp500,
            dgs10 |-> YieldOn("DGS10", d), dgs2 |-> YieldOn("DGS2", d), vix |-> vixLevel(d),
            unrate |-> unrateDaily[i'], unrateFrom |-> prevUnrate,
            sentiment |-> sentimentDaily[i'],
            growth |-> ScoredOver(recentSentiment'), volatility |-> ScoredOver(recentVix')])
      /\ prevSp500' = equity(d)
      /\ prevUnrate' = unrateDaily[i']
      /\ stage' = IF i' = Len(tradingDates) THEN "done" ELSE "days"
      /\ UNCHANGED <<origin, fetched, maps, fills>>

Next == Start \/ FetchSeries \/ BuildDates \/ FillDay \/ FirstDay \/ Day \/ ChooseOrigin

Spec == Init /\ [][Next]_vars

-----------------------------------------------------------------------------
(* Safety. *)

Points == 1 .. Len(history)

DatesOf(p) == {p.equityTo[2], p.equityFrom[2], p.dgs10, p.dgs2, p.vix}

\* A point uses no observation of a later day.  The one exception: a trading day
\* before the first observation of a monthly series is given that first one,
\* from the future (Backtester.cpp:398-399, 437-464).
NoLookAhead ==
  \A n \in Points :
    LET p == history[n]
        MonthlyInTime(series, used) ==
          \/ used <= p.date
          \/ used = Min(maps[series])
    IN  /\ \A d \in DatesOf(p) : d <= p.date
        /\ MonthlyInTime("UNRATE", p.unrate) /\ MonthlyInTime("UNRATE", p.unrateFrom)
        /\ MonthlyInTime("UMCSENT", p.sentiment)
        /\ \A e \in Range(p.volatility) : e <= p.date

\* What a point uses is the newest observation there was: no observation of the
\* VIX, the unemployment rate or the sentiment lies between the one used and the
\* day, although the fill carries its value from one day to the next
\* (Backtester.cpp:401-416, 448-460).
FilledFromNewest ==
  \A n \in Points :
    LET p == history[n]
        Newest(series, used) == \A e \in maps[series] : e <= used \/ e > p.date
    IN  Newest("VIXCLS", p.vix) /\ Newest("UNRATE", p.unrate) /\ Newest("UMCSENT", p.sentiment)

\* The returns chain: point n starts from the price point n - 1 ended with, and
\* the points are the trading days but the first, each once and in order; so the
\* returns compound to the last price over the first (Backtester.cpp:426-438, 523-525).
ReturnsChain ==
  /\ \A n \in Points :
       /\ history[n].date = tradingDates[n + 1]
       /\ history[n].equityTo = equity(tradingDates[n + 1])
       /\ history[n].equityFrom = equity(tradingDates[n])
  /\ stage = "done" /\ history # << >> => Len(history) = Cardinality(EquityDates) - 1

\* A change of the unemployment rate is seen on one day alone, the first trading
\* day on or after the observation; days between two observations see none, and
\* the first observation of the series is no change, for the days before it have
\* its value already (Backtester.cpp:398-408, 424, 433, 465, 526).
ChangeSeenOnce ==
  \A n \in Points :
    LET p == history[n]
    IN  p.unrate # p.unrateFrom <=>
          \E e, before \in maps["UNRATE"] :
            tradingDates[n] < e /\ e <= p.date /\ before < e

\* The three windows hold the same days, the newest of the points so far, and a
\* z-score is taken over exactly the days up to its own (Backtester.cpp:467-499).
WindowsAligned ==
  LET Size(m) == IF m < RollingWindow THEN m ELSE RollingWindow
      Newest(column, m) == [k \in 1 .. Size(m) |-> column[m - Size(m) + k]]
      Vix       == [n \in Points |-> history[n].vix]
      Sentiment == [n \in Points |-> history[n].sentiment]
      Change    == [n \in Points |-> <<history[n].unrateFrom, history[n].unrate>>]
  IN  /\ recentVix = Newest(Vix, Len(history))
      /\ recentSentiment = Newest(Sentiment, Len(history))
      /\ recentUnrateChange = Newest(Change, Len(history))
      /\ \A n \in Points :
           /\ history[n].growth = IF Size(n) >= MinWindow THEN Newest(Sentiment, n) ELSE << >>
           /\ history[n].volatility = IF Size(n) >= MinWindow THEN Newest(Vix, n) ELSE << >>

\* Synthetic data replaces the real ones when fewer than two prices came, and
\* only then: a failed yield, VIX, unemployment or sentiment series never stops
\* the backtest, it runs on defaults (Backtester.cpp:346-348, 388-391 and
\* MultiVarAnalysisWorkflow.cpp:437-455).
EquityAloneDecides ==
  origin # "none" =>
    (origin = "synthetic" <=> Cardinality(maps["SP500"] \cup maps["NASDAQCOM"]) < 2)

-----------------------------------------------------------------------------
(* What comments say, and the code does not do. *)

\* Backtester.cpp:354 "SP500 only starts 2016 on FRED; use NASDAQCOM for earlier
\* dates as equity proxy": every daily return is the return of one index.
ReturnOfOneIndex ==
  \A n \in Points : history[n].equityTo[1] = history[n].equityFrom[1]
=============================================================================
