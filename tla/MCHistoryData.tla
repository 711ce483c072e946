---------------------------- MODULE MCHistoryData ----------------------------
(* Values of HistoryData's constants for TLC. *)
EXTENDS HistoryData

\* The VIX starts on day 4 and misses day 5.  Day 3 is a holiday of the stock
\* market with monthly observations on it, days 4 and 5 are holidays of the bond
\* market.  The S&P 500 starts on day 4 or misses day 2 alone; when the NASDAQ
\* fails then, two observations of the unemployment rate fall between the first
\* two trading days and none before.
MCPublished ==
  [s \in SeriesId |->
     CASE s = "SP500"     -> {{4, 5, 6}, {1, 4, 5, 6}}
       [] s = "NASDAQCOM" -> {{1, 2, 4, 5, 6}}
       [] s = "DGS10"     -> {{2, 6}}
       [] s = "DGS2"      -> {{2, 6}}
       [] s = "VIXCLS"    -> {{4, 6}}
       [] s = "UNRATE"    -> {{1, 3, 5}, {2, 3, 6}}
       [] s = "UMCSENT"   -> {{3}}]
=============================================================================
