------------------------------- MODULE Pipeline -------------------------------
(***************************************************************************)
(* The daily chain of MultiVarAnalysisWorkflow.cpp: the retrieval of the   *)
(* Lambda function, the covariance mode and the upload-daily mode, which   *)
(* meet in S3 objects keyed by the day and in the file ./output.txt.       *)
(*                                                                         *)
(* A stage of the covariance mode is a value of `stage`; every early       *)
(* return and every exception that ends the mode goes to Return.  Numbers  *)
(* are left out: of a series only the ages of its values are kept, of the  *)
(* factors only the label and the strength, of the result its signal,      *)
(* whether it is whole and whether its run misused memory.                 *)
(***************************************************************************)
EXTENDS SeriesAlignment, SignalGenerator

CONSTANTS
  MaxDay,         \* bound: days
  Stored,         \* for each key, what the retrieval may leave under it
  Gaps,           \* sets of months whose FRED value may be "."
  VixDays         \* how many daily values of the VIX may come

FetchOrder == <<"inflation", "fed_funds", "unemployment", "consumer_sentiment",
                "gdp", "inverted_yield", "vix">>
S3Key == {"inflation", "gdp", "yield-10-year", "yield-2-year"}

ASSUME PipelineAssumption ==
  /\ MaxDay \in Nat \ {0}
  /\ Stored \in [S3Key -> SUBSET {"absent", "bad", "full"}]
  /\ Gaps \subseteq SUBSET (0 .. 11) /\ VixDays \subseteq 0 .. 30

Days == 1 .. MaxDay
Signals == {"none", "LONG", "SHORT", "FLAT"}
NoFile  == [state |-> "none", overrun |-> FALSE, signal |-> "none"]
File    == [state : {"none", "partial", "whole"}, overrun : BOOLEAN, signal : Signals]

VARIABLES
  today,
  objects,       \* under the keys of today, and of yesterday
  stage,         \* of the covariance mode: "idle" while it does not run
  fetched,       \* indicators fetched by this run
  rawData, alignedData,
  expectations,  \* of the surprises: for each row the ages of the values it is made of
  factors,       \* of this run
  overrun,       \* this run wrote beyond the end of esPortfolioBeta
  signal,        \* its direction
  outputFile,    \* ./output.txt
  positions      \* what is stored under positions/<day>.json

run  == <<stage, fetched, rawData, alignedData, expectations, factors, overrun, signal>>
vars == <<today, objects, run, outputFile, positions>>

NoData == [indicator \in Indicator |-> << >>]
Ages   == Nat \cup {NoAge}

NoFactors == [label \in {"Growth", "Volatility"} |-> "none"]

\* Type invariant: days, objects, the locals of the mode and the file.
TypeOK ==
  /\ today \in Days
  /\ objects \in [{"today", "yesterday"} -> [S3Key -> {"absent", "bad", "full"}]]
  /\ stage \in {"idle", "secrets", "fetch", "align", "surprise", "covariance", "factors",
                "risk", "size", "write", "close"}
  /\ fetched \in 0 .. Len(FetchOrder)
  /\ DOMAIN rawData = Indicator /\ DOMAIN alignedData \subseteq Indicator
  /\ \A indicator \in Indicator : rawData[indicator] \in Seq(Ages)
  /\ \A indicator \in DOMAIN alignedData : alignedData[indicator] \in Seq(Ages)
  /\ DOMAIN expectations \subseteq Indicator
  /\ \A indicator \in DOMAIN expectations : expectations[indicator] \in Seq(SUBSET Ages)
  /\ factors \in Factors /\ overrun \in BOOLEAN /\ signal \in Signals
  /\ outputFile \in File /\ positions \in [Days -> File]

NothingStored == [key \in S3Key |-> "absent"]

Init ==
  /\ today = 1
  /\ objects = [d \in {"today", "yesterday"} |-> NothingStored]
  /\ stage = "idle" /\ fetched = 0 /\ rawData = NoData
  /\ alignedData = << >> /\ expectations = << >>
  /\ factors = NoFactors /\ overrun = FALSE /\ signal = "none"
  /\ outputFile = NoFile /\ positions = [d \in Days |-> NoFile]

-----------------------------------------------------------------------------
(* The retrieval. *)

\* The Lambda function: for each key one request and one object under today's
\* date.  A failed request is stored as its error text and a failed store is
\* passed over ("bad" and "absent"); a short or empty answer is "bad" too.
Retrieve ==
  /\ today < MaxDay
  /\ \E found \in [S3Key -> UNION Range(Stored)] :
       /\ \A key \in S3Key : found[key] \in Stored[key]
       /\ objects' = [objects EXCEPT !["today"] = found]
  /\ UNCHANGED <<today, run, outputFile, positions>>

NextDay ==
  /\ today < MaxDay
  /\ today' = today + 1
  /\ objects' = [d \in {"today", "yesterday"} |->
                   IF d = "yesterday" THEN objects["today"] ELSE NothingStored]
  /\ UNCHANGED <<run, outputFile, positions>>

-----------------------------------------------------------------------------
(* The covariance mode. *)

\* The process ends, by return 0 or 1 or by a crash; its locals are gone.
Return ==
  /\ stage' = "idle" /\ fetched' = 0 /\ rawData' = NoData
  /\ alignedData' = << >> /\ expectations' = << >>
  /\ factors' = NoFactors /\ overrun' = FALSE /\ signal' = "none"

Fail(from) ==
  /\ stage = from
  /\ Return
  /\ UNCHANGED <<today, objects, outputFile, positions>>

StartCovariance ==
  /\ stage = "idle" /\ stage' = "secrets"
  /\ UNCHANGED <<today, objects, fetched, rawData, alignedData, expectations,
                 factors, overrun, signal, outputFile, positions>>

\* Both keys are found, in the cache, the secrets manager or the environment.
\* Or one is not, and the mode returns 1 (Fail).
GetSecrets ==
  /\ stage = "secrets" /\ stage' = "fetch"
  /\ UNCHANGED <<today, objects, fetched, rawData, alignedData, expectations,
                 factors, overrun, signal, outputFile, positions>>

\* The first ten values of yesterday's object; none if there is no object.  With
\* fewer than ten the copy reads past the end of the vector: what it reads are
\* ten values of no meaning, or the process dies (Fail).
FirstTen(key, period) ==
  CASE objects["yesterday"][key] = "absent" -> << >>
    [] objects["yesterday"][key] = "full"   -> EveryPeriod(10, period)
    [] OTHER -> [k \in 1 .. 10 |-> NoAge]

Month   == TradingDaysPerMonth
Quarter == 3 * TradingDaysPerMonth

\* The twelve latest observations but those whose value is ".": the k-th that is
\* left is the one with k of them up to it.
WithoutGaps(missing) ==
  LET left == {n \in 1 .. 12 : n - 1 \notin missing}
  IN  [k \in 1 .. Cardinality(left) |->
         ((CHOOSE n \in left : Cardinality({l \in left : l <= n}) = k) - 1) * Month]

\* Ten differences, a missing day repeating the one before it, if both objects
\* are there and have ten entries; otherwise none.
YieldDifferences ==
  IF \A key \in {"yield-10-year", "yield-2-year"} : objects["yesterday"][key] = "full"
  THEN EveryPeriod(10, 1) ELSE << >>

\* What the processor of an indicator may return.
Processed(indicator) ==
  CASE indicator = "inflation"      -> {FirstTen("inflation", Month)}
    [] indicator = "gdp"            -> {FirstTen("gdp", Quarter)}
    [] indicator = "inverted_yield" -> {YieldDifferences}
    [] indicator = "vix"            -> {EveryPeriod(n, 1) : n \in VixDays}
    [] OTHER                        -> {WithoutGaps(missing) : missing \in Gaps}

\* One processor returns.  Or it throws, and the mode returns 1 (Fail).
Fetch ==
  /\ stage = "fetch"
  /\ LET indicator == FetchOrder[fetched + 1]
     IN  \E series \in Processed(indicator) : rawData' = [rawData EXCEPT ![indicator] = series]
  /\ fetched' = fetched + 1
  /\ stage' = IF fetched' = Len(FetchOrder) THEN "align" ELSE "fetch"
  /\ UNCHANGED <<today, objects, alignedData, expectations, factors, overrun, signal,
                 outputFile, positions>>

Align ==
  /\ stage = "align" /\ stage' = "surprise"
  /\ alignedData' = alignAllIndicators(rawData)
  /\ UNCHANGED <<today, objects, fetched, rawData, expectations, factors, overrun, signal,
                 outputFile, positions>>

\* Surprises for every aligned indicator.  An empty series would throw, and what
\* is aligned is never empty.
ExtractSurprises ==
  /\ stage = "surprise" /\ stage' = "covariance"
  /\ expectations' = [j \in DOMAIN alignedData |-> ExpectationsOf(alignedData[j])]
  /\ UNCHANGED <<today, objects, fetched, rawData, alignedData, factors, overrun, signal,
                 outputFile, positions>>

\* The surprises are of at least one indicator, and all of one length, of at
\* least two values.
ValidData ==
  /\ DOMAIN expectations # {}
  /\ \A j \in DOMAIN expectations : Len(expectations[j]) >= 2
  /\ \A j, k \in DOMAIN expectations : Len(expectations[j]) = Len(expectations[k])

\* Some value has no meaning, and could be no number at all.
Garbage == \E j \in DOMAIN alignedData : NoAge \in Range(alignedData[j])

CalculateCovariance ==
  /\ stage = "covariance"
  /\ \/ /\ ValidData
        /\ stage' = "factors"
        /\ UNCHANGED <<fetched, rawData, alignedData, expectations, factors,
                       overrun, signal>>
     \/ (~ValidData \/ Garbage) /\ Return
  /\ UNCHANGED <<today, objects, outputFile, positions>>

NumFactors == 3

\* A label is in use only if one of its indicators is there.
LabelledBy == [label \in {"Growth", "Volatility"} |->
                 IF label = "Growth" THEN {"gdp", "unemployment", "consumer_sentiment"} ELSE {"vix"}]
CanLabel(label) == LabelledBy[label] \cap DOMAIN alignedData # {}

\* The factors get their labels and variances; any are possible.  Too few
\* indicators, or a decomposition that fails on garbage, end the mode.
Decompose ==
  /\ stage = "factors"
  /\ \/ /\ NumFactors <= Cardinality(DOMAIN alignedData)
        /\ stage' = "risk"
        /\ factors' \in {f \in Factors : \A label \in DOMAIN f : f[label] = "none" \/ CanLabel(label)}
        /\ UNCHANGED <<fetched, rawData, alignedData, expectations, overrun, signal>>
     \/ (~(NumFactors <= Cardinality(DOMAIN alignedData)) \/ Garbage) /\ Return
  /\ UNCHANGED <<today, objects, outputFile, positions>>

\* Sensitivities 0 to 6 are assigned to a vector of as many elements as there
\* are indicators.  With fewer than seven that writes past its end; the process
\* may go on for now (or dies, of Eigen's assertion where the build has it: Stop).
AssignSensitivities ==
  /\ stage = "risk" /\ stage' = "size"
  /\ overrun' = (Cardinality(DOMAIN alignedData) < 7)
  /\ UNCHANGED <<today, objects, fetched, rawData, alignedData, expectations,
                 factors, signal, outputFile, positions>>

Sizer == INSTANCE PositionSizer WITH MaxNotional <- 10000000, MinHistory <- 30

\* The market that the size and the signal are for: literals, not data.
CurrentRegime == Sizer!ClassifyRegime(18, 100, 110, 120, 92)

\* Risk, regime, size, signal, VaR: nothing of it can fail by itself.
SizeAndSignal ==
  /\ stage = "size" /\ stage' = "write"
  /\ signal' = GenerateSignal(CurrentRegime, factors)
  /\ UNCHANGED <<today, objects, fetched, rawData, alignedData, expectations,
                 factors, overrun, outputFile, positions>>

\* Opening truncates the file.  Or it cannot be opened (Fail).
OpenOutput ==
  /\ stage = "write" /\ stage' = "close"
  /\ outputFile' = [state |-> "partial", overrun |-> overrun, signal |-> signal]
  /\ UNCHANGED <<today, objects, fetched, rawData, alignedData, expectations,
                 factors, overrun, signal, positions>>

CloseOutput ==
  /\ stage = "close"
  /\ outputFile' = [outputFile EXCEPT !.state = "whole"]
  /\ Return
  /\ UNCHANGED <<today, objects, positions>>

\* Early returns and exceptions; a crash only where memory is misused.
Stop ==
  \/ \E from \in {"secrets", "fetch", "write"} : Fail(from)
  \/ overrun /\ \E from \in {"size", "write", "close"} : Fail(from)

-----------------------------------------------------------------------------
(* The upload-daily mode. *)

\* What the file holds now goes under today's key.  Or there is no file, or the
\* store fails, and nothing changes.
UploadDaily ==
  /\ outputFile.state # "none"
  /\ positions' = [positions EXCEPT ![today] = outputFile]
  /\ UNCHANGED <<today, objects, run, outputFile>>

Next ==
  \/ Retrieve \/ NextDay
  \/ StartCovariance \/ GetSecrets \/ Fetch \/ Align \/ ExtractSurprises
  \/ CalculateCovariance \/ Decompose \/ AssignSensitivities \/ SizeAndSignal
  \/ OpenOutput \/ CloseOutput \/ Stop
  \/ UploadDaily

Spec == Init /\ [][Next]_vars

-----------------------------------------------------------------------------
(* Safety. *)

\* Age of row k when n quarters are interpolated: rows are counted back from the
\* last one filled, which is TargetMonths after the oldest quarter.
QuarterlyRowAge(n, k) ==
  LET rows == IF 3 * n < TargetMonths THEN 3 * n ELSE TargetMonths
      age  == 3 * (n - 1) - (rows - k)
  IN  (IF age > 0 THEN age ELSE 0) * TradingDaysPerMonth

\* Row k of the rows that the indicator j has from the series raw.  What was read
\* past the end of an object gives no other rows than such.
RowsOf(j, raw, rows) ==
  LET Back(k) == (k - 1) * TradingDaysPerMonth
  IN  IF NoAge \in Range(raw) THEN Range(rows) = {NoAge}
      ELSE /\ j \in DailyIndicators =>
                /\ Len(rows) = Min({TargetMonths,
                                    (Len(raw) + TradingDaysPerMonth - 1) \div TradingDaysPerMonth})
                /\ \A k \in 1 .. Len(rows) : rows[k] = Back(k)
           /\ j \in QuarterlyIndicators =>
                \A k \in 1 .. Len(rows) : rows[k] = QuarterlyRowAge(Len(raw), k)
           /\ j \in MonthlyIndicators =>
                \A k \in 1 .. Len(rows) : rows[k] = raw[k]

\* The loops of the aligner against closed forms.  Row k of a daily series is k
\* months back, and there are as many rows as months begun.  Row k of a gapless
\* monthly series is k months back.  Row k of the GDP counts from the oldest
\* quarter: ten quarters give the months 16 to 27 back, not the last twelve
\* (DataAligner.cpp:14-115, 186-197).
AlignedAges ==
  \A j \in DOMAIN alignedData : RowsOf(j, rawData[j], alignedData[j])

\* Inflation has ten rows and GDP twelve, so no run that passes the validation
\* has all seven indicators, and every one of them writes past the end of the
\* sensitivities: no result exists that was computed without it
\* (CovarianceCalculator.cpp:137-162, MultiVarAnalysisWorkflow.cpp:220-227).
EveryResultOverruns ==
  /\ stage \in {"size", "write", "close"} => overrun
  /\ outputFile.state # "none" => outputFile.overrun
  /\ \A d \in Days : positions[d].state # "none" => positions[d].overrun

\* A run with yesterday's yields never gets past the validation: ten days make
\* one row, and one row is too few (InvertedYieldStatsCalculator.cpp:18-38,
\* DataAligner.cpp:32-41, CovarianceCalculator.cpp:160-162).
YieldsStopTheRun ==
  stage \in {"factors", "risk", "size", "write", "close"} => rawData["inverted_yield"] = << >>

\* The signal is taken for a market of literals, in which the VIX and the curve
\* lean to LONG: no data make it SHORT, and what makes it LONG is a growth factor
\* of large variance, whichever way growth went, or a volatility factor of small
\* variance, which a run without the VIX does not have
\* (MultiVarAnalysisWorkflow.cpp:252-260, 339-341, SignalGenerator.cpp:103-173).
SignalOfTwoVariances ==
  /\ signal # "none" =>
       signal = IF factors["Growth"] = "strong" \/ factors["Volatility"] = "weak"
                THEN "LONG" ELSE "FLAT"
  /\ signal = "LONG" /\ "vix" \notin DOMAIN alignedData => factors["Growth"] = "strong"
  /\ \A d \in Days : "SHORT" \notin {outputFile.signal, positions[d].signal}

-----------------------------------------------------------------------------
(* What comments say, and the code does not do. *)

\* DataAligner.hpp:59 "@return Map of aligned indicators, all with 12 monthly
\* values".
AllTwelveMonths ==
  \A j \in DOMAIN alignedData : Len(alignedData[j]) = TargetMonths

\* SurpriseTransformer.hpp:41 "Previous release", :83 "Forecast next value using
\* AR(1) model": no expectation is made of a value later than the level it is for.
ExpectationsFromThePast ==
  \A j \in DOMAIN expectations :
    \A i \in 1 .. Len(expectations[j]) :
      \A age \in expectations[j][i] : age >= alignedData[j][i]
=============================================================================
