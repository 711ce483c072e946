-------------------------- MODULE HistoryDataProofs --------------------------
(***************************************************************************)
(* Proofs about HistoryData: whatever the seven series hold and wherever a *)
(* fetch stops, the history is what its invariants say.  The inductive     *)
(* invariant HistoryInv says which observation every slot of the forward   *)
(* fill, every field of a point and every window holds, as a function of   *)
(* the series alone.                                                       *)
(***************************************************************************)
EXTENDS HistoryData, SetFacts

ShapeInv ==
  /\ stage \in {"start", "fetch", "fill", "days", "done"}
  /\ origin \in {"none", "FRED", "synthetic"}
  /\ fetched \in 0 .. Len(FetchOrder)
  /\ maps \in [SeriesId -> SUBSET Dates]
  /\ filled \in Nat /\ i \in Nat
  /\ lastUnrate \in Observation /\ lastSentiment \in Observation /\ prevUnrate \in Observation
  /\ prevSp500 \in Price \cup {<< >>}
  /\ unrateDaily \in Seq(Observation) /\ sentimentDaily \in Seq(Observation)
  /\ recentVix \in Seq(Observation) /\ recentSentiment \in Seq(Observation)
  /\ recentUnrateChange \in Seq(Observation \X Observation)
  /\ history \in Seq(Point)

\* Where the function is.
StageInv ==
  /\ stage = "start" => \A s \in SeriesId : maps[s] = {}
  /\ stage \in {"start", "fetch"} => filled = 0 /\ i = 0
  /\ stage = "fill" => i = 0 /\ filled < Cardinality(EquityDates)
  /\ stage = "days" => filled = Cardinality(EquityDates) /\ i < Cardinality(EquityDates)
  /\ stage = "done" =>
       IF Cardinality(EquityDates) < 2
       THEN filled = 0 /\ i = 0
       ELSE filled = Cardinality(EquityDates) /\ i = Cardinality(EquityDates)
  /\ stage \in {"fill", "days"} => Cardinality(EquityDates) >= 2
  /\ Len(history) = IF i = 0 THEN 0 ELSE i - 1
  /\ origin # "none" =>
       stage = "done" /\ (origin = "synthetic" <=> Cardinality(EquityDates) < 2)

\* What the forward fill starts from, and what it gives a trading day.
First(series) == IF maps[series] = {} THEN NoValue ELSE Min(maps[series])
Daily(series, k) == LatestUpTo(maps[series], tradingDates[k], First(series))

FillInv ==
  /\ Len(unrateDaily) = filled /\ Len(sentimentDaily) = filled
  /\ \A k \in 1 .. filled :
       unrateDaily[k] = Daily("UNRATE", k) /\ sentimentDaily[k] = Daily("UMCSENT", k)
  /\ stage = "fill" =>
       /\ lastUnrate = IF filled = 0 THEN First("UNRATE") ELSE unrateDaily[filled]
       /\ lastSentiment = IF filled = 0 THEN First("UMCSENT") ELSE sentimentDaily[filled]

\* The fields of a point made from the k-th trading day and the next one.
PointFrom(p, k) ==
  /\ p.date = tradingDates[k + 1]
  /\ p.equityTo = equity(tradingDates[k + 1]) /\ p.equityFrom = equity(tradingDates[k])
  /\ p.dgs10 = YieldOn("DGS10", tradingDates[k + 1])
  /\ p.dgs2 = YieldOn("DGS2", tradingDates[k + 1])
  /\ p.vix = vixLevel(tradingDates[k + 1])
  /\ p.unrate = Daily("UNRATE", k + 1) /\ p.unrateFrom = Daily("UNRATE", k)
  /\ p.sentiment = Daily("UMCSENT", k + 1)

PointsInv ==
  /\ i > 0 => prevSp500 = equity(tradingDates[i]) /\ prevUnrate = Daily("UNRATE", i)
  /\ \A n \in Points : PointFrom(history[n], n)

\* A window is the newest values of its column of the history.
Size(m) == IF m < RollingWindow THEN m ELSE RollingWindow
Newest(column, m) == [k \in 1 .. Size(m) |-> column[m - Size(m) + k]]
VixColumn == [n \in Points |-> history[n].vix]
SentimentColumn == [n \in Points |-> history[n].sentiment]
ChangeColumn == [n \in Points |-> <<history[n].unrateFrom, history[n].unrate>>]

WindowsInv ==
  /\ recentVix = Newest(VixColumn, Len(history))
  /\ recentSentiment = Newest(SentimentColumn, Len(history))
  /\ recentUnrateChange = Newest(ChangeColumn, Len(history))
  /\ \A n \in Points :
       /\ history[n].growth = IF Size(n) >= MinWindow THEN Newest(SentimentColumn, n) ELSE << >>
       /\ history[n].volatility = IF Size(n) >= MinWindow THEN Newest(VixColumn, n) ELSE << >>

HistoryInv == ShapeInv /\ StageInv /\ FillInv /\ PointsInv /\ WindowsInv

-----------------------------------------------------------------------------
(* The trading days. *)

LEMMA SeriesNames ==
  {"SP500", "NASDAQCOM", "DGS10", "DGS2", "VIXCLS", "UNRATE", "UMCSENT"} \subseteq SeriesId
<1>1. /\ FetchOrder[1] = "SP500" /\ FetchOrder[2] = "NASDAQCOM" /\ FetchOrder[3] = "DGS10"
      /\ FetchOrder[4] = "DGS2" /\ FetchOrder[5] = "VIXCLS" /\ FetchOrder[6] = "UNRATE"
      /\ FetchOrder[7] = "UMCSENT"
  BY DEF FetchOrder
<1>2. DOMAIN FetchOrder = 1 .. 7
  BY DEF FetchOrder
<1> QED
  BY <1>1, <1>2 DEF SeriesId, Range

LEMMA FetchCount == Len(FetchOrder) = 7
  BY DEF FetchOrder

\* The trading days are days of the range, in order, the days with a price.
LEMMA TradingDays ==
  ASSUME maps \in [SeriesId -> SUBSET Dates]
  PROVE  /\ EquityDates \subseteq Dates
         /\ Cardinality(EquityDates) \in Nat /\ Cardinality(EquityDates) <= MaxDate
         /\ Len(tradingDates) = Cardinality(EquityDates)
         /\ \A k \in 1 .. Cardinality(EquityDates) : tradingDates[k] \in EquityDates
         /\ \A j, k \in 1 .. Cardinality(EquityDates) :
              j < k => tradingDates[j] < tradingDates[k]
<1>1. MaxDate \in Nat
  BY HistoryAssumption
<1>2. EquityDates \in SUBSET (1 .. MaxDate)
  BY SeriesNames DEF EquityDates, Dates
<1>3. tradingDates = Ordered(EquityDates)
  BY DEF tradingDates, Ordered, Rank
<1>4. Cardinality(EquityDates) \in Nat
  BY <1>1, <1>2, FiniteDates
<1>5. Cardinality(EquityDates) <= MaxDate
  <2>1. /\ 1 \in Int /\ MaxDate \in Int
        /\ (IF 1 > MaxDate THEN 0 ELSE MaxDate - 1 + 1) = MaxDate
    BY <1>1
  <2>2. IsFiniteSet(1 .. MaxDate) /\ Cardinality(1 .. MaxDate) = MaxDate
    BY <2>1, FS_Interval, Zenon
  <2> QED
    BY <1>2, <2>2, FS_Subset, Zenon
<1> QED
  BY <1>1, <1>2, <1>3, <1>4, <1>5, OrderedDates DEF Dates

-----------------------------------------------------------------------------
(* The operators. *)

\* upper_bound and one step back: the newest observation up to the day.
LEMMA LatestFacts ==
  ASSUME NEW observations \in SUBSET Dates, NEW d \in Int, NEW kept \in Observation
  PROVE  LET found == LatestUpTo(observations, d, kept)
         IN  /\ found \in Observation
             /\ \/ /\ \A e \in observations : d < e
                   /\ found = kept
                \/ /\ found \in observations /\ found <= d
                   /\ \A e \in observations : e <= d => e <= found
<1> DEFINE upTo == {e \in observations : e <= d}
           found == LatestUpTo(observations, d, kept)
<1>1. MaxDate \in Nat /\ upTo \in SUBSET (1 .. MaxDate) /\ upTo \in SUBSET observations
  BY HistoryAssumption DEF Dates
<1>2. CASE upTo = {}
  <2>1. found = kept
    BY <1>2 DEF LatestUpTo
  <2>2. \A e \in observations : d < e
    <3> TAKE e \in observations
    <3>1. ~(e <= d) /\ e \in Int
      BY <1>2 DEF Dates
    <3> QED
      BY <3>1
  <2> QED
    BY <2>1, <2>2
<1>3. CASE upTo # {}
  <2>1. found = Max(upTo)
    BY <1>3 DEF LatestUpTo
  <2> HIDE DEF upTo
  <2>2. Max(upTo) \in upTo /\ \A e \in upTo : e <= Max(upTo)
    BY <1>1, <1>3, MaxOfDates
  <2>3. Max(upTo) \in observations /\ Max(upTo) <= d
    BY <2>2 DEF upTo
  <2>4. \A e \in observations : e <= d => e <= Max(upTo)
    BY <2>2 DEF upTo
  <2> QED
    BY <2>1, <2>3, <2>4 DEF Observation
<1> QED
  BY <1>2, <1>3

\* What the fill starts from: the first observation, or the default.
LEMMA FirstFacts ==
  ASSUME maps \in [SeriesId -> SUBSET Dates], NEW series \in SeriesId
  PROVE  /\ First(series) \in Observation
         /\ maps[series] = {} => First(series) = NoValue
         /\ maps[series] # {} =>
              /\ First(series) \in maps[series] /\ First(series) = Min(maps[series])
              /\ \A e \in maps[series] : First(series) <= e
<1>1. MaxDate \in Nat /\ maps[series] \in SUBSET (1 .. MaxDate)
  BY HistoryAssumption DEF Dates
<1>2. maps[series] # {} =>
        Min(maps[series]) \in maps[series] /\ \A e \in maps[series] : Min(maps[series]) <= e
  BY <1>1, MinOfDates
<1> QED
  BY <1>1, <1>2 DEF First, Observation, Dates

LEMMA SizeFacts ==
  ASSUME NEW m \in Nat
  PROVE  /\ Size(m) \in Nat /\ Size(m) <= m /\ Size(m) <= RollingWindow
         /\ Size(m + 1) = IF Size(m) < RollingWindow THEN Size(m) + 1 ELSE Size(m)
  BY HistoryAssumption DEF Size

\* A window of a column is as long as its size.
LEMMA NewestType ==
  ASSUME NEW V, NEW column \in Seq(V), NEW m \in 0 .. Len(column)
  PROVE  /\ Newest(column, m) \in Seq(V) /\ Len(Newest(column, m)) = Size(m)
         /\ \A k \in 1 .. Size(m) : Newest(column, m)[k] = column[m - Size(m) + k]
<1>1. m \in Nat /\ Size(m) \in Nat /\ Size(m) <= m
  BY SizeFacts
<1>2. \A k \in 1 .. Size(m) : m - Size(m) + k \in 1 .. Len(column)
  BY <1>1
<1>3. \A k \in 1 .. Size(m) : column[m - Size(m) + k] \in V
  BY <1>2
<1> QED
  BY <1>1, <1>3 DEF Newest

\* push_back and erase keep the window the newest values of the longer column,
\* and take nothing from the windows of earlier points.
LEMMA NewestGrows ==
  ASSUME NEW V, NEW column \in Seq(V), NEW v \in V
  PROVE  /\ Push(Newest(column, Len(column)), v) = Newest(Append(column, v), Len(column) + 1)
         /\ \A n \in 1 .. Len(column) : Newest(Append(column, v), n) = Newest(column, n)
<1>a. PICK m : m = Len(column)
  OBVIOUS
<1>b. PICK z : z = Size(m)
  OBVIOUS
<1>c. PICK longer : longer = Append(column, v)
  OBVIOUS
<1>d. PICK l : l = m + 1
  OBVIOUS
<1>e. PICK r : r = Newest(column, m)
  OBVIOUS
<1>f. PICK r1 : r1 = Newest(longer, l)
  OBVIOUS
<1>1. /\ m \in Nat /\ z \in Nat /\ z <= m /\ z <= RollingWindow
      /\ Size(l) = (IF z < RollingWindow THEN z + 1 ELSE z)
  <2>1. m \in Nat
    BY <1>a
  <2> QED
    BY <2>1, <1>b, <1>d, SizeFacts
<1>2. RollingWindow \in Nat \ {0}
  BY HistoryAssumption
<1>3. longer \in Seq(V) /\ Len(longer) = l /\ longer[l] = v
  BY <1>a, <1>c, <1>d
<1>4. \A k \in 1 .. m : longer[k] = column[k]
  BY <1>a, <1>c
<1>5. r \in Seq(V) /\ Len(r) = z /\ \A k \in 1 .. z : r[k] = column[m - z + k]
  <2>1. m \in 0 .. Len(column)
    BY <1>1, <1>a
  <2> QED
    BY <2>1, <1>b, <1>e, NewestType
<1>6. /\ r1 \in Seq(V) /\ Len(r1) = Size(l)
      /\ \A k \in 1 .. Size(l) : r1[k] = longer[l - Size(l) + k]
  <2>1. l \in 0 .. Len(longer)
    BY <1>1, <1>3, <1>d
  <2> QED
    BY <1>3, <2>1, <1>f, NewestType
<1>7. Push(r, v) = r1
  <2>a. PICK a : a = Append(r, v)
    OBVIOUS
  <2>1. a \in Seq(V) /\ Len(a) = z + 1 /\ a[z + 1] = v /\ \A k \in 1 .. z : a[k] = r[k]
    BY <1>1, <1>5, <2>a
  <2>2. CASE z < RollingWindow
    <3>1. Len(a) <= RollingWindow
      BY <1>1, <1>2, <2>1, <2>2
    <3>2. Push(r, v) = a
      <4>1. ~(Len(a) > RollingWindow)
        BY <1>1, <1>2, <2>1, <3>1
      <4> QED
        BY <4>1, <2>a DEF Push
    <3>3. Len(r1) = z + 1
      BY <1>1, <1>6, <2>2
    <3>4. \A k \in 1 .. z + 1 : a[k] = r1[k]
      <4> TAKE k \in 1 .. z + 1
      <4>1. r1[k] = longer[m - z + k]
        <5>1. l - (z + 1) + k = m - z + k
          BY <1>1, <1>d
        <5> QED
          BY <1>1, <1>6, <2>2, <5>1
      <4>2. CASE k = z + 1
        <5>1. m - z + k = l
          BY <1>1, <1>d, <4>2
        <5> QED
          BY <1>3, <2>1, <4>1, <4>2, <5>1
      <4>3. CASE k \in 1 .. z
        <5>1. m - z + k \in 1 .. m
          BY <1>1, <1>d, <4>3
        <5> QED
          BY <1>4, <1>5, <2>1, <4>1, <4>3, <5>1
      <4> QED
        BY <1>1, <4>2, <4>3
    <3> QED
      BY <1>1, <1>6, <2>1, <3>2, <3>3, <3>4
  <2>3. CASE z = RollingWindow
    <3>1. Push(r, v) = Tail(a)
      <4>1. Len(a) > RollingWindow
        BY <1>1, <1>2, <2>1, <2>3
      <4> QED
        BY <4>1, <2>a DEF Push
    <3>2. Tail(a) \in Seq(V) /\ Len(Tail(a)) = z /\ \A k \in 1 .. z : Tail(a)[k] = a[k + 1]
      BY <1>1, <2>1
    <3>3. Len(r1) = z
      BY <1>1, <1>6, <2>3
    <3>4. \A k \in 1 .. z : Tail(a)[k] = r1[k]
      <4> TAKE k \in 1 .. z
      <4>1. r1[k] = longer[l - z + k]
        BY <1>1, <1>6, <2>3
      <4>2. CASE k = z
        <5>1. l - z + k = l
          BY <1>1, <1>d, <4>2
        <5>2. Tail(a)[k] = v
          BY <2>1, <3>2, <4>2
        <5> QED
          BY <1>3, <4>1, <5>1, <5>2
      <4>3. CASE k < z
        <5>1. l - z + k \in 1 .. m /\ k + 1 \in 1 .. z
          BY <1>1, <1>d, <4>3
        <5>2. m - z + (k + 1) = l - z + k
          BY <1>1, <1>d
        <5>3. Tail(a)[k] = column[m - z + (k + 1)]
          BY <1>5, <2>1, <3>2, <5>1
        <5>4. r1[k] = column[l - z + k]
          BY <1>4, <4>1, <5>1
        <5> QED
          BY <1>1, <1>d, <5>2, <5>3, <5>4
      <4>4. k = z \/ k < z
        BY <1>1
      <4> QED
        BY <4>2, <4>3, <4>4, Zenon
    <3> QED
      BY <1>1, <1>6, <3>1, <3>2, <3>3, <3>4
  <2> QED
    BY <1>1, <1>2, <2>2, <2>3
<1>8. ASSUME NEW n \in 1 .. m PROVE Newest(longer, n) = Newest(column, n)
  <2>0. n \in Nat
    BY <1>1
  <2>1. Size(n) \in Nat /\ Size(n) <= n
    BY <2>0, SizeFacts
  <2>2. \A k \in 1 .. Size(n) : n - Size(n) + k \in 1 .. m
    BY <1>1, <2>0, <2>1
  <2> QED
    BY <1>4, <2>2 DEF Newest
<1> QED
  BY <1>a, <1>c, <1>d, <1>e, <1>f, <1>7, <1>8

-----------------------------------------------------------------------------
(* What the joins give, and that they depend on the series alone. *)

LEMMA Joined ==
  ASSUME maps' = maps
  PROVE  /\ EquityDates' = EquityDates /\ tradingDates' = tradingDates
         /\ \A d : equity(d)' = equity(d)
         /\ \A s : First(s)' = First(s)
         /\ \A s, k : Daily(s, k)' = Daily(s, k)
         /\ \A p, k : PointFrom(p, k)' <=> PointFrom(p, k)
<1>1. EquityDates' = EquityDates
  BY DEF EquityDates
<1>2. tradingDates' = tradingDates
  BY <1>1 DEF tradingDates
<1>3. \A d : equity(d)' = equity(d)
  BY DEF equity
<1>4. \A s : First(s)' = First(s)
  BY DEF First
<1>5. \A s, k : Daily(s, k)' = Daily(s, k)
  BY <1>2, <1>4 DEF Daily
<1>6. \A s, d : YieldOn(s, d)' = YieldOn(s, d)
  BY DEF YieldOn
<1>7. \A d : vixLevel(d)' = vixLevel(d)
  BY DEF vixLevel
<1>8. \A p, k : PointFrom(p, k)' <=> PointFrom(p, k)
  BY <1>2, <1>3, <1>5, <1>6, <1>7 DEF PointFrom
<1> QED
  BY <1>1, <1>2, <1>3, <1>4, <1>5, <1>8

LEMMA JoinTypes ==
  ASSUME ShapeInv, NEW k \in 1 .. Cardinality(EquityDates)
  PROVE  /\ tradingDates[k] \in Dates /\ equity(tradingDates[k]) \in Price
         /\ YieldOn("DGS10", tradingDates[k]) \in Observation
         /\ YieldOn("DGS2", tradingDates[k]) \in Observation
         /\ vixLevel(tradingDates[k]) \in Observation
         /\ Daily("UNRATE", k) \in Observation /\ Daily("UMCSENT", k) \in Observation
<1>1. maps \in [SeriesId -> SUBSET Dates]
  BY DEF ShapeInv
<1>2. tradingDates[k] \in Dates
  BY <1>1, TradingDays
<1>3. tradingDates[k] \in Int
  BY <1>2 DEF Dates
<1>4. maps["VIXCLS"] \in SUBSET Dates /\ maps["UNRATE"] \in SUBSET Dates /\ maps["UMCSENT"] \in SUBSET Dates
  BY <1>1, SeriesNames
<1>5. NoValue \in Observation
  BY DEF Observation
<1>6. First("UNRATE") \in Observation /\ First("UMCSENT") \in Observation
  BY <1>1, SeriesNames, FirstFacts
<1>7. vixLevel(tradingDates[k]) \in Observation
  BY <1>3, <1>4, <1>5, LatestFacts DEF vixLevel
<1>8. Daily("UNRATE", k) \in Observation
  BY <1>3, <1>4, <1>6, LatestFacts DEF Daily
<1>9. Daily("UMCSENT", k) \in Observation
  BY <1>3, <1>4, <1>6, LatestFacts DEF Daily
<1> QED
  BY <1>2, <1>5, <1>7, <1>8, <1>9 DEF equity, Price, YieldOn, Observation

LEMMA Columns ==
  ASSUME ShapeInv
  PROVE  /\ VixColumn \in Seq(Observation) /\ Len(VixColumn) = Len(history)
         /\ SentimentColumn \in Seq(Observation) /\ Len(SentimentColumn) = Len(history)
         /\ ChangeColumn \in Seq(Observation \X Observation) /\ Len(ChangeColumn) = Len(history)
<1>1. history \in Seq(Point)
  BY DEF ShapeInv
<1>2. \A n \in 1 .. Len(history) :
        /\ history[n].vix \in Observation /\ history[n].sentiment \in Observation
        /\ history[n].unrateFrom \in Observation /\ history[n].unrate \in Observation
  <2> TAKE n \in 1 .. Len(history)
  <2>1. PICK p \in Point : p = history[n]
    BY <1>1
  <2>2. /\ p.vix \in Observation /\ p.sentiment \in Observation
        /\ p.unrateFrom \in Observation /\ p.unrate \in Observation
    BY DEF Point
  <2> QED
    BY <2>1, <2>2
<1> QED
  BY <1>1, <1>2 DEF VixColumn, SentimentColumn, ChangeColumn, Points

\* The point that one turn of the main loop appends.
LEMMA DayPoint ==
  ASSUME HistoryInv, Day
  PROVE  /\ i \in 1 .. Cardinality(EquityDates) - 1 /\ i' = i + 1 /\ Len(history) = i - 1
         /\ \E p \in Point :
              /\ history' = Append(history, p)
              /\ PointFrom(p, i)
              /\ recentVix' = Push(recentVix, p.vix)
              /\ recentUnrateChange' = Push(recentUnrateChange, <<p.unrateFrom, p.unrate>>)
              /\ recentSentiment' = Push(recentSentiment, p.sentiment)
              /\ p.growth = ScoredOver(recentSentiment')
              /\ p.volatility = ScoredOver(recentVix')
         /\ prevSp500' = equity(tradingDates[i + 1]) /\ prevUnrate' = Daily("UNRATE", i + 1)
         /\ recentVix' \in Seq(Observation) /\ recentSentiment' \in Seq(Observation)
         /\ recentUnrateChange' \in Seq(Observation \X Observation)
<1> DEFINE c == Cardinality(EquityDates)
           d == tradingDates[i + 1]
           p == [date |-> d, equityTo |-> equity(d), equityFrom |-> prevSp500,
                 dgs10 |-> YieldOn("DGS10", d), dgs2 |-> YieldOn("DGS2", d), vix |-> vixLevel(d),
                 unrate |-> unrateDaily[i'], unrateFrom |-> prevUnrate,
                 sentiment |-> sentimentDaily[i'],
                 growth |-> ScoredOver(recentSentiment'), volatility |-> ScoredOver(recentVix')]
<1>1. maps \in [SeriesId -> SUBSET Dates] /\ i \in Nat /\ history \in Seq(Point)
  BY DEF HistoryInv, ShapeInv
<1>2. c \in Nat /\ Len(tradingDates) = c
  BY <1>1, TradingDays
<1>3. stage = "days" /\ i \in 1 .. c - 1 /\ i' = i + 1
  BY <1>2 DEF Day
<1>4. Len(history) = i - 1 /\ filled = c
  BY <1>1, <1>3 DEF HistoryInv, StageInv
<1>5. i + 1 \in 1 .. c /\ i \in 1 .. c
  BY <1>2, <1>3
<1>6. unrateDaily[i'] = Daily("UNRATE", i + 1) /\ sentimentDaily[i'] = Daily("UMCSENT", i + 1)
  BY <1>3, <1>4, <1>5 DEF HistoryInv, FillInv
<1>7. prevSp500 = equity(tradingDates[i]) /\ prevUnrate = Daily("UNRATE", i)
  BY <1>1, <1>3 DEF HistoryInv, PointsInv
<1>8. /\ d \in Dates /\ equity(d) \in Price /\ prevSp500 \in Price
      /\ YieldOn("DGS10", d) \in Observation /\ YieldOn("DGS2", d) \in Observation
      /\ vixLevel(d) \in Observation
      /\ Daily("UNRATE", i + 1) \in Observation /\ Daily("UMCSENT", i + 1) \in Observation
      /\ prevUnrate \in Observation
  BY <1>5, <1>7, JoinTypes DEF HistoryInv
<1>9. /\ recentVix' = Push(recentVix, vixLevel(d))
      /\ recentUnrateChange' = Push(recentUnrateChange, <<prevUnrate, unrateDaily[i']>>)
      /\ recentSentiment' = Push(recentSentiment, sentimentDaily[i'])
      /\ history' = Append(history, p)
      /\ prevSp500' = equity(d) /\ prevUnrate' = unrateDaily[i']
  BY DEF Day
<1>10. \A V : \A r \in Seq(V), v \in V : Push(r, v) \in Seq(V)
  <2> SUFFICES ASSUME NEW V, NEW r \in Seq(V), NEW v \in V PROVE Push(r, v) \in Seq(V)
    OBVIOUS
  <2>1. PICK a : a = Append(r, v)
    OBVIOUS
  <2>2. a \in Seq(V) /\ Len(a) = Len(r) + 1 /\ Len(r) \in Nat
    BY <2>1
  <2>3. Tail(a) \in Seq(V)
    BY <2>2
  <2> QED
    BY <2>1, <2>2, <2>3 DEF Push
<1>11. /\ recentVix' \in Seq(Observation) /\ recentSentiment' \in Seq(Observation)
       /\ recentUnrateChange' \in Seq(Observation \X Observation)
  <2>1. /\ recentVix \in Seq(Observation) /\ recentSentiment \in Seq(Observation)
        /\ recentUnrateChange \in Seq(Observation \X Observation)
    BY DEF HistoryInv, ShapeInv
  <2>2. <<prevUnrate, unrateDaily[i']>> \in Observation \X Observation
    BY <1>6, <1>8
  <2> HIDE DEF p, d, c
  <2> QED
    BY <1>6, <1>8, <1>9, <1>10, <2>1, <2>2
<1>12. ScoredOver(recentSentiment') \in Seq(Observation) /\ ScoredOver(recentVix') \in Seq(Observation)
  BY <1>11 DEF ScoredOver
<1>13. p \in Point
  BY <1>6, <1>8, <1>12 DEF Point
<1>14. /\ p.date = d /\ p.equityTo = equity(d) /\ p.equityFrom = prevSp500
       /\ p.dgs10 = YieldOn("DGS10", d) /\ p.dgs2 = YieldOn("DGS2", d) /\ p.vix = vixLevel(d)
       /\ p.unrate = unrateDaily[i'] /\ p.unrateFrom = prevUnrate
       /\ p.sentiment = sentimentDaily[i']
       /\ p.growth = ScoredOver(recentSentiment') /\ p.volatility = ScoredOver(recentVix')
  OBVIOUS
<1> HIDE DEF p
<1>15. PointFrom(p, i)
  BY <1>6, <1>7, <1>14 DEF PointFrom
<1>16. \E q \in Point :
         /\ history' = Append(history, q)
         /\ PointFrom(q, i)
         /\ recentVix' = Push(recentVix, q.vix)
         /\ recentUnrateChange' = Push(recentUnrateChange, <<q.unrateFrom, q.unrate>>)
         /\ recentSentiment' = Push(recentSentiment, q.sentiment)
         /\ q.growth = ScoredOver(recentSentiment')
         /\ q.volatility = ScoredOver(recentVix')
  BY <1>9, <1>13, <1>14, <1>15
<1> QED
  BY <1>3, <1>4, <1>6, <1>9, <1>11, <1>16

-----------------------------------------------------------------------------
(* Every step keeps the invariant. *)

LEMMA ShapeStep ==
  ASSUME HistoryInv, Next
  PROVE  ShapeInv'
<1>1. ShapeInv /\ StageInv
  BY DEF HistoryInv
<1>2. /\ maps \in [SeriesId -> SUBSET Dates]
      /\ maps["UNRATE"] \in SUBSET Dates /\ maps["UMCSENT"] \in SUBSET Dates
  BY <1>1, SeriesNames DEF ShapeInv
<1>3. First("UNRATE") \in Observation /\ First("UMCSENT") \in Observation
  BY <1>2, SeriesNames, FirstFacts
<1>4. CASE Start
  BY <1>1, <1>4 DEF Start, ShapeInv, fills, lasts, days, windows
<1>5. CASE FetchSeries
  <2>1. PICK values \in Published[FetchOrder[fetched + 1]], upTo \in Dates \cup {0} :
          maps' = [maps EXCEPT ![FetchOrder[fetched + 1]] = {d \in values : d <= upTo}]
    BY <1>5 DEF FetchSeries
  <2>2. fetched \in 0 .. 6
    BY <1>1, <1>5, FetchCount DEF FetchSeries, ShapeInv
  <2>3. FetchOrder[fetched + 1] \in SeriesId
    <3>1. DOMAIN FetchOrder = 1 .. 7 /\ fetched + 1 \in 1 .. 7
      BY <2>2 DEF FetchOrder
    <3> QED
      BY <3>1 DEF SeriesId, Range
  <2>4. values \subseteq Dates
    BY <2>3, HistoryAssumption
  <2>5. maps' \in [SeriesId -> SUBSET Dates]
    BY <1>2, <2>1, <2>4
  <2>6. fetched' \in 0 .. Len(FetchOrder)
    BY <1>5, <2>2, FetchCount DEF FetchSeries
  <2> QED
    BY <1>1, <1>5, <2>5, <2>6 DEF FetchSeries, ShapeInv, fills, lasts, days, windows
<1>6. CASE BuildDates
  <2>1. \/ stage' = "done" /\ UNCHANGED lasts
        \/ stage' = "fill" /\ lastUnrate' = First("UNRATE") /\ lastSentiment' = First("UMCSENT")
    BY <1>6 DEF BuildDates, First
  <2> QED
    BY <1>1, <1>3, <1>6, <2>1 DEF BuildDates, ShapeInv, lasts, days, windows
<1>7. CASE FillDay
  <2>1. filled + 1 \in 1 .. Cardinality(EquityDates)
    BY <1>1, <1>2, <1>7, TradingDays DEF FillDay, StageInv, ShapeInv
  <2>2. tradingDates[filled + 1] \in Int
    BY <1>1, <2>1, JoinTypes DEF Dates
  <2>3. /\ lastUnrate' = LatestUpTo(maps["UNRATE"], tradingDates[filled + 1], lastUnrate)
        /\ lastSentiment' = LatestUpTo(maps["UMCSENT"], tradingDates[filled + 1], lastSentiment)
    BY <1>7 DEF FillDay
  <2>4. lastUnrate' \in Observation /\ lastSentiment' \in Observation
    <3>1. lastUnrate \in Observation /\ lastSentiment \in Observation
      BY <1>1 DEF ShapeInv
    <3>2. lastUnrate' \in Observation
      BY <1>2, <2>2, <2>3, <3>1, LatestFacts
    <3>3. lastSentiment' \in Observation
      BY <1>2, <2>2, <2>3, <3>1, LatestFacts
    <3> QED
      BY <3>2, <3>3
  <2>5. unrateDaily' \in Seq(Observation) /\ sentimentDaily' \in Seq(Observation)
    BY <1>1, <1>7, <2>4 DEF FillDay, ShapeInv
  <2>6. stage' \in {"fill", "days"} /\ prevUnrate' \in Observation /\ filled' \in Nat
    BY <1>1, <1>7, <2>4 DEF FillDay, ShapeInv
  <2> QED
    BY <1>1, <1>7, <2>4, <2>5, <2>6 DEF FillDay, ShapeInv, windows
<1>8. CASE FirstDay
  <2>1. Cardinality(EquityDates) \in Nat /\ Cardinality(EquityDates) >= 2
    BY <1>1, <1>2, <1>8, TradingDays DEF FirstDay, StageInv
  <2>2. 1 \in 1 .. Cardinality(EquityDates)
    BY <2>1
  <2>3. equity(tradingDates[1]) \in Price
    BY <1>1, <2>2, JoinTypes
  <2>4. unrateDaily[1] \in Observation
    <3>1. Len(unrateDaily) = Cardinality(EquityDates)
      BY <1>8 DEF HistoryInv, FillInv, StageInv, FirstDay
    <3> QED
      BY <1>1, <2>2, <3>1 DEF ShapeInv
  <2> QED
    BY <1>1, <1>8, <2>3, <2>4 DEF FirstDay, ShapeInv, fills, lasts, windows
<1>9. CASE Day
  <2>1. PICK p \in Point : history' = Append(history, p)
    BY <1>9, DayPoint
  <2>2. history' \in Seq(Point)
    BY <1>1, <2>1 DEF ShapeInv
  <2>3. /\ recentVix' \in Seq(Observation) /\ recentSentiment' \in Seq(Observation)
        /\ recentUnrateChange' \in Seq(Observation \X Observation)
        /\ prevSp500' = equity(tradingDates[i + 1]) /\ prevUnrate' = Daily("UNRATE", i + 1)
        /\ i \in 1 .. Cardinality(EquityDates) - 1 /\ i' = i + 1
    BY <1>9, DayPoint
  <2>4. i + 1 \in 1 .. Cardinality(EquityDates) /\ i' \in Nat
    BY <1>2, <2>3, TradingDays
  <2>5. prevSp500' \in Price /\ prevUnrate' \in Observation
    BY <1>1, <2>3, <2>4, JoinTypes
  <2>6. stage' \in {"days", "done"} /\ UNCHANGED <<origin, fetched, maps, fills>>
    BY <1>9 DEF Day
  <2> QED
    BY <1>1, <2>2, <2>3, <2>4, <2>5, <2>6 DEF ShapeInv, fills, lasts
<1>10. CASE ChooseOrigin
  BY <1>1, <1>10 DEF ChooseOrigin, ShapeInv, fills, lasts, days, windows
<1> QED
  BY <1>4, <1>5, <1>6, <1>7, <1>8, <1>9, <1>10 DEF Next

LEMMA StageStep ==
  ASSUME HistoryInv, Next
  PROVE  StageInv'
<1> DEFINE c == Cardinality(EquityDates)
<1>1. ShapeInv /\ StageInv
  BY DEF HistoryInv
<1>2. c \in Nat /\ Len(tradingDates) = c /\ filled \in Nat /\ i \in Nat
  BY <1>1, TradingDays DEF ShapeInv
<1>3. maps' = maps => c' = c
  BY Joined
<1>4. CASE Start
  <2>1. \A s \in SeriesId : maps[s] = {}
    BY <1>1, <1>4 DEF Start, StageInv
  <2>2. EquityDates = {}
    BY <2>1, SeriesNames DEF EquityDates
  <2>3. c = 0
    BY <2>2, FS_EmptySet, Zenon
  <2>4. origin = "none"
    BY <1>1, <1>4 DEF Start, StageInv
  <2> HIDE DEF c
  <2> QED
    BY <1>1, <1>3, <1>4, <2>3, <2>4 DEF Start, StageInv, fills, lasts, days, windows, c
<1>5. CASE FetchSeries
  <2>1. stage = "fetch" /\ stage' = "fetch" /\ filled' = filled /\ i' = i /\ history' = history /\ origin' = origin
    BY <1>5 DEF FetchSeries, fills, lasts, days, windows
  <2> QED
    BY <1>1, <2>1 DEF StageInv
<1>6. CASE BuildDates
  <2>1. /\ stage = "fetch" /\ filled' = filled /\ i' = i /\ history' = history /\ origin' = origin
        /\ maps' = maps
        /\ stage' = IF c < 2 THEN "done" ELSE "fill"
    BY <1>6 DEF BuildDates, lasts, days, windows
  <2>2. filled = 0 /\ i = 0 /\ Len(history) = 0 /\ origin = "none"
    BY <1>1, <2>1 DEF StageInv
  <2> HIDE DEF c
  <2> QED
    BY <1>1, <1>2, <1>3, <2>1, <2>2 DEF StageInv, c
<1>7. CASE FillDay
  <2>1. /\ stage = "fill" /\ filled' = filled + 1 /\ i' = i /\ history' = history
        /\ origin' = origin /\ maps' = maps
        /\ stage' = IF filled' = c THEN "days" ELSE "fill"
    BY <1>2, <1>7 DEF FillDay, windows
  <2>2. filled < c /\ i = 0 /\ c >= 2 /\ Len(history) = 0 /\ origin = "none"
    BY <1>1, <2>1 DEF StageInv
  <2> HIDE DEF c
  <2> QED
    BY <1>1, <1>2, <1>3, <2>1, <2>2 DEF StageInv, c
<1>8. CASE FirstDay
  <2>1. /\ stage = "days" /\ stage' = "days" /\ i = 0 /\ i' = 1 /\ filled' = filled
        /\ history' = history /\ origin' = origin /\ maps' = maps
    BY <1>8 DEF FirstDay, fills, lasts, windows
  <2>2. filled = c /\ c >= 2 /\ Len(history) = 0 /\ origin = "none"
    BY <1>1, <2>1 DEF StageInv
  <2> HIDE DEF c
  <2> QED
    BY <1>1, <1>2, <1>3, <2>1, <2>2 DEF StageInv, c
<1>9. CASE Day
  <2>1. /\ i \in 1 .. c - 1 /\ i' = i + 1 /\ Len(history) = i - 1
        /\ \E p \in Point : history' = Append(history, p)
    BY <1>9, DayPoint
  <2>2. /\ stage = "days" /\ filled' = filled /\ origin' = origin /\ maps' = maps
        /\ stage' = IF i' = c THEN "done" ELSE "days"
    BY <1>2, <1>9 DEF Day, fills, lasts
  <2>3. Len(history') = i
    <3>1. history \in Seq(Point)
      BY <1>1 DEF ShapeInv
    <3> QED
      BY <1>2, <2>1, <3>1
  <2>4. filled = c /\ c >= 2 /\ origin = "none"
    BY <1>1, <2>2 DEF StageInv
  <2> HIDE DEF c
  <2> QED
    BY <1>1, <1>2, <1>3, <2>1, <2>2, <2>3, <2>4 DEF StageInv, c
<1>10. CASE ChooseOrigin
  <2>1. /\ stage = "done" /\ origin = "none" /\ stage' = "done" /\ filled' = filled /\ i' = i
        /\ history' = history /\ maps' = maps
        /\ origin' = IF history = << >> THEN "synthetic" ELSE "FRED"
    BY <1>10 DEF ChooseOrigin, fills, lasts, days, windows
  <2>2. history = << >> <=> c < 2
    <3>1. history \in Seq(Point)
      BY <1>1 DEF ShapeInv
    <3>2. history = << >> <=> Len(history) = 0
      BY <3>1
    <3>3. Len(history) = (IF i = 0 THEN 0 ELSE i - 1) /\ (IF c < 2 THEN i = 0 ELSE i = c)
      BY <1>1, <2>1 DEF StageInv
    <3> HIDE DEF c
    <3> QED
      BY <1>2, <3>2, <3>3
  <2>3. origin' # "none" /\ (origin' = "synthetic" <=> c < 2)
    BY <2>1, <2>2
  <2> HIDE DEF c
  <2> QED
    BY <1>1, <1>2, <1>3, <2>1, <2>3 DEF StageInv, c
<1> QED
  BY <1>4, <1>5, <1>6, <1>7, <1>8, <1>9, <1>10 DEF Next

\* The fill gives each trading day what the series alone determine, although it
\* carries its value over from the day before.
LEMMA FillStep ==
  ASSUME HistoryInv, Next
  PROVE  FillInv'
<1>1. ShapeInv /\ StageInv /\ FillInv
  BY DEF HistoryInv
<1>2. filled \in Nat /\ unrateDaily \in Seq(Observation) /\ sentimentDaily \in Seq(Observation)
  BY <1>1 DEF ShapeInv
<1>3. maps' = maps => \A s, k : Daily(s, k)' = Daily(s, k) /\ First(s)' = First(s)
  BY Joined
<1>4. ASSUME UNCHANGED <<maps, filled, unrateDaily, sentimentDaily>>, stage' # "fill"
      PROVE  FillInv'
  BY <1>1, <1>3, <1>4 DEF FillInv
<1>5. CASE FetchSeries
  <2>1. filled = 0 /\ stage' = "fetch" /\ filled' = filled /\ unrateDaily' = unrateDaily /\ sentimentDaily' = sentimentDaily
    BY <1>1, <1>5 DEF FetchSeries, StageInv, fills, lasts
  <2> QED
    BY <1>1, <2>1 DEF FillInv
<1>6. CASE BuildDates
  <2>1. /\ filled = 0 /\ filled' = filled /\ unrateDaily' = unrateDaily
        /\ sentimentDaily' = sentimentDaily /\ maps' = maps
    BY <1>1, <1>6 DEF BuildDates, StageInv, fills
  <2>2. \/ stage' = "done"
        \/ stage' = "fill" /\ lastUnrate' = First("UNRATE") /\ lastSentiment' = First("UMCSENT")
    BY <1>6 DEF BuildDates, First
  <2> QED
    BY <1>1, <1>3, <2>1, <2>2 DEF FillInv
<1>7. CASE FillDay
  <2>1. /\ stage = "fill" /\ filled' = filled + 1 /\ maps' = maps
        /\ unrateDaily' = Append(unrateDaily, lastUnrate')
        /\ sentimentDaily' = Append(sentimentDaily, lastSentiment')
        /\ lastUnrate' = LatestUpTo(maps["UNRATE"], tradingDates[filled + 1], lastUnrate)
        /\ lastSentiment' = LatestUpTo(maps["UMCSENT"], tradingDates[filled + 1], lastSentiment)
    BY <1>7 DEF FillDay
  <2>2. maps \in [SeriesId -> SUBSET Dates] /\ filled + 1 \in 1 .. Cardinality(EquityDates)
    BY <1>1, <1>2, <2>1, TradingDays DEF StageInv, ShapeInv
  <2>3. ASSUME NEW s \in SeriesId, NEW last,
               last = IF filled = 0 THEN First(s) ELSE Daily(s, filled)
        PROVE  LatestUpTo(maps[s], tradingDates[filled + 1], last) = Daily(s, filled + 1)
    <3>1. CASE last = First(s)
      BY <3>1 DEF Daily
    <3>2. CASE filled > 0
      <4> DEFINE t == tradingDates[filled]
                 u == tradingDates[filled + 1]
      <4>1. t \in Dates /\ u \in Dates /\ t < u
        <5>1. filled \in 1 .. Cardinality(EquityDates) /\ filled < filled + 1
          BY <1>2, <2>2, <3>2, TradingDays
        <5> QED
          BY <2>2, <5>1, TradingDays
      <4>2. t \in Int /\ u \in Int
        BY <4>1 DEF Dates
      <4>3. maps[s] \in SUBSET Dates
        BY <2>2
      <4> HIDE DEF t, u
      <4>4. CASE {e \in maps[s] : e <= u} = {}
        <5>1. {e \in maps[s] : e <= t} = {}
          <6> SUFFICES ASSUME NEW e \in maps[s], e <= t PROVE FALSE
            OBVIOUS
          <6>1. e \in Int
            BY <4>3 DEF Dates
          <6>2. e <= u
            BY <4>1, <4>2, <6>1
          <6> QED
            BY <4>4, <6>2
        <5>2. last = First(s)
          BY <1>2, <2>3, <3>2, <5>1 DEF Daily, LatestUpTo, t
        <5> QED
          BY <5>2, <3>1
      <4>5. CASE {e \in maps[s] : e <= u} # {}
        BY <4>5 DEF Daily, LatestUpTo, u
      <4> QED
        BY <4>4, <4>5
    <3> QED
      BY <1>2, <2>3, <3>1, <3>2
  <2>4. lastUnrate' = Daily("UNRATE", filled + 1)
    <3>1. lastUnrate = IF filled = 0 THEN First("UNRATE") ELSE Daily("UNRATE", filled)
      BY <1>1, <1>2, <2>1 DEF FillInv
    <3> QED
      BY <2>1, <2>3, <3>1, SeriesNames
  <2>5. lastSentiment' = Daily("UMCSENT", filled + 1)
    <3>1. lastSentiment = IF filled = 0 THEN First("UMCSENT") ELSE Daily("UMCSENT", filled)
      BY <1>1, <1>2, <2>1 DEF FillInv
    <3> QED
      BY <2>1, <2>3, <3>1, SeriesNames
  <2>6. \A s, k : Daily(s, k)' = Daily(s, k)
    BY <1>3, <2>1
  <2>7. Len(unrateDaily) = filled /\ Len(sentimentDaily) = filled
    BY <1>1 DEF FillInv
  <2>8. /\ Len(unrateDaily') = filled' /\ Len(sentimentDaily') = filled'
        /\ \A k \in 1 .. filled : unrateDaily'[k] = unrateDaily[k] /\ sentimentDaily'[k] = sentimentDaily[k]
        /\ unrateDaily'[filled'] = lastUnrate' /\ sentimentDaily'[filled'] = lastSentiment'
    BY <1>2, <2>1, <2>7
  <2>9. \A k \in 1 .. filled' :
          unrateDaily'[k] = Daily("UNRATE", k) /\ sentimentDaily'[k] = Daily("UMCSENT", k)
    <3> TAKE k \in 1 .. filled'
    <3>1. CASE k \in 1 .. filled
      BY <1>1, <2>8, <3>1 DEF FillInv
    <3>2. CASE k = filled'
      BY <2>1, <2>4, <2>5, <2>8, <3>2
    <3>3. k \in 1 .. filled \/ k = filled'
      BY <1>2, <2>1
    <3> QED
      BY <3>1, <3>2, <3>3, Zenon
  <2>10. filled' # 0
    BY <1>2, <2>1
  <2> QED
    BY <2>6, <2>8, <2>9, <2>10 DEF FillInv
<1>8. CASE Start
  BY <1>4, <1>8 DEF Start, fills
<1>9. CASE FirstDay
  BY <1>4, <1>9 DEF FirstDay, fills
<1>10. CASE Day
  BY <1>4, <1>10 DEF Day, fills
<1>11. CASE ChooseOrigin
  BY <1>4, <1>11 DEF ChooseOrigin, fills
<1> QED
  BY <1>5, <1>6, <1>7, <1>8, <1>9, <1>10, <1>11 DEF Next

LEMMA PointsStep ==
  ASSUME HistoryInv, Next
  PROVE  PointsInv'
<1>1. ShapeInv /\ StageInv /\ PointsInv
  BY DEF HistoryInv
<1>2. i \in Nat /\ history \in Seq(Point)
  BY <1>1 DEF ShapeInv
<1>3. maps' = maps =>
        /\ tradingDates' = tradingDates
        /\ \A d : equity(d)' = equity(d)
        /\ \A s, k : Daily(s, k)' = Daily(s, k)
        /\ \A p, k : PointFrom(p, k)' <=> PointFrom(p, k)
  BY Joined
<1>4. ASSUME UNCHANGED <<maps, i, prevSp500, prevUnrate, history>>
      PROVE  PointsInv'
  BY <1>1, <1>3, <1>4 DEF PointsInv, Points
<1>5. ASSUME i = 0, i' = 0, history' = history
      PROVE  PointsInv'
  <2>1. Len(history') = 0
    BY <1>1, <1>5 DEF StageInv
  <2> QED
    BY <1>5, <2>1 DEF PointsInv, Points
<1>6. CASE Start
  BY <1>4, <1>6 DEF Start, days
<1>7. CASE FetchSeries
  BY <1>1, <1>5, <1>7 DEF FetchSeries, StageInv, days
<1>8. CASE BuildDates
  BY <1>1, <1>5, <1>8 DEF BuildDates, StageInv, days
<1>9. CASE FillDay
  BY <1>1, <1>5, <1>9 DEF FillDay, StageInv
<1>10. CASE FirstDay
  <2>1. /\ prevSp500' = equity(tradingDates[1]) /\ prevUnrate' = unrateDaily[1]
        /\ i' = 1 /\ maps' = maps /\ history' = history /\ stage = "days" /\ i = 0
    BY <1>10 DEF FirstDay
  <2>2. Len(history') = 0 /\ filled = Cardinality(EquityDates) /\ Cardinality(EquityDates) >= 2
    BY <1>1, <2>1 DEF StageInv
  <2>3. unrateDaily[1] = Daily("UNRATE", 1)
    <3>1. 1 \in 1 .. filled
      BY <1>1, <2>2 DEF ShapeInv
    <3> QED
      BY <3>1 DEF HistoryInv, FillInv
  <2> QED
    BY <1>3, <2>1, <2>2, <2>3 DEF PointsInv, Points
<1>11. CASE Day
  <2>1. /\ i \in 1 .. Cardinality(EquityDates) - 1 /\ i' = i + 1 /\ Len(history) = i - 1
        /\ prevSp500' = equity(tradingDates[i + 1]) /\ prevUnrate' = Daily("UNRATE", i + 1)
        /\ maps' = maps
    BY <1>11, DayPoint DEF Day
  <2>2. PICK p \in Point : history' = Append(history, p) /\ PointFrom(p, i)
    BY <1>11, DayPoint
  <2>3. Len(history') = i /\ history'[i] = p /\ \A n \in 1 .. i - 1 : history'[n] = history[n]
    BY <1>2, <2>1, <2>2
  <2>4. \A n \in 1 .. i : PointFrom(history'[n], n)
    <3> TAKE n \in 1 .. i
    <3>1. CASE n = i
      BY <2>2, <2>3, <3>1
    <3>2. CASE n \in 1 .. i - 1
      BY <1>1, <2>1, <2>3, <3>2 DEF PointsInv, Points
    <3>3. n = i \/ n \in 1 .. i - 1
      BY <1>2
    <3> QED
      BY <3>1, <3>2, <3>3, Zenon
  <2>5. \A n \in Points' : PointFrom(history[n], n)'
    <3> SUFFICES ASSUME NEW n \in 1 .. i PROVE PointFrom(history[n], n)'
      BY <2>3 DEF Points
    <3>1. PointFrom(history'[n], n)
      BY <2>4
    <3> QED
      BY <1>3, <2>1, <3>1 DEF PointFrom, equity, YieldOn, vixLevel
  <2> QED
    BY <1>3, <2>1, <2>5 DEF PointsInv
<1>12. CASE ChooseOrigin
  BY <1>4, <1>12 DEF ChooseOrigin, days
<1> QED
  BY <1>6, <1>7, <1>8, <1>9, <1>10, <1>11, <1>12 DEF Next

LEMMA OneLonger ==
  ASSUME NEW V, NEW column \in Seq(V), NEW v \in V,
         NEW m \in Nat, m = Len(column), NEW f \in [1 .. m + 1 -> V],
         f[m + 1] = v, \A n \in 1 .. m : f[n] = column[n]
  PROVE  f = Append(column, v)
<1>1. PICK a : a = Append(column, v)
  OBVIOUS
<1>2. a \in Seq(V) /\ Len(a) = m + 1 /\ a[m + 1] = v /\ \A n \in 1 .. m : a[n] = column[n]
  BY <1>1
<1>3. a \in [1 .. m + 1 -> V]
  BY <1>2
<1>4. \A n \in 1 .. m + 1 : f[n] = a[n]
  <2> TAKE n \in 1 .. m + 1
  <2>1. n \in 1 .. m \/ n = m + 1
    OBVIOUS
  <2> QED
    BY <1>2, <2>1
<1>5. f = a
  BY <1>3, <1>4
<1> QED
  BY <1>1, <1>5

LEMMA WindowsStep ==
  ASSUME HistoryInv, Next
  PROVE  WindowsInv'
<1>1. ShapeInv /\ WindowsInv
  BY DEF HistoryInv
<1>2. ASSUME UNCHANGED <<history, windows>>
      PROVE  WindowsInv'
  BY <1>1, <1>2 DEF WindowsInv, windows, Points, VixColumn, SentimentColumn, ChangeColumn
<1>3. CASE Day
  <2>1. PICK p \in Point :
          /\ history' = Append(history, p)
          /\ recentVix' = Push(recentVix, p.vix)
          /\ recentUnrateChange' = Push(recentUnrateChange, <<p.unrateFrom, p.unrate>>)
          /\ recentSentiment' = Push(recentSentiment, p.sentiment)
          /\ p.growth = ScoredOver(recentSentiment')
          /\ p.volatility = ScoredOver(recentVix')
    BY <1>3, DayPoint
  <2>2. /\ p.vix \in Observation /\ p.sentiment \in Observation
        /\ <<p.unrateFrom, p.unrate>> \in Observation \X Observation
    BY DEF Point
  <2>3. PICK m : m = Len(history)
    OBVIOUS
  <2>4. /\ m \in Nat /\ Len(history') = m + 1 /\ history'[m + 1] = p
        /\ \A n \in 1 .. m : history'[n] = history[n]
    BY <1>1, <2>1, <2>3 DEF ShapeInv
  <2>5. /\ VixColumn \in Seq(Observation) /\ Len(VixColumn) = m
        /\ SentimentColumn \in Seq(Observation) /\ Len(SentimentColumn) = m
        /\ ChangeColumn \in Seq(Observation \X Observation) /\ Len(ChangeColumn) = m
    BY <1>1, <2>3, Columns
  <2>6. /\ \A n \in 1 .. m : VixColumn[n] = history[n].vix
        /\ \A n \in 1 .. m : SentimentColumn[n] = history[n].sentiment
        /\ \A n \in 1 .. m : ChangeColumn[n] = <<history[n].unrateFrom, history[n].unrate>>
    BY <2>3 DEF VixColumn, SentimentColumn, ChangeColumn, Points
  <2>7. /\ VixColumn' = [n \in 1 .. m + 1 |-> history'[n].vix]
        /\ SentimentColumn' = [n \in 1 .. m + 1 |-> history'[n].sentiment]
        /\ ChangeColumn' = [n \in 1 .. m + 1 |-> <<history'[n].unrateFrom, history'[n].unrate>>]
    BY <2>4 DEF VixColumn, SentimentColumn, ChangeColumn, Points
  <2>9. VixColumn' = Append(VixColumn, p.vix)
    <3>1. PICK f : f = VixColumn'
      OBVIOUS
    <3>2. \A n \in 1 .. m + 1 : f[n] = history'[n].vix
      BY <2>7, <3>1
    <3>3. f[m + 1] = p.vix
      BY <2>4, <2>7, <3>1
    <3>4. \A n \in 1 .. m : f[n] = VixColumn[n]
      <4> TAKE n \in 1 .. m
      <4>1. history'[n] = history[n] /\ n \in 1 .. m + 1
        BY <2>4
      <4> QED
        BY <2>6, <3>2, <4>1
    <3>5. f \in [1 .. m + 1 -> Observation]
      <4>1. \A n \in 1 .. m + 1 : f[n] \in Observation
        <5> TAKE n \in 1 .. m + 1
        <5>1. n \in 1 .. m \/ n = m + 1
          BY <2>4
        <5>2. \A k \in 1 .. m : VixColumn[k] \in Observation
          BY <2>5
        <5> QED
          BY <2>2, <3>3, <3>4, <5>1, <5>2
      <4> QED
        BY <2>7, <3>1, <4>1
    <3> QED
      BY <2>2, <2>4, <2>5, <3>1, <3>3, <3>4, <3>5, OneLonger
  <2>10. SentimentColumn' = Append(SentimentColumn, p.sentiment)
    <3>1. PICK f : f = SentimentColumn'
      OBVIOUS
    <3>2. \A n \in 1 .. m + 1 : f[n] = history'[n].sentiment
      BY <2>7, <3>1
    <3>3. f[m + 1] = p.sentiment
      BY <2>4, <2>7, <3>1
    <3>4. \A n \in 1 .. m : f[n] = SentimentColumn[n]
      <4> TAKE n \in 1 .. m
      <4>1. history'[n] = history[n] /\ n \in 1 .. m + 1
        BY <2>4
      <4> QED
        BY <2>6, <3>2, <4>1
    <3>5. f \in [1 .. m + 1 -> Observation]
      <4>1. \A n \in 1 .. m + 1 : f[n] \in Observation
        <5> TAKE n \in 1 .. m + 1
        <5>1. n \in 1 .. m \/ n = m + 1
          BY <2>4
        <5>2. \A k \in 1 .. m : SentimentColumn[k] \in Observation
          BY <2>5
        <5> QED
          BY <2>2, <3>3, <3>4, <5>1, <5>2
      <4> QED
        BY <2>7, <3>1, <4>1
    <3> QED
      BY <2>2, <2>4, <2>5, <3>1, <3>3, <3>4, <3>5, OneLonger
  <2>11. ChangeColumn' = Append(ChangeColumn, <<p.unrateFrom, p.unrate>>)
    <3>1. PICK f : f = ChangeColumn'
      OBVIOUS
    <3>2. \A n \in 1 .. m + 1 : f[n] = <<history'[n].unrateFrom, history'[n].unrate>>
      BY <2>7, <3>1
    <3>3. f[m + 1] = <<p.unrateFrom, p.unrate>>
      BY <2>4, <2>7, <3>1
    <3>4. \A n \in 1 .. m : f[n] = ChangeColumn[n]
      <4> TAKE n \in 1 .. m
      <4>1. history'[n] = history[n] /\ n \in 1 .. m + 1
        BY <2>4
      <4> QED
        BY <2>6, <3>2, <4>1
    <3>5. f \in [1 .. m + 1 -> (Observation \X Observation)]
      <4>1. \A n \in 1 .. m + 1 : f[n] \in (Observation \X Observation)
        <5> TAKE n \in 1 .. m + 1
        <5>1. n \in 1 .. m \/ n = m + 1
          BY <2>4
        <5>2. \A k \in 1 .. m : ChangeColumn[k] \in (Observation \X Observation)
          BY <2>5
        <5> QED
          BY <2>2, <3>3, <3>4, <5>1, <5>2
      <4> QED
        BY <2>7, <3>1, <4>1
    <3> QED
      BY <2>2, <2>4, <2>5, <3>1, <3>3, <3>4, <3>5, OneLonger
  <2>12. /\ recentVix' = Newest(VixColumn', m + 1)
         /\ recentSentiment' = Newest(SentimentColumn', m + 1)
         /\ recentUnrateChange' = Newest(ChangeColumn', m + 1)
    <3>1. /\ recentVix = Newest(VixColumn, m) /\ recentSentiment = Newest(SentimentColumn, m)
          /\ recentUnrateChange = Newest(ChangeColumn, m)
      BY <1>1, <2>3 DEF WindowsInv
    <3>2. recentVix' = Newest(VixColumn', m + 1)
      BY <2>1, <2>2, <2>5, <2>9, <3>1, NewestGrows
    <3>3. recentSentiment' = Newest(SentimentColumn', m + 1)
      BY <2>1, <2>2, <2>5, <2>10, <3>1, NewestGrows
    <3>4. recentUnrateChange' = Newest(ChangeColumn', m + 1)
      BY <2>1, <2>2, <2>5, <2>11, <3>1, NewestGrows
    <3> QED
      BY <3>2, <3>3, <3>4
  <2>13. \A n \in 1 .. m :
           Newest(VixColumn', n) = Newest(VixColumn, n) /\ Newest(SentimentColumn', n) = Newest(SentimentColumn, n)
    BY <2>2, <2>5, <2>9, <2>10, NewestGrows
  <2>14. /\ Len(recentVix') = Size(m + 1) /\ Len(recentSentiment') = Size(m + 1)
    <3>1. /\ VixColumn' \in Seq(Observation) /\ Len(VixColumn') = m + 1
          /\ SentimentColumn' \in Seq(Observation) /\ Len(SentimentColumn') = m + 1
      BY <2>2, <2>5, <2>9, <2>10
    <3>2. m + 1 \in 0 .. Len(VixColumn') /\ m + 1 \in 0 .. Len(SentimentColumn')
      BY <2>4, <3>1
    <3>3. Len(Newest(VixColumn', m + 1)) = Size(m + 1)
      BY <3>1, <3>2, NewestType
    <3>4. Len(Newest(SentimentColumn', m + 1)) = Size(m + 1)
      BY <3>1, <3>2, NewestType
    <3> QED
      BY <2>12, <3>3, <3>4
  <2>15. ASSUME NEW n \in 1 .. m + 1
         PROVE  /\ history'[n].growth = IF Size(n) >= MinWindow THEN Newest(SentimentColumn', n) ELSE << >>
                /\ history'[n].volatility = IF Size(n) >= MinWindow THEN Newest(VixColumn', n) ELSE << >>
    <3>1. CASE n \in 1 .. m
      <4>1. /\ history[n].growth = IF Size(n) >= MinWindow THEN Newest(SentimentColumn, n) ELSE << >>
            /\ history[n].volatility = IF Size(n) >= MinWindow THEN Newest(VixColumn, n) ELSE << >>
        BY <1>1, <2>3, <3>1 DEF WindowsInv, Points
      <4>2. history'[n] = history[n]
        BY <2>4, <3>1
      <4> QED
        BY <2>13, <3>1, <4>1, <4>2
    <3>2. CASE n = m + 1
      BY <2>1, <2>4, <2>12, <2>14, <3>2 DEF ScoredOver
    <3>3. n \in 1 .. m \/ n = m + 1
      BY <2>4
    <3> QED
      BY <3>1, <3>2, <3>3, Zenon
  <2> QED
    BY <2>4, <2>12, <2>15 DEF WindowsInv, Points
<1>4. CASE Start
  BY <1>2, <1>4 DEF Start, days
<1>5. CASE FetchSeries
  BY <1>2, <1>5 DEF FetchSeries, days
<1>6. CASE BuildDates
  BY <1>2, <1>6 DEF BuildDates, days
<1>7. CASE FillDay
  BY <1>2, <1>7 DEF FillDay
<1>8. CASE FirstDay
  BY <1>2, <1>8 DEF FirstDay
<1>9. CASE ChooseOrigin
  BY <1>2, <1>9 DEF ChooseOrigin, days
<1> QED
  BY <1>3, <1>4, <1>5, <1>6, <1>7, <1>8, <1>9 DEF Next

LEMMA HistoryInit == Init => HistoryInv
<1> SUFFICES ASSUME Init PROVE HistoryInv
  OBVIOUS
<1> USE DEF Init
<1>1. NoValue \in Observation
  BY DEF Observation
<1>2. ShapeInv
  BY <1>1, FetchCount DEF ShapeInv
<1>3. StageInv
  BY DEF StageInv
<1>4. FillInv
  BY DEF FillInv
<1>5. PointsInv
  BY DEF PointsInv, Points
<1>6. WindowsInv
  <2>1. Len(history) = 0 /\ Size(0) = 0
    BY HistoryAssumption DEF Size
  <2>2. \A column : Newest(column, 0) = << >>
    BY <2>1 DEF Newest
  <2> QED
    BY <2>1, <2>2 DEF WindowsInv, Points
<1> QED
  BY <1>2, <1>3, <1>4, <1>5, <1>6 DEF HistoryInv

LEMMA HistoryStutter ==
  ASSUME HistoryInv, UNCHANGED vars
  PROVE  HistoryInv'
<1>1. /\ UNCHANGED <<stage, origin, fetched, maps, filled, lastUnrate, lastSentiment, unrateDaily>>
      /\ UNCHANGED <<sentimentDaily, i, prevSp500, prevUnrate, recentVix, recentUnrateChange>>
      /\ UNCHANGED <<recentSentiment, history>>
  BY DEF vars, fills, lasts, days, windows
<1>2. /\ EquityDates' = EquityDates /\ tradingDates' = tradingDates
      /\ \A d : equity(d)' = equity(d)
      /\ \A s : First(s)' = First(s)
      /\ \A s, k : Daily(s, k)' = Daily(s, k)
      /\ \A p, k : PointFrom(p, k)' <=> PointFrom(p, k)
  BY <1>1, Joined
<1>3. ShapeInv'
  BY <1>1 DEF HistoryInv, ShapeInv
<1>4. StageInv'
  BY <1>1, <1>2 DEF HistoryInv, StageInv
<1>5. FillInv'
  BY <1>1, <1>2 DEF HistoryInv, FillInv
<1>6. PointsInv'
  BY <1>1, <1>2 DEF HistoryInv, PointsInv, Points
<1>7. WindowsInv'
  BY <1>1 DEF HistoryInv, WindowsInv, Points, VixColumn, SentimentColumn, ChangeColumn
<1> QED
  BY <1>3, <1>4, <1>5, <1>6, <1>7 DEF HistoryInv

\* The inductive invariant.
LEMMA HistoryInvariance == Spec => []HistoryInv
<1>1. HistoryInv /\ [Next]_vars => HistoryInv'
  <2> SUFFICES ASSUME HistoryInv, [Next]_vars PROVE HistoryInv'
    OBVIOUS
  <2>1. CASE Next
    BY <2>1, ShapeStep, StageStep, FillStep, PointsStep, WindowsStep DEF HistoryInv
  <2>2. CASE UNCHANGED vars
    BY <2>2, HistoryStutter
  <2> QED
    BY <2>1, <2>2
<1> QED
  BY <1>1, HistoryInit, PTL DEF Spec

-----------------------------------------------------------------------------
(* What the invariant says of the history. *)

\* A point is made from two trading days, one after the other.
LEMMA PointDays ==
  ASSUME HistoryInv, NEW n \in Points
  PROVE  /\ n \in Nat /\ n \in 1 .. Cardinality(EquityDates) /\ n + 1 \in 1 .. Cardinality(EquityDates)
         /\ Cardinality(EquityDates) \in Nat
         /\ tradingDates[n] \in Dates /\ tradingDates[n + 1] \in Dates
         /\ tradingDates[n] < tradingDates[n + 1]
         /\ PointFrom(history[n], n)
<1>1. /\ maps \in [SeriesId -> SUBSET Dates] /\ i \in Nat
      /\ Len(history) = (IF i = 0 THEN 0 ELSE i - 1)
  BY DEF HistoryInv, ShapeInv, StageInv
<1>2. Cardinality(EquityDates) \in Nat
  BY <1>1, TradingDays
<1>3. i <= Cardinality(EquityDates)
  BY <1>1, <1>2 DEF HistoryInv, StageInv, ShapeInv
<1>4. n \in Nat /\ n \in 1 .. Cardinality(EquityDates) /\ n + 1 \in 1 .. Cardinality(EquityDates)
  BY <1>1, <1>2, <1>3 DEF Points
<1>5. tradingDates[n] < tradingDates[n + 1]
  <2>1. n < n + 1
    BY <1>4
  <2> QED
    BY <1>1, <1>4, <2>1, TradingDays
<1>6. tradingDates[n] \in Dates /\ tradingDates[n + 1] \in Dates
  BY <1>1, <1>4, TradingDays
<1>7. PointFrom(history[n], n)
  BY DEF HistoryInv, PointsInv
<1> QED
  BY <1>2, <1>4, <1>5, <1>6, <1>7

\* What the fill gives a trading day: the newest observation up to it, or the
\* first of the series, or the default of an empty series.
LEMMA DailyFacts ==
  ASSUME ShapeInv, NEW s \in {"UNRATE", "UMCSENT"}, NEW k \in 1 .. Cardinality(EquityDates)
  PROVE  /\ tradingDates[k] \in Nat /\ Daily(s, k) \in Nat /\ maps[s] \subseteq Nat
         /\ \/ /\ maps[s] = {}
               /\ Daily(s, k) = NoValue
            \/ /\ maps[s] # {} /\ \A e \in maps[s] : tradingDates[k] < e
               /\ Daily(s, k) = Min(maps[s]) /\ Daily(s, k) \in maps[s]
               /\ \A e \in maps[s] : Daily(s, k) <= e
            \/ /\ Daily(s, k) \in maps[s] /\ Daily(s, k) <= tradingDates[k]
               /\ \A e \in maps[s] : e <= tradingDates[k] => e <= Daily(s, k)
<1>1. maps \in [SeriesId -> SUBSET Dates] /\ s \in SeriesId
  BY SeriesNames DEF ShapeInv
<1>2. maps[s] \in SUBSET Dates /\ Dates \subseteq Nat /\ Observation \subseteq Nat
  BY <1>1, HistoryAssumption DEF Dates, Observation, NoValue
<1>3. tradingDates[k] \in Dates /\ Daily(s, k) \in Observation
  BY JoinTypes
<1>4. tradingDates[k] \in Int
  <2>1. tradingDates[k] \in Nat
    BY <1>2, <1>3
  <2> QED
    BY <2>1
<1>5. /\ First(s) \in Observation
      /\ maps[s] = {} => First(s) = NoValue
      /\ maps[s] # {} =>
           /\ First(s) \in maps[s] /\ First(s) = Min(maps[s])
           /\ \A e \in maps[s] : First(s) <= e
  BY <1>1, FirstFacts
<1>6. \/ /\ \A e \in maps[s] : tradingDates[k] < e
         /\ Daily(s, k) = First(s)
      \/ /\ Daily(s, k) \in maps[s] /\ Daily(s, k) <= tradingDates[k]
         /\ \A e \in maps[s] : e <= tradingDates[k] => e <= Daily(s, k)
  BY <1>2, <1>4, <1>5, LatestFacts DEF Daily
<1>7. tradingDates[k] \in Nat /\ Daily(s, k) \in Nat /\ maps[s] \subseteq Nat
  BY <1>2, <1>3
<1> QED
  BY <1>5, <1>6, <1>7

\* The VIX of a trading day: the newest up to it, or the default.
LEMMA VixFacts ==
  ASSUME ShapeInv, NEW k \in 1 .. Cardinality(EquityDates)
  PROVE  /\ vixLevel(tradingDates[k]) \in Nat /\ vixLevel(tradingDates[k]) <= tradingDates[k]
         /\ \A e \in maps["VIXCLS"] : e <= vixLevel(tradingDates[k]) \/ e > tradingDates[k]
<1>1. maps["VIXCLS"] \in SUBSET Dates /\ Dates \subseteq Nat /\ Observation \subseteq Nat
  BY SeriesNames, HistoryAssumption DEF ShapeInv, Dates, Observation, NoValue
<1>2. tradingDates[k] \in Nat
  BY <1>1, JoinTypes
<1>3. tradingDates[k] \in Int /\ NoValue \in Observation
  BY <1>2 DEF Observation
<1>4. /\ vixLevel(tradingDates[k]) \in Observation
      /\ \/ /\ \A e \in maps["VIXCLS"] : tradingDates[k] < e
            /\ vixLevel(tradingDates[k]) = NoValue
         \/ /\ vixLevel(tradingDates[k]) \in maps["VIXCLS"]
            /\ vixLevel(tradingDates[k]) <= tradingDates[k]
            /\ \A e \in maps["VIXCLS"] : e <= tradingDates[k] => e <= vixLevel(tradingDates[k])
  BY <1>1, <1>3, LatestFacts DEF vixLevel
<1>5. vixLevel(tradingDates[k]) \in Nat
  BY <1>1, <1>4
<1>6. \A e \in maps["VIXCLS"] : e \in Nat
  BY <1>1
<1> QED
  BY <1>2, <1>4, <1>5, <1>6 DEF NoValue

-----------------------------------------------------------------------------
(* The theorems. *)

\* The locals of fetchHistoricalData and its result have their types: nothing
\* indexes past the trading days, and the windows never exceed their bound.
THEOREM HistoryTypeCorrect == Spec => []TypeOK
<1>1. HistoryInv => TypeOK
  <2> SUFFICES ASSUME HistoryInv PROVE TypeOK
    OBVIOUS
  <2>1. ShapeInv /\ StageInv /\ WindowsInv
    BY DEF HistoryInv
  <2>2. /\ Cardinality(EquityDates) \in Nat /\ Cardinality(EquityDates) <= MaxDate
        /\ MaxDate \in Nat /\ filled \in Nat /\ i \in Nat
    BY <2>1, TradingDays, HistoryAssumption DEF ShapeInv
  <2>3. filled <= Cardinality(EquityDates) /\ i <= Cardinality(EquityDates)
    <3>1. stage \in {"start", "fetch", "fill", "days", "done"}
      BY <2>1 DEF ShapeInv
    <3> QED
      BY <2>1, <2>2, <3>1 DEF StageInv
  <2>4. filled \in 0 .. MaxDate /\ i \in 0 .. MaxDate
    BY <2>2, <2>3
  <2>5. Len(recentVix) <= RollingWindow /\ Len(recentSentiment) <= RollingWindow
    <3>1. PICK m \in Nat : m = Len(history)
      BY <2>1 DEF ShapeInv
    <3>2. /\ VixColumn \in Seq(Observation) /\ Len(VixColumn) = m
          /\ SentimentColumn \in Seq(Observation) /\ Len(SentimentColumn) = m
      BY <2>1, <3>1, Columns
    <3>3. m \in 0 .. Len(VixColumn) /\ m \in 0 .. Len(SentimentColumn)
      BY <3>2
    <3>4. Len(Newest(VixColumn, m)) = Size(m)
      BY <3>2, <3>3, NewestType
    <3>5. Len(Newest(SentimentColumn, m)) = Size(m)
      BY <3>2, <3>3, NewestType
    <3>6. Size(m) <= RollingWindow
      BY SizeFacts
    <3> QED
      BY <2>1, <3>1, <3>4, <3>5, <3>6 DEF WindowsInv
  <2> QED
    BY <2>1, <2>4, <2>5 DEF TypeOK, ShapeInv
<1> QED
  BY <1>1, HistoryInvariance, PTL

\* Whatever the series hold, a point uses no observation of a later day, but for
\* the first value of a monthly series on the days before it.
THEOREM NothingFromTheFuture == Spec => []NoLookAhead
<1>1. HistoryInv => NoLookAhead
  <2> SUFFICES ASSUME HistoryInv, NEW n \in Points,
                      NEW p, p = history[n]
               PROVE  /\ \A d \in DatesOf(p) : d <= p.date
                      /\ p.unrate <= p.date \/ p.unrate = Min(maps["UNRATE"])
                      /\ p.unrateFrom <= p.date \/ p.unrateFrom = Min(maps["UNRATE"])
                      /\ p.sentiment <= p.date \/ p.sentiment = Min(maps["UMCSENT"])
                      /\ \A e \in Range(p.volatility) : e <= p.date
    BY DEF NoLookAhead
  <2>1. ShapeInv
    BY DEF HistoryInv
  <2>2. /\ n \in Nat /\ n \in 1 .. Cardinality(EquityDates) /\ n + 1 \in 1 .. Cardinality(EquityDates)
        /\ tradingDates[n] < tradingDates[n + 1] /\ PointFrom(p, n)
    BY PointDays
  <2>3. tradingDates[n] \in Nat /\ tradingDates[n + 1] \in Nat /\ p.date = tradingDates[n + 1]
    <3>1. \A k \in 1 .. Cardinality(EquityDates) : tradingDates[k] \in Nat
      BY <2>1, DailyFacts
    <3> QED
      BY <2>2, <3>1 DEF PointFrom
  <2>4. \A d \in DatesOf(p) : d <= p.date
    <3>1. p.equityTo[2] = tradingDates[n + 1] /\ p.equityFrom[2] = tradingDates[n]
      BY <2>2 DEF PointFrom, equity
    <3>2. p.dgs10 <= p.date /\ p.dgs2 <= p.date
      BY <2>2, <2>3 DEF PointFrom, YieldOn, NoValue
    <3>3. p.vix <= p.date
      BY <2>1, <2>2, VixFacts DEF PointFrom
    <3> QED
      BY <2>2, <2>3, <3>1, <3>2, <3>3 DEF DatesOf
  <2>5. p.unrate <= p.date \/ p.unrate = Min(maps["UNRATE"])
    <3>1. p.unrate = Daily("UNRATE", n + 1)
      BY <2>2 DEF PointFrom
    <3>2. \/ Daily("UNRATE", n + 1) = NoValue \/ Daily("UNRATE", n + 1) = Min(maps["UNRATE"])
          \/ Daily("UNRATE", n + 1) <= tradingDates[n + 1]
      BY <2>1, <2>2, DailyFacts
    <3> QED
      BY <2>3, <3>1, <3>2 DEF NoValue
  <2>6. p.unrateFrom <= p.date \/ p.unrateFrom = Min(maps["UNRATE"])
    <3>1. p.unrateFrom = Daily("UNRATE", n)
      BY <2>2 DEF PointFrom
    <3>2. /\ Daily("UNRATE", n) \in Nat
          /\ \/ Daily("UNRATE", n) = NoValue \/ Daily("UNRATE", n) = Min(maps["UNRATE"])
             \/ Daily("UNRATE", n) <= tradingDates[n]
      BY <2>1, <2>2, DailyFacts
    <3> QED
      BY <2>2, <2>3, <3>1, <3>2 DEF NoValue
  <2>7. p.sentiment <= p.date \/ p.sentiment = Min(maps["UMCSENT"])
    <3>1. p.sentiment = Daily("UMCSENT", n + 1)
      BY <2>2 DEF PointFrom
    <3>2. \/ Daily("UMCSENT", n + 1) = NoValue \/ Daily("UMCSENT", n + 1) = Min(maps["UMCSENT"])
          \/ Daily("UMCSENT", n + 1) <= tradingDates[n + 1]
      BY <2>1, <2>2, DailyFacts
    <3> QED
      BY <2>3, <3>1, <3>2 DEF NoValue
  <2>8. \A e \in Range(p.volatility) : e <= p.date
    <3>1. p.volatility = IF Size(n) >= MinWindow THEN Newest(VixColumn, n) ELSE << >>
      BY DEF HistoryInv, WindowsInv
    <3>2. n \in Nat /\ Size(n) \in Nat /\ Size(n) <= n
      BY <2>2, SizeFacts
    <3> SUFFICES ASSUME NEW k \in 1 .. Size(n) PROVE Newest(VixColumn, n)[k] <= p.date
      BY <3>1 DEF Range, Newest
    <3>3. PICK m : m = n - Size(n) + k
      OBVIOUS
    <3>4. m \in 1 .. n
      BY <3>2, <3>3
    <3>5. Newest(VixColumn, n)[k] = VixColumn[m]
      BY <3>3 DEF Newest
    <3>6. m \in Points
      BY <2>2, <3>4, <2>1 DEF Points, ShapeInv
    <3>7. VixColumn[m] = history[m].vix
      BY <3>6 DEF VixColumn
    <3>8. /\ m \in 1 .. Cardinality(EquityDates) /\ m + 1 \in 1 .. Cardinality(EquityDates)
          /\ PointFrom(history[m], m)
      BY <3>6, PointDays
    <3>9. /\ history[m].vix \in Nat /\ history[m].vix <= tradingDates[m + 1]
          /\ tradingDates[m + 1] \in Nat
      BY <2>1, <3>8, VixFacts, DailyFacts DEF PointFrom
    <3>10. tradingDates[m + 1] <= tradingDates[n + 1]
      <4>1. CASE m = n
        BY <2>3, <4>1
      <4>2. CASE m < n
        <5>1. m + 1 < n + 1
          BY <2>2, <3>4, <4>2
        <5>2. tradingDates[m + 1] < tradingDates[n + 1]
          BY <2>1, <2>2, <3>8, <5>1, TradingDays DEF ShapeInv
        <5> QED
          BY <2>3, <3>9, <5>2
      <4> QED
        BY <2>2, <3>4, <4>1, <4>2
    <3> QED
      BY <2>3, <3>5, <3>7, <3>9, <3>10
  <2> QED
    BY <2>4, <2>5, <2>6, <2>7, <2>8
<1> QED
  BY <1>1, HistoryInvariance, PTL

\* Although the fill carries its value from day to day, what a point uses is the
\* newest observation there was.
THEOREM NewestObservationUsed == Spec => []FilledFromNewest
<1>1. HistoryInv => FilledFromNewest
  <2> SUFFICES ASSUME HistoryInv, NEW n \in Points
               PROVE  /\ \A e \in maps["VIXCLS"] : e <= history[n].vix \/ e > history[n].date
                      /\ \A e \in maps["UNRATE"] : e <= history[n].unrate \/ e > history[n].date
                      /\ \A e \in maps["UMCSENT"] : e <= history[n].sentiment \/ e > history[n].date
    BY DEF FilledFromNewest
  <2>1. ShapeInv
    BY DEF HistoryInv
  <2>2. n + 1 \in 1 .. Cardinality(EquityDates) /\ PointFrom(history[n], n)
    BY PointDays
  <2>3. \A e \in maps["VIXCLS"] : e <= history[n].vix \/ e > history[n].date
    BY <2>1, <2>2, VixFacts DEF PointFrom
  <2>4. ASSUME NEW s \in {"UNRATE", "UMCSENT"}, NEW e \in maps[s]
        PROVE  e <= Daily(s, n + 1) \/ e > tradingDates[n + 1]
    <3>1. /\ tradingDates[n + 1] \in Nat /\ e \in Nat
          /\ \/ maps[s] = {}
             \/ \A f \in maps[s] : tradingDates[n + 1] < f
             \/ \A f \in maps[s] : f <= tradingDates[n + 1] => f <= Daily(s, n + 1)
      BY <2>1, <2>2, <2>4, DailyFacts
    <3> QED
      BY <2>4, <3>1
  <2> QED
    BY <2>2, <2>3, <2>4 DEF PointFrom
<1> QED
  BY <1>1, HistoryInvariance, PTL

\* The returns chain: the points are the trading days but the first, in order,
\* each starting from the price the one before ended with.
THEOREM HistoryIsAChain == Spec => []ReturnsChain
<1>1. HistoryInv => ReturnsChain
  <2> SUFFICES ASSUME HistoryInv PROVE ReturnsChain
    OBVIOUS
  <2>1. \A n \in Points : PointFrom(history[n], n)
    BY DEF HistoryInv, PointsInv
  <2>2. stage = "done" /\ history # << >> => Len(history) = Cardinality(EquityDates) - 1
    <3>1. history \in Seq(Point)
      BY DEF HistoryInv, ShapeInv
    <3>2. history # << >> => Len(history) # 0
      BY <3>1
    <3> QED
      BY <3>2 DEF HistoryInv, StageInv
  <2> QED
    BY <2>1, <2>2 DEF ReturnsChain, PointFrom
<1> QED
  BY <1>1, HistoryInvariance, PTL

\* The windows are aligned, and every z-score is over the days up to its own.
THEOREM WindowsStayAligned == Spec => []WindowsAligned
<1>1. HistoryInv => WindowsAligned
  BY DEF HistoryInv, WindowsInv, WindowsAligned, Newest, Size, VixColumn, SentimentColumn, ChangeColumn
<1> QED
  BY <1>1, HistoryInvariance, PTL

\* The two indices alone decide whether the backtest runs on synthetic data.
THEOREM EquityDecides == Spec => []EquityAloneDecides
<1>1. HistoryInv => EquityAloneDecides
  BY DEF HistoryInv, StageInv, EquityAloneDecides, EquityDates
<1> QED
  BY <1>1, HistoryInvariance, PTL

\* A change of the unemployment rate is seen on one day alone, the first trading
\* day on or after the observation, unless the observation is the first.
THEOREM EveryChangeSeenOnce == Spec => []ChangeSeenOnce
<1>1. HistoryInv => ChangeSeenOnce
  <2> SUFFICES ASSUME HistoryInv, NEW n \in Points
               PROVE  history[n].unrate # history[n].unrateFrom <=>
                        \E e, before \in maps["UNRATE"] :
                          tradingDates[n] < e /\ e <= history[n].date /\ before < e
    BY DEF ChangeSeenOnce
  <2>1. ShapeInv
    BY DEF HistoryInv
  <2>2. /\ n \in 1 .. Cardinality(EquityDates) /\ n + 1 \in 1 .. Cardinality(EquityDates)
        /\ tradingDates[n] < tradingDates[n + 1] /\ PointFrom(history[n], n)
    BY PointDays
  <2>3. PICK M, t, u, old, new : /\ M = maps["UNRATE"] /\ t = tradingDates[n] /\ u = tradingDates[n + 1]
                                 /\ old = Daily("UNRATE", n) /\ new = Daily("UNRATE", n + 1)
    OBVIOUS
  <2>4. /\ t \in Nat /\ old \in Nat /\ M \subseteq Nat
        /\ \/ M = {} /\ old = NoValue
           \/ /\ M # {} /\ \A e \in M : t < e
              /\ old \in M /\ \A e \in M : old <= e
           \/ /\ old \in M /\ old <= t
              /\ \A e \in M : e <= t => e <= old
    BY <2>1, <2>2, <2>3, DailyFacts
  <2>5. /\ u \in Nat /\ new \in Nat
        /\ \/ M = {} /\ new = NoValue
           \/ /\ M # {} /\ \A e \in M : u < e
              /\ new \in M /\ \A e \in M : new <= e
           \/ /\ new \in M /\ new <= u
              /\ \A e \in M : e <= u => e <= new
    BY <2>1, <2>2, <2>3, DailyFacts
  <2>6. t < u
    BY <2>2, <2>3
  <2>7. new # old => \E e, before \in M : t < e /\ e <= u /\ before < e
    <3> SUFFICES ASSUME new # old PROVE \E e, before \in M : t < e /\ e <= u /\ before < e
      OBVIOUS
    <3>1. M # {}
      BY <2>4, <2>5
    <3>2. old \in M /\ new \in M /\ new <= u /\ \A e \in M : e <= u => e <= new
      BY <2>4, <2>5, <2>6, <3>1
    <3>3. old <= new
      BY <2>4, <2>5, <2>6, <3>2
    <3>4. old < new /\ t < new
      BY <2>4, <2>5, <3>2, <3>3
    <3> QED
      BY <3>2, <3>4
  <2>8. ASSUME NEW e \in M, NEW before \in M, t < e, e <= u, before < e
        PROVE  new # old
    <3>1. M # {} /\ e \in Nat /\ before \in Nat
      BY <2>4
    <3>2. new \in M /\ e <= new
      BY <2>5, <2>8, <3>1
    <3>3. \/ old <= t
          \/ old <= before
      BY <2>4, <3>1
    <3> QED
      BY <2>4, <2>5, <2>8, <3>1, <3>2, <3>3
  <2>9. history[n].unrate = new /\ history[n].unrateFrom = old /\ history[n].date = u
    BY <2>2, <2>3 DEF PointFrom
  <2> QED
    BY <2>3, <2>7, <2>8, <2>9
<1> QED
  BY <1>1, HistoryInvariance, PTL
=============================================================================
