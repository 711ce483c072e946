---------------------------- MODULE PipelineProofs ----------------------------
(***************************************************************************)
(* Proofs about Pipeline: which rows a run of the covariance mode gets,    *)
(* how far it gets with them and which signal it ends in, for any days,    *)
(* objects, gaps and lengths of the VIX.                                   *)
(***************************************************************************)
EXTENDS Pipeline, SetFacts

USE AlignmentAssumption DEF AlignmentAssumption

(* Series. *)

\* A function on an initial segment is a sequence of that length.
LEMMA FunctionIsSeq ==
  ASSUME NEW n \in Nat, NEW S, NEW f \in [1 .. n -> S]
  PROVE  f \in Seq(S) /\ Len(f) = n
  OBVIOUS

\* FirstOf keeps a series that is short enough and cuts one that is not.
LEMMA FirstOfShort ==
  ASSUME NEW S, NEW series \in Seq(S), NEW n \in Nat, Len(series) <= n
  PROVE  /\ FirstOf(series, n) \in Seq(S) /\ Len(FirstOf(series, n)) = Len(series)
         /\ \A k \in 1 .. Len(series) : FirstOf(series, n)[k] = series[k]
  BY DEF FirstOf

LEMMA FirstOfLong ==
  ASSUME NEW S, NEW series \in Seq(S), NEW n \in Nat, n <= Len(series)
  PROVE  /\ FirstOf(series, n) \in Seq(S) /\ Len(FirstOf(series, n)) = n
         /\ \A k \in 1 .. n : FirstOf(series, n)[k] = series[k]
  BY DEF FirstOf

\* A source without gaps: as many values, each as old as it has to be.
LEMMA Periods ==
  ASSUME NEW n \in Nat, NEW period \in Nat
  PROVE  /\ EveryPeriod(n, period) \in Seq(Nat) /\ Len(EveryPeriod(n, period)) = n
         /\ \A k \in 1 .. n : EveryPeriod(n, period)[k] = (k - 1) * period
<1>1. \A k \in 1 .. n : EveryPeriod(n, period)[k] = (k - 1) * period
  BY DEF EveryPeriod
<1>2. ASSUME NEW k \in 1 .. n PROVE (k - 1) * period \in Nat
  <2>1. k - 1 \in Nat
    OBVIOUS
  <2> QED BY <2>1
<1>3. EveryPeriod(n, period) \in [1 .. n -> Nat]
  BY <1>2 DEF EveryPeriod
<1>4. EveryPeriod(n, period) \in Seq(Nat) /\ Len(EveryPeriod(n, period)) = n
  BY <1>3, FunctionIsSeq
<1> QED BY <1>1, <1>4

\* Ten values of no meaning, read past the end of an object.
Unreadable == [k \in 1 .. 10 |-> NoAge]

LEMMA UnreadableIsSeries ==
  /\ Unreadable \in Seq(Ages) /\ Len(Unreadable) = 10
  /\ \A k \in 1 .. 10 : Unreadable[k] = NoAge
<1>1. Unreadable \in [1 .. 10 -> Ages]
  BY DEF Unreadable, Ages
<1>2. Unreadable \in Seq(Ages) /\ Len(Unreadable) = 10
  BY <1>1, FunctionIsSeq
<1>3. \A k \in 1 .. 10 : Unreadable[k] = NoAge
  BY DEF Unreadable
<1> QED BY <1>2, <1>3

\* Ages of values are ages.
LEMMA SeriesOfAges ==
  ASSUME NEW series \in Seq(Nat)
  PROVE  series \in Seq(Ages)
<1>1. series \in [1 .. Len(series) -> Nat] /\ Len(series) \in Nat
  OBVIOUS
<1>2. series \in [1 .. Len(series) -> Ages]
  BY <1>1 DEF Ages
<1> QED BY <1>1, <1>2, FunctionIsSeq

\* Values have an age.
LEMMA ReadableHasAges ==
  ASSUME NEW series \in Seq(Nat)
  PROVE  NoAge \notin Range(series)
<1>1. \A k \in DOMAIN series : series[k] \in Nat
  OBVIOUS
<1> QED BY <1>1 DEF Range, NoAge

\* What is left of the twelve latest observations is a series, whatever the gaps
\* (FREDDataClient.cpp:110-137).
LEMMA LeftIsSeries ==
  ASSUME NEW missing
  PROVE  WithoutGaps(missing) \in Seq(Nat)
<1> DEFINE left == {n \in 1 .. 12 : n - 1 \notin missing}
           c    == Cardinality(left)
<1>1. left \in SUBSET (1 .. 12) /\ 12 \in Nat
  OBVIOUS
<1>2. WithoutGaps(missing) = [k \in 1 .. c |-> (Ordered(left)[k] - 1) * Month]
  BY DEF WithoutGaps, Ordered, Rank
<1> HIDE DEF left
<1>3. c \in Nat
  BY <1>1, FiniteDates
<1>4. \A k \in 1 .. c : Ordered(left)[k] \in left
  BY <1>1, OrderedDates
<1> HIDE DEF c
<1>5. PICK q : q = Ordered(left)
  OBVIOUS
<1>6. \A k \in 1 .. c : q[k] \in 1 .. 12
  BY <1>1, <1>4, <1>5
<1>7. Month \in Nat
  BY DEF Month
<1>8. PICK w : w = WithoutGaps(missing)
  OBVIOUS
<1>9. w = [k \in 1 .. c |-> (q[k] - 1) * Month]
  BY <1>2, <1>5, <1>8
<1>10. w \in Seq(Nat) /\ Len(w) = c
  <2>1. ASSUME NEW k \in 1 .. c PROVE (q[k] - 1) * Month \in Nat
    <3>1. q[k] - 1 \in Nat
      BY <1>6
    <3> QED BY <1>7, <3>1
  <2>2. w \in [1 .. c -> Nat]
    BY <1>9, <2>1
  <2> QED BY <1>3, <2>2, FunctionIsSeq
<1> QED BY <1>8, <1>10

-----------------------------------------------------------------------------
(* Rows. *)

\* A daily series of n values has a row for every month begun: the value of its
\* first day (DataAligner.cpp:32-53).
LEMMA DailyRows ==
  ASSUME NEW n \in 1 .. 30, NEW raw, raw = EveryPeriod(n, 1)
  PROVE  LET rows == downsampleToMonthly(raw)
         IN  /\ rows \in Seq(Nat)
             /\ Len(rows) = (n - 1) \div TradingDaysPerMonth + 1
             /\ Len(rows) <= TargetMonths
             /\ \A k \in 1 .. Len(rows) : rows[k] = (k - 1) * TradingDaysPerMonth
<1> DEFINE T     == TradingDaysPerMonth
           q     == (n - 1) \div T
           first == EveryNth(raw, 0, T)
           taken == FirstOf(first, TargetMonths)
           pad   == EveryNth(raw, Len(taken) * T, T)
           both  == taken \o pad
<1>1. raw \in Seq(Nat) /\ Len(raw) = n /\ \A k \in 1 .. n : raw[k] = k - 1
  <2>1. n \in Nat /\ 1 \in Nat
    OBVIOUS
  <2>2. raw \in Seq(Nat) /\ Len(raw) = n /\ \A k \in 1 .. n : raw[k] = (k - 1) * 1
    BY <2>1, Periods
  <2> QED BY <2>2
<1>2. q \in Nat /\ q * T <= n - 1 /\ n - 1 < (q + 1) * T
  <2>1. n - 1 \in Nat /\ T \in Nat \ {0}
    OBVIOUS
  <2> QED BY <2>1, Quotient
<1>3. first = [k \in 1 .. q + 1 |-> raw[0 + (k - 1) * T + 1]]
  <2>1. Len(raw) = n /\ 0 < n /\ n - 1 - 0 = n - 1
    BY <1>1
  <2> QED BY <2>1 DEF EveryNth
<1> HIDE DEF q
<1>4. q + 1 <= TargetMonths
  <2>1. q < 3
    <3>1. SUFFICES ASSUME q >= 3 PROVE FALSE
      BY <1>2
    <3>2. 3 * T <= q * T
      BY <1>2, <3>1, ProductMonotone
    <3> QED BY <1>2, <3>2
  <2> QED BY <1>2, <2>1
<1>5. ASSUME NEW k \in 1 .. q + 1
      PROVE  (k - 1) * T \in Nat /\ raw[0 + (k - 1) * T + 1] = (k - 1) * T
  <2>1. k - 1 \in Nat /\ k - 1 <= q
    BY <1>2
  <2>2. (k - 1) * T \in Nat /\ (k - 1) * T <= q * T
    BY <1>2, <2>1, ProductMonotone
  <2>3. PICK x \in Nat : x = (k - 1) * T /\ x <= n - 1
    BY <1>2, <2>2
  <2>4. 0 + x + 1 \in 1 .. n /\ (0 + x + 1) - 1 = x
    BY <2>3
  <2>5. raw[0 + x + 1] = x
    BY <1>1, <2>4
  <2> QED BY <2>3, <2>5
<1>6. first \in Seq(Nat) /\ Len(first) = q + 1 /\ \A k \in 1 .. q + 1 : first[k] = (k - 1) * T
  <2>1. first \in [1 .. q + 1 -> Nat]
    BY <1>3, <1>5
  <2>2. \A k \in 1 .. q + 1 : first[k] = (k - 1) * T
    BY <1>3, <1>5
  <2>3. q + 1 \in Nat
    BY <1>2
  <2> HIDE DEF first
  <2> QED BY <2>1, <2>2, <2>3, FunctionIsSeq
<1> HIDE DEF first
<1>7. /\ taken \in Seq(Nat) /\ Len(taken) = q + 1
      /\ \A k \in 1 .. q + 1 : taken[k] = (k - 1) * T
  <2>1. TargetMonths \in Nat
    OBVIOUS
  <2>2. Len(first) <= TargetMonths
    BY <1>4, <1>6
  <2> QED BY <1>6, <2>1, <2>2, FirstOfShort
<1> HIDE DEF taken
<1>8. pad = << >>
  <2>1. ~(Len(taken) * T < Len(raw))
    BY <1>1, <1>2, <1>7
  <2> QED BY <2>1 DEF EveryNth
<1> HIDE DEF pad
<1>9. both = taken
  BY <1>7, <1>8
<1> HIDE DEF both
<1>10. PICK rows : rows = FirstOf(both, TargetMonths)
  OBVIOUS
<1>11. /\ rows \in Seq(Nat) /\ Len(rows) = q + 1
       /\ \A k \in 1 .. q + 1 : rows[k] = (k - 1) * T
  <2>1. TargetMonths \in Nat
    OBVIOUS
  <2>2. both \in Seq(Nat) /\ Len(both) <= TargetMonths
    BY <1>4, <1>7, <1>9
  <2> QED BY <1>7, <1>9, <1>10, <2>1, <2>2, FirstOfShort
<1>12. rows = downsampleToMonthly(raw)
  BY <1>10 DEF downsampleToMonthly, first, taken, pad, both
<1> QED BY <1>4, <1>11, <1>12 DEF q

\* There are as many rows as months begun.
LEMMA DailyRowCount ==
  ASSUME NEW n \in 1 .. 30, NEW raw, raw = EveryPeriod(n, 1)
  PROVE  LET rows == downsampleToMonthly(raw)
         IN  /\ rows \in Seq(Ages)
             /\ Len(rows) = Min({TargetMonths,
                                 (Len(raw) + TradingDaysPerMonth - 1) \div TradingDaysPerMonth})
<1> DEFINE T == TradingDaysPerMonth
<1>1. PICK rows : rows = downsampleToMonthly(raw)
  OBVIOUS
<1>2. PICK c : c = (n - 1) \div T + 1
  OBVIOUS
<1>3. /\ rows \in Seq(Nat) /\ Len(rows) = c /\ c <= TargetMonths
      /\ \A k \in 1 .. c : rows[k] = (k - 1) * T
  BY <1>1, <1>2, DailyRows
<1>4. /\ c \in Nat \ {0} /\ (c - 1) * T <= n - 1 /\ n - 1 < c * T
  <2>1. n - 1 \in Nat /\ T \in Nat \ {0}
    OBVIOUS
  <2>2. PICK q : q = (n - 1) \div T
    OBVIOUS
  <2>3. q \in Nat /\ q * T <= n - 1 /\ n - 1 < (q + 1) * T
    BY <2>1, <2>2, Quotient
  <2>4. c = q + 1 /\ c - 1 = q
    BY <1>2, <2>2, <2>3
  <2> QED BY <2>3, <2>4
<1>5. Len(raw) = n
  <2>1. n \in Nat /\ 1 \in Nat
    OBVIOUS
  <2> QED BY <2>1, Periods
<1>6. (n + T - 1) \div T = c
  <2>1. n + T - 1 \in Nat /\ T \in Nat \ {0}
    OBVIOUS
  <2>2. c * T = (c - 1) * T + T /\ c * T \in Nat /\ (c + 1) * T = c * T + T
    BY <1>4
  <2>3. c * T <= n + T - 1 /\ n + T - 1 < (c + 1) * T
    BY <1>4, <2>2
  <2>4. c <= (n + T - 1) \div T
    BY <1>4, <2>1, <2>3, QuotientAbove
  <2>5. PICK p : p = (n + T - 1) \div T
    OBVIOUS
  <2>6. p \in Nat /\ p * T <= n + T - 1
    BY <2>1, <2>5, Quotient
  <2>7. p < c + 1
    <3>1. p * T < (c + 1) * T
      BY <2>2, <2>3, <2>6
    <3> QED BY <1>4, <2>1, <2>6, <3>1, ProductCancelsStrictly
  <2> QED BY <1>4, <2>4, <2>5, <2>6, <2>7
<1>7. Min({TargetMonths, c}) = c
  <2>1. \A x \in {TargetMonths, c} : c <= x
    BY <1>3, <1>4
  <2>2. \A m \in {TargetMonths, c} : (\A x \in {TargetMonths, c} : m <= x) => m = c
    BY <1>3, <1>4
  <2> QED BY <2>1, <2>2, Zenon DEF Min
<1> QED BY <1>1, <1>3, <1>5, <1>6, <1>7, SeriesOfAges

\* Thirty months, cut and reversed.
LEMMA LastMonthFirst ==
  ASSUME NEW S, NEW months \in Seq(S), Len(months) = 30
  PROVE  LET rows == Reverse(FirstOf(months, TargetMonths))
         IN  /\ rows \in Seq(S) /\ Len(rows) = TargetMonths
             /\ \A k \in 1 .. TargetMonths : rows[k] = months[TargetMonths - k + 1]
<1>1. PICK cut : cut = FirstOf(months, TargetMonths)
  OBVIOUS
<1>2. /\ cut \in Seq(S) /\ Len(cut) = TargetMonths
      /\ \A k \in 1 .. TargetMonths : cut[k] = months[k]
  <2>1. TargetMonths \in Nat /\ TargetMonths <= Len(months)
    OBVIOUS
  <2> QED BY <1>1, <2>1, FirstOfLong
<1>3. PICK rows : rows = [k \in 1 .. TargetMonths |-> cut[TargetMonths - k + 1]]
  OBVIOUS
<1>4. Reverse(cut) = rows
  BY <1>2, <1>3 DEF Reverse
<1>5. ASSUME NEW k \in 1 .. TargetMonths
      PROVE  rows[k] \in S /\ rows[k] = months[TargetMonths - k + 1]
  <2>1. TargetMonths - k + 1 \in 1 .. TargetMonths
    OBVIOUS
  <2>2. rows[k] = cut[TargetMonths - k + 1]
    BY <1>3
  <2> QED BY <1>2, <2>1, <2>2
<1>6. rows \in Seq(S) /\ Len(rows) = TargetMonths
  <2>1. rows \in [1 .. TargetMonths -> S] /\ TargetMonths \in Nat
    BY <1>3, <1>5
  <2> QED BY <2>1, FunctionIsSeq
<1> QED BY <1>1, <1>4, <1>5, <1>6

\* Ten quarters are interpolated to the months 27 to 1 back, and the newest
\* quarter three times (DataAligner.cpp:72-107).
LEMMA MonthsOfTenQuarters ==
  ASSUME NEW raw, raw = EveryPeriod(10, Quarter)
  PROVE  LET months == MonthsOf(raw)
         IN  /\ months \in Seq(Nat) /\ Len(months) = 30
             /\ \A k \in 1 .. 27 : months[k] = (28 - k) * TradingDaysPerMonth
             /\ \A k \in 28 .. 30 : months[k] = 0
<1> DEFINE T == TradingDaysPerMonth
<1>1. /\ Len(raw) = 10 /\ \A k \in 1 .. 10 : raw[k] = (k - 1) * (3 * T)
  <2>1. 10 \in Nat /\ Quarter \in Nat
    BY DEF Quarter
  <2> QED BY <2>1, Periods DEF Quarter
<1>2. raw[1] = 0
  <2>1. 1 \in 1 .. 10 /\ (1 - 1) * (3 * T) = 0
    OBVIOUS
  <2> QED BY <1>1, <2>1
<1>3. PICK months : months = [k \in 1 .. 30 |->
                                IF k > 27 THEN raw[1] ELSE MonthAfter(raw[10 - (k - 1) \div 3], (k - 1) % 3)]
  OBVIOUS
<1>4. MonthsOf(raw) = months
  <2>1. Len(raw) = 10 /\ 3 * 10 = 30 /\ 3 * (10 - 1) = 27
    BY <1>1
  <2>2. MonthsOf(raw) = [k \in 1 .. 3 * 10 |->
                           IF k > 3 * (10 - 1) THEN raw[1]
                           ELSE MonthAfter(raw[10 - (k - 1) \div 3], (k - 1) % 3)]
    BY <2>1, Zenon DEF MonthsOf
  <2> QED BY <1>3, <2>1, <2>2, Zenon
<1>5. \A k \in 28 .. 30 : months[k] = 0
  BY <1>2, <1>3
<1>6. ASSUME NEW k \in 1 .. 27 PROVE months[k] = (28 - k) * T
  <2>1. PICK q \in 0 .. 8, r \in 0 .. 2 : q = (k - 1) \div 3 /\ r = (k - 1) % 3 /\ k - 1 = 3 * q + r
    <3>1. (k - 1) \div 3 \in 0 .. 8 /\ (k - 1) % 3 \in 0 .. 2
      OBVIOUS
    <3>2. k - 1 = 3 * ((k - 1) \div 3) + ((k - 1) % 3)
      OBVIOUS
    <3> QED BY <3>1, <3>2
  <2>2. months[k] = MonthAfter(raw[10 - q], r)
    BY <1>3, <2>1
  <2>3. 10 - q \in 1 .. 10 /\ (10 - q) - 1 = 9 - q
    BY <2>1
  <2>4. raw[10 - q] = (9 - q) * (3 * T)
    BY <1>1, <2>3
  <2>5. PICK m \in Nat : m = 9 - q
    BY <2>1
  <2>6. PICK a : a = m * (3 * T)
    OBVIOUS
  <2>7. a \in Nat
    BY <2>5, <2>6
  <2>8. MonthAfter(a, r) = a - r * T
    BY <2>7 DEF MonthAfter, NoAge
  <2>9. a - r * T = (3 * m - r) * T
    BY <2>1, <2>5, <2>6
  <2>10. 3 * m - r = 28 - k
    BY <2>1, <2>5
  <2> QED BY <2>2, <2>4, <2>5, <2>6, <2>8, <2>9, <2>10
<1>7. months \in Seq(Nat) /\ Len(months) = 30
  <2>1. ASSUME NEW k \in 1 .. 30 PROVE months[k] \in Nat
    <3>1. CASE k \in 1 .. 27
      <4>1. 28 - k \in Nat
        BY <3>1
      <4>2. (28 - k) * T \in Nat
        BY <4>1
      <4> QED BY <1>6, <3>1, <4>2
    <3>2. CASE k \in 28 .. 30
      BY <1>5, <3>2
    <3> QED BY <3>1, <3>2
  <2>2. months \in [1 .. 30 -> Nat]
    BY <1>3, <2>1
  <2> QED BY <2>2, FunctionIsSeq
<1> QED BY <1>4, <1>5, <1>6, <1>7

\* The rows of the GDP count from the oldest quarter (DataAligner.cpp:56-115).
LEMMA QuarterlyRows ==
  ASSUME NEW raw, raw = EveryPeriod(10, Quarter)
  PROVE  LET rows == interpolateQuarterlyToMonthly(raw)
         IN  /\ rows \in Seq(Nat) /\ Len(rows) = TargetMonths
             /\ \A k \in 1 .. TargetMonths : rows[k] = QuarterlyRowAge(10, k)
<1> DEFINE T == TradingDaysPerMonth
<1>1. PICK months : months = MonthsOf(raw)
  OBVIOUS
<1>2. /\ months \in Seq(Nat) /\ Len(months) = 30
      /\ \A k \in 1 .. 27 : months[k] = (28 - k) * T
      /\ \A k \in 28 .. 30 : months[k] = 0
  BY <1>1, MonthsOfTenQuarters
<1>3. PICK rows : rows = Reverse(FirstOf(months, TargetMonths))
  OBVIOUS
<1>4. rows = interpolateQuarterlyToMonthly(raw)
  BY <1>1, <1>3 DEF interpolateQuarterlyToMonthly
<1>5. /\ rows \in Seq(Nat) /\ Len(rows) = TargetMonths
      /\ \A k \in 1 .. TargetMonths : rows[k] = months[TargetMonths - k + 1]
  BY <1>2, <1>3, LastMonthFirst
<1>6. ASSUME NEW k \in 1 .. TargetMonths
      PROVE  \E a \in Nat : /\ rows[k] = a * T
                            /\ a = (IF 27 - TargetMonths + k > 0 THEN 27 - TargetMonths + k ELSE 0)
  <2>1. rows[k] = months[TargetMonths - k + 1]
    BY <1>5
  <2>2. CASE TargetMonths - k + 1 \in 1 .. 27
    <3>1. months[TargetMonths - k + 1] = (28 - (TargetMonths - k + 1)) * T
      BY <1>2, <2>2
    <3>2. PICK a : a = 28 - (TargetMonths - k + 1)
      OBVIOUS
    <3>3. a \in Nat /\ a = 27 - TargetMonths + k /\ a > 0
      BY <2>2, <3>2
    <3> QED BY <2>1, <3>1, <3>2, <3>3
  <2>3. CASE TargetMonths - k + 1 \in 28 .. 30
    <3>1. rows[k] = 0
      BY <1>2, <2>1, <2>3
    <3>2. 0 * T = 0 /\ ~(27 - TargetMonths + k > 0)
      BY <2>3
    <3> QED BY <3>1, <3>2
  <2>4. TargetMonths - k + 1 \in 1 .. 27 \/ TargetMonths - k + 1 \in 28 .. 30
    OBVIOUS
  <2> QED BY <2>2, <2>3, <2>4
<1>7. ASSUME NEW k \in 1 .. TargetMonths PROVE rows[k] = QuarterlyRowAge(10, k)
  <2>1. PICK a \in Nat : /\ rows[k] = a * T
                         /\ a = (IF 27 - TargetMonths + k > 0 THEN 27 - TargetMonths + k ELSE 0)
    BY <1>6
  <2>2. (IF 3 * 10 < TargetMonths THEN 3 * 10 ELSE TargetMonths) = TargetMonths
    OBVIOUS
  <2>3. 3 * (10 - 1) - (TargetMonths - k) = 27 - TargetMonths + k
    OBVIOUS
  <2>4. QuarterlyRowAge(10, k)
          = (IF 27 - TargetMonths + k > 0 THEN 27 - TargetMonths + k ELSE 0) * T
    BY <2>2, <2>3 DEF QuarterlyRowAge
  <2> QED BY <2>1, <2>4
<1> QED BY <1>4, <1>5, <1>7

\* Interpolating values of no meaning gives no others.
LEMMA UnreadableRows ==
  LET rows == interpolateQuarterlyToMonthly(Unreadable)
  IN  /\ rows \in Seq(Ages) /\ Len(rows) = TargetMonths
      /\ \A k \in 1 .. TargetMonths : rows[k] = NoAge
<1>1. PICK months : months = [k \in 1 .. 30 |->
         IF k > 27 THEN Unreadable[1] ELSE MonthAfter(Unreadable[10 - (k - 1) \div 3], (k - 1) % 3)]
  OBVIOUS
<1>2. MonthsOf(Unreadable) = months
  BY <1>1, UnreadableIsSeries DEF MonthsOf
<1>3. ASSUME NEW k \in 1 .. 30 PROVE months[k] = NoAge
  <2>1. CASE k > 27
    <3>1. Unreadable[1] = NoAge
      BY UnreadableIsSeries
    <3> QED BY <1>1, <2>1, <3>1
  <2>2. CASE ~(k > 27)
    <3>1. 10 - (k - 1) \div 3 \in 1 .. 10
      BY <2>2
    <3>2. Unreadable[10 - (k - 1) \div 3] = NoAge
      BY <3>1, UnreadableIsSeries
    <3> QED BY <1>1, <2>2, <3>2 DEF MonthAfter
  <2> QED BY <2>1, <2>2
<1>4. months \in Seq(Ages) /\ Len(months) = 30
  <2>1. months \in [1 .. 30 -> Ages]
    BY <1>1, <1>3 DEF Ages
  <2> QED BY <2>1, FunctionIsSeq
<1>5. PICK rows : rows = Reverse(FirstOf(months, TargetMonths))
  OBVIOUS
<1>6. rows = interpolateQuarterlyToMonthly(Unreadable)
  BY <1>2, <1>5 DEF interpolateQuarterlyToMonthly
<1>7. /\ rows \in Seq(Ages) /\ Len(rows) = TargetMonths
      /\ \A k \in 1 .. TargetMonths : rows[k] = months[TargetMonths - k + 1]
  BY <1>4, <1>5, LastMonthFirst
<1>8. \A k \in 1 .. TargetMonths : rows[k] = NoAge
  <2>1. \A k \in 1 .. TargetMonths : TargetMonths - k + 1 \in 1 .. 30
    OBVIOUS
  <2> QED BY <1>3, <1>7, <2>1
<1> QED BY <1>6, <1>7, <1>8

\* Monthly series are cut (DataAligner.cpp:186-197).
LEMMA MonthlyRows ==
  ASSUME NEW raw \in Seq(Ages)
  PROVE  LET rows == FirstOf(raw, TargetMonths)
         IN  /\ rows \in Seq(Ages)
             /\ Len(raw) <= TargetMonths => Len(rows) = Len(raw)
             /\ \A k \in 1 .. Len(rows) : k \in 1 .. Len(raw) /\ rows[k] = raw[k]
<1>1. TargetMonths \in Nat /\ Len(raw) \in Nat
  OBVIOUS
<1>2. PICK rows : rows = FirstOf(raw, TargetMonths)
  OBVIOUS
<1>3. CASE Len(raw) <= TargetMonths
  <2>1. rows \in Seq(Ages) /\ Len(rows) = Len(raw) /\ \A k \in 1 .. Len(raw) : rows[k] = raw[k]
    BY <1>1, <1>2, <1>3, FirstOfShort
  <2> QED BY <1>2, <2>1
<1>4. CASE TargetMonths <= Len(raw)
  <2>1. rows \in Seq(Ages) /\ Len(rows) = TargetMonths /\ \A k \in 1 .. TargetMonths : rows[k] = raw[k]
    BY <1>1, <1>2, <1>4, FirstOfLong
  <2>2. \A k \in 1 .. TargetMonths : k \in 1 .. Len(raw)
    BY <1>1, <1>4
  <2>3. Len(raw) <= TargetMonths => Len(rows) = Len(raw)
    BY <1>1, <1>4, <2>1
  <2> QED BY <1>2, <2>1, <2>2, <2>3
<1> QED BY <1>1, <1>3, <1>4

-----------------------------------------------------------------------------
(* What the processors return, and what the aligner makes of it. *)

Others == {"fed_funds", "unemployment", "consumer_sentiment"}

\* The series an indicator can have, whatever was stored and whatever FRED sends.
RawForm(j, raw) ==
  /\ j = "inflation" => raw \in {<< >>, EveryPeriod(10, Month), Unreadable}
  /\ j = "gdp" => raw \in {<< >>, EveryPeriod(10, Quarter), Unreadable}
  /\ j = "inverted_yield" => raw \in {<< >>, EveryPeriod(10, 1)}
  /\ j = "vix" => \E n \in 0 .. 30 : raw = EveryPeriod(n, 1)
  /\ j \in Others => raw \in Seq(Nat)

\* What holds of the rows made of such a series.
RowsGood(j, raw, rows) ==
  /\ rows \in Seq(Ages) /\ RowsOf(j, raw, rows)
  /\ j = "inverted_yield" => Len(rows) = 1
  /\ j = "inflation" => Len(rows) = 10
  /\ j = "gdp" => Len(rows) = TargetMonths

LEMMA Kinds ==
  /\ Indicator = {"inflation", "gdp", "inverted_yield", "vix"} \cup Others
  /\ \A j \in {"inverted_yield", "vix"} :
       j \in DailyIndicators /\ j \notin QuarterlyIndicators /\ j \notin MonthlyIndicators
  /\ "gdp" \in QuarterlyIndicators /\ "gdp" \notin DailyIndicators /\ "gdp" \notin MonthlyIndicators
  /\ \A j \in {"inflation"} \cup Others :
       j \in MonthlyIndicators /\ j \notin DailyIndicators /\ j \notin QuarterlyIndicators
  BY DEF Indicator, DailyIndicators, QuarterlyIndicators, MonthlyIndicators, Others

LEMMA EmptyIsRaw ==
  ASSUME NEW j
  PROVE  RawForm(j, << >>)
<1>1. EveryPeriod(0, 1) = << >>
  BY DEF EveryPeriod
<1>2. << >> \in Seq(Nat)
  OBVIOUS
<1> QED BY <1>1, <1>2 DEF RawForm

LEMMA RawFormIsSeries ==
  ASSUME NEW j \in Indicator, NEW raw, RawForm(j, raw)
  PROVE  raw \in Seq(Ages)
<1>1. ASSUME NEW n \in Nat, NEW period \in Nat, raw = EveryPeriod(n, period)
      PROVE  raw \in Seq(Ages)
  BY <1>1, Periods, SeriesOfAges
<1>2. CASE raw = << >>
  BY <1>2
<1>3. CASE raw = Unreadable
  BY <1>3, UnreadableIsSeries
<1>4. CASE j \in Others
  BY <1>4, SeriesOfAges DEF RawForm
<1>5. Month \in Nat /\ Quarter \in Nat /\ 1 \in Nat /\ 10 \in Nat
  BY DEF Month, Quarter
<1>6. CASE j = "inflation"
  BY <1>1, <1>2, <1>3, <1>5, <1>6 DEF RawForm
<1>7. CASE j = "gdp"
  BY <1>1, <1>2, <1>3, <1>5, <1>7 DEF RawForm
<1>8. CASE j = "inverted_yield"
  BY <1>1, <1>2, <1>5, <1>8 DEF RawForm
<1>9. CASE j = "vix"
  <2>1. PICK n \in 0 .. 30 : raw = EveryPeriod(n, 1)
    BY <1>9 DEF RawForm
  <2>2. n \in Nat
    OBVIOUS
  <2> QED BY <1>1, <1>5, <2>1, <2>2
<1> QED BY <1>4, <1>6, <1>7, <1>8, <1>9, Kinds

\* What the processors return has one of these forms
\* (InflationDataProcessor.cpp:44-54, InvertedYieldStatsCalculator.cpp:18-38,
\* FREDDataClient.cpp:110-137).
LEMMA ProcessedForm ==
  ASSUME NEW j \in Indicator, NEW raw \in Processed(j)
  PROVE  RawForm(j, raw)
<1>1. \A key, period : FirstTen(key, period) \in {<< >>, EveryPeriod(10, period), Unreadable}
  BY DEF FirstTen, Unreadable
<1>2. YieldDifferences \in {<< >>, EveryPeriod(10, 1)}
  BY DEF YieldDifferences
<1>3. CASE j = "inflation"
  BY <1>1, <1>3 DEF Processed, RawForm, Others
<1>4. CASE j = "gdp"
  BY <1>1, <1>4 DEF Processed, RawForm, Others
<1>5. CASE j = "inverted_yield"
  BY <1>2, <1>5 DEF Processed, RawForm, Others
<1>6. CASE j = "vix"
  <2>1. PICK n \in VixDays : raw = EveryPeriod(n, 1)
    BY <1>6 DEF Processed
  <2>2. n \in 0 .. 30
    BY PipelineAssumption DEF PipelineAssumption
  <2> QED BY <1>6, <2>1, <2>2 DEF RawForm, Others
<1>7. CASE j \in Others
  <2>1. PICK missing : raw = WithoutGaps(missing)
    BY <1>7 DEF Processed, Others
  <2> QED BY <1>7, <2>1, LeftIsSeries DEF RawForm, Others
<1> QED BY <1>3, <1>4, <1>5, <1>6, <1>7, Kinds

\* What the aligner does with the kinds of indicators.
LEMMA AlignedByKind ==
  ASSUME NEW j \in Indicator, NEW raw
  PROVE  /\ j \in {"inverted_yield", "vix"} => Aligned(j, raw) = downsampleToMonthly(raw)
         /\ j = "gdp" /\ Len(raw) = 10 => Aligned(j, raw) = interpolateQuarterlyToMonthly(raw)
         /\ j \in {"inflation"} \cup Others => Aligned(j, raw) = FirstOf(raw, TargetMonths)
<1>1. j \in {"inverted_yield", "vix"} => Aligned(j, raw) = downsampleToMonthly(raw)
  BY Kinds DEF Aligned
<1>2. ASSUME j = "gdp", Len(raw) = 10
      PROVE  Aligned(j, raw) = interpolateQuarterlyToMonthly(raw)
  <2>1. j \in QuarterlyIndicators /\ j \notin DailyIndicators
    BY <1>2, Kinds
  <2>2. Len(raw) >= 2 /\ ~(Len(raw) < 2)
    BY <1>2
  <2> QED BY <2>1, <2>2, Zenon DEF Aligned
<1>3. j \in {"inflation"} \cup Others => Aligned(j, raw) = FirstOf(raw, TargetMonths)
  BY Kinds DEF Aligned
<1> QED BY <1>1, <1>2, <1>3

\* Every loop of the aligner gives the rows of the closed forms.
LEMMA RowsOfSeries ==
  ASSUME NEW j \in Indicator, NEW raw, RawForm(j, raw), raw # << >>
  PROVE  RowsGood(j, raw, Aligned(j, raw))
<1>1. PICK rows : rows = Aligned(j, raw)
  OBVIOUS
<1>2. ASSUME j \in {"inverted_yield", "vix"}, NEW n \in 0 .. 30, raw = EveryPeriod(n, 1),
             j = "inverted_yield" => n = 10
      PROVE  RowsGood(j, raw, rows)
  <2>1. n \in Nat /\ 1 \in Nat
    OBVIOUS
  <2>2. raw \in Seq(Nat) /\ Len(raw) = n
    BY <1>2, <2>1, Periods
  <2>3. n \in 1 .. 30
    BY <2>2
  <2>4. rows = downsampleToMonthly(raw)
    BY <1>1, <1>2, AlignedByKind
  <2>5. /\ Len(rows) = (n - 1) \div TradingDaysPerMonth + 1
        /\ \A k \in 1 .. Len(rows) : rows[k] = (k - 1) * TradingDaysPerMonth
    BY <1>2, <2>3, <2>4, DailyRows
  <2>6. /\ rows \in Seq(Ages)
        /\ Len(rows) = Min({TargetMonths,
                            (Len(raw) + TradingDaysPerMonth - 1) \div TradingDaysPerMonth})
    BY <1>2, <2>3, <2>4, DailyRowCount
  <2>7. RowsOf(j, raw, rows)
    <3>1. NoAge \notin Range(raw)
      BY <2>2, ReadableHasAges
    <3> QED BY <1>2, <2>5, <2>6, <3>1, Kinds DEF RowsOf
  <2>8. j = "inverted_yield" => Len(rows) = 1
    <3>1. (10 - 1) \div TradingDaysPerMonth = 0
      OBVIOUS
    <3> QED BY <1>2, <2>5, <3>1
  <2>9. j # "inflation" /\ j # "gdp"
    BY <1>2
  <2> QED BY <2>6, <2>7, <2>8, <2>9 DEF RowsGood
<1>3. CASE j = "inverted_yield"
  <2>1. raw = EveryPeriod(10, 1) /\ 10 \in 0 .. 30
    BY <1>3 DEF RawForm
  <2> QED BY <1>1, <1>2, <1>3, <2>1
<1>4. CASE j = "vix"
  <2>1. PICK n \in 0 .. 30 : raw = EveryPeriod(n, 1)
    BY <1>4 DEF RawForm
  <2> QED BY <1>1, <1>2, <1>4, <2>1
<1>5. CASE j = "gdp" /\ raw = EveryPeriod(10, Quarter)
  <2>1. 10 \in Nat /\ Quarter \in Nat
    BY DEF Quarter
  <2>2. raw \in Seq(Nat) /\ Len(raw) = 10
    BY <1>5, <2>1, Periods
  <2>3. rows = interpolateQuarterlyToMonthly(raw)
    BY <1>1, <1>5, <2>2, AlignedByKind
  <2>4. /\ rows \in Seq(Nat) /\ Len(rows) = TargetMonths
        /\ \A k \in 1 .. TargetMonths : rows[k] = QuarterlyRowAge(10, k)
    BY <1>5, <2>3, QuarterlyRows
  <2>5. RowsOf(j, raw, rows)
    <3>1. NoAge \notin Range(raw)
      BY <2>2, ReadableHasAges
    <3> QED BY <1>5, <2>2, <2>4, <3>1, Kinds DEF RowsOf
  <2>6. rows \in Seq(Ages)
    BY <2>4, SeriesOfAges
  <2> QED BY <1>1, <1>5, <2>4, <2>5, <2>6 DEF RowsGood
<1>6. CASE j = "gdp" /\ raw = Unreadable
  <2>1. rows = interpolateQuarterlyToMonthly(Unreadable)
    <3>1. Len(raw) = 10
      BY <1>6, UnreadableIsSeries
    <3> QED BY <1>1, <1>6, <3>1, AlignedByKind
  <2>2. /\ rows \in Seq(Ages) /\ Len(rows) = TargetMonths
        /\ \A k \in 1 .. TargetMonths : rows[k] = NoAge
    BY <2>1, UnreadableRows
  <2>3. RowsOf(j, raw, rows)
    <3>1. NoAge \in Range(raw)
      BY <1>6, UnreadableIsSeries DEF Range
    <3>2. Range(rows) = {NoAge}
      <4>1. DOMAIN rows = 1 .. TargetMonths /\ 1 \in 1 .. TargetMonths
        BY <2>2
      <4> QED BY <2>2, <4>1 DEF Range
    <3> QED BY <3>1, <3>2 DEF RowsOf
  <2> QED BY <1>1, <1>6, <2>2, <2>3 DEF RowsGood
<1>7. CASE j \in {"inflation"} \cup Others
  <2>1. raw \in Seq(Ages)
    BY RawFormIsSeries
  <2>2. rows = FirstOf(raw, TargetMonths)
    BY <1>1, <1>7, AlignedByKind
  <2>3. /\ rows \in Seq(Ages)
        /\ Len(raw) <= TargetMonths => Len(rows) = Len(raw)
        /\ \A k \in 1 .. Len(rows) : k \in 1 .. Len(raw) /\ rows[k] = raw[k]
    BY <2>1, <2>2, MonthlyRows
  <2>4. ASSUME j = "inflation" PROVE Len(raw) = 10 /\ Len(rows) = 10
    <3>1. raw = EveryPeriod(10, Month) \/ raw = Unreadable
      BY <2>4 DEF RawForm
    <3>2. Month \in Nat /\ 10 \in Nat
      BY DEF Month
    <3>3. CASE raw = EveryPeriod(10, Month)
      <4>1. Len(raw) = 10
        BY <3>2, <3>3, Periods
      <4>2. 10 <= TargetMonths
        OBVIOUS
      <4> QED BY <2>3, <4>1, <4>2
    <3>4. CASE raw = Unreadable
      BY <2>3, <3>4, UnreadableIsSeries
    <3> QED BY <3>1, <3>3, <3>4
  <2>5. RowsOf(j, raw, rows)
    <3>1. CASE raw = Unreadable
      <4>1. Len(rows) = 10 /\ \A k \in 1 .. 10 : rows[k] = NoAge
        <5>1. Len(raw) = 10 /\ 10 <= TargetMonths
          BY <3>1, UnreadableIsSeries
        <5> QED BY <2>3, <3>1, <5>1, UnreadableIsSeries
      <4>2. NoAge \in Range(raw)
        BY <3>1, UnreadableIsSeries DEF Range
      <4>3. Range(rows) = {NoAge}
        <5>1. DOMAIN rows = 1 .. 10 /\ 1 \in 1 .. 10
          BY <2>3, <4>1
        <5> QED BY <4>1, <5>1 DEF Range
      <4> QED BY <4>2, <4>3 DEF RowsOf
    <3>2. CASE raw # Unreadable
      <4>1. raw \in Seq(Nat)
        <5>1. CASE j = "inflation"
          <6>1. raw = EveryPeriod(10, Month) /\ Month \in Nat /\ 10 \in Nat
            BY <3>2, <5>1 DEF RawForm, Month
          <6> QED BY <6>1, Periods
        <5>2. CASE j \in Others
          BY <5>2 DEF RawForm
        <5> QED BY <1>7, <5>1, <5>2
      <4>2. NoAge \notin Range(raw)
        BY <4>1, ReadableHasAges
      <4> QED BY <1>7, <2>3, <4>2, Kinds DEF RowsOf
    <3> QED BY <3>1, <3>2
  <2>6. j # "gdp" /\ j # "inverted_yield"
    BY <1>7 DEF Others
  <2> QED BY <1>1, <2>3, <2>4, <2>5, <2>6 DEF RowsGood
<1>8. j = "gdp" => raw = EveryPeriod(10, Quarter) \/ raw = Unreadable
  BY DEF RawForm
<1> QED BY <1>1, <1>3, <1>4, <1>5, <1>6, <1>7, <1>8, Kinds

-----------------------------------------------------------------------------
(* The signal. *)

LEMMA FiniteIndicators == IsFiniteSet(Indicators)
<1>1. IsFiniteSet({}) BY FS_EmptySet
<1>2. IsFiniteSet({} \cup {"regime"}) BY <1>1, FS_AddElement
<1>3. IsFiniteSet({} \cup {"regime"} \cup {"vix"}) BY <1>2, FS_AddElement
<1>4. IsFiniteSet({} \cup {"regime"} \cup {"vix"} \cup {"growth"}) BY <1>3, FS_AddElement
<1>5. IsFiniteSet({} \cup {"regime"} \cup {"vix"} \cup {"growth"} \cup {"curve"})
  BY <1>4, FS_AddElement
<1>6. IsFiniteSet({} \cup {"regime"} \cup {"vix"} \cup {"growth"} \cup {"curve"} \cup {"volatility"})
  BY <1>5, FS_AddElement
<1>7. Indicators = {} \cup {"regime"} \cup {"vix"} \cup {"growth"} \cup {"curve"} \cup {"volatility"}
  BY DEF Indicators
<1> QED BY <1>6, <1>7

LEMMA CardinalityOfTwo ==
  ASSUME NEW i, NEW j, i # j
  PROVE  IsFiniteSet({i, j}) /\ Cardinality({i, j}) = 2
<1>1. IsFiniteSet({i}) /\ Cardinality({i}) = 1 BY FS_Singleton
<1>2. IsFiniteSet({i} \cup {j}) /\ Cardinality({i} \cup {j}) = Cardinality({i}) + 1
  BY <1>1, FS_AddElement
<1>3. {i, j} = {i} \cup {j} OBVIOUS
<1> QED BY <1>1, <1>2, <1>3

\* Counts of the indicators on a side, from those that are and those that may be.
LEMMA TwoOnASide ==
  ASSUME NEW o, NEW side, NEW i, NEW j, i # j,
         \A k \in Indicators : Leaning(o)[k] = side => k \in {i, j}
  PROVE  Count(o, side) \in 0 .. 2
<1> DEFINE On == {k \in Indicators : Leaning(o)[k] = side}
<1>1. On \subseteq {i, j} OBVIOUS
<1>2. IsFiniteSet({i, j}) /\ Cardinality({i, j}) = 2 BY CardinalityOfTwo
<1>3. IsFiniteSet(On) /\ Cardinality(On) <= 2 BY <1>1, <1>2, FS_Subset
<1>4. Cardinality(On) \in Nat BY <1>3, FS_CardinalityType
<1> QED BY <1>3, <1>4 DEF Count

LEMMA OneOnASide ==
  ASSUME NEW o, NEW side, NEW i,
         \A k \in Indicators : Leaning(o)[k] = side => k = i
  PROVE  Count(o, side) \in 0 .. 1
<1> DEFINE On == {k \in Indicators : Leaning(o)[k] = side}
<1>1. On \subseteq {i} OBVIOUS
<1>2. IsFiniteSet({i}) /\ Cardinality({i}) = 1 BY FS_Singleton
<1>3. IsFiniteSet(On) /\ Cardinality(On) <= 1 BY <1>1, <1>2, FS_Subset
<1>4. Cardinality(On) \in Nat BY <1>3, FS_CardinalityType
<1> QED BY <1>3, <1>4 DEF Count

LEMMA ThreeOnASide ==
  ASSUME NEW o, NEW side, NEW i \in Indicators, i \notin {"vix", "curve"},
         \A k \in {"vix", "curve", i} : Leaning(o)[k] = side
  PROVE  Count(o, side) \in Nat /\ Count(o, side) >= 3
<1> DEFINE On == {k \in Indicators : Leaning(o)[k] = side}
<1>1. {"vix", "curve"} \cup {i} \subseteq On BY DEF Indicators
<1>2. IsFiniteSet({"vix", "curve"}) /\ Cardinality({"vix", "curve"}) = 2
  BY CardinalityOfTwo
<1>3. Cardinality({"vix", "curve"} \cup {i}) = Cardinality({"vix", "curve"}) + 1
  BY <1>2, FS_AddElement
<1>4. IsFiniteSet(On) BY FiniteIndicators, FS_Subset
<1>5. Cardinality({"vix", "curve"} \cup {i}) <= Cardinality(On) BY <1>1, <1>4, FS_Subset
<1>6. Cardinality(On) \in Nat BY <1>4, FS_CardinalityType
<1> QED BY <1>2, <1>3, <1>5, <1>6 DEF Count

\* What the signal is made of: literals, and the values that stand for variances.
Observed(f) ==
  [vixLevel |-> CurrentRegime.vixLevel, yieldCurveSlope |-> CurrentRegime.yieldCurveSlope,
   growthFactor |-> FactorValue(f, "Growth"), volatilityFactor |-> FactorValue(f, "Volatility"),
   riskLabel |-> CurrentRegime.riskLabel]

LEMMA RegimeOfLiterals ==
  CurrentRegime.vixLevel = 18 /\ CurrentRegime.yieldCurveSlope = 120 /\ CurrentRegime.riskLabel = "Neutral"
  BY DEF CurrentRegime, Sizer!ClassifyRegime, Sizer!RiskLabel

LEMMA ValuesOfFactors ==
  ASSUME NEW f \in Factors, NEW label \in {"Growth", "Volatility"}
  PROVE  /\ f[label] = "strong" => FactorValue(f, label) = 50
         /\ f[label] = "weak" => FactorValue(f, label) + 50 = 0
         /\ f[label] = "none" => FactorValue(f, label) = 0
         /\ f[label] \in {"none", "weak", "strong"} /\ FactorValue(f, label) \in Int
<1>1. f[label] \in {"none", "weak", "strong"}
  BY DEF Factors, FactorKinds
<1>2. PICK m \in Int : m = -50 /\ m + 50 = 0
  OBVIOUS
<1> QED BY <1>1, <1>2 DEF FactorValue

\* Who leans where.
LEMMA LeaningsOfLiterals ==
  ASSUME NEW f \in Factors
  PROVE  LET side == Leaning(Observed(f))
         IN  /\ side["regime"] = 0 /\ side["vix"] = 1 /\ side["curve"] = 1
             /\ f["Growth"] = "strong" => side["growth"] = 1
             /\ f["Growth"] # "strong" => side["growth"] \in {-1, 0}
             /\ f["Volatility"] = "weak" => side["volatility"] = 1
             /\ f["Volatility"] # "weak" => side["volatility"] \in {-1, 0}
<1>1. PICK g : g = FactorValue(f, "Growth")
  OBVIOUS
<1>2. PICK v : v = FactorValue(f, "Volatility")
  OBVIOUS
<1>3. /\ f["Growth"] = "strong" => g = 50
      /\ f["Growth"] # "strong" => g = 0 \/ g + 50 = 0
  BY <1>1, ValuesOfFactors
<1>4. /\ f["Volatility"] = "weak" => v + 50 = 0
      /\ f["Volatility"] # "weak" => v = 0 \/ v = 50
  BY <1>2, ValuesOfFactors
<1>5. Observed(f) = [vixLevel |-> 18, yieldCurveSlope |-> 120, growthFactor |-> g,
                     volatilityFactor |-> v, riskLabel |-> "Neutral"]
  BY <1>1, <1>2, RegimeOfLiterals DEF Observed
<1>6. Leaning(Observed(f)) = [regime |-> 0, vix |-> 1, growth |-> Lean(g > 0, g < 0),
                              curve |-> 1, volatility |-> Lean(v < 0, v > 0)]
  BY <1>5 DEF Leaning, Lean
<1>7. /\ g = 50 => Lean(g > 0, g < 0) = 1
      /\ g = 0 => Lean(g > 0, g < 0) = 0
      /\ v = 50 => Lean(v < 0, v > 0) = -1
      /\ v = 0 => Lean(v < 0, v > 0) = 0
  BY DEF Lean
<1>8. g \in Int /\ v \in Int
  BY <1>1, <1>2, ValuesOfFactors
<1>9. /\ g + 50 = 0 => Lean(g > 0, g < 0) = -1
      /\ v + 50 = 0 => Lean(v < 0, v > 0) = 1
  BY <1>8 DEF Lean
<1> QED BY <1>3, <1>4, <1>6, <1>7, <1>9

\* Only the two factors can lean to SHORT.
LEMMA NeverThreeAgainst ==
  ASSUME NEW f \in Factors
  PROVE  Count(Observed(f), -1) \in 0 .. 2 /\ ~Agreed(Observed(f), -1)
<1>1. PICK m : m = -1
  OBVIOUS
<1>2. \A k \in Indicators : Leaning(Observed(f))[k] = m => k \in {"growth", "volatility"}
  BY <1>1, LeaningsOfLiterals DEF Indicators
<1>3. Count(Observed(f), m) \in 0 .. 2
  BY <1>2, TwoOnASide
<1> QED BY <1>1, <1>3 DEF Agreed

\* The VIX and the curve alone make 2950 hundredths, each factor at least 500 more.
LEMMA ConvictionOfLiterals ==
  ASSUME NEW f \in Factors, f["Growth"] = "strong" \/ f["Volatility"] = "weak"
  PROVE  ComputeConviction(Strengths(Observed(f))) >= MinConviction
<1>1. PICK g : g = FactorValue(f, "Growth")
  OBVIOUS
<1>2. PICK v : v = FactorValue(f, "Volatility")
  OBVIOUS
<1>3. g \in Int /\ v \in Int /\ g \in -50 .. 50 /\ v \in -50 .. 50
  BY <1>1, <1>2, ValuesOfFactors
<1>4. PICK a : a = Strength(Absolute(g))
  OBVIOUS
<1>5. PICK b : b = Strength(Absolute(v))
  OBVIOUS
<1>6. a \in 0 .. 50 /\ b \in 0 .. 50 /\ (a = 50 \/ b = 50)
  <2>1. a \in 0 .. 50 /\ b \in 0 .. 50
    BY <1>3, <1>4, <1>5 DEF Strength, Absolute
  <2>2. g = 50 \/ v + 50 = 0
    BY <1>1, <1>2, ValuesOfFactors
  <2>3. g = 50 => a = 50
    BY <1>4 DEF Strength, Absolute
  <2>4. v + 50 = 0 => b = 50
    BY <1>3, <1>5 DEF Strength, Absolute
  <2> QED BY <2>1, <2>2, <2>3, <2>4
<1>7. Observed(f) = [vixLevel |-> 18, yieldCurveSlope |-> 120, growthFactor |-> g,
                     volatilityFactor |-> v, riskLabel |-> "Neutral"]
  BY <1>1, <1>2, RegimeOfLiterals DEF Observed
<1>8. PICK s : s = Strengths(Observed(f))
  OBVIOUS
<1>9. /\ s.regime = 50 /\ s.vix = 20 /\ s.growth = a /\ s.curve = 70 /\ s.volatility = b
  <2>1. /\ Leaning(Observed(f)).regime = 0
        /\ Leaning(Observed(f)).vix = 1
        /\ Leaning(Observed(f)).curve = 1
    BY LeaningsOfLiterals
  <2>2. /\ Observed(f).vixLevel = 18 /\ Observed(f).yieldCurveSlope = 120
        /\ Observed(f).growthFactor = g /\ Observed(f).volatilityFactor = v
    BY <1>7
  <2>3. Strength((20 - 18) * 10) = 20 /\ Strength(120 - 50) = 70
    BY DEF Strength
  <2>4. ~(1 = -1)
    OBVIOUS
  <2> QED BY <1>4, <1>5, <1>8, <2>1, <2>2, <2>3, <2>4 DEF Strengths
<1>10. ComputeConviction(s) = 1500 + 25 * a + 400 + 1050 + 10 * b
  BY <1>6, <1>9 DEF ComputeConviction
<1>11. 1500 + 25 * a + 400 + 1050 + 10 * b >= 3000
  BY <1>6
<1> QED BY <1>8, <1>10, <1>11 DEF MinConviction

\* A strong growth factor or a weak volatility factor is the third for LONG
\* (SignalGenerator.cpp:103-173).
LEMMA LongSignal ==
  ASSUME NEW f \in Factors, f["Growth"] = "strong" \/ f["Volatility"] = "weak"
  PROVE  GenerateSignal(CurrentRegime, f) = "LONG"
<1> DEFINE o == Observed(f)
<1>1. Count(o, 1) \in Nat /\ Count(o, 1) >= 3
  <2>1. PICK i \in {"growth", "volatility"} : Leaning(o)[i] = 1
    BY LeaningsOfLiterals
  <2>2. i \in Indicators /\ i \notin {"vix", "curve"}
    BY DEF Indicators
  <2>3. \A k \in {"vix", "curve", i} : Leaning(o)[k] = 1
    BY <2>1, LeaningsOfLiterals
  <2> QED BY <2>2, <2>3, ThreeOnASide
<1>2. Count(o, -1) \in 0 .. 1
  <2>1. PICK m : m = -1
    OBVIOUS
  <2>2. PICK i : \A k \in Indicators : Leaning(o)[k] = m => k = i
    <3>1. m # 1 /\ m # 0
      BY <2>1
    <3>2. CASE f["Growth"] = "strong"
      <4>1. \A k \in Indicators : Leaning(o)[k] = m => k = "volatility"
        BY <3>1, <3>2, LeaningsOfLiterals DEF Indicators
      <4> QED BY <4>1
    <3>3. CASE f["Volatility"] = "weak"
      <4>1. \A k \in Indicators : Leaning(o)[k] = m => k = "growth"
        BY <3>1, <3>3, LeaningsOfLiterals DEF Indicators
      <4> QED BY <4>1
    <3> QED BY <3>2, <3>3
  <2>3. Count(o, m) \in 0 .. 1
    BY <2>2, OneOnASide
  <2> QED BY <2>1, <2>3
<1>3. Agreed(o, 1)
  BY <1>1, <1>2, ConvictionOfLiterals DEF Agreed
<1>4. ~Agreed(o, -1)
  BY NeverThreeAgainst
<1>5. Direction(o) = "LONG"
  BY <1>3, <1>4, Zenon DEF Direction
<1> QED BY <1>5 DEF GenerateSignal, Observed

\* Without them the VIX and the curve are alone.
LEMMA FlatSignal ==
  ASSUME NEW f \in Factors, f["Growth"] # "strong", f["Volatility"] # "weak"
  PROVE  GenerateSignal(CurrentRegime, f) = "FLAT"
<1> DEFINE o == Observed(f)
<1>1. Count(o, 1) \in 0 .. 2
  <2>1. ~(1 = 0) /\ ~(1 = -1)
    OBVIOUS
  <2>2. \A k \in Indicators : Leaning(o)[k] = 1 => k \in {"vix", "curve"}
    BY <2>1, LeaningsOfLiterals DEF Indicators
  <2> QED BY <2>2, TwoOnASide
<1>2. ~Agreed(o, 1)
  BY <1>1 DEF Agreed
<1>3. ~Agreed(o, -1)
  BY NeverThreeAgainst
<1>4. Direction(o) = "FLAT"
  BY <1>2, <1>3, Zenon DEF Direction
<1> QED BY <1>4 DEF GenerateSignal, Observed

-----------------------------------------------------------------------------
(* The inductive invariant. *)

\* Stages that have the rows, that have the surprises, that passed the validation,
\* that have labels, that have sizes, and that have the signal.
HasRows      == {"surprise", "covariance", "factors", "risk", "size", "write", "close"}
HasSurprises == {"covariance", "factors", "risk", "size", "write", "close"}
IsValid      == {"factors", "risk", "size", "write", "close"}
HasLabels    == {"risk", "size", "write", "close"}
HasSizes     == {"size", "write", "close"}
HasSignal    == {"write", "close"}
Stages       == {"idle", "secrets", "fetch", "align"} \cup HasRows

WorldInv ==
  /\ today \in Days
  /\ objects \in [{"today", "yesterday"} -> [S3Key -> {"absent", "bad", "full"}]]

\* Where the run is, and the indicator that is next.
PlaceInv ==
  /\ stage \in Stages /\ fetched \in 0 .. 7
  /\ stage \in {"idle", "secrets"} => fetched = 0
  /\ stage = "fetch" => fetched < 7

\* Every series has a form that a processor gives.
RawInv ==
  /\ DOMAIN rawData = Indicator
  /\ \A j \in Indicator : RawForm(j, rawData[j])

AlignedInv == alignedData = alignAllIndicators(rawData)

SurpriseInv == expectations = [j \in DOMAIN alignedData |-> ExpectationsOf(alignedData[j])]

RowsInv ==
  /\ stage \in HasRows => AlignedInv
  /\ stage \notin HasRows => alignedData = << >>
  /\ stage \in HasSurprises => SurpriseInv
  /\ stage \notin HasSurprises => expectations = << >>
  /\ stage \in IsValid => ValidData

LabelInv ==
  /\ factors \in Factors
  /\ stage \notin HasLabels => factors = NoFactors
  /\ stage \in HasLabels =>
       \A label \in {"Growth", "Volatility"} : factors[label] = "none" \/ CanLabel(label)

\* The signal is the one that the factors on hold lead to.
ResultInv ==
  /\ overrun \in BOOLEAN
  /\ stage \in HasSizes => overrun = TRUE
  /\ stage \in HasSignal => signal = GenerateSignal(CurrentRegime, factors)
  /\ stage \notin HasSignal => signal = "none"

RunInv == PlaceInv /\ RawInv /\ RowsInv /\ LabelInv /\ ResultInv

\* A file that somebody may read: made by a run that overran, and not SHORT.
GoodFile(file) ==
  /\ file \in File /\ file.signal # "SHORT"
  /\ file.state # "none" => file.overrun = TRUE

FileInv ==
  /\ GoodFile(outputFile)
  /\ stage = "close" => outputFile.overrun = TRUE
  /\ positions \in [Days -> File] /\ \A d \in Days : GoodFile(positions[d])

IInv == WorldInv /\ RunInv /\ FileInv

-----------------------------------------------------------------------------
(* What the rows of a run are. *)

\* An indicator is aligned if its series is not empty, and has the rows of the
\* closed forms.
LEMMA RowsOfTheRun ==
  ASSUME RawInv, AlignedInv
  PROVE  /\ DOMAIN alignedData = {j \in Indicator : rawData[j] # << >>}
         /\ \A j \in DOMAIN alignedData : RowsGood(j, rawData[j], alignedData[j])
<1>1. /\ DOMAIN alignedData = {j \in Indicator : rawData[j] # << >>}
      /\ \A j \in DOMAIN alignedData : alignedData[j] = Aligned(j, rawData[j])
  BY DEF AlignedInv, alignAllIndicators
<1>2. ASSUME NEW j \in DOMAIN alignedData PROVE RowsGood(j, rawData[j], alignedData[j])
  <2>1. j \in Indicator /\ rawData[j] # << >> /\ alignedData[j] = Aligned(j, rawData[j])
    BY <1>1
  <2>2. RawForm(j, rawData[j])
    BY <2>1 DEF RawInv
  <2>3. RowsGood(j, rawData[j], Aligned(j, rawData[j]))
    BY <2>1, <2>2, RowsOfSeries
  <2> QED BY <2>1, <2>3
<1> QED BY <1>1, <1>2

LEMMA NoRows ==
  ASSUME alignedData = << >>
  PROVE  DOMAIN alignedData = {}
  OBVIOUS

\* Whatever the stage, what rows there are have the closed forms.
LEMMA RowsAreGood ==
  ASSUME RunInv
  PROVE  /\ DOMAIN alignedData \subseteq Indicator
         /\ \A j \in DOMAIN alignedData : RowsGood(j, rawData[j], alignedData[j])
<1>1. CASE stage \in HasRows
  BY <1>1, RowsOfTheRun DEF RunInv, RowsInv
<1>2. CASE stage \notin HasRows
  BY <1>2, NoRows DEF RunInv, RowsInv
<1> QED BY <1>1, <1>2

\* There are surprises for the indicators that have rows, and as many as rows,
\* made of their ages.
LEMMA SurprisesOfTheRun ==
  ASSUME RawInv, AlignedInv, SurpriseInv
  PROVE  /\ DOMAIN expectations = DOMAIN alignedData
         /\ \A j \in DOMAIN alignedData :
              /\ expectations[j] \in Seq(SUBSET Ages)
              /\ Len(expectations[j]) = Len(alignedData[j])
<1>1. /\ DOMAIN expectations = DOMAIN alignedData
      /\ \A j \in DOMAIN alignedData : expectations[j] = ExpectationsOf(alignedData[j])
  BY DEF SurpriseInv
<1>2. ASSUME NEW j \in DOMAIN alignedData
      PROVE  /\ expectations[j] \in Seq(SUBSET Ages)
             /\ Len(expectations[j]) = Len(alignedData[j])
  <2>1. PICK rows : rows = alignedData[j]
    OBVIOUS
  <2>2. rows \in Seq(Ages) /\ Len(rows) \in Nat
    BY <2>1, RowsOfTheRun DEF RowsGood
  <2>3. ASSUME NEW i \in 1 .. Len(rows)
        PROVE  {rows[e] : e \in ExpectedFrom(rows, i)} \in SUBSET Ages
    <3>1. ExpectedFrom(rows, i) \subseteq 1 .. Len(rows)
      BY <2>2 DEF ExpectedFrom
    <3> QED BY <2>2, <3>1
  <2>4. ExpectationsOf(rows) \in [1 .. Len(rows) -> SUBSET Ages]
    BY <2>3 DEF ExpectationsOf
  <2> QED BY <1>1, <2>1, <2>2, <2>4, FunctionIsSeq
<1> QED BY <1>1, <1>2

\* With yields there is a series of one row, and no data are valid
\* (CovarianceCalculator.cpp:160-162).
LEMMA ValidMeansNoYields ==
  ASSUME RawInv, AlignedInv, SurpriseInv, ValidData
  PROVE  rawData["inverted_yield"] = << >>
<1> SUFFICES ASSUME rawData["inverted_yield"] # << >> PROVE FALSE
  OBVIOUS
<1>1. "inverted_yield" \in DOMAIN alignedData
  BY RowsOfTheRun, Kinds
<1>2. Len(alignedData["inverted_yield"]) = 1
  BY <1>1, RowsOfTheRun DEF RowsGood
<1>3. Len(alignedData["inverted_yield"]) >= 2
  BY <1>1, SurprisesOfTheRun DEF ValidData
<1> QED BY <1>2, <1>3

\* Six of the seven indicators are fewer than seven sensitivities.
LEMMA OneMissingIsTooFew ==
  ASSUME NEW D \in SUBSET Indicator, NEW missing \in Indicator, missing \notin D
  PROVE  Cardinality(D) < 7
<1>1. FetchOrder \in Surjection(1 .. 7, Indicator)
  BY DEF FetchOrder, Surjection, Indicator, DailyIndicators, QuarterlyIndicators, MonthlyIndicators
<1>2. IsFiniteSet(1 .. 7) /\ Cardinality(1 .. 7) = 7
  <2>1. 1 \in Int /\ 7 \in Int /\ ~(1 > 7) /\ 7 - 1 + 1 = 7
    OBVIOUS
  <2>2. /\ IsFiniteSet(1 .. 7)
        /\ Cardinality(1 .. 7) = IF 1 > 7 THEN 0 ELSE 7 - 1 + 1
    BY <2>1, FS_Interval, Zenon
  <2> QED BY <2>1, <2>2, Zenon
<1>3. IsFiniteSet(Indicator) /\ Cardinality(Indicator) <= 7
  BY <1>1, <1>2, FS_Surjection
<1>4. IsFiniteSet(D) /\ Cardinality(D) <= Cardinality(Indicator) /\ Cardinality(D) # Cardinality(Indicator)
  BY <1>3, FS_Subset
<1>5. Cardinality(D) \in Nat /\ Cardinality(Indicator) \in Nat
  BY <1>3, <1>4, FS_CardinalityType
<1> QED BY <1>3, <1>4, <1>5

\* Inflation has ten rows and the GDP TargetMonths, so that one of them is missing
\* from valid data (CovarianceCalculator.cpp:139-148).
LEMMA ValidMeansTooFew ==
  ASSUME RawInv, AlignedInv, SurpriseInv, ValidData
  PROVE  Cardinality(DOMAIN alignedData) < 7
<1>1. DOMAIN alignedData \in SUBSET Indicator
  BY RowsOfTheRun
<1>2. "inflation" \in Indicator /\ "gdp" \in Indicator
  BY Kinds
<1>3. ASSUME "inflation" \in DOMAIN alignedData, "gdp" \in DOMAIN alignedData
      PROVE  FALSE
  <2>1. Len(alignedData["inflation"]) = 10 /\ Len(alignedData["gdp"]) = TargetMonths
    BY <1>3, RowsOfTheRun DEF RowsGood
  <2>2. Len(alignedData["inflation"]) = Len(alignedData["gdp"])
    BY <1>3, SurprisesOfTheRun DEF ValidData
  <2>3. TargetMonths # 10
    OBVIOUS
  <2> QED BY <2>1, <2>2, <2>3
<1> QED BY <1>1, <1>2, <1>3, OneMissingIsTooFew

-----------------------------------------------------------------------------
(* The steps. *)

LEMMA NoDataIsRaw == DOMAIN NoData = Indicator /\ \A j \in Indicator : RawForm(j, NoData[j])
  BY EmptyIsRaw DEF NoData

LEMMA NoLabels == NoFactors \in Factors
  BY DEF NoFactors, Factors, FactorKinds

LEMMA InitIInv == Init => IInv
<1> SUFFICES ASSUME Init PROVE IInv
  OBVIOUS
<1>1. WorldInv
  BY PipelineAssumption DEF Init, WorldInv, Days, NothingStored, PipelineAssumption
<1>2. PlaceInv
  BY DEF Init, PlaceInv, Stages, HasRows
<1>3. RawInv
  BY NoDataIsRaw DEF Init, RawInv
<1>4. RowsInv
  BY DEF Init, RowsInv, HasRows, HasSurprises, IsValid
<1>5. LabelInv
  BY NoLabels DEF Init, LabelInv, HasLabels
<1>6. ResultInv
  BY DEF Init, ResultInv, HasSizes, HasSignal
<1>7. GoodFile(NoFile)
  BY DEF NoFile, GoodFile, File, Signals
<1>8. FileInv
  <2>1. outputFile = NoFile /\ stage # "close"
    BY DEF Init
  <2>2. positions = [d \in Days |-> NoFile]
    BY DEF Init
  <2>3. NoFile \in File
    BY <1>7 DEF GoodFile
  <2> QED BY <1>7, <2>1, <2>2, <2>3 DEF FileInv
<1> QED BY <1>1, <1>2, <1>3, <1>4, <1>5, <1>6, <1>8 DEF IInv, RunInv

\* A step that leaves the run alone.
LEMMA OtherStep ==
  ASSUME RunInv, UNCHANGED run
  PROVE  RunInv'
<1>1. PlaceInv'
  BY DEF RunInv, PlaceInv, run
<1>2. RawInv'
  BY DEF RunInv, RawInv, run
<1>3. RowsInv'
  BY DEF RunInv, RowsInv, AlignedInv, SurpriseInv, ValidData, run
<1>4. LabelInv'
  BY DEF RunInv, LabelInv, CanLabel, run
<1>5. ResultInv'
  BY DEF RunInv, ResultInv, run
<1> QED BY <1>1, <1>2, <1>3, <1>4, <1>5 DEF RunInv

\* The mode ends, and its locals are gone.
LEMMA ReturnStep ==
  ASSUME Return
  PROVE  RunInv' /\ stage' # "close"
<1>1. PlaceInv'
  BY DEF Return, PlaceInv, Stages, HasRows
<1>2. RawInv'
  BY NoDataIsRaw DEF Return, RawInv
<1>3. RowsInv'
  BY DEF Return, RowsInv, HasRows, HasSurprises, IsValid
<1>4. LabelInv'
  BY NoLabels DEF Return, LabelInv, HasLabels
<1>5. ResultInv'
  BY DEF Return, ResultInv, HasSizes, HasSignal
<1>6. stage' # "close"
  BY DEF Return
<1> QED BY <1>1, <1>2, <1>3, <1>4, <1>5, <1>6 DEF RunInv

\* A step that touches no file and does not open one.
LEMMA FilesKept ==
  ASSUME FileInv, stage' # "close" \/ stage' = stage, UNCHANGED <<outputFile, positions>>
  PROVE  FileInv'
  BY DEF FileInv, GoodFile

\* Today goes on, and what is stored under its keys may be of any kind.
LEMMA WorldStep == WorldInv /\ [Next]_vars => WorldInv'
<1> SUFFICES ASSUME WorldInv, [Next]_vars PROVE WorldInv'
  OBVIOUS
<1>1. CASE Retrieve
  <2>1. PICK found \in [S3Key -> UNION Range(Stored)] :
          /\ \A key \in S3Key : found[key] \in Stored[key]
          /\ objects' = [objects EXCEPT !["today"] = found]
    BY <1>1 DEF Retrieve
  <2>2. found \in [S3Key -> {"absent", "bad", "full"}]
    <3>1. \A key \in S3Key : Stored[key] \in SUBSET {"absent", "bad", "full"}
      BY PipelineAssumption DEF PipelineAssumption
    <3> QED BY <2>1, <3>1
  <2>3. today' = today
    BY <1>1 DEF Retrieve
  <2> QED BY <2>1, <2>2, <2>3 DEF WorldInv
<1>2. CASE NextDay
  <2>1. today' \in Days
    BY <1>2, PipelineAssumption DEF NextDay, WorldInv, Days, PipelineAssumption
  <2>2. NothingStored \in [S3Key -> {"absent", "bad", "full"}]
    BY DEF NothingStored
  <2>3. objects["today"] \in [S3Key -> {"absent", "bad", "full"}]
    BY DEF WorldInv
  <2>4. objects' = [d \in {"today", "yesterday"} |->
                      IF d = "yesterday" THEN objects["today"] ELSE NothingStored]
    BY <1>2 DEF NextDay
  <2>5. objects' \in [{"today", "yesterday"} -> [S3Key -> {"absent", "bad", "full"}]]
    BY <2>2, <2>3, <2>4
  <2> QED BY <2>1, <2>5 DEF WorldInv
<1>3. CASE UNCHANGED <<today, objects>>
  BY <1>3 DEF WorldInv
<1>4. Retrieve \/ NextDay \/ UNCHANGED <<today, objects>>
  BY DEF Next, vars, StartCovariance, GetSecrets, Fetch, Align, ExtractSurprises,
         CalculateCovariance, Decompose, AssignSensitivities, SizeAndSignal, OpenOutput,
         CloseOutput, Stop, Fail, UploadDaily
<1> QED BY <1>1, <1>2, <1>3, <1>4

\* One more series, of a form that a processor gives.
LEMMA FetchStep ==
  ASSUME RunInv, Fetch
  PROVE  RunInv'
<1>1. fetched \in 0 .. 6 /\ stage = "fetch"
  BY DEF Fetch, RunInv, PlaceInv
<1>2. PICK j : j = FetchOrder[fetched + 1]
  OBVIOUS
<1>3. j \in Indicator
  BY <1>1, <1>2 DEF FetchOrder, Indicator, DailyIndicators, QuarterlyIndicators, MonthlyIndicators
<1>4. PICK series \in Processed(j) : rawData' = [rawData EXCEPT ![j] = series]
  BY <1>2 DEF Fetch
<1>5. RawForm(j, series)
  BY <1>3, <1>4, ProcessedForm
<1>6. RawInv'
  <2>1. DOMAIN rawData' = Indicator
    BY <1>4 DEF RunInv, RawInv
  <2>2. ASSUME NEW k \in Indicator PROVE RawForm(k, rawData'[k])
    <3>1. CASE k = j
      <4>1. rawData'[k] = series
        BY <1>3, <1>4, <3>1 DEF RunInv, RawInv
      <4> QED BY <1>5, <3>1, <4>1
    <3>2. CASE k # j
      <4>1. rawData'[k] = rawData[k]
        BY <1>4, <2>2, <3>2 DEF RunInv, RawInv
      <4> QED BY <2>2, <4>1 DEF RunInv, RawInv
    <3> QED BY <3>1, <3>2
  <2> QED BY <2>1, <2>2 DEF RawInv, RawForm
<1>7. Len(FetchOrder) = 7
  BY DEF FetchOrder
<1>8. stage' \in {"fetch", "align"} /\ fetched' = fetched + 1 /\ (stage' = "fetch" => fetched' # 7)
  BY <1>7 DEF Fetch
<1>9. PlaceInv'
  BY <1>1, <1>8 DEF PlaceInv, Stages, HasRows
<1>10. RowsInv'
  BY <1>1, <1>8 DEF Fetch, RunInv, RowsInv, HasRows, HasSurprises, IsValid
<1>11. LabelInv'
  BY <1>1, <1>8 DEF Fetch, RunInv, LabelInv, HasLabels
<1>12. ResultInv'
  BY <1>1, <1>8 DEF Fetch, RunInv, ResultInv, HasSizes, HasSignal
<1> QED BY <1>6, <1>9, <1>10, <1>11, <1>12 DEF RunInv

\* A step of the mode that keeps the data and the rows.
LEMMA StageStep ==
  ASSUME RunInv, UNCHANGED <<fetched, rawData>>,
         stage' \in Stages \ {"fetch"}, stage \notin {"idle"}, stage' # "idle" /\ stage' # "secrets",
         RowsInv', LabelInv', ResultInv'
  PROVE  RunInv'
<1>1. PlaceInv'
  BY DEF RunInv, PlaceInv
<1>2. RawInv'
  BY DEF RunInv, RawInv
<1> QED BY <1>1, <1>2 DEF RunInv

LEMMA StartSteps ==
  ASSUME RunInv, StartCovariance \/ GetSecrets
  PROVE  RunInv'
<1>1. /\ stage' \in {"secrets", "fetch"} /\ stage \in {"idle", "secrets"}
      /\ UNCHANGED <<fetched, rawData, alignedData, expectations, factors, overrun, signal>>
  BY DEF StartCovariance, GetSecrets
<1>2. PlaceInv'
  BY <1>1 DEF RunInv, PlaceInv, Stages, HasRows
<1>3. RawInv'
  BY <1>1 DEF RunInv, RawInv
<1>4. RowsInv'
  BY <1>1 DEF RunInv, RowsInv, HasRows, HasSurprises, IsValid
<1>5. LabelInv'
  BY <1>1 DEF RunInv, LabelInv, HasLabels
<1>6. ResultInv'
  BY <1>1 DEF RunInv, ResultInv, HasSizes, HasSignal
<1> QED BY <1>2, <1>3, <1>4, <1>5, <1>6 DEF RunInv

LEMMA AlignSteps ==
  ASSUME RunInv, Align \/ ExtractSurprises
  PROVE  RunInv'
<1>1. RowsInv'
  BY DEF RunInv, RowsInv, AlignedInv, SurpriseInv, Align, ExtractSurprises, HasRows, HasSurprises, IsValid
<1>2. LabelInv'
  BY DEF RunInv, LabelInv, Align, ExtractSurprises, HasLabels
<1>3. ResultInv'
  BY DEF RunInv, ResultInv, Align, ExtractSurprises, HasSizes, HasSignal
<1>4. /\ stage' \in {"surprise", "covariance"} /\ stage \in {"align", "surprise"}
      /\ UNCHANGED <<fetched, rawData>>
  BY DEF Align, ExtractSurprises
<1> QED BY <1>1, <1>2, <1>3, <1>4, StageStep DEF Stages, HasRows

LEMMA CovarianceStep ==
  ASSUME RunInv, CalculateCovariance
  PROVE  RunInv' /\ stage' # "close"
<1>1. CASE Return
  BY <1>1, ReturnStep
<1>2. CASE ~Return
  <2>1. /\ stage = "covariance" /\ stage' = "factors" /\ ValidData
        /\ UNCHANGED <<fetched, rawData, alignedData, expectations, factors, overrun, signal>>
    BY <1>2 DEF CalculateCovariance
  <2>2. RowsInv'
    BY <2>1 DEF RunInv, RowsInv, AlignedInv, SurpriseInv, ValidData, HasRows, HasSurprises, IsValid
  <2>3. LabelInv'
    BY <2>1 DEF RunInv, LabelInv, HasLabels
  <2>4. ResultInv'
    BY <2>1 DEF RunInv, ResultInv, HasSizes, HasSignal
  <2> QED BY <2>1, <2>2, <2>3, <2>4, StageStep DEF Stages, HasRows
<1> QED BY <1>1, <1>2

\* The labels are ones that the indicators of the run can give.
LEMMA DecomposeStep ==
  ASSUME RunInv, Decompose
  PROVE  RunInv' /\ stage' # "close"
<1>1. CASE Return
  BY <1>1, ReturnStep
<1>2. CASE ~Return
  <2>1. /\ stage = "factors" /\ stage' = "risk"
        /\ factors' \in {f \in Factors : \A label \in DOMAIN f : f[label] = "none" \/ CanLabel(label)}
        /\ UNCHANGED <<fetched, rawData, alignedData, expectations, overrun, signal>>
    BY <1>2 DEF Decompose
  <2>2. RowsInv'
    BY <2>1 DEF RunInv, RowsInv, AlignedInv, SurpriseInv, ValidData, HasRows, HasSurprises, IsValid
  <2>3. LabelInv'
    <3>1. factors' \in Factors /\ DOMAIN factors' = {"Growth", "Volatility"}
      BY <2>1 DEF Factors
    <3>2. \A label \in {"Growth", "Volatility"} : factors'[label] = "none" \/ CanLabel(label)
      BY <2>1, <3>1
    <3>3. \A label \in {"Growth", "Volatility"} : factors'[label] = "none" \/ CanLabel(label)'
      BY <2>1, <3>2 DEF CanLabel
    <3> QED BY <2>1, <3>1, <3>3 DEF LabelInv, HasLabels
  <2>4. ResultInv'
    BY <2>1 DEF RunInv, ResultInv, HasSizes, HasSignal
  <2> QED BY <2>1, <2>2, <2>3, <2>4, StageStep DEF Stages, HasRows
<1> QED BY <1>1, <1>2

\* Valid data are of fewer than seven indicators, so that the assignment of the
\* sensitivities overruns (MultiVarAnalysisWorkflow.cpp:220-227).
LEMMA SensitivityStep ==
  ASSUME RunInv, AssignSensitivities
  PROVE  RunInv'
<1>1. /\ stage = "risk" /\ stage' = "size"
      /\ UNCHANGED <<fetched, rawData, alignedData, expectations, factors, signal>>
  BY DEF AssignSensitivities
<1>2. RawInv /\ AlignedInv /\ SurpriseInv /\ ValidData
  BY <1>1 DEF RunInv, RowsInv, HasRows, HasSurprises, IsValid
<1>3. overrun' = TRUE
  BY <1>2, ValidMeansTooFew DEF AssignSensitivities
<1>4. RowsInv'
  BY <1>1 DEF RunInv, RowsInv, AlignedInv, SurpriseInv, ValidData, HasRows, HasSurprises, IsValid
<1>5. LabelInv'
  BY <1>1 DEF RunInv, LabelInv, CanLabel, HasLabels
<1>6. ResultInv'
  BY <1>1, <1>3 DEF RunInv, ResultInv, HasSizes, HasSignal
<1> QED BY <1>1, <1>4, <1>5, <1>6, StageStep DEF Stages, HasRows

LEMMA SignalStep ==
  ASSUME RunInv, SizeAndSignal
  PROVE  RunInv'
<1>1. /\ stage = "size" /\ stage' = "write" /\ signal' = GenerateSignal(CurrentRegime, factors)
      /\ UNCHANGED <<fetched, rawData, alignedData, expectations, factors, overrun>>
  BY DEF SizeAndSignal
<1>2. RowsInv'
  BY <1>1 DEF RunInv, RowsInv, AlignedInv, SurpriseInv, ValidData, HasRows, HasSurprises, IsValid
<1>3. LabelInv'
  BY <1>1 DEF RunInv, LabelInv, CanLabel, HasLabels
<1>4. ResultInv'
  <2>1. GenerateSignal(CurrentRegime, factors)' = GenerateSignal(CurrentRegime, factors)
    BY <1>1
  <2> QED BY <1>1, <2>1 DEF RunInv, ResultInv, HasSizes, HasSignal
<1> QED BY <1>1, <1>2, <1>3, <1>4, StageStep DEF Stages, HasRows

LEMMA OpenStep ==
  ASSUME RunInv, OpenOutput
  PROVE  RunInv'
<1>1. /\ stage = "write" /\ stage' = "close"
      /\ UNCHANGED <<fetched, rawData, alignedData, expectations, factors, overrun, signal>>
  BY DEF OpenOutput
<1>2. RowsInv'
  BY <1>1 DEF RunInv, RowsInv, AlignedInv, SurpriseInv, ValidData, HasRows, HasSurprises, IsValid
<1>3. LabelInv'
  BY <1>1 DEF RunInv, LabelInv, CanLabel, HasLabels
<1>4. ResultInv'
  BY <1>1 DEF RunInv, ResultInv, HasSizes, HasSignal
<1> QED BY <1>1, <1>2, <1>3, <1>4, StageStep DEF Stages, HasRows

\* The signal of a run that got as far as writing.
LEMMA SignalOfTheRun ==
  ASSUME RunInv, stage \in HasSignal
  PROVE  /\ factors \in Factors
         /\ factors["Growth"] = "strong" \/ factors["Volatility"] = "weak" => signal = "LONG"
         /\ ~(factors["Growth"] = "strong" \/ factors["Volatility"] = "weak") => signal = "FLAT"
<1>1. factors \in Factors /\ signal = GenerateSignal(CurrentRegime, factors)
  BY DEF RunInv, LabelInv, ResultInv
<1> QED BY <1>1, LongSignal, FlatSignal

\* The file gets the signal and the overrun of the run.
LEMMA OpenFile ==
  ASSUME RunInv, FileInv, OpenOutput
  PROVE  FileInv'
<1>1. stage = "write" /\ UNCHANGED positions
      /\ outputFile' = [state |-> "partial", overrun |-> overrun, signal |-> signal]
  BY DEF OpenOutput
<1>2. overrun = TRUE
  BY <1>1 DEF RunInv, ResultInv, HasSizes
<1>3. signal \in {"LONG", "FLAT"}
  BY <1>1, SignalOfTheRun DEF HasSignal
<1>4. /\ outputFile' \in File /\ outputFile'.overrun = TRUE /\ outputFile'.signal # "SHORT"
  BY <1>1, <1>2, <1>3 DEF File, Signals
<1>5. GoodFile(outputFile')
  BY <1>4 DEF GoodFile
<1> QED BY <1>1, <1>4, <1>5 DEF FileInv, GoodFile

LEMMA CloseFile ==
  ASSUME FileInv, CloseOutput
  PROVE  FileInv'
<1>1. /\ stage = "close" /\ stage' = "idle" /\ UNCHANGED positions
      /\ outputFile' = [outputFile EXCEPT !.state = "whole"]
  BY DEF CloseOutput, Return
<1>2. outputFile \in File /\ outputFile.overrun = TRUE /\ outputFile.signal # "SHORT"
  BY <1>1 DEF FileInv, GoodFile
<1>3. outputFile' \in File /\ outputFile'.overrun = TRUE /\ outputFile'.signal # "SHORT"
  BY <1>1, <1>2 DEF File
<1> QED BY <1>1, <1>3 DEF FileInv, GoodFile

LEMMA UploadFile ==
  ASSUME WorldInv, FileInv, UploadDaily
  PROVE  FileInv'
<1>1. positions' = [positions EXCEPT ![today] = outputFile] /\ UNCHANGED <<outputFile, stage>>
  BY DEF UploadDaily, run
<1>2. \A d \in Days : positions'[d] \in {positions[d], outputFile}
  BY <1>1 DEF FileInv
<1>3. positions' \in [Days -> File]
  BY <1>1 DEF FileInv, GoodFile
<1> QED BY <1>1, <1>2, <1>3 DEF FileInv, GoodFile

LEMMA NextIInv == IInv /\ [Next]_vars => IInv'
<1> SUFFICES ASSUME IInv, [Next]_vars PROVE IInv'
  OBVIOUS
<1>1. WorldInv /\ RunInv /\ FileInv /\ WorldInv'
  BY WorldStep DEF IInv
<1> SUFFICES RunInv' /\ FileInv'
  BY <1>1 DEF IInv
<1>2. CASE Retrieve \/ NextDay
  <2>1. UNCHANGED <<run, outputFile, positions>>
    BY <1>2 DEF Retrieve, NextDay
  <2> QED BY <1>1, <2>1, OtherStep, FilesKept DEF run
<1>3. CASE StartCovariance \/ GetSecrets
  BY <1>1, <1>3, StartSteps, FilesKept DEF StartCovariance, GetSecrets
<1>4. CASE Fetch
  BY <1>1, <1>4, FetchStep, FilesKept DEF Fetch
<1>5. CASE Align \/ ExtractSurprises
  BY <1>1, <1>5, AlignSteps, FilesKept DEF Align, ExtractSurprises
<1>6. CASE CalculateCovariance
  BY <1>1, <1>6, CovarianceStep, FilesKept DEF CalculateCovariance
<1>7. CASE Decompose
  BY <1>1, <1>7, DecomposeStep, FilesKept DEF Decompose
<1>8. CASE AssignSensitivities
  BY <1>1, <1>8, SensitivityStep, FilesKept DEF AssignSensitivities
<1>9. CASE SizeAndSignal
  BY <1>1, <1>9, SignalStep, FilesKept DEF SizeAndSignal
<1>10. CASE OpenOutput
  BY <1>1, <1>10, OpenStep, OpenFile
<1>11. CASE CloseOutput
  BY <1>1, <1>11, ReturnStep, CloseFile DEF CloseOutput
<1>12. CASE Stop
  BY <1>1, <1>12, ReturnStep, FilesKept DEF Stop, Fail
<1>13. CASE UploadDaily
  BY <1>1, <1>13, OtherStep, UploadFile DEF UploadDaily
<1>14. CASE UNCHANGED vars
  <2>1. UNCHANGED <<run, outputFile, positions>>
    BY <1>14 DEF vars
  <2> QED BY <1>1, <2>1, OtherStep, FilesKept DEF run
<1> QED BY <1>2, <1>3, <1>4, <1>5, <1>6, <1>7, <1>8, <1>9, <1>10, <1>11, <1>12, <1>13,
           <1>14 DEF Next

LEMMA PipelineInvariance == Spec => []IInv
  BY InitIInv, NextIInv, PTL DEF Spec

-----------------------------------------------------------------------------
(* The theorems. *)

\* Days, objects, the locals of the mode and the file stay in their types.
THEOREM PipelineTypeCorrect == Spec => []TypeOK
<1>1. IInv => TypeOK
  <2> SUFFICES ASSUME IInv PROVE TypeOK
    OBVIOUS
  <2>1. /\ today \in Days
        /\ objects \in [{"today", "yesterday"} -> [S3Key -> {"absent", "bad", "full"}]]
    BY DEF IInv, WorldInv
  <2>2. stage \in Stages /\ fetched \in 0 .. Len(FetchOrder)
    BY DEF IInv, RunInv, PlaceInv, FetchOrder
  <2>3. DOMAIN rawData = Indicator /\ \A j \in Indicator : rawData[j] \in Seq(Ages)
    BY RawFormIsSeries DEF IInv, RunInv, RawInv
  <2>4. /\ DOMAIN alignedData \subseteq Indicator
        /\ \A j \in DOMAIN alignedData : alignedData[j] \in Seq(Ages)
    BY RowsAreGood DEF IInv, RowsGood
  <2>5. /\ DOMAIN expectations \subseteq Indicator
        /\ \A j \in DOMAIN expectations : expectations[j] \in Seq(SUBSET Ages)
    <3>1. CASE stage \in HasSurprises
      BY <2>4, <3>1, SurprisesOfTheRun DEF IInv, RunInv, RowsInv, HasRows, HasSurprises
    <3>2. CASE stage \notin HasSurprises
      <4>1. DOMAIN expectations = {}
        BY <3>2 DEF IInv, RunInv, RowsInv
      <4> QED BY <4>1
    <3> QED BY <3>1, <3>2
  <2>6. factors \in Factors /\ overrun \in BOOLEAN
    BY DEF IInv, RunInv, LabelInv, ResultInv
  <2>7. signal \in Signals
    BY SignalOfTheRun DEF IInv, RunInv, ResultInv, Signals
  <2>8. outputFile \in File /\ positions \in [Days -> File]
    BY DEF IInv, FileInv, GoodFile
  <2> QED BY <2>1, <2>2, <2>3, <2>4, <2>5, <2>6, <2>7, <2>8 DEF TypeOK, Stages, HasRows
<1> QED BY PipelineInvariance, <1>1, PTL

\* The loops of the aligner give the closed forms, for every month and target,
\* every gap in a monthly series and every length of the VIX
\* (DataAligner.cpp:14-115, 186-197).
THEOREM AlignedAsClosedForms == Spec => []AlignedAges
<1>1. IInv => AlignedAges
  BY RowsAreGood DEF IInv, AlignedAges, RowsGood
<1> QED BY PipelineInvariance, <1>1, PTL

\* A run that has yesterday's yields never gets past the validation of the
\* covariance (InvertedYieldStatsCalculator.cpp:18-38, DataAligner.cpp:32-41,
\* CovarianceCalculator.cpp:160-162), however many values the other series have.
THEOREM NoResultWithYields == Spec => []YieldsStopTheRun
<1>1. IInv => YieldsStopTheRun
  BY ValidMeansNoYields DEF IInv, RunInv, RowsInv, HasRows, HasSurprises, IsValid, YieldsStopTheRun
<1> QED BY PipelineInvariance, <1>1, PTL

\* Every output of the covariance mode, written or uploaded, was computed by a
\* run that wrote beyond the end of its sensitivities
\* (CovarianceCalculator.cpp:137-162, MultiVarAnalysisWorkflow.cpp:220-227).
THEOREM ResultsOverrun == Spec => []EveryResultOverruns
<1>1. IInv => EveryResultOverruns
  BY DEF IInv, RunInv, ResultInv, FileInv, GoodFile, HasSizes, EveryResultOverruns
<1> QED BY PipelineInvariance, <1>1, PTL

\* What the direction of a run depends on, whatever the data: never SHORT, and
\* LONG by the variance of growth or of volatility alone
\* (MultiVarAnalysisWorkflow.cpp:252-260, SignalGenerator.cpp:103-173).
THEOREM SignalFromTwoVariances == Spec => []SignalOfTwoVariances
<1>1. IInv => SignalOfTwoVariances
  <2> SUFFICES ASSUME IInv PROVE SignalOfTwoVariances
    OBVIOUS
  <2>1. RunInv /\ (signal # "none" => stage \in HasSignal)
    BY DEF IInv, RunInv, ResultInv
  <2>2. ASSUME signal # "none"
        PROVE  signal = IF factors["Growth"] = "strong" \/ factors["Volatility"] = "weak"
                        THEN "LONG" ELSE "FLAT"
    BY <2>1, <2>2, SignalOfTheRun
  <2>3. ASSUME signal = "LONG", "vix" \notin DOMAIN alignedData
        PROVE  factors["Growth"] = "strong"
    <3>1. stage \in HasLabels
      BY <2>1, <2>3 DEF HasSignal, HasLabels
    <3>2. ~CanLabel("Volatility")
      BY <2>3 DEF CanLabel, LabelledBy
    <3>3. factors["Volatility"] = "none"
      BY <2>1, <3>1, <3>2 DEF RunInv, LabelInv
    <3> QED BY <2>2, <2>3, <3>3
  <2>4. \A d \in Days : "SHORT" \notin {outputFile.signal, positions[d].signal}
    BY DEF IInv, FileInv, GoodFile
  <2> QED BY <2>2, <2>3, <2>4 DEF SignalOfTwoVariances
<1> QED BY PipelineInvariance, <1>1, PTL
=============================================================================
