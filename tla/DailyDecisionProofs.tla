------------------------- MODULE DailyDecisionProofs -------------------------
(***************************************************************************)
(* What DailyDecision promises for every series of integers, every trade   *)
(* history and every size.                                                 *)
(***************************************************************************)
EXTENDS DailyDecision, SetFacts

\* The decision on hold is the one the market on hold leads to; its size is one the
\* base allows.  This is the inductive invariant: the direction alone says nothing
\* of the regime.
DecisionInv ==
  /\ market \in Markets
  /\ direction = Direction(Observables(market))
  /\ conviction = Conviction(Observables(market))
  /\ recommendedNotional \in 0 .. BaseNotional
  /\ tradeReturns \in Seq(TradeReturns \ {0})

LEMMA FiniteIndicators == IsFiniteSet(Indicators)
<1>1. IsFiniteSet({}) BY FS_EmptySet
<1>2. IsFiniteSet({"regime"}) BY FS_Singleton
<1>3. IsFiniteSet({"regime"} \cup {"vix"}) BY <1>2, FS_AddElement
<1>4. IsFiniteSet({"regime"} \cup {"vix"} \cup {"growth"}) BY <1>3, FS_AddElement
<1>5. IsFiniteSet({"regime"} \cup {"vix"} \cup {"growth"} \cup {"curve"}) BY <1>4, FS_AddElement
<1>6. IsFiniteSet({"regime"} \cup {"vix"} \cup {"growth"} \cup {"curve"} \cup {"volatility"})
  BY <1>5, FS_AddElement
<1>7. Indicators = {"regime"} \cup {"vix"} \cup {"growth"} \cup {"curve"} \cup {"volatility"}
  BY DEF Indicators
<1> QED BY <1>6, <1>7

\* Two indicators against a side are a veto (SignalGenerator.cpp:112-118).
LEMMA TwoAgainstIsAVeto ==
  ASSUME NEW o, NEW side \in {-1, 1},
         NEW i \in Indicators, NEW j \in Indicators, i # j,
         NEW against \in {-1, 1}, against + side = 0,
         Leaning(o)[i] = against, Leaning(o)[j] = against
  PROVE  ~Agreed(o, side)
<1> DEFINE Against == {k \in Indicators : Leaning(o)[k] = against}
<1>1. IsFiniteSet(Indicators) BY FiniteIndicators
<1>2. IsFiniteSet(Against) BY <1>1, FS_Subset
<1>3. {i, j} \subseteq Against OBVIOUS
<1>4. Cardinality({i, j}) = 2
  <2>1. IsFiniteSet({i}) /\ Cardinality({i}) = 1 BY FS_Singleton
  <2>2. Cardinality({i} \cup {j}) = Cardinality({i}) + 1 BY <2>1, FS_AddElement
  <2>3. {i, j} = {i} \cup {j} OBVIOUS
  <2> QED BY <2>1, <2>2, <2>3
<1>5. Cardinality(Against) >= 2 BY <1>2, <1>3, <1>4, FS_Subset, FS_CardinalityType
<1>6. Count(o, against) >= 2 BY <1>5 DEF Count
<1>7. Cardinality(Against) \in Nat BY <1>2, FS_CardinalityType
<1>8. side \in Int /\ against \in Int OBVIOUS
<1>9. against = -side BY <1>8
<1> QED BY <1>6, <1>7, <1>9 DEF Agreed, Count

\* In Risk-Off the regime and the VIX both lean to SHORT: Risk-Off needs a VIX
\* above 30, which is the signal's own border.
LEMMA RiskOffVotes ==
  ASSUME NEW m \in Markets, Regime(m).riskLabel = "Risk-Off"
  PROVE  /\ Leaning(Observables(m))["regime"] = -1
         /\ Leaning(Observables(m))["vix"] = -1
<1>0. VixLevels \subseteq Nat BY SeriesAssumption
<1>1. m.vix \in Int
  <2>1. m.vix \in VixLevels BY DEF Markets
  <2>2. m.vix \in Nat BY <1>0, <2>1
  <2> QED BY <2>2
<1>2. m.vix > 30
  BY <1>1 DEF Regime, ClassifyRegime, RiskLabel
<1> QED BY <1>1, <1>2 DEF Leaning, Lean, Observables, Regime, ClassifyRegime

\* In Risk-On both lean to LONG: Risk-On needs a VIX below 12.
LEMMA RiskOnVotes ==
  ASSUME NEW m \in Markets, Regime(m).riskLabel = "Risk-On"
  PROVE  /\ Leaning(Observables(m))["regime"] = 1
         /\ Leaning(Observables(m))["vix"] = 1
<1>0. VixLevels \subseteq Nat BY SeriesAssumption
<1>1. m.vix \in Int
  <2>1. m.vix \in VixLevels BY DEF Markets
  <2>2. m.vix \in Nat BY <1>0, <2>1
  <2> QED BY <2>2
<1>2. m.vix < 12
  BY <1>1 DEF Regime, ClassifyRegime, RiskLabel
<1> QED BY <1>1, <1>2 DEF Leaning, Lean, Observables, Regime, ClassifyRegime

-----------------------------------------------------------------------------
(* The multiplier. *)

\* The five scores, and the largest value of each.
VixScore(x)     == Score(x, 10, 40)
MoveScore(x)    == Score(x, 80, 70)
SpreadScore(x)  == Score(x, 100, 150)
CurveScore(x)   == Score(x, -100, 100)
PutCallScore(x) == Score(x, 80, 40)
Top == 4200

LEMMA Units == Top \in Nat /\ Unit \in Nat \ {0}
  BY DEF Top, Unit

\* A score lies in its range and grows with the observable.
LEMMA ScoresGrow ==
  ASSUME NEW x \in Int, NEW y \in Int, x <= y
  PROVE  /\ VixScore(x) \in 0 .. Top /\ VixScore(y) \in 0 .. Top /\ VixScore(x) <= VixScore(y)
         /\ MoveScore(x) \in 0 .. Top /\ MoveScore(y) \in 0 .. Top /\ MoveScore(x) <= MoveScore(y)
         /\ SpreadScore(x) \in 0 .. Top /\ SpreadScore(y) \in 0 .. Top /\ SpreadScore(x) <= SpreadScore(y)
         /\ CurveScore(x) \in 0 .. Top /\ CurveScore(y) \in 0 .. Top /\ CurveScore(x) <= CurveScore(y)
         /\ PutCallScore(x) \in 0 .. Top /\ PutCallScore(y) \in 0 .. Top /\ PutCallScore(x) <= PutCallScore(y)
<1>1. 4200 \div 40 = 105 /\ 4200 \div 70 = 60 /\ 4200 \div 150 = 28 /\ 4200 \div 100 = 42
  OBVIOUS
<1>2. VixScore(x) \in 0 .. Top /\ VixScore(y) \in 0 .. Top /\ VixScore(x) <= VixScore(y)
  BY <1>1 DEF VixScore, Score, Clamp, Lower, Higher, Top
<1>3. MoveScore(x) \in 0 .. Top /\ MoveScore(y) \in 0 .. Top /\ MoveScore(x) <= MoveScore(y)
  BY <1>1 DEF MoveScore, Score, Clamp, Lower, Higher, Top
<1>4. SpreadScore(x) \in 0 .. Top /\ SpreadScore(y) \in 0 .. Top /\ SpreadScore(x) <= SpreadScore(y)
  BY <1>1 DEF SpreadScore, Score, Clamp, Lower, Higher, Top
<1>5. CurveScore(x) \in 0 .. Top /\ CurveScore(y) \in 0 .. Top /\ CurveScore(x) <= CurveScore(y)
  BY <1>1 DEF CurveScore, Score, Clamp, Lower, Higher, Top
<1>6. PutCallScore(x) \in 0 .. Top /\ PutCallScore(y) \in 0 .. Top /\ PutCallScore(x) <= PutCallScore(y)
  BY <1>1 DEF PutCallScore, Score, Clamp, Lower, Higher, Top
<1> QED BY <1>2, <1>3, <1>4, <1>5, <1>6

LEMMA MarketTypes ==
  ASSUME NEW m \in Markets
  PROVE  /\ m.vix \in Nat /\ m.slope \in Int /\ m.growth \in Int /\ m.volatility \in Int
         /\ m = [vix |-> m.vix, slope |-> m.slope, growth |-> m.growth, volatility |-> m.volatility]
<1>1. /\ m.vix \in VixLevels /\ m.slope \in Slopes
      /\ m.growth \in GrowthFactors /\ m.volatility \in VolatilityFactors
  BY DEF Markets
<1>2. m = [vix |-> m.vix, slope |-> m.slope, growth |-> m.growth, volatility |-> m.volatility]
  BY DEF Markets
<1> QED BY <1>1, <1>2, SeriesAssumption

\* The multiplier of a market: between 1 and 2.5, and larger in a market with a
\* higher VIX and a flatter curve.
Mult(m) == VolatilityMultiplier(Regime(m))

LEMMA StressGrows ==
  ASSUME NEW m \in Markets, NEW n \in Markets, n.vix >= m.vix, n.slope <= m.slope
  PROVE  /\ Mult(m) \in Unit .. Unit + 2 * Top /\ Mult(m) <= Mult(n)
<1> DEFINE Sum(k) == 8 * VixScore(k.vix) + 5 * MoveScore(EstimatedMOVE(k.vix))
                       + 3 * SpreadScore(EstimatedSpread(k.vix)) + 3 * CurveScore(-k.slope)
                       + PutCallScore(EstimatedPutCall(k.vix))
<1>1. ASSUME NEW k \in Markets PROVE Mult(k) = Unit + Sum(k) \div 10
  BY DEF Mult, VolatilityMultiplier, Stress, Regime, ClassifyRegime, VixScore, MoveScore,
         SpreadScore, CurveScore, PutCallScore
<1>2. m.vix \in Int /\ n.vix \in Int /\ m.slope \in Int /\ n.slope \in Int /\ m.vix <= n.vix
  BY MarketTypes
<1>3. /\ EstimatedMOVE(m.vix) \in Int /\ EstimatedMOVE(n.vix) \in Int
      /\ EstimatedMOVE(m.vix) <= EstimatedMOVE(n.vix)
  BY <1>2 DEF EstimatedMOVE, Clamp, Lower, Higher
<1>4. /\ EstimatedSpread(m.vix) \in Int /\ EstimatedSpread(n.vix) \in Int
      /\ EstimatedSpread(m.vix) <= EstimatedSpread(n.vix)
  BY <1>2 DEF EstimatedSpread, Clamp, Lower, Higher
<1>5. /\ EstimatedPutCall(m.vix) \in Int /\ EstimatedPutCall(n.vix) \in Int
      /\ EstimatedPutCall(m.vix) <= EstimatedPutCall(n.vix)
  BY <1>2 DEF EstimatedPutCall, Clamp, Lower, Higher
<1>6. -m.slope \in Int /\ -n.slope \in Int /\ -m.slope <= -n.slope
  BY <1>2
<1>8. PICK v1, v2 \in 0 .. Top : v1 = VixScore(m.vix) /\ v2 = VixScore(n.vix) /\ v1 <= v2
  BY <1>2, ScoresGrow
<1>9. PICK m1, m2 \in 0 .. Top : m1 = MoveScore(EstimatedMOVE(m.vix)) /\ m2 = MoveScore(EstimatedMOVE(n.vix)) /\ m1 <= m2
  BY <1>3, ScoresGrow
<1>10. PICK s1, s2 \in 0 .. Top : s1 = SpreadScore(EstimatedSpread(m.vix)) /\ s2 = SpreadScore(EstimatedSpread(n.vix)) /\ s1 <= s2
  BY <1>4, ScoresGrow
<1>11. PICK c1, c2 \in 0 .. Top : c1 = CurveScore(-m.slope) /\ c2 = CurveScore(-n.slope) /\ c1 <= c2
  BY <1>6, ScoresGrow
<1>12. PICK p1, p2 \in 0 .. Top : p1 = PutCallScore(EstimatedPutCall(m.vix)) /\ p2 = PutCallScore(EstimatedPutCall(n.vix)) /\ p1 <= p2
  BY <1>5, ScoresGrow
<1>13. PICK a, b \in 0 .. 20 * Top :
         /\ a = 8 * v1 + 5 * m1 + 3 * s1 + 3 * c1 + p1
         /\ b = 8 * v2 + 5 * m2 + 3 * s2 + 3 * c2 + p2
         /\ a <= b
  BY <1>8, <1>9, <1>10, <1>11, <1>12, Units
<1>14. a \div 10 \in 0 .. 2 * Top /\ b \div 10 \in Nat /\ a \div 10 <= b \div 10
  BY <1>13, Units
<1>15. Mult(m) = Unit + a \div 10 /\ Mult(n) = Unit + b \div 10
  BY <1>1, <1>8, <1>9, <1>10, <1>11, <1>12, <1>13
<1> QED BY <1>14, <1>15, Units

-----------------------------------------------------------------------------
(* The size. *)

\* The size of an unscaled notional a in market m.
SizeOf(a, m) == ComputePositionSize(a, Regime(m))

\* Scaling never enlarges, a larger notional stays larger, and a more stressed
\* market makes it smaller.
LEMMA ScaleMonotone ==
  ASSUME NEW a \in Nat, NEW b \in Nat, a <= b,
         NEW m \in Markets, NEW n \in Markets, Mult(m) <= Mult(n)
  PROVE  /\ Scale(a, Regime(n)) \in 0 .. a
         /\ Scale(a, Regime(n)) <= Scale(b, Regime(m))
<1>1. /\ Mult(m) \in Nat \ {0} /\ Mult(n) \in Nat \ {0} /\ Unit <= Mult(n)
  <2>1. \A k \in Markets : k.vix >= k.vix /\ k.slope <= k.slope
    BY MarketTypes
  <2>2. Mult(m) \in Unit .. Unit + 2 * Top /\ Mult(n) \in Unit .. Unit + 2 * Top
    BY <2>1, StressGrows
  <2> QED BY <2>2, Units
<1>2. PICK u, v \in Nat \ {0} : u = Mult(m) /\ v = Mult(n) /\ u <= v /\ Unit <= v
  BY <1>1
<1>3. a * Unit \in Nat /\ b * Unit \in Nat /\ a * Unit <= b * Unit
  BY Units, ProductMonotone
<1>4. (a * Unit) \div v <= (b * Unit) \div u
  BY <1>2, <1>3, QuotientMonotone
<1>5. (a * Unit) \div v \in 0 .. a
  <2>1. a * Unit <= a * v
    <3>1. Unit * a <= v * a
      BY <1>2, Units, ProductMonotone
    <3> QED BY <3>1, Units
  <2>2. (a * Unit) \div v <= a
    BY <1>2, <1>3, <2>1, QuotientBelow
  <2>3. (a * Unit) \div v \in Nat
    BY <1>2, <1>3, Quotient
  <2> QED BY <2>2, <2>3
<1>6. Scale(a, Regime(n)) = (a * Unit) \div v /\ Scale(b, Regime(m)) = (b * Unit) \div u
  BY <1>2 DEF Scale, Mult
<1> QED BY <1>4, <1>5, <1>6

LEMMA SizeMonotone ==
  ASSUME NEW a \in Nat, NEW b \in Nat, a <= b,
         NEW m \in Markets, NEW n \in Markets, Mult(m) <= Mult(n)
  PROVE  SizeOf(a, n) \in 0 .. a /\ SizeOf(a, n) <= SizeOf(b, m)
<1>1. PICK s : s = Scale(a, Regime(n))
  OBVIOUS
<1>2. PICK t : t = Scale(b, Regime(m))
  OBVIOUS
<1>3. \A k \in Markets : Mult(k) <= Mult(k)
  <2>1. \A k \in Markets : k.vix >= k.vix /\ k.slope <= k.slope
    BY MarketTypes
  <2> QED BY <2>1, StressGrows
<1>4. s \in 0 .. a /\ s <= t
  BY <1>1, <1>2, ScaleMonotone
<1>5. t \in 0 .. b
  <2>1. b <= b
    OBVIOUS
  <2> QED BY <1>2, <1>3, <2>1, ScaleMonotone
<1>6. /\ SizeOf(a, n) = Higher(0, Lower(s, MaxNotional))
      /\ SizeOf(b, m) = Higher(0, Lower(t, MaxNotional))
  BY <1>1, <1>2 DEF SizeOf, ComputePositionSize
<1> QED BY <1>4, <1>5, <1>6, SizingAssumption DEF Higher, Lower

\* A quarter of the notional is at most a quarter of the scaled one.
LEMMA ScaleQuarter ==
  ASSUME NEW a \in Nat, NEW b \in Nat, 4 * a <= b, NEW m \in Markets
  PROVE  Scale(a, Regime(m)) \in 0 .. a /\ 4 * Scale(a, Regime(m)) <= Scale(b, Regime(m))
<1>1. PICK v \in Nat \ {0} : v = Mult(m)
  <2>1. m.vix >= m.vix /\ m.slope <= m.slope
    BY MarketTypes
  <2>2. Mult(m) \in Unit .. Unit + 2 * Top
    BY <2>1, StressGrows
  <2> QED BY <2>2, Units
<1>2. PICK q : q = (a * Unit) \div v
  OBVIOUS
<1>3. a * Unit \in Nat /\ b * Unit \in Nat
  BY Units
<1>4. q \in Nat /\ q * v <= a * Unit
  BY <1>1, <1>2, <1>3, Quotient
<1>5. (4 * q) * v <= b * Unit
  <2>1. (4 * a) * Unit <= b * Unit
    BY Units, ProductMonotone
  <2>2. (4 * a) * Unit = 4 * (a * Unit)
    BY Units
  <2>3. (4 * q) * v = 4 * (q * v) /\ q * v \in Nat
    BY <1>1, <1>4
  <2> QED BY <1>3, <1>4, <2>1, <2>2, <2>3
<1>6. 4 * q <= (b * Unit) \div v
  BY <1>1, <1>3, <1>4, <1>5, QuotientAbove
<1>7. Scale(a, Regime(m)) = q /\ Scale(b, Regime(m)) = (b * Unit) \div v
  BY <1>1, <1>2 DEF Scale, Mult
<1>8. Mult(m) <= Mult(m)
  BY <1>1
<1>9. Scale(a, Regime(m)) \in 0 .. a
  BY <1>8, ScaleMonotone
<1> QED BY <1>6, <1>7, <1>9

\* The Kelly fraction after the trades h, and the notional it leaves of the base.
Kelly(h)     == KellyFraction(EstimateWinRate(h))
KellyBase(h) == (BaseNotional * Kelly(h)[1]) \div Kelly(h)[2]

\* The totals of the trades are integers, which is all the fraction needs.
LEMMA TotalsAreIntegers ==
  ASSUME NEW h \in Seq(Int)
  PROVE  /\ EstimateWinRate(h).wins \in Nat /\ EstimateWinRate(h).losses \in Nat
         /\ EstimateWinRate(h).totalWin \in Int /\ EstimateWinRate(h).totalLoss \in Int
<1> DEFINE won  == Indices(h, LAMBDA r : r > 0)
           lost == Indices(h, LAMBDA r : r < 0)
           neg  == [i \in lost |-> -h[i]]
<1>1. won \subseteq 1 .. Len(h) /\ lost \subseteq 1 .. Len(h)
  BY DEF Indices
<1>2. IsFiniteSet(1 .. Len(h))
  <2>1. Len(h) \in Int /\ 1 \in Int
    OBVIOUS
  <2> QED BY <2>1, FS_Interval, Zenon
<1>3. IsFiniteSet(won) /\ IsFiniteSet(lost)
  BY <1>1, <1>2, FS_Subset
<1> HIDE DEF won, lost
<1>4. Cardinality(won) \in Nat /\ Cardinality(lost) \in Nat
  BY <1>3, FS_CardinalityType
<1>5. MapThenSumSet(LAMBDA i : h[i], won) \in Int
  <2>1. \A i \in won : h[i] \in Int
    BY <1>1
  <2>2. Total(won, h) \in Int
    BY <1>3, <2>1, TotalType
  <2>3. MapThenSumSet(LAMBDA i : h[i], won) = Total(won, h)
    BY <1>3, SumOfFunction
  <2> QED BY <2>2, <2>3
<1>6. MapThenSumSet(LAMBDA i : -h[i], lost) \in Int
  <2>1. \A i \in lost : neg[i] \in Int
    BY <1>1
  <2>2. Total(lost, neg) \in Int
    <3> HIDE DEF neg
    <3> QED BY <1>3, <2>1, TotalType
  <2>3. MapThenSumSet(LAMBDA i : -h[i], lost) = Total(lost, neg)
    <3>1. PICK g : IsSum(g, lost, neg)
      BY <1>3, SumExists
    <3>2. \A T \in SUBSET lost : T # {} => neg[Some(T)] = -h[Some(T)]
      BY DEF Some
    <3>3. \A f : IsSum(f, lost, neg) <=>
            f = [T \in SUBSET lost |-> IF T = {} THEN 0 ELSE -h[Some(T)] + f[T \ {Some(T)}]]
      BY <3>2 DEF IsSum
    <3>4. PICK f : /\ f = [T \in SUBSET lost |-> IF T = {} THEN 0 ELSE -h[Some(T)] + f[T \ {Some(T)}]]
                   /\ MapThenSumSet(LAMBDA i : -h[i], lost) = f[lost]
      <4>1. \E f : f = [T \in SUBSET lost |-> IF T = {} THEN 0 ELSE -h[Some(T)] + f[T \ {Some(T)}]]
        BY <3>1, <3>3
      <4> QED
        BY <4>1, Zenon DEF MapThenSumSet, MapThenFoldSet, Some
    <3>5. IsSum(f, lost, neg)
      BY <3>3, <3>4
    <3>6. f[lost] = Total(lost, neg)
      BY <1>3, <3>5, SumIsTotal
    <3> QED BY <3>4, <3>6
  <2> QED BY <2>2, <2>3
<1>7. /\ EstimateWinRate(h).wins = Cardinality(won) /\ EstimateWinRate(h).losses = Cardinality(lost)
      /\ EstimateWinRate(h).totalWin = MapThenSumSet(LAMBDA i : h[i], won)
      /\ EstimateWinRate(h).totalLoss = MapThenSumSet(LAMBDA i : -h[i], lost)
  BY DEF EstimateWinRate, won, lost
<1> QED BY <1>4, <1>5, <1>6, <1>7

\* The fraction is between zero and a quarter, and so is what it leaves of the base.
LEMMA KellyIsAtMostAQuarter ==
  ASSUME NEW h \in Seq(Int)
  PROVE  KellyBase(h) \in Nat /\ 4 * KellyBase(h) <= BaseNotional
<1>1. PICK e : e = EstimateWinRate(h)
  OBVIOUS
<1>2. e.wins \in Nat /\ e.losses \in Nat /\ e.totalWin \in Int /\ e.totalLoss \in Int
  BY <1>1, TotalsAreIntegers
<1>3. PICK w, l \in Nat, p, q \in Int :
        w = e.wins /\ l = e.losses /\ p = e.totalWin /\ q = e.totalLoss
  BY <1>2
<1>4. \E a \in Nat, b \in Nat \ {0} : Kelly(h)[1] = a /\ Kelly(h)[2] = b /\ 4 * a <= b
  <2> DEFINE above == w * (p - q)
             below == 2 * (w + l) * p
  <2>1. Kelly(h) = IF w = 0 \/ l = 0 \/ p <= q THEN <<0, 1>>
                   ELSE IF 4 * above < below THEN <<above, below>> ELSE <<1, 4>>
    BY <1>1, <1>3 DEF Kelly, KellyFraction
  <2>2. above \in Int /\ below \in Int
    BY <1>3
  <2>3. p > q => above \in Nat
    <3>1. ASSUME p > q PROVE above \in Nat
      <4>1. p - q \in Nat
        BY <3>1
      <4> QED BY <4>1
    <3> QED BY <3>1
  <2> HIDE DEF above, below
  <2>4. CASE Kelly(h) = <<0, 1>>
    BY <2>4
  <2>5. CASE Kelly(h) = <<1, 4>>
    BY <2>5
  <2>6. CASE Kelly(h) = <<above, below>> /\ p > q /\ 4 * above < below
    <3>1. above \in Nat /\ below \in Nat \ {0} /\ 4 * above <= below
      BY <2>2, <2>3, <2>6
    <3> QED BY <2>6, <3>1
  <2> QED BY <1>3, <2>1, <2>4, <2>5, <2>6
<1>5. PICK a \in Nat, b \in Nat \ {0} : Kelly(h)[1] = a /\ Kelly(h)[2] = b /\ 4 * a <= b
  BY <1>4
<1>6. PICK k : k = (BaseNotional * a) \div b
  OBVIOUS
<1>7. BaseNotional \in Nat /\ BaseNotional * a \in Nat
  BY SizingAssumption
<1>8. k \in Nat /\ k * b <= BaseNotional * a
  BY <1>6, <1>7, Quotient
<1>9. 4 * k <= BaseNotional
  <2>1. (4 * a) * BaseNotional <= b * BaseNotional
    BY <1>5, <1>7, ProductMonotone
  <2>2. (4 * a) * BaseNotional = 4 * (BaseNotional * a)
    BY <1>7
  <2>3. (4 * k) * b = 4 * (k * b) /\ k * b \in Nat
    BY <1>8
  <2>4. b * BaseNotional \in Nat /\ (BaseNotional + 1) * b = b * BaseNotional + b
    BY <1>7
  <2>5. (4 * k) * b < (BaseNotional + 1) * b
    BY <1>7, <1>8, <2>1, <2>2, <2>3, <2>4
  <2>6. 4 * k < BaseNotional + 1
    BY <1>7, <1>8, <2>5, ProductCancelsStrictly
  <2> QED BY <1>7, <1>8, <2>6
<1> QED BY <1>5, <1>6, <1>8, <1>9 DEF KellyBase

\* The three ways to a size.
LEMMA WaysToASize ==
  ASSUME NEW m \in Markets, NEW h \in Seq(Int)
  PROVE  /\ Len(h) < MinHistory => SizeAfter(m, h) = SizeOf(BaseNotional, m)
         /\ Len(h) >= MinHistory /\ Kelly(h)[1] = 0
              => SizeAfter(m, h) = SizeOf(BaseNotional \div 10, m)
         /\ Len(h) >= MinHistory /\ Kelly(h)[1] # 0
              => SizeAfter(m, h) = SizeOf(Scale(KellyBase(h), Regime(m)), m)
<1>1. Len(h) \in Nat /\ MinHistory \in Nat
  BY SizingAssumption
<1> QED BY <1>1 DEF SizeAfter, ComputeKellyPositionSize, SizeOf, Kelly, KellyBase

\* A tenth of the base is less than a quarter.
LEMMA TenthOfTheBase == BaseNotional \div 10 \in Nat /\ 4 * (BaseNotional \div 10) <= BaseNotional
<1>1. BaseNotional \in Nat
  BY SizingAssumption
<1> QED BY <1>1

\* The size of any day, after any trades, is within the base.
LEMMA SizeWithinBase ==
  ASSUME NEW m \in Markets, NEW h \in Seq(Int)
  PROVE  SizeAfter(m, h) \in 0 .. BaseNotional
<1>1. BaseNotional \in Nat /\ MinHistory \in Nat /\ Len(h) \in Nat
  BY SizingAssumption
<1>2. \A a \in Nat : a <= BaseNotional => SizeOf(a, m) \in 0 .. BaseNotional
  <2>1. m.vix >= m.vix /\ m.slope <= m.slope
    BY MarketTypes
  <2>2. Mult(m) <= Mult(m)
    BY <2>1, StressGrows
  <2>3. ASSUME NEW a \in Nat, a <= BaseNotional PROVE SizeOf(a, m) \in 0 .. BaseNotional
    <3>1. a <= a
      OBVIOUS
    <3>2. SizeOf(a, m) \in 0 .. a
      BY <2>2, <3>1, SizeMonotone
    <3> QED BY <1>1, <2>3, <3>2
  <2> QED BY <2>3
<1>3. CASE Len(h) < MinHistory
  BY <1>1, <1>2, <1>3, WaysToASize
<1>4. CASE Len(h) >= MinHistory /\ Kelly(h)[1] = 0
  <2>1. BaseNotional \div 10 \in Nat /\ BaseNotional \div 10 <= BaseNotional
    BY <1>1
  <2> QED BY <1>2, <1>4, <2>1, WaysToASize
<1>5. CASE Len(h) >= MinHistory /\ Kelly(h)[1] # 0
  <2>1. PICK k \in Nat : k = KellyBase(h) /\ 4 * k <= BaseNotional
    BY KellyIsAtMostAQuarter
  <2>2. Scale(k, Regime(m)) \in 0 .. k
    BY <1>1, <2>1, ScaleQuarter
  <2>3. Scale(k, Regime(m)) \in Nat /\ Scale(k, Regime(m)) <= BaseNotional
    BY <1>1, <2>1, <2>2
  <2> QED BY <1>2, <1>5, <2>1, <2>3, WaysToASize
<1> QED BY <1>1, <1>3, <1>4, <1>5

-----------------------------------------------------------------------------
(* The theorems. *)

LEMMA ReturnsAreIntegers ==
  ASSUME NEW h \in Seq(TradeReturns \ {0})
  PROVE  h \in Seq(Int)
<1>1. \A r \in TradeReturns \ {0} : r \in Int
  BY SeriesAssumption
<1>2. h \in [1 .. Len(h) -> TradeReturns \ {0}] /\ Len(h) \in Nat
  OBVIOUS
<1>3. \A i \in 1 .. Len(h) : h[i] \in TradeReturns \ {0}
  BY <1>2
<1>4. \A i \in 1 .. Len(h) : h[i] \in Int
  BY <1>1, <1>3
<1> QED BY <1>2, <1>4

LEMMA DecisionInvariance == Spec => []DecisionInv
<1>1. Init => DecisionInv
  <2> SUFFICES ASSUME Init PROVE DecisionInv OBVIOUS
  <2>1. tradeReturns = << >> /\ market \in Markets
    BY DEF Init
  <2>2. SizeAfter(market, << >>) \in 0 .. BaseNotional
    <3>1. << >> \in Seq(Int) OBVIOUS
    <3> QED BY <2>1, <3>1, SizeWithinBase
  <2>3. tradeReturns \in Seq(TradeReturns \ {0})
    BY <2>1
  <2> QED BY <2>1, <2>2, <2>3 DEF Init, DecisionInv
<1>2. DecisionInv /\ [Next]_vars => DecisionInv'
  <2> SUFFICES ASSUME DecisionInv, [Next]_vars PROVE DecisionInv' OBVIOUS
  <2>1. CASE UNCHANGED vars
    BY <2>1 DEF DecisionInv, vars
  <2>2. CASE Next
    <3>1. PICK m \in NextMarkets : \/ QuietDay(m)
                                   \/ \E ret \in TradeReturns : TradeDay(m, ret)
      BY <2>2 DEF Next
    <3>2. m \in Markets
      BY DEF NextMarkets, Markets, DecisionInv
    <3>3. Decide(m, tradeReturns)
      BY <3>1 DEF QuietDay, TradeDay
    <3>4. tradeReturns' \in Seq(TradeReturns \ {0})
      <4>1. CASE QuietDay(m)
        BY <4>1 DEF QuietDay, DecisionInv
      <4>2. ASSUME NEW ret \in TradeReturns, TradeDay(m, ret)
            PROVE  tradeReturns' \in Seq(TradeReturns \ {0})
        <5>1. CASE ret = 0
          BY <4>2, <5>1 DEF TradeDay, DecisionInv
        <5>2. CASE ret # 0
          <6>1. tradeReturns' = Append(tradeReturns, ret) /\ ret \in TradeReturns \ {0}
            BY <4>2, <5>2 DEF TradeDay
          <6>2. tradeReturns \in Seq(TradeReturns \ {0})
            BY DEF DecisionInv
          <6> QED BY <6>1, <6>2
        <5> QED BY <5>1, <5>2
      <4> QED BY <3>1, <4>1, <4>2
    <3>5. SizeAfter(m, tradeReturns) \in 0 .. BaseNotional
      <4>1. tradeReturns \in Seq(Int)
        BY ReturnsAreIntegers DEF DecisionInv
      <4> QED BY <3>2, <4>1, SizeWithinBase
    <3> QED BY <3>2, <3>3, <3>4, <3>5 DEF Decide, DecisionInv
  <2> QED BY <2>1, <2>2
<1> QED BY <1>1, <1>2, PTL DEF Spec

Whole == 10000   \* the largest conviction

\* The conviction of any market is a share of the largest (SignalGenerator.cpp).
LEMMA ConvictionIsAShare ==
  ASSUME NEW m \in Markets
  PROVE  Conviction(Observables(m)) \in 0 .. Whole
<1>1. PICK o : o = Observables(m)
  OBVIOUS
<1>2. /\ o.vixLevel \in Int /\ o.yieldCurveSlope \in Int
      /\ o.growthFactor \in Int /\ o.volatilityFactor \in Int
  BY <1>1, MarketTypes DEF Observables, Regime, ClassifyRegime
<1>3. PICK s : s = Strengths(o)
  OBVIOUS
<1>4. s.regime \in 0 .. 100
  BY <1>3 DEF Strengths
<1>5. s.vix \in 0 .. 100
  BY <1>2, <1>3 DEF Strengths, Leaning, Lean, Strength
<1>6. s.growth \in 0 .. 100
  BY <1>2, <1>3 DEF Strengths, Strength, Absolute
<1>7. s.curve \in 0 .. 100
  BY <1>2, <1>3 DEF Strengths, Leaning, Lean, Strength
<1>8. s.volatility \in 0 .. 100
  BY <1>2, <1>3 DEF Strengths, Strength, Absolute
<1>9. PICK a, b, c, d, e \in 0 .. 100 :
        a = s.regime /\ b = s.growth /\ c = s.vix /\ d = s.curve /\ e = s.volatility
  BY <1>4, <1>5, <1>6, <1>7, <1>8
<1>10. PICK raw : raw = 30 * a + 25 * b + 20 * c + 15 * d + 10 * e
  OBVIOUS
<1>11. raw \in 0 .. Whole
  BY <1>10 DEF Whole
<1>12. raw \div 2 \in 0 .. Whole
  BY <1>11 DEF Whole
<1>13. ComputeConviction(s) = raw
  BY <1>9, <1>10 DEF ComputeConviction
<1>14. Conviction(o) = raw \/ Conviction(o) = raw \div 2
  BY <1>3, <1>13 DEF Conviction
<1> QED BY <1>1, <1>11, <1>12, <1>14

\* Type correctness: in particular no market and no history of trades makes the
\* position larger than the base, or the conviction larger than the whole.
THEOREM DecisionTypeCorrect == Spec => []TypeOK
<1>1. DecisionInv => TypeOK
  <2> SUFFICES ASSUME DecisionInv PROVE TypeOK OBVIOUS
  <2>1. conviction \in 0 .. Whole
    BY ConvictionIsAShare DEF DecisionInv
  <2>2. direction \in {"LONG", "SHORT", "FLAT"}
    BY DEF DecisionInv, Direction
  <2> QED BY <2>1, <2>2 DEF DecisionInv, TypeOK, Whole
<1> QED BY <1>1, DecisionInvariance, PTL

\* The day's direction never goes against its regime (SignalGenerator.cpp:112-118
\* with PositionSizer.cpp:121-127), whatever the series are.
THEOREM DirectionNeverContrarian == Spec => []NoContrarianTrade
<1>1. DecisionInv => NoContrarianTrade
  <2> SUFFICES ASSUME DecisionInv PROVE NoContrarianTrade OBVIOUS
  <2> DEFINE o == Observables(market)
  <2>0. {"regime", "vix"} \subseteq Indicators BY DEF Indicators
  <2>1. ASSUME Regime(market).riskLabel = "Risk-Off" PROVE direction # "LONG"
    <3>1. ~Agreed(o, 1)
      BY <2>0, <2>1, RiskOffVotes, TwoAgainstIsAVeto DEF DecisionInv
    <3> QED BY <3>1 DEF DecisionInv, Direction
  <2>2. ASSUME Regime(market).riskLabel = "Risk-On" PROVE direction # "SHORT"
    <3>0. 1 \in {-1, 1} /\ -1 \in {-1, 1} /\ 1 + (-1) = 0 OBVIOUS
    <3>1. ~Agreed(o, -1)
      BY <2>0, <2>2, <3>0, RiskOnVotes, TwoAgainstIsAVeto DEF DecisionInv
    <3> QED BY <3>1 DEF DecisionInv, Direction
  <2> QED BY <2>1, <2>2 DEF NoContrarianTrade
<1> QED BY <1>1, DecisionInvariance, PTL

\* What every step but a stutter does: it decides for a market that differs from
\* the last in one series, after the trades closed before it.
LEMMA StepDecides ==
  ASSUME DecisionInv, Next
  PROVE  \E m \in NextMarkets : m \in Markets /\ Decide(m, tradeReturns)
<1>1. PICK m \in NextMarkets : Decide(m, tradeReturns)
  BY DEF Next, QuietDay, TradeDay
<1>2. m \in Markets
  BY DEF NextMarkets, Markets, DecisionInv
<1> QED BY <1>1, <1>2

\* A more stressed market never makes the position larger, whatever the series,
\* the trades and the base (PositionSizer.cpp:174-205, 394-440).
THEOREM StressNeverPays == Spec => StressNeverEnlarges
<1>1. DecisionInv /\ [Next]_vars =>
        [market'.vix >= market.vix /\ market'.slope <= market.slope
           => recommendedNotional' <= SizeAfter(market, tradeReturns)]_vars
  <2> SUFFICES ASSUME DecisionInv, Next,
                      market'.vix >= market.vix, market'.slope <= market.slope
               PROVE  recommendedNotional' <= SizeAfter(market, tradeReturns)
    OBVIOUS
  <2>1. PICK m \in NextMarkets : m \in Markets /\ Decide(m, tradeReturns)
    BY StepDecides
  <2>2. market' = m /\ recommendedNotional' = SizeAfter(m, tradeReturns)
    BY <2>1 DEF Decide
  <2>3. PICK k \in Markets : k = market
    BY DEF DecisionInv
  <2>4. Mult(k) <= Mult(m)
    BY <2>1, <2>2, <2>3, StressGrows
  <2>5. PICK h \in Seq(Int) : h = tradeReturns
    BY ReturnsAreIntegers DEF DecisionInv
  <2>6. Len(h) \in Nat /\ MinHistory \in Nat /\ BaseNotional \in Nat
    BY SizingAssumption
  <2>7. SizeAfter(m, h) <= SizeAfter(k, h)
    <3>1. \A a, b \in Nat : a <= b => SizeOf(a, m) <= SizeOf(b, k)
      BY <2>1, <2>4, SizeMonotone
    <3>2. \A a \in Nat : a <= a
      OBVIOUS
    <3>3. CASE Len(h) < MinHistory
      BY <2>1, <2>6, <3>1, <3>2, <3>3, WaysToASize
    <3>4. CASE Len(h) >= MinHistory /\ Kelly(h)[1] = 0
      BY <2>1, <3>1, <3>2, <3>4, WaysToASize, TenthOfTheBase
    <3>5. CASE Len(h) >= MinHistory /\ Kelly(h)[1] # 0
      <4>1. PICK a \in Nat : a = KellyBase(h)
        BY KellyIsAtMostAQuarter
      <4>2. /\ Scale(a, Regime(m)) \in 0 .. a
            /\ Scale(a, Regime(m)) <= Scale(a, Regime(k))
        BY <2>1, <2>4, <3>2, ScaleMonotone
      <4>3. Scale(a, Regime(k)) \in Nat
        <5>1. Mult(k) <= Mult(k)
          <6>1. k.vix >= k.vix /\ k.slope <= k.slope
            BY MarketTypes
          <6> QED BY <6>1, StressGrows
        <5>2. Scale(a, Regime(k)) \in 0 .. a
          BY <3>2, <5>1, ScaleMonotone
        <5> QED BY <5>2
      <4>4. SizeOf(Scale(a, Regime(m)), m) <= SizeOf(Scale(a, Regime(k)), k)
        BY <3>1, <4>2, <4>3
      <4> QED BY <2>1, <3>5, <4>1, <4>4, WaysToASize
    <3> QED BY <2>6, <3>3, <3>4, <3>5
  <2> QED BY <2>2, <2>3, <2>5, <2>7
<1> QED BY <1>1, DecisionInvariance, PTL DEF Spec, StressNeverEnlarges

\* Kelly sizing takes at most a quarter of the scaled base, whatever the trades
\* were, and starts with the MinHistory-th closed trade
\* (Backtester.cpp:79-86, PositionSizer.cpp:329-440).
THEOREM KellyTakesAQuarter == Spec => KellyCapsTheSize
<1>1. DecisionInv /\ [Next]_vars =>
        [LET full == ComputePositionSize(BaseNotional, Regime(market'))
         IN  IF Len(tradeReturns) >= MinHistory
             THEN 4 * recommendedNotional' <= full
             ELSE recommendedNotional' = full]_vars
  <2> SUFFICES ASSUME DecisionInv, Next
               PROVE  IF Len(tradeReturns) >= MinHistory
                      THEN 4 * recommendedNotional' <= SizeOf(BaseNotional, market')
                      ELSE recommendedNotional' = SizeOf(BaseNotional, market')
    BY DEF SizeOf
  <2>1. PICK m \in NextMarkets : m \in Markets /\ Decide(m, tradeReturns)
    BY StepDecides
  <2>2. market' = m /\ recommendedNotional' = SizeAfter(m, tradeReturns)
    BY <2>1 DEF Decide
  <2>3. PICK h \in Seq(Int) : h = tradeReturns
    BY ReturnsAreIntegers DEF DecisionInv
  <2>4. /\ Len(h) \in Nat /\ MinHistory \in Nat /\ BaseNotional \in Nat /\ MaxNotional \in Nat
        /\ BaseNotional <= MaxNotional
    BY SizingAssumption
  <2>5. \A a \in Nat : 4 * a <= BaseNotional => 4 * SizeOf(a, m) <= SizeOf(BaseNotional, m)
    <3> SUFFICES ASSUME NEW a \in Nat, 4 * a <= BaseNotional
                 PROVE  4 * SizeOf(a, m) <= SizeOf(BaseNotional, m)
      OBVIOUS
    <3>1. PICK s, t : s = Scale(a, Regime(m)) /\ t = Scale(BaseNotional, Regime(m))
      OBVIOUS
    <3>2. s \in 0 .. a /\ 4 * s <= t
      BY <2>1, <2>4, <3>1, ScaleQuarter
    <3>3. t \in 0 .. BaseNotional
      <4>1. m.vix >= m.vix /\ m.slope <= m.slope
        BY <2>1, MarketTypes
      <4>2. Mult(m) <= Mult(m)
        BY <2>1, <4>1, StressGrows
      <4>3. BaseNotional <= BaseNotional
        BY <2>4
      <4> QED BY <2>1, <2>4, <3>1, <4>2, <4>3, ScaleMonotone
    <3>4. /\ SizeOf(a, m) = Higher(0, Lower(s, MaxNotional))
          /\ SizeOf(BaseNotional, m) = Higher(0, Lower(t, MaxNotional))
      BY <3>1 DEF SizeOf, ComputePositionSize
    <3> QED BY <2>4, <3>2, <3>3, <3>4 DEF Higher, Lower
  <2>6. CASE Len(h) < MinHistory
    BY <2>1, <2>2, <2>3, <2>4, <2>6, WaysToASize
  <2>7. CASE Len(h) >= MinHistory
    <3>1. 4 * SizeAfter(m, h) <= SizeOf(BaseNotional, m)
      <4>1. CASE Kelly(h)[1] = 0
        BY <2>1, <2>5, <2>7, <4>1, WaysToASize, TenthOfTheBase
      <4>2. CASE Kelly(h)[1] # 0
        <5>1. PICK k \in Nat : k = KellyBase(h) /\ 4 * k <= BaseNotional
          BY KellyIsAtMostAQuarter
        <5>2. Scale(k, Regime(m)) \in 0 .. k
          BY <2>1, <2>4, <5>1, ScaleQuarter
        <5>3. Scale(k, Regime(m)) \in Nat /\ 4 * Scale(k, Regime(m)) <= BaseNotional
          BY <2>4, <5>1, <5>2
        <5> QED BY <2>1, <2>5, <2>7, <4>2, <5>1, <5>3, WaysToASize
      <4> QED BY <4>1, <4>2
    <3> QED BY <2>2, <2>3, <2>7, <3>1
  <2> QED BY <2>4, <2>6, <2>7
<1> QED BY <1>1, DecisionInvariance, PTL DEF Spec, KellyCapsTheSize

-----------------------------------------------------------------------------
(* Reversals. *)

\* Who speaks for a side.
Speakers(o, side) == {i \in Indicators : Leaning(o)[i] = side}

\* From at most one indicator for a side to three takes two that changed.
LEMMA TwoChanged ==
  ASSUME NEW o, NEW p, NEW side, Count(o, side) <= 1, Count(p, side) >= 3
  PROVE  \E i, j \in Indicators :
           /\ i # j
           /\ Leaning(p)[i] = side /\ Leaning(o)[i] # side
           /\ Leaning(p)[j] = side /\ Leaning(o)[j] # side
<1> DEFINE A == Speakers(o, side)
           B == Speakers(p, side)
           N == B \ A
<1>1. IsFiniteSet(A) /\ IsFiniteSet(B) /\ IsFiniteSet(N)
  <2>1. A \subseteq Indicators /\ B \subseteq Indicators /\ N \subseteq Indicators
    BY DEF Speakers
  <2> QED BY <2>1, FiniteIndicators, FS_Subset
<1>2. Cardinality(A) <= 1 /\ Cardinality(B) >= 3
  BY DEF Count, Speakers
<1>3. N \subseteq Indicators /\ \A i \in N : Leaning(p)[i] = side /\ Leaning(o)[i] # side
  BY DEF Speakers
<1>4. /\ Cardinality(A) \in Nat /\ Cardinality(B) \in Nat /\ Cardinality(N) \in Nat
  BY <1>1, FS_CardinalityType
<1>5. Cardinality(B) <= Cardinality(A) + Cardinality(N)
  <2> DEFINE U == A \cup N
  <2>1. B \subseteq U
    OBVIOUS
  <2>2. /\ IsFiniteSet(U) /\ Cardinality(U) = Cardinality(A) + Cardinality(N) - Cardinality(A \cap N)
    BY <1>1, FS_Union
  <2>3. A \cap N = {}
    OBVIOUS
  <2>4. Cardinality(A \cap N) = 0
    BY <2>3, FS_EmptySet
  <2> HIDE DEF U, A, B, N
  <2>5. Cardinality(B) <= Cardinality(U) /\ Cardinality(U) \in Nat
    BY <2>1, <2>2, FS_Subset, FS_CardinalityType
  <2> QED BY <1>4, <2>2, <2>4, <2>5
<1> HIDE DEF A, B, N
<1>6. Cardinality(N) >= 2
  BY <1>2, <1>4, <1>5
<1>7. PICK i \in N : TRUE
  <2>1. Cardinality({}) = 0
    BY FS_EmptySet
  <2> QED BY <1>6, <2>1
<1>8. PICK j \in N : j # i
  <2>1. N # {i}
    <3>1. Cardinality({i}) = 1
      BY FS_Singleton
    <3> QED BY <1>6, <3>1
  <2> QED BY <1>7, <2>1
<1> QED BY <1>3, <1>7, <1>8

\* Two days that differ in one series.
OneSeries(m, n) ==
  \/ m.slope = n.slope /\ m.growth = n.growth /\ m.volatility = n.volatility
  \/ m.vix = n.vix /\ m.growth = n.growth /\ m.volatility = n.volatility
  \/ m.vix = n.vix /\ m.slope = n.slope /\ m.volatility = n.volatility
  \/ m.vix = n.vix /\ m.slope = n.slope /\ m.growth = n.growth

\* The regime's leaning depends on the VIX alone, every other one on its series.
LEMMA LeaningsDependOn ==
  ASSUME NEW m \in Markets, NEW n \in Markets
  PROVE  LET p == Leaning(Observables(m))
             q == Leaning(Observables(n))
         IN  /\ m.vix = n.vix => p["regime"] = q["regime"] /\ p["vix"] = q["vix"]
             /\ m.slope = n.slope => p["curve"] = q["curve"]
             /\ m.growth = n.growth => p["growth"] = q["growth"]
             /\ m.volatility = n.volatility => p["volatility"] = q["volatility"]
  BY DEF Leaning, Observables, Regime, ClassifyRegime, Lean

\* If two indicators turned and one series changed, it was the VIX, and both the
\* regime and the VIX turned.
LEMMA OnlyVixMovesTwo ==
  ASSUME NEW m \in Markets, NEW n \in Markets, OneSeries(m, n),
         NEW i \in Indicators, NEW j \in Indicators, i # j,
         Leaning(Observables(m))[i] # Leaning(Observables(n))[i],
         Leaning(Observables(m))[j] # Leaning(Observables(n))[j]
  PROVE  /\ m.slope = n.slope /\ m.growth = n.growth /\ m.volatility = n.volatility
         /\ {i, j} = {"regime", "vix"}
<1>1. PICK p, q : p = Leaning(Observables(m)) /\ q = Leaning(Observables(n))
  OBVIOUS
<1>2. /\ m.vix = n.vix => p["regime"] = q["regime"] /\ p["vix"] = q["vix"]
      /\ m.slope = n.slope => p["curve"] = q["curve"]
      /\ m.growth = n.growth => p["growth"] = q["growth"]
      /\ m.volatility = n.volatility => p["volatility"] = q["volatility"]
  BY <1>1, LeaningsDependOn
<1>3. /\ i \in {"regime", "vix", "growth", "curve", "volatility"}
      /\ j \in {"regime", "vix", "growth", "curve", "volatility"}
  BY DEF Indicators
<1>4. p[i] # q[i] /\ p[j] # q[j]
  BY <1>1
<1>5. CASE m.slope = n.slope /\ m.growth = n.growth /\ m.volatility = n.volatility
  <2>1. i \in {"regime", "vix"} /\ j \in {"regime", "vix"}
    BY <1>2, <1>3, <1>4, <1>5
  <2> QED BY <1>5, <2>1
<1>6. CASE m.vix = n.vix /\ m.growth = n.growth /\ m.volatility = n.volatility
  BY <1>2, <1>3, <1>4, <1>6
<1>7. CASE m.vix = n.vix /\ m.slope = n.slope /\ m.volatility = n.volatility
  BY <1>2, <1>3, <1>4, <1>7
<1>8. CASE m.vix = n.vix /\ m.slope = n.slope /\ m.growth = n.growth
  BY <1>2, <1>3, <1>4, <1>8
<1> QED BY <1>5, <1>6, <1>7, <1>8 DEF OneSeries

\* A market that supports LONG and one that supports SHORT, one series apart, are
\* on the two sides of both borders of the regime.
LEMMA ReversalNeedsVix ==
  ASSUME NEW m \in Markets, NEW n \in Markets, OneSeries(m, n),
         Agreed(Observables(m), 1), Agreed(Observables(n), -1)
  PROVE  /\ m.slope = n.slope /\ m.growth = n.growth /\ m.volatility = n.volatility
         /\ m.vix < 12 /\ n.vix > 45
<1>1. PICK o, p : o = Observables(m) /\ p = Observables(n)
  OBVIOUS
<1>2. /\ Count(o, 1) >= 3 /\ Count(o, -1) <= 1 /\ Count(p, -1) >= 3 /\ Count(p, 1) <= 1
  <2>0. PICK s \in Int : s + 1 = 0
    <3>1. -1 \in Int /\ -1 + 1 = 0
      OBVIOUS
    <3> QED BY <3>1
  <2>1. s = -1
    BY <2>0
  <2>2. -s = 1
    BY <2>0
  <2>3. Count(o, 1) >= 3 /\ Count(o, -1) <= 1
    BY <1>1 DEF Agreed
  <2>4. Agreed(p, s)
    BY <1>1, <2>1
  <2>5. Count(p, s) >= 3 /\ Count(p, -s) <= 1
    BY <2>4 DEF Agreed
  <2> QED BY <2>1, <2>2, <2>3, <2>5
<1>3. PICK i, j \in Indicators :
        /\ i # j
        /\ Leaning(p)[i] = -1 /\ Leaning(o)[i] # -1
        /\ Leaning(p)[j] = -1 /\ Leaning(o)[j] # -1
  BY <1>2, TwoChanged
<1>4. PICK k, l \in Indicators :
        /\ k # l
        /\ Leaning(o)[k] = 1 /\ Leaning(p)[k] # 1
        /\ Leaning(o)[l] = 1 /\ Leaning(p)[l] # 1
  BY <1>2, TwoChanged
<1>5. /\ m.slope = n.slope /\ m.growth = n.growth /\ m.volatility = n.volatility
      /\ {i, j} = {"regime", "vix"}
  BY <1>1, <1>3, OnlyVixMovesTwo
<1>6. {k, l} = {"regime", "vix"}
  BY <1>1, <1>4, OnlyVixMovesTwo
<1>7. Leaning(p)["regime"] = -1 /\ Leaning(o)["regime"] = 1
  BY <1>3, <1>4, <1>5, <1>6
<1>8. /\ Leaning(p)["regime"] = Lean(Regime(n).riskLabel = "Risk-On", Regime(n).riskLabel = "Risk-Off")
      /\ Leaning(o)["regime"] = Lean(Regime(m).riskLabel = "Risk-On", Regime(m).riskLabel = "Risk-Off")
  BY <1>1 DEF Leaning, Observables
<1>9. Regime(n).riskLabel = "Risk-Off" /\ Regime(m).riskLabel = "Risk-On"
  BY <1>7, <1>8 DEF Lean
<1>10. m.vix \in Int /\ n.vix \in Int
  BY MarketTypes
<1>11. m.vix < 12
  BY <1>9, <1>10 DEF Regime, ClassifyRegime, RiskLabel
<1>12. n.vix > 45
  <2>1. EstimatedSpread(n.vix) > 250
    BY <1>9, <1>10 DEF Regime, ClassifyRegime, RiskLabel
  <2> QED BY <1>10, <2>1 DEF EstimatedSpread, Clamp, Lower, Higher
<1> QED BY <1>5, <1>11, <1>12

\* Only a jump of the VIX across both borders of the regime reverses a position,
\* whatever the values of the series (SignalGenerator.cpp:103-118,
\* PositionSizer.cpp:121-127, Backtester.cpp:503).
THEOREM OnlyTheVixReverses == Spec => OnlyVixShocksReverse
<1>1. DecisionInv /\ [Next]_vars =>
        [{direction, direction'} = {"LONG", "SHORT"} =>
           /\ market' = [market EXCEPT !.vix = market'.vix]
           /\ Lower(market.vix, market'.vix) < 12
           /\ Higher(market.vix, market'.vix) > 45]_vars
  <2> SUFFICES ASSUME DecisionInv, Next, {direction, direction'} = {"LONG", "SHORT"}
               PROVE  /\ market' = [market EXCEPT !.vix = market'.vix]
                      /\ Lower(market.vix, market'.vix) < 12
                      /\ Higher(market.vix, market'.vix) > 45
    OBVIOUS
  <2>1. PICK n \in NextMarkets : n \in Markets /\ Decide(n, tradeReturns)
    BY StepDecides
  <2>2. market' = n /\ direction' = Direction(Observables(n))
    BY <2>1 DEF Decide
  <2>3. PICK m \in Markets : m = market /\ direction = Direction(Observables(m))
    BY DEF DecisionInv
  <2>4. OneSeries(m, n) /\ OneSeries(n, m)
    BY <2>1, <2>3 DEF NextMarkets, Markets, OneSeries
  <2>5. \A o : /\ Direction(o) = "LONG" => Agreed(o, 1)
               /\ Direction(o) = "SHORT" => Agreed(o, -1)
    BY DEF Direction
  <2>6. /\ m.slope = n.slope /\ m.growth = n.growth /\ m.volatility = n.volatility
        /\ \/ m.vix < 12 /\ n.vix > 45
           \/ n.vix < 12 /\ m.vix > 45
    <3>1. CASE direction = "LONG" /\ direction' = "SHORT"
      BY <2>1, <2>2, <2>3, <2>4, <2>5, <3>1, ReversalNeedsVix
    <3>2. CASE direction = "SHORT" /\ direction' = "LONG"
      BY <2>1, <2>2, <2>3, <2>4, <2>5, <3>2, ReversalNeedsVix
    <3> QED BY <3>1, <3>2
  <2>7. n = [m EXCEPT !.vix = n.vix]
    <3>1. /\ m = [vix |-> m.vix, slope |-> m.slope, growth |-> m.growth, volatility |-> m.volatility]
          /\ n = [vix |-> n.vix, slope |-> n.slope, growth |-> n.growth, volatility |-> n.volatility]
      BY <2>1, MarketTypes
    <3> QED BY <2>6, <3>1
  <2>8. m.vix \in Int /\ n.vix \in Int
    BY <2>1, MarketTypes
  <2> QED BY <2>2, <2>3, <2>6, <2>7, <2>8 DEF Lower, Higher
<1> QED BY <1>1, DecisionInvariance, PTL DEF Spec, OnlyVixShocksReverse
=============================================================================
