# Macro factor decomposition: TLA+ specifications

The program under `src/` decides how large a position in ES futures should be.
It reads macro series (FRED, Alpha Vantage), classifies the market's regime,
turns it into a trade signal, sizes the position, replays the rule over history
(`backtest` mode), and sends orders to Interactive Brokers' Trader Workstation
(`live` mode).  A second chain (`covariance` mode) decomposes the portfolio's
risk into factors, and a third (`upload-daily` mode and the Lambda functions)
moves data and results through S3.

These modules model the parts in which state lives and order matters: the order
gateway and the live mode on top of it, the history the backtest runs on, the
backtest loop with its VaR monitor, the daily decision, and the daily chain from
the retrieved objects to the stored result.

## Inventory

| component | state | operations | talks to | what makes it correct |
|---|---|---|---|---|
| `IBGateway` | `connected_`, `nextOrderId_` (atomics), `socketFd_` (plain), `orders_` and `positions_` (each under a mutex) | `connect`, `disconnect`, `placeOrder`, `cancelOrder`, getters, callbacks | TWS over TCP; several threads | ids are unique; what TWS holds is in the book; ERROR means dead; every order gets a final answer; the book and TWS agree once nothing is under way |
| `Backtester` | locals of `run`: value, peak, drawdown, open trade, previous signal, records | `run`, `fetchHistoricalData`, `generateSyntheticHistory`, metrics | signal generator, sizer, FRED client | running figures equal what the records say; one return per holding period; no use of future data |
| `VaRMonitor` | `history_`, at most 2520 records | `updatePosition`, `generateReport`, `reset` | fed by the backtest mode | the newest days are kept; breaches agree with the loop's |
| `PositionSizer` | none | regime, multiplier, size, Kelly, hedge, hysteresis | called per day | stress and Kelly only reduce; regime and signal agree |
| `SignalGenerator` | none | signal from observables | called per day | no trade against the regime; no reversal by noise |
| `MultiVarAnalysisWorkflow` (main) | files and connections of one run | modes `covariance`, `backtest`, `live`, `upload-daily` | everything | a failed step is not taken for a result |
| `DataAligner`, `SurpriseTransformer`, `CovarianceCalculator`, `MacroFactorModel`, `PortfolioRiskAnalyzer` | none across calls | align, difference, covariance, PCA, attribution | chained by `covariance` | lengths agree at every joint; no surprise is measured against the future; labels stay attached to their factors |
| series processors (VIX, stock, yields, CPI, GDP, ...) | parsed vectors | parse, average | S3 objects, FRED | the number of observations they return |
| `FREDDataClient`, `SecretsManager`, AWS clients | the secrets cache | one request each | HTTP, AWS | a failure is reported, a cached secret is used |
| Lambda functions, CDK | S3 objects | daily fetch and store | EventBridge, S3 | an error text is never stored as data |
| `Logger`, `Date` | none | formatting | | |

Hard behaviours: threads inside the gateway (the mutex covers single updates,
not calls); partial and failed sends; a non-blocking read that takes whatever
has arrived; TWS or the process going away between two steps and ids starting
again at 1; in the sequential parts, figures kept twice by two pieces of code
and statistics whose update order matters.  `PROJECT.json` lists each hazard at
its line with the properties that watch it, or the reason none does yet.

## Modules

| module | models | notes |
|---|---|---|
| `OrderLifecycle` | the promise of `getOrder(id).status` | abstract specification |
| `IBGateway` | `DataProviders/IBGateway.cpp` | threads, sockets, TWS (external), restarts |
| `IBGatewayProofs`, `BookProofs` | | theorems about `IBGateway`; the second is the proof of `BookMatchesTws` |
| `LiveTrading` | the `live` mode | extends `IBGateway` with the cycle of its one thread |
| `LiveTradingProofs` | | theorems about `LiveTrading`, on those about `IBGateway` |
| `HistoryData` | `Backtester::fetchHistoricalData`, the fallback of the `backtest` mode | one step per series and per day |
| `HistoryDataProofs` | | theorems about `HistoryData` |
| `VaRMonitor` | `DataProcessors/VaRMonitor.cpp` | instantiated by `Backtester` |
| `Backtester` | `Backtester::run` and the report of the backtest mode | one step per day |
| `BacktesterProofs` | | theorems about `Backtester` and its monitor |
| `PositionSizer`, `SignalGenerator` | the rules of the two classes | operators only |
| `DailyDecision` | what a day of `fetchHistoricalData` and `run` decides | composes the two rules with the trade history |
| `DailyDecisionProofs` | | theorems about `DailyDecision` |
| `SeriesAlignment` | `DataAligner.cpp`, the expectations of `SurpriseTransformer.cpp` | operators only |
| `Pipeline` | retrieval Lambda, `covariance` mode, `upload-daily` mode | one step per stage |
| `PipelineProofs` | | theorems about `Pipeline` |
| `SetFacts` | | lemmas the proofs share: ranks, sums, products and quotients |
| `MCIBGateway`, `MCLiveTrading`, `MCHistoryData`, `MCBacktester`, `MCDailyDecision`, `MCPipeline` | | values of constants for TLC |

Definitions before their original whose comment begins with "Mistake:" are
variants of it with a plausible bug, one for each property.  They are part of no
specification; a property must fail when one replaces its original.

### IBGateway

A call is cut where another thread can get in: the load of `connected_`, the
fetch-and-add of `nextOrderId_`, each critical section of `orderMutex_`, each
`send` and `recv`.  `pc[t]` says where thread `t` is; `cur[t]` is the id its call
works on.  `PlaceCheck` to `PlaceAck` are `placeOrder` (108-173), `CancelCheck`
to `CancelUpdate` are `cancelOrder` (175-191), `ConnectSocket` to `ConnectDone`
and `DisconnectClose`, `DisconnectFlag` are `connect` and `disconnect`, which one
thread, the owner, calls.  `orders[id]` is `orders_[id].status`.

A send ends in one of four ways: all bytes taken and readable, all bytes taken by
a socket whose peer is gone or whose stream is garbled, nothing taken, or part of
it taken, which garbles the socket for good (`Sent`, `NotSent`).  A read takes
all that has arrived and keeps the first NUL-terminated field of the first
message (`ReadMessage`), since `readMessage` builds its string from a C string.
The handlers are modelled with the field counts they ask for; with one field
they all return early, which is why fills, acknowledgements and the next valid
id have no effect on the gateway.

TWS and the network are external: a session is a queue of messages (`out`), TWS
accepts an order whose id is new, refuses one whose id it knows, cancels a working
order, fills a working order at any time, answers into the session in use
(`inbox`), and may end a session, losing what it had not read.  A real TWS may
also reject the handshake: `msg << "API\0"` (322) streams "API" without its NUL.
Since no answer has an effect, the model lets TWS understand it.

`doubt` and the `run` tag of messages are history: the ids about which a
message of this run was lost, refused, overtaken or hit an order of an earlier
run.  They say for which orders agreement between book and TWS can be asked.

### LiveTrading

The cycle of the live mode, step by step over the gateway's own actions:
`LiveConnect` (558-562), `LiveTrade` (590-609), `LiveDisconnect` (615-617).  `step`
is where the mode is; when a call of the gateway ends, its result decides what
the mode does next.  `RunAgain` is the gateway's `Restart`: the process may be
killed at any point, between any two steps of a call, and the next run starts
with an empty book and id 1.  The signal of the mode is a literal LONG, so every
run orders the same.  `announced` are the runs that printed "Order placed".

### HistoryData

`FetchSeries` is one call of `fetchSeriesMap`: all values, none, or those before
one that does not parse.  `BuildDates` takes the days with a price as trading days,
`FillDay` is one turn of the forward fill of the monthly series, `FirstDay` and
`Day` are the turns of the main loop.  The value a series has on a day is that day
itself, so that a point of the history shows which observations it was made from
and look-ahead, staleness and gaps can be stated.  `ChooseOrigin` is the
fallback to synthetic data.

### SeriesAlignment and Pipeline

A series is the sequence of the ages of its values, the newest first, as the code
has them; an aligned row that pairs values of different ages is then visible.
`Retrieve` stores for each of the objects that the covariance mode reads nothing,
an unreadable or short text, or a full series; `NextDay` makes today's objects
yesterday's, which is the key the mode reads.  `StartCovariance` to `CloseOutput`
are the mode's stages in order; an exception or an early return is `Return`, which
gives up the locals.  A stage that asks for sizes (`ValidData`, `NumFactors`, seven
sensitivities) is decided by the sizes the earlier stages produced.  `expectations`
keeps for each surprise the ages of the rows its expectation is made of.
`FirstTen` is a read beyond the end of a short vector: ten values of no meaning,
with the age `NoAge`, or the end of the process.  `AssignSensitivities` is a write
beyond the end, and the run that did it is marked (`overrun`), as is whatever it
writes.  `UploadDaily` stores the file there is, of whatever run and day.
Of the factors `Decompose` keeps, for the labels Growth and Volatility, whether there
is such a factor and whether its variance is above 0.5, which is all that
`GenerateSignal` reads; any of it is possible whose indicators are there.  A value of
no meaning may be no number, on which the covariance or the decomposition fails.

### Backtester and VaRMonitor

`Day(direction, notional, ret)` is the loop body (65-164) in its order: signal,
size, trade bookkeeping, costs, P&L, peak and drawdown, VaR breach, record.
`Finish` is the close of the last trade, `Report` one call of
`VaRMonitor::updatePosition` by the backtest mode.  Direction, size and return
are chosen from sets, so a run covers every history those sets allow.  Money is
exact: positions are integers, returns whole percents, and a ratio is a pair
compared by cross-multiplication, since the drawdown must not be rounded.
The position of a day is the size times the conviction in the code; the product
is what is chosen.

### DailyDecision

`Regime`, `Observables` and the `Estimated...` operators build the data point of
a day as `fetchHistoricalData` does, with spread, MOVE and put/call ratio taken
from the VIX.  `Decide` is the signal and the size of that day, taken from the
trades closed before it; `TradeDay` closes a trade because the direction turns,
`QuietDay` does not.  The growth and volatility factors, z-scores in the code,
are chosen from sets.  Scores are exact integers; the multiplier is rounded down
to 1/5600 and money to its unit, both monotone.

## Runs

| run | question | bounds | states |
|---|---|---|---|
| `gateway_threads` | do interleavings of two threads break the book, and does an order always leave PENDING_SUBMIT? | 2 threads, 2 orders, 1 socket, 1 run, fair | 1.1 million |
| `gateway_restart` | do restarts and reconnects? | 1 thread, 1 order, 3 sockets, 2 runs | 0.7 million |
| `gateway_fill_reports` | finding | 1 thread, 1 order, 2 sockets, 2 runs | |
| `live` | what do repeated, killed runs of the live mode leave at TWS, and does each end? | 1 thread, 2 orders, 3 sockets, 3 runs, fair | 48 thousand |
| `history` | which observations is a point made of, whatever fails? | 6 days, window 3 of at least 2, series failing or breaking off at any day | 189 thousand |
| `history_equity` | finding | the same | |
| `backtest` | do the loop's figures agree with its records and with the monitor? | 4 days, 2 sizes, 3 returns, a monitor of 3 days | 0.3 million |
| `decision` | does the decision react in the right sense? | 8 VIX levels, 4 slopes, 3 growth and 3 volatility factors, histories of 3 trades | 6 thousand |
| `decision_long_rule` | finding | the same | |
| `pipeline` | which runs reach a result, from which values? | 2 days, all outcomes of the retrieval, 3 sets of gaps, VIX of 0 or 30 days | 1.9 million |
| `pipeline_months` | finding | the same | |
| `pipeline_surprises` | finding | the same | |

Two threads and two orders are the least for two calls on different orders and a
cancellation of the other thread's order; a third thread adds no new kind of
pair.  Two runs and three sockets let an order of the first run be received in
the second and collide with a new one.  Four days are the least for two complete
holding periods with a turn through FLAT or a flip between them and a monitor
that drops a day.  Three live runs are the least for a run after
one whose order was refused; the third socket is the third run's.  The history has
a day before the first VIX, a day the VIX misses, an observation on a holiday,
yields missing for two days, and a S&P 500 that starts late or misses a day; five trading days fill a window
of three and push two values out; with the NASDAQ failing, two monthly observations fall
between the first two trading days.  The pipeline's constants are the code's (21
days, 12 months, 6 months); two days are the least for a file that outlives the
day; the gaps give FRED series of 12, 10 and 2 values, which can be as long as the
others', so that validation does pass.  The VIX levels lie on both sides of 12, 20, 30 and 45, the
slopes on both sides of 0, 50 and 100.

`MaxOrders` bounds calls (`CallBudget`), `CancelBound` allows one cancellation of
an order per socket on the wire, `MaxTrades` bounds the trade history.  The
gateway never deadlocks (the owner can always call `disconnect`), nor does the
daily decision, nor the pipeline (a file can be uploaded and the mode started at
any time).  The backtest, the history and the bounded number of live runs come to
an end, so their configurations turn the deadlock check off.

### What the properties say

- `UniqueOrderIds`, `StoredBeforeSent`, `ErrorNeverLive`, `SettledWhenReturned`:
  see the comments; all four hold for the code as it is.
- `BookMatchesTws`: when no call on an order is under way, no message about it
  is on the wire and nothing about it was lost, refused or overtaken, CANCELLED
  means that TWS has the order and it does not work, and SUBMITTED that it was
  not cancelled.
- `ImplementsLifecycle`: the gateway refines `OrderLifecycle` with
  `status <- orders, issued <- nextOrderId - 1`.
- `TradesAreHoldingPeriods`, `NavIsAccountedFor`, `DrawdownIsPeakToTrough`: the
  figures kept day by day equal a definition over the whole record.  The last one
  asks it while the value is positive: at or below zero the percentage has no
  meaning, and the code divides by it all the same.
- `MonitorSeesTheSameBreaches`: the loop's inline breach test and the monitor's
  agree unless the monitor has dropped days.
- `RunsShareAnId`: all live runs together get one order accepted, because each of
  them asks for id 1; what keeps positions from adding up day by day is an accident of
  the truncated reads.  `SessionClosedAtExit`, `AnnouncedIsSubmitted`, `CycleEnds`:
  every cycle ends, without a session, and announces only an order that went out
  whole.
- `NoLookAhead`, `FilledFromNewest`: a point uses the newest observation up to its
  day and none after it; the one exception is named, a monthly series that starts
  late lends its first value to the days before.  `ChangeSeenOnce`: a change of
  the unemployment rate is seen on one trading day alone, the first on or after its
  observation, `ReturnsChain`: the
  returns compound from the first to the last price, `WindowsAligned`: z-scores
  compare a day with the last days up to it and nothing else, `EquityAloneDecides`:
  only missing prices lead to synthetic data.
- `AlignedAges`: the aligner's loops against closed forms of the ages of the rows.
- `YieldsStopTheRun`, `EveryResultOverruns`: with yesterday's yields a run never
  passes the validation, and every run that does pass it writes beyond its sensitivities.
- `SignalOfTwoVariances`: the market behind the covariance mode's signal is literals
  that lean to LONG, so that no data make it SHORT; what makes it LONG is the size of
  two variances.
- `NoContrarianTrade`, `OnlyVixShocksReverse`, `StressNeverEnlarges`,
  `KellyCapsTheSize`: the decision.

### Findings

Five runs end in a violation; each shows a statement of the repository that the
code does not keep (`PROJECT.json` quotes them): reads that lose all but the first
field (`gateway_fill_reports`), the rule for LONG in `SignalGenerator.hpp`
(`decision_long_rule`), a daily return between two indices (`history_equity`), "all
with 12 monthly values" (`pipeline_months`), and a "previous release" and a forecast that
are made of later values, since levels come most recent first (`pipeline_surprises`).

Seen while modelling, and part of the models where they bear on a property:

- interpolation counts its twelve months from the oldest of ten quarters, so the GDP
  rows are 16 to 27 months old beside twelve recent months of the other series;
- seven sensitivities are assigned by position, in another order than the comments
  next to them name, and to a vector of as many elements as there are indicators;
- a bond holiday makes a yield 0 and the slope 0, or as large as the other yield;
- the growth factor is the sentiment alone: the window of unemployment changes is
  kept and not used (Backtester.cpp:483);
- a cancellation by another thread can reach TWS before its order, which then works while
  the book says CANCELLED; nothing promises otherwise, and `BookMatchesTws` leaves it out;
- the VaR of a day is taken after the day's data moved the position, where the
  comment says at the start of the day;
- `cancelOrder` sends for an id it does not know and returns false, and a failed
  second `connect` leaves `connected_` up;
- the rolling decomposition keeps one previous label for all factors;
- `upload-daily` sends a file of an earlier run or day under today's key.

## Fairness

`FairSpec` adds weak fairness of `Continue(t)` for each thread: a step inside a
call that has begun.  No such step blocks: `recv` does not wait, `send` of a short
message ends or fails, a critical section holds no other lock.  Nothing is
assumed of TWS, of the network, or of callers starting a call.
`LiveSpec` has weak fairness of `LiveStep` instead: the live mode has one thread,
which goes on as long as the process runs; the process may still be killed and
TWS may do nothing for ever.  `PendingResolves` holds because every exit of `placeOrder` updates the status.

## Proofs

Every invariant and every action property of the passing runs is a theorem, and so is the
refinement of `OrderLifecycle`: the runs show them on the sizes above, the theorems for every
value of the constants that the assumptions allow.  `PROJECT.json` lists the theorems
with the properties they state.  The assumptions are those the modules declare: the
owner is a thread and bounds are positive (`IBGateway`), the live mode has one thread
(`LiveTrading`), prices and sizes are integers (`Backtester`, `DailyDecision`), the
maximal size is not below the base (it is twice the base in the code), series are any sets
of days of the range (`HistoryData`), a month has at least the ten days of yields and a
target of months lies between 11 and 30 (`SeriesAlignment`).

**Gateway** (`IBGatewayProofs`).  None of the safety properties is inductive alone.  `IInv`
adds `CallInv` (a call on an order has an id, and placeOrder's was handed out), `BookInv`
(`orders` holds nothing from `nextOrderId` on; an order being stored is not there yet, and
until its call ends it is PENDING_SUBMIT or CANCELLED; nothing becomes FILLED), `RunInv`
(messages and accepted orders are of this run or an earlier one) and `UnsentInv` (an
order whose call has not sent it is neither on a wire nor at TWS).  `UnsentInv` carries
the argument: an id is handed out once, its order is sent only from `place_send`, and
after a failed send nobody sends it again; so what is on the wire was stored, and what is
marked ERROR was never sent.  `ReadIsBlind` is the lemma that no answer changes the
book.  For the refinement each step of the gateway is matched with a step of
`OrderLifecycle` or a stutter, given `IInv`.

**Book and TWS** (`BookProofs`).  `BookMatchesTws` speaks of an order about which nothing is
under way, so the induction must say what holds while something is.  `AgreeInv` does, for
each id not in `doubt`: an order whose send was acknowledged, or will be, is at TWS or on
the wire; a cancellation on the wire is behind its order on the same socket, unless TWS
has the order; an order is told CANCELLED, or will be, exactly when its cancellation is on the
wire or at TWS, a fill aside.  The steps that could break it (a send on another socket, a partial send, the
end of a session, a refusal, a restart) are those that put the id into `doubt`.

**Live mode** (`LiveTradingProofs`).  A step of the mode is a step of the gateway or leaves
it alone, so that `LiveSpec` implies the gateway's `Spec` and its theorems hold.  `PhaseInv`
ties the step of the cycle to the gateway's `pc`, `connected_` and socket; `AnnouncedInv`
says that a run announces after its only order and that nothing is ever cancelled;
`ShareInv` that every order, in the book, on a wire or at TWS, has id 1.

**History** (`HistoryDataProofs`).  `HistoryInv` gives every slot the program fills as a
function of the series alone: the forward fill holds `LatestUpTo` the day, a point is made from two
neighbouring trading days, a window is the newest part of a column of the points.
The trading days are ordered by rank (the k-th has k of them up to it), and
the lemmas of `SetFacts` on ranks stand where an induction over a sorted list would.

**Backtest** (`BacktesterProofs`).  `Inv` ties each running figure to the record: counters
are cardinalities of sets of days; the peak is the highest value; no fall of the record is
larger than the drawdown and one is as large, with ratios compared by
cross-multiplication (from a higher value the fall to the same one is larger in percent);
cash is a total over the days and the turns.  `TradeInv` says that the list of trade returns has
the finished holding periods, and that an open trade is the last period, with its
return so far; a turn closes it and leaves all other periods as they are.  The breaches the
monitor counts are mapped one to one into the days the loop counted.  Totals are those
of `MapThenSumSet`; that they exist, do not depend on the order and grow by what a new
member brings is proved in `SetFacts` by taking a least counterexample, since the theorems on
induction take an operator and cannot be used here.

**Decision** (`DailyDecisionProofs`).  `DecisionInv` says that the decision on hold is that
of the market on hold.  Risk-Off implies a VIX above 30 and Risk-On one below 12, so regime
and VIX both vote, and two votes against a side are a veto.  A reversal takes
a side from at most one vote to at least three, so that two votes change at once; the only two
that one series moves together are the regime's and the VIX's, and when the regime goes from
Risk-On to Risk-Off, or back, the VIX crosses both of its borders.  Each of the five stress scores is monotone in the VIX
and the slope, and so are the multiplier and the quotients by it; Kelly's fraction is at
most a quarter of the base before it is scaled.

**Daily chain** (`PipelineProofs`).  `IInv` gives the form of each stage's data: which raw
series there can be (`RawForm`), that rows are what the aligner makes of them and surprises
what the transformer makes of the rows, one for each, and that files come from the last stage.  The rows get closed
forms from the aligner's loops.  Inflation and GDP have ten values or none, yields ten or
none; ten days make one row and ten quarters fill the target, so valid data (one length,
at least two) have no yields, and not both of inflation and GDP; six indicators are fewer
than seven sensitivities.  The signal is taken for literals, of which
the VIX and the curve vote LONG: that is a veto against SHORT, and one more vote makes a LONG.

What the proofs changed in the models: `ChangeSeenOnce` said too much of a first
observation that falls between two trading days, and the run's series did not have that case
(it has now); `KellyCapsTheSize` needs the maximal size not to be below the base, which
had not been assumed; arms of a `CASE` in `SeriesAlignment` overlapped without TLC minding;
`tradingDates`, `WithoutGaps` and `TradesAreHoldingPeriods` sorted sets by a recursion the provers
cannot follow, and use ranks now.

Only model-checked: `PendingResolves` and `CycleEnds`, which are liveness under fairness
and beyond the prover.  The five violations are TLC's counterexamples.

## Not modelled

- Vendored code: of the 430 thousand lines in the tree, all but some eight thousand
  are Eigen, the AWS SDK, a JSON library and the like, under `src/opt`,
  `src/aws-sdk-cpp-install` and `src/include`.  The program uses them as they
  are; a share of the whole tree says little about the program.
- Linear algebra, averages, z-scores, Sharpe and its kin over doubles: no finite
  abstraction says anything about them.
- The rolling decomposition, `stressTest` and hysteresis: called by tests only.
  Hedging: the literal market of the covariance mode never asks for it.
- The synthetic history (random numbers), the survey expectations (always empty),
  the validation flag of the surprises (never read), `detectFrequency` and
  `DynamoDBClient` (never called).
- The secrets cache: its flag is never set, and a process asks once.
- Latency figures, logging, texts, argument handling, the report file.
- `handlePositionUpdate`: no position request is ever sent.  Callbacks: called
  only by a handler that no message reaches.
- HTTP, JSON and AWS calls beyond success and failure, CDK, Docker.

## Plan

The program's stateful parts are modelled, and all their safety properties are proved.  What is left:

1. A property for the size without an edge (PositionSizer.cpp:413): better trades may lead
   to a smaller size; a run of its own, since it compares two histories.
2. Lemmas on the operators the decision is made of, stated for their own sake: hysteresis
   and hedging, if a mode comes to use them.
3. The labels of the rolling decomposition, if a mode comes to use it.
