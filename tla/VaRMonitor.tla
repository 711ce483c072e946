------------------------------ MODULE VaRMonitor ------------------------------
(***************************************************************************)
(* The monitor of DataProcessors/VaRMonitor.cpp: a bounded history of days *)
(* with the loss that was predicted and the one that came.  Money and      *)
(* notionals are integers; risk per unit of notional is VaRPerUnit (the    *)
(* 95% z-score times totalRisk of PositionSizer::computeDailyVaR).         *)
(***************************************************************************)
EXTENDS Integers, Sequences, FiniteSets

CONSTANTS
  VaRPerUnit,   \* predicted loss per unit of notional
  MaxHistory    \* MAX_HISTORY (2520 in the code)

VARIABLE history   \* history_, oldest first

Magnitude(x) == IF x < 0 THEN -x ELSE x

ComputeDailyVaR(position) == Magnitude(position) * VaRPerUnit

CheckVaRBreach(actualPnL, predictedVaR) ==
  actualPnL < 0 /\ Magnitude(actualPnL) > predictedVaR /\ predictedVaR > 0

Record(position, actualPnL) ==
  [predictedVaR |-> ComputeDailyVaR(position),
   actualPnL    |-> actualPnL,
   breached     |-> CheckVaRBreach(actualPnL, ComputeDailyVaR(position)),
   position     |-> position]

InitMonitor == history = << >>

\* Mistake: the newest record is dropped instead of the oldest.
UpdateAndDropNewest(position, actualPnL) ==
  history' = IF Len(history) < MaxHistory
             THEN Append(history, Record(position, actualPnL)) ELSE history

\* push_back, then pop_front while there are more than MAX_HISTORY.
UpdatePosition(position, actualPnL) ==
  LET longer == Append(history, Record(position, actualPnL))
  IN  history' = IF Len(longer) > MaxHistory THEN Tail(longer) ELSE longer

Breaches == Cardinality({i \in DOMAIN history : history[i].breached})
=============================================================================
