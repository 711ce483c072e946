----------------------------- MODULE MCBacktester -----------------------------
(* Values of Backtester's constants for TLC. *)
EXTENDS Backtester

\* A loss beyond the predicted 2 percent, a small loss, none, and a gain.
MCReturns == {-4, 0, 3}
=============================================================================
