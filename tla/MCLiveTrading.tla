---------------------------- MODULE MCLiveTrading ----------------------------
(* Values of LiveTrading's constants for TLC. *)
EXTENDS LiveTrading

\* The order of every run buys two contracts.
MCSize == [id \in Ids |-> 2]
=============================================================================
