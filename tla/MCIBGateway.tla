----------------------------- MODULE MCIBGateway -----------------------------
(* Values of IBGateway's constants for TLC. *)
EXTENDS IBGateway

\* Order 1 buys two contracts, every other order sells one.
MCSize == [id \in Ids |-> IF id = 1 THEN 2 ELSE -1]
=============================================================================
