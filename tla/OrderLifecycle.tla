---------------------------- MODULE OrderLifecycle ----------------------------
(***************************************************************************)
(* What the gateway promises a caller of getOrder about one order's status *)
(* (the OrderStatus life cycle of DataProviders/IBGateway.hpp:43-50): ids  *)
(* are handed out in sequence, an order starts as PENDING_SUBMIT exactly   *)
(* once, and becomes SUBMITTED only from there; in particular it does not  *)
(* become SUBMITTED again once it was cancelled.  There are no threads, no *)
(* sockets and no TWS here.                                                *)
(***************************************************************************)
EXTENDS Integers

CONSTANT MaxOrders   \* bound: order ids 1..MaxOrders

VARIABLES
  status,   \* status[id], "NONE" until the order is known
  issued    \* ids 1..issued have been handed out

Ids == 1 .. MaxOrders

Init ==
  /\ status = [id \in Ids |-> "NONE"]
  /\ issued = 0

Issue ==
  /\ issued < MaxOrders
  /\ issued' = issued + 1
  /\ UNCHANGED status

Change(id, from, to) ==
  /\ status[id] \in from
  /\ status' = [status EXCEPT ![id] = to]
  /\ UNCHANGED issued

\* The order becomes known, once, and only under an id that was handed out.
Accept(id) == id <= issued /\ Change(id, {"NONE"}, "PENDING_SUBMIT")

Submit(id) == Change(id, {"PENDING_SUBMIT"}, "SUBMITTED")

\* The request could not be sent; a cancellation may have come before that.
Fail(id) == Change(id, {"PENDING_SUBMIT", "CANCELLED"}, "ERROR")

Cancel(id) == Change(id, {"PENDING_SUBMIT", "SUBMITTED", "ERROR"}, "CANCELLED")

\* The process is started again with an empty book.
Forget ==
  /\ status' = [id \in Ids |-> "NONE"]
  /\ issued' = 0

Next ==
  \/ Issue \/ Forget
  \/ \E id \in Ids : Accept(id) \/ Submit(id) \/ Fail(id) \/ Cancel(id)

Spec == Init /\ [][Next]_<<status, issued>>
=============================================================================
