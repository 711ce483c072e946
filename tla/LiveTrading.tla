----------------------------- MODULE LiveTrading -----------------------------
(***************************************************************************)
(* The live mode of MultiVarAnalysisWorkflow.cpp: one trading cycle per    *)
(* run of the process, over the gateway of IBGateway.  The mode's thread   *)
(* is the gateway's Owner and its only thread; the process may die at any  *)
(* point, and is run again on another day.                                 *)
(*                                                                         *)
(* The regime and the factors of the mode are literals, so that the signal *)
(* is LONG in every run and the size is the same; the balance is printed,  *)
(* and the position, which no message ever changes, too.                   *)
(***************************************************************************)
EXTENDS IBGateway

ASSUME OneThreadAssumption == Threads = {Owner}

VARIABLES
  step,       \* where the cycle is
  announced   \* runs that printed "Order placed"

liveVars == <<vars, step, announced>>

Steps == {"start", "connecting", "trade", "placing", "placed", "disconnecting", "exited"}

\* Type invariant of the mode and of the gateway under it.
LiveTypeOK == TypeOK /\ step \in Steps /\ announced \in SUBSET Runs

LiveInit == Init /\ step = "start" /\ announced = {}

CallEnds == pc'[Owner] = "idle"

\* connect(host, port, 1).  If it fails the mode returns 1; the destructor has
\* nothing to close then.
LiveConnect ==
  /\ \/ step = "start" /\ ConnectSocket
     \/ step = "connecting" /\ (ConnectTcp \/ ConnectHandshake \/ ConnectRead \/ ConnectDone)
  /\ step' = IF ~CallEnds THEN "connecting"
             ELSE IF ret'[Owner] = "ok" THEN "trade" ELSE "exited"
  /\ UNCHANGED announced

\* Mistake: the mode exits without disconnecting when the order failed.
LiveTradeOrExit ==
  /\ \/ step = "trade" /\ PlaceCheck(Owner)
     \/ step = "placing" /\ Continue(Owner)
  /\ step' = IF ~CallEnds THEN "placing"
             ELSE IF ret'[Owner] = "ok" THEN "placed" ELSE "exited"
  /\ announced' = IF CallEnds /\ ret'[Owner] = "ok" THEN announced \cup {run} ELSE announced

\* Mistake: the id is printed without looking at its sign.
LiveTradeAnnounceAll ==
  /\ \/ step = "trade" /\ PlaceCheck(Owner)
     \/ step = "placing" /\ Continue(Owner)
  /\ step' = IF CallEnds THEN "placed" ELSE "placing"
  /\ announced' = IF CallEnds THEN announced \cup {run} ELSE announced

\* A market order of the day's size, whatever is held; its id is printed if it
\* is positive.  The cycle goes on either way.
LiveTrade ==
  /\ \/ step = "trade" /\ PlaceCheck(Owner)
     \/ step = "placing" /\ Continue(Owner)
  /\ step' = IF CallEnds THEN "placed" ELSE "placing"
  /\ announced' = IF CallEnds /\ ret'[Owner] = "ok" THEN announced \cup {run} ELSE announced

LiveDisconnect ==
  /\ \/ step = "placed" /\ DisconnectClose
     \/ step = "disconnecting" /\ DisconnectFlag
  /\ step' = IF CallEnds THEN "exited" ELSE "disconnecting"
  /\ UNCHANGED announced

LiveStep == LiveConnect \/ LiveTrade \/ LiveDisconnect

\* The process dies, or has exited; it is run again.
RunAgain == Restart /\ step' = "start" /\ UNCHANGED announced

World ==
  /\ \/ \E s \in Sockets : TwsRead(s) \/ TwsClose(s)
     \/ \E id \in Ids : TwsFill(id)
  /\ UNCHANGED <<step, announced>>

LiveNext == LiveStep \/ RunAgain \/ World

\* The mode has one thread and no call of it waits for an answer, so a running
\* process takes its next step.
LiveSpec == LiveInit /\ [][LiveNext]_liveVars /\ WF_liveVars(LiveStep)

-----------------------------------------------------------------------------
(* Safety. *)

\* Every run asks for the same id: the next valid id that TWS reports on the
\* connection is lost in the read, so that TWS takes the order of one run at most
\* and knows that id from then on, while every later run that sends announces
\* its order as placed (IBGateway.cpp:30-91, MultiVarAnalysisWorkflow.cpp:591-608).
RunsShareAnId ==
  /\ \A id \in Ids : orders[id] # "NONE" \/ tws[id] # "unknown" => id = 1
  /\ Cardinality({r \in Runs : \E id \in Ids : twsRun[id] = r}) <= 1

\* A cycle that is over has no session left and says so, whichever step of it
\* failed (MultiVarAnalysisWorkflow.cpp:558-562, 597-617, IBGateway.cpp:36-101).
SessionClosedAtExit ==
  step = "exited" => socketFd = NoSocket /\ ~connected /\ pc[Owner] = "idle"

\* "Order placed" is printed only for an order that went out whole: in the book
\* it is SUBMITTED from then on, whatever TWS does and however the cycle goes on
\* (MultiVarAnalysisWorkflow.cpp:597-615, IBGateway.cpp:146-173).
AnnouncedIsSubmitted ==
  run \in announced => \E id \in Ids : orders[id] = "SUBMITTED"

-----------------------------------------------------------------------------
(* Liveness. *)

\* Every cycle comes to its end, or the process is killed: no step waits for an
\* answer of TWS (MultiVarAnalysisWorkflow.cpp:558-617).
CycleEnds ==
  \A r \in Runs : run = r ~> (step = "exited" \/ run # r)

=============================================================================
