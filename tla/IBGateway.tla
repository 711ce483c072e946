------------------------------ MODULE IBGateway ------------------------------
(***************************************************************************)
(* The order gateway of DataProviders/IBGateway.cpp: client threads that   *)
(* place and cancel orders through one shared IBGateway object, the TCP    *)
(* session to Trader Workstation (TWS), TWS itself (external), and         *)
(* restarts of the process.                                                *)
(*                                                                         *)
(* A thread's call is cut at every point where another thread can get in:  *)
(* an atomic access, a critical section of orderMutex_, a system call.  A  *)
(* critical section is one step, because the mutex makes it one.  Reading  *)
(* an answer (recv) and parsing it are one step: recv is non-blocking and  *)
(* the parse touches shared state in one place only.                       *)
(*                                                                         *)
(* connect and disconnect are called by one thread, the Owner; placeOrder  *)
(* and cancelOrder by any thread.  socketFd_ is a plain int: a load sees   *)
(* the value before or after a concurrent store.                           *)
(***************************************************************************)
EXTENDS Integers, Sequences, FiniteSets

CONSTANTS
  Threads,     \* threads that share the gateway object
  Owner,       \* the thread that connects and disconnects
  MaxOrders,   \* bound: order ids 1..MaxOrders are issued in a run
  MaxSockets,  \* bound: sockets created over all runs
  MaxRuns,     \* bound: runs of the process (restarts + 1)
  Size         \* Size[id]: signed quantity asked for by the order with that id

Ids     == 1 .. MaxOrders
Sockets == 1 .. MaxSockets
Runs    == 1 .. MaxRuns

ASSUME OwnerAssumption == Owner \in Threads
ASSUME BoundsAssumption ==
  MaxOrders \in Nat \ {0} /\ MaxSockets \in Nat \ {0} /\ MaxRuns \in Nat \ {0}
ASSUME SizeAssumption == Size \in [Ids -> Int]

NoSocket == 0   \* socketFd_ = -1
NoOrder  == 0

\* orders_[id].status; "NONE" stands for an id that is not a key of orders_.
\* (PARTIALLY_FILLED is never assigned.)
OrderStatus ==
  {"NONE", "PENDING_SUBMIT", "SUBMITTED", "FILLED", "CANCELLED", "ERROR"}

\* What the gateway writes to a socket.  The field run is a history tag: TWS
\* never looks at it.
ClientMessage ==
  [type : {"hello"}, id : {0}, run : Runs] \cup [type : {"place", "cancel"}, id : Ids, run : Runs]

HelloMessage(r)     == [type |-> "hello",  id |-> NoOrder, run |-> r]
PlaceMessage(id, r) == [type |-> "place",  id |-> id, run |-> r]
CancelMessage(id, r) == [type |-> "cancel", id |-> id, run |-> r]

\* What TWS writes.  fields counts the NUL-terminated fields a reader sees.
ServerMessage ==
  [type : {"nextValidId", "orderStatus", "execDetails"}, id : Nat,
   status : {"", "Submitted", "Filled", "Cancelled"}, fields : 1 .. 12]

NextValidId(id)    == [type |-> "nextValidId", id |-> id, status |-> "", fields |-> 3]
StatusReport(id, s) == [type |-> "orderStatus", id |-> id, status |-> s, fields |-> 12]
ExecReport(id)     == [type |-> "execDetails", id |-> id, status |-> "", fields |-> 12]

VARIABLES
  \* the gateway object
  connected, socketFd, nextOrderId, orders, position,
  \* the threads: program counter, order id of the call, value last returned
  pc, cur, ret,
  \* the operating system: process run, sockets created, bytes that arrived
  run, sockets, inbox,
  \* the sessions as TWS sees them, and its order book
  peer, out, tws, twsRun,
  \* history: ids TWS may know less, or other things, about than was sent
  doubt

client  == <<connected, socketFd, nextOrderId, orders, position>>
threads == <<pc, cur, ret>>
os      == <<run, sockets, inbox>>
server  == <<peer, out, tws, twsRun>>
vars    == <<client, threads, os, server, doubt>>

PlacePCs   == {"place_id", "place_store", "place_send", "place_fail", "place_read", "place_ack"}
CancelPCs  == {"cancel_send", "cancel_update"}
ConnectPCs == {"conn_tcp", "conn_hello", "conn_read", "conn_done", "disc_flag"}

\* Type invariant of the gateway, its threads and its environment.
TypeOK ==
  /\ connected \in BOOLEAN
  /\ socketFd \in {NoSocket} \cup Sockets
  /\ nextOrderId \in 1 .. MaxOrders + 1
  /\ orders \in [Ids -> OrderStatus]
  /\ position \in Int
  /\ pc \in [Threads -> {"idle"} \cup PlacePCs \cup CancelPCs \cup ConnectPCs]
  /\ cur \in [Threads -> {NoOrder} \cup Ids]
  /\ ret \in [Threads -> {"none", "ok", "failed"}]
  /\ run \in Runs
  /\ sockets \in 0 .. MaxSockets
  /\ inbox \in Seq(ServerMessage)
  /\ peer \in [Sockets -> {"none", "up", "broken"}]
  /\ out \in [Sockets -> Seq(ClientMessage)]
  /\ tws \in [Ids -> {"unknown", "working", "filled", "cancelled"}]
  /\ twsRun \in [Ids -> {0} \cup Runs]
  /\ doubt \in SUBSET Ids

Init ==
  /\ connected = FALSE /\ socketFd = NoSocket /\ nextOrderId = 1
  /\ orders = [id \in Ids |-> "NONE"] /\ position = 0
  /\ pc = [t \in Threads |-> "idle"]
  /\ cur = [t \in Threads |-> NoOrder]
  /\ ret = [t \in Threads |-> "none"]
  /\ run = 1 /\ sockets = 0 /\ inbox = << >>
  /\ peer = [s \in Sockets |-> "none"]
  /\ out = [s \in Sockets |-> << >>]
  /\ tws = [id \in Ids |-> "unknown"]
  /\ twsRun = [id \in Ids |-> 0]
  /\ doubt = {}

-----------------------------------------------------------------------------
(* Program counters and results. *)

Goto(t, from, to) ==
  /\ pc[t] = from
  /\ pc' = [pc EXCEPT ![t] = to]

Call(t, to) ==
  /\ Goto(t, "idle", to)
  /\ ret' = [ret EXCEPT ![t] = "none"]

Return(t, from, result) ==
  /\ Goto(t, from, "idle")
  /\ ret' = [ret EXCEPT ![t] = result]
  /\ cur' = [cur EXCEPT ![t] = NoOrder]

-----------------------------------------------------------------------------
(* The socket. *)

\* TWS has yet to read msg on socket s.
OnWire(s, msg) == \E i \in 1 .. Len(out[s]) : out[s][i] = msg

\* send() took every byte.  If TWS is gone or the stream is broken by an
\* earlier partial send, the bytes are never understood by anyone.
Sent(msg) ==
  /\ socketFd # NoSocket
  /\ peer[socketFd] # "none"
  /\ out' = IF peer[socketFd] = "up"
            THEN [out EXCEPT ![socketFd] = Append(@, msg)]
            ELSE out
  /\ peer' = peer

\* sendMessage returned false: no socket, an error, or a partial send, whose
\* bytes garble whatever follows them on this socket.
NotSent ==
  /\ out' = out
  /\ \/ peer' = peer
     \/ /\ socketFd # NoSocket
        /\ peer[socketFd] = "up"
        /\ peer' = [peer EXCEPT ![socketFd] = "broken"]

\* Mistake: the whole buffer is kept, with its NULs.
ReadWholeMessage == IF socketFd = NoSocket THEN << >> ELSE inbox

\* readMessage builds a std::string from the received bytes as from a C string:
\* it ends at the first NUL, so it holds the first field of the first message;
\* the rest of what recv returned is gone.
ReadMessage ==
  IF socketFd = NoSocket \/ inbox = << >>
  THEN << >>
  ELSE << [Head(inbox) EXCEPT !.fields = 1] >>

LocalStatus ==
  [Submitted |-> "SUBMITTED", Filled |-> "FILLED", Cancelled |-> "CANCELLED"]

\* The handlers, as functions from the shared state b they work on.
HandleNextValidId(m, b) ==
  IF m.fields > 2 THEN [b EXCEPT !.nextOrderId = m.id] ELSE b

HandleOrderStatus(m, b) ==
  IF m.fields >= 6 /\ m.id \in Ids /\ b.orders[m.id] # "NONE"
  THEN [b EXCEPT !.orders[m.id] = LocalStatus[m.status]]
  ELSE b

HandleExecutionDetails(m, b) ==
  IF m.fields >= 10 /\ m.id \in Ids /\ b.orders[m.id] # "NONE"
  THEN [b EXCEPT !.orders[m.id] = "FILLED", !.position = @ + Size[m.id]]
  ELSE b

ParseResponse(response, b) ==
  IF response = << >> THEN b
  ELSE LET m == Head(response)
       IN  CASE m.type = "nextValidId" -> HandleNextValidId(m, b)
             [] m.type = "orderStatus" -> HandleOrderStatus(m, b)
             [] m.type = "execDetails" -> HandleExecutionDetails(m, b)

\* readMessage and parseResponse.
ReadAndParse ==
  LET b == ParseResponse(ReadMessage,
             [nextOrderId |-> nextOrderId, orders |-> orders, position |-> position])
  IN  /\ nextOrderId' = b.nextOrderId
      /\ orders' = b.orders
      /\ position' = b.position
      /\ inbox' = IF socketFd = NoSocket THEN inbox ELSE << >>

-----------------------------------------------------------------------------
(* connect and disconnect, by the Owner. *)

\* socket(): the member is overwritten whatever it held, so a second connect
\* leaks the first socket (TWS keeps that session).
ConnectSocket ==
  /\ sockets < MaxSockets
  /\ inbox' = << >>
  /\ \/ /\ Call(Owner, "conn_tcp")
        /\ sockets' = sockets + 1
        /\ socketFd' = sockets + 1
        /\ UNCHANGED cur
     \/ /\ Return(Owner, "idle", "failed")
        /\ socketFd' = NoSocket
        /\ UNCHANGED sockets
  /\ UNCHANGED <<connected, nextOrderId, orders, position, run, server, doubt>>

\* inet_pton and ::connect; on failure the socket is closed and forgotten.
ConnectTcp ==
  /\ \/ /\ Goto(Owner, "conn_tcp", "conn_hello")
        /\ peer' = [peer EXCEPT ![socketFd] = "up"]
        /\ UNCHANGED <<socketFd, inbox, cur, ret>>
     \/ /\ Return(Owner, "conn_tcp", "failed")
        /\ socketFd' = NoSocket
        /\ inbox' = << >>
        /\ UNCHANGED peer
  /\ UNCHANGED <<connected, nextOrderId, orders, position, run, sockets, out, tws, twsRun, doubt>>

ConnectHandshake ==
  /\ \/ /\ Goto(Owner, "conn_hello", "conn_read")
        /\ Sent(HelloMessage(run))
        /\ UNCHANGED <<socketFd, inbox, cur, ret>>
     \/ /\ Return(Owner, "conn_hello", "failed")
        /\ NotSent
        /\ socketFd' = NoSocket
        /\ inbox' = << >>
  /\ UNCHANGED <<connected, nextOrderId, orders, position, run, sockets, tws, twsRun, doubt>>

ConnectRead ==
  /\ Goto(Owner, "conn_read", "conn_done")
  /\ ReadAndParse
  /\ UNCHANGED <<connected, socketFd, cur, ret, run, sockets, server, doubt>>

ConnectDone ==
  /\ Return(Owner, "conn_done", "ok")
  /\ connected' = TRUE
  /\ UNCHANGED <<socketFd, nextOrderId, orders, position, os, server, doubt>>

\* disconnect closes the socket first and lowers connected_ afterwards.
DisconnectClose ==
  /\ Call(Owner, "disc_flag")
  /\ socketFd' = NoSocket
  /\ inbox' = << >>
  /\ UNCHANGED <<connected, nextOrderId, orders, position, cur, run, sockets, server, doubt>>

DisconnectFlag ==
  /\ Return(Owner, "disc_flag", "ok")
  /\ connected' = FALSE
  /\ UNCHANGED <<socketFd, nextOrderId, orders, position, os, server, doubt>>

-----------------------------------------------------------------------------
(* placeOrder. *)

\* Bound: a call starts only if an id is left for it.
CallBudget ==
  nextOrderId + Cardinality({t \in Threads : pc[t] = "place_id"}) <= MaxOrders

PlaceCheck(t) ==
  /\ CallBudget
  /\ \/ /\ connected
        /\ Call(t, "place_id")
        /\ UNCHANGED cur
     \/ /\ ~connected
        /\ Return(t, "idle", "failed")
  /\ UNCHANGED <<client, os, server, doubt>>

\* Mistake: the counter counts down.
PlaceCountDown(t) ==
  /\ nextOrderId \in Ids
  /\ Goto(t, "place_id", "place_store")
  /\ cur' = [cur EXCEPT ![t] = nextOrderId]
  /\ nextOrderId' = nextOrderId - 1
  /\ UNCHANGED <<connected, socketFd, orders, position, ret, os, server, doubt>>

\* Mistake: the counter is read but not advanced.
PlaceReadId(t) ==
  /\ nextOrderId \in Ids
  /\ Goto(t, "place_id", "place_store")
  /\ cur' = [cur EXCEPT ![t] = nextOrderId]
  /\ UNCHANGED <<client, ret, os, server, doubt>>

\* Mistake: the order is sent without being stored.
PlaceWithoutStore(t) ==
  /\ nextOrderId \in Ids
  /\ Goto(t, "place_id", "place_send")
  /\ cur' = [cur EXCEPT ![t] = nextOrderId]
  /\ nextOrderId' = nextOrderId + 1
  /\ UNCHANGED <<connected, socketFd, orders, position, ret, os, server, doubt>>

\* nextOrderId_++ is an atomic fetch-and-add.
PlaceTakeId(t) ==
  /\ nextOrderId \in Ids
  /\ Goto(t, "place_id", "place_store")
  /\ cur' = [cur EXCEPT ![t] = nextOrderId]
  /\ nextOrderId' = nextOrderId + 1
  /\ UNCHANGED <<connected, socketFd, orders, position, ret, os, server, doubt>>

PlaceStore(t) ==
  /\ Goto(t, "place_store", "place_send")
  /\ orders' = [orders EXCEPT ![cur[t]] = "PENDING_SUBMIT"]
  /\ UNCHANGED <<connected, socketFd, nextOrderId, position, cur, ret, os, server, doubt>>

PlaceSend(t) ==
  /\ \/ /\ Goto(t, "place_send", "place_read")
        /\ Sent(PlaceMessage(cur[t], run))
        /\ doubt' = IF peer[socketFd] = "up" THEN doubt ELSE doubt \cup {cur[t]}
     \/ /\ Goto(t, "place_send", "place_fail")
        /\ NotSent
        /\ UNCHANGED doubt
  /\ UNCHANGED <<client, cur, ret, os, tws, twsRun>>

\* Mistake: the status is not set to ERROR.
PlaceFailSilently(t) ==
  /\ Return(t, "place_fail", "failed")
  /\ UNCHANGED <<client, os, server, doubt>>

PlaceFail(t) ==
  /\ Return(t, "place_fail", "failed")
  /\ orders' = [orders EXCEPT ![cur[t]] = "ERROR"]
  /\ UNCHANGED <<connected, socketFd, nextOrderId, position, os, server, doubt>>

\* Mistake: no answer to read is taken for a failed order.
PlaceReadOrFail(t) ==
  /\ IF inbox = << >>
     THEN Goto(t, "place_read", "place_fail") /\ UNCHANGED <<client, inbox>>
     ELSE Goto(t, "place_read", "place_ack") /\ ReadAndParse /\ UNCHANGED <<connected, socketFd>>
  /\ UNCHANGED <<cur, ret, run, sockets, server, doubt>>

\* Mistake: the read waits for an answer.
PlaceReadWait(t) ==
  /\ Goto(t, "place_read", "place_ack")
  /\ inbox # << >>
  /\ ReadAndParse
  /\ UNCHANGED <<connected, socketFd, cur, ret, run, sockets, server, doubt>>

PlaceRead(t) ==
  /\ Goto(t, "place_read", "place_ack")
  /\ ReadAndParse
  /\ UNCHANGED <<connected, socketFd, cur, ret, run, sockets, server, doubt>>

\* Mistake: the order is marked SUBMITTED without looking at its status.
PlaceAckAlways(t) ==
  /\ Return(t, "place_ack", "ok")
  /\ orders' = [orders EXCEPT ![cur[t]] = "SUBMITTED"]
  /\ UNCHANGED <<connected, socketFd, nextOrderId, position, os, server, doubt>>

PlaceAck(t) ==
  /\ Return(t, "place_ack", "ok")
  /\ orders' = IF orders[cur[t]] = "PENDING_SUBMIT"
               THEN [orders EXCEPT ![cur[t]] = "SUBMITTED"]
               ELSE orders
  /\ UNCHANGED <<connected, socketFd, nextOrderId, position, os, server, doubt>>

-----------------------------------------------------------------------------
(* cancelOrder. *)

\* Bound: one cancellation of an order of this run in flight per socket.
CancelBound(id) ==
  \A s \in Sockets : s = socketFd => ~OnWire(s, CancelMessage(id, run))

\* A caller may name any id: one it was given, one it saw in getAllOrders while
\* placeOrder was still running, or one that was never issued.
CancelCheck(t, id) ==
  /\ \/ /\ connected
        /\ Call(t, "cancel_send")
        /\ cur' = [cur EXCEPT ![t] = id]
     \/ /\ ~connected
        /\ Return(t, "idle", "failed")
  /\ UNCHANGED <<client, os, server, doubt>>

\* TWS has taken the order of this run with that id.
Taken(id) == twsRun[id] = run

\* The place message of id is ahead of a cancellation sent now.
PlaceIsAhead(id) ==
  \/ Taken(id)
  \/ OnWire(socketFd, PlaceMessage(id, run))

\* Mistake: the result of sendMessage is not looked at.
CancelSendUnchecked(t) ==
  /\ Goto(t, "cancel_send", "cancel_update")
  /\ CancelBound(cur[t])
  /\ \/ /\ Sent(CancelMessage(cur[t], run))
        /\ doubt' = IF peer[socketFd] = "up" /\ PlaceIsAhead(cur[t])
                    THEN doubt ELSE doubt \cup {cur[t]}
     \/ NotSent /\ UNCHANGED doubt
  /\ UNCHANGED <<client, cur, ret, os, tws, twsRun>>

CancelSend(t) ==
  /\ pc[t] = "cancel_send"
  /\ CancelBound(cur[t])
  /\ \/ /\ Goto(t, "cancel_send", "cancel_update")
        /\ Sent(CancelMessage(cur[t], run))
        /\ doubt' = IF peer[socketFd] = "up" /\ PlaceIsAhead(cur[t])
                    THEN doubt ELSE doubt \cup {cur[t]}
        /\ UNCHANGED <<cur, ret>>
     \/ /\ Return(t, "cancel_send", "failed")
        /\ NotSent
        /\ UNCHANGED doubt
  /\ UNCHANGED <<client, os, tws, twsRun>>

CancelUpdate(t) ==
  /\ \/ /\ Return(t, "cancel_update", "ok")
        /\ orders[cur[t]] # "NONE"
        /\ orders' = [orders EXCEPT ![cur[t]] = "CANCELLED"]
     \/ /\ Return(t, "cancel_update", "failed")
        /\ orders[cur[t]] = "NONE"
        /\ UNCHANGED orders
  /\ UNCHANGED <<connected, socketFd, nextOrderId, position, os, server, doubt>>

-----------------------------------------------------------------------------
(* Trader Workstation and the network: external, as the gateway relies on it. *)

\* An answer is of interest only while the socket it is written to is the one
\* the gateway holds.
Reply(s, msgs) ==
  inbox' = IF s = socketFd /\ peer[s] # "none" THEN inbox \o msgs ELSE inbox

\* n is the smallest id above all that TWS has seen.
IsNextId(n) ==
  /\ \A id \in Ids : id >= n => tws[id] = "unknown"
  /\ n > 1 => tws[n - 1] # "unknown"

TwsHello(s, m) ==
  /\ m.type = "hello"
  /\ \E n \in 1 .. MaxOrders + 1 : IsNextId(n) /\ Reply(s, << NextValidId(n) >>)
  /\ UNCHANGED <<tws, twsRun, doubt>>

TwsAccept(s, m) ==
  /\ m.type = "place" /\ tws[m.id] = "unknown"
  /\ tws' = [tws EXCEPT ![m.id] = "working"]
  /\ twsRun' = [twsRun EXCEPT ![m.id] = m.run]
  /\ Reply(s, << StatusReport(m.id, "Submitted") >>)
  /\ UNCHANGED doubt

\* An id that TWS already knows is refused.
TwsRefuse(m) ==
  /\ m.type = "place" /\ tws[m.id] # "unknown"
  /\ doubt' = IF m.run = run THEN doubt \cup {m.id} ELSE doubt
  /\ UNCHANGED <<tws, twsRun, inbox>>

TwsCancel(s, m) ==
  /\ m.type = "cancel" /\ tws[m.id] = "working"
  /\ tws' = [tws EXCEPT ![m.id] = "cancelled"]
  /\ doubt' = IF twsRun[m.id] = m.run THEN doubt ELSE doubt \cup {m.id}
  /\ Reply(s, << StatusReport(m.id, "Cancelled") >>)
  /\ UNCHANGED twsRun

\* A cancellation of an order that is not working has no effect.
TwsIgnore(m) ==
  /\ m.type = "cancel" /\ tws[m.id] # "working"
  /\ UNCHANGED <<tws, twsRun, inbox, doubt>>

\* TWS takes the next message of a session.
TwsRead(s) ==
  /\ out[s] # << >>
  /\ out' = [out EXCEPT ![s] = Tail(@)]
  /\ LET m == Head(out[s])
     IN  TwsHello(s, m) \/ TwsAccept(s, m) \/ TwsRefuse(m) \/ TwsCancel(s, m) \/ TwsIgnore(m)
  /\ UNCHANGED <<client, threads, run, sockets, peer>>

\* A working order is executed; the reports go to the session in use, if any.
TwsFill(id) ==
  /\ tws[id] = "working"
  /\ tws' = [tws EXCEPT ![id] = "filled"]
  /\ IF socketFd # NoSocket
     THEN Reply(socketFd, << StatusReport(id, "Filled"), ExecReport(id) >>)
     ELSE UNCHANGED inbox
  /\ UNCHANGED <<client, threads, run, sockets, peer, out, twsRun, doubt>>

\* The session ends at TWS's side: what it had not read is lost.  connected_
\* stays up, nothing in the gateway notices.
TwsClose(s) ==
  /\ peer[s] # "none"
  /\ peer[s] = "up" \/ out[s] # << >>
  /\ peer' = [peer EXCEPT ![s] = "broken"]
  /\ out' = [out EXCEPT ![s] = << >>]
  /\ doubt' = doubt \cup
       {id \in Ids : \E i \in 1 .. Len(out[s]) : out[s][i].id = id /\ out[s][i].run = run}
  /\ UNCHANGED <<client, threads, os, tws, twsRun>>

\* The process dies at any point (SIGPIPE included) and is started again: a new
\* object, whose ids start at 1; bytes already sent still reach TWS.
Restart ==
  /\ run < MaxRuns
  /\ run' = run + 1
  /\ connected' = FALSE /\ socketFd' = NoSocket /\ nextOrderId' = 1
  /\ orders' = [id \in Ids |-> "NONE"] /\ position' = 0
  /\ pc' = [t \in Threads |-> "idle"]
  /\ cur' = [t \in Threads |-> NoOrder]
  /\ ret' = [t \in Threads |-> "none"]
  /\ inbox' = << >>
  /\ doubt' = {}
  /\ UNCHANGED <<sockets, server>>

-----------------------------------------------------------------------------

\* A step a thread takes inside a call it has begun.
Continue(t) ==
  \/ PlaceTakeId(t) \/ PlaceStore(t) \/ PlaceSend(t) \/ PlaceFail(t)
  \/ PlaceRead(t) \/ PlaceAck(t)
  \/ CancelSend(t) \/ CancelUpdate(t)

Connecting ==
  ConnectTcp \/ ConnectHandshake \/ ConnectRead \/ ConnectDone \/ DisconnectFlag

Next ==
  \/ ConnectSocket \/ DisconnectClose \/ Connecting
  \/ \E t \in Threads : PlaceCheck(t) \/ Continue(t)
  \/ \E t \in Threads, id \in Ids : CancelCheck(t, id)
  \/ \E s \in Sockets : TwsRead(s) \/ TwsClose(s)
  \/ \E id \in Ids : TwsFill(id)
  \/ Restart

Spec == Init /\ [][Next]_vars

\* No step of a call blocks (recv is non-blocking, critical sections do not
\* nest here), so the scheduler lets a begun call go on.
Fairness == \A t \in Threads : WF_vars(Continue(t))

FairSpec == Spec /\ Fairness

-----------------------------------------------------------------------------
(* Safety. *)

Placing(t) == pc[t] \in PlacePCs \ {"place_id"}

PlaceOnWire(id) == \E s \in Sockets : OnWire(s, PlaceMessage(id, run))

DistinctCalls ==
  \A t, u \in Threads : t # u /\ Placing(t) /\ Placing(u) => cur[t] # cur[u]

SentOnce ==
  /\ \A id \in Ids : Taken(id) => ~PlaceOnWire(id)
  /\ \A s, r \in Sockets : \A i \in 1 .. Len(out[s]), j \in 1 .. Len(out[r]) :
       /\ out[s][i].type = "place" /\ out[s][i].run = run
       /\ out[s][i] = out[r][j]
       => s = r /\ i = j

\* Two calls never work on one order id, and an id is sent to TWS at most once
\* in a run, however the threads interleave (nextOrderId_++, IBGateway.cpp:121).
UniqueOrderIds == DistinctCalls /\ SentOnce

\* TWS never holds, and no socket carries, an order of this run that getOrder
\* would not find: placeOrder stores before it sends (IBGateway.cpp:138-146).
StoredBeforeSent ==
  \A id \in Ids : Taken(id) \/ PlaceOnWire(id) => orders[id] # "NONE"

\* An order marked ERROR was never sent whole: it is not at TWS and not on its
\* way there, so a caller that got -1 may place it again (IBGateway.cpp:146-150).
ErrorNeverLive ==
  \A id \in Ids : orders[id] = "ERROR" => ~Taken(id) /\ ~PlaceOnWire(id)

\* Once no placeOrder call works on an id that was handed out, the order is in
\* the book with a final answer of its call: no exit of placeOrder leaves it
\* missing or PENDING_SUBMIT, whatever was sent, lost or cancelled meanwhile
\* (IBGateway.cpp:139-173).
SettledWhenReturned ==
  \A id \in Ids :
    id < nextOrderId /\ (\A t \in Threads : Placing(t) => cur[t] # id)
    => orders[id] \notin {"NONE", "PENDING_SUBMIT"}

MessagesInFlight(id) ==
  \E s \in Sockets : \E i \in 1 .. Len(out[s]) : out[s][i].id = id

\* No call on id is under way and no message about it is on the wire.
Quiet(id) ==
  /\ \A t \in Threads : cur[t] # id
  /\ ~MessagesInFlight(id)

\* When nothing about an order is under way and nothing was lost, refused or
\* overtaken (doubt), the local status and TWS agree: a cancelled order does not
\* work at TWS and a submitted one was not cancelled there.  placeOrder's last
\* update (IBGateway.cpp:159-165) races with cancelOrder's (184-188).
BookMatchesTws ==
  \A id \in Ids \ doubt :
    Quiet(id) =>
      /\ orders[id] = "CANCELLED" => Taken(id) /\ tws[id] \in {"cancelled", "filled"}
      /\ orders[id] = "SUBMITTED" => Taken(id) /\ tws[id] \in {"working", "filled"}

-----------------------------------------------------------------------------
(* Liveness. *)

\* An order stored as PENDING_SUBMIT does not stay so: its placeOrder call, or a
\* cancellation, gives it another status (IBGateway.cpp:135-165).
PendingResolves ==
  \A id \in Ids : orders[id] = "PENDING_SUBMIT" ~> orders[id] # "PENDING_SUBMIT"

-----------------------------------------------------------------------------
(* The life of an order as a caller sees it. *)

Lifecycle == INSTANCE OrderLifecycle WITH status <- orders, issued <- nextOrderId - 1

\* The gateway keeps the promise of OrderLifecycle about getOrder(id).status.
ImplementsLifecycle == Lifecycle!Spec

-----------------------------------------------------------------------------
(* What comments and docs say, and the code does not do. *)

\* IBGateway.cpp:420 "Parse null-delimited TWS API messages": a read that takes
\* TWS's Filled report of a known order leaves the order FILLED.
FillReportsAreTaken ==
  [][\A id \in Ids :
       /\ \E i \in 1 .. Len(inbox) : inbox[i] = StatusReport(id, "Filled")
       /\ inbox' = << >> /\ orders[id] # "NONE"
       /\ \E t \in Threads : pc[t] = "place_read" /\ pc'[t] = "place_ack"
       => orders'[id] = "FILLED"]_vars

=============================================================================
