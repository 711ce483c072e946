--------------------------- MODULE IBGatewayProofs ---------------------------
(***************************************************************************)
(* Proofs about IBGateway, for any threads and any bounds.                 *)
(***************************************************************************)
EXTENDS IBGateway, SequenceTheorems, TLAPS

USE OwnerAssumption, BoundsAssumption, SizeAssumption

(* The inductive invariant, in named parts. *)

\* A call that names an order holds an id, and placeOrder's was handed out.
CallInv ==
  /\ \A t \in Threads : Placing(t) => cur[t] \in Ids /\ cur[t] < nextOrderId
  /\ \A t \in Threads : pc[t] \in CancelPCs => cur[t] \in Ids

\* An order is in the book from place_store on, never before; until its call ends
\* only a cancellation changes it, and no report ever fills it.
BookInv ==
  /\ \A id \in Ids : orders[id] # "NONE" => id < nextOrderId
  /\ \A t \in Threads : pc[t] = "place_store" => orders[cur[t]] = "NONE"
  /\ \A t \in Threads : Placing(t) /\ pc[t] # "place_store" =>
       orders[cur[t]] \in {"PENDING_SUBMIT", "CANCELLED"}
  /\ \A id \in Ids : orders[id] # "FILLED"

\* Tags on the wire and at TWS come from runs so far.
RunInv ==
  /\ \A s \in Sockets : \A i \in 1 .. Len(out[s]) : out[s][i].run <= run
  /\ \A id \in Ids : twsRun[id] <= run

\* A call that has not sent, or could not send, has nothing on the wire.
Unsent(t) == pc[t] \in {"place_store", "place_send", "place_fail"}

UnsentInv == \A t \in Threads : Unsent(t) => ~Taken(cur[t]) /\ ~PlaceOnWire(cur[t])

IInv ==
  /\ TypeOK /\ CallInv /\ BookInv /\ RunInv /\ UnsentInv
  /\ UniqueOrderIds /\ StoredBeforeSent /\ ErrorNeverLive /\ SettledWhenReturned

-----------------------------------------------------------------------------
(* What reading an answer does. *)

\* No message of TWS changes the book, the positions or the id counter: what
\* readMessage passes on has one field, and every handler asks for more.
LEMMA ReadIsBlind ==
  ASSUME TypeOK, ReadAndParse
  PROVE  /\ UNCHANGED <<nextOrderId, orders, position>>
         /\ inbox' \in Seq(ServerMessage)
<1> DEFINE b == [nextOrderId |-> nextOrderId, orders |-> orders, position |-> position]
<1>1. ParseResponse(ReadMessage, b) = b
  <2>1. CASE socketFd = NoSocket \/ inbox = << >>
    BY <2>1 DEF ParseResponse, ReadMessage
  <2>2. CASE ~(socketFd = NoSocket \/ inbox = << >>)
    <3> DEFINE m == [Head(inbox) EXCEPT !.fields = 1]
    <3>1. Head(inbox) \in ServerMessage
      BY <2>2, HeadTailProperties DEF TypeOK
    <3>2. m.fields = 1 /\ m.type \in {"nextValidId", "orderStatus", "execDetails"}
      BY <3>1 DEF ServerMessage
    <3>3. ReadMessage = << m >> /\ Head(ReadMessage) = m /\ ReadMessage # << >>
      BY <2>2 DEF ReadMessage
    <3> HIDE DEF m
    <3>4. /\ HandleNextValidId(m, b) = b
          /\ HandleOrderStatus(m, b) = b
          /\ HandleExecutionDetails(m, b) = b
      BY <3>2 DEF HandleNextValidId, HandleOrderStatus, HandleExecutionDetails
    <3> HIDE DEF b
    <3>5. QED
      BY <3>2, <3>3, <3>4 DEF ParseResponse
  <2>3. QED
    BY <2>1, <2>2
<1>2. QED
  BY <1>1, EmptySeq DEF ReadAndParse, TypeOK

-----------------------------------------------------------------------------
(* What the socket operations do to the wire, index by index. *)

\* A message that is on the wire after a send was there before, or is the one sent.
LEMMA SentWire ==
  ASSUME TypeOK, NEW msg \in ClientMessage, Sent(msg)
  PROVE  /\ out' \in [Sockets -> Seq(ClientMessage)]
         /\ peer' = peer
         /\ \A s \in Sockets : \A i \in 1 .. Len(out'[s]) :
              \/ i \in 1 .. Len(out[s]) /\ out'[s][i] = out[s][i]
              \/ s = socketFd /\ i = Len(out[s]) + 1 /\ out'[s][i] = msg
<1>1. CASE peer[socketFd] = "up"
  <2>1. socketFd \in Sockets
    BY DEF TypeOK, Sent, NoSocket
  <2>2. out' = [out EXCEPT ![socketFd] = Append(out[socketFd], msg)]
    BY <1>1 DEF Sent
  <2>3. out' \in [Sockets -> Seq(ClientMessage)]
    BY <2>1, <2>2, AppendProperties DEF TypeOK
  <2>4. ASSUME NEW s \in Sockets, NEW i \in 1 .. Len(out'[s])
        PROVE  \/ i \in 1 .. Len(out[s]) /\ out'[s][i] = out[s][i]
               \/ s = socketFd /\ i = Len(out[s]) + 1 /\ out'[s][i] = msg
    <3>1. CASE s # socketFd
      BY <2>2, <3>1 DEF TypeOK
    <3>2. CASE s = socketFd
      <4>1. out'[s] = Append(out[s], msg) /\ out[s] \in Seq(ClientMessage)
        BY <2>1, <2>2, <3>2 DEF TypeOK
      <4>2. QED
        BY <4>1, <3>2, AppendProperties
    <3>3. QED
      BY <3>1, <3>2
  <2>5. QED
    BY <2>3, <2>4 DEF Sent
<1>2. CASE peer[socketFd] # "up"
  BY <1>2 DEF Sent, TypeOK
<1>3. QED
  BY <1>1, <1>2

LEMMA NotSentWire ==
  ASSUME TypeOK, NotSent
  PROVE  out' = out /\ peer' \in [Sockets -> {"none", "up", "broken"}]
BY DEF NotSent, TypeOK, NoSocket

LEMMA MessageType ==
  ASSUME NEW r \in Runs, NEW id \in Ids
  PROVE  /\ HelloMessage(r) \in ClientMessage
         /\ PlaceMessage(id, r) \in ClientMessage
         /\ CancelMessage(id, r) \in ClientMessage
BY DEF ClientMessage, HelloMessage, PlaceMessage, CancelMessage, NoOrder, Ids, Runs

LEMMA ReportType ==
  /\ \A n \in Nat : NextValidId(n) \in ServerMessage
  /\ \A id \in Ids : \A st \in {"Submitted", "Filled", "Cancelled"} :
       StatusReport(id, st) \in ServerMessage
  /\ \A id \in Ids : ExecReport(id) \in ServerMessage
BY DEF ServerMessage, NextValidId, StatusReport, ExecReport, Ids

\* An answer extends the bytes that arrived, or goes nowhere.
LEMMA ReplyType ==
  ASSUME TypeOK, NEW s, NEW msgs \in Seq(ServerMessage), Reply(s, msgs)
  PROVE  inbox' \in Seq(ServerMessage)
BY ConcatProperties DEF Reply, TypeOK

\* TWS takes messages from the front, so what is on the wire was there before.
LEMMA TakenWire ==
  ASSUME TypeOK, NEW r \in Sockets, out[r] # << >>,
         out' = [out EXCEPT ![r] = Tail(@)]
  PROVE  /\ out' \in [Sockets -> Seq(ClientMessage)]
         /\ Head(out[r]) = out[r][1] /\ 1 \in 1 .. Len(out[r])
         /\ Head(out[r]) \in ClientMessage
         /\ \A s \in Sockets : \A i \in 1 .. Len(out'[s]) :
              \/ s # r /\ i \in 1 .. Len(out[s]) /\ out'[s][i] = out[s][i]
              \/ s = r /\ i + 1 \in 1 .. Len(out[s]) /\ out'[s][i] = out[s][i + 1]
<1>1. out[r] \in Seq(ClientMessage)
  BY DEF TypeOK
<1>2. /\ Tail(out[r]) \in Seq(ClientMessage)
      /\ Len(out[r]) \in Nat \ {0}
      /\ Len(Tail(out[r])) = Len(out[r]) - 1
      /\ \A i \in 1 .. Len(Tail(out[r])) : Tail(out[r])[i] = out[r][i + 1]
  BY <1>1, HeadTailProperties, EmptySeq, LenProperties
<1>3. out' \in [Sockets -> Seq(ClientMessage)] /\ out'[r] = Tail(out[r])
  BY <1>2 DEF TypeOK
<1>4. Head(out[r]) = out[r][1] /\ Head(out[r]) \in ClientMessage /\ 1 \in 1 .. Len(out[r])
  BY <1>1, <1>2, HeadTailProperties
<1>5. ASSUME NEW s \in Sockets, NEW i \in 1 .. Len(out'[s])
      PROVE  \/ s # r /\ i \in 1 .. Len(out[s]) /\ out'[s][i] = out[s][i]
             \/ s = r /\ i + 1 \in 1 .. Len(out[s]) /\ out'[s][i] = out[s][i + 1]
  <2>1. CASE s # r
    BY <2>1 DEF TypeOK
  <2>2. CASE s = r
    BY <2>2, <1>2, <1>3
  <2>3. QED
    BY <2>1, <2>2
<1>6. QED
  BY <1>3, <1>4, <1>5

-----------------------------------------------------------------------------
(* Type correctness. *)

LEMMA NothingSent == << >> \in Seq(ClientMessage) /\ << >> \in Seq(ServerMessage)
OBVIOUS

LEMMA TypeInit == Init => TypeOK
<1> SUFFICES ASSUME Init PROVE TypeOK
  OBVIOUS
<1>1. out \in [Sockets -> Seq(ClientMessage)] /\ inbox \in Seq(ServerMessage)
  BY NothingSent DEF Init
<1>2. pc \in [Threads -> {"idle"}] /\ cur \in [Threads -> {NoOrder}] /\ ret \in [Threads -> {"none"}]
  BY DEF Init
<1>3. connected \in BOOLEAN /\ socketFd \in {NoSocket} /\ doubt \in SUBSET Ids
  BY DEF Init
<1>4. nextOrderId \in 1 .. MaxOrders + 1 /\ position \in Int /\ run \in Runs /\ sockets \in 0 .. MaxSockets
  BY DEF Init, Runs
<1>5. orders \in [Ids -> OrderStatus] /\ peer \in [Sockets -> {"none"}]
  BY DEF Init, OrderStatus
<1>6. tws \in [Ids -> {"unknown"}] /\ twsRun \in [Ids -> {0}]
  BY DEF Init
<1>7. QED
  BY <1>1, <1>2, <1>3, <1>4, <1>5, <1>6 DEF TypeOK

LEMMA TypeStep == TypeOK /\ CallInv /\ [Next]_vars => TypeOK'
<1> SUFFICES ASSUME TypeOK, CallInv, [Next]_vars PROVE TypeOK'
  OBVIOUS
<1> USE DEF Goto, Call, Return, client, threads, os, server,
            PlacePCs, CancelPCs, ConnectPCs, NoSocket, NoOrder
<1>1. CASE ConnectSocket
  <2>1. inbox' \in Seq(ServerMessage)
    BY <1>1, NothingSent DEF ConnectSocket
  <2>2. CASE Call(Owner, "conn_tcp") /\ sockets' = sockets + 1 /\ socketFd' = sockets + 1 /\ UNCHANGED cur
    BY <1>1, <2>1, <2>2 DEF ConnectSocket, TypeOK, Sockets
  <2>3. CASE Return(Owner, "idle", "failed") /\ socketFd' = NoSocket /\ UNCHANGED sockets
    BY <1>1, <2>1, <2>3 DEF ConnectSocket, TypeOK
  <2>4. QED
    BY <1>1, <2>2, <2>3 DEF ConnectSocket
<1>2. CASE DisconnectClose
  BY <1>2, NothingSent DEF DisconnectClose, TypeOK
<1>3. CASE ConnectTcp
  BY <1>3, NothingSent DEF ConnectTcp, TypeOK
<1>4. CASE ConnectHandshake
  <2>1. CASE Sent(HelloMessage(run)) /\ UNCHANGED <<socketFd, inbox, cur, ret>>
                /\ Goto(Owner, "conn_hello", "conn_read")
    <3>1. HelloMessage(run) \in ClientMessage
      BY DEF TypeOK, HelloMessage, ClientMessage
    <3>2. out' \in [Sockets -> Seq(ClientMessage)] /\ peer' = peer
      BY <2>1, <3>1, SentWire
    <3>3. QED
      BY <1>4, <2>1, <3>2 DEF ConnectHandshake, TypeOK
  <2>2. CASE Return(Owner, "conn_hello", "failed") /\ NotSent /\ socketFd' = NoSocket /\ inbox' = << >>
    BY <1>4, <2>2, NotSentWire, NothingSent DEF ConnectHandshake, TypeOK
  <2>3. QED
    BY <1>4, <2>1, <2>2 DEF ConnectHandshake
<1>5. CASE ConnectRead
  BY <1>5, ReadIsBlind DEF ConnectRead, TypeOK
<1>6. CASE ConnectDone
  BY <1>6 DEF ConnectDone, TypeOK
<1>7. CASE DisconnectFlag
  BY <1>7 DEF DisconnectFlag, TypeOK
<1>8. ASSUME NEW t \in Threads, PlaceCheck(t) PROVE TypeOK'
  BY <1>8 DEF PlaceCheck, TypeOK
<1>9. ASSUME NEW t \in Threads, PlaceTakeId(t) PROVE TypeOK'
  BY <1>9 DEF PlaceTakeId, TypeOK, Ids
<1>10. ASSUME NEW t \in Threads, PlaceStore(t) PROVE TypeOK'
  BY <1>10 DEF PlaceStore, TypeOK, OrderStatus
<1>11. ASSUME NEW t \in Threads, PlaceSend(t) PROVE TypeOK'
  <2>1. cur[t] \in Ids
    BY <1>11 DEF PlaceSend, CallInv, Placing
  <2>2. CASE Goto(t, "place_send", "place_read") /\ Sent(PlaceMessage(cur[t], run))
    <3>1. out' \in [Sockets -> Seq(ClientMessage)] /\ peer' = peer
      BY <2>1, <2>2, SentWire, MessageType DEF TypeOK
    <3>2. doubt' \in SUBSET Ids
      BY <1>11, <2>1 DEF PlaceSend, TypeOK
    <3>3. QED
      BY <1>11, <2>2, <3>1, <3>2 DEF PlaceSend, TypeOK
  <2>3. CASE Goto(t, "place_send", "place_fail") /\ NotSent /\ UNCHANGED doubt
    BY <1>11, <2>3, NotSentWire DEF PlaceSend, TypeOK
  <2>4. QED
    BY <1>11, <2>2, <2>3 DEF PlaceSend
<1>12. ASSUME NEW t \in Threads, PlaceFail(t) PROVE TypeOK'
  BY <1>12 DEF PlaceFail, TypeOK, OrderStatus
<1>13. ASSUME NEW t \in Threads, PlaceRead(t) PROVE TypeOK'
  BY <1>13, ReadIsBlind DEF PlaceRead, TypeOK
<1>14. ASSUME NEW t \in Threads, PlaceAck(t) PROVE TypeOK'
  BY <1>14 DEF PlaceAck, TypeOK, OrderStatus
<1>15. ASSUME NEW t \in Threads, CancelSend(t) PROVE TypeOK'
  <2>1. cur[t] \in Ids
    BY <1>15 DEF CancelSend, CallInv
  <2>2. CASE Goto(t, "cancel_send", "cancel_update") /\ Sent(CancelMessage(cur[t], run))
                /\ UNCHANGED <<cur, ret>>
    <3>1. out' \in [Sockets -> Seq(ClientMessage)] /\ peer' = peer
      BY <2>1, <2>2, SentWire, MessageType DEF TypeOK
    <3>2. doubt' \in SUBSET Ids
      BY <1>15, <2>1 DEF CancelSend, TypeOK
    <3>3. QED
      BY <1>15, <2>2, <3>1, <3>2 DEF CancelSend, TypeOK
  <2>3. CASE Return(t, "cancel_send", "failed") /\ NotSent /\ UNCHANGED doubt
    BY <1>15, <2>3, NotSentWire DEF CancelSend, TypeOK
  <2>4. QED
    BY <1>15, <2>2, <2>3 DEF CancelSend
<1>16. ASSUME NEW t \in Threads, CancelUpdate(t) PROVE TypeOK'
  <2>1. CASE Return(t, "cancel_update", "ok") /\ orders' = [orders EXCEPT ![cur[t]] = "CANCELLED"]
    BY <1>16, <2>1 DEF CancelUpdate, TypeOK, OrderStatus
  <2>2. CASE Return(t, "cancel_update", "failed") /\ UNCHANGED orders
    BY <1>16, <2>2 DEF CancelUpdate, TypeOK
  <2>3. QED
    BY <1>16, <2>1, <2>2 DEF CancelUpdate
<1>17. ASSUME NEW t \in Threads, NEW id \in Ids, CancelCheck(t, id) PROVE TypeOK'
  <2>1. UNCHANGED <<client, os, server, doubt>>
    BY <1>17 DEF CancelCheck
  <2>2. /\ pc' \in [Threads -> {"idle"} \cup PlacePCs \cup CancelPCs \cup ConnectPCs]
        /\ cur' \in [Threads -> {NoOrder} \cup Ids]
        /\ ret' \in [Threads -> {"none", "ok", "failed"}]
    <3>1. CASE Call(t, "cancel_send") /\ cur' = [cur EXCEPT ![t] = id]
      BY <3>1 DEF TypeOK
    <3>2. CASE Return(t, "idle", "failed")
      BY <3>2 DEF TypeOK
    <3>3. QED
      BY <1>17, <3>1, <3>2 DEF CancelCheck
  <2>3. QED
    BY <2>1, <2>2 DEF TypeOK
<1>18. ASSUME NEW s \in Sockets, TwsRead(s) PROVE TypeOK'
  <2> DEFINE m == Head(out[s])
  <2>1. out' \in [Sockets -> Seq(ClientMessage)] /\ m \in ClientMessage
    BY <1>18, TakenWire DEF TwsRead
  <2>2. m.run \in Runs /\ (m.type # "hello" => m.id \in Ids)
    BY <2>1 DEF ClientMessage
  <2>3. ASSUME NEW msg \in ServerMessage, Reply(s, << msg >>)
        PROVE  inbox' \in Seq(ServerMessage)
    <3>1. << msg >> \in Seq(ServerMessage)
      OBVIOUS
    <3>2. QED
      BY <2>3, <3>1, ReplyType
  <2> HIDE DEF m
  <2>4. /\ inbox' \in Seq(ServerMessage)
        /\ tws' \in [Ids -> {"unknown", "working", "filled", "cancelled"}]
        /\ twsRun' \in [Ids -> {0} \cup Runs]
        /\ doubt' \in SUBSET Ids
    <3>1. CASE TwsHello(s, m)
      BY <3>1, <2>3, ReportType DEF TwsHello, TypeOK
    <3>2. CASE TwsAccept(s, m)
      BY <3>2, <2>2, <2>3, ReportType DEF TwsAccept, TypeOK
    <3>3. CASE TwsRefuse(m)
      BY <3>3, <2>2 DEF TwsRefuse, TypeOK
    <3>4. CASE TwsCancel(s, m)
      BY <3>4, <2>2, <2>3, ReportType DEF TwsCancel, TypeOK
    <3>5. CASE TwsIgnore(m)
      BY <3>5 DEF TwsIgnore, TypeOK
    <3>6. QED
      BY <1>18, <3>1, <3>2, <3>3, <3>4, <3>5 DEF TwsRead, m
  <2>5. UNCHANGED <<client, threads, run, sockets, peer>>
    BY <1>18 DEF TwsRead
  <2>6. QED
    BY <2>1, <2>4, <2>5 DEF TypeOK
<1>19. ASSUME NEW s \in Sockets, TwsClose(s) PROVE TypeOK'
  BY <1>19, NothingSent DEF TwsClose, TypeOK
<1>20. ASSUME NEW id \in Ids, TwsFill(id) PROVE TypeOK'
  <2>1. << StatusReport(id, "Filled"), ExecReport(id) >> \in Seq(ServerMessage)
    BY ReportType
  <2>2. inbox' \in Seq(ServerMessage)
    BY <1>20, <2>1, ReplyType DEF TwsFill, TypeOK
  <2>3. QED
    BY <1>20, <2>2 DEF TwsFill, TypeOK
<1>21. CASE Restart
  <2>1. inbox' \in Seq(ServerMessage) /\ run' \in Runs /\ orders' \in [Ids -> OrderStatus]
    BY <1>21, NothingSent DEF Restart, TypeOK, Runs, OrderStatus
  <2>2. nextOrderId' \in 1 .. MaxOrders + 1 /\ doubt' \in SUBSET Ids
    BY <1>21 DEF Restart
  <2>3. connected' \in BOOLEAN /\ socketFd' = NoSocket
    BY <1>21 DEF Restart
  <2>. position' \in Int
    BY <1>21 DEF Restart
  <2>4. pc' \in [Threads -> {"idle"}] /\ cur' \in [Threads -> {NoOrder}] /\ ret' \in [Threads -> {"none"}]
    BY <1>21 DEF Restart
  <2>5. UNCHANGED <<sockets, peer, out, tws, twsRun>>
    BY <1>21 DEF Restart
  <2>6. QED
    BY <2>1, <2>2, <2>3, <2>4, <2>5 DEF TypeOK
<1>22. CASE UNCHANGED vars
  BY <1>22 DEF vars, TypeOK
<1>23. QED
  BY <1>1, <1>2, <1>3, <1>4, <1>5, <1>6, <1>7, <1>8, <1>9, <1>10, <1>11, <1>12, <1>13,
     <1>14, <1>15, <1>16, <1>17, <1>18, <1>19, <1>20, <1>21, <1>22
     DEF Next, Continue, Connecting

-----------------------------------------------------------------------------
(* The calls and the book. *)

CallBook == CallInv /\ BookInv /\ DistinctCalls /\ SettledWhenReturned

\* A step that leaves the book, the counter and the placeOrder calls alone.
LEMMA CallFrame ==
  ASSUME TypeOK, CallBook, UNCHANGED <<orders, nextOrderId>>,
         \A t \in Threads :
           /\ Placing(t)' <=> Placing(t)
           /\ Placing(t) => pc'[t] = pc[t] /\ cur'[t] = cur[t]
           /\ pc'[t] \in CancelPCs => cur'[t] \in Ids
  PROVE  CallBook'
<1>1. CallInv'
  BY DEF CallBook, CallInv
<1>2. BookInv'
  BY DEF CallBook, CallInv, BookInv, Placing, PlacePCs
<1>3. DistinctCalls'
  BY DEF CallBook, DistinctCalls
<1>4. SettledWhenReturned'
  BY DEF CallBook, SettledWhenReturned
<1>5. QED
  BY <1>1, <1>2, <1>3, <1>4 DEF CallBook

\* A call (t) that gives one known order (id) a status other than PENDING_SUBMIT,
\* and, if it is a placeOrder call, ends there.
LEMMA CallUpdate ==
  ASSUME TypeOK, CallBook, NEW t \in Threads, NEW id \in Ids,
         NEW st \in {"SUBMITTED", "CANCELLED", "ERROR"}, st = "CANCELLED" \/ Placing(t),
         orders[id] # "NONE", orders' = [orders EXCEPT ![id] = st],
         nextOrderId' = nextOrderId, Placing(t) => cur[t] = id, ~Placing(t)',
         pc'[t] \notin CancelPCs,
         \A u \in Threads \ {t} : pc'[u] = pc[u] /\ cur'[u] = cur[u]
  PROVE  CallBook'
<1>1. /\ \A i \in Ids : orders'[i] = IF i = id THEN st ELSE orders[i]
      /\ \A u \in Threads : Placing(u)' => Placing(u) /\ pc'[u] = pc[u] /\ cur'[u] = cur[u]
      /\ \A u \in Threads : Placing(u) /\ cur[u] # id => Placing(u)' /\ cur'[u] = cur[u]
  BY DEF TypeOK, Placing
<1>2. CallInv'
  BY <1>1 DEF CallBook, CallInv
<1>3. BookInv'
  <2>1. \A i \in Ids : orders'[i] # "NONE" <=> orders[i] # "NONE"
    BY <1>1
  <2>2. \A u \in Threads :
          /\ pc'[u] = "place_store" => Placing(u)' /\ pc[u] = "place_store"
          /\ Placing(u)' /\ pc'[u] # "place_store" => Placing(u) /\ pc[u] # "place_store"
    BY <1>1 DEF Placing, PlacePCs
  <2>3. \A u \in Threads : Placing(u)' /\ pc'[u] # "place_store" =>
          orders'[cur'[u]] \in {"PENDING_SUBMIT", "CANCELLED"}
    BY <1>1, <2>2 DEF CallBook, CallInv, BookInv, DistinctCalls
  <2>4. QED
    BY <1>1, <2>1, <2>2, <2>3 DEF CallBook, CallInv, BookInv
<1>4. DistinctCalls'
  BY <1>1 DEF CallBook, DistinctCalls
<1>5. SettledWhenReturned'
  BY <1>1 DEF CallBook, SettledWhenReturned
<1>6. QED
  BY <1>2, <1>3, <1>4, <1>5 DEF CallBook

LEMMA CallStep == TypeOK /\ CallBook /\ [Next]_vars => CallBook'
<1> SUFFICES ASSUME TypeOK, CallBook, [Next]_vars PROVE CallBook'
  OBVIOUS
<1> USE DEF Goto, Call, Return, client, threads, os, server,
            PlacePCs, CancelPCs, ConnectPCs, Placing
<1>1. CASE ConnectSocket \/ DisconnectClose \/ Connecting
  <2>1. ASSUME ConnectRead PROVE UNCHANGED <<orders, nextOrderId>>
    BY <2>1, ReadIsBlind DEF ConnectRead
  <2>2. UNCHANGED <<orders, nextOrderId>>
    BY <1>1, <2>1 DEF ConnectSocket, DisconnectClose, Connecting, ConnectTcp,
                      ConnectHandshake, ConnectDone, DisconnectFlag
  <2>3. /\ \A t \in Threads \ {Owner} : pc'[t] = pc[t] /\ cur'[t] = cur[t]
        /\ ~Placing(Owner) /\ ~Placing(Owner)' /\ pc'[Owner] \notin CancelPCs
    BY <1>1 DEF TypeOK, ConnectSocket, DisconnectClose, Connecting, ConnectTcp, ConnectRead,
                ConnectHandshake, ConnectDone, DisconnectFlag
  <2>4. QED
    BY <2>2, <2>3, CallFrame DEF CallBook, CallInv
<1>2. ASSUME NEW t \in Threads, PlaceCheck(t) PROVE CallBook'
  <2>1. /\ \A u \in Threads \ {t} : pc'[u] = pc[u] /\ cur'[u] = cur[u]
        /\ ~Placing(t) /\ ~Placing(t)' /\ pc'[t] \notin CancelPCs
    BY <1>2 DEF TypeOK, PlaceCheck
  <2>2. QED
    BY <1>2, <2>1, CallFrame DEF PlaceCheck, CallBook, CallInv
<1>3. ASSUME NEW t \in Threads, PlaceTakeId(t) PROVE CallBook'
  BY <1>3 DEF PlaceTakeId, TypeOK, CallBook, CallInv, BookInv, DistinctCalls, SettledWhenReturned, Ids
<1>4. ASSUME NEW t \in Threads, PlaceStore(t) PROVE CallBook'
  BY <1>4 DEF PlaceStore, TypeOK, CallBook, CallInv, BookInv, DistinctCalls, SettledWhenReturned
<1>5. ASSUME NEW t \in Threads, PlaceSend(t) PROVE CallBook'
  <2>1. /\ UNCHANGED <<orders, nextOrderId, cur>>
        /\ \A u \in Threads \ {t} : pc'[u] = pc[u]
        /\ pc[t] = "place_send" /\ pc'[t] \in {"place_read", "place_fail"}
    BY <1>5 DEF PlaceSend, TypeOK
  <2>2. \A u \in Threads : Placing(u)' <=> Placing(u)
    BY <2>1
  <2>3. CallInv' /\ BookInv'
    BY <2>1 DEF CallBook, CallInv, BookInv
  <2>4. DistinctCalls' /\ SettledWhenReturned'
    BY <2>1, <2>2 DEF CallBook, DistinctCalls, SettledWhenReturned
  <2>5. QED
    BY <2>3, <2>4 DEF CallBook
<1>6. ASSUME NEW t \in Threads, PlaceFail(t) PROVE CallBook'
  <2>1. cur[t] \in Ids /\ orders[cur[t]] # "NONE" /\ Placing(t)
    BY <1>6 DEF PlaceFail, CallBook, CallInv, BookInv
  <2>2. /\ \A u \in Threads \ {t} : pc'[u] = pc[u] /\ cur'[u] = cur[u]
        /\ ~Placing(t)' /\ pc'[t] \notin CancelPCs
    BY <1>6 DEF PlaceFail, TypeOK
  <2>3. QED
    BY <1>6, <2>1, <2>2, CallUpdate DEF PlaceFail, OrderStatus
<1>7. ASSUME NEW t \in Threads, PlaceRead(t) PROVE CallBook'
  BY <1>7, ReadIsBlind
     DEF PlaceRead, TypeOK, CallBook, CallInv, BookInv, DistinctCalls, SettledWhenReturned
<1>8. ASSUME NEW t \in Threads, PlaceAck(t) PROVE CallBook'
  <2> DEFINE st == IF orders[cur[t]] = "PENDING_SUBMIT" THEN "SUBMITTED" ELSE "CANCELLED"
  <2>1. cur[t] \in Ids /\ orders[cur[t]] \in {"PENDING_SUBMIT", "CANCELLED"} /\ Placing(t)
    BY <1>8 DEF PlaceAck, CallBook, CallInv, BookInv
  <2>2. /\ \A u \in Threads \ {t} : pc'[u] = pc[u] /\ cur'[u] = cur[u]
        /\ ~Placing(t)' /\ pc'[t] \notin CancelPCs
    BY <1>8 DEF PlaceAck, TypeOK
  <2>3. st \in {"SUBMITTED", "CANCELLED"} /\ nextOrderId' = nextOrderId
    BY <1>8 DEF PlaceAck
  <2>4. orders' = [orders EXCEPT ![cur[t]] = st]
    <3>1. CASE orders[cur[t]] = "PENDING_SUBMIT"
      BY <1>8, <3>1 DEF PlaceAck
    <3>2. CASE orders[cur[t]] = "CANCELLED"
      <4>1. orders' = orders /\ st = orders[cur[t]] /\ orders \in [Ids -> OrderStatus]
        BY <1>8, <3>2 DEF PlaceAck, TypeOK
      <4>2. QED
        BY <4>1
    <3>3. QED
      BY <2>1, <3>1, <3>2
  <2>5. QED
    BY <2>1, <2>2, <2>3, <2>4, CallUpdate
<1>9. ASSUME NEW t \in Threads, CancelSend(t) PROVE CallBook'
  <2>1. /\ \A u \in Threads \ {t} : pc'[u] = pc[u] /\ cur'[u] = cur[u]
        /\ ~Placing(t) /\ ~Placing(t)' /\ (pc'[t] \in CancelPCs => cur'[t] \in Ids)
    BY <1>9 DEF TypeOK, CancelSend, CallBook, CallInv
  <2>2. QED
    BY <1>9, <2>1, CallFrame DEF CancelSend, CallBook, CallInv
<1>10. ASSUME NEW t \in Threads, CancelUpdate(t) PROVE CallBook'
  <2>1. cur[t] \in Ids /\ ~Placing(t)
    BY <1>10 DEF CancelUpdate, CallBook, CallInv
  <2>2. /\ \A u \in Threads \ {t} : pc'[u] = pc[u] /\ cur'[u] = cur[u]
        /\ ~Placing(t)' /\ pc'[t] \notin CancelPCs
        /\ nextOrderId' = nextOrderId
    BY <1>10 DEF CancelUpdate, TypeOK
  <2>3. CASE orders[cur[t]] # "NONE" /\ orders' = [orders EXCEPT ![cur[t]] = "CANCELLED"]
    BY <2>1, <2>2, <2>3, CallUpdate DEF OrderStatus
  <2>4. CASE UNCHANGED orders
    BY <2>1, <2>2, <2>4, CallFrame DEF CallBook, CallInv
  <2>5. QED
    BY <1>10, <2>3, <2>4 DEF CancelUpdate
<1>11. ASSUME NEW t \in Threads, NEW id \in Ids, CancelCheck(t, id) PROVE CallBook'
  <2>1. /\ \A u \in Threads \ {t} : pc'[u] = pc[u] /\ cur'[u] = cur[u]
        /\ ~Placing(t) /\ ~Placing(t)' /\ (pc'[t] \in CancelPCs => cur'[t] \in Ids)
    BY <1>11 DEF TypeOK, CancelCheck
  <2>2. QED
    BY <1>11, <2>1, CallFrame DEF CancelCheck, CallBook, CallInv
<1>12. CASE \/ \E s \in Sockets : TwsRead(s) \/ TwsClose(s)
            \/ \E id \in Ids : TwsFill(id)
            \/ UNCHANGED vars
  <2>1. UNCHANGED <<orders, nextOrderId, pc, cur>>
    BY <1>12 DEF TwsRead, TwsClose, TwsFill, vars
  <2>2. QED
    BY <2>1, CallFrame DEF CallBook, CallInv
<1>13. CASE Restart
  BY <1>13 DEF Restart, TypeOK, CallBook, CallInv, BookInv, DistinctCalls, SettledWhenReturned, Ids
<1>14. QED
  BY <1>1, <1>2, <1>3, <1>4, <1>5, <1>6, <1>7, <1>8, <1>9, <1>10, <1>11, <1>12, <1>13
     DEF Next, Continue

-----------------------------------------------------------------------------
(* The wire and TWS. *)

\* A call that has not sent works on an id (CallInv says so of all of placeOrder).
UnsentIds == \A t \in Threads : Unsent(t) => cur[t] \in Ids

LEMMA RunsOrder == \A r \in Runs : r <= r
BY DEF Runs

WireBook == RunInv /\ UnsentInv /\ SentOnce /\ StoredBeforeSent /\ ErrorNeverLive

\* A step that puts no place message on the wire: d[s] messages leave the front
\* of s, what else is new there is not an order, and what TWS takes was there.
LEMMA WireFrame ==
  ASSUME TypeOK, WireBook, run' = run,
         NEW d \in [Sockets -> Nat],
         \A s \in Sockets : \A i \in 1 .. Len(out'[s]) :
           \/ i + d[s] \in 1 .. Len(out[s]) /\ out'[s][i] = out[s][i + d[s]]
           \/ out'[s][i].type # "place" /\ out'[s][i].run <= run,
         out' \in [Sockets -> Seq(ClientMessage)],
         \A id \in Ids :
           /\ twsRun'[id] <= run
           /\ Taken(id)' => Taken(id) \/ (PlaceOnWire(id) /\ ~PlaceOnWire(id)')
           /\ orders[id] # "NONE" => orders'[id] # "NONE"
           /\ orders'[id] = "ERROR" =>
                orders[id] = "ERROR" \/ (~Taken(id) /\ ~PlaceOnWire(id)),
         \A t \in Threads : Unsent(t)' =>
           cur'[t] \in Ids /\ ~Taken(cur'[t]) /\ ~PlaceOnWire(cur'[t])
  PROVE  WireBook'
<1>1. ASSUME NEW id, PlaceOnWire(id)'
      PROVE  PlaceOnWire(id)
  <2>1. PICK s \in Sockets : \E k \in 1 .. Len(out'[s]) : out'[s][k] = PlaceMessage(id, run)
    BY <1>1 DEF PlaceOnWire, OnWire
  <2>2. PICK i \in 1 .. Len(out'[s]) : out'[s][i] = PlaceMessage(id, run)
    BY <2>1
  <2>3. out[s][i + d[s]] = PlaceMessage(id, run) /\ i + d[s] \in 1 .. Len(out[s])
    BY <2>2 DEF PlaceMessage
  <2>4. QED
    BY <2>3 DEF PlaceOnWire, OnWire
<1>2. RunInv'
  BY DEF WireBook, RunInv
<1>3. UnsentInv'
  BY <1>1 DEF UnsentInv
<1>4. SentOnce'
  <2>1. ASSUME NEW s \in Sockets, NEW r \in Sockets,
               NEW i \in 1 .. Len(out'[s]), NEW j \in 1 .. Len(out'[r]),
               out'[s][i].type = "place", out'[s][i].run = run', out'[s][i] = out'[r][j]
        PROVE  s = r /\ i = j
    <3>1. /\ i + d[s] \in 1 .. Len(out[s]) /\ out'[s][i] = out[s][i + d[s]]
          /\ j + d[r] \in 1 .. Len(out[r]) /\ out'[r][j] = out[r][j + d[r]]
      BY <2>1
    <3>2. /\ out[s][i + d[s]] = out[r][j + d[r]]
          /\ out[s][i + d[s]].type = "place" /\ out[s][i + d[s]].run = run
      BY <2>1, <3>1
    <3>3. s = r /\ i + d[s] = j + d[r]
      BY <3>1, <3>2 DEF WireBook, SentOnce
    <3>4. QED
      BY <3>3
  <2>2. QED
    BY <1>1, <2>1 DEF WireBook, SentOnce
<1>5. StoredBeforeSent'
  BY <1>1 DEF WireBook, StoredBeforeSent
<1>6. ErrorNeverLive'
  BY <1>1 DEF WireBook, ErrorNeverLive
<1>7. QED
  BY <1>2, <1>3, <1>4, <1>5, <1>6 DEF WireBook

\* A step that touches neither the wire nor TWS.
LEMMA WireKeep ==
  ASSUME TypeOK, WireBook, UNCHANGED <<run, out, twsRun>>,
         \A id \in Ids :
           /\ orders[id] # "NONE" => orders'[id] # "NONE"
           /\ orders'[id] = "ERROR" =>
                orders[id] = "ERROR" \/ (~Taken(id) /\ ~PlaceOnWire(id)),
         \A t \in Threads : Unsent(t)' =>
           cur'[t] \in Ids /\ ~Taken(cur'[t]) /\ ~PlaceOnWire(cur'[t])
  PROVE  WireBook'
<1> DEFINE d == [s \in Sockets |-> 0]
<1>1. d \in [Sockets -> Nat] /\ \A s \in Sockets : d[s] = 0
  OBVIOUS
<1>2. \A s \in Sockets : Len(out[s]) \in Nat
  BY LenProperties DEF TypeOK
<1>3. \A id \in Ids : twsRun'[id] <= run /\ (Taken(id)' => Taken(id))
  BY DEF WireBook, RunInv, Taken
<1>4. out' \in [Sockets -> Seq(ClientMessage)]
  BY DEF TypeOK
<1> HIDE DEF d
<1>5. \A s \in Sockets : \A i \in 1 .. Len(out'[s]) :
        i + d[s] \in 1 .. Len(out[s]) /\ out'[s][i] = out[s][i + d[s]]
  BY <1>1, <1>2
<1>6. QED
  BY <1>1, <1>3, <1>4, <1>5, WireFrame

\* A hello or a cancellation is sent.
LEMMA WireSend ==
  ASSUME TypeOK, WireBook, NEW msg \in ClientMessage, Sent(msg),
         msg.type # "place", msg.run = run, UNCHANGED <<run, twsRun, orders>>,
         \A t \in Threads : Unsent(t)' =>
           cur'[t] \in Ids /\ ~Taken(cur'[t]) /\ ~PlaceOnWire(cur'[t])
  PROVE  WireBook'
<1> DEFINE d == [s \in Sockets |-> 0]
<1>1. d \in [Sockets -> Nat] /\ \A s \in Sockets : d[s] = 0
  OBVIOUS
<1>2. \A s \in Sockets : Len(out[s]) \in Nat
  BY LenProperties DEF TypeOK
<1>3. \A id \in Ids : twsRun'[id] <= run /\ (Taken(id)' => Taken(id))
  BY DEF WireBook, RunInv, Taken
<1>4. /\ out' \in [Sockets -> Seq(ClientMessage)]
      /\ \A s \in Sockets : \A i \in 1 .. Len(out'[s]) :
           \/ i \in 1 .. Len(out[s]) /\ out'[s][i] = out[s][i]
           \/ s = socketFd /\ i = Len(out[s]) + 1 /\ out'[s][i] = msg
  BY SentWire
<1> HIDE DEF d
<1>5. \A s \in Sockets : \A i \in 1 .. Len(out'[s]) :
        \/ i + d[s] \in 1 .. Len(out[s]) /\ out'[s][i] = out[s][i + d[s]]
        \/ out'[s][i].type # "place" /\ out'[s][i].run <= run
  BY <1>1, <1>2, <1>4 DEF TypeOK, Runs
<1>6. QED
  BY <1>1, <1>3, <1>4, <1>5, WireFrame

\* placeOrder sends: its order was neither on the wire nor at TWS.
LEMMA WirePlace ==
  ASSUME TypeOK, CallBook, WireBook, NEW t \in Threads, pc[t] = "place_send",
         Sent(PlaceMessage(cur[t], run)), UNCHANGED <<cur, run, twsRun, orders>>,
         pc' = [pc EXCEPT ![t] = "place_read"]
  PROVE  WireBook'
<1> DEFINE id == cur[t]
           msg == PlaceMessage(id, run)
<1>1. /\ id \in Ids /\ Placing(t) /\ orders[id] \notin {"NONE", "ERROR"}
      /\ ~Taken(id) /\ ~PlaceOnWire(id)
  BY DEF CallBook, CallInv, BookInv, WireBook, UnsentInv, Unsent, Placing, PlacePCs
<1>2. /\ msg \in ClientMessage /\ msg.run = run /\ msg.type = "place"
      /\ \A i : PlaceMessage(i, run) = msg => i = id
  BY <1>1, MessageType DEF TypeOK, PlaceMessage
<1>3. \A s \in Sockets : \A i \in 1 .. Len(out'[s]) :
           \/ i \in 1 .. Len(out[s]) /\ out'[s][i] = out[s][i]
           \/ s = socketFd /\ i = Len(out[s]) + 1 /\ out'[s][i] = msg
  BY <1>2, SentWire
<1> HIDE DEF msg
<1>4. \A i : Taken(i)' <=> Taken(i)
  BY DEF Taken
<1>5. ASSUME NEW j, PlaceOnWire(j)'
      PROVE  PlaceOnWire(j) \/ j = id
  <2>1. PICK s \in Sockets : \E k \in 1 .. Len(out'[s]) : out'[s][k] = PlaceMessage(j, run)
    BY <1>5 DEF PlaceOnWire, OnWire
  <2>2. PICK i \in 1 .. Len(out'[s]) : out'[s][i] = PlaceMessage(j, run)
    BY <2>1
  <2>3. QED
    BY <1>2, <1>3, <2>2 DEF PlaceOnWire, OnWire
<1>6. RunInv'
  BY <1>2, <1>3, RunsOrder DEF WireBook, RunInv, TypeOK
<1>7. UnsentInv'
  <2>1. ASSUME NEW u \in Threads, Unsent(u)'
        PROVE  Unsent(u) /\ cur'[u] = cur[u] /\ cur[u] # id
    <3>1. u # t /\ pc'[u] = pc[u]
      BY <2>1 DEF Unsent, TypeOK
    <3>2. QED
      BY <1>1, <2>1, <3>1 DEF Unsent, Placing, PlacePCs, CallBook, DistinctCalls
  <2>2. QED
    BY <1>4, <1>5, <2>1 DEF UnsentInv, WireBook
<1>8. SentOnce'
  <2>1. ASSUME NEW s \in Sockets, NEW i \in 1 .. Len(out[s])
        PROVE  out[s][i] # msg
    BY <1>1, <2>1 DEF PlaceOnWire, OnWire, msg
  <2>2. ASSUME NEW s \in Sockets, NEW r \in Sockets,
               NEW i \in 1 .. Len(out'[s]), NEW j \in 1 .. Len(out'[r]),
               out'[s][i].type = "place", out'[s][i].run = run', out'[s][i] = out'[r][j]
        PROVE  s = r /\ i = j
    <3>1. CASE out'[s][i] = msg
      <4>1. s = socketFd /\ i = Len(out[s]) + 1
        BY <1>3, <2>1, <2>2, <3>1
      <4>2. r = socketFd /\ j = Len(out[r]) + 1
        BY <1>3, <2>1, <2>2, <3>1
      <4>3. QED
        BY <4>1, <4>2
    <3>2. CASE out'[s][i] # msg
      <4>1. /\ i \in 1 .. Len(out[s]) /\ out'[s][i] = out[s][i]
            /\ j \in 1 .. Len(out[r]) /\ out'[r][j] = out[r][j]
        BY <1>3, <2>2, <3>2
      <4>2. out[s][i] = out[r][j] /\ out[s][i].type = "place" /\ out[s][i].run = run
        BY <2>2, <4>1
      <4>3. QED
        BY <4>1, <4>2 DEF WireBook, SentOnce
    <3>3. QED
      BY <3>1, <3>2
  <2>3. QED
    BY <1>1, <1>4, <1>5, <2>2 DEF WireBook, SentOnce
<1>9. StoredBeforeSent'
  BY <1>1, <1>4, <1>5 DEF WireBook, StoredBeforeSent
<1>10. ErrorNeverLive'
  BY <1>1, <1>4, <1>5 DEF WireBook, ErrorNeverLive
<1>11. QED
  BY <1>6, <1>7, <1>8, <1>9, <1>10 DEF WireBook

\* TWS takes a message: it was the only copy of its order.
LEMMA WireTake ==
  ASSUME TypeOK, WireBook, NEW r \in Sockets, TwsRead(r), UnsentIds
  PROVE  WireBook'
<1> DEFINE d == [s \in Sockets |-> IF s = r THEN 1 ELSE 0]
           m == Head(out[r])
<1>1. d \in [Sockets -> Nat] /\ \A s \in Sockets : d[s] = IF s = r THEN 1 ELSE 0
  OBVIOUS
<1>2. /\ out' \in [Sockets -> Seq(ClientMessage)]
      /\ m = out[r][1] /\ 1 \in 1 .. Len(out[r]) /\ m \in ClientMessage
      /\ \A s \in Sockets : \A i \in 1 .. Len(out'[s]) :
           \/ s # r /\ i \in 1 .. Len(out[s]) /\ out'[s][i] = out[s][i]
           \/ s = r /\ i + 1 \in 1 .. Len(out[s]) /\ out'[s][i] = out[s][i + 1]
  BY TakenWire DEF TwsRead
<1>3. UNCHANGED <<client, threads, run>>
  BY DEF TwsRead
<1> HIDE DEF d, m
<1>4. \A s \in Sockets : \A i \in 1 .. Len(out'[s]) :
        i + d[s] \in 1 .. Len(out[s]) /\ out'[s][i] = out[s][i + d[s]]
  BY <1>1, <1>2
<1>5. ASSUME NEW id \in Ids
      PROVE  /\ twsRun'[id] <= run
             /\ Taken(id)' => Taken(id) \/ (PlaceOnWire(id) /\ ~PlaceOnWire(id)')
  <2>1. CASE TwsAccept(r, m)
    <3>1. m.run <= run /\ m.type = "place" /\ twsRun' = [twsRun EXCEPT ![m.id] = m.run]
      BY <1>2, <2>1 DEF TwsAccept, WireBook, RunInv
    <3>2. CASE id # m.id \/ m.run # run
      BY <1>3, <3>1, <3>2 DEF WireBook, RunInv, Taken, TypeOK
    <3>3. CASE id = m.id /\ m.run = run
      <4>1. m = PlaceMessage(id, run)
        BY <1>2, <3>1, <3>3 DEF ClientMessage, PlaceMessage
      <4>2. PlaceOnWire(id)
        BY <1>2, <4>1 DEF PlaceOnWire, OnWire
      <4>3. ~PlaceOnWire(id)'
        <5>1. SUFFICES ASSUME NEW s \in Sockets, NEW i \in 1 .. Len(out'[s]),
                              out'[s][i] = PlaceMessage(id, run)
                       PROVE  FALSE
          BY <1>3 DEF PlaceOnWire, OnWire
        <5>2. out'[s][i] = out[r][1] /\ out[r][1].type = "place" /\ out[r][1].run = run
          BY <1>2, <3>1, <3>3, <4>1, <5>1
        <5>3. CASE s # r
          BY <1>2, <5>2, <5>3 DEF WireBook, SentOnce
        <5>4. CASE s = r
          BY <1>2, <5>2, <5>4 DEF WireBook, SentOnce
        <5>5. QED
          BY <5>3, <5>4
      <4>4. twsRun'[id] <= run
        BY <3>1, <3>3, RunsOrder DEF TypeOK
      <4>5. QED
        BY <4>2, <4>3, <4>4
    <3>4. QED
      BY <3>2, <3>3
  <2>2. CASE twsRun' = twsRun
    BY <1>3, <2>2 DEF WireBook, RunInv, Taken
  <2>3. QED
    BY <2>1, <2>2 DEF TwsRead, m, TwsHello, TwsRefuse, TwsCancel, TwsIgnore
<1>6. run' = run /\ orders' = orders /\ \A t \in Threads : Unsent(t)' =>
           cur'[t] \in Ids /\ ~Taken(cur'[t]) /\ ~PlaceOnWire(cur'[t])
  BY <1>3 DEF client, threads, Unsent, UnsentIds, WireBook, UnsentInv
<1>7. \A s \in Sockets : \A i \in 1 .. Len(out'[s]) :
        \/ i + d[s] \in 1 .. Len(out[s]) /\ out'[s][i] = out[s][i + d[s]]
        \/ out'[s][i].type # "place" /\ out'[s][i].run <= run
  BY <1>4
<1>8. \A id \in Ids :
        /\ twsRun'[id] <= run
        /\ Taken(id)' => Taken(id) \/ (PlaceOnWire(id) /\ ~PlaceOnWire(id)')
        /\ orders[id] # "NONE" => orders'[id] # "NONE"
        /\ orders'[id] = "ERROR" =>
             orders[id] = "ERROR" \/ (~Taken(id) /\ ~PlaceOnWire(id))
  BY <1>5, <1>6
<1>9. run' = run /\ d \in [Sockets -> Nat] /\ out' \in [Sockets -> Seq(ClientMessage)]
  BY <1>1, <1>2, <1>6
<1>10. \A t \in Threads : Unsent(t)' =>
         cur'[t] \in Ids /\ ~Taken(cur'[t]) /\ ~PlaceOnWire(cur'[t])
  BY <1>6
<1>11. QED
  BY <1>7, <1>8, <1>9, <1>10, WireFrame

\* After a restart nothing on the wire or at TWS is of the new run.
LEMMA NewRunIsBlank ==
  ASSUME TypeOK, RunInv, Restart
  PROVE  /\ \A s \in Sockets : \A i \in 1 .. Len(out'[s]) :
              out'[s][i].run <= run' /\ out'[s][i].run # run'
         /\ \A id \in Ids : twsRun'[id] <= run' /\ twsRun'[id] # run'
<1>1. run' = run + 1 /\ UNCHANGED <<out, twsRun>> /\ run \in Nat
  BY DEF Restart, server, TypeOK, Runs
<1>2. ASSUME NEW s \in Sockets, NEW i \in 1 .. Len(out'[s])
      PROVE  out'[s][i].run <= run' /\ out'[s][i].run # run'
  <2>1. out[s] \in Seq(ClientMessage) /\ out'[s] = out[s]
    BY <1>1 DEF TypeOK
  <2>2. out[s][i] \in ClientMessage
    BY <1>2, <2>1, ElementOfSeq
  <2>3. out[s][i].run \in Runs /\ out[s][i].run <= run
    BY <1>2, <2>1, <2>2 DEF ClientMessage, RunInv
  <2>4. QED
    BY <1>1, <2>1, <2>3 DEF Runs
<1>3. ASSUME NEW id \in Ids
      PROVE  twsRun'[id] <= run' /\ twsRun'[id] # run'
  <2>1. twsRun[id] \in Int /\ twsRun[id] <= run /\ twsRun'[id] = twsRun[id]
    BY <1>1 DEF RunInv, TypeOK, Runs
  <2>2. QED
    BY <1>1, <2>1
<1>4. QED
  BY <1>2, <1>3

LEMMA WireStep == TypeOK /\ CallBook /\ WireBook /\ [Next]_vars => WireBook'
<1> SUFFICES ASSUME TypeOK, CallBook, WireBook, [Next]_vars PROVE WireBook'
  OBVIOUS
<1> USE DEF Goto, Call, Return, client, threads, os, server
<1>a. UnsentIds /\ \A t \in Threads :
        Unsent(t) => cur[t] \in Ids /\ ~Taken(cur[t]) /\ ~PlaceOnWire(cur[t])
  BY DEF UnsentIds, Unsent, CallBook, CallInv, Placing, PlacePCs, WireBook, UnsentInv
<1>b. ASSUME NEW u \in Threads, \A t \in Threads \ {u} : pc'[t] = pc[t] /\ cur'[t] = cur[t],
             ~Unsent(u)'
      PROVE  \A t \in Threads : Unsent(t)' =>
               cur'[t] \in Ids /\ ~Taken(cur'[t]) /\ ~PlaceOnWire(cur'[t])
  BY <1>a, <1>b DEF Unsent
<1>c. ASSUME UNCHANGED <<pc, cur>>
      PROVE  \A t \in Threads : Unsent(t)' =>
               cur'[t] \in Ids /\ ~Taken(cur'[t]) /\ ~PlaceOnWire(cur'[t])
  BY <1>a, <1>c DEF Unsent
<1>1. CASE ConnectSocket \/ DisconnectClose \/ ConnectTcp \/ ConnectRead \/ ConnectDone \/ DisconnectFlag
  <2>1. ASSUME ConnectRead PROVE UNCHANGED orders
    BY <2>1, ReadIsBlind DEF ConnectRead
  <2>2. UNCHANGED <<run, out, twsRun, orders>>
    BY <1>1, <2>1 DEF ConnectSocket, DisconnectClose, ConnectTcp, ConnectRead, ConnectDone, DisconnectFlag
  <2>3. (\A t \in Threads \ {Owner} : pc'[t] = pc[t] /\ cur'[t] = cur[t]) /\ ~Unsent(Owner)'
    BY <1>1 DEF TypeOK, Unsent, ConnectSocket, DisconnectClose, ConnectTcp, ConnectRead,
                ConnectDone, DisconnectFlag
  <2>4. QED
    BY <2>2, <2>3, <1>b, WireKeep
<1>2. CASE ConnectHandshake
  <2>1. /\ UNCHANGED <<run, twsRun, orders>>
        /\ \A t \in Threads \ {Owner} : pc'[t] = pc[t] /\ cur'[t] = cur[t]
        /\ ~Unsent(Owner)'
    BY <1>2 DEF ConnectHandshake, TypeOK, Unsent
  <2>2. CASE Sent(HelloMessage(run))
    <3>1. /\ HelloMessage(run) \in ClientMessage
          /\ HelloMessage(run).type # "place" /\ HelloMessage(run).run = run
      BY DEF TypeOK, HelloMessage, ClientMessage, NoOrder
    <3>2. QED
      BY <2>1, <2>2, <3>1, <1>b, WireSend
  <2>3. CASE NotSent
    BY <2>1, <2>3, <1>b, NotSentWire, WireKeep
  <2>4. QED
    BY <1>2, <2>2, <2>3 DEF ConnectHandshake
<1>3. ASSUME NEW t \in Threads, PlaceCheck(t) PROVE WireBook'
  <2>1. UNCHANGED <<run, out, twsRun, orders>>
    BY <1>3 DEF PlaceCheck
  <2>2. (\A u \in Threads \ {t} : pc'[u] = pc[u] /\ cur'[u] = cur[u]) /\ ~Unsent(t)'
    BY <1>3 DEF PlaceCheck, TypeOK, Unsent
  <2>3. QED
    BY <2>1, <2>2, <1>b, WireKeep
<1>4. ASSUME NEW t \in Threads, PlaceTakeId(t) PROVE WireBook'
  <2>1. /\ UNCHANGED <<run, out, twsRun, orders>>
        /\ \A u \in Threads \ {t} : pc'[u] = pc[u] /\ cur'[u] = cur[u]
        /\ cur'[t] = nextOrderId /\ nextOrderId \in Ids
    BY <1>4 DEF PlaceTakeId, TypeOK
  <2>2. orders[nextOrderId] = "NONE"
    BY <2>1 DEF CallBook, BookInv, TypeOK
  <2>3. ~Taken(nextOrderId) /\ ~PlaceOnWire(nextOrderId)
    BY <2>1, <2>2 DEF WireBook, StoredBeforeSent
  <2>4. \A u \in Threads : Unsent(u)' =>
               cur'[u] \in Ids /\ ~Taken(cur'[u]) /\ ~PlaceOnWire(cur'[u])
    BY <2>1, <2>3, <1>a DEF Unsent
  <2>5. QED
    BY <2>1, <2>4, WireKeep
<1>5. ASSUME NEW t \in Threads, PlaceStore(t) PROVE WireBook'
  <2>1. /\ UNCHANGED <<run, out, twsRun, cur>>
        /\ \A u \in Threads \ {t} : pc'[u] = pc[u]
        /\ pc[t] = "place_store"
    BY <1>5 DEF PlaceStore, TypeOK
  <2>2. \A u \in Threads : Unsent(u)' =>
               cur'[u] \in Ids /\ ~Taken(cur'[u]) /\ ~PlaceOnWire(cur'[u])
    BY <2>1, <1>a DEF Unsent
  <2>3. \A id \in Ids : orders'[id] \in {orders[id], "PENDING_SUBMIT"}
    BY <1>5 DEF PlaceStore, TypeOK
  <2>4. QED
    BY <2>1, <2>2, <2>3, WireKeep
<1>6. ASSUME NEW t \in Threads, PlaceSend(t) PROVE WireBook'
  <2>1. pc[t] = "place_send" /\ UNCHANGED <<run, twsRun, orders, cur>>
    BY <1>6 DEF PlaceSend
  <2>2. CASE Goto(t, "place_send", "place_read") /\ Sent(PlaceMessage(cur[t], run))
    BY <2>1, <2>2, WirePlace
  <2>3. CASE Goto(t, "place_send", "place_fail") /\ NotSent
    <3>1. \A u \in Threads : Unsent(u)' => Unsent(u)
      BY <2>1, <2>3 DEF Unsent, TypeOK
    <3>2. QED
      BY <2>1, <2>3, <3>1, <1>a, NotSentWire, WireKeep
  <2>4. QED
    BY <1>6, <2>2, <2>3 DEF PlaceSend
<1>7. ASSUME NEW t \in Threads, PlaceFail(t) PROVE WireBook'
  <2>1. UNCHANGED <<run, out, twsRun>>
        /\ \A u \in Threads \ {t} : pc'[u] = pc[u] /\ cur'[u] = cur[u]
    BY <1>7 DEF PlaceFail, TypeOK
  <2>2. ~Unsent(t)' /\ ~Taken(cur[t]) /\ ~PlaceOnWire(cur[t])
    BY <1>7, <1>a DEF PlaceFail, TypeOK, Unsent
  <2>3. \A id \in Ids : orders'[id] = orders[id] \/ (id = cur[t] /\ orders'[id] = "ERROR")
    BY <1>7 DEF PlaceFail, TypeOK
  <2>4. QED
    BY <2>1, <2>2, <2>3, <1>b, WireKeep
<1>8. ASSUME NEW t \in Threads, PlaceRead(t) PROVE WireBook'
  <2>1. UNCHANGED <<run, out, twsRun, orders>>
    BY <1>8, ReadIsBlind DEF PlaceRead
  <2>2. (\A u \in Threads \ {t} : pc'[u] = pc[u] /\ cur'[u] = cur[u]) /\ ~Unsent(t)'
    BY <1>8 DEF PlaceRead, TypeOK, Unsent
  <2>3. QED
    BY <2>1, <2>2, <1>b, WireKeep
<1>9. ASSUME NEW t \in Threads, PlaceAck(t) \/ CancelUpdate(t) PROVE WireBook'
  <2>1. UNCHANGED <<run, out, twsRun>>
    BY <1>9 DEF PlaceAck, CancelUpdate
  <2>2. (\A u \in Threads \ {t} : pc'[u] = pc[u] /\ cur'[u] = cur[u]) /\ ~Unsent(t)'
    BY <1>9 DEF PlaceAck, CancelUpdate, TypeOK, Unsent
  <2>3. \A id \in Ids : orders'[id] \in {orders[id], "SUBMITTED", "CANCELLED"}
    BY <1>9 DEF PlaceAck, CancelUpdate, TypeOK
  <2>4. QED
    BY <2>1, <2>2, <2>3, <1>b, WireKeep
<1>10. ASSUME NEW t \in Threads, CancelSend(t) PROVE WireBook'
  <2>1. /\ UNCHANGED <<run, twsRun, orders>>
        /\ \A u \in Threads \ {t} : pc'[u] = pc[u] /\ cur'[u] = cur[u]
        /\ ~Unsent(t)' /\ cur[t] \in Ids
    BY <1>10 DEF CancelSend, TypeOK, Unsent, CallBook, CallInv, CancelPCs
  <2>2. CASE Sent(CancelMessage(cur[t], run))
    <3>1. /\ CancelMessage(cur[t], run) \in ClientMessage
          /\ CancelMessage(cur[t], run).type # "place"
          /\ CancelMessage(cur[t], run).run = run
      BY <2>1, MessageType DEF TypeOK, CancelMessage
    <3>2. QED
      BY <2>1, <2>2, <3>1, <1>b, WireSend
  <2>3. CASE NotSent
    BY <2>1, <2>3, <1>b, NotSentWire, WireKeep
  <2>4. QED
    BY <1>10, <2>2, <2>3 DEF CancelSend
<1>11. ASSUME NEW t \in Threads, NEW id \in Ids, CancelCheck(t, id) PROVE WireBook'
  <2>1. UNCHANGED <<run, out, twsRun, orders>>
    BY <1>11 DEF CancelCheck
  <2>2. (\A u \in Threads \ {t} : pc'[u] = pc[u] /\ cur'[u] = cur[u]) /\ ~Unsent(t)'
    BY <1>11 DEF CancelCheck, TypeOK, Unsent
  <2>3. QED
    BY <2>1, <2>2, <1>b, WireKeep
<1>12. ASSUME NEW s \in Sockets, TwsRead(s) PROVE WireBook'
  BY <1>12, <1>a, WireTake
<1>13. ASSUME NEW r \in Sockets, TwsClose(r) PROVE WireBook'
  <2> DEFINE d == [s \in Sockets |-> 0]
  <2>1. d \in [Sockets -> Nat] /\ \A s \in Sockets : d[s] = 0
    OBVIOUS
  <2>2. UNCHANGED <<run, twsRun, orders, pc, cur>>
    BY <1>13 DEF TwsClose
  <2>3. \A s \in Sockets : out'[s] = IF s = r THEN << >> ELSE out[s]
    BY <1>13 DEF TwsClose, TypeOK
  <2>4. out' \in [Sockets -> Seq(ClientMessage)]
    BY <1>13, NothingSent DEF TwsClose, TypeOK
  <2> HIDE DEF d
  <2>5. \A s \in Sockets : \A i \in 1 .. Len(out'[s]) :
          i + d[s] \in 1 .. Len(out[s]) /\ out'[s][i] = out[s][i + d[s]]
    <3>1. SUFFICES ASSUME NEW s \in Sockets, NEW i \in 1 .. Len(out'[s])
                   PROVE  i + d[s] \in 1 .. Len(out[s]) /\ out'[s][i] = out[s][i + d[s]]
      OBVIOUS
    <3>2. s # r
      BY <2>3, <3>1
    <3>3. QED
      BY <2>1, <2>3, <3>1, <3>2
  <2>6. \A id \in Ids : twsRun'[id] <= run /\ (Taken(id)' => Taken(id))
    BY <2>2 DEF WireBook, RunInv, Taken
  <2>7. \A id \in Ids :
          /\ twsRun'[id] <= run
          /\ Taken(id)' => Taken(id) \/ (PlaceOnWire(id) /\ ~PlaceOnWire(id)')
          /\ orders[id] # "NONE" => orders'[id] # "NONE"
          /\ orders'[id] = "ERROR" => orders[id] = "ERROR" \/ (~Taken(id) /\ ~PlaceOnWire(id))
    BY <2>2, <2>6
  <2>8. \A t \in Threads : Unsent(t)' =>
          cur'[t] \in Ids /\ ~Taken(cur'[t]) /\ ~PlaceOnWire(cur'[t])
    BY <2>2, <1>c
  <2>9. run' = run
    BY <2>2
  <2>10. \A s \in Sockets : \A i \in 1 .. Len(out'[s]) :
           \/ i + d[s] \in 1 .. Len(out[s]) /\ out'[s][i] = out[s][i + d[s]]
           \/ out'[s][i].type # "place" /\ out'[s][i].run <= run
    BY <2>5
  <2>11. d \in [Sockets -> Nat]
    BY <2>1
  <2>12. QED
    BY <2>4, <2>7, <2>8, <2>9, <2>10, <2>11, WireFrame
<1>14. ASSUME NEW id \in Ids, TwsFill(id) PROVE WireBook'
  <2>1. UNCHANGED <<run, out, twsRun, orders, pc, cur>>
    BY <1>14 DEF TwsFill
  <2>2. QED
    BY <2>1, <1>c, WireKeep
<1>15. CASE Restart
  <2>1. /\ \A t \in Threads : pc'[t] = "idle"
        /\ \A id \in Ids : orders'[id] = "NONE"
    BY <1>15 DEF Restart, TypeOK
  <2>2. /\ \A s \in Sockets : \A i \in 1 .. Len(out'[s]) : out'[s][i].run <= run' /\ out'[s][i].run # run'
        /\ \A id \in Ids : twsRun'[id] <= run' /\ twsRun'[id] # run'
    BY <1>15, NewRunIsBlank DEF WireBook
  <2>3. \A id \in Ids : ~Taken(id)' /\ ~PlaceOnWire(id)'
    BY <2>2 DEF Taken, PlaceOnWire, OnWire, PlaceMessage
  <2>4. RunInv'
    BY <2>2 DEF RunInv
  <2>5. UnsentInv' /\ StoredBeforeSent' /\ ErrorNeverLive'
    BY <2>1, <2>3 DEF UnsentInv, Unsent, StoredBeforeSent, ErrorNeverLive
  <2>6. SentOnce'
    BY <2>2, <2>3 DEF SentOnce
  <2>7. QED
    BY <2>4, <2>5, <2>6 DEF WireBook
<1>16. CASE UNCHANGED vars
  <2>1. UNCHANGED <<run, out, twsRun, orders, pc, cur>>
    BY <1>16 DEF vars
  <2>2. QED
    BY <2>1, <1>c, WireKeep
<1>17. QED
  BY <1>1, <1>2, <1>3, <1>4, <1>5, <1>6, <1>7, <1>8, <1>9, <1>10, <1>11, <1>12, <1>13,
     <1>14, <1>15, <1>16
     DEF Next, Continue, Connecting

-----------------------------------------------------------------------------
(* The theorems. *)

LEMMA InitIInv == Init => IInv
<1> SUFFICES ASSUME Init PROVE IInv
  OBVIOUS
<1>1. TypeOK
  BY TypeInit
<1>2. /\ \A t \in Threads : ~Placing(t) /\ ~Unsent(t) /\ pc[t] \notin CancelPCs /\ pc[t] = "idle"
      /\ \A id \in Ids : orders[id] = "NONE" /\ ~(id < nextOrderId)
  BY DEF Init, Placing, Unsent, PlacePCs, CancelPCs, Ids
<1>3. /\ \A s \in Sockets : out[s] = << >>
      /\ \A id \in Ids : twsRun[id] = 0
      /\ run = 1
  BY DEF Init
<1>4. \A id \in Ids : ~Taken(id) /\ ~PlaceOnWire(id)
  BY <1>3 DEF Taken, PlaceOnWire, OnWire
<1>5. CallInv /\ BookInv
  BY <1>2 DEF CallInv, BookInv, Placing, PlacePCs
<1>6. RunInv /\ UnsentInv
  BY <1>2, <1>3 DEF RunInv, UnsentInv
<1>7. DistinctCalls /\ SettledWhenReturned
  BY <1>2 DEF DistinctCalls, SettledWhenReturned
<1>8. SentOnce /\ StoredBeforeSent /\ ErrorNeverLive
  BY <1>3, <1>4 DEF SentOnce, StoredBeforeSent, ErrorNeverLive
<1>9. QED
  BY <1>1, <1>5, <1>6, <1>7, <1>8 DEF IInv, UniqueOrderIds

LEMMA StepIInv == IInv /\ [Next]_vars => IInv'
<1>1. IInv => TypeOK /\ CallBook /\ WireBook /\ CallInv
  BY DEF IInv, CallBook, WireBook, UniqueOrderIds
<1>2. TypeOK' /\ CallBook' /\ WireBook' => IInv'
  BY DEF IInv, CallBook, WireBook, UniqueOrderIds
<1>3. QED
  BY <1>1, <1>2, TypeStep, CallStep, WireStep

LEMMA Invariance == Spec => []IInv
<1>1. QED
  BY InitIInv, StepIInv, PTL DEF Spec

\* Every variable keeps its type, for any threads and any bounds.
THEOREM TypeCorrect == Spec => []TypeOK
<1>1. IInv => TypeOK
  BY DEF IInv
<1>2. QED
  BY Invariance, <1>1, PTL

\* placeOrder calls never share an order id, and no order is sent twice in a
\* run, whatever the threads, the network and restarts do.
THEOREM OrderIdsAreUnique == Spec => []UniqueOrderIds
<1>1. IInv => UniqueOrderIds
  BY DEF IInv
<1>2. QED
  BY Invariance, <1>1, PTL

\* TWS never knows an order of this run that the gateway's book lacks.
THEOREM BookKnowsWhatTwsKnows == Spec => []StoredBeforeSent
<1>1. IInv => StoredBeforeSent
  BY DEF IInv
<1>2. QED
  BY Invariance, <1>1, PTL

\* An order marked ERROR is neither at TWS nor on its way there.
THEOREM ErrorOrdersAreDead == Spec => []ErrorNeverLive
<1>1. IInv => ErrorNeverLive
  BY DEF IInv
<1>2. QED
  BY Invariance, <1>1, PTL

\* No exit of placeOrder leaves its order missing or PENDING_SUBMIT.
THEOREM PlaceOrderSettles == Spec => []SettledWhenReturned
<1>1. IInv => SettledWhenReturned
  BY DEF IInv
<1>2. QED
  BY Invariance, <1>1, PTL

-----------------------------------------------------------------------------
(* The gateway implements OrderLifecycle. *)

LEMMA LifecycleStep ==
  ASSUME IInv, [Next]_vars
  PROVE  [Lifecycle!Next]_<<orders, nextOrderId - 1>>
<1> USE DEF Goto, Call, Return, client, threads, os, server
<1>1. ASSUME UNCHANGED <<orders, nextOrderId>>
      PROVE  [Lifecycle!Next]_<<orders, nextOrderId - 1>>
  BY <1>1
<1>2. TypeOK /\ CallInv /\ BookInv
  BY DEF IInv
<1>3. nextOrderId \in Int /\ Lifecycle!Ids = Ids
  BY <1>2 DEF TypeOK, Lifecycle!Ids, Ids
<1>4. CASE ConnectSocket \/ DisconnectClose \/ Connecting
  <2>1. ASSUME ConnectRead PROVE UNCHANGED <<orders, nextOrderId>>
    BY <1>2, <2>1, ReadIsBlind DEF ConnectRead
  <2>2. UNCHANGED <<orders, nextOrderId>>
    BY <1>4, <2>1 DEF ConnectSocket, DisconnectClose, Connecting, ConnectTcp,
                      ConnectHandshake, ConnectDone, DisconnectFlag
  <2>3. QED
    BY <1>1, <2>2
<1>5. ASSUME NEW t \in Threads,
             PlaceCheck(t) \/ PlaceSend(t) \/ PlaceRead(t) \/ CancelSend(t)
             \/ \E id \in Ids : CancelCheck(t, id)
      PROVE  [Lifecycle!Next]_<<orders, nextOrderId - 1>>
  <2>1. ASSUME PlaceRead(t) PROVE UNCHANGED <<orders, nextOrderId>>
    BY <1>2, <2>1, ReadIsBlind DEF PlaceRead
  <2>2. UNCHANGED <<orders, nextOrderId>>
    BY <1>5, <2>1 DEF PlaceCheck, PlaceSend, CancelSend, CancelCheck
  <2>3. QED
    BY <1>1, <2>2
<1>6. ASSUME NEW t \in Threads, PlaceTakeId(t)
      PROVE  Lifecycle!Issue
  BY <1>3, <1>6 DEF PlaceTakeId, Lifecycle!Issue, Ids
<1>7. ASSUME NEW t \in Threads, PlaceStore(t)
      PROVE  Lifecycle!Accept(cur[t]) /\ cur[t] \in Ids
  <2>1. /\ cur[t] \in Ids /\ cur[t] < nextOrderId /\ orders[cur[t]] = "NONE"
        /\ orders' = [orders EXCEPT ![cur[t]] = "PENDING_SUBMIT"] /\ nextOrderId' = nextOrderId
    BY <1>2, <1>7 DEF PlaceStore, CallInv, BookInv, Placing, PlacePCs
  <2>2. QED
    BY <1>3, <2>1 DEF Lifecycle!Accept, Lifecycle!Change, Ids
<1>8. ASSUME NEW t \in Threads, PlaceFail(t)
      PROVE  Lifecycle!Fail(cur[t]) /\ cur[t] \in Ids
  <2>1. cur[t] \in Ids /\ orders[cur[t]] \in {"PENDING_SUBMIT", "CANCELLED"}
    BY <1>2, <1>8 DEF PlaceFail, CallInv, BookInv, Placing, PlacePCs
  <2>2. QED
    BY <1>8, <2>1 DEF PlaceFail, Lifecycle!Fail, Lifecycle!Change
<1>9. ASSUME NEW t \in Threads, PlaceAck(t)
      PROVE  UNCHANGED <<orders, nextOrderId>> \/ (Lifecycle!Submit(cur[t]) /\ cur[t] \in Ids)
  <2>1. cur[t] \in Ids
    BY <1>2, <1>9 DEF PlaceAck, CallInv, Placing, PlacePCs
  <2>2. QED
    BY <1>9, <2>1 DEF PlaceAck, Lifecycle!Submit, Lifecycle!Change
<1>10. ASSUME NEW t \in Threads, CancelUpdate(t)
       PROVE  UNCHANGED <<orders, nextOrderId>> \/ (Lifecycle!Cancel(cur[t]) /\ cur[t] \in Ids)
  <2>1. cur[t] \in Ids /\ nextOrderId' = nextOrderId
    BY <1>2, <1>10 DEF CancelUpdate, CallInv, CancelPCs
  <2>2. CASE UNCHANGED orders
    BY <2>1, <2>2
  <2>3. CASE orders[cur[t]] # "NONE" /\ orders' = [orders EXCEPT ![cur[t]] = "CANCELLED"]
    <3>1. CASE orders[cur[t]] = "CANCELLED"
      <4>1. orders' = orders
        BY <1>2, <2>3, <3>1 DEF TypeOK
      <4>2. QED
        BY <2>1, <4>1
    <3>2. CASE orders[cur[t]] # "CANCELLED"
      <4>1. orders[cur[t]] \in {"PENDING_SUBMIT", "SUBMITTED", "ERROR"}
        BY <1>2, <2>1, <2>3, <3>2 DEF TypeOK, OrderStatus, BookInv
      <4>2. QED
        BY <2>1, <2>3, <4>1 DEF Lifecycle!Cancel, Lifecycle!Change
    <3>3. QED
      BY <3>1, <3>2
  <2>4. QED
    BY <1>10, <2>2, <2>3 DEF CancelUpdate
<1>11. CASE \/ \E s \in Sockets : TwsRead(s) \/ TwsClose(s)
            \/ \E id \in Ids : TwsFill(id)
            \/ UNCHANGED vars
  BY <1>1, <1>11 DEF TwsRead, TwsClose, TwsFill, vars
<1>12. CASE Restart
  BY <1>3, <1>12 DEF Restart, Lifecycle!Next, Lifecycle!Forget
<1>13. QED
  BY <1>1, <1>3, <1>4, <1>5, <1>6, <1>7, <1>8, <1>9, <1>10, <1>11, <1>12
     DEF Next, Continue, Lifecycle!Next

\* Seen through getOrder, the gateway behaves like OrderLifecycle: an order is
\* accepted once, under an id handed out before, and SUBMITTED only from
\* PENDING_SUBMIT (IBGateway.cpp:121-165).
THEOREM GatewayImplementsLifecycle == Spec => ImplementsLifecycle
<1>1. Init => Lifecycle!Init
  BY DEF Init, Lifecycle!Init, Lifecycle!Ids, Ids
<1>2. IInv /\ [Next]_vars => [Lifecycle!Next]_<<orders, nextOrderId - 1>>
  BY LifecycleStep
<1>3. QED
  BY <1>1, <1>2, Invariance, PTL DEF Spec, ImplementsLifecycle, Lifecycle!Spec
=============================================================================
