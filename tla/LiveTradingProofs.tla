-------------------------- MODULE LiveTradingProofs --------------------------
(***************************************************************************)
(* Proofs about LiveTrading, for any number of runs, sockets and order     *)
(* ids.  A step of the mode is a step of the gateway or leaves it alone,   *)
(* so the gateway's inductive invariant holds here as well.                *)
(***************************************************************************)
EXTENDS LiveTrading, IBGatewayProofs, FiniteSetTheorems

USE OwnerAssumption, BoundsAssumption, SizeAssumption, OneThreadAssumption

(* The inductive invariant, in named parts. *)

\* Where the cycle is tells where the gateway's thread is, and what it holds.
PhaseInv ==
  /\ step = "start" => pc[Owner] = "idle" /\ connected = FALSE /\ socketFd = NoSocket
  /\ step = "connecting" =>
       pc[Owner] \in {"conn_tcp", "conn_hello", "conn_read", "conn_done"} /\ connected = FALSE
  /\ step = "trade" => pc[Owner] = "idle" /\ connected = TRUE
  /\ step = "placing" => pc[Owner] \in PlacePCs /\ connected = TRUE
  /\ step = "placed" => pc[Owner] = "idle" /\ connected = TRUE
  /\ step = "disconnecting" => pc[Owner] = "disc_flag" /\ socketFd = NoSocket
  /\ step = "exited" => pc[Owner] = "idle" /\ connected = FALSE /\ socketFd = NoSocket

\* Runs announce at the end of their only order, and the mode never cancels.
AnnouncedInv ==
  /\ \A r \in announced : r <= run
  /\ run \in announced => step \in {"placed", "disconnecting", "exited"}
  /\ \A id \in Ids : orders[id] # "CANCELLED"
  /\ AnnouncedIsSubmitted

\* Every order of every run has the id a new object hands out first.
FirstId == 1

ShareInv ==
  /\ step \in {"start", "connecting", "trade"} \/ pc[Owner] = "place_id" => nextOrderId = FirstId
  /\ Placing(Owner) => cur[Owner] = FirstId
  /\ \A id \in Ids : orders[id] # "NONE" \/ tws[id] # "unknown" \/ twsRun[id] # 0 => id = FirstId
  /\ \A s \in Sockets : \A i \in 1 .. Len(out[s]) :
       out[s][i].type = "place" => out[s][i].id = FirstId

LiveInv ==
  /\ step \in Steps /\ announced \in SUBSET Runs
  /\ PhaseInv /\ AnnouncedInv /\ ShareInv

-----------------------------------------------------------------------------

LEMMA LiveIsGateway == [LiveNext]_liveVars => [Next]_vars
<1>1. LiveConnect => Next
  BY DEF LiveConnect, Next, Connecting
<1>2. LiveTrade => Next
  BY DEF LiveTrade, Next
<1>3. LiveDisconnect => Next
  BY DEF LiveDisconnect, Next, Connecting
<1>4. RunAgain => Next
  BY DEF RunAgain, Next
<1>5. World => Next
  BY DEF World, Next
<1>6. UNCHANGED liveVars => UNCHANGED vars
  BY DEF liveVars
<1>7. QED
  BY <1>1, <1>2, <1>3, <1>4, <1>5, <1>6 DEF LiveNext, LiveStep

\* A step inside the placing call, while no cancellation is under way.
LEMMA PlacingStep ==
  ASSUME Continue(Owner), pc[Owner] \in PlacePCs
  PROVE  \/ PlaceTakeId(Owner) \/ PlaceStore(Owner) \/ PlaceSend(Owner)
         \/ PlaceFail(Owner) \/ PlaceRead(Owner) \/ PlaceAck(Owner)
BY DEF Continue, PlacePCs, CancelSend, CancelUpdate, Return, Goto

LEMMA PhaseStep == TypeOK /\ PhaseInv /\ [LiveNext]_liveVars => PhaseInv'
<1> SUFFICES ASSUME TypeOK, PhaseInv, [LiveNext]_liveVars PROVE PhaseInv'
  OBVIOUS
<1> USE DEF Goto, Call, Return, client, threads, os, server, PlacePCs, CallEnds
<1>a. pc \in [Threads -> {"idle"} \cup PlacePCs \cup CancelPCs \cup ConnectPCs]
      /\ ret \in [Threads -> {"none", "ok", "failed"}] /\ connected \in BOOLEAN
  BY DEF TypeOK
<1>1. CASE step = "start" /\ ConnectSocket /\ LiveConnect
  BY <1>1, <1>a DEF LiveConnect, ConnectSocket, PhaseInv
<1>2. CASE step = "connecting" /\ (ConnectTcp \/ ConnectHandshake) /\ LiveConnect
  BY <1>2, <1>a DEF LiveConnect, ConnectTcp, ConnectHandshake, PhaseInv
<1>3. CASE step = "connecting" /\ (ConnectRead \/ ConnectDone) /\ LiveConnect
  BY <1>3, <1>a DEF LiveConnect, ConnectRead, ConnectDone, PhaseInv
<1>4. CASE step = "trade" /\ PlaceCheck(Owner) /\ LiveTrade
  BY <1>4, <1>a DEF LiveTrade, PlaceCheck, PhaseInv
<1>5. CASE step = "placing" /\ Continue(Owner) /\ LiveTrade
  <2>1. /\ connected' = connected
        /\ pc'[Owner] \in {"idle"} \cup PlacePCs
    BY <1>5, <1>a, PlacingStep
       DEF PhaseInv, PlaceTakeId, PlaceStore, PlaceSend, PlaceFail, PlaceRead, PlaceAck
  <2>2. QED
    BY <1>5, <2>1 DEF LiveTrade, PhaseInv
<1>6. CASE LiveDisconnect
  BY <1>6, <1>a DEF LiveDisconnect, DisconnectClose, DisconnectFlag, PhaseInv
<1>7. CASE RunAgain
  BY <1>7 DEF RunAgain, Restart, PhaseInv
<1>8. CASE World
  <2>1. UNCHANGED <<client, threads, step>>
    BY <1>8 DEF World, TwsRead, TwsClose, TwsFill
  <2>2. QED
    BY <2>1 DEF PhaseInv
<1>9. CASE UNCHANGED liveVars
  BY <1>9 DEF liveVars, vars, PhaseInv
<1>10. QED
  BY <1>1, <1>2, <1>3, <1>4, <1>5, <1>6, <1>7, <1>8, <1>9
     DEF LiveNext, LiveStep, LiveConnect, LiveTrade

\* What connecting, disconnecting and the world do to the book: nothing.
LEMMA BookKept ==
  ASSUME TypeOK, LiveConnect \/ LiveDisconnect \/ World \/ PlaceCheck(Owner)
  PROVE  UNCHANGED <<orders, nextOrderId, run>>
<1> USE DEF client, threads, os, server
<1>1. ASSUME ConnectRead PROVE UNCHANGED <<orders, nextOrderId, run>>
  BY <1>1, ReadIsBlind DEF ConnectRead
<1>2. QED
  BY <1>1 DEF LiveConnect, ConnectSocket, ConnectTcp, ConnectHandshake, ConnectDone,
              LiveDisconnect, DisconnectClose, DisconnectFlag, World, TwsRead, TwsClose, TwsFill, PlaceCheck

LEMMA AnnouncedStep ==
  IInv /\ step \in Steps /\ announced \in SUBSET Runs /\ PhaseInv /\ AnnouncedInv /\ [LiveNext]_liveVars
  => AnnouncedInv' /\ step' \in Steps /\ announced' \in SUBSET Runs
<1> SUFFICES ASSUME IInv, step \in Steps, announced \in SUBSET Runs, PhaseInv, AnnouncedInv,
                    [LiveNext]_liveVars
             PROVE  AnnouncedInv' /\ step' \in Steps /\ announced' \in SUBSET Runs
  OBVIOUS
<1> USE DEF Goto, Call, Return, client, threads, os, server, CallEnds, Steps
<1>a. /\ TypeOK /\ CallInv /\ BookInv
      /\ run \in Nat /\ run \in Runs /\ \A r \in announced : r \in Nat
      /\ pc \in [Threads -> {"idle"} \cup PlacePCs \cup CancelPCs \cup ConnectPCs]
      /\ ret \in [Threads -> {"none", "ok", "failed"}]
      /\ orders \in [Ids -> OrderStatus]
  BY DEF IInv, TypeOK, Runs
<1>1. CASE LiveConnect
  <2>1. UNCHANGED <<orders, run, announced>> /\ step \in {"start", "connecting"}
    BY <1>1, <1>a, BookKept DEF LiveConnect
  <2>2. step' \in Steps
    BY <1>1 DEF LiveConnect
  <2>3. QED
    BY <2>1, <2>2 DEF AnnouncedInv, AnnouncedIsSubmitted
<1>2. CASE step = "trade" /\ PlaceCheck(Owner) /\ LiveTrade
  <2>1. UNCHANGED <<orders, run>> /\ pc'[Owner] = "place_id"
    BY <1>2, <1>a, BookKept DEF PlaceCheck, PhaseInv
  <2>2. QED
    BY <1>2, <2>1 DEF LiveTrade, AnnouncedInv, AnnouncedIsSubmitted
<1>3. CASE step = "placing" /\ Continue(Owner) /\ LiveTrade
  <2>1. pc[Owner] \in PlacePCs /\ run \notin announced
    BY <1>3 DEF PhaseInv, AnnouncedInv
  <2>2. step' \in Steps
    BY <1>3 DEF LiveTrade
  <2>3. CASE PlaceAck(Owner)
    <3>1. /\ cur[Owner] \in Ids /\ orders[cur[Owner]] = "PENDING_SUBMIT"
          /\ pc[Owner] = "place_ack"
      BY <1>a, <2>3 DEF PlaceAck, CallInv, BookInv, Placing, PlacePCs, AnnouncedInv
    <3>2. /\ orders' = [orders EXCEPT ![cur[Owner]] = "SUBMITTED"]
          /\ pc'[Owner] = "idle" /\ ret'[Owner] = "ok" /\ run' = run
      BY <1>a, <2>3, <3>1 DEF PlaceAck
    <3>3. orders'[cur[Owner]] = "SUBMITTED" /\ \A id \in Ids : orders'[id] # "CANCELLED"
      BY <1>a, <3>1, <3>2 DEF AnnouncedInv
    <3>4. step' = "placed" /\ announced' = announced \cup {run}
      BY <1>3, <3>2 DEF LiveTrade
    <3>5. AnnouncedIsSubmitted'
      BY <3>1, <3>3 DEF AnnouncedIsSubmitted
    <3>6. QED
      BY <1>a, <3>2, <3>3, <3>4, <3>5 DEF AnnouncedInv
  <2>4. CASE ~PlaceAck(Owner)
    <3>1. /\ run' = run /\ (pc'[Owner] = "idle" => ret'[Owner] = "failed")
          /\ \A id \in Ids : orders'[id] # "CANCELLED"
      <4>1. CASE PlaceTakeId(Owner) \/ PlaceSend(Owner)
        BY <1>a, <4>1 DEF PlaceTakeId, PlaceSend, AnnouncedInv
      <4>2. CASE PlaceRead(Owner)
        BY <1>a, <4>2, ReadIsBlind DEF PlaceRead, AnnouncedInv
      <4>3. CASE PlaceStore(Owner) \/ PlaceFail(Owner)
        BY <1>a, <4>3 DEF PlaceStore, PlaceFail, AnnouncedInv
      <4>4. QED
        BY <1>3, <2>1, <2>4, <4>1, <4>2, <4>3, PlacingStep
    <3>2. announced' = announced
      BY <1>3, <3>1 DEF LiveTrade
    <3>3. QED
      BY <2>1, <2>2, <3>1, <3>2 DEF AnnouncedInv, AnnouncedIsSubmitted
  <2>5. QED
    BY <2>3, <2>4
<1>4. CASE LiveDisconnect
  <2>1. UNCHANGED <<orders, run, announced>>
    BY <1>4, <1>a, BookKept DEF LiveDisconnect
  <2>2. step' \in {"disconnecting", "exited"}
    BY <1>4 DEF LiveDisconnect
  <2>3. QED
    BY <2>1, <2>2 DEF AnnouncedInv, AnnouncedIsSubmitted
<1>5. CASE RunAgain
  <2>1. /\ run' = run + 1 /\ announced' = announced /\ step' = "start"
        /\ \A id \in Ids : orders'[id] = "NONE"
    BY <1>5 DEF RunAgain, Restart
  <2>2. (\A r \in announced' : r <= run') /\ run' \notin announced'
    BY <1>a, <2>1 DEF AnnouncedInv
  <2>3. QED
    BY <2>1, <2>2 DEF AnnouncedInv, AnnouncedIsSubmitted
<1>6. CASE World
  <2>1. UNCHANGED <<orders, run, announced, step>>
    BY <1>6, <1>a, BookKept DEF World
  <2>2. QED
    BY <2>1 DEF AnnouncedInv, AnnouncedIsSubmitted
<1>7. CASE UNCHANGED liveVars
  BY <1>7 DEF liveVars, vars, AnnouncedInv, AnnouncedIsSubmitted
<1>8. QED
  BY <1>1, <1>2, <1>3, <1>4, <1>5, <1>6, <1>7 DEF LiveNext, LiveStep, LiveTrade

-----------------------------------------------------------------------------
(* Every run asks for the same id. *)

\* A step that neither sends nor takes an order: the counter, the call and the
\* book decide.
LEMMA ShareLocal ==
  ASSUME ShareInv, UNCHANGED <<tws, twsRun>>,
         \A s \in Sockets : \A i \in 1 .. Len(out'[s]) :
           out'[s][i].type = "place" => out'[s][i].id = FirstId,
         \A id \in Ids : orders'[id] # "NONE" => orders[id] # "NONE" \/ id = FirstId,
         step' \in {"start", "connecting", "trade"} \/ pc'[Owner] = "place_id" =>
           nextOrderId' = FirstId,
         Placing(Owner)' => cur'[Owner] = FirstId
  PROVE  ShareInv'
BY DEF ShareInv, FirstId

LEMMA ShareStep == IInv /\ PhaseInv /\ ShareInv /\ [LiveNext]_liveVars => ShareInv'
<1> SUFFICES ASSUME IInv, PhaseInv, ShareInv, [LiveNext]_liveVars PROVE ShareInv'
  OBVIOUS
<1> USE DEF Goto, Call, Return, client, threads, os, server, CallEnds, FirstId
<1>a. /\ TypeOK /\ CallInv /\ BookInv
      /\ pc \in [Threads -> {"idle"} \cup PlacePCs \cup CancelPCs \cup ConnectPCs]
      /\ cur \in [Threads -> {NoOrder} \cup Ids]
      /\ orders \in [Ids -> OrderStatus]
      /\ out \in [Sockets -> Seq(ClientMessage)]
  BY DEF IInv, TypeOK
<1>b. ASSUME NEW msg \in ClientMessage, Sent(msg), msg.type = "place" => msg.id = FirstId
      PROVE  \A s \in Sockets : \A i \in 1 .. Len(out'[s]) :
               out'[s][i].type = "place" => out'[s][i].id = FirstId
  <2>1. \A s \in Sockets : \A i \in 1 .. Len(out'[s]) :
          \/ i \in 1 .. Len(out[s]) /\ out'[s][i] = out[s][i]
          \/ s = socketFd /\ i = Len(out[s]) + 1 /\ out'[s][i] = msg
    BY <1>a, <1>b, SentWire
  <2>2. QED
    BY <1>b, <2>1 DEF ShareInv
<1>1. CASE LiveConnect
  <2>1. /\ UNCHANGED <<orders, nextOrderId, tws, twsRun>>
        /\ step \in {"start", "connecting"} /\ ~Placing(Owner)' /\ pc'[Owner] # "place_id"
    <3>1. UNCHANGED <<orders, nextOrderId>>
      BY <1>1, <1>a, BookKept
    <3>2. UNCHANGED <<tws, twsRun>> /\ pc'[Owner] \in {"idle"} \cup ConnectPCs
      BY <1>1, <1>a
         DEF LiveConnect, ConnectSocket, ConnectTcp, ConnectHandshake, ConnectRead, ConnectDone, ConnectPCs
    <3>3. step \in {"start", "connecting"}
      BY <1>1 DEF LiveConnect
    <3>4. QED
      BY <3>1, <3>2, <3>3 DEF Placing, PlacePCs, ConnectPCs
  <2>2. \A s \in Sockets : \A i \in 1 .. Len(out'[s]) :
          out'[s][i].type = "place" => out'[s][i].id = FirstId
    <3>1. CASE Sent(HelloMessage(run))
      <4>1. HelloMessage(run) \in ClientMessage /\ HelloMessage(run).type # "place"
        BY <1>a DEF TypeOK, HelloMessage, ClientMessage, NoOrder
      <4>2. QED
        BY <1>b, <3>1, <4>1
    <3>2. CASE out' = out
      BY <3>2 DEF ShareInv
    <3>3. QED
      BY <1>1, <3>1, <3>2
         DEF LiveConnect, ConnectSocket, ConnectTcp, ConnectHandshake, ConnectRead, ConnectDone, NotSent
  <2>3. QED
    BY <2>1, <2>2, ShareLocal DEF ShareInv
<1>2. CASE step = "trade" /\ PlaceCheck(Owner) /\ LiveTrade
  <2>1. UNCHANGED <<orders, nextOrderId, tws, twsRun, out>> /\ pc'[Owner] = "place_id"
    BY <1>2, <1>a, BookKept DEF PlaceCheck, PhaseInv
  <2>2. nextOrderId = FirstId
    BY <1>2 DEF ShareInv
  <2>3. QED
    BY <2>1, <2>2, ShareLocal DEF ShareInv, Placing
<1>3. CASE step = "placing" /\ Continue(Owner) /\ LiveTrade
  <2>1. pc[Owner] \in PlacePCs /\ step' \in {"placed", "placing"}
    BY <1>3 DEF PhaseInv, LiveTrade
  <2>2. CASE PlaceTakeId(Owner)
    <3>1. /\ UNCHANGED <<orders, tws, twsRun, out>> /\ pc'[Owner] = "place_store"
          /\ cur'[Owner] = nextOrderId /\ pc[Owner] = "place_id"
      BY <1>a, <2>2 DEF PlaceTakeId
    <3>2. nextOrderId = FirstId
      BY <3>1 DEF ShareInv
    <3>3. QED
      BY <2>1, <3>1, <3>2, ShareLocal DEF ShareInv
  <2>3. CASE PlaceStore(Owner)
    <3>1. /\ UNCHANGED <<cur, tws, twsRun, out>> /\ pc'[Owner] = "place_send"
          /\ Placing(Owner)
          /\ \A id \in Ids : id # cur[Owner] => orders'[id] = orders[id]
      BY <1>a, <2>3 DEF PlaceStore, Placing, PlacePCs
    <3>2. cur[Owner] = FirstId
      BY <3>1 DEF ShareInv
    <3>3. QED
      BY <2>1, <3>1, <3>2, ShareLocal DEF ShareInv
  <2>4. CASE PlaceSend(Owner)
    <3>1. /\ UNCHANGED <<cur, orders, tws, twsRun>> /\ Placing(Owner)
          /\ pc'[Owner] \in {"place_read", "place_fail"}
          /\ Sent(PlaceMessage(cur[Owner], run)) \/ out' = out
      BY <1>a, <2>4 DEF PlaceSend, Placing, PlacePCs, NotSent
    <3>2. cur[Owner] = FirstId /\ cur[Owner] \in Ids
      BY <1>a, <3>1 DEF ShareInv, CallInv
    <3>3. PlaceMessage(cur[Owner], run) \in ClientMessage /\ PlaceMessage(cur[Owner], run).id = FirstId
      BY <1>a, <3>2, MessageType DEF TypeOK, PlaceMessage
    <3>4. \A s \in Sockets : \A i \in 1 .. Len(out'[s]) :
            out'[s][i].type = "place" => out'[s][i].id = FirstId
      BY <1>b, <3>1, <3>3 DEF ShareInv
    <3>5. QED
      BY <2>1, <3>1, <3>2, <3>4, ShareLocal DEF ShareInv
  <2>5. CASE PlaceRead(Owner)
    <3>1. /\ UNCHANGED <<cur, orders, tws, twsRun, out>> /\ pc'[Owner] = "place_ack"
          /\ Placing(Owner)
      BY <1>a, <2>5, ReadIsBlind DEF PlaceRead, Placing, PlacePCs
    <3>2. QED
      BY <2>1, <3>1, ShareLocal DEF ShareInv
  <2>6. CASE PlaceFail(Owner) \/ PlaceAck(Owner)
    <3>1. /\ UNCHANGED <<tws, twsRun, out>> /\ pc'[Owner] = "idle"
          /\ Placing(Owner)
          /\ \A id \in Ids : id # cur[Owner] => orders'[id] = orders[id]
      BY <1>a, <2>6 DEF PlaceFail, PlaceAck, Placing, PlacePCs
    <3>2. cur[Owner] = FirstId /\ ~Placing(Owner)'
      BY <3>1 DEF ShareInv, Placing, PlacePCs
    <3>3. QED
      BY <2>1, <3>1, <3>2, ShareLocal DEF ShareInv
  <2>7. QED
    BY <1>3, <2>1, <2>2, <2>3, <2>4, <2>5, <2>6, PlacingStep
<1>4. CASE LiveDisconnect
  <2>1. /\ UNCHANGED <<orders, nextOrderId>>
    BY <1>4, <1>a, BookKept
  <2>2. /\ UNCHANGED <<tws, twsRun, out>>
        /\ pc'[Owner] \in {"idle", "disc_flag"} /\ step' \in {"disconnecting", "exited"}
    BY <1>4, <1>a DEF LiveDisconnect, DisconnectClose, DisconnectFlag
  <2>3. QED
    BY <2>1, <2>2, ShareLocal DEF ShareInv, Placing, PlacePCs
<1>5. CASE RunAgain
  <2>1. /\ UNCHANGED <<tws, twsRun, out>> /\ pc'[Owner] = "idle" /\ nextOrderId' = FirstId
        /\ \A id \in Ids : orders'[id] = "NONE"
    BY <1>5 DEF RunAgain, Restart
  <2>2. QED
    BY <2>1, ShareLocal DEF ShareInv, Placing, PlacePCs
<1>6. ASSUME NEW r \in Sockets, TwsRead(r), step' = step PROVE ShareInv'
  <2> DEFINE m == Head(out[r])
  <2>1. /\ m = out[r][1] /\ 1 \in 1 .. Len(out[r]) /\ m \in ClientMessage
        /\ \A s \in Sockets : \A i \in 1 .. Len(out'[s]) :
             \/ s # r /\ i \in 1 .. Len(out[s]) /\ out'[s][i] = out[s][i]
             \/ s = r /\ i + 1 \in 1 .. Len(out[s]) /\ out'[s][i] = out[s][i + 1]
    BY <1>a, <1>6, TakenWire DEF TwsRead
  <2>2. UNCHANGED <<client, threads>>
    BY <1>6 DEF TwsRead
  <2> HIDE DEF m
  <2>3. m.type = "place" => m.id = FirstId
    BY <2>1 DEF ShareInv
  <2>4. /\ tws \in [Ids -> {"unknown", "working", "filled", "cancelled"}]
        /\ twsRun \in [Ids -> {0} \cup Runs]
    BY <1>a DEF TypeOK
  <2>5. \A id \in Ids : tws'[id] # "unknown" \/ twsRun'[id] # 0 =>
          tws[id] # "unknown" \/ twsRun[id] # 0 \/ id = FirstId
    <3>1. CASE TwsHello(r, m) \/ TwsRefuse(m) \/ TwsIgnore(m)
      BY <3>1 DEF TwsHello, TwsRefuse, TwsIgnore
    <3>2. CASE TwsAccept(r, m)
      BY <2>3, <2>4, <3>2 DEF TwsAccept
    <3>3. CASE TwsCancel(r, m)
      BY <2>4, <3>3 DEF TwsCancel
    <3>4. QED
      BY <1>6, <3>1, <3>2, <3>3 DEF TwsRead, m
  <2>6. \A s \in Sockets : \A i \in 1 .. Len(out'[s]) :
          out'[s][i].type = "place" => out'[s][i].id = FirstId
    BY <2>1 DEF ShareInv
  <2>7. QED
    BY <1>6, <2>2, <2>5, <2>6 DEF ShareInv, Placing
<1>7. ASSUME NEW r \in Sockets, TwsClose(r), step' = step PROVE ShareInv'
  <2>1. UNCHANGED <<client, threads, tws, twsRun>>
    BY <1>7 DEF TwsClose
  <2>2. \A s \in Sockets : out'[s] = IF s = r THEN << >> ELSE out[s]
    BY <1>7, <1>a DEF TwsClose
  <2>3. ASSUME NEW s \in Sockets, NEW i \in 1 .. Len(out'[s]), out'[s][i].type = "place"
        PROVE  out'[s][i].id = FirstId
    <3>1. s # r
      BY <2>2, <2>3
    <3>2. QED
      BY <2>2, <2>3, <3>1 DEF ShareInv
  <2>4. QED
    BY <1>7, <2>1, <2>3 DEF ShareInv, Placing
<1>8. ASSUME NEW id \in Ids, TwsFill(id), step' = step PROVE ShareInv'
  <2>1. UNCHANGED <<client, threads, out, twsRun>>
    BY <1>8 DEF TwsFill
  <2>2. \A x \in Ids : tws'[x] = IF x = id THEN "filled" ELSE tws[x]
    BY <1>8, <1>a DEF TwsFill, TypeOK
  <2>3. tws[id] # "unknown"
    BY <1>8 DEF TwsFill
  <2>4. QED
    BY <1>8, <2>1, <2>2, <2>3 DEF ShareInv, Placing
<1>9. CASE UNCHANGED liveVars
  BY <1>9 DEF liveVars, vars, ShareInv, Placing
<1>10. QED
  BY <1>1, <1>2, <1>3, <1>4, <1>5, <1>6, <1>7, <1>8, <1>9
     DEF LiveNext, LiveStep, LiveTrade, World

-----------------------------------------------------------------------------
(* The theorems. *)

LEMMA LiveInvariance == LiveSpec => [](IInv /\ LiveInv)
<1>1. LiveInit => IInv /\ LiveInv
  <2>1. SUFFICES ASSUME LiveInit PROVE IInv /\ LiveInv
    OBVIOUS
  <2>2. IInv /\ Init /\ step = "start" /\ announced = {}
    BY <2>1, InitIInv DEF LiveInit
  <2>3. PhaseInv
    BY <2>2 DEF Init, PhaseInv
  <2>4. AnnouncedInv
    BY <2>2 DEF Init, AnnouncedInv, AnnouncedIsSubmitted
  <2>5. ShareInv
    BY <2>2 DEF Init, ShareInv, Placing, PlacePCs, FirstId
  <2>6. QED
    BY <2>2, <2>3, <2>4, <2>5 DEF LiveInv, Steps
<1>2. IInv /\ LiveInv /\ [LiveNext]_liveVars => (IInv /\ LiveInv)'
  <2>1. SUFFICES ASSUME IInv, LiveInv, [LiveNext]_liveVars PROVE IInv' /\ LiveInv'
    OBVIOUS
  <2>2. IInv'
    BY <2>1, LiveIsGateway, StepIInv
  <2>3. PhaseInv'
    BY <2>1, PhaseStep DEF IInv, LiveInv
  <2>4. AnnouncedInv' /\ step' \in Steps /\ announced' \in SUBSET Runs
    BY <2>1, AnnouncedStep DEF LiveInv
  <2>5. ShareInv'
    BY <2>1, ShareStep DEF LiveInv
  <2>6. QED
    BY <2>2, <2>3, <2>4, <2>5 DEF LiveInv
<1>3. QED
  BY <1>1, <1>2, PTL DEF LiveSpec

\* The mode's and the gateway's variables keep their types.
THEOREM LiveTypeCorrect == LiveSpec => []LiveTypeOK
<1>1. IInv /\ LiveInv => LiveTypeOK
  BY DEF IInv, LiveInv, LiveTypeOK
<1>2. QED
  BY LiveInvariance, <1>1, PTL

\* Whichever step of a cycle fails, no session is left open at its end, and
\* connected_ is down (MultiVarAnalysisWorkflow.cpp:558-562, 597-617).
THEOREM NoSessionLeft == LiveSpec => []SessionClosedAtExit
<1>1. IInv /\ LiveInv => SessionClosedAtExit
  BY DEF LiveInv, PhaseInv, SessionClosedAtExit
<1>2. QED
  BY LiveInvariance, <1>1, PTL

\* A run that printed "Order placed" has the order SUBMITTED in its book
\* (MultiVarAnalysisWorkflow.cpp:597-615, IBGateway.cpp:146-173).
THEOREM AnnouncedOrdersWentOut == LiveSpec => []AnnouncedIsSubmitted
<1>1. IInv /\ LiveInv => AnnouncedIsSubmitted
  BY DEF LiveInv, AnnouncedInv
<1>2. QED
  BY LiveInvariance, <1>1, PTL

\* However many days the mode is run, TWS takes the order of one run at most: every
\* run asks for the first id (IBGateway.cpp:30-91, MultiVarAnalysisWorkflow.cpp:591-608).
THEOREM OneRunTrades == LiveSpec => []RunsShareAnId
<1>1. ASSUME IInv, LiveInv PROVE RunsShareAnId
  <2>1. \A id \in Ids : orders[id] # "NONE" \/ tws[id] # "unknown" \/ twsRun[id] # 0 => id = 1
    BY <1>1 DEF LiveInv, ShareInv, FirstId
  <2> DEFINE traders == {r \in Runs : \E id \in Ids : twsRun[id] = r}
  <2>2. traders \subseteq {twsRun[1]}
    BY <2>1 DEF Runs
  <2>3. IsFiniteSet({twsRun[1]}) /\ Cardinality({twsRun[1]}) = 1
    BY FS_Singleton
  <2>4. Cardinality(traders) <= 1
    BY <2>2, <2>3, FS_Subset
  <2>5. QED
    BY <2>1, <2>4 DEF RunsShareAnId
<1>2. QED
  BY LiveInvariance, <1>1, PTL

\* The live mode uses the gateway as the gateway may be used: whatever is proved
\* of IBGateway, its life cycle of an order included, holds in the live mode.
THEOREM LiveRefinesGateway == LiveSpec => Spec /\ ImplementsLifecycle
<1>1. LiveInit => Init
  BY DEF LiveInit
<1>2. LiveSpec => Spec
  BY <1>1, LiveIsGateway, PTL DEF LiveSpec, Spec
<1>3. QED
  BY <1>2, GatewayImplementsLifecycle, PTL
=============================================================================
