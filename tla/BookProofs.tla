------------------------------ MODULE BookProofs ------------------------------
(***************************************************************************)
(* Proof that the gateway's book and TWS agree about an order once nothing *)
(* about it is under way (BookMatchesTws of IBGateway), for any threads    *)
(* and any bounds.                                                         *)
(***************************************************************************)
EXTENDS IBGatewayProofs

USE OwnerAssumption, BoundsAssumption, SizeAssumption

(* The inductive invariant: why the two agree. *)

CancelOnWire(id) == \E s \in Sockets : OnWire(s, CancelMessage(id, run))

\* placeOrder has sent the order and said so, or will.
Acked(id) ==
  \/ orders[id] = "SUBMITTED"
  \/ \E t \in Threads : pc[t] \in {"place_read", "place_ack"} /\ cur[t] = id

\* cancelOrder has sent the cancellation and said so, or will.
Told(id) ==
  \/ orders[id] = "CANCELLED"
  \/ \E t \in Threads : pc[t] = "cancel_update" /\ cur[t] = id

\* Every cancellation of this run still on the wire is behind its order, on the
\* same socket, unless TWS has taken the order.
Behind(id) ==
  \A s \in Sockets : \A i \in 1 .. Len(out[s]) :
    out[s][i] = CancelMessage(id, run) =>
      Taken(id) \/ \E j \in 1 .. i - 1 : out[s][j] = PlaceMessage(id, run)

Agree(id) ==
  /\ Acked(id) => Taken(id) \/ PlaceOnWire(id)
  /\ Behind(id)
  /\ Told(id) => CancelOnWire(id) \/ (Taken(id) /\ tws[id] \in {"cancelled", "filled"})
  /\ CancelOnWire(id) \/ (Taken(id) /\ tws[id] = "cancelled") => Told(id)

\* What nothing has put in doubt.
AgreeInv == \A id \in Ids \ doubt : Agree(id)

\* TWS knows every order it has taken.
KnownInv == \A id \in Ids : Taken(id) => tws[id] # "unknown"

-----------------------------------------------------------------------------
(* Steps that touch neither the wire nor TWS. *)

\* A cancellation on the wire presupposes the order on the wire or at TWS.
LEMMA CancelNeedsPlace ==
  ASSUME NEW id, Behind(id), CancelOnWire(id)
  PROVE  Taken(id) \/ PlaceOnWire(id)
<1>1. PICK s \in Sockets : \E k \in 1 .. Len(out[s]) : out[s][k] = CancelMessage(id, run)
  BY DEF CancelOnWire, OnWire
<1>2. PICK i \in 1 .. Len(out[s]) : out[s][i] = CancelMessage(id, run)
  BY <1>1
<1>3. CASE Taken(id)
  BY <1>3
<1>4. CASE \E j \in 1 .. i - 1 : out[s][j] = PlaceMessage(id, run)
  <2>1. PICK j \in 1 .. i - 1 : out[s][j] = PlaceMessage(id, run)
    BY <1>4
  <2>2. j \in 1 .. Len(out[s])
    BY <1>2, <2>1
  <2>3. QED
    BY <2>1, <2>2 DEF PlaceOnWire, OnWire
<1>5. QED
  BY <1>2, <1>3, <1>4 DEF Behind

\* One thread's step: what it newly claims of an order it knew before, and it
\* takes back no cancellation of an order that was sent.
LEMMA AgreeLocal ==
  ASSUME TypeOK, AgreeInv, NEW t \in Threads,
         UNCHANGED <<run, out, tws, twsRun, doubt>>,
         \A u \in Threads \ {t} : pc'[u] = pc[u] /\ cur'[u] = cur[u],
         pc'[t] # "cancel_update",
         pc'[t] \in {"place_read", "place_ack"} =>
           pc[t] \in {"place_read", "place_ack"} /\ cur'[t] = cur[t],
         \A id \in Ids :
           /\ orders'[id] = "SUBMITTED" =>
                orders[id] = "SUBMITTED" \/ (pc[t] = "place_ack" /\ cur[t] = id)
           /\ orders'[id] = "CANCELLED" =>
                orders[id] = "CANCELLED" \/ (pc[t] = "cancel_update" /\ cur[t] = id)
           /\ orders[id] = "CANCELLED" \/ (pc[t] = "cancel_update" /\ cur[t] = id) =>
                orders'[id] = "CANCELLED" \/ (~Taken(id) /\ ~PlaceOnWire(id))
  PROVE  AgreeInv'
<1>1. SUFFICES ASSUME NEW id \in Ids, id \notin doubt PROVE Agree(id)'
  BY DEF AgreeInv
<1>2. Agree(id)
  BY <1>1 DEF AgreeInv
<1>3. /\ Taken(id)' <=> Taken(id)
      /\ PlaceOnWire(id)' <=> PlaceOnWire(id)
      /\ CancelOnWire(id)' <=> CancelOnWire(id)
      /\ Behind(id)' <=> Behind(id)
  BY DEF Taken, PlaceOnWire, CancelOnWire, OnWire, Behind
<1>4. Acked(id)' => Acked(id)
  BY DEF Acked
<1>5. Told(id)' => Told(id)
  BY DEF Told
<1>6. Told(id) => Told(id)' \/ (~Taken(id) /\ ~PlaceOnWire(id))
  BY DEF Told
<1>7. CancelOnWire(id) => Taken(id) \/ PlaceOnWire(id)
  BY <1>2, CancelNeedsPlace DEF Agree
<1>8. QED
  BY <1>2, <1>3, <1>4, <1>5, <1>6, <1>7 DEF Agree

-----------------------------------------------------------------------------
(* Sending. *)

\* A send leaves what was on the wire in its place and, on a working session,
\* adds the message at the end.
LEMMA SentKeeps ==
  ASSUME TypeOK, NEW msg \in ClientMessage, Sent(msg)
  PROVE  /\ \A s \in Sockets : \A i \in 1 .. Len(out[s]) :
              i \in 1 .. Len(out'[s]) /\ out'[s][i] = out[s][i]
         /\ peer[socketFd] = "up" =>
              socketFd \in Sockets /\ \E i \in 1 .. Len(out'[socketFd]) : out'[socketFd][i] = msg
         /\ peer[socketFd] # "up" => out' = out
<1>1. CASE peer[socketFd] = "up"
  <2>1. socketFd \in Sockets
    BY DEF TypeOK, Sent, NoSocket
  <2>2. out' = [out EXCEPT ![socketFd] = Append(out[socketFd], msg)]
    BY <1>1 DEF Sent
  <2>3. out'[socketFd] = Append(out[socketFd], msg) /\ out[socketFd] \in Seq(ClientMessage)
    BY <2>1, <2>2 DEF TypeOK
  <2>4. /\ Len(out'[socketFd]) = Len(out[socketFd]) + 1 /\ Len(out[socketFd]) \in Nat
        /\ \A i \in 1 .. Len(out[socketFd]) : out'[socketFd][i] = out[socketFd][i]
        /\ out'[socketFd][Len(out[socketFd]) + 1] = msg
    BY <2>3, AppendProperties, LenProperties
  <2>5. \A s \in Sockets \ {socketFd} : out'[s] = out[s]
    BY <2>2 DEF TypeOK
  <2>6. \E i \in 1 .. Len(out'[socketFd]) : out'[socketFd][i] = msg
    BY <2>4
  <2>7. peer' = peer
    BY DEF Sent
  <2>8. QED
    BY <1>1, <2>1, <2>4, <2>5, <2>6
<1>2. CASE peer[socketFd] # "up"
  BY <1>2 DEF Sent
<1>3. QED
  BY <1>1, <1>2

\* What a message sent by thread t changes: nothing but what t claims now.
LEMMA AgreeSend ==
  ASSUME TypeOK, AgreeInv, NEW t \in Threads, NEW msg \in ClientMessage, Sent(msg),
         msg.run = run, UNCHANGED <<run, tws, twsRun, orders, cur>>, doubt \subseteq doubt',
         \A u \in Threads \ {t} : pc'[u] = pc[u],
         pc[t] \notin {"place_read", "place_ack", "cancel_update"},
         \A id \in Ids \ doubt' :
           /\ pc'[t] \in {"place_read", "place_ack"} /\ cur[t] = id =>
                peer[socketFd] = "up" /\ msg = PlaceMessage(id, run)
           /\ pc'[t] = "cancel_update" /\ cur[t] = id =>
                peer[socketFd] = "up" /\ msg = CancelMessage(id, run)
           /\ peer[socketFd] = "up" /\ msg = CancelMessage(id, run) =>
                PlaceIsAhead(id) /\ pc'[t] = "cancel_update" /\ cur[t] = id
  PROVE  AgreeInv'
<1>1. SUFFICES ASSUME NEW id \in Ids, id \notin doubt' PROVE Agree(id)'
  BY DEF AgreeInv
<1>2. Agree(id)
  BY <1>1 DEF AgreeInv
<1>3. /\ \A s \in Sockets : \A i \in 1 .. Len(out[s]) :
           i \in 1 .. Len(out'[s]) /\ out'[s][i] = out[s][i]
      /\ peer[socketFd] = "up" =>
           socketFd \in Sockets /\ \E i \in 1 .. Len(out'[socketFd]) : out'[socketFd][i] = msg
      /\ peer[socketFd] # "up" => out' = out
  BY SentKeeps
<1>4. \A s \in Sockets : \A i \in 1 .. Len(out'[s]) :
        \/ i \in 1 .. Len(out[s]) /\ out'[s][i] = out[s][i]
        \/ s = socketFd /\ i = Len(out[s]) + 1 /\ out'[s][i] = msg
  BY SentWire
<1> DEFINE place == PlaceMessage(id, run)
           cancel == CancelMessage(id, run)
<1>5. PlaceMessage(id, run)' = place /\ CancelMessage(id, run)' = cancel /\ place # cancel
  BY DEF PlaceMessage, CancelMessage
<1>6. /\ PlaceOnWire(id) => PlaceOnWire(id)'
      /\ CancelOnWire(id) => CancelOnWire(id)'
      /\ peer[socketFd] = "up" /\ msg = place => PlaceOnWire(id)'
      /\ peer[socketFd] = "up" /\ msg = cancel => CancelOnWire(id)'
  BY <1>3, <1>5 DEF PlaceOnWire, CancelOnWire, OnWire
<1>7. ASSUME CancelOnWire(id)'
      PROVE  CancelOnWire(id) \/ (peer[socketFd] = "up" /\ msg = cancel)
  <2>1. PICK s \in Sockets : \E k \in 1 .. Len(out'[s]) : out'[s][k] = cancel
    BY <1>5, <1>7 DEF CancelOnWire, OnWire
  <2>2. PICK i \in 1 .. Len(out'[s]) : out'[s][i] = cancel
    BY <2>1
  <2>3. CASE i \in 1 .. Len(out[s]) /\ out'[s][i] = out[s][i]
    BY <2>2, <2>3 DEF CancelOnWire, OnWire
  <2>4. CASE i \notin 1 .. Len(out[s]) /\ msg = cancel
    BY <1>3, <2>2, <2>4
  <2>5. QED
    BY <1>4, <2>2, <2>3, <2>4
<1>8. Taken(id)' <=> Taken(id)
  BY DEF Taken
<1>9. Behind(id)'
  <2>1. SUFFICES ASSUME NEW s \in Sockets, NEW i \in 1 .. Len(out'[s]), out'[s][i] = cancel,
                        ~Taken(id)
                 PROVE  \E j \in 1 .. i - 1 : out'[s][j] = place
    BY <1>5, <1>8 DEF Behind
  <2>2. CASE i \in 1 .. Len(out[s]) /\ out'[s][i] = out[s][i]
    <3>1. PICK j \in 1 .. i - 1 : out[s][j] = place
      BY <1>2, <2>1, <2>2 DEF Agree, Behind
    <3>2. j \in 1 .. Len(out[s])
      BY <2>2, <3>1
    <3>3. QED
      BY <1>3, <3>1, <3>2
  <2>3. CASE i \notin 1 .. Len(out[s]) /\ s = socketFd /\ i = Len(out[s]) + 1 /\ msg = cancel
    <3>1. peer[socketFd] = "up"
      BY <1>3, <2>1, <2>3
    <3>2. OnWire(socketFd, place)
      BY <1>1, <2>1, <2>3, <3>1 DEF PlaceIsAhead
    <3>3. PICK j \in 1 .. Len(out[s]) : out[s][j] = place
      BY <2>3, <3>2 DEF OnWire
    <3>4. j \in 1 .. i - 1
      BY <2>3, <3>3, LenProperties DEF TypeOK
    <3>5. QED
      BY <1>3, <3>3, <3>4
  <2>4. QED
    BY <1>4, <2>1, <2>2, <2>3
<1>10. Acked(id)' => Acked(id) \/ (peer[socketFd] = "up" /\ msg = place)
  BY <1>1 DEF Acked
<1>11. Told(id)' => Told(id) \/ (peer[socketFd] = "up" /\ msg = cancel)
  BY <1>1 DEF Told
<1>12. Told(id) => Told(id)'
  BY DEF Told
<1>13. peer[socketFd] = "up" /\ msg = cancel => Told(id)'
  BY <1>1 DEF Told
<1> HIDE DEF place, cancel
<1>14. QED
  BY <1>2, <1>6, <1>7, <1>8, <1>9, <1>10, <1>11, <1>12, <1>13 DEF Agree

-----------------------------------------------------------------------------
(* TWS and the network. *)

\* The rest of a session's bytes stays when TWS takes its first message.
LEMMA TakenKeeps ==
  ASSUME TypeOK, NEW r \in Sockets, out[r] # << >>, out' = [out EXCEPT ![r] = Tail(@)]
  PROVE  \A s \in Sockets : \A i \in 1 .. Len(out[s]) :
           \/ s # r /\ i \in 1 .. Len(out'[s]) /\ out'[s][i] = out[s][i]
           \/ s = r /\ i = 1
           \/ s = r /\ i - 1 \in 1 .. Len(out'[s]) /\ out'[s][i - 1] = out[s][i]
<1>1. out[r] \in Seq(ClientMessage) /\ out'[r] = Tail(out[r])
  BY DEF TypeOK
<1>2. /\ Len(out[r]) \in Nat \ {0}
      /\ Len(Tail(out[r])) = Len(out[r]) - 1
      /\ \A i \in 1 .. Len(Tail(out[r])) : Tail(out[r])[i] = out[r][i + 1]
  BY <1>1, HeadTailProperties, EmptySeq, LenProperties
<1>3. ASSUME NEW s \in Sockets, NEW i \in 1 .. Len(out[s])
      PROVE  \/ s # r /\ i \in 1 .. Len(out'[s]) /\ out'[s][i] = out[s][i]
             \/ s = r /\ i = 1
             \/ s = r /\ i - 1 \in 1 .. Len(out'[s]) /\ out'[s][i - 1] = out[s][i]
  <2>1. CASE s # r
    BY <1>3, <2>1 DEF TypeOK
  <2>2. CASE s = r /\ i # 1
    <3>1. i \in 2 .. Len(out[r])
      BY <1>2, <1>3, <2>2
    <3>2. i - 1 \in 1 .. Len(Tail(out[r])) /\ (i - 1) + 1 = i
      BY <1>2, <3>1
    <3>3. Tail(out[r])[i - 1] = out[r][i]
      BY <1>2, <3>2
    <3>4. QED
      BY <1>1, <2>2, <3>2, <3>3
  <2>3. QED
    BY <2>1, <2>2
<1>4. QED
  BY <1>3

\* What TWS does with the message it takes, seen from one order of this run.
LEMMA TakenOutcome ==
  ASSUME TypeOK, KnownInv, NEW r \in Sockets, TwsRead(r), NEW id \in Ids, id \notin doubt'
  PROVE  LET m == Head(out[r])
         IN  /\ id \notin doubt
             /\ m = PlaceMessage(id, run) => Taken(id)'
             /\ Taken(id) => Taken(id)' /\ tws[id] # "unknown"
             /\ Taken(id)' => Taken(id) \/ (m = PlaceMessage(id, run) /\ tws'[id] = "working")
             /\ Taken(id)' => tws'[id] # "unknown"
             /\ Taken(id) /\ tws[id] \in {"cancelled", "filled"} => tws'[id] = tws[id]
             /\ Taken(id) /\ tws'[id] = "cancelled" /\ tws[id] # "cancelled" =>
                  m = CancelMessage(id, run)
             /\ Taken(id) /\ m = CancelMessage(id, run) => tws'[id] \in {"cancelled", "filled"}
<1> DEFINE m == Head(out[r])
<1>1. m \in ClientMessage
  BY TakenWire DEF TwsRead
<1>2. /\ run' = run
      /\ TwsHello(r, m) \/ TwsAccept(r, m) \/ TwsRefuse(m) \/ TwsCancel(r, m) \/ TwsIgnore(m)
  BY DEF TwsRead
<1> HIDE DEF m
<1>3. /\ m.type = "hello" => m # PlaceMessage(id, run) /\ m # CancelMessage(id, run)
      /\ m.type = "place" => m # CancelMessage(id, run) /\ m.id \in Ids
      /\ m.type = "cancel" => m # PlaceMessage(id, run) /\ m.id \in Ids
      /\ m = PlaceMessage(id, run) => m.id = id /\ m.run = run
      /\ m = CancelMessage(id, run) => m.id = id /\ m.run = run
      /\ m.type = "place" /\ m.id = id /\ m.run = run => m = PlaceMessage(id, run)
      /\ m.type = "cancel" /\ m.id = id /\ m.run = run => m = CancelMessage(id, run)
  BY <1>1 DEF ClientMessage, PlaceMessage, CancelMessage
<1>4. /\ tws \in [Ids -> {"unknown", "working", "filled", "cancelled"}]
      /\ twsRun \in [Ids -> {0} \cup Runs]
  BY DEF TypeOK
<1>5. Taken(id) => tws[id] # "unknown"
  BY DEF KnownInv
<1> USE DEF Taken
<1>6. CASE TwsHello(r, m)
  BY <1>2, <1>3, <1>5, <1>6 DEF TwsHello, m
<1>7. CASE TwsAccept(r, m)
  BY <1>2, <1>3, <1>4, <1>5, <1>7 DEF TwsAccept, m
<1>8. CASE TwsRefuse(m)
  BY <1>2, <1>3, <1>5, <1>8 DEF TwsRefuse, m
<1>9. CASE TwsCancel(r, m)
  BY <1>2, <1>3, <1>4, <1>5, <1>9 DEF TwsCancel, m
<1>10. CASE TwsIgnore(m)
  BY <1>2, <1>3, <1>4, <1>5, <1>10 DEF TwsIgnore, m
<1>11. QED
  BY <1>2, <1>6, <1>7, <1>8, <1>9, <1>10

LEMMA AgreeTake ==
  ASSUME TypeOK, KnownInv, AgreeInv, SentOnce, NEW r \in Sockets, TwsRead(r)
  PROVE  AgreeInv'
<1>1. SUFFICES ASSUME NEW id \in Ids, id \notin doubt' PROVE Agree(id)'
  BY DEF AgreeInv
<1> DEFINE m == Head(out[r])
           place == PlaceMessage(id, run)
           cancel == CancelMessage(id, run)
<1>2. /\ id \notin doubt
      /\ m = place => Taken(id)'
      /\ Taken(id) => Taken(id)' /\ tws[id] # "unknown"
      /\ Taken(id)' => Taken(id) \/ (m = place /\ tws'[id] = "working")
      /\ Taken(id) /\ tws[id] \in {"cancelled", "filled"} => tws'[id] = tws[id]
      /\ Taken(id) /\ tws'[id] = "cancelled" /\ tws[id] # "cancelled" => m = cancel
      /\ Taken(id) /\ m = cancel => tws'[id] \in {"cancelled", "filled"}
  BY <1>1, TakenOutcome
<1>3. Agree(id)
  BY <1>1, <1>2 DEF AgreeInv
<1>4. UNCHANGED <<run, orders, pc, cur>>
  BY DEF TwsRead, client, threads
<1>5. PlaceMessage(id, run)' = place /\ CancelMessage(id, run)' = cancel /\ place # cancel
  BY <1>4 DEF PlaceMessage, CancelMessage
<1>6. /\ m = out[r][1] /\ 1 \in 1 .. Len(out[r])
      /\ \A s \in Sockets : \A i \in 1 .. Len(out'[s]) :
           \/ s # r /\ i \in 1 .. Len(out[s]) /\ out'[s][i] = out[s][i]
           \/ s = r /\ i + 1 \in 1 .. Len(out[s]) /\ out'[s][i] = out[s][i + 1]
  BY TakenWire DEF TwsRead
<1>7. \A s \in Sockets : \A i \in 1 .. Len(out[s]) :
           \/ s # r /\ i \in 1 .. Len(out'[s]) /\ out'[s][i] = out[s][i]
           \/ s = r /\ i = 1
           \/ s = r /\ i - 1 \in 1 .. Len(out'[s]) /\ out'[s][i - 1] = out[s][i]
  BY TakenKeeps DEF TwsRead
<1> HIDE DEF m, place, cancel
<1>a. ASSUME NEW x, NEW s \in Sockets, NEW i \in 1 .. Len(out[s]), out[s][i] = x, m # x
       PROVE  \E k \in 1 .. Len(out'[s]) : out'[s][k] = x
  BY <1>6, <1>7, <1>a
<1>8. /\ PlaceOnWire(id) => PlaceOnWire(id)' \/ m = place
      /\ CancelOnWire(id) => CancelOnWire(id)' \/ m = cancel
  <2>1. ASSUME PlaceOnWire(id), m # place PROVE PlaceOnWire(id)'
    <3>1. PICK s \in Sockets : \E k \in 1 .. Len(out[s]) : out[s][k] = place
      BY <2>1 DEF PlaceOnWire, OnWire, place
    <3>2. \E k \in 1 .. Len(out'[s]) : out'[s][k] = place
      BY <1>a, <2>1, <3>1
    <3>3. QED
      BY <1>5, <3>2 DEF PlaceOnWire, OnWire
  <2>2. ASSUME CancelOnWire(id), m # cancel PROVE CancelOnWire(id)'
    <3>1. PICK s \in Sockets : \E k \in 1 .. Len(out[s]) : out[s][k] = cancel
      BY <2>2 DEF CancelOnWire, OnWire, cancel
    <3>2. \E k \in 1 .. Len(out'[s]) : out'[s][k] = cancel
      BY <1>a, <2>2, <3>1
    <3>3. QED
      BY <1>5, <3>2 DEF CancelOnWire, OnWire
  <2>3. QED
    BY <2>1, <2>2
<1>9. CancelOnWire(id)' => CancelOnWire(id)
  BY <1>5, <1>6 DEF CancelOnWire, OnWire, cancel
<1>10. m = cancel => CancelOnWire(id) /\ Taken(id)
  <2>1. SUFFICES ASSUME m = cancel PROVE CancelOnWire(id) /\ Taken(id)
    OBVIOUS
  <2>2. out[r][1] = CancelMessage(id, run)
    BY <1>6, <2>1 DEF cancel
  <2>3. CancelOnWire(id)
    BY <1>6, <2>2 DEF CancelOnWire, OnWire
  <2>4. Taken(id) \/ \E j \in 1 .. 1 - 1 : out[r][j] = PlaceMessage(id, run)
    BY <1>3, <1>6, <2>2 DEF Agree, Behind
  <2>5. QED
    BY <2>3, <2>4
<1>11. Behind(id)'
  <2>1. SUFFICES ASSUME NEW s \in Sockets, NEW i \in 1 .. Len(out'[s]), out'[s][i] = cancel,
                        ~Taken(id)'
                 PROVE  \E j \in 1 .. i - 1 : out'[s][j] = place
    BY <1>5 DEF Behind
  <2>2. ~Taken(id) /\ m # place
    BY <1>2, <2>1
  <2>3. CASE s # r
    <3>1. PICK j \in 1 .. i - 1 : out[s][j] = place
      BY <1>3, <1>6, <2>1, <2>2, <2>3 DEF Agree, Behind, place, cancel
    <3>2. i \in 1 .. Len(out[s])
      BY <1>6, <2>1, <2>3
    <3>3. j \in 1 .. Len(out[s]) /\ out'[s][j] = place
      BY <1>7, <2>3, <3>1, <3>2
    <3>4. QED
      BY <3>1, <3>3
  <2>4. CASE s = r
    <3>1. i + 1 \in 1 .. Len(out[s]) /\ out[s][i + 1] = cancel
      BY <1>6, <2>1, <2>4
    <3>2. PICK j \in 1 .. (i + 1) - 1 : out[s][j] = place
      BY <1>3, <2>2, <3>1 DEF Agree, Behind, place, cancel
    <3>3. j # 1 /\ j \in 1 .. Len(out[s])
      BY <1>6, <2>2, <2>4, <3>1, <3>2
    <3>4. j - 1 \in 1 .. i - 1 /\ out'[s][j - 1] = place
      BY <1>7, <2>4, <3>2, <3>3
    <3>5. QED
      BY <3>4
  <2>5. QED
    BY <2>3, <2>4
<1>12. (Acked(id)' <=> Acked(id)) /\ (Told(id)' <=> Told(id))
  BY <1>4 DEF Acked, Told
<1>13. Acked(id)' => Taken(id)' \/ PlaceOnWire(id)'
  BY <1>2, <1>3, <1>8, <1>12 DEF Agree
<1>14. Told(id)' => CancelOnWire(id)' \/ (Taken(id)' /\ tws'[id] \in {"cancelled", "filled"})
  BY <1>2, <1>3, <1>8, <1>10, <1>12 DEF Agree
<1>15. CancelOnWire(id)' \/ (Taken(id)' /\ tws'[id] = "cancelled") => Told(id)'
  BY <1>2, <1>3, <1>9, <1>10, <1>12 DEF Agree
<1>16. QED
  BY <1>11, <1>13, <1>14, <1>15 DEF Agree

\* What a closed session loses is put in doubt.
LEMMA AgreeClose ==
  ASSUME TypeOK, AgreeInv, NEW r \in Sockets, TwsClose(r)
  PROVE  AgreeInv'
<1>1. SUFFICES ASSUME NEW id \in Ids, id \notin doubt' PROVE Agree(id)'
  BY DEF AgreeInv
<1>2. /\ UNCHANGED <<run, orders, pc, cur, tws, twsRun>>
      /\ id \notin doubt
      /\ \A s \in Sockets : out'[s] = IF s = r THEN << >> ELSE out[s]
      /\ \A i \in 1 .. Len(out[r]) : ~(out[r][i].id = id /\ out[r][i].run = run)
  <2>1. UNCHANGED <<run, orders, pc, cur, tws, twsRun>>
    BY DEF TwsClose, client, threads, os
  <2>2. \A s \in Sockets : out'[s] = IF s = r THEN << >> ELSE out[s]
    BY DEF TwsClose, TypeOK
  <2>3. id \notin doubt /\ \A i \in 1 .. Len(out[r]) : ~(out[r][i].id = id /\ out[r][i].run = run)
    BY <1>1 DEF TwsClose
  <2>4. QED
    BY <2>1, <2>2, <2>3
<1>3. Agree(id)
  BY <1>1, <1>2 DEF AgreeInv
<1>4. /\ PlaceMessage(id, run).id = id /\ PlaceMessage(id, run).run = run
      /\ CancelMessage(id, run).id = id /\ CancelMessage(id, run).run = run
  BY DEF PlaceMessage, CancelMessage
<1>5. /\ PlaceOnWire(id)' <=> PlaceOnWire(id)
      /\ CancelOnWire(id)' <=> CancelOnWire(id)
  BY <1>2, <1>4 DEF PlaceOnWire, CancelOnWire, OnWire
<1>6. Behind(id)'
  <2>1. ASSUME NEW s \in Sockets, NEW i \in 1 .. Len(out'[s]), out'[s][i] = CancelMessage(id, run)
        PROVE  Taken(id) \/ \E j \in 1 .. i - 1 : out'[s][j] = PlaceMessage(id, run)
    <3>1. s # r
      BY <1>2, <2>1
    <3>2. QED
      BY <1>2, <1>3, <2>1, <3>1 DEF Agree, Behind
  <2>2. QED
    BY <1>2, <2>1 DEF Behind, Taken
<1>7. /\ Acked(id)' <=> Acked(id)
      /\ Told(id)' <=> Told(id)
      /\ Taken(id)' <=> Taken(id)
  BY <1>2 DEF Acked, Told, Taken
<1>8. QED
  BY <1>2, <1>3, <1>5, <1>6, <1>7 DEF Agree

\* An execution does not undo a cancellation.
LEMMA AgreeFill ==
  ASSUME TypeOK, AgreeInv, NEW i \in Ids, TwsFill(i)
  PROVE  AgreeInv'
<1>1. SUFFICES ASSUME NEW id \in Ids, id \notin doubt' PROVE Agree(id)'
  BY DEF AgreeInv
<1>2. /\ UNCHANGED <<run, orders, pc, cur, out, twsRun, doubt>>
      /\ tws'[id] = tws[id] \/ tws'[id] = "filled"
  BY DEF TwsFill, client, threads, TypeOK
<1>3. Agree(id)
  BY <1>1, <1>2 DEF AgreeInv
<1>4. /\ PlaceOnWire(id)' <=> PlaceOnWire(id)
      /\ CancelOnWire(id)' <=> CancelOnWire(id)
      /\ Behind(id)' <=> Behind(id)
      /\ Taken(id)' <=> Taken(id)
  BY <1>2 DEF PlaceOnWire, CancelOnWire, OnWire, Behind, Taken
<1>5. /\ Acked(id)' <=> Acked(id)
      /\ Told(id)' <=> Told(id)
  BY <1>2 DEF Acked, Told
<1>6. QED
  BY <1>2, <1>3, <1>4, <1>5 DEF Agree

\* A new run claims nothing and finds nothing of its own.
LEMMA AgreeRestart ==
  ASSUME TypeOK, RunInv, Restart
  PROVE  AgreeInv' /\ KnownInv'
<1>1. /\ \A s \in Sockets : \A i \in 1 .. Len(out'[s]) : out'[s][i].run # run'
      /\ \A id \in Ids : ~Taken(id)'
  BY NewRunIsBlank DEF Taken
<1>2. ASSUME NEW id \in Ids PROVE Agree(id)'
  <2>1. \A s \in Sockets : \A i \in 1 .. Len(out'[s]) : out'[s][i] # CancelMessage(id, run)'
    BY <1>1 DEF CancelMessage
  <2>2. ~CancelOnWire(id)' /\ Behind(id)'
    BY <2>1 DEF CancelOnWire, OnWire, Behind
  <2>3. ~Acked(id)' /\ ~Told(id)'
    BY DEF Acked, Told, Restart
  <2>4. QED
    BY <1>1, <2>2, <2>3 DEF Agree
<1>3. QED
  BY <1>1, <1>2 DEF AgreeInv, KnownInv

-----------------------------------------------------------------------------
(* The step and the theorem. *)

\* TWS records the run of an order only when it takes the order.
LEMMA KnownStep == TypeOK /\ RunInv /\ KnownInv /\ [Next]_vars => KnownInv'
<1> SUFFICES ASSUME TypeOK, RunInv, KnownInv, [Next]_vars PROVE KnownInv'
  OBVIOUS
<1> USE DEF server, os, KnownInv, Taken
<1>1. CASE UNCHANGED <<run, tws, twsRun>>
  BY <1>1
<1>2. CASE \/ ConnectSocket \/ DisconnectClose \/ Connecting
           \/ \E t \in Threads : PlaceCheck(t) \/ Continue(t)
           \/ \E t \in Threads, id \in Ids : CancelCheck(t, id)
           \/ \E s \in Sockets : TwsClose(s)
           \/ UNCHANGED vars
  BY <1>1, <1>2
     DEF ConnectSocket, DisconnectClose, Connecting, ConnectTcp, ConnectHandshake, ConnectRead,
         ConnectDone, DisconnectFlag, PlaceCheck, Continue, PlaceTakeId, PlaceStore, PlaceSend,
         PlaceFail, PlaceRead, PlaceAck, CancelSend, CancelUpdate, CancelCheck, TwsClose, vars
<1>3. ASSUME NEW r \in Sockets, TwsRead(r) PROVE KnownInv'
  <2> DEFINE m == Head(out[r])
  <2>1. m \in ClientMessage
    BY <1>3, TakenWire DEF TwsRead
  <2>2. run' = run
    BY <1>3 DEF TwsRead
  <2>3. /\ tws \in [Ids -> {"unknown", "working", "filled", "cancelled"}]
        /\ twsRun \in [Ids -> {0} \cup Runs]
    BY DEF TypeOK
  <2> HIDE DEF m
  <2>4. CASE TwsHello(r, m) \/ TwsRefuse(m) \/ TwsIgnore(m)
    BY <2>2, <2>4 DEF TwsHello, TwsRefuse, TwsIgnore
  <2>5. CASE TwsAccept(r, m)
    BY <2>1, <2>2, <2>3, <2>5 DEF TwsAccept
  <2>6. CASE TwsCancel(r, m)
    BY <2>1, <2>2, <2>3, <2>6 DEF TwsCancel
  <2>7. QED
    BY <1>3, <2>4, <2>5, <2>6 DEF TwsRead, m
<1>4. ASSUME NEW id \in Ids, TwsFill(id) PROVE KnownInv'
  BY <1>4 DEF TwsFill, TypeOK
<1>5. CASE Restart
  BY <1>5, NewRunIsBlank
<1>6. QED
  BY <1>2, <1>3, <1>4, <1>5 DEF Next

LEMMA AgreeStep == IInv /\ KnownInv /\ AgreeInv /\ [Next]_vars => AgreeInv'
<1> SUFFICES ASSUME IInv, KnownInv, AgreeInv, [Next]_vars PROVE AgreeInv'
  OBVIOUS
<1> USE DEF Goto, Call, Return, client, threads, os, server
<1>a. /\ TypeOK /\ CallInv /\ BookInv /\ RunInv /\ UnsentInv /\ SentOnce /\ StoredBeforeSent
      /\ \A t \in Threads : Unsent(t) => cur[t] \in Ids /\ ~Taken(cur[t]) /\ ~PlaceOnWire(cur[t])
  BY DEF IInv, UniqueOrderIds, UnsentInv, Unsent, CallInv, Placing, PlacePCs
<1>1. CASE ConnectSocket \/ DisconnectClose \/ ConnectTcp \/ ConnectRead \/ ConnectDone \/ DisconnectFlag
  <2>1. ASSUME ConnectRead PROVE UNCHANGED orders
    BY <1>a, <2>1, ReadIsBlind DEF ConnectRead
  <2>2. UNCHANGED <<run, out, tws, twsRun, doubt, orders>>
    BY <1>1, <2>1 DEF ConnectSocket, DisconnectClose, ConnectTcp, ConnectRead, ConnectDone, DisconnectFlag
  <2>3. /\ \A t \in Threads \ {Owner} : pc'[t] = pc[t] /\ cur'[t] = cur[t]
        /\ pc'[Owner] \notin {"place_read", "place_ack", "cancel_update"}
        /\ pc[Owner] \notin {"place_read", "place_ack", "cancel_update"}
    BY <1>1, <1>a DEF TypeOK, ConnectSocket, DisconnectClose, ConnectTcp, ConnectRead,
                ConnectDone, DisconnectFlag
  <2>4. QED
    BY <1>a, <2>2, <2>3, AgreeLocal
<1>2. CASE ConnectHandshake
  <2>1. /\ UNCHANGED <<run, tws, twsRun, orders, doubt>>
        /\ \A t \in Threads \ {Owner} : pc'[t] = pc[t] /\ cur'[t] = cur[t]
        /\ pc'[Owner] \notin {"place_read", "place_ack", "cancel_update"}
        /\ pc[Owner] \notin {"place_read", "place_ack", "cancel_update"}
    BY <1>2, <1>a DEF ConnectHandshake, TypeOK
  <2>2. CASE Sent(HelloMessage(run)) /\ UNCHANGED cur
    <3>1. /\ HelloMessage(run) \in ClientMessage /\ HelloMessage(run).run = run
          /\ \A id \in Ids : HelloMessage(run) # CancelMessage(id, run)
      BY <1>a DEF TypeOK, HelloMessage, ClientMessage, NoOrder, CancelMessage
    <3>2. QED
      BY <1>a, <2>1, <2>2, <3>1, AgreeSend
  <2>3. CASE NotSent
    <3>1. out' = out
      BY <2>3 DEF NotSent
    <3>2. QED
      BY <1>a, <2>1, <3>1, AgreeLocal
  <2>4. QED
    BY <1>2, <2>2, <2>3 DEF ConnectHandshake
<1>3. ASSUME NEW t \in Threads, PlaceCheck(t) \/ PlaceTakeId(t) PROVE AgreeInv'
  <2>1. /\ UNCHANGED <<run, out, tws, twsRun, doubt, orders>>
        /\ \A u \in Threads \ {t} : pc'[u] = pc[u] /\ cur'[u] = cur[u]
        /\ pc'[t] \notin {"place_read", "place_ack", "cancel_update"}
        /\ pc[t] \notin {"place_read", "place_ack", "cancel_update"}
    BY <1>3, <1>a DEF PlaceCheck, PlaceTakeId, TypeOK
  <2>2. QED
    BY <1>a, <2>1, AgreeLocal
<1>4. ASSUME NEW t \in Threads, PlaceStore(t) PROVE AgreeInv'
  <2>1. /\ UNCHANGED <<run, out, tws, twsRun, doubt>>
        /\ \A u \in Threads \ {t} : pc'[u] = pc[u] /\ cur'[u] = cur[u]
        /\ pc[t] = "place_store" /\ pc'[t] = "place_send"
    BY <1>4, <1>a DEF PlaceStore, TypeOK
  <2>2. cur[t] \in Ids /\ orders[cur[t]] = "NONE"
    BY <2>1, <1>a DEF BookInv, Unsent
  <2>3. \A id \in Ids : orders'[id] = IF id = cur[t] THEN "PENDING_SUBMIT" ELSE orders[id]
    BY <1>4, <1>a DEF PlaceStore, TypeOK
  <2>4. QED
    BY <1>a, <2>1, <2>2, <2>3, AgreeLocal
<1>5. ASSUME NEW t \in Threads, PlaceSend(t) PROVE AgreeInv'
  <2>1. /\ UNCHANGED <<run, tws, twsRun, orders, cur>>
        /\ \A u \in Threads \ {t} : pc'[u] = pc[u]
        /\ pc[t] = "place_send" /\ pc'[t] \in {"place_read", "place_fail"}
    BY <1>5, <1>a DEF PlaceSend, TypeOK
  <2>2. CASE /\ Sent(PlaceMessage(cur[t], run))
             /\ doubt' = IF peer[socketFd] = "up" THEN doubt ELSE doubt \cup {cur[t]}
    <3>1. /\ PlaceMessage(cur[t], run) \in ClientMessage /\ PlaceMessage(cur[t], run).run = run
          /\ \A id \in Ids : PlaceMessage(cur[t], run) # CancelMessage(id, run)
      BY <2>1, <1>a, MessageType DEF TypeOK, Unsent, PlaceMessage, CancelMessage
    <3>2. doubt \subseteq doubt' /\ (peer[socketFd] # "up" => cur[t] \in doubt')
      BY <2>2
    <3>3. QED
      BY <1>a, <2>1, <2>2, <3>1, <3>2, AgreeSend
  <2>3. CASE Goto(t, "place_send", "place_fail") /\ NotSent /\ UNCHANGED doubt
    <3>1. out' = out /\ pc'[t] = "place_fail"
      BY <1>a, <2>3 DEF NotSent, TypeOK
    <3>2. QED
      BY <1>a, <2>1, <2>3, <3>1, AgreeLocal
  <2>4. QED
    BY <1>5, <2>2, <2>3 DEF PlaceSend
<1>6. ASSUME NEW t \in Threads, PlaceFail(t) PROVE AgreeInv'
  <2>1. /\ UNCHANGED <<run, out, tws, twsRun, doubt>>
        /\ \A u \in Threads \ {t} : pc'[u] = pc[u] /\ cur'[u] = cur[u]
        /\ pc[t] = "place_fail" /\ pc'[t] = "idle"
    BY <1>6, <1>a DEF PlaceFail, TypeOK
  <2>2. ~Taken(cur[t]) /\ ~PlaceOnWire(cur[t])
    BY <2>1, <1>a DEF Unsent
  <2>3. \A id \in Ids : orders'[id] = IF id = cur[t] THEN "ERROR" ELSE orders[id]
    BY <1>6, <1>a DEF PlaceFail, TypeOK
  <2>4. QED
    BY <1>a, <2>1, <2>2, <2>3, AgreeLocal
<1>7. ASSUME NEW t \in Threads, PlaceRead(t) PROVE AgreeInv'
  <2>1. UNCHANGED <<run, out, tws, twsRun, doubt, orders>>
    BY <1>7, <1>a, ReadIsBlind DEF PlaceRead
  <2>2. /\ \A u \in Threads \ {t} : pc'[u] = pc[u] /\ cur'[u] = cur[u]
        /\ cur' = cur /\ pc[t] = "place_read" /\ pc'[t] = "place_ack"
    BY <1>7, <1>a DEF PlaceRead, TypeOK
  <2>3. QED
    BY <1>a, <2>1, <2>2, AgreeLocal
<1>8. ASSUME NEW t \in Threads, PlaceAck(t) PROVE AgreeInv'
  <2>1. /\ UNCHANGED <<run, out, tws, twsRun, doubt>>
        /\ \A u \in Threads \ {t} : pc'[u] = pc[u] /\ cur'[u] = cur[u]
        /\ pc[t] = "place_ack" /\ pc'[t] = "idle"
    BY <1>8, <1>a DEF PlaceAck, TypeOK
  <2>2. \A id \in Ids :
          \/ orders'[id] = orders[id]
          \/ id = cur[t] /\ orders[id] = "PENDING_SUBMIT" /\ orders'[id] = "SUBMITTED"
    BY <1>8, <1>a DEF PlaceAck, TypeOK
  <2>3. QED
    BY <1>a, <2>1, <2>2, AgreeLocal
<1>9. ASSUME NEW t \in Threads, CancelSend(t) PROVE AgreeInv'
  <2>1. /\ UNCHANGED <<run, tws, twsRun, orders>>
        /\ \A u \in Threads \ {t} : pc'[u] = pc[u] /\ cur'[u] = cur[u]
        /\ pc[t] = "cancel_send" /\ cur[t] \in Ids
    BY <1>9, <1>a DEF CancelSend, TypeOK, CallInv, CancelPCs
  <2>2. CASE /\ Goto(t, "cancel_send", "cancel_update")
             /\ Sent(CancelMessage(cur[t], run))
             /\ doubt' = IF peer[socketFd] = "up" /\ PlaceIsAhead(cur[t])
                          THEN doubt ELSE doubt \cup {cur[t]}
             /\ UNCHANGED cur
    <3>1. /\ CancelMessage(cur[t], run) \in ClientMessage /\ CancelMessage(cur[t], run).run = run
          /\ \A id \in Ids : CancelMessage(cur[t], run) = CancelMessage(id, run) => id = cur[t]
      BY <2>1, <1>a, MessageType DEF TypeOK, CancelMessage
    <3>2. /\ doubt \subseteq doubt'
          /\ cur[t] \notin doubt' => peer[socketFd] = "up" /\ PlaceIsAhead(cur[t])
      BY <2>2
    <3>3. pc'[t] = "cancel_update"
      BY <1>a, <2>2 DEF TypeOK
    <3>4. QED
      BY <1>a, <2>1, <2>2, <3>1, <3>2, <3>3, AgreeSend
  <2>3. CASE Return(t, "cancel_send", "failed") /\ NotSent /\ UNCHANGED doubt
    <3>1. out' = out /\ pc'[t] = "idle"
      BY <1>a, <2>3 DEF NotSent, TypeOK
    <3>2. QED
      BY <1>a, <2>1, <2>3, <3>1, AgreeLocal
  <2>4. QED
    BY <1>9, <2>2, <2>3 DEF CancelSend
<1>10. ASSUME NEW t \in Threads, CancelUpdate(t) PROVE AgreeInv'
  <2>1. /\ UNCHANGED <<run, out, tws, twsRun, doubt>>
        /\ \A u \in Threads \ {t} : pc'[u] = pc[u] /\ cur'[u] = cur[u]
        /\ pc[t] = "cancel_update" /\ pc'[t] = "idle" /\ cur[t] \in Ids
    BY <1>10, <1>a DEF CancelUpdate, TypeOK, CallInv, CancelPCs
  <2>2. CASE orders[cur[t]] # "NONE" /\ orders' = [orders EXCEPT ![cur[t]] = "CANCELLED"]
    <3>1. \A id \in Ids : orders'[id] = IF id = cur[t] THEN "CANCELLED" ELSE orders[id]
      BY <1>a, <2>2 DEF TypeOK
    <3>2. QED
      BY <1>a, <2>1, <3>1, AgreeLocal
  <2>3. CASE orders[cur[t]] = "NONE" /\ UNCHANGED orders
    <3>1. ~Taken(cur[t]) /\ ~PlaceOnWire(cur[t])
      BY <1>a, <2>1, <2>3 DEF StoredBeforeSent
    <3>2. QED
      BY <1>a, <2>1, <2>3, <3>1, AgreeLocal
  <2>4. QED
    BY <1>10, <2>2, <2>3 DEF CancelUpdate
<1>11. ASSUME NEW t \in Threads, NEW id \in Ids, CancelCheck(t, id) PROVE AgreeInv'
  <2>1. UNCHANGED <<run, out, tws, twsRun, doubt, orders>>
    BY <1>11 DEF CancelCheck
  <2>2. /\ \A u \in Threads \ {t} : pc'[u] = pc[u] /\ cur'[u] = cur[u]
        /\ pc'[t] \in {"cancel_send", "idle"} /\ pc[t] = "idle"
    BY <1>11, <1>a DEF CancelCheck, TypeOK
  <2>3. QED
    BY <1>a, <2>1, <2>2, AgreeLocal
<1>12. ASSUME NEW s \in Sockets, TwsRead(s) \/ TwsClose(s) PROVE AgreeInv'
  BY <1>12, <1>a, AgreeTake, AgreeClose
<1>13. ASSUME NEW id \in Ids, TwsFill(id) PROVE AgreeInv'
  BY <1>13, <1>a, AgreeFill
<1>14. CASE Restart
  BY <1>14, <1>a, AgreeRestart
<1>15. CASE UNCHANGED vars
  <2>1. UNCHANGED <<run, out, tws, twsRun, doubt, orders, pc, cur>>
    BY <1>15 DEF vars
  <2>2. QED
    BY <2>1 DEF AgreeInv, Agree, Acked, Told, Behind, CancelOnWire, PlaceOnWire, OnWire, Taken
<1>16. QED
  BY <1>1, <1>2, <1>3, <1>4, <1>5, <1>6, <1>7, <1>8, <1>9, <1>10, <1>11, <1>12, <1>13,
     <1>14, <1>15
     DEF Next, Continue, Connecting

\* Nothing about an order is under way: what its calls and TWS know is all there is.
LEMMA QuietAgrees ==
  ASSUME KnownInv, AgreeInv, TypeOK
  PROVE  BookMatchesTws
<1>1. SUFFICES ASSUME NEW id \in Ids, id \notin doubt, Quiet(id)
               PROVE  /\ orders[id] = "CANCELLED" => Taken(id) /\ tws[id] \in {"cancelled", "filled"}
                      /\ orders[id] = "SUBMITTED" => Taken(id) /\ tws[id] \in {"working", "filled"}
  BY DEF BookMatchesTws
<1>2. ~PlaceOnWire(id) /\ ~CancelOnWire(id)
  BY <1>1 DEF Quiet, MessagesInFlight, PlaceOnWire, CancelOnWire, OnWire, PlaceMessage, CancelMessage
<1>3. Told(id) => orders[id] = "CANCELLED"
  BY <1>1 DEF Quiet, Told
<1>4. Agree(id) /\ (Taken(id) => tws[id] # "unknown")
  BY <1>1 DEF AgreeInv, KnownInv
<1>5. tws[id] \in {"unknown", "working", "filled", "cancelled"}
  BY DEF TypeOK
<1>6. QED
  BY <1>2, <1>3, <1>4, <1>5 DEF Agree, Acked, Told

\* Once nothing about an order is under way, and nothing about it was lost,
\* refused or overtaken, its local status and TWS agree, however placeOrder's last
\* update raced with cancelOrder's (IBGateway.cpp:159-165, 184-188).
THEOREM BookAgreesWithTws == Spec => []BookMatchesTws
<1>1. Init => KnownInv /\ AgreeInv
  <2>1. SUFFICES ASSUME Init PROVE KnownInv /\ AgreeInv
    OBVIOUS
  <2>2. /\ \A t \in Threads : pc[t] = "idle"
        /\ \A id \in Ids : orders[id] = "NONE" /\ ~Taken(id)
        /\ \A s \in Sockets : out[s] = << >>
    BY <2>1 DEF Init, Taken
  <2>3. ASSUME NEW id \in Ids PROVE Agree(id)
    BY <2>2 DEF Agree, Acked, Told, Behind, CancelOnWire, OnWire
  <2>4. QED
    BY <2>2, <2>3 DEF KnownInv, AgreeInv
<1>2. IInv /\ KnownInv /\ AgreeInv /\ [Next]_vars => (KnownInv /\ AgreeInv)'
  BY AgreeStep, KnownStep DEF IInv
<1>3. IInv /\ KnownInv /\ AgreeInv => BookMatchesTws
  BY QuietAgrees DEF IInv
<1>4. QED
  BY <1>1, <1>2, <1>3, Invariance, PTL DEF Spec
=============================================================================
