------------------------ MODULE MqttPublisher_proofs ------------------------
(***************************************************************************)
(* What holds of MqttPublisher, and of the telemetry of its sessions, for  *)
(* every number of clients and every capacity.                             *)
(***************************************************************************)
EXTENDS TelemetryOrder, SequenceTheorems, TLAPS

(* Sending and receiving keep a channel a channel.                         *)
LEMMA AppendMessage ==
    ASSUME NEW s \in Seq(Message), NEW m \in Message
    PROVE  Append(s, m) \in Seq(Message) /\ Len(Append(s, m)) = Len(s) + 1
  OBVIOUS

LEMMA TakeMessage ==
    ASSUME NEW s \in Seq(Message), s # <<>>
    PROVE  /\ Head(s) \in Message /\ Tail(s) \in Seq(Message)
           /\ Len(s) \in Nat /\ Len(s) >= 1 /\ Len(Tail(s)) = Len(s) - 1
  OBVIOUS

LEMMA NoMessages == <<>> \in Seq(Message) /\ Len(<<>>) = 0
  OBVIOUS

\* Whoever is about to publish has a publisher.
MainInv == pc # "start" => cur \in Client

PubType == TypeOK /\ MainInv

LEMMA CloseType ==
    ASSUME PubType, NEW C \in SUBSET Client, Close(C)
    PROVE  /\ net' \in [Client -> Seq(Message)]
           /\ \A c \in Client : Len(net'[c]) <= NetCapacity
           /\ dead' \in [Client -> BOOLEAN] /\ said' \in [Client -> Status]
           /\ retained' \in Status
  <1>1. \A c \in Client : net'[c] \in {<<>>, net[c]}
    BY DEF Close
  <1>2. net' \in [Client -> Seq(Message)]
    BY <1>1, NoMessages DEF PubType, TypeOK, Close
  <1>3. \A c \in Client : Len(net'[c]) <= NetCapacity
    BY <1>1, NoMessages, PublisherAssumption DEF PubType, TypeOK
  <1>4. dead' \in [Client -> BOOLEAN] /\ said' \in [Client -> Status] /\ retained' \in Status
    BY DEF PubType, TypeOK, Close, Will, Status
  <1> QED
    BY <1>2, <1>3, <1>4

LEMMA InitType == Init => PubType
  <1> SUFFICES ASSUME Init PROVE PubType
    OBVIOUS
  <1>1. chan \in [Client -> Seq(Message)] /\ net \in [Client -> Seq(Message)]
    BY NoMessages DEF Init
  <1>2. \A c \in Client : Len(chan[c]) <= Capacity /\ Len(net[c]) <= NetCapacity
    <2>1. \A c \in Client : chan[c] = <<>> /\ net[c] = <<>>
      BY DEF Init
    <2>2. Len(<<>>) <= Capacity /\ Len(<<>>) <= NetCapacity
      BY NoMessages, PublisherAssumption
    <2> QED
      BY <2>1, <2>2
  <1> QED
    BY <1>1, <1>2 DEF Init, PubType, TypeOK, MainInv, Message, Status, LoopStates

LEMMA StepType ==
    ASSUME PubType, [Next]_vars
    PROVE  PubType'
  <1> USE DEF PubType, TypeOK, MainInv, main, thread, broker
  <1>1. ASSUME NEW c \in Client, Connect(c)
        PROVE  PubType'
    <2>1. chan' \in [Client -> Seq(Message)] /\ \A d \in Client : Len(chan'[d]) <= Capacity
      BY <1>1, NoMessages, PublisherAssumption DEF Connect
    <2> QED
      BY <1>1, <2>1 DEF Connect, Message, LoopStates
  <1>2. CASE CheckHealthy
    BY <1>2 DEF CheckHealthy, AfterError, Message
  <1>3. CASE SendMessage
    <2>1. cur \in Client /\ chan[cur] \in Seq(Message) /\ Len(chan[cur]) \in Nat
      BY <1>3 DEF SendMessage
    <2>2. chan' \in [Client -> Seq(Message)] /\ \A d \in Client : Len(chan'[d]) <= Capacity
      BY <1>3, <2>1, AppendMessage, PublisherAssumption DEF SendMessage
    <2> QED
      BY <1>3, <2>1, <2>2 DEF SendMessage
  <1>4. CASE SendFails \/ PublishText \/ DropPublisher \/ SourceFails \/ BecomeCalm
    BY <1>4 DEF SendFails, AfterError, PublishText, DropPublisher, SourceFails, BecomeCalm, Message
  <1>5. ASSUME NEW c \in Client, Deliver(c)
        PROVE  PubType'
    <2>1. Head(net[c]) \in Message /\ net' \in [Client -> Seq(Message)]
          /\ \A d \in Client : Len(net'[d]) <= NetCapacity
      BY <1>5, TakeMessage, PublisherAssumption DEF Deliver
    <2>2. said' \in [Client -> Status] /\ retained' \in Status
      BY <1>5, <2>1 DEF Deliver, Message, Status
    <2> QED
      BY <1>5, <2>1, <2>2 DEF Deliver
  <1>6. ASSUME NEW c \in Client, GiveUp(c)
        PROVE  PubType'
    BY <1>6, CloseType DEF GiveUp
  <1>7. ASSUME NEW c \in Client, LoopConnects(c)
        PROVE  PubType'
    <2>1. TakenOver(c) \in SUBSET Client
      BY DEF TakenOver
    <2> QED
      BY <1>7, <2>1, CloseType DEF LoopConnects, LoopStates
  <1>8. ASSUME NEW c \in Client, Transmit(c)
        PROVE  PubType'
    <2>1. /\ chan' \in [Client -> Seq(Message)] /\ Head(chan[c]) \in Message
          /\ \A d \in Client : Len(chan'[d]) <= Capacity
      BY <1>8, TakeMessage, PublisherAssumption DEF Transmit
    <2>2. /\ net' \in [Client -> Seq(Message)]
          /\ \A d \in Client : Len(net'[d]) <= NetCapacity
      BY <1>8, <2>1, AppendMessage, PublisherAssumption DEF Transmit
    <2> QED
      BY <1>8, <2>1, <2>2 DEF Transmit
  <1>9. ASSUME NEW c \in Client,
               \/ LoopError(c) \/ ConnectionReset(c) \/ LoopDone(c)
               \/ StoreError(c) \/ ClearHealthy(c) \/ PathDies(c)
        PROVE  PubType'
    BY <1>9 DEF LoopError, ConnectionReset, LoopDone, StoreError, ClearHealthy, PathDies, LoopStates
  <1>10. ASSUME NEW c \in Client, ThreadEnds(c)
         PROVE  PubType'
    BY <1>10, NoMessages, PublisherAssumption DEF ThreadEnds, LoopStates
  <1>11. CASE UNCHANGED vars
    BY <1>11 DEF vars
  <1> QED
    BY <1>1, <1>2, <1>3, <1>4, <1>5, <1>6, <1>7, <1>8, <1>9, <1>10, <1>11
       DEF Next, Main, EventLoop, Broker

(* The channel never holds more than its capacity, the network no more     *)
(* than it takes, and everything else keeps its type.                      *)
THEOREM TypeCorrect == Spec => []TypeOK
  <1>1. PubType => TypeOK
    BY DEF PubType
  <1> QED
    BY <1>1, InitType, StepType, PTL DEF Spec
-----------------------------------------------------------------------------
(* The event loop stores the reason before it clears the flag.             *)
ReasonInv ==
    \A c \in Client : /\ ~healthy[c] => lastError[c]
                      /\ loop[c] = "noted" => lastError[c]

LEMMA StepReason ==
    ASSUME PubType, ReasonInv, [Next]_vars
    PROVE  ReasonInv'
  <1> USE DEF PubType, TypeOK, ReasonInv, main, thread
  <1>1. ASSUME NEW c \in Client, Connect(c) PROVE ReasonInv'
    BY <1>1 DEF Connect
  <1>2. ASSUME NEW c \in Client, LoopConnects(c) \/ LoopError(c) \/ ConnectionReset(c) \/ LoopDone(c)
        PROVE  ReasonInv'
    BY <1>2 DEF LoopConnects, LoopError, ConnectionReset, LoopDone
  <1>3. ASSUME NEW c \in Client, StoreError(c) \/ ClearHealthy(c) \/ ThreadEnds(c)
        PROVE  ReasonInv'
    BY <1>3 DEF StoreError, ClearHealthy, ThreadEnds
  <1>4. ASSUME UNCHANGED <<loop, healthy, lastError>>
        PROVE  ReasonInv'
    BY <1>4
  <1>5. CASE CheckHealthy \/ SendMessage \/ SendFails \/ PublishText \/ DropPublisher
             \/ SourceFails \/ BecomeCalm \/ UNCHANGED vars
    BY <1>4, <1>5 DEF CheckHealthy, SendMessage, SendFails, PublishText, DropPublisher,
                      SourceFails, BecomeCalm, vars
  <1>6. ASSUME NEW c \in Client, Deliver(c) \/ GiveUp(c) \/ Transmit(c) \/ PathDies(c)
        PROVE  ReasonInv'
    BY <1>4, <1>6 DEF Deliver, GiveUp, Transmit, PathDies
  <1> QED
    BY <1>1, <1>2, <1>3, <1>5, <1>6 DEF Next, Main, EventLoop, Broker

(* ensure_healthy never has to make up the reason of a failure.            *)
THEOREM UnhealthyHasReasonAlways == Spec => []UnhealthyHasReason
  <1>1. Init => ReasonInv
    BY DEF Init, ReasonInv
  <1>2. ReasonInv => UnhealthyHasReason
    BY DEF ReasonInv, UnhealthyHasReason
  <1> QED
    BY <1>1, <1>2, InitType, StepType, StepReason, PTL DEF Spec
-----------------------------------------------------------------------------
(* The broker holds one connection of the shared client id at most; only   *)
(* on a connection is anything said or under way.                          *)
ConnInv ==
    /\ \A c, d \in Client : conn[c] /\ conn[d] => c = d
    /\ \A c \in Client : ~conn[c] => said[c] = "none" /\ net[c] = <<>>
    /\ \A c \in Client : loop[c] = "connecting" => ~conn[c]

StatusInv == ConnInv /\ StatusMatchesConnection

(* A new connection ends every other one.                                  *)
LEMMA OneConnection ==
    ASSUME PubType, ConnInv, NEW c \in Client, LoopConnects(c)
    PROVE  /\ \A d \in Client : conn'[d] <=> d = c
           /\ \A d \in Client : d # c => said'[d] = "none" /\ net'[d] = <<>>
           /\ said'[c] = "none" /\ net'[c] = <<>>
           /\ retained' = IF \E d \in Client : conn[d] THEN "offline" ELSE retained
  BY DEF LoopConnects, Close, TakenOver, Will, PubType, TypeOK, ConnInv

LEMMA StepStatus ==
    ASSUME PubType, StatusInv, [Next]_vars
    PROVE  StatusInv'
  <1> USE DEF PubType, TypeOK, StatusInv, ConnInv, StatusMatchesConnection, main, thread, broker
  <1>1. ASSUME NEW c \in Client, Connect(c)
        PROVE  StatusInv'
    BY <1>1 DEF Connect
  <1>2. ASSUME NEW c \in Client, Deliver(c)
        PROVE  StatusInv'
    <2>1. /\ conn' = conn /\ loop' = loop /\ conn[c]
          /\ \A d \in Client : d # c => said'[d] = said[d] /\ net'[d] = net[d]
      BY <1>2 DEF Deliver
    <2>2. CASE Head(net[c]) = "data"
      BY <1>2, <2>1, <2>2 DEF Deliver
    <2>3. CASE Head(net[c]) # "data"
      <3>1. said'[c] = Head(net[c]) /\ retained' = Head(net[c])
        BY <1>2, <2>3 DEF Deliver
      <3> QED
        BY <2>1, <3>1
    <2> QED
      BY <2>2, <2>3
  <1>3. ASSUME NEW c \in Client, GiveUp(c)
        PROVE  StatusInv'
    <2>1. /\ \A d \in Client : conn'[d] => d # c /\ conn[d]
          /\ said'[c] = "none" /\ net'[c] = <<>> /\ retained' = "offline" /\ loop' = loop
          /\ \A d \in Client : d # c => said'[d] = said[d] /\ net'[d] = net[d]
                                        /\ conn'[d] = conn[d]
      BY <1>3 DEF GiveUp, Close, Will
    <2>2. \A d \in Client : ~conn'[d]
      BY <1>3, <2>1 DEF GiveUp
    <2> QED
      BY <2>1, <2>2
  <1>4. ASSUME NEW c \in Client, LoopConnects(c)
        PROVE  StatusInv'
    <2>1. loop'[c] = "connected" /\ \A d \in Client : d # c => loop'[d] = loop[d]
      BY <1>4 DEF LoopConnects
    <2>2. retained' # "online"
      BY <1>4, OneConnection
    <2> QED
      BY <1>4, <2>1, <2>2, OneConnection
  <1>5. ASSUME NEW c \in Client, Transmit(c)
        PROVE  StatusInv'
    BY <1>5 DEF Transmit
  <1>6. ASSUME NEW c \in Client,
               \/ LoopError(c) \/ ConnectionReset(c) \/ LoopDone(c)
               \/ StoreError(c) \/ ClearHealthy(c) \/ ThreadEnds(c) \/ PathDies(c)
        PROVE  StatusInv'
    BY <1>6 DEF LoopError, ConnectionReset, LoopDone, StoreError, ClearHealthy, ThreadEnds, PathDies
  <1>7. CASE CheckHealthy \/ SendMessage \/ SendFails \/ PublishText \/ DropPublisher
             \/ SourceFails \/ BecomeCalm \/ UNCHANGED vars
    <2>1. UNCHANGED <<loop, conn, net, said, retained>>
      BY <1>7 DEF CheckHealthy, SendMessage, SendFails, PublishText, DropPublisher,
                  SourceFails, BecomeCalm, vars
    <2> QED
      BY <2>1
  <1> QED
    BY <1>1, <1>2, <1>3, <1>4, <1>5, <1>6, <1>7 DEF Next, Main, EventLoop, Broker

LEMMA InitStatus == Init => StatusInv
  BY DEF Init, StatusInv, ConnInv, StatusMatchesConnection

(* The availability topic agrees with the connections of the broker, for   *)
(* any number of event loops left over from earlier sessions.              *)
THEOREM StatusMatchesConnectionAlways == Spec => []StatusMatchesConnection
  <1>1. StatusInv => StatusMatchesConnection
    BY DEF StatusInv
  <1> QED
    BY <1>1, InitType, InitStatus, StepType, StepStatus, PTL DEF Spec
-----------------------------------------------------------------------------
(* Sessions at the broker.                                                 *)
ovars == <<vars, history>>

\* Messages of c that may still get to the broker, and those that did.
InFlight(c) == Len(net[c]) + Len(chan[c])
Remaining(c) == delivered[c] + InFlight(c)

(* A superseded session has no publisher that could add to its channel;    *)
(* it is still connecting, or is cut off, or has nothing but what it had   *)
(* in its channel when it connected, which is no telemetry.                *)
OrderInv ==
    /\ PubType /\ StatusInv /\ HistoryTypeOK
    /\ \A c \in Client : younger[c] # {} => cur # c
    /\ \A c \in Client : c \notin younger[c]
    /\ \A c \in superseded : younger[c] # {}
    /\ \A c \in Client : loop[c] = "connecting" => delivered[c] = 0
    /\ \A c \in superseded :
          conn[c] \/ loop[c] = "connecting" => Remaining(c) <= Capacity

LEMMA InitOrder == OInit => OrderInv
  BY InitType, InitStatus, DiscoveryFillsChannel DEF OInit, OrderInv, HistoryTypeOK, Remaining

LEMMA OrderedStep == ONext => Next
  BY DEF ONext, BeginSession, Receive, Next, Main, Broker

LEMMA Lengths ==
    /\ \A l, m \in Nat : m + 0 <= m + l /\ 0 + m <= l + m
    /\ \A l, m \in Nat : l >= 1 => (l - 1) + m = (l + m) - 1
    /\ \A l, m \in Nat : l >= 1 => (m + 1) + (l - 1) <= m + l /\ m + (l - 1) <= m + l
  OBVIOUS

LEMMA SumNat == \A m, n \in Nat : m + n \in Nat
  OBVIOUS

LEMMA InFlightNat == PubType => \A c \in Client : InFlight(c) \in Nat
  <1> SUFFICES ASSUME PubType, NEW c \in Client PROVE InFlight(c) \in Nat
    OBVIOUS
  <1>1. Len(net[c]) \in Nat /\ Len(chan[c]) \in Nat
    BY DEF PubType, TypeOK
  <1> QED
    BY <1>1, SumNat, Zenon DEF InFlight

(* A step that lets no message in, or cuts the session off, keeps the      *)
(* bound of a superseded session.                                          *)
LEMMA NothingAdded ==
    ASSUME OrderInv, PubType', StatusInv',
           UNCHANGED history, \A c \in Client : cur' = c => cur = c,
           \A c \in Client : loop'[c] = "connecting" => loop[c] = "connecting",
           \A c \in superseded : conn'[c] \/ loop'[c] = "connecting" =>
              (conn[c] \/ loop[c] = "connecting") /\ InFlight(c)' <= InFlight(c)
    PROVE  OrderInv'
  <1>1. ASSUME NEW c \in superseded, conn'[c] \/ loop'[c] = "connecting"
        PROVE  Remaining(c)' <= Capacity
    <2>1. c \in Client
      BY DEF OrderInv, HistoryTypeOK
    <2>2. Remaining(c) <= Capacity /\ InFlight(c)' <= InFlight(c)
      BY <1>1 DEF OrderInv
    <2>3. InFlight(c) \in Nat /\ InFlight(c)' \in Nat
      <3>1. Len(net'[c]) \in Nat /\ Len(chan'[c]) \in Nat
        BY <2>1 DEF PubType, TypeOK
      <3>2. InFlight(c)' \in Nat
        BY <3>1, SumNat, Zenon DEF InFlight
      <3> QED
        BY <2>1, <3>2, InFlightNat DEF OrderInv
    <2>4. delivered[c] \in Nat /\ delivered'[c] = delivered[c] /\ Capacity \in Nat
      BY <2>1, PublisherAssumption, DiscoveryFillsChannel DEF OrderInv, HistoryTypeOK, history
    <2> QED
      BY <2>2, <2>3, <2>4 DEF Remaining
  <1> QED
    BY <1>1 DEF OrderInv, HistoryTypeOK, history

LEMMA StepOrder ==
    ASSUME OrderInv, [ONext]_ovars
    PROVE  OrderInv'
  <1>1. PubType' /\ StatusInv'
    BY OrderedStep, StepType, StepStatus DEF OrderInv, ovars
  <1>2. \A c \in Client : /\ Len(net[c]) \in Nat /\ Len(chan[c]) \in Nat
                          /\ InFlight(c) \in Nat /\ Len(chan[c]) <= Capacity
    BY InFlightNat DEF OrderInv, PubType, TypeOK
  <1>3. ASSUME NEW c \in Client, BeginSession(c)
        PROVE  OrderInv'
    <2>1. /\ cur' = c /\ net' = net /\ conn' = conn
          /\ \A d \in Client : d # c => loop'[d] = loop[d] /\ chan'[d] = chan[d]
          /\ \A d \in Client : d # c => delivered'[d] = delivered[d]
          /\ delivered'[c] = 0
          /\ \A d \in Client : d # c => younger'[d] = younger[d] \cup {c}
          /\ younger'[c] = {} /\ superseded' = superseded \ {c}
      BY <1>3 DEF BeginSession, Connect, OrderInv, PubType, TypeOK, HistoryTypeOK, broker
    <2>2. HistoryTypeOK'
      BY <1>3, DiscoveryFillsChannel DEF BeginSession, OrderInv, HistoryTypeOK
    <2>3. \A d \in superseded' : /\ d \in superseded /\ d # c /\ d \in Client
                                 /\ Remaining(d)' = Remaining(d)
      BY <2>1 DEF Remaining, InFlight, OrderInv, HistoryTypeOK
    <2>4. \A d \in superseded' : conn'[d] \/ loop'[d] = "connecting" => Remaining(d)' <= Capacity
      BY <2>1, <2>3 DEF OrderInv
    <2>5. \A d \in Client : loop'[d] = "connecting" => delivered'[d] = 0
      BY <2>1 DEF OrderInv
    <2>6. \A d \in Client : (younger'[d] # {} => cur' # d) /\ d \notin younger'[d]
      BY <2>1 DEF OrderInv
    <2>7. \A d \in superseded' : younger'[d] # {}
      BY <2>1, <2>3
    <2> QED
      BY <1>1, <2>2, <2>4, <2>5, <2>6, <2>7 DEF OrderInv
  <1>4. ASSUME NEW c \in Client, Receive(c)
        PROVE  OrderInv'
    <2>1. /\ conn[c] /\ UNCHANGED <<cur, loop, chan, conn, younger>>
          /\ net[c] # <<>> /\ net' = [net EXCEPT ![c] = Tail(@)]
      BY <1>4 DEF Receive, Deliver, main, thread
    <2>2. /\ Len(net[c]) >= 1 /\ Len(net'[c]) = Len(net[c]) - 1
          /\ \A d \in Client : d # c => net'[d] = net[d]
      BY <2>1, TakeMessage DEF OrderInv, PubType, TypeOK
    <2>3. /\ delivered' \in [Client -> 0..Discovery]
          /\ delivered'[c] \in {delivered[c], delivered[c] + 1}
          /\ \A d \in Client : d # c => delivered'[d] = delivered[d]
      BY <1>4, DiscoveryFillsChannel DEF Receive, OrderInv, HistoryTypeOK
    <2>4. HistoryTypeOK'
      BY <1>4, <2>1, <2>3 DEF Receive, OrderInv, HistoryTypeOK
    <2>5. \A d \in Client : d # c => Remaining(d)' = Remaining(d)
      BY <2>1, <2>2, <2>3 DEF Remaining, InFlight
    <2>6. Remaining(c) <= Capacity => Remaining(c)' <= Capacity
      <3>1. InFlight(c)' = InFlight(c) - 1
        <4>1. Len(chan'[c]) = Len(chan[c]) /\ Len(net'[c]) = Len(net[c]) - 1
          BY <2>1, <2>2
        <4>2. (Len(net[c]) - 1) + Len(chan[c]) = (Len(net[c]) + Len(chan[c])) - 1
          BY <1>2, <2>2, Lengths, Zenon
        <4> QED
          BY <4>1, <4>2, Zenon DEF InFlight
      <3>2. delivered[c] \in Nat /\ delivered'[c] \in Nat /\ Capacity \in Nat
        BY <2>3, PublisherAssumption, DiscoveryFillsChannel DEF OrderInv, HistoryTypeOK
      <3> QED
        BY <1>2, <2>3, <3>1, <3>2 DEF Remaining
    <2>7. \A d \in superseded' : /\ younger'[d] # {}
                                 /\ d \in superseded \/ (~conn[d] /\ d # c)
      BY <1>4, <2>1 DEF Receive, OrderInv, StatusInv, ConnInv
    <2>8. ASSUME NEW d \in superseded', conn'[d] \/ loop'[d] = "connecting"
          PROVE  Remaining(d)' <= Capacity
      <3>1. d \in Client
        BY <2>4 DEF HistoryTypeOK
      <3>2. CASE d \in superseded
        BY <2>1, <2>5, <2>6, <2>8, <3>1, <3>2 DEF OrderInv
      <3>3. CASE ~conn[d] /\ d # c
        <4>1. loop[d] = "connecting" /\ delivered[d] = 0 /\ Len(net[d]) = 0
          BY <2>1, <2>8, <3>1, <3>3, NoMessages DEF OrderInv, StatusInv, ConnInv
        <4>2. 0 + Len(chan[d]) = Len(chan[d]) /\ Len(chan[d]) <= Capacity
          BY <1>2, <3>1
        <4>3. InFlight(d) = Len(chan[d])
          BY <4>1, <4>2, Zenon DEF InFlight
        <4> QED
          BY <2>5, <3>1, <3>3, <4>1, <4>2, <4>3, Zenon DEF Remaining
      <3> QED
        BY <2>7, <3>2, <3>3
    <2>9. \A d \in Client : loop'[d] = "connecting" => delivered'[d] = 0
      BY <2>1, <2>3 DEF OrderInv, StatusInv, ConnInv
    <2> QED
      BY <1>1, <2>1, <2>4, <2>7, <2>8, <2>9 DEF OrderInv
  <1>5. ASSUME NEW c \in Client, Transmit(c) \/ ThreadEnds(c), UNCHANGED history
        PROVE  OrderInv'
    <2>1. UNCHANGED <<cur, conn>> /\ \A d \in Client : loop'[d] = "connecting" => loop[d] = "connecting"
      BY <1>5 DEF Transmit, ThreadEnds, main, broker, OrderInv, PubType, TypeOK
    <2>2. \A d \in Client : d # c => net'[d] = net[d] /\ chan'[d] = chan[d]
      BY <1>5 DEF Transmit, ThreadEnds, broker, OrderInv, PubType, TypeOK
    <2>3. InFlight(c)' <= InFlight(c)
      <3>1. CASE ThreadEnds(c)
        <4>1. net'[c] = net[c] /\ Len(chan'[c]) = 0
          BY <3>1, NoMessages DEF ThreadEnds, broker, OrderInv, PubType, TypeOK
        <4>2. Len(net[c]) + 0 <= Len(net[c]) + Len(chan[c])
          BY <1>2, Lengths, Zenon
        <4> QED
          BY <4>1, <4>2, Zenon DEF InFlight
      <3>2. CASE Transmit(c)
        <4>1. chan[c] # <<>> /\ chan'[c] = Tail(chan[c])
              /\ net'[c] = IF conn[c] THEN Append(net[c], Head(chan[c])) ELSE net[c]
          BY <3>2 DEF Transmit, OrderInv, PubType, TypeOK
        <4>2. Len(chan[c]) >= 1 /\ Len(chan'[c]) = Len(chan[c]) - 1 /\ Head(chan[c]) \in Message
          BY <4>1, TakeMessage DEF OrderInv, PubType, TypeOK
        <4>3. Len(net'[c]) = Len(net[c]) + 1 \/ Len(net'[c]) = Len(net[c])
          BY <4>1, <4>2, AppendMessage DEF OrderInv, PubType, TypeOK
        <4>4. /\ (Len(net[c]) + 1) + (Len(chan[c]) - 1) <= Len(net[c]) + Len(chan[c])
              /\ Len(net[c]) + (Len(chan[c]) - 1) <= Len(net[c]) + Len(chan[c])
          BY <1>2, <4>2, Lengths, Zenon
        <4>5. CASE Len(net'[c]) = Len(net[c]) + 1
          BY <4>2, <4>4, <4>5, Zenon DEF InFlight
        <4>6. CASE Len(net'[c]) = Len(net[c])
          BY <4>2, <4>4, <4>6, Zenon DEF InFlight
        <4> QED
          BY <4>3, <4>5, <4>6
      <3> QED
        BY <1>5, <3>1, <3>2
    <2>4. \A d \in Client : InFlight(d)' <= InFlight(d)
      <3>1. \A d \in Client : d # c => InFlight(d)' = InFlight(d)
        BY <2>2 DEF InFlight
      <3> QED
        BY <1>2, <2>3, <3>1
    <2> QED
      BY <1>1, <1>5, <2>1, <2>4, NothingAdded DEF OrderInv, HistoryTypeOK
  <1>6. ASSUME NEW c \in Client, GiveUp(c) \/ LoopConnects(c), UNCHANGED history
        PROVE  OrderInv'
    <2>1. /\ UNCHANGED <<cur, chan>>
          /\ \A d \in Client : loop'[d] = "connecting" => loop[d] = "connecting"
          /\ \A d \in Client : conn'[d] => conn[d] \/ loop[d] = "connecting"
          /\ \A d \in Client : net'[d] \in {<<>>, net[d]}
      BY <1>6 DEF GiveUp, LoopConnects, Close, main, thread, OrderInv, PubType, TypeOK
    <2>2. \A d \in Client : InFlight(d)' <= InFlight(d)
      <3> SUFFICES ASSUME NEW d \in Client PROVE InFlight(d)' <= InFlight(d)
        OBVIOUS
      <3>1. CASE net'[d] = net[d]
        <4>1. InFlight(d)' = InFlight(d)
          BY <2>1, <3>1 DEF InFlight
        <4> QED
          BY <1>2, <4>1
      <3>2. CASE net'[d] = <<>>
        <4>1. Len(net'[d]) = 0 /\ chan'[d] = chan[d]
          BY <2>1, <3>2, NoMessages
        <4>2. 0 + Len(chan[d]) <= Len(net[d]) + Len(chan[d])
          BY <1>2, Lengths, Zenon
        <4> QED
          BY <4>1, <4>2, Zenon DEF InFlight
      <3> QED
        BY <2>1, <3>1, <3>2
    <2> QED
      BY <1>1, <1>6, <2>1, <2>2, NothingAdded DEF OrderInv, HistoryTypeOK
  <1>7. ASSUME UNCHANGED <<history, conn, net>>,
               \A c \in Client : cur' = c => cur = c,
               \A c \in Client : loop'[c] = "connecting" => loop[c] = "connecting",
               \A c \in Client : c # cur => chan'[c] = chan[c]
        PROVE  OrderInv'
    <2>1. \A c \in superseded : c \in Client /\ c # cur
      BY DEF OrderInv, HistoryTypeOK
    <2>2. \A c \in superseded : InFlight(c)' <= InFlight(c)
      <3>1. \A c \in superseded : InFlight(c)' = InFlight(c)
        BY <1>7, <2>1 DEF InFlight
      <3> QED
        BY <1>2, <2>1, <3>1
    <2> QED
      BY <1>1, <1>7, <2>1, <2>2, NothingAdded
  <1>8. ASSUME NEW c \in Client, UNCHANGED history,
               \/ LoopError(c) \/ LoopDone(c) \/ ConnectionReset(c)
               \/ StoreError(c) \/ ClearHealthy(c) \/ PathDies(c)
        PROVE  OrderInv'
    BY <1>7, <1>8 DEF LoopError, LoopDone, ConnectionReset, StoreError, ClearHealthy,
       PathDies, main, thread, broker, OrderInv, PubType, TypeOK
  <1>9. ASSUME UNCHANGED history,
               \/ CheckHealthy \/ SendMessage \/ SendFails \/ PublishText
               \/ DropPublisher \/ SourceFails \/ BecomeCalm
        PROVE  OrderInv'
    BY <1>7, <1>9, PublisherAssumption
       DEF CheckHealthy, SendMessage, SendFails, PublishText, DropPublisher, SourceFails,
           BecomeCalm, main, thread, broker, OrderInv, PubType, TypeOK
  <1>10. CASE UNCHANGED ovars
    BY <1>7, <1>10 DEF ovars, vars, history, main, thread, broker
  <1> QED
    BY <1>3, <1>4, <1>5, <1>6, <1>8, <1>9, <1>10 DEF ONext, EventLoop

(* Telemetry of a session never reaches the broker after that of a younger *)
(* one, as long as a session's discovery fills the channel.                *)
THEOREM TelemetryInOrderAlways == OSpec => TelemetryInOrder
  <1>1. ASSUME OrderInv, NEW c \in Client, Receive(c), Telemetry(c)
        PROVE  c \notin superseded
    <2> SUFFICES ASSUME c \in superseded PROVE FALSE
      OBVIOUS
    <2>1. conn[c] /\ net[c] # <<>> /\ delivered[c] = Discovery
      BY <1>1 DEF Receive, Deliver, Telemetry
    <2>2. Remaining(c) <= Capacity
      BY <1>1, <2>1 DEF OrderInv
    <2>3. Len(net[c]) >= 1 /\ Len(net[c]) \in Nat /\ Len(chan[c]) \in Nat
      BY <1>1, <2>1, TakeMessage DEF OrderInv, PubType, TypeOK
    <2>4. InFlight(c) >= 1 /\ InFlight(c) \in Nat
      <3>1. \A m, n \in Nat : m >= 1 => m + n >= 1 /\ m + n \in Nat
        OBVIOUS
      <3> QED
        BY <2>3, <3>1, Zenon DEF InFlight
    <2> QED
      BY <2>1, <2>2, <2>4, PublisherAssumption, DiscoveryFillsChannel DEF Remaining
  <1>2. OrderInv /\ [ONext]_ovars =>
           [\A c \in Client : Receive(c) /\ Telemetry(c) => c \notin superseded]_ovars
    BY <1>1
  <1>3. OSpec => OInit /\ [][ONext]_ovars
    BY DEF OSpec, ovars
  <1>4. ([][\A c \in Client : Receive(c) /\ Telemetry(c) => c \notin superseded]_ovars)
           => TelemetryInOrder
    BY DEF TelemetryInOrder, ovars
  <1> QED
    BY <1>2, <1>3, <1>4, InitOrder, StepOrder, PTL
-----------------------------------------------------------------------------
\* The steps that event loop c has before it, apart from its messages.
StepsLeft(at) ==
    CASE at = "connecting" -> 5
      [] at = "connected"  -> 4
      [] at = "broken"     -> 3
      [] at = "noted"      -> 2
      [] at = "unhealthy"  -> 1
      [] at = "none"       -> 0

ToEnd(c) == StepsLeft(loop[c]) + Len(chan[c])

LEMMA StepsLeftIs ==
    /\ StepsLeft("connecting") = 5 /\ StepsLeft("connected") = 4 /\ StepsLeft("broken") = 3
    /\ StepsLeft("noted") = 2 /\ StepsLeft("unhealthy") = 1 /\ StepsLeft("none") = 0
    /\ \A at \in LoopStates : StepsLeft(at) \in Nat
  BY DEF StepsLeft, LoopStates

LEMMA ToEndNat ==
    ASSUME PubType, NEW c \in Client
    PROVE  /\ StepsLeft(loop[c]) \in Nat /\ Len(chan[c]) \in Nat /\ ToEnd(c) \in Nat
           /\ chan[c] \in Seq(Message) /\ loop[c] \in LoopStates
  <1>1. chan[c] \in Seq(Message) /\ loop[c] \in LoopStates
    BY DEF PubType, TypeOK
  <1>2. Len(chan[c]) \in Nat /\ StepsLeft(loop[c]) \in Nat
    BY <1>1, StepsLeftIs
  <1> QED
    BY <1>1, <1>2 DEF ToEnd

\* Every step of an event loop is one of those it has before it.
LEMMA LoopStep ==
    ASSUME PubType, NEW c \in Client, EventLoop(c)
    PROVE  ToEnd(c)' < ToEnd(c)
  <1>1. Len(chan[c]) \in Nat /\ chan[c] \in Seq(Message)
    BY ToEndNat
  <1>2. c \in DOMAIN loop /\ c \in DOMAIN chan
    BY DEF PubType, TypeOK
  <1> DEFINE n == Len(chan[c])
             m == Len(chan'[c])
  <1>3. CASE Transmit(c)
    <2>1. chan'[c] = Tail(chan[c]) /\ chan[c] # <<>> /\ loop' = loop /\ loop[c] = "connected"
      BY <1>2, <1>3 DEF Transmit
    <2>2. n \in Nat /\ m = n - 1
      BY <1>1, <2>1, TakeMessage
    <2>3. ToEnd(c) = 4 + n /\ ToEnd(c)' = 4 + m
      BY <2>1, StepsLeftIs DEF ToEnd
    <2> HIDE DEF n, m
    <2> QED
      BY <2>2, <2>3
  <1>4. CASE ThreadEnds(c)
    <2>1. chan'[c] = <<>> /\ loop[c] = "unhealthy" /\ loop'[c] = "none"
      BY <1>2, <1>4 DEF ThreadEnds
    <2>2. m = 0 /\ n \in Nat
      BY <1>1, <2>1, NoMessages
    <2>3. ToEnd(c) = 1 + n /\ ToEnd(c)' = 0 + m
      BY <2>1, StepsLeftIs DEF ToEnd
    <2> HIDE DEF n, m
    <2> QED
      BY <2>2, <2>3
  <1>5. CASE LoopConnects(c) \/ LoopError(c) \/ LoopDone(c) \/ StoreError(c) \/ ClearHealthy(c)
    <2>1. /\ chan' = chan
          /\ \/ loop[c] = "connecting" /\ loop'[c] = "connected"
             \/ loop[c] \in {"connecting", "connected"} /\ loop'[c] = "broken"
             \/ loop[c] = "broken" /\ loop'[c] = "noted"
             \/ loop[c] = "noted" /\ loop'[c] = "unhealthy"
      BY <1>2, <1>5 DEF LoopConnects, LoopError, LoopDone, StoreError, ClearHealthy
    <2>2. /\ StepsLeft(loop'[c]) \in Nat /\ StepsLeft(loop[c]) \in Nat
          /\ StepsLeft(loop'[c]) < StepsLeft(loop[c])
      BY <2>1, StepsLeftIs
    <2>3. ToEnd(c) = StepsLeft(loop[c]) + n /\ ToEnd(c)' = StepsLeft(loop'[c]) + n /\ n \in Nat
      BY <1>1, <2>1 DEF ToEnd
    <2> HIDE DEF n
    <2> QED
      BY <2>2, <2>3
  <1> QED
    BY <1>3, <1>4, <1>5 DEF EventLoop

\* What others do does not give the loop of a dropped publisher more to do.
LEMMA OthersStep ==
    ASSUME PubType, Next, NEW c \in Client, cur # c, cur' # c, ~EventLoop(c)
    PROVE  ToEnd(c)' <= ToEnd(c)
  <1>1. ToEnd(c) \in Nat
    BY ToEndNat
  <1>2. c \in DOMAIN loop /\ c \in DOMAIN chan
    BY DEF PubType, TypeOK
  <1>3. CASE ConnectionReset(c)
    <2>1. loop[c] = "connected" /\ loop'[c] = "broken" /\ chan' = chan
      BY <1>2, <1>3 DEF ConnectionReset
    <2>2. ToEnd(c) = 4 + Len(chan[c]) /\ ToEnd(c)' = 3 + Len(chan[c])
      BY <2>1, StepsLeftIs DEF ToEnd
    <2>3. Len(chan[c]) \in Nat
      BY ToEndNat
    <2> QED
      BY <2>2, <2>3
  <1>4. CASE ~ConnectionReset(c)
    <2>1. loop'[c] = loop[c] /\ chan'[c] = chan[c]
      <3>1. ASSUME NEW d \in Client, Connect(d) PROVE loop'[c] = loop[c] /\ chan'[c] = chan[c]
        BY <1>2, <3>1 DEF Connect
      <3>2. CASE SendMessage
        BY <1>2, <3>2 DEF SendMessage
      <3>3. ASSUME NEW d \in Client \ {c}, EventLoop(d) \/ ConnectionReset(d)
            PROVE  loop'[c] = loop[c] /\ chan'[c] = chan[c]
        BY <1>2, <3>3 DEF EventLoop, LoopConnects, Transmit, LoopError, LoopDone, StoreError,
                          ClearHealthy, ThreadEnds, ConnectionReset
      <3>4. CASE UNCHANGED thread
        BY <3>4 DEF thread
      <3>5. ASSUME NEW d \in Client, Broker(d) \/ PathDies(d) PROVE UNCHANGED thread
        BY <3>5 DEF Broker, Deliver, GiveUp, PathDies
      <3>6. CASE CheckHealthy \/ SendFails \/ PublishText \/ DropPublisher \/ SourceFails
                 \/ BecomeCalm
        BY <3>4, <3>6 DEF CheckHealthy, SendFails, PublishText, DropPublisher, SourceFails,
                          BecomeCalm
      <3> QED
        BY <1>4, <3>1, <3>2, <3>3, <3>4, <3>5, <3>6 DEF Next, Main
    <2>2. ToEnd(c)' = ToEnd(c)
      BY <2>1 DEF ToEnd
    <2> QED
      BY <1>1, <2>2
  <1> QED
    BY <1>3, <1>4

(* Once its publisher is dropped, an event loop runs down: each step of    *)
(* its own is one fewer to its end, and nobody gives it a message or a new *)
(* connection (MqttPublisher::connect, whose thread does not reconnect).   *)
THEOREM LoopsRunDown ==
    Spec => /\ []\A c \in Client : ToEnd(c) \in Nat
            /\ [][\A c \in Client : cur # c /\ cur' # c =>
                     /\ ToEnd(c)' <= ToEnd(c)
                     /\ EventLoop(c) => ToEnd(c)' < ToEnd(c)]_vars
  <1>1. PubType => \A c \in Client : ToEnd(c) \in Nat
    BY ToEndNat
  <1>2. ASSUME PubType, [Next]_vars, PubType'
        PROVE  [\A c \in Client : cur # c /\ cur' # c =>
                     /\ ToEnd(c)' <= ToEnd(c)
                     /\ EventLoop(c) => ToEnd(c)' < ToEnd(c)]_vars
    <2> SUFFICES ASSUME Next, NEW c \in Client, cur # c, cur' # c
                 PROVE  /\ ToEnd(c)' <= ToEnd(c)
                        /\ EventLoop(c) => ToEnd(c)' < ToEnd(c)
      BY <1>2
    <2>1. CASE EventLoop(c)
      <3>1. ToEnd(c)' < ToEnd(c)
        BY <1>2, <2>1, LoopStep
      <3>2. ToEnd(c) \in Nat /\ ToEnd(c)' \in Nat
        <4>1. chan'[c] \in Seq(Message) /\ loop'[c] \in LoopStates
          BY <1>2 DEF PubType, TypeOK
        <4>2. Len(chan'[c]) \in Nat /\ StepsLeft(loop'[c]) \in Nat
          BY <4>1, StepsLeftIs
        <4> QED
          BY <1>2, <4>2, ToEndNat DEF ToEnd
      <3> QED
        BY <3>1, <3>2
    <2>2. CASE ~EventLoop(c)
      BY <1>2, <2>2, OthersStep
    <2> QED
      BY <2>1, <2>2
  <1> QED
    BY <1>1, <1>2, InitType, StepType, PTL DEF Spec
=============================================================================
