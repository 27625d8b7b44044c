--------------------------- MODULE MqttPublisher ---------------------------
(***************************************************************************)
(* MqttPublisher of the Rust adapter (mqtt.rs): the main thread, which     *)
(* hands messages to a bounded request channel, and one event-loop thread  *)
(* per publisher, which owns the connection to the broker.  They share the *)
(* channel, the flag `healthy' and the text `last_error'.  A publisher     *)
(* lasts for one session; its event loop may outlive it, so that several   *)
(* loops, all with the same MQTT client id, can be at the broker's door.   *)
(*                                                                         *)
(* The rumqttc library, the network and the broker are external: the loop  *)
(* ends without a DISCONNECT packet, so the broker publishes the last      *)
(* will of every connection it gives up, and a second connection with the  *)
(* same client id takes over from the first.                               *)
(***************************************************************************)
EXTENDS Naturals, Sequences

CONSTANTS
    Client,        \* publishers and their loops; reused when one is gone, so
                   \* its size bounds how many loops may overlap
    Capacity,      \* of the request channel (MQTT_REQUEST_CAPACITY)
    NetCapacity,   \* messages a connection holds before the sender stalls
    NoClient

ASSUME PublisherAssumption ==
    /\ Capacity \in Nat \ {0} /\ NetCapacity \in Nat \ {0}
    /\ NoClient \notin Client

VARIABLES
    pc,         \* the main thread: "start", "check", "send", "run", "drop"
    msg,        \* the message at hand: "online", "offline" or "data"
    cur,        \* the publisher of the session, or NoClient
    loop,       \* where each event-loop thread is
    healthy,    \* MqttPublisher.healthy
    lastError,  \* is MqttPublisher.last_error set?
    chan,       \* the request channel
    conn,       \* does the broker hold a connection of this client?
    net,        \* what was sent on it and has not reached the broker
    dead,       \* is the path dead without either end knowing?
    said,       \* the status the broker last got on this connection
    retained,   \* the retained message on the availability topic
    calm        \* have the faults stopped for good?

main == <<pc, msg, cur>>
thread == <<loop, healthy, lastError, chan>>
broker == <<conn, net, dead, said, retained>>
vars == <<main, thread, broker, calm>>

Message == {"online", "offline", "data"}
Status == {"none", "online", "offline"}
LoopStates == {"none", "connecting", "connected", "broken", "noted", "unhealthy"}

\* The receiver of the channel lives as long as the thread does.
\* Mutant: the publisher keeps the receiver, say to read notifications.
ReceiverKept(c) == TRUE
ReceiverAlive(c) == loop[c] # "none"

\* Is the sending half of the channel still open?
\* Mutant: the event-loop thread holds a clone of the client.
SenderCloned(c) == TRUE
SenderOpen(c) == cur = c

TypeOK ==
    /\ pc \in {"start", "check", "send", "run", "drop"}
    /\ msg \in Message
    /\ cur \in Client \cup {NoClient}
    /\ loop \in [Client -> LoopStates]
    /\ healthy \in [Client -> BOOLEAN]
    /\ lastError \in [Client -> BOOLEAN]
    /\ chan \in [Client -> Seq(Message)] /\ \A c \in Client : Len(chan[c]) <= Capacity
    /\ net \in [Client -> Seq(Message)] /\ \A c \in Client : Len(net[c]) <= NetCapacity
    /\ conn \in [Client -> BOOLEAN]
    /\ dead \in [Client -> BOOLEAN]
    /\ said \in [Client -> Status]
    /\ retained \in Status
    /\ calm \in BOOLEAN

Init ==
    /\ pc = "start" /\ msg = "online" /\ cur = NoClient
    /\ loop = [c \in Client |-> "none"]
    /\ healthy = [c \in Client |-> TRUE]
    /\ lastError = [c \in Client |-> FALSE]
    /\ chan = [c \in Client |-> <<>>]
    /\ conn = [c \in Client |-> FALSE]
    /\ net = [c \in Client |-> <<>>]
    /\ dead = [c \in Client |-> FALSE]
    /\ said = [c \in Client |-> "none"]
    /\ retained = "none"
    /\ calm = FALSE

-----------------------------------------------------------------------------
(* The main thread.                                                        *)

\* MqttPublisher::connect: client, thread, and "online" to be published.
Connect(c) ==
    /\ pc = "start"
    /\ loop[c] = "none" /\ ~conn[c]
    /\ cur' = c /\ msg' = "online" /\ pc' = "check"
    /\ loop' = [loop EXCEPT ![c] = "connecting"]
    /\ healthy' = [healthy EXCEPT ![c] = TRUE]
    /\ lastError' = [lastError EXCEPT ![c] = FALSE]
    /\ chan' = [chan EXCEPT ![c] = <<>>]
    /\ UNCHANGED <<broker, calm>>

\* What follows an error: connect gives up at once, a session says "offline".
AfterError ==
    IF msg = "data" THEN msg' = "offline" /\ pc' = "send"
                    ELSE msg' = msg /\ pc' = "drop"

\* ensure_healthy at the start of publish_text.
CheckHealthy ==
    /\ pc = "check"
    /\ IF healthy[cur] THEN pc' = "send" /\ msg' = msg ELSE AfterError
    /\ UNCHANGED <<cur, thread, broker, calm>>

\* client.publish waits for room in the channel, or fails if nobody reads it.
SendMessage ==
    /\ pc = "send"
    /\ ReceiverAlive(cur) /\ Len(chan[cur]) < Capacity
    /\ chan' = [chan EXCEPT ![cur] = Append(@, msg)]
    /\ pc' = IF msg = "offline" THEN "drop" ELSE "run"
    /\ UNCHANGED <<msg, cur, loop, healthy, lastError, broker, calm>>

SendFails ==
    /\ pc = "send"
    /\ ~ReceiverAlive(cur)
    /\ AfterError
    /\ UNCHANGED <<cur, thread, broker, calm>>

\* The session publishes its next message.
PublishText ==
    /\ pc = "run"
    /\ pc' = "check" /\ msg' = "data"
    /\ UNCHANGED <<cur, thread, broker, calm>>

\* The session fails on the side of the batteries: publish_offline_best_effort.
SourceFails ==
    /\ ~calm /\ pc = "run"
    /\ pc' = "send" /\ msg' = "offline"
    /\ UNCHANGED <<cur, thread, broker, calm>>

\* The publisher is dropped, and with it the sending half of the channel.
DropPublisher ==
    /\ pc = "drop"
    /\ pc' = "start" /\ cur' = NoClient /\ msg' = "online"
    /\ UNCHANGED <<thread, broker, calm>>

Main ==
    \/ \E c \in Client : Connect(c)
    \/ CheckHealthy \/ SendMessage \/ SendFails \/ PublishText \/ DropPublisher

-----------------------------------------------------------------------------
(* The broker, as far as the availability topic is concerned.              *)

\* Mutant: the last will is not a retained message.
WillNotRetained(status) == status

\* What the last will of a connection makes of the retained status.
Will(status) == "offline"

\* The broker gives up the connections in C, and publishes their wills.
Close(C) ==
    /\ net' = [c \in Client |-> IF c \in C THEN <<>> ELSE net[c]]
    /\ dead' = [c \in Client |-> IF c \in C THEN FALSE ELSE dead[c]]
    /\ said' = [c \in Client |-> IF c \in C THEN "none" ELSE said[c]]
    /\ retained' = IF C = {} THEN retained ELSE Will(retained)

\* Mutant: every publisher has a client id of its own.
TakenOverByNone(c) == {}

\* The connections that end when client c connects: all share one client id.
TakenOver(c) == {d \in Client \ {c} : conn[d]}

\* The broker reads the next message of a connection.
Deliver(c) ==
    /\ conn[c] /\ ~dead[c] /\ net[c] # <<>>
    /\ net' = [net EXCEPT ![c] = Tail(@)]
    /\ IF Head(net[c]) = "data"
          THEN UNCHANGED <<said, retained>>
          ELSE /\ said' = [said EXCEPT ![c] = Head(net[c])]
               /\ retained' = Head(net[c])
    /\ UNCHANGED <<main, thread, conn, dead, calm>>

\* The other end is gone, or has been silent for too long.
GiveUp(c) ==
    /\ conn[c]
    /\ loop[c] # "connected" \/ dead[c]
    /\ conn' = [conn EXCEPT ![c] = FALSE]
    /\ Close({c})
    /\ UNCHANGED <<main, thread, calm>>

Broker(c) == Deliver(c) \/ GiveUp(c)

-----------------------------------------------------------------------------
(* The event-loop thread of client c.                                      *)

\* CONNECT and CONNACK.
LoopConnects(c) ==
    /\ loop[c] = "connecting"
    /\ loop' = [loop EXCEPT ![c] = "connected"]
    /\ conn' = [d \in Client |-> d = c \/ (conn[d] /\ d \notin TakenOver(c))]
    /\ Close(TakenOver(c))
    /\ UNCHANGED <<main, healthy, lastError, chan, calm>>

\* The next request of the channel goes to the network; it is lost if the
\* broker has closed the connection.
Transmit(c) ==
    /\ loop[c] = "connected"
    /\ chan[c] # <<>> /\ Len(net[c]) < NetCapacity
    /\ chan' = [chan EXCEPT ![c] = Tail(@)]
    /\ net' = IF conn[c] THEN [net EXCEPT ![c] = Append(@, Head(chan[c]))] ELSE net
    /\ UNCHANGED <<main, loop, healthy, lastError, conn, dead, said, retained, calm>>

\* Mutant: the notification loop goes on after an error; rumqttc reconnects.
ReconnectOnError(c) ==
    /\ \/ loop[c] = "connecting" /\ ~calm
       \/ loop[c] = "connected" /\ (dead[c] \/ ~conn[c])
    /\ loop' = [loop EXCEPT ![c] = "connecting"]
    /\ UNCHANGED <<main, healthy, lastError, chan, broker, calm>>

\* An error ends the notification loop: connecting failed or timed out, the
\* broker has closed the connection, or the keep-alive found it dead.
LoopError(c) ==
    /\ \/ loop[c] = "connecting" /\ ~calm
       \/ loop[c] = "connected" /\ (dead[c] \/ ~conn[c])
    /\ loop' = [loop EXCEPT ![c] = "broken"]
    /\ UNCHANGED <<main, healthy, lastError, chan, broker, calm>>

\* The same error, out of the blue.
ConnectionReset(c) ==
    /\ ~calm /\ loop[c] = "connected"
    /\ loop' = [loop EXCEPT ![c] = "broken"]
    /\ UNCHANGED <<main, healthy, lastError, chan, broker, calm>>

\* The channel is drained and its sender dropped: the iterator ends.
LoopDone(c) ==
    /\ loop[c] = "connected"
    /\ chan[c] = <<>> /\ ~SenderOpen(c)
    /\ loop' = [loop EXCEPT ![c] = "broken"]
    /\ UNCHANGED <<main, healthy, lastError, chan, broker, calm>>

\* Mutant: the flag is cleared before the message is stored.
ClearFlagFirst(c) ==
    /\ loop[c] = "broken"
    /\ loop' = [loop EXCEPT ![c] = "noted"]
    /\ healthy' = [healthy EXCEPT ![c] = FALSE]
    /\ UNCHANGED <<main, lastError, chan, broker, calm>>

StoreError(c) ==
    /\ loop[c] = "broken"
    /\ loop' = [loop EXCEPT ![c] = "noted"]
    /\ lastError' = [lastError EXCEPT ![c] = TRUE]
    /\ UNCHANGED <<main, healthy, chan, broker, calm>>

ClearHealthy(c) ==
    /\ loop[c] = "noted"
    /\ loop' = [loop EXCEPT ![c] = "unhealthy"]
    /\ healthy' = [healthy EXCEPT ![c] = FALSE]
    /\ UNCHANGED <<main, lastError, chan, broker, calm>>

\* The thread returns; the connection and the receiver are dropped.
ThreadEnds(c) ==
    /\ loop[c] = "unhealthy"
    /\ loop' = [loop EXCEPT ![c] = "none"]
    /\ chan' = [chan EXCEPT ![c] = <<>>]
    /\ UNCHANGED <<main, healthy, lastError, broker, calm>>

EventLoop(c) ==
    \/ LoopConnects(c) \/ Transmit(c) \/ LoopError(c) \/ LoopDone(c)
    \/ StoreError(c) \/ ClearHealthy(c) \/ ThreadEnds(c)

-----------------------------------------------------------------------------
\* The network swallows what is sent from now on, without a reset.
PathDies(c) ==
    /\ ~calm /\ conn[c] /\ ~dead[c]
    /\ dead' = [dead EXCEPT ![c] = TRUE]
    /\ UNCHANGED <<main, thread, conn, net, said, retained, calm>>

BecomeCalm ==
    /\ ~calm /\ calm' = TRUE
    /\ UNCHANGED <<main, thread, broker>>

Next ==
    \/ Main \/ SourceFails \/ BecomeCalm
    \/ \E c \in Client : EventLoop(c) \/ ConnectionReset(c) \/ Broker(c) \/ PathDies(c)

Spec == Init /\ [][Next]_vars

\* The threads run, connecting and the keep-alive time out, a loop sees the
\* end of its connection however much it has to send, and the broker serves
\* its connections and notices when one is gone.
FairSpec ==
    /\ Spec
    /\ WF_vars(Main)
    /\ \A c \in Client :
          WF_vars(EventLoop(c)) /\ WF_vars(LoopError(c)) /\ WF_vars(Broker(c))

-----------------------------------------------------------------------------
(* Whoever finds the publisher unhealthy finds the reason as well: the     *)
(* thread stores last_error before it clears healthy, so the default text  *)
(* of ensure_healthy is never reported in place of the real cause.         *)
UnhealthyHasReason == \A c \in Client : healthy[c] \/ lastError[c]

(* The availability topic reads "online" exactly while the broker holds a  *)
(* connection on which "online" was the last word - never a stale "online" *)
(* of a session that is gone, and never an "offline", a will included, of  *)
(* an old session over the "online" of the new one (MqttPublisher::connect *)
(* with its last will, its client id and its first message).               *)
StatusMatchesConnection ==
    (retained = "online") <=> (\E c \in Client : conn[c] /\ said[c] = "online")

(* A thread that waits for room in the channel never waits for ever, not   *)
(* even while the path to the broker is dead (publish_text and             *)
(* publish_offline_best_effort, which the end of a session waits for).     *)
SenderReleased == pc = "send" ~> pc # "send"

(* The event loop of a dropped publisher ends: sessions do not leak        *)
(* threads.                                                                *)
LoopsEnd == \A c \in Client : cur # c ~> (loop[c] = "none" \/ cur = c)

(* After a session has failed, "online" does not stay on the topic.        *)
OfflineAfterFailure ==
    msg = "offline" /\ retained = "online" ~> retained # "online"

(* Once faults stop, the topic says "online" for good: the loops that were *)
(* left over take the connection from a later session only finitely often, *)
(* and the session notices each time.                                      *)
StaysOnline == <>calm => <>[](retained = "online")
=============================================================================
