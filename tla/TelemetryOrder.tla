--------------------------- MODULE TelemetryOrder ---------------------------
(***************************************************************************)
(* Sessions and their telemetry at the broker.  A publisher is dropped     *)
(* with messages in its channel, and its event loop, which may still be    *)
(* connecting, sends them when it gets through: after the next session has *)
(* begun to publish.  Every session publishes the discovery of the stack   *)
(* and of its modules before its first telemetry (publish_discovery in     *)
(* run_session_inner), which are more messages than the channel holds.     *)
(*                                                                         *)
(* This module adds to MqttPublisher what no code reads: how many messages *)
(* of each session the broker has got, and which session is the younger.   *)
(***************************************************************************)
EXTENDS MqttPublisher

CONSTANT Discovery  \* discovery messages of a session: in the code at least 33

ASSUME DiscoveryFillsChannel == Discovery \in Nat /\ Discovery >= Capacity

VARIABLES
    delivered,  \* messages of each session at the broker, up to Discovery
    younger,    \* the sessions that began after each session
    superseded  \* the sessions a younger one of which has telemetry delivered

history == <<delivered, younger, superseded>>

HistoryTypeOK ==
    /\ delivered \in [Client -> 0..Discovery]
    /\ younger \in [Client -> SUBSET Client]
    /\ superseded \subseteq Client

OInit ==
    /\ Init
    /\ delivered = [c \in Client |-> 0]
    /\ younger = [c \in Client |-> {}]
    /\ superseded = {}

BeginSession(c) ==
    /\ Connect(c)
    /\ delivered' = [delivered EXCEPT ![c] = 0]
    /\ younger' = [d \in Client |-> IF d = c THEN {} ELSE younger[d] \cup {c}]
    /\ superseded' = superseded \ {c}

\* Is the next message of c to reach the broker telemetry?
Telemetry(c) == net[c] # <<>> /\ Head(net[c]) = "data" /\ delivered[c] = Discovery

Receive(c) ==
    /\ Deliver(c)
    /\ delivered' = IF Head(net[c]) = "data" /\ delivered[c] < Discovery
                       THEN [delivered EXCEPT ![c] = @ + 1] ELSE delivered
    /\ superseded' = IF Telemetry(c) THEN superseded \cup {d \in Client : c \in younger[d]}
                                     ELSE superseded
    /\ UNCHANGED younger

ONext ==
    \/ \E c \in Client : BeginSession(c) \/ Receive(c)
    \/ /\ \/ CheckHealthy \/ SendMessage \/ SendFails \/ PublishText \/ DropPublisher
          \/ SourceFails \/ BecomeCalm
          \/ \E c \in Client : EventLoop(c) \/ ConnectionReset(c) \/ GiveUp(c) \/ PathDies(c)
       /\ UNCHANGED history

OSpec == OInit /\ [][ONext]_<<vars, history>>

(* Telemetry never goes back in time: once telemetry of a session has      *)
(* reached the broker, none of an older session does.  An old loop that    *)
(* connects late takes the connection from the current session, but all    *)
(* it can have in its channel is "online" and discovery; a loop that has   *)
(* telemetry was connected, and does not connect again (the event-loop     *)
(* thread in MqttPublisher::connect, MQTT_REQUEST_CAPACITY).               *)
TelemetryInOrder ==
    [][\A c \in Client : Receive(c) /\ Telemetry(c) => c \notin superseded]_<<vars, history>>
=============================================================================
