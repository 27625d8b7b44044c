-------------------------- MODULE MCMqttPublisher --------------------------
(* MqttPublisher with a few overlapping clients.                           *)
EXTENDS MqttPublisher
=============================================================================
