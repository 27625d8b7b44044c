-------------------------- MODULE MCTelemetryOrder --------------------------
(* TelemetryOrder with three overlapping clients.                          *)
EXTENDS TelemetryOrder, TLC

Interchangeable == Permutations(Client)
=============================================================================
