------------------------------ MODULE MCPoller ------------------------------
(* Poller with every reporter it has.                                      *)
EXTENDS Poller

AllReporters == <<"mongo", "hass", "mqtt">>
=============================================================================
