-------------------------- MODULE MCRealtimeClock --------------------------
(* Hardware module and control server, model-checked with a few ticks and    *)
(* control servers.                                                          *)
EXTENDS RealtimeClock
=============================================================================
