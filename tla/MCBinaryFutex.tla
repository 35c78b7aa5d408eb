--------------------------- MODULE MCBinaryFutex ---------------------------
(* Four threads: two that sleep, one that posts or closes and one that      *)
(* steals, each free to change roles.                                       *)
EXTENDS BinaryFutex
=============================================================================
