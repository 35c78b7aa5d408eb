----------------------------- MODULE MCRtQueue -----------------------------
(* The ring buffer, wrapped around several times by two writers.            *)
EXTENDS RtQueue
=============================================================================
