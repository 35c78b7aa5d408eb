------------------------ MODULE MCRealtimeWriteQueue ------------------------
(* The blocking queue, small enough to be full and empty many times.        *)
EXTENDS RealtimeWriteQueue
=============================================================================
