-------------------------- MODULE MCRemoteTrigger --------------------------
(* RemoteTrigger with two threads sharing a client.                         *)
EXTENDS RemoteTrigger
=============================================================================
