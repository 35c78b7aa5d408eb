------------------------- MODULE MCRealtimeSession -------------------------
EXTENDS RealtimeSession

\* a moves the arm, c the gripper, b both.  r1 is fire_once and switches from a to b; r2 is
\* free-standing and starts c.
MCSlots    == [x \in Actions |-> CASE x = "a" -> {"arm"} [] x = "b" -> {"arm", "gripper"}
                                   [] OTHER -> {"gripper"}]
MCFrom     == [r \in Reactions |-> IF r = "r1" THEN "a" ELSE "none"]
MCTarget   == [r \in Reactions |-> IF r = "r1" THEN "b" ELSE "c"]
MCRequests == {<<Actions, Reactions>>, <<{"b"}, {"r1"}>>, <<{"a"}, {}>>}
=============================================================================
