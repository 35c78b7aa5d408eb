---------------------------- MODULE Alternation ----------------------------
(***************************************************************************)
(* What lockstep.h promises of two operations: they are performed one at a   *)
(* time, to completion, first A, then B, then A again.                       *)
(***************************************************************************)
VARIABLES
  active,   \* the operation under way, "A", "B" or "none"
  turn      \* the operation that is performed next, or is under way

vars == <<active, turn>>

Init == active = "none" /\ turn = "A"

Begin == active = "none" /\ active' = turn /\ UNCHANGED turn

End == /\ active # "none" /\ active' = "none"
       /\ turn' = IF turn = "A" THEN "B" ELSE "A"

Spec == Init /\ [][Begin \/ End]_vars
=============================================================================
