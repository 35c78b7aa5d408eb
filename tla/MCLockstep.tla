----------------------------- MODULE MCLockstep -----------------------------
EXTENDS Lockstep

\* Two threads for each operation.
MCSide == [t \in Threads |-> IF t \in {"a1", "a2"} THEN "A" ELSE "B"]
=============================================================================
