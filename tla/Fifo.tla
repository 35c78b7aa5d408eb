-------------------------------- MODULE Fifo --------------------------------
(***************************************************************************)
(* What a bounded queue promises: items, numbered in the order in which they  *)
(* are put, leave it in that order, none lost and none twice.                 *)
(***************************************************************************)
EXTENDS Naturals, Sequences

CONSTANT Capacity

VARIABLES
  queue,
  put     \* number of items put so far

vars == <<queue, put>>

Init == queue = << >> /\ put = 0

Put == /\ Len(queue) < Capacity
       /\ put' = put + 1 /\ queue' = Append(queue, put + 1)

Drop == queue # << >> /\ queue' = Tail(queue) /\ UNCHANGED put

Spec == Init /\ [][Put \/ Drop]_vars
=============================================================================
