--------------------------- MODULE MCAsyncBuffer ---------------------------
(* AsyncBuffer with a small number of commits; enough for every permutation *)
(* of the buffers and for the ABA cases (two commits between a load and its *)
(* compare-exchange).                                                       *)
EXTENDS AsyncBuffer
=============================================================================
