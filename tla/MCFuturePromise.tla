-------------------------- MODULE MCFuturePromise --------------------------
(* FuturePromise on small instances; the configurations choose the kinds of *)
(* handles, how often they are attached and whether Reset is called.        *)
EXTENDS FuturePromise
=============================================================================
