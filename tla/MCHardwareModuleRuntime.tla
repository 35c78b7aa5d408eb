------------------------ MODULE MCHardwareModuleRuntime ------------------------
(* Model-checking module: the switches are set in the configuration.       *)
EXTENDS HardwareModuleRuntime

\* Behaviours with a missed deadline and behaviours with a Stop() are explored
\* apart, and after a missed deadline a fault only as long as ICON's loop runs,
\* to keep the instance small.
OverrunOrStop == overruns = 0 \/ (stopped = {} /\ (faulty => LoopRuns))
=============================================================================
