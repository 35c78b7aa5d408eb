SPECIFICATION Spec
CONSTANTS
  QueueSize = 1
  MaxOverruns = 1
  HookFails = TRUE
  Restarts = TRUE
CONSTRAINT OverrunOrStop
INVARIANTS HooksPaired TransientHasOwner RequestsAccounted HealthyMeansCleared
