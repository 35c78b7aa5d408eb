SPECIFICATION TriggerFairSpec
CONSTANTS
  ClientThreads = {c1, c2}
  MaxRequests = 3
  Abandon = TRUE
  Restarts = TRUE
INVARIANT PatientAnswersMatch
PROPERTY TriggerReturns
