SPECIFICATION FairSpec
CONSTANTS
  Modules = {"safety", "arm"}
  CellControl = {"safety"}
  Clients = {"c1"}
  SafetyInputs <- MCSafetyInputs
  MaxFaults = 1
INVARIANTS SessionNotResumed
PROPERTIES AnswerIsTrue CommandAnswered
CHECK_DEADLOCK FALSE
