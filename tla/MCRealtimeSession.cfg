SPECIFICATION FairSpec
CONSTANTS
  Actions = {"a", "b", "c"}
  Reactions = {"r1", "r2"}
  Slots <- MCSlots
  From <- MCFrom
  Target <- MCTarget
  Once = {"r1"}
  Stops = {"r1"}
  Requests <- MCRequests
INVARIANTS NothingDangles FiredIsKept SlotsExclusive
PROPERTIES CallAnswered FinishReturns
