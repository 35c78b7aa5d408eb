SPECIFICATION FairSpec
CONSTANTS
  Threads = {"a1", "a2", "b1", "b2"}
  Side <- MCSide
  Timeouts = {"a1", "a2", "b1", "b2"}
INVARIANTS MutualExclusion NoMismatch
PROPERTIES ImplementsAlternation KeepsAlternating
