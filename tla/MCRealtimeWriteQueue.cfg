SPECIFICATION FairSpec
CONSTANTS
  Capacity = 2
  MaxItems = 5
INVARIANTS NeverAborts ClosedMeansDrained
PROPERTY AllConsumed
