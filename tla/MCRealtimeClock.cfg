SPECIFICATION FairSpec
CONSTANTS
  MaxTicks = 3
  MaxServers = 2
INVARIANTS OneAtATime TickMeansCycle
PROPERTIES OneCyclePerTick TickComesBack
