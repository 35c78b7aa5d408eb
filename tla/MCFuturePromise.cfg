SPECIFICATION PromiseFairSpec
CONSTANTS
  Kinds = {"once", "reusable"}
  MaxAttach = 2
  MaxSets = 2
  Resets = TRUE
INVARIANTS NothingLost OneShotWaitOkMeansValue OutlivesHandles
PROPERTY WaiterReleased
