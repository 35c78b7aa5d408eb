SPECIFICATION Spec
CONSTANTS
  Writers = {w1, w2}
  Capacity = 3
  MaxItems = 8
INVARIANT SlotsApart
PROPERTY ImplementsFifo
