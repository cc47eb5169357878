SPECIFICATION RandomSpec
CONSTANTS
  Nodes = {1, 2, 3}
  SliceTotal = 10
  SliceRandom = 8
CHECK_DEADLOCK FALSE
INVARIANT PickInBounds
