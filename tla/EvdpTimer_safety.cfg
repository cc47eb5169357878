SPECIFICATION Spec
CONSTANTS
  p1 = p1  p2 = p2  p3 = p3
  n1 = n1  n2 = n2  n3 = n3  n4 = n4
  Points <- ThreePoints
  Nodes <- FourNodes
  NoPoint = NoPoint
  NoNode = NoNode
  KeepList = KeepList
  NoList = NoList
  TcacheSize = 1
  LcacheSize = 1
  MaxTime = 3
  Liberties = {"past"}
SYMMETRY AddressSymmetry
CHECK_DEADLOCK FALSE
INVARIANTS TypeOK NoDanglingNode ScheduledAsAsked PointsAccounted NoOversleep MemorySound
PROPERTIES RunsInOrder ImplementsTimer
