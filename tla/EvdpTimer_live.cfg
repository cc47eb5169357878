SPECIFICATION LiveSpec
CONSTANTS
  p1 = p1  p2 = p2  p3 = p3
  n1 = n1  n2 = n2  n3 = n3  n4 = n4
  Points <- TwoPoints
  Nodes <- ThreeNodes
  NoPoint = NoPoint
  NoNode = NoNode
  KeepList = KeepList
  NoList = NoList
  TcacheSize = 1
  LcacheSize = 1
  MaxTime = 2
  Liberties = {}
CHECK_DEADLOCK FALSE
PROPERTY DueServed
