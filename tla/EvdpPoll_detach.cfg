SPECIFICATION Spec
CONSTANTS
  a = a
  b = b
  c = c
  Sources = {a, b}
  NoSource = NoSource
  Typed = {}
  Kinds <- OneshotAndReadOnly
  BatchSize = 2
  IdMod = 3
  MaxForeach = 0
  Liberties = {"inFlight"}
  Drivers = {"uring"}
  MaxRequests = 2
CHECK_DEADLOCK FALSE
INVARIANT NoStrayCompletion
