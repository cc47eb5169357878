SPECIFICATION Spec
CONSTANTS
  a = a
  b = b
  c = c
  Sources = {a, b, c}
  NoSource = NoSource
  Typed = {}
  Kinds <- FdsAndATimer
  BatchSize = 2
  IdMod = 3
  MaxForeach = 0
  Liberties = {"nomem"}
  Drivers = {"aio", "uring"}
  MaxRequests = 2
CHECK_DEADLOCK FALSE
INVARIANTS RequestsSound
PROPERTY OneshotHonoured
