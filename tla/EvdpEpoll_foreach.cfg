SPECIFICATION Spec
CONSTANTS
  a = a
  b = b
  c = c
  Sources = {a, b}
  NoSource = NoSource
  Typed = {a, b}
  Kinds <- OneshotAndReadOnly
  BatchSize = 2
  IdMod = 3
  MaxMiscount = 1
  MaxForeach = 2
  Drivers = {"epoll"}
  Liberties = {"rearm", "nomem", "reattach", "rerun"}
CHECK_DEADLOCK FALSE
INVARIANTS CallbackSourceAttached FailuresHarmless
PROPERTY ForeachOnce
