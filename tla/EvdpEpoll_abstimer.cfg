SPECIFICATION Spec
CONSTANTS
  a = a
  b = b
  c = c
  Sources = {a, b}
  NoSource = NoSource
  Typed = {}
  Kinds <- OneshotAndAbstimer
  BatchSize = 2
  IdMod = 3
  MaxMiscount = 0
  MaxForeach = 0
  Drivers = {"epoll"}
  Liberties = {}
CHECK_DEADLOCK FALSE
PROPERTY TimerWakes
