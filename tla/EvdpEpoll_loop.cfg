SPECIFICATION LiveSpec
CONSTANTS
  a = a
  b = b
  c = c
  Sources = {a, b, c}
  NoSource = NoSource
  Typed = {}
  Kinds <- OneshotAndTimers
  BatchSize = 2
  IdMod = 3
  MaxMiscount = 0
  MaxForeach = 0
  Drivers = {"epoll"}
  Liberties = {"regulate"}
CHECK_DEADLOCK FALSE
INVARIANTS QueueSound KernelAgrees DetachedSilent
PROPERTIES OneshotHonoured PendingFlushed
