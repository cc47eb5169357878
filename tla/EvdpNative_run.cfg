SPECIFICATION NativeSpec
CONSTANTS
  a = a
  b = b
  Sources = {a, b}
  NoSource = NoSource
  Typed = {}
  Kinds <- OneshotAndAnother
  BatchSize = 2
  IdMod = 3
  MaxForeach = 0
  Drivers = {"kevent", "port"}
  Liberties = {"nomem"}
CHECK_DEADLOCK FALSE
INVARIANTS NativeSound InterestWatched NothingStray HandlersAsked
PROPERTY PendingFlushed
