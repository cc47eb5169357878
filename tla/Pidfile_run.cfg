SPECIFICATION Spec
CONSTANTS
  p1 = p1
  p2 = p2
  p3 = p3
  i1 = i1
  i2 = i2
  None = None
  Procs <- MCProcs
  Inodes <- MCInodes
  Liberties = {}
SYMMETRY Symmetry
CHECK_DEADLOCK FALSE
INVARIANTS DaemonSound
PROPERTY RunningReported
