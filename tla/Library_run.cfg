SPECIFICATION Spec
CONSTANTS
  Items <- MCItems
  RbKey <- MCRbKey
  Entries = {11, 22, 28, 18, 111}
  HtKey <- MCHtKey
  Tunings <- MCTunings
  Candidates = {0, 15}
  MaxMallocs = 1
  Gone = Gone
  Nodes = {1, 2}
  SliceTotal = 4
  SliceRandom = 3
  Procs = {p, q}
  Subs = {0, 1}
  MaxSets = 2
  MaxValue = 2
  TicksPerMs = 2
  MaxTimeout = 2
  MaxInterrupts = 1
  Alphabet = {0, 1}
  MaxPattern = 4
  MaxText = 7
  Byte = 4
  Messages <- MCMessages
  Addresses <- MCAddresses
  Addresses6 <- MCAddresses6
  ProtoTcp = 2
  HourLength = 3
  DayHours = 4
  Forward = 20
  Back = 34
  MaxNow = 40
CHECK_DEADLOCK FALSE
INVARIANTS TreeChecked TableSound RandomSound SemSound SearchRight ChecksumRight AlarmNearest
PROPERTIES ImplementsOrderedSet ImplementsKeyedSet WaitsEnd
