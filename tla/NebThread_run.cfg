SPECIFICATION LiveSpec
CONSTANTS
  t1 = t1
  t2 = t2
  NoThread = NoThread
  Threads <- MCThreads
  MaxSignals = 1
  MaxTimeouts = 2
INVARIANTS RegistrySound ReadyExact
PROPERTY CallsReturn
