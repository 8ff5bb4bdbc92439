SPECIFICATION FairSpec
CONSTANTS
  MaxQueued = 4
  MaxNested = 2
INVARIANTS
  NoMissedWakeup
PROPERTIES
  ImplementsExecutor
