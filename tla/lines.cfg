SPECIFICATION FairSpec
CONSTANTS
  Rows = 2
  Screen = 1
  MaxSeq = 2
  MaxFetches = 2
  MaxWire = 2
  MaxUpsets = 1
  LocalEcho = FALSE
INVARIANTS
  LineIsCurrent
  NoOrphanFetch
PROPERTIES
  ScreenCatchesUp
CHECK_DEADLOCK FALSE
