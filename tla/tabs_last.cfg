SPECIFICATION Spec
CONSTANTS
  t1 = t1
  t2 = t2
  t3 = t3
  t4 = t4
  Tabs <- MCTabs
  NoTab = NoTab
  SwitchToLast = TRUE
  Offsets <- MCOffsets
INVARIANTS
  ActiveValid
PROPERTIES
  SurvivorStaysActive
CHECK_DEADLOCK FALSE
