SPECIFICATION Spec
CONSTANTS
  home = home
  work = work
  Workspaces <- MCWorkspaces
  MaxPane = 2
  MaxTab = 2
  MaxWindow = 2
  ExitBehavior = "CloseOnCleanExit"
  Yields = TRUE
  Ops <- NoReassign
INVARIANTS
  TypeOK
  OneHome
  FreshIds
  NoLostPrune
  OccupancyExact
