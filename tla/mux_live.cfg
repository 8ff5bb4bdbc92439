SPECIFICATION FairSpec
CONSTANTS
  home = home
  work = work
  Workspaces <- MCWorkspaces
  MaxPane = 2
  MaxTab = 2
  MaxWindow = 1
  ExitBehavior = "Close"
  Yields = TRUE
  Ops <- LiveOps
PROPERTIES
  DeadPanesGo
  EmptyWindowsGo
CHECK_DEADLOCK FALSE
