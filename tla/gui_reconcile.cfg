SPECIFICATION Spec
CONSTANTS
    MaxWindow = 3
    MaxGui = 2
    MaxWorkspace = 2
    MaxQueue = 1
    MaxActs = 3
INVARIANTS Reconciled ActiveIsOccupied QuitSparesSwitch
CHECK_DEADLOCK FALSE
