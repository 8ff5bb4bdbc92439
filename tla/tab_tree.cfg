SPECIFICATION TreeSpec
CONSTANTS
  Pane = {p1, p2, p3}
  None = none
  Sizes <- MCSizes
  Start <- MCStart
  Requests <- MCRequests
SYMMETRY MCSymmetry
INVARIANTS FocusIsShown SizesAddUp
PROPERTIES RemovalKeepsFocus SplitsWhatWasAsked
CHECK_DEADLOCK FALSE
