SPECIFICATION FairSpec
CONSTANTS
    Budgets <- Scenes
    Behaviors = {"Close", "CloseOnCleanExit", "Hold"}
INVARIANTS
    FramesAreWhole
    CommandSurvives
    ClosedForAReason
PROPERTIES
    ExitIsNoticed
    LastWordsShown
    InjectionEnds
\* Everything has ended when the child has and nobody has the pty open.
CHECK_DEADLOCK FALSE
