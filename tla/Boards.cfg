SPECIFICATION FairSpec
CONSTANTS
    p1 = p1
    p2 = p2
    e1 = e1
    e2 = e2
    None = None
    Cards = {p1, p2}
    Events = {e1, e2}
    Slots = {1, 2}
    MaxFaults = 1
    MaxFiles = 2
    MaxRuns = 2
    BoardBounds <- MCBoardBounds
    EventBounds <- MCEventBounds
INVARIANTS PagesHold AnalysisIsAlone
PROPERTIES WritesKeepTheRest PagesSettle
\* The instance stops when its bounds are used up.
CHECK_DEADLOCK FALSE
