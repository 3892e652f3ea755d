SPECIFICATION FairSpec
CONSTANTS
    t1 = t1
    t2 = t2
    None = None
    Tenders = {t1, t2}
    Slots = {1, 2}
    MaxRuns = 2
    MaxFaults = 1
    Bounds <- MCBounds
INVARIANTS PageHolds NothingStaysBlocked FormFollows
PROPERTY RunIsNoticed
\* The instance stops when its bounds are used up.
CHECK_DEADLOCK FALSE
