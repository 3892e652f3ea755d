SPECIFICATION FairSpec
CONSTANTS
    f1 = f1
    f2 = f2
    None = None
    Forms = {f1, f2}
    Slots = {1, 2}
    PendingSizes = {1}
    MaxAsks = 2
    MaxVisits = 2
    MaxItems = 2
    MaxFaults = 1
    Bounds <- MCBounds
INVARIANTS TypeOK OneFormPerVisit ResultIsOwn PageHolds
PROPERTY SuggestionSettles
\* The instance stops when its bounds are used up.
CHECK_DEADLOCK FALSE
