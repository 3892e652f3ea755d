\* One job, two runs, two handlers at a time.
\* The instance stops when its job id and its runs are used up.
SPECIFICATION FairSpec
CONSTANTS
    j1 = j1
    e1 = e1
    t1 = t1
    t2 = t2
    None = None
    Jobs = {j1}
    Events = {e1}
    Tasks = {t1, t2}
    MaxInFlight = 2
    MaxCrashes = 1
CHECK_DEADLOCK FALSE
PROPERTY JobSettles
