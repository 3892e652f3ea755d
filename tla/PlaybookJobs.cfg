\* Two jobs of one event, three runs, two handlers at a time, one restart.
\* The instance stops when its job ids and runs are used up.
SPECIFICATION Spec
CONSTANTS
    j1 = j1
    j2 = j2
    e1 = e1
    t1 = t1
    t2 = t2
    t3 = t3
    None = None
    Jobs = {j1, j2}
    Events = {e1}
    Tasks = {t1, t2, t3}
    MaxInFlight = 2
    MaxCrashes = 1
SYMMETRY Symmetry
INVARIANTS RowsConsistent OnePlaybookPerEvent Provenance
CHECK_DEADLOCK FALSE
