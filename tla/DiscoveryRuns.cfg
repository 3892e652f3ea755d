\* Two calls, one tender found at two sources, two periods and one fault.
\* The instance stops when its calls are used up.
SPECIFICATION FairSpec
CONSTANTS
    g1 = g1
    g2 = g2
    c1 = c1
    c2 = c2
    k1 = k1
    None = None
    Empty = Empty
    Calls = {g1, g2}
    Candidates = {c1, c2}
    DedupKeys = {k1}
    KeyOf <- MCKeyOf
    MaxPeriod = 1
    MaxFaults = 1
INVARIANTS NoDuplicateTenders OneRunPerPeriod ReportsHonest
PROPERTY RunEnds
CHECK_DEADLOCK FALSE
