\* Three saves that may all overlap, in a workspace whose crawl stays off.
\* The instance stops when its save requests are used up.
SPECIFICATION FairSpec
CONSTANTS
    s1 = s1
    s2 = s2
    s3 = s3
    None = None
    Saves = {s1, s2, s3}
    Frequency = {}
    MaxOpen = 3
INVARIANT HistoryLinear
PROPERTIES SavesEnd OnlyAppends
CHECK_DEADLOCK FALSE
