\* Three saves that may all overlap, from their reads to their calls of the
\* scheduler; some turn the crawl on, change its frequency or turn it off.
\* The instance stops when its save requests are used up.
SPECIFICATION Spec
CONSTANTS
    s1 = s1
    s2 = s2
    s3 = s3
    None = None
    Saves = {s1, s2, s3}
    Frequency = {"harian", "mingguan"}
    MaxOpen = 3
SYMMETRY Symmetry
INVARIANT CronFollowsProfile
CHECK_DEADLOCK FALSE
