SPECIFICATION FairSpec
CONSTANTS
    Syncs = {s1, s2}
    Tick = tick
    Tap = tap
    MaxVer = 3
    Ends = 1
    MaxFaults = 1
    JobQueue = TRUE
INVARIANTS OneCard FingerprintNotAhead CardIsCurrent
PROPERTIES JobStops
CHECK_DEADLOCK FALSE
