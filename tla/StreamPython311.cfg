\* A spawn returns while a stop waits for the child before it.
SPECIFICATION SupervisorSpec
CONSTANTS
    MaxStarts = 3
    MaxSpawns = 3
    MaxBoots = 2
    Stoppers = {s1, s2}
INVARIANT OneSubprocess
CHECK_DEADLOCK FALSE
