\* Two threads, three updates after the create; lists of agents in any order, with
\* removed ones in front; three children, two boots.
CONSTANTS
    p1 = p1
    p2 = p2
    Procs = {p1, p2}
    MaxRevision = 4
    Agents = {h, a, b}
    Host = h
    Wallets = {w0, w1, w2}
    HostWallet = w0
    MaxStarts = 3
    MaxSpawns = 3
    MaxBoots = 2
    Stoppers = {s1, s2}
SPECIFICATION FilesSpec
INVARIANTS AckedIsStored OneStream NoOrphan StatusFileTruth
PROPERTIES Atomic EveryCallEnds RolesKept StreamRecovers StopReturnsAlways
CHECK_DEADLOCK FALSE
