\* Two agents and one syncer that reads the chain between their operations.
CONSTANTS
    host = host
    g1 = g1
    g2 = g2
    t1 = t1
    t2 = t2
    s1 = s1
    Agents <- TwoAgents
    Host = host
    Topics = {t1, t2}
    MaxProposals = 1
    MaxTime = 1
    MaxOpen = 2
    MaxOpenPerAgent = 1
    ClaimTTL = 1
    CooldownPeriod = 1
    LockWait = 1
    Syncers = {s1}
SPECIFICATION Spec
SYMMETRY TopicsOnly
INVARIANTS ClaimsExclusive RemovedHoldsNothing
PROPERTY UnlinkedStaysClosed
