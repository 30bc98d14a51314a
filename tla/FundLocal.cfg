\* Three agents, the fund's real two slots, no chain reads.
CONSTANTS
    host = host
    g1 = g1
    g2 = g2
    t1 = t1
    t2 = t2
    s1 = s1
    Agents <- ThreeAgents
    Host = host
    Topics = {t1, t2}
    MaxProposals = 2
    MaxTime = 2
    MaxOpen = 2
    MaxOpenPerAgent = 1
    ClaimTTL = 1
    CooldownPeriod = 2
    LockWait = 1
    Syncers = {}
SPECIFICATION LocalSpec
SYMMETRY GuestsAndTopics
INVARIANTS SlotsBound OnePerAgent ReceiptPerSettle
PROPERTY CooldownRespected
