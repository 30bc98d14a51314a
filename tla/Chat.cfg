\* Three messages, three people, a chat that keeps two pitches; three
\* ids and a window of two, two sessions and a ring of two blocks.
CONSTANTS
    alice = alice
    bob = bob
    carol = carol
    Users = {alice, bob, carol}
    FireThreshold = 2
    RiffWindow = 2
    MaxPitches = 2
    PitchTTL = 0
    MaxMessages = 3
    MaxFires = 2
    MaxIgnored = 1
    MaxTime = 1
    m1 = m1
    m2 = m2
    m3 = m3
    Ids = {m1, m2, m3}
    Kind <- MCKind
    Sessions = {s1, s2}
    DedupeCapacity = 2
    BufferMax = 2
    inject_mentions_only = FALSE
    xmtp_summaries = TRUE
    MaxBlocks = 4
    MaxRouted = 5
SYMMETRY People
SPECIFICATION ChatSpec
INVARIANTS IndexMatchesOpen OncePerPitch CountedFiresStand DedupeHolds RingKeepsNewest
CHECK_DEADLOCK FALSE
