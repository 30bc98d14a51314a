SPECIFICATION Spec
CONSTANTS
    Users = {u1}
    Hosts = {h1, h2}
    Wallets = {w1, w2}
    Agents = {g1}
    Approvers = {a1, a2}
    None = None
    MaxBinds = 1
    MaxCalls = 2
    MaxVotes = 2
SYMMETRY Interchangeable
INVARIANTS NumbersInOrder LinkNamesMember OneVoice
CHECK_DEADLOCK FALSE
