CONSTANTS
    People = {ann, bob}
    Owner = ann
    Operator = operator
    Stranger = stranger
    Absent = absent
    Unset = unset
    Calls = {c1, c2}
    Aum = 4
    Sizes = {1, 2}
    MaxTurns = 2
    MaxProposals = 3
    MaxBinds = 1
SPECIFICATION Spec
SYMMETRY Interchangeable
INVARIANTS AskedForThis HostHeld HostKept WithinLimit
CHECK_DEADLOCK FALSE
