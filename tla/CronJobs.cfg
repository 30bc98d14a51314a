CONSTANTS
    Funds = {f1, f2}
    NoFund = none
    NoTool = nobody
    Digest = digest
    Tools = {t1, t2}
    MaxBlock = 2
    MaxTvl = 2
    Threshold = 50
    Crons = {n1, n2}
    Installers = {i1, i2}
    MaxJobs = 2
SPECIFICATION Spec
SYMMETRY Interchangeable
INVARIANTS NothingSkipped RepeatsNeedOverlap OneJobEach
PROPERTIES AlarmIsNew
CHECK_DEADLOCK FALSE
