\* Safety of init: three process identifiers, at most two services.
CONSTANTS
    p1 = p1
    p2 = p2
    p3 = p3
    Pids = {p1, p2, p3}
    InitPid = InitPid
    NoPid = NoPid
    MaxTtys = 2
    TermRounds = 1
    KillRounds = 1
SYMMETRY PidSymmetry
SPECIFICATION Spec
INVARIANTS TypeOK SessionTracked NoStalePid QuietMeansEmpty CleanPowerOff
PROPERTY KeepsSessions
