\* Liveness of init: two process identifiers, at most two services.
CONSTANTS
    p1 = p1
    p2 = p2
    Pids = {p1, p2}
    InitPid = InitPid
    NoPid = NoPid
    MaxTtys = 2
    TermRounds = 1
    KillRounds = 1
SPECIFICATION FairSpec
PROPERTIES ShutdownEnds RequestServed WakeupServed RebootWins
