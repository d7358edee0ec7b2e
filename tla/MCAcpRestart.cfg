SPECIFICATION FairSpec
CONSTANTS
    Callers = {c1}
    Slots = {s1, s2}
    Tasks = {k1}
    RequestIds = {r1}
    Children = {b1}
    RetryLimit = 1
    ContinuationLimit = 1
    WaitRounds = 1
INVARIANTS
    ExitedIsInactive
    FreedHasNoReader
PROPERTIES
    TurnSettles
CHECK_DEADLOCK FALSE
