SPECIFICATION Spec
CONSTANTS
    Callers = {c1, c2}
    Slots = {s1}
    Tasks = {k1, k2}
    RequestIds = {r1, r2}
    Children = {b1}
    RetryLimit = 2
    ContinuationLimit = 1
    WaitRounds = 1
SYMMETRY Symmetry
INVARIANTS
    TurnInv
    SingleFlight
    ActiveIsDriven
    OutstandingIsActive
    ResumeIsCurrent
CHECK_DEADLOCK FALSE
