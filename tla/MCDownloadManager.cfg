SPECIFICATION FairSpec
CONSTANTS
    Handlers = {h1, h2}
    Ids = {i1}
    Owners = {o1, o2}
    parent = parent
    child = child
    other = other
    Requests = {parent}
    Contains <- MCContains
    MaxActive = 2
    Offered = {"start", "resume", "paused", "canceled"}
    FileCount = 1
INVARIANTS
    TypeOK
    ReservationInv
    InstallNeverCollides
    HandlesAreLive
    FreedIsUnreachable
    RunningHasTask
PROPERTIES
    StopSticks
    StopIsAnswered
CHECK_DEADLOCK FALSE
