SPECIFICATION Spec
CONSTANTS
    Handlers = {h1, h2}
    Ids = {i1, i2}
    Owners = {o1, o2, o3}
    parent = parent
    child = child
    other = other
    Requests = {parent, child, other}
    Contains <- MCContains
    MaxActive = 2
    Offered = {"start", "resume"}
    FileCount = 0
SYMMETRY Symmetry
INVARIANTS
    ExclusiveTargets
CHECK_DEADLOCK FALSE
