\* Two overlapping requests; any statement, the provider and Redis may fail.
CONSTANTS
    p1 = p1
    w1 = w1
    r1 = r1
    r2 = r2
    None = None
    Phones = {p1}
    OpenIds = {w1}
    Requests = {r1, r2}
    DailyLimit = 1
    MaxRows = 3
    RedisFaults = TRUE
    Faults = TRUE
SPECIFICATION Spec
SYMMETRY Symmetry
INVARIANT DailyOvershootBounded
INVARIANT CooldownOvershootBounded
INVARIANT CodeSessionsBounded
INVARIANT OneAccount
\* The number of codes is bounded: the last insertions can only wait.
CHECK_DEADLOCK FALSE
