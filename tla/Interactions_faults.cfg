\* Overlapping requests of two users, any of which may stop half way.
CONSTANTS
    u1 = u1
    u2 = u2
    r1 = r1
    r2 = r2
    r3 = r3
    None = None
    Users = {u1, u2}
    Requests = {r1, r2, r3}
    MaxToggles = 2
    MaxMarks = 4
    Careful = TRUE
    Faults = TRUE
SPECIFICATION Spec
SYMMETRY Symmetry
INVARIANT LikeCountCoversLikers
INVARIANT BookmarkDriftIsLoss
\* The calls are bounded: after the last one nothing is left to do.
CHECK_DEADLOCK FALSE
