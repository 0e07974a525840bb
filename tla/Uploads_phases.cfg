\* Two users, one of them careful, two keys and two overlapping requests.
CONSTANTS
    u1 = u1
    u2 = u2
    m1 = m1
    k1 = k1
    k2 = k2
    h1 = h1
    h2 = h2
    r1 = r1
    r2 = r2
    None = None
    Users = {u1, u2}
    Careful = {u1}
    Memories = {m1}
    Keys = {k1, k2}
    Contents = {h1, h2}
    Requests = {r1, r2}
    Faults = TRUE
SPECIFICATION Spec
SYMMETRY Symmetry
INVARIANT RowsPerKeyBounded
INVARIANT AckedIsRecorded
INVARIANT OnlyOwnersAttach
INVARIANT ReuseServesContent
