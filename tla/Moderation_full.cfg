\* Reports, submissions, reviews and the worker on two memories, with faults.  The index is
\* there; without it every insertion fails, and here any insertion may.
CONSTANTS
    m1 = m1
    m2 = m2
    u1 = u1
    u2 = u2
    r1 = r1
    r2 = r2
    None = None
    Memories = {m1, m2}
    Users = {u1, u2}
    Requests = {r1, r2}
    BatchSize = 1
    Threshold = 2
    MemoryIdUnique = TRUE
    Submitting = TRUE
    Reviewing = {"approved", "rejected"}
    Working = TRUE
    Faults = TRUE
SPECIFICATION Spec
SYMMETRY Symmetry
INVARIANT TypeOK
INVARIANT EscalationNeedsReports
INVARIANT DecidedReachesMemory
INVARIANT LostByFailureOnly
