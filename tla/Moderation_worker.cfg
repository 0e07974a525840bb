\* The worker alone decides about two memories, one per pass; no fault.  The index
\* is there: without it nothing enters the queue (theorem QueueStaysEmpty).
CONSTANTS
    m1 = m1
    m2 = m2
    u1 = u1
    u2 = u2
    r1 = r1
    r2 = r2
    None = None
    Memories = {m1, m2}
    Users = {u1, u2}
    Requests = {r1, r2}
    BatchSize = 1
    Threshold = 2
    MemoryIdUnique = TRUE
    Submitting = TRUE
    Reviewing = {}
    Working = TRUE
    Faults = FALSE
SPECIFICATION FairSpec
INVARIANT DecisionsAgree
PROPERTY PendingIsHandled
