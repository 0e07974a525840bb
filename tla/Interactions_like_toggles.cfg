\* One user who likes twice, waiting for each answer; nothing fails.
CONSTANTS
    u1 = u1
    r1 = r1
    None = None
    Users = {u1}
    Requests = {r1}
    MaxToggles = 2
    MaxMarks = 0
    Careful = TRUE
    Faults = FALSE
SPECIFICATION Spec
INVARIANT CallsToggle
\* The calls are bounded: after the last one nothing is left to do.
CHECK_DEADLOCK FALSE
