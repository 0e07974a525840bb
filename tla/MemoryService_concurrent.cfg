\* Two requests, two memories close to each other, statements that fail.
CONSTANTS
    m1 = m1
    m2 = m2
    r1 = r1
    r2 = r2
    None = None
    Memories = {m1, m2}
    Areas <- MCAreas
    Around <- MCNear
    Visibilities = {"private", "public"}
    Requests = {r1, r2}
    Faults = TRUE
SPECIFICATION Spec
SYMMETRY FullSymmetry
INVARIANT KeptUnlessOvertaken
INVARIANT ReviewBeforeExposure
INVARIANT UnwantedLeaveIndex
PROPERTY OnlyVerdictsRevive
