\* What the cache path of a nearby query returns.
CONSTANTS
    m1 = m1
    r1 = r1
    None = None
    Memories = {m1}
    Areas <- MCAreas
    Around <- MCFar
    Visibilities = {"private", "public"}
    Requests = {r1}
    Faults = FALSE
SPECIFICATION Spec
SYMMETRY Symmetry
INVARIANT NearbyListsPublicOnly
