\* Two overlapping requests about the circle of a user, and requests about the
\* permissions of a memory of hers.
CONSTANTS
    u1 = u1
    u2 = u2
    u3 = u3
    c1 = c1
    r1 = r1
    r2 = r2
    s1 = s1
    m = m
    None = None
    Users = {u1, u2, u3}
    Owners = {u1}
    Circles = {c1}
    Requests = {r1, r2}
    MaxCircles = 1
    MaxMembers = 1
    CountDefault = 0
    MaxCount = 2
    Faults = TRUE
    Memory = m
    Author = u1
    ContextKeys = {"userID"}
    Shares = {s1}
SPECIFICATION SharingSpec
SYMMETRY Symmetry
INVARIANT MembersOvershootBounded
INVARIANT CountCoversMembers
INVARIANT StragglersBounded
INVARIANT ShutOutStayOut
INVARIANT GivenSeatsStay
