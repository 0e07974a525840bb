\* Two overlapping requests over four tokens: a parent can get two children
\* and still leave a token for a third, forbidden one.
CONSTANTS
    u1 = u1
    u2 = u2
    t1 = t1
    t2 = t2
    t3 = t3
    t4 = t4
    r1 = r1
    r2 = r2
    None = None
    Users = {u1, u2}
    Tokens = {t1, t2, t3, t4}
    Requests = {r1, r2}
    Faults = {"loaded", "rotated", "reuse", "logout"}
SPECIFICATION Spec
SYMMETRY Symmetry
INVARIANT TypeOK
INVARIANT RotationConsumesParent
INVARIANT ExchangesBounded
INVARIANT PurgeEscapeBounded
PROPERTY ImplementsClaimed
\* The pool of tokens is finite: once it is used up a request can only wait.
CHECK_DEADLOCK FALSE
