\* One process after another, with two requests that edit the profile.
CONSTANTS
    Callers = {main}
    main = main
    Workers = {w1}
    BatchSize = 1
    None = None
    Editors = {e1, e2}
    Nicknames = {n1, n2}
    Kept = Kept
SPECIFICATION FairServer
INVARIANT ServerTypeOK
INVARIANT ContextForWorker
INVARIANT NothingAfterClose
INVARIANT EditsLostToOverlap
PROPERTY ShutdownEnds
