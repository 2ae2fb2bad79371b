\* Two threads whose registers take two versions each.
SPECIFICATION Spec
CONSTANTS
    Threads = {t1, t2}
    Nobody = Nobody
    Versions = {1, 2}
    UserFiles <- ProgramFiles
    UserResults <- Returned
    MaxPc = 1
INVARIANTS
    OwnFrameReached
    HandlerEnvironment
PROPERTIES
    ContextsKept
