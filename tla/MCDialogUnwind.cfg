CONSTANTS
    Threads = {t1, t2}
    MaxFrames = 6
    Retries = 2
SYMMETRY ThreadSymmetry
SPECIFICATION DialogSpec
INVARIANTS
    BusyHasOwner
    ErrorsAreReported
    StopsTheWholeChain
    RetainedIsQuarantined
PROPERTIES
    LockSpec
