SPECIFICATION Spec
CONSTANTS
    t1 = t1
    t2 = t2
    Threads = {t1, t2}
    Operations = 3
    Capacity = 2
    TicketLimit = 2
SYMMETRY Symmetry
\* A mutex that a failed service keeps stops every later call.
CHECK_DEADLOCK FALSE
INVARIANTS
    FaultsHaveCause
    QuiescentIsQuiet
    PaintIsAccounted
    OneCleanupIntent
