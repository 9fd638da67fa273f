SPECIFICATION Spec
CONSTANTS
    t1 = t1
    t2 = t2
    Threads = {t1, t2}
    Capacity = 2
    OwnerCapacity = 2
    TicketLimit = 5
    Watched = 1
SYMMETRY Symmetry
\* A mutex that a failed service keeps stops every later call.
CHECK_DEADLOCK FALSE
INVARIANTS
    FaultsHaveCause
    LostClaimsAreFaults
    DrainedForGood
PROPERTIES
    OutcomesAreEarned
    ImplementsContract
