CONSTANTS
    Threads = {t1, t2, t3}
    TicketLimit = 2
    Retries = 2
SPECIFICATION FairSpec
PROPERTIES
    BracketSpec
    CallsReturn
