CONSTANTS
    None = None
    Unsupported = Unsupported
    t1 = t1
    t2 = t2
    folder = folder
    Tracks = {t1, t2}
    Folders = {folder}
    Folder <- MCFolder
    Limit = 6
    MaxWaitTicks = 2
    IntMax = 15
    MaxRows = 2
    Interactions = {settled}
    Settled = settled
    Totals = {2}
    Scopes = {folder}
    Identities = {t1, t2}
    Samples <- TopSample
    Outcomes = {"succeeded"}
    Confirmations = {TRUE}
    Stale = {}
SYMMETRY TrackSymmetry
SPECIFICATION Spec
INVARIANTS
    OneRevealPerPublication
