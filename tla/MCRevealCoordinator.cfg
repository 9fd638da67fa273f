CONSTANTS
    None = None
    Unsupported = Unsupported
    t1 = t1
    t2 = t2
    folder = folder
    Tracks = {t1, t2}
    Folders = {folder, elsewhere}
    Folder <- MCFolder
    Limit = 4
    MaxWaitTicks = 2
    IntMax = 15
    MaxRows = 2
    Interactions = {settled, contact}
    Settled = settled
    Totals = {2}
    Scopes = {folder, elsewhere, None}
    Identities = {t1, t2, None, Unsupported}
    Samples <- AllSamples
    Outcomes = {"succeeded", "failed", "unknown"}
    Confirmations = {TRUE, FALSE}
    Stale = {0}
SYMMETRY TrackSymmetry
SPECIFICATION Spec
INVARIANTS
    IssuedIsCurrent
    RowsFollowGeneration
    PromotionNeverFails
PROPERTIES
    PlaybackBrackets
