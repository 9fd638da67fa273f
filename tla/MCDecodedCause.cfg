SPECIFICATION Spec
CONSTANTS
    Nodes = {1, 2}
    Capacity <- Room
    RevisionLimit = 3
    ScopeLimit = 1
    MaxOccasions = 2
INVARIANTS TrueCause HonestDecodes UnrejectedIsUndisturbed
CHECK_DEADLOCK FALSE
