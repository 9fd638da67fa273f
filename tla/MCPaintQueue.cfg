CONSTANTS
    Names = {n1, n2}
    Capacity = 2
    Limit = 6
SYMMETRY NameSymmetry
SPECIFICATION Spec
INVARIANTS
    HeadRetained
    RevokedWorkLeaves
PROPERTIES
    OutcomesAreEarned
