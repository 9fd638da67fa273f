CONSTANTS
    IntMax = 7
    MaxRows = 3
SPECIFICATION ListSpec
INVARIANTS
    CoreAgrees
    RevealsMinimally
