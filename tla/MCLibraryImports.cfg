SPECIFICATION Spec
CONSTANTS
    i1 = i1
    i2 = i2
    Leftovers <- MCLeftovers
    Imports = {i1, i2}
    MaxName = 4
    MaxRounds = 1
    MaxCrashes = 1
SYMMETRY MCSymmetry
INVARIANTS TypeOK FilesSurvive
PROPERTIES ScanRepairs
CHECK_DEADLOCK FALSE
