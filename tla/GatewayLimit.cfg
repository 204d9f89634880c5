CONSTANTS
    Req = {q1, q2}
    Tables <- PlainTables
    MaxReloads = 0
    MaxTries = 0
SYMMETRY MCSymmetry
SPECIFICATION Spec
PROPERTIES LimitHolds
CHECK_DEADLOCK FALSE
