CONSTANTS
    i1 = i1
    i2 = i2
    Item <- Items
    MaxWrites = 1
    MaxPublishes = 2
    MaxMishaps = 1
SYMMETRY Symmetry
SPECIFICATION Spec
INVARIANT EvidenceAlways
CHECK_DEADLOCK FALSE
