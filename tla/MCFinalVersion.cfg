CONSTANTS
    i1 = i1
    i2 = i2
    Item <- Items
    MaxWrites = 1
    MaxPublishes = 2
    MaxMishaps = 1
SYMMETRY Symmetry
SPECIFICATION Spec
INVARIANTS FinalTypeOK EvidenceKept GapsAreForced StatusTells
PROPERTY DeletionConfirmed
CHECK_DEADLOCK FALSE
