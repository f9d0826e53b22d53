CONSTANTS
    Jobs = {1, 2}
    Workers = {w1, w2}
    None = None
    MaxRecovery = 1
    MaxRetries = 1
    Outcomes = {"succeeded"}
SPECIFICATION Spec
INVARIANTS TypeOK LeaseIffRunning OwnersAreDistinct CancelIsNotFailure
PROPERTIES CancelSticks ImplementsLifecycle
SYMMETRY WorkerSymmetry
