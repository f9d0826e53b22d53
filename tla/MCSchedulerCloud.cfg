CONSTANTS
    Jobs = {1}
    Workers = {w1, w2}
    None = None
    MaxRecovery = 1
    MaxRetries = 0
    Outcomes = {"failed", "not_run"}
    Modes = {"cloud"}
    LocalPermits = 1
    CloudPermits = 1
    MishapKinds = {"sleep", "database"}
    MaxMishaps = 1
SPECIFICATION SchedulerSpec
INVARIANTS CloudWritesAreLocked
PROPERTIES LocalResultSticks
SYMMETRY WorkerSymmetry
