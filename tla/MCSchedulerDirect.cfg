CONSTANTS
    Jobs = {1}
    Workers = {w1, w2}
    None = None
    MaxRecovery = 1
    MaxRetries = 1
    Outcomes = {"failed", "not_run"}
    Modes = {"local", "direct"}
    LocalPermits = 1
    CloudPermits = 1
    MishapKinds = {"sleep", "database", "crash"}
    MaxMishaps = 1
SPECIFICATION SchedulerSpec
INVARIANTS SchedulerTypeOK PermitOrder LocalChainUnlocked
PROPERTIES OnlyOwnerSettles OnlyOwnerWritesDraft
SYMMETRY WorkerSymmetry
