CONSTANTS
    Jobs = {1}
    Workers = {w1, w2}
    None = None
    MaxRecovery = 1
    MaxRetries = 0
    Outcomes = {"failed", "not_run"}
    Modes = {"local", "cloud", "direct"}
    LocalPermits = 1
    CloudPermits = 1
    MishapKinds = {"crash"}
    MaxMishaps = 1
SPECIFICATION FairSchedulerSpec
PROPERTIES UncancelledJobsSettle ReadyItemOpens LocalCancelHonoured
