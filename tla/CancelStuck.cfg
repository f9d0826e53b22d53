CONSTANTS
    Jobs = {1}
    Workers = {w1}
    None = None
    MaxRecovery = 1
    MaxRetries = 0
    Outcomes = {"failed", "not_run"}
    Modes = {"direct"}
    LocalPermits = 1
    CloudPermits = 1
    MishapKinds = {}
    MaxMishaps = 0
SPECIFICATION FairSchedulerSpec
PROPERTIES CancelHonoured
