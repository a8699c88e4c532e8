SPECIFICATION FairSpec
CONSTANTS
    Events = {e1, e2}
    Direct = {}
    Unhandled = {e2}
    NoJob = NoJob
    MaxAttempts = 2
    OutboxAttempts = 2
    LeaseTime = 1
    MaxBackoff = 1
    BatchSize = 1
    Faults = {"dispatch", "settle"}
    MaxCrashes = 1
    MaxRetries = 0
    Horizon = 1
PROPERTIES
    LeasesRecovered
    NothingElseLost
CHECK_DEADLOCK FALSE
