SPECIFICATION Spec
CONSTANTS
    Events = {e1}
    Direct = {d1}
    Unhandled = {}
    NoJob = NoJob
    MaxAttempts = 2
    OutboxAttempts = 2
    LeaseTime = 1
    MaxBackoff = 2
    BatchSize = 1
    Faults = {"dispatch", "handler"}
    MaxCrashes = 1
    MaxRetries = 1
    Horizon = 1
INVARIANTS
    HandoffSafe
    AttemptsBounded
    HeldJobRunning
    EffectsMatchAttempts
    AttemptsSpent
PROPERTIES
    ImplementsDelivery
CHECK_DEADLOCK FALSE
