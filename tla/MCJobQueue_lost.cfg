SPECIFICATION FairSpec
CONSTANTS
    Events = {e1}
    Direct = {d1}
    Unhandled = {}
    NoJob = NoJob
    MaxAttempts = 2
    OutboxAttempts = 2
    LeaseTime = 1
    MaxBackoff = 2
    BatchSize = 1
    Faults = {}
    MaxCrashes = 1
    MaxRetries = 0
    Horizon = 1
PROPERTIES
    EventsHandedOver
CHECK_DEADLOCK FALSE
